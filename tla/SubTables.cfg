CONSTANTS
    Slots <- TwoInterfaces
    Most = 2
    Readings = 2
    Changes = 2
SPECIFICATION Spec
INVARIANTS SampledHaveRows CountersFollow EventsWriteLiveRows
CHECK_DEADLOCK FALSE
