CONSTANTS
    Slots <- OneDisk
    Most = 1
    Readings = 2
    Changes = 1
SPECIFICATION Spec
INVARIANT UsageIsCurrent
CHECK_DEADLOCK FALSE
