CONSTANTS
    Jobs = {j1, j2, j3}
    Delays = {0, 1, 3}
    Horizon = 4
SPECIFICATION FairSpec
INVARIANTS
    EachJobOnce
    NoLostWakeup
PROPERTIES
    StartsInDueOrder
    ImplementsJobQueue
    AcceptedJobSettles
    StopReturns
