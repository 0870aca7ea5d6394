CONSTANTS
    k1 = k1
    k2 = k2
    m1 = m1
    Keys = {k1, k2}
    Metrics = {}
    Rows = {r1, r2}
    NoRow = NoRow
    Pdus <- HalfFailedPdus
    Sets = 3
    Word = 3
SPECIFICATION Spec
INVARIANTS
    FailedSetLeavesNoRow
