CONSTANTS
    k1 = k1
    k2 = k2
    m1 = m1
    Keys = {k1, k2}
    Metrics = {m1}
    Rows = {r1, r2, r3}
    NoRow = NoRow
    Pdus <- AllPdus
    Sets = 3
    Word = 3
SPECIFICATION FairSpec
INVARIANTS
    OneChainPerRow
    CommittedRowsAreTracked
    ContainersHoldLiveRows
PROPERTIES
    ImplementsSubscription
    SpentRowsAreReaped
