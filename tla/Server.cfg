CONSTANTS
    VEs = {v1}
    States = {s1, s2}
    Units = {u1, u2, u3, u4}
    Callbacks = {c1}
    Echo = TRUE
    Changes = 2
    NoUnit = NoUnit
    NoVE = NoVE
    Unknown = Unknown
SPECIFICATION FairSpec
INVARIANTS
    NoNullHost
    CountIsCurrent
    OneLink
    OneChainPerUnit
    RowsAreOfLivingUnits
PROPERTIES
    SessionsRecover
    VesSettle
    
