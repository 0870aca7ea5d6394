CONSTANTS
    VEs = {v1}
    States = {s1, s2}
    Units = {u1, u2, u3, u4}
    Callbacks = {c1}
    Echo = TRUE
    Changes = 1
    NoUnit = NoUnit
    NoVE = NoVE
    Unknown = Unknown
SPECIFICATION FairSpec
PROPERTIES
    CountSettles
