CONSTANTS
    VEs = {1, 2}
    Columns = {c1, c2}
    Counters = {c3}
    Limits = {0, 1, 2, 13}
    Word = 4
SPECIFICATION Spec
INVARIANTS
    EachProviderOnce
    TrapsAreFull
    LivingAreReported
