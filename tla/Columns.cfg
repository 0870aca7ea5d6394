\* Two changes of the host, of two names and counts.
CONSTANTS
    Unlimited = unlimited
    Combined = combined
    Licences <- MCLicences
    NoLimit = 3
    Half = 8
    Names = {n1, n2}
    Nodes = {a}
    Nothing = nothing
    Counts = {0, 1}
    Changes = 2
SPECIFICATION Spec
INVARIANTS ReportsShowOneLicence NodeIsOfName
PROPERTIES ConfigSettles LicenceSettles MemorySettles
