\* ResetOverride stores a client list unchecked: expected to break the bijection.
CONSTANTS
    a = a
    b = b
    bad = bad
    dflt = dflt
    grav = grav
    none = none
    Names <- MCNames
    BadNames <- MCBadNames
    DefaultTagName = dflt
    GravwellTagName = grav
    NoName = none
    MaxTag <- MCMaxTag
    MaxList <- MCMaxList
    WriteFaults = FALSE
SPECIFICATION Spec
SYMMETRY MCSymmetry
INVARIANT TagBijection
CHECK_DEADLOCK FALSE
