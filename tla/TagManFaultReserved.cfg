\* ResetOverride empties the maps before its truncation can fail.
CONSTANTS
    a = a
    b = b
    bad = bad
    dflt = dflt
    grav = grav
    none = none
    Names <- MCNames
    BadNames <- MCBadNames
    DefaultTagName = dflt
    GravwellTagName = grav
    NoName = none
    MaxTag <- MCMaxTag
    MaxList <- MCMaxList
    WriteFaults = TRUE
SPECIFICATION Spec
SYMMETRY MCSymmetry
INVARIANT ReservedIntact
CHECK_DEADLOCK FALSE
