\* assignTag updates the maps before its write can fail.
CONSTANTS
    a = a
    b = b
    bad = bad
    dflt = dflt
    grav = grav
    none = none
    Names <- MCNames
    BadNames <- MCBadNames
    DefaultTagName = dflt
    GravwellTagName = grav
    NoName = none
    MaxTag <- MCMaxTag
    MaxList <- MCMaxList
    WriteFaults = TRUE
SPECIFICATION ServerSpec
SYMMETRY MCSymmetry
INVARIANT FileMirrorsMemory
CHECK_DEADLOCK FALSE
