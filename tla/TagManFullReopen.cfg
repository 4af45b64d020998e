\* Merge fills every allocatable id; New then refuses the file.
CONSTANTS
    a = a
    b = b
    bad = bad
    dflt = dflt
    grav = grav
    none = none
    Names <- MCNames
    BadNames <- MCBadNames
    DefaultTagName = dflt
    GravwellTagName = grav
    NoName = none
    MaxTag <- MCMaxTag
    MaxList <- MCMaxList
    WriteFaults = FALSE
SPECIFICATION ServerSpec
SYMMETRY MCSymmetry
INVARIANT Reopenable
CHECK_DEADLOCK FALSE
