\* EnsureTag inserts into the maps without writing tags.dat.
CONSTANTS
    a = a
    b = b
    bad = bad
    dflt = dflt
    grav = grav
    none = none
    Names <- MCNames
    BadNames <- MCBadNames
    DefaultTagName = dflt
    GravwellTagName = grav
    NoName = none
    MaxTag <- MCMaxTag
    MaxList <- MCMaxList
    WriteFaults = FALSE
SPECIFICATION Spec
SYMMETRY MCSymmetry
INVARIANT FileMirrorsMemory
CHECK_DEADLOCK FALSE
