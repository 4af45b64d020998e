\* Every exported operation of TagMan, writes never fail.
CONSTANTS
    a = a
    b = b
    bad = bad
    dflt = dflt
    grav = grav
    none = none
    Names <- MCNames
    BadNames <- MCBadNames
    DefaultTagName = dflt
    GravwellTagName = grav
    NoName = none
    MaxTag <- MCMaxTag
    MaxList <- MCMaxList
    WriteFaults = FALSE
SPECIFICATION Spec
SYMMETRY MCSymmetry
INVARIANT TypeOK
INVARIANT ReservedIntact
PROPERTY AppendOnly
\* A closed dictionary whose allocatable ids are all in use cannot be
\* reopened (run tagman_full_reopen): the model really stops there.
CHECK_DEADLOCK FALSE
