\* The operations the HTTP server reaches, writes never fail.
CONSTANTS
    a = a
    b = b
    bad = bad
    dflt = dflt
    grav = grav
    none = none
    Names <- MCNames
    BadNames <- MCBadNames
    DefaultTagName = dflt
    GravwellTagName = grav
    NoName = none
    MaxTag <- MCMaxTag
    MaxList <- MCMaxList
    WriteFaults = FALSE
SPECIFICATION ServerSpec
SYMMETRY MCSymmetry
INVARIANT TypeOK
INVARIANT TagBijection
INVARIANT FileMirrorsMemory
\* A full dictionary cannot be reopened (run tagman_full_reopen).
CHECK_DEADLOCK FALSE
