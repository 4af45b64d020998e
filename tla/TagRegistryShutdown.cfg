CONSTANTS
    a = a  b = b  bad = bad  dflt = dflt  grav = grav  none = none
    r1 = r1  r2 = r2  noreq = noreq
    Names <- MCNames
    BadNames <- MCBadNames
    DefaultTagName = dflt
    GravwellTagName = grav
    NoName = none
    MaxTag <- MCMaxTag
    MaxList <- MCMaxList
    WriteFaults = FALSE
    Requests <- MCRequests
    NoReq = noreq
    CloseFaults = FALSE
SPECIFICATION FullSpec
INVARIANT NoOrphanInstance
