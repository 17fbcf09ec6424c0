CONSTANTS
    o = o
    a = a
    b = b
    c = c
    d = d
    f = f
    g = g
    fname = fname
    gname = gname
    kw = kw
    NoFile = NoFile
    NoEntry = NoEntry
    Node <- TreeNodes
    End <- TreeEnds
    Owner <- MCOwner
    Other <- MCOther
    Word = {fname, gname, kw}
    File = {f, g}
    Name <- MCName
    Keywords <- MCKeywords
    Index0 <- TreeIndex
    Searchers = {o, b}
    Hops <- TreeHops
    MaxSid = 3

SPECIFICATION Spec
CHECK_DEADLOCK FALSE

INVARIANTS
    TypeOK
    HitsSound
    EveryHolderReported
    FloodCoversHops
PROPERTIES
    ServiceSpec
