CONSTANTS
    o = o
    a = a
    b = b
    c = c
    d = d
    f = f
    g = g
    fname = fname
    gname = gname
    kw = kw
    NoFile = NoFile
    NoEntry = NoEntry
    Node <- CycleNodes
    End <- CycleEnds
    Owner <- MCOwner
    Other <- MCOther
    Word = {fname, gname}
    File = {f, g}
    Name <- MCName
    Keywords <- NoKeywords
    Index0 <- CycleIndex
    Searchers = {o}
    Hops <- CycleHops
    MaxSid = 2

SPECIFICATION FairSpec
CHECK_DEADLOCK FALSE

INVARIANTS
    ResponsesSolicited
    EveryReplyCounted
    NoHitTwice
    FloodWithinHops
    EveryHolderReported
PROPERTIES
    RelaysAnswer
    ServiceEnds
