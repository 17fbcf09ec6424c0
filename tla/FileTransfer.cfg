\* Files of every interesting size; a may be killed, b has reads of any length and
\* cannot write one of them: two downloads.
SPECIFICATION FairSpec
CONSTANTS
    a = a  b = b  s = s
    whole = whole  full = full  exact = exact  large = large  lost = lost
    k1 = k1  k2 = k2  k3 = k3
    NoEntry = NoEntry
    Garbage = Garbage
    Truncated = Truncated
    Long = {k3}
    Node = {a, b, s}
    File = {whole, exact, full, large, lost}
    NoKeywords = NoKeywords
    Keywords = {k1, k2, k3, NoKeywords, Garbage, Truncated}
    Conn = {1, 2}
    Size <- Sizes
    Disk0 <- Disks
    Index0 <- Indexes0
    MsgSize = 2
    MaxFileSize = 4
    Sought <- Wanted
    Unwritable <- ReadOnly
    FixedIndex = {}
    NewlineEnded = {}
    Restarting = {a}
    AnyReads = {b}
CHECK_DEADLOCK FALSE
INVARIANTS
    TypeOK
    CompleteIsExact
    CopiesArePrefixes
    KeywordsTrue
    IndexSurvives
PROPERTY DownloadEnds
