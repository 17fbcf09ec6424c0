CONSTANTS
    c1 = c1
    c2 = c2
    f1 = f1
    f2 = f2
    f1more = f1more
    f2more = f2more
    long = long
    other = other
    Nobody = Nobody
    Client = {c1, c2}
    Fname = {f1, f2, f1more, f2more, long, other}
    FileOf <- Files
    Suffixed <- Longer
    Long = {long}
    PartSize = 2
    Unwritable <- ReadOnly
    AnyReads = {c2}
    Killable = {1, 2}

SPECIFICATION FairSpec
CHECK_DEADLOCK FALSE

INVARIANTS
    CopyExact
    FailureTrue
PROPERTY ClientsEnd
