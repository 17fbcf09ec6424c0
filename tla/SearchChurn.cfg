CONSTANTS
    o = o
    a = a
    h = h
    d = d
    w1 = w1
    w2 = w2
    NoEntry = NoEntry
    Node = {o, a, h, d}
    Links <- Star
    Searcher = o
    Entry = a
    Word = {w1, w2}
    Holds <- OneHolder
    Leavers = {o, d}
    Crashers = {o}
    MaxLives = 2
    MaxSid <- Ids

SPECIFICATION Spec
CHECK_DEADLOCK FALSE

INVARIANTS
    WaitsForLost
    AnswersOwn
    NewIdFinds
