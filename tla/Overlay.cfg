\* Peers join and leave at the same time, in four overlays.
CONSTANTS
    a = a
    b = b
    d = d
    h = h
    NoName = NoName
    NoEnd = NoEnd
    Node = {a, b, h, d}
    Overlays <- SmallOverlays
    Joins <- Command
    MaxLinks = 6

SPECIFICATION Spec
CHECK_DEADLOCK FALSE

INVARIANTS
    TypeOK
    StaysConnected
    ListsAgree
    NoSpareLinks
    NothingStuck
