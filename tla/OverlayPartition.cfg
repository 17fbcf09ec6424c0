\* Two peers of a star leave at the same time.
CONSTANTS
    a = a
    b = b
    d = d
    h = h
    NoName = NoName
    NoEnd = NoEnd
    Node = {a, b, h, d}
    Overlays <- OnlyHub
    Joins <- Command
    MaxLinks = 6

SPECIFICATION Spec
CHECK_DEADLOCK FALSE

INVARIANT NoPartition
