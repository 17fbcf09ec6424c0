\* A peer sends six messages; read() returns 12 atoms at most.
CONSTANTS
    Peer = "dc02"
    Neighbors <- TwoNeighbors
    Asked = {"dc01-1", "dc01-2"}
    Created = {"dc01-1"}
    Seen = {"dc02-2"}
    Asks = {"dc02-1", "dc02-2"}
    Word = {"f"}
    Hits <- TwoHits
    MaxRead = 12
    MaxMessages = 6

SPECIFICATION Spec
CHECK_DEADLOCK FALSE

INVARIANTS
    AloneUnderstood
    LeaveNoticed
    AnswersCounted
    FirstDecides
