\* The smallest instance in which two threads get in each other's way.
SPECIFICATION Spec
CONSTANTS
    Peer = {p1, p2}
    Main = Main
    Accept = Accept
    Monitor = Monitor
    Nobody = Nobody
    FirstPeer = FALSE
    Endings = {"eof", "reset"}
    MaxNeighbors = 1
    MaxMessages = 2
SYMMETRY Connections
CHECK_DEADLOCK FALSE
INVARIANT NoUseAfterFree
