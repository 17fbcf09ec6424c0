\* Two connections that say two things each, one of them perhaps that of main.
SPECIFICATION Spec
CONSTANTS
    Peer = {p1, p2}
    Main = Main
    Accept = Accept
    Monitor = Monitor
    Nobody = Nobody
    FirstPeer = FALSE
    Endings = {"eof", "reset"}
    MaxNeighbors = 1
    MaxMessages = 2
SYMMETRY Connections
CHECK_DEADLOCK FALSE
INVARIANTS
    TypeOK
    PeersExact
    FreedAfterJoin
