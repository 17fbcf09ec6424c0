\* Two connections that say one thing each.
SPECIFICATION FairSpec
CONSTANTS
    Peer = {p1, p2}
    Main = Main
    Accept = Accept
    Monitor = Monitor
    Nobody = Nobody
    FirstPeer = TRUE
    Endings = {"eof"}
    MaxNeighbors = 1
    MaxMessages = 1
CHECK_DEADLOCK FALSE
PROPERTIES
    DisconnectedAreFreed
    ShutDownCompletes
