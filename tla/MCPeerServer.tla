--------------------------- MODULE MCPeerServer ----------------------------
(* Instances of PeerServer.                                                  *)
EXTENDS PeerServer, TLC

Connections == Permutations(Peer)
=============================================================================
