--------------------------- MODULE MCSearchStream ---------------------------
(* A short stream. *)
EXTENDS SearchStream, TLC

TwoNeighbors == <<"dc03", "dc04">>
TwoHits == <<"dc05-f", "dc06-g">>
=============================================================================
