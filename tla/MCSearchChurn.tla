---------------------------- MODULE MCSearchChurn ----------------------------
(* A star: o searches, a is in the middle, h has a file, d comes to nothing. *)
EXTENDS SearchChurn, TLC

CONSTANTS o, a, h, d, w1, w2

Ids == <<1, 2>>
Star == {<<o, a>>, <<h, a>>, <<d, a>>}
OneHolder == [n \in Node |-> IF n = h THEN {w1} ELSE {}]

\* What NewIdFinds needs of an overlay.
ASSUME StarAssumption == Tree /\ HoldersApart
=============================================================================
