----------------------------- MODULE MCProject1 -----------------------------
(* Two clients; the second has short reads and cannot write f2.  A user may ask for
   either file, for "f1.dat_CONTENTS", and for a name read in two pieces. *)
EXTENDS Project1

CONSTANTS c1, c2, f1, f2, f1more, f2more, long, other

Files == <<f1, f2>>
Longer == <<f1more, f2more>>
ReadOnly == {<<c2, f2>>}
=============================================================================
