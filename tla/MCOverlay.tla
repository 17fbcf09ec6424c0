------------------------------ MODULE MCOverlay ------------------------------
(* Small overlays. *)
EXTENDS Overlay, TLC

CONSTANTS a, b, d, h

\* Whoever is not up joins: b at h, d at a.
Command == (a :> {}) @@ (b :> {h}) @@ (h :> {}) @@ (d :> {a})

\* a - h - b, with d joining at a.  The middle and the peer that d knows leave.
Star == [up |-> {a, b, h}, links |-> <<<<a, h>>, <<b, h>>>>, leavers |-> {h, a}]

\* The same with a connection between a and b; one node leaves.
Triangle == [up |-> {a, b, h}, links |-> <<<<a, h>>, <<b, h>>, <<a, b>>>>, leavers |-> {h}]

\* a - h, with b joining at h and d at a; one of a and h leaves, perhaps before a name
\* was read.
Pair(leaver) == [up |-> {a, h}, links |-> <<<<a, h>>>>, leavers |-> {leaver}]

SmallOverlays == {Star, Triangle, Pair(a), Pair(h)}

\* a, b and d around h; nobody joins.
Hub == [up |-> {a, b, d, h}, links |-> <<<<a, h>>, <<b, h>>, <<d, h>>>>, leavers |-> {h, a}]
OnlyHub == {Hub}

=============================================================================
