--------------------------- MODULE MCSimpleSearch ---------------------------
(***************************************************************************)
(* Small instances of SimpleSearch.  Ends are tuples <<n, m, k>>: n's side  *)
(* of the k-th connection of n and m.                                       *)
(***************************************************************************)
EXTENDS SimpleSearch, TLC

CONSTANTS a, b, c, d, o, f, g, fname, gname, kw

Connection(n, m) == {<<n, m, 1>>, <<m, n, 1>>}

MCOwner == [e \in End |-> e[1]]
MCOther == [e \in End |-> <<e[2], e[1], e[3]>>]

MCName == (f :> fname) @@ (g :> gname)
MCKeywords == [x \in File |-> {kw}]
NoKeywords == [x \in File |-> {}]

\* An index from the files a node has, kw standing for the last line's file.
Offers(files, last) ==
    [w \in Word |-> IF w = kw THEN last
                    ELSE IF \E x \in files : Name[x] = w
                         THEN CHOOSE x \in files : Name[x] = w ELSE NoFile]

Empty == Offers({}, NoFile)

\* A tree: o - a - b, a - c, and d with no connection.  o searches; f is at b and
\* c, and c has also g, whose line is later in its index file.
TreeNodes == {o, a, b, c, d}
TreeEnds == Connection(o, a) \cup Connection(a, b) \cup Connection(a, c)
TreeIndex == [n \in TreeNodes |->
    CASE n = b -> Offers({f}, f) [] n = c -> Offers({f, g}, g) [] OTHER -> Empty]
TreeHops == <<1, 2>>

\* What FloodCoversHops needs of an overlay.
ASSUME TreeAssumption == End = TreeEnds => Forest

\* A cycle o - a - b - o with c behind b; f is at c.
CycleNodes == {o, a, b, c}
CycleEnds == Connection(o, a) \cup Connection(a, b) \cup Connection(b, o)
                \cup Connection(b, c)
CycleIndex == [n \in CycleNodes |-> IF n = c THEN Offers({f}, f) ELSE Empty]
CycleHops == <<2, 4>>

=============================================================================
