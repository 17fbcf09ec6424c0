------------------------ MODULE SimpleSearchDelivery ------------------------
(***************************************************************************)
(* Every request is answered exactly once, and a relay waits for exactly   *)
(* the replies that are still to come.  When the flood is over nobody      *)
(* waits, and every peer it reached that has the file is on the list:      *)
(* proofs about SimpleSearch for every overlay.  Without cycles it has     *)
(* reached everybody within its hops.                                      *)
(***************************************************************************)
EXTENDS SimpleSearchProofs

OneIf(P) == IF P THEN 1 ELSE 0

Says(msg, type, s) == msg.type = type /\ msg.sid = s

\* How many messages of search s and this type are in queue q.
Num(q, type, s) == Cardinality({i \in 1..Len(q) : Says(q[i], type, s)})

LEMMA NumType ==
    ASSUME NEW q \in Seq(Message), NEW type, NEW s
    PROVE  /\ IsFiniteSet({i \in 1..Len(q) : Says(q[i], type, s)})
           /\ Num(q, type, s) \in Nat
<1>1. IsFiniteSet(1..Len(q))
  BY FS_Interval
<1>2. IsFiniteSet({i \in 1..Len(q) : Says(q[i], type, s)})
  BY <1>1, FS_Subset
<1>. QED  BY <1>2, FS_CardinalityType DEF Num

LEMMA NumAppend ==
    ASSUME NEW q \in Seq(Message), NEW msg \in Message, NEW type, NEW s
    PROVE  Num(Append(q, msg), type, s) = Num(q, type, s) + OneIf(Says(msg, type, s))
<1>. DEFINE S(r) == {i \in 1..Len(r) : Says(r[i], type, s)}
            longer == Append(q, msg)
<1>1. /\ Len(q) \in Nat /\ Len(longer) = Len(q) + 1 /\ longer[Len(q) + 1] = msg
      /\ \A i \in 1..Len(q) : longer[i] = q[i]
  OBVIOUS
<1>2. IsFiniteSet(S(q)) /\ Cardinality(S(q)) \in Nat /\ Len(q) + 1 \notin S(q)
  <2>1. IsFiniteSet(S(q)) /\ Cardinality(S(q)) \in Nat
    BY NumType DEF Num
  <2>2. Len(q) + 1 \notin S(q)
    BY <1>1
  <2>. QED  BY <2>1, <2>2
<1>3. CASE Says(msg, type, s)
  <2>1. S(longer) = S(q) \cup {Len(q) + 1}
    <3>. HIDE DEF longer
    <3>. QED  BY <1>1, <1>3
  <2>2. Cardinality(S(longer)) = Cardinality(S(q)) + 1
    <3>. HIDE DEF S
    <3>. QED  BY <1>2, <2>1, FS_AddElement
  <2>. QED  BY <1>3, <2>2 DEF Num, OneIf
<1>4. CASE ~Says(msg, type, s)
  <2>1. S(longer) = S(q)
    <3>. HIDE DEF longer
    <3>. QED  BY <1>1, <1>4
  <2>2. Cardinality(S(longer)) = Cardinality(S(q)) + 0
    <3>. HIDE DEF S, longer
    <3>. QED  BY <1>2, <2>1
  <2>. QED  BY <1>4, <2>2 DEF Num, OneIf
<1>. QED  BY <1>3, <1>4

LEMMA NumTail ==
    ASSUME NEW q \in Seq(Message), q # <<>>, NEW type, NEW s
    PROVE  Num(q, type, s) = Num(Tail(q), type, s) + OneIf(Says(Head(q), type, s))
<1>. DEFINE S(r) == {i \in 1..Len(r) : Says(r[i], type, s)}
            rest == Tail(q)
            later == S(q) \ {1}
            next == [i \in S(rest) |-> i + 1]
<1>1. /\ rest \in Seq(Message) /\ Len(q) \in Nat \ {0} /\ Len(rest) = Len(q) - 1
      /\ Head(q) = q[1] /\ \A i \in 1..Len(rest) : rest[i] = q[i + 1]
  OBVIOUS
<1>. HIDE DEF rest
<1>2. next \in Bijection(S(rest), later)
  <2>1. \A i \in S(rest) : next[i] = i + 1 /\ i + 1 \in later
    BY <1>1
  <2>2. \A j \in later : j - 1 \in S(rest) /\ next[j - 1] = j
    <3>1. ASSUME NEW j \in later PROVE j - 1 \in S(rest)
      <4>1. j \in 1..Len(q) /\ j # 1 /\ Says(q[j], type, s)
        OBVIOUS
      <4>2. j - 1 \in 1..Len(rest) /\ (j - 1) + 1 = j
        BY <1>1, <4>1
      <4>3. rest[j - 1] = q[j]
        BY <1>1, <4>2
      <4>. QED  BY <4>1, <4>2, <4>3
    <3>2. ASSUME NEW j \in later PROVE next[j - 1] = j
      <4>1. j \in Nat /\ j - 1 \in S(rest)
        BY <1>1, <3>1
      <4>. QED  BY <4>1
    <3>. QED  BY <3>1, <3>2
  <2>3. \A i, j \in S(rest) : next[i] = next[j] => i = j
    BY <2>1
  <2>. HIDE DEF S, later
  <2>4. next \in [S(rest) -> later]
    BY <2>1
  <2>. HIDE DEF next
  <2>5. next \in Injection(S(rest), later)
    BY <2>3, <2>4 DEF Injection, IsInjective
  <2>6. next \in Surjection(S(rest), later)
    BY <2>2, <2>4 DEF Surjection
  <2>. QED  BY <2>5, <2>6 DEF Bijection
<1>3. IsFiniteSet(S(rest)) /\ IsFiniteSet(S(q)) /\ Cardinality(S(rest)) \in Nat
  BY <1>1, NumType DEF Num
<1>4. Cardinality(later) = Cardinality(S(rest)) /\ IsFiniteSet(later)
  <2>. HIDE DEF S, later, next
  <2>. QED  BY <1>2, <1>3, FS_Bijection DEF ExistsBijection
<1>5. CASE Says(Head(q), type, s)
  <2>1. S(q) = later \cup {1} /\ 1 \notin later
    BY <1>1, <1>5
  <2>2. Cardinality(S(q)) = Cardinality(later) + 1
    <3>. HIDE DEF S, later
    <3>. QED  BY <1>4, <2>1, FS_AddElement
  <2>. QED  BY <1>4, <1>5, <2>2 DEF Num, OneIf, rest
<1>6. CASE ~Says(Head(q), type, s)
  <2>1. S(q) = later
    BY <1>1, <1>6
  <2>2. Cardinality(S(q)) = Cardinality(S(rest)) + 0
    <3>. HIDE DEF S, later
    <3>. QED  BY <1>3, <1>4, <2>1
  <2>. QED  BY <1>6, <2>2 DEF Num, OneIf, rest
<1>. QED  BY <1>5, <1>6

LEMMA InFlightIsNum ==
    ASSUME chan \in Channels, NEW x \in End, NEW type, NEW s
    PROVE  InFlight(x, type, s) = Num(chan[x], type, s) /\ InFlight(x, type, s) \in Nat
<1>1. chan[x] \in Seq(Message)
  BY DEF Channels
<1>2. InFlight(x, type, s) = Num(chan[x], type, s)
  BY DEF InFlight, Num, Says, Indexes
<1>. QED  BY <1>1, <1>2, NumType

\* A message is read at e and msg is sent on E.
LEMMA InFlightMoved ==
    ASSUME chan \in Channels, chan' \in Channels, NEW e \in End, chan[e] # <<>>,
           NEW E \in SUBSET End, NEW msg \in Message, chan' = SendOn(Consumed(e), E, msg),
           NEW x \in End, NEW type, NEW s
    PROVE  InFlight(x, type, s)' + OneIf(x = e /\ Says(Head(chan[e]), type, s)) =
           InFlight(x, type, s) + OneIf(Other[x] \in E /\ Says(msg, type, s))
<1>. DEFINE q == Consumed(e)[x]
<1>1. /\ q \in Seq(Message)
      /\ Num(chan[x], type, s) =
             Num(q, type, s) + OneIf(x = e /\ Says(Head(chan[e]), type, s))
  <2>1. CASE x = e
    <3>1. chan[e] \in Seq(Message) /\ Tail(chan[e]) \in Seq(Message) /\ q = Tail(chan[e])
      BY <2>1 DEF Channels, Consumed
    <3>2. Num(chan[e], type, s) =
              Num(Tail(chan[e]), type, s) + OneIf(Says(Head(chan[e]), type, s))
      BY <3>1, NumTail
    <3>. QED  BY <2>1, <3>1, <3>2 DEF OneIf
  <2>2. CASE x # e
    <3>1. chan[x] \in Seq(Message) /\ q = chan[x]
      BY <2>2 DEF Channels, Consumed
    <3>2. Num(chan[x], type, s) \in Nat
      BY <3>1, NumType
    <3>. QED  BY <2>2, <3>1, <3>2 DEF OneIf
  <2>. QED  BY <2>1, <2>2
<1>2. Num(chan'[x], type, s) = Num(q, type, s) + OneIf(Other[x] \in E /\ Says(msg, type, s))
  <2>1. CASE Other[x] \in E
    <3>1. chan'[x] = Append(q, msg)
      BY <2>1 DEF SendOn
    <3>. HIDE DEF q
    <3>2. Num(Append(q, msg), type, s) = Num(q, type, s) + OneIf(Says(msg, type, s))
      BY <1>1, NumAppend
    <3>. QED  BY <2>1, <3>1, <3>2 DEF OneIf
  <2>2. CASE Other[x] \notin E
    <3>1. chan'[x] = q
      BY <2>2 DEF SendOn
    <3>. HIDE DEF q
    <3>2. Num(q, type, s) \in Nat
      BY <1>1, NumType
    <3>. QED  BY <2>2, <3>1, <3>2 DEF OneIf
  <2>. QED  BY <2>1, <2>2
<1>3. /\ InFlight(x, type, s) = Num(chan[x], type, s)
      /\ InFlight(x, type, s)' = Num(chan'[x], type, s)
  BY InFlightIsNum DEF InFlight, Num, Says, Indexes
<1>4. Num(q, type, s) \in Nat
  BY <1>1, NumType
<1>5. \A P : OneIf(P) \in Nat
  BY DEF OneIf
<1>. HIDE DEF q
<1>. QED  BY <1>1, <1>2, <1>3, <1>4, <1>5

----------------------------------------------------------------------------
(* The balance of one search.                                              *)

\* The peer at end x waits for others before it answers the request of s.
Pending(x, s) == Waiting(Owner[x], s) /\ fwd[Owner[x]][s].upstream = x

Debts(n, s) == {e \in ConnectedPeers(n) : Owed(e, s) = 1}

Missing(n, s) ==
    IF Waiting(n, s) THEN fwd[n][s].needed - fwd[n][s].received ELSE 0

Balanced(s) ==
    /\ \A e \in End : Owed(e, s) <= 1
    /\ \A n \in Node \ {s[1]} : Cardinality(Debts(n, s)) = Missing(n, s)

LEMMA CountedByParts ==
    EveryReplyCounted <=> \A s \in Sid : fwd[s[1]][s] = NoEntry => Balanced(s)
BY DEF EveryReplyCounted, Balanced, Debts, Missing, LoopedBack

LEMMA OwedParts ==
    ASSUME chan \in Channels, NEW y \in End, NEW s
    PROVE  /\ Owed(y, s) = InFlight(Other[y], "REQ", s) + InFlight(y, "RESP", s)
                               + OneIf(Pending(Other[y], s))
           /\ Owed(y, s) \in Nat /\ Other[y] \in End
           /\ InFlight(Other[y], "REQ", s) \in Nat /\ InFlight(y, "RESP", s) \in Nat
<1>1. Other[y] \in End
  BY OverlayAssumption
<1>2. InFlight(Other[y], "REQ", s) \in Nat /\ InFlight(y, "RESP", s) \in Nat
  BY <1>1, InFlightIsNum
<1>3. Owed(y, s) = InFlight(Other[y], "REQ", s) + InFlight(y, "RESP", s)
                       + OneIf(Pending(Other[y], s))
  BY DEF Owed, OneIf, Pending
<1>. QED  BY <1>1, <1>2, <1>3 DEF OneIf

\* What is owed at y for s changes with the message read at e, the message sent on E
\* and the relay at the other side.
OwedChange(e, E, msg, y, s) ==
    /\ Owed(y, s) \in Nat /\ Owed(y, s)' \in Nat
    /\ Owed(y, s)' + OneIf(Pending(Other[y], s))
           + OneIf(Other[y] = e /\ Says(Head(chan[e]), "REQ", s))
           + OneIf(y = e /\ Says(Head(chan[e]), "RESP", s)) =
       Owed(y, s) + OneIf(Pending(Other[y], s)')
           + OneIf(y \in E /\ Says(msg, "REQ", s))
           + OneIf(Other[y] \in E /\ Says(msg, "RESP", s))

LEMMA SumsMove ==
    ASSUME NEW i \in Nat, NEW j \in Nat, NEW k \in Nat, NEW l \in Nat,
           NEW m \in Nat, NEW n \in Nat, NEW u \in Nat, NEW v \in Nat,
           NEW p \in Nat, NEW q \in Nat, i + m = j + n, k + u = l + v
    PROVE  (i + k + q) + p + m + u = (j + l + p) + q + n + v
<1>1. (i + m) + (k + u) = (j + n) + (l + v)
  OBVIOUS
<1>. QED  BY <1>1

LEMMA OwedMoved ==
    ASSUME chan \in Channels, chan' \in Channels, NEW e \in End, chan[e] # <<>>,
           NEW E \in SUBSET End, NEW msg \in Message, chan' = SendOn(Consumed(e), E, msg),
           NEW y \in End, NEW s
    PROVE  OwedChange(e, E, msg, y, s)
<1>1. Other[y] \in End /\ Other[Other[y]] = y
  BY OverlayAssumption
<1>2. InFlight(Other[y], "REQ", s)' + OneIf(Other[y] = e /\ Says(Head(chan[e]), "REQ", s)) =
      InFlight(Other[y], "REQ", s) + OneIf(y \in E /\ Says(msg, "REQ", s))
  <2>1. InFlight(Other[y], "REQ", s)' + OneIf(Other[y] = e /\ Says(Head(chan[e]), "REQ", s)) =
        InFlight(Other[y], "REQ", s) + OneIf(Other[Other[y]] \in E /\ Says(msg, "REQ", s))
    BY <1>1, InFlightMoved
  <2>. QED  BY <1>1, <2>1
<1>3. InFlight(y, "RESP", s)' + OneIf(y = e /\ Says(Head(chan[e]), "RESP", s)) =
      InFlight(y, "RESP", s) + OneIf(Other[y] \in E /\ Says(msg, "RESP", s))
  BY InFlightMoved
<1>4. /\ Owed(y, s) = InFlight(Other[y], "REQ", s) + InFlight(y, "RESP", s)
                          + OneIf(Pending(Other[y], s))
      /\ InFlight(Other[y], "REQ", s) \in Nat /\ InFlight(y, "RESP", s) \in Nat
  BY OwedParts
<1>5. /\ Owed(y, s)' = InFlight(Other[y], "REQ", s)' + InFlight(y, "RESP", s)'
                          + OneIf(Pending(Other[y], s)')
      /\ InFlight(Other[y], "REQ", s)' \in Nat /\ InFlight(y, "RESP", s)' \in Nat
  <2>1. /\ InFlight(Other[y], "REQ", s)' \in Nat
        /\ InFlight(y, "RESP", s)' \in Nat
    <3>1. ASSUME NEW x \in End, NEW type PROVE InFlight(x, type, s)' \in Nat
      <4>1. InFlight(x, type, s)' = Num(chan'[x], type, s)
        BY DEF InFlight, Num, Says, Indexes
      <4>2. chan'[x] \in Seq(Message)
        BY DEF Channels
      <4>. QED  BY <4>1, <4>2, NumType
    <3>. QED  BY <1>1, <3>1
  <2>2. Owed(y, s)' = InFlight(Other[y], "REQ", s)' + InFlight(y, "RESP", s)'
                          + OneIf(Pending(Other[y], s)')
    BY DEF Owed, OneIf, Pending
  <2>. QED  BY <2>1, <2>2
<1>. DEFINE r == InFlight(Other[y], "REQ", s)
            r2 == InFlight(Other[y], "REQ", s)'
            a == InFlight(y, "RESP", s)
            a2 == InFlight(y, "RESP", s)'
            p == OneIf(Pending(Other[y], s))
            p2 == OneIf(Pending(Other[y], s)')
            rIn == OneIf(Other[y] = e /\ Says(Head(chan[e]), "REQ", s))
            rOut == OneIf(y \in E /\ Says(msg, "REQ", s))
            aIn == OneIf(y = e /\ Says(Head(chan[e]), "RESP", s))
            aOut == OneIf(Other[y] \in E /\ Says(msg, "RESP", s))
<1>6. p \in Nat /\ p2 \in Nat /\ rIn \in Nat /\ rOut \in Nat /\ aIn \in Nat /\ aOut \in Nat
  BY DEF OneIf
<1>7. /\ Owed(y, s) = r + a + p /\ Owed(y, s)' = r2 + a2 + p2
      /\ r2 + rIn = r + rOut /\ a2 + aIn = a + aOut
      /\ r \in Nat /\ r2 \in Nat /\ a \in Nat /\ a2 \in Nat
  BY <1>2, <1>3, <1>4, <1>5
<1>. HIDE DEF r, r2, a, a2, p, p2, rIn, rOut, aIn, aOut
<1>9. Owed(y, s)' + p + rIn + aIn = Owed(y, s) + p2 + rOut + aOut
  <2>1. (r2 + a2 + p2) + p + rIn + aIn = (r + a + p) + p2 + rOut + aOut
    BY <1>6, <1>7, SumsMove
  <2>. QED  BY <1>7, <2>1
<1>10. Owed(y, s) \in Nat /\ Owed(y, s)' \in Nat
  BY <1>6, <1>7
<1>. QED  BY <1>9, <1>10 DEF OwedChange, p, p2, rIn, rOut, aIn, aOut

LEMMA DebtsFinite ==
    ASSUME NEW n, NEW s
    PROVE  IsFiniteSet(Debts(n, s)) /\ Cardinality(Debts(n, s)) \in Nat
<1>1. IsFiniteSet(Debts(n, s))
  BY OverlayAssumption, FS_Subset DEF Debts, ConnectedPeers
<1>. QED  BY <1>1, FS_CardinalityType

\* A node is owed something exactly if it waits.
LEMMA NobodyOwes ==
    ASSUME chan \in Channels, NEW s \in Sid, Balanced(s),
           NEW y \in End, Owner[y] # s[1], ~Waiting(Owner[y], s)
    PROVE  Owed(y, s) = 0
<1>. DEFINE n == Owner[y]
<1>1. n \in Node \ {s[1]} /\ y \in ConnectedPeers(n)
  BY OverlayAssumption DEF ConnectedPeers
<1>2. Cardinality(Debts(n, s)) = 0
  BY <1>1 DEF Balanced, Missing
<1>3. Debts(n, s) = {}
  BY <1>2, DebtsFinite, FS_EmptySet
<1>4. Owed(y, s) # 1
  BY <1>1, <1>3 DEF Debts
<1>5. Owed(y, s) <= 1 /\ Owed(y, s) \in Nat
  BY OwedParts DEF Balanced
<1>. QED  BY <1>4, <1>5

LEMMA BalanceKept ==
    ASSUME NEW s \in Sid, Balanced(s),
           \A y \in End : Owed(y, s)' = Owed(y, s),
           \A n \in Node \ {s[1]} : Missing(n, s)' = Missing(n, s)
    PROVE  Balanced(s)'
<1>1. \A n : Debts(n, s)' = Debts(n, s)
  BY DEF Debts, ConnectedPeers
<1>. QED  BY <1>1 DEF Balanced

\* A reply has come at e.
LEMMA DebtPaid ==
    ASSUME NEW s \in Sid, Balanced(s), NEW e \in End, Owner[e] # s[1],
           Owed(e, s) = 1, Owed(e, s)' = 0,
           \A y \in End \ {e} : Owed(y, s)' = Owed(y, s),
           \A n \in Node \ {s[1], Owner[e]} : Missing(n, s)' = Missing(n, s),
           Missing(Owner[e], s)' = Missing(Owner[e], s) - 1
    PROVE  Balanced(s)'
<1>. DEFINE n == Owner[e]
<1>1. n \in Node \ {s[1]} /\ e \in Debts(n, s)
  BY OverlayAssumption DEF Debts, ConnectedPeers
<1>2. Debts(n, s)' = Debts(n, s) \ {e}
  BY DEF Debts, ConnectedPeers
<1>3. Cardinality(Debts(n, s) \ {e}) = Cardinality(Debts(n, s)) - 1
  BY <1>1, DebtsFinite, FS_RemoveElement
<1>4. ASSUME NEW m \in Node \ {s[1]} PROVE Cardinality(Debts(m, s)') = Missing(m, s)'
  <2>1. CASE m = n
    <3>1. Cardinality(Debts(n, s)) = Missing(n, s)
      BY <1>1 DEF Balanced
    <3>. QED  BY <1>2, <1>3, <2>1, <3>1
  <2>2. CASE m # n
    <3>1. Debts(m, s)' = Debts(m, s)
      BY <2>2 DEF Debts, ConnectedPeers
    <3>. QED  BY <2>2, <3>1 DEF Balanced
  <2>. QED  BY <2>1, <2>2
<1>5. \A y \in End : Owed(y, s)' <= 1
  BY DEF Balanced
<1>. QED  BY <1>4, <1>5 DEF Balanced

----------------------------------------------------------------------------
(* The steps.                                                              *)

\* A message of another search changes nothing.
LEMMA OtherSearches ==
    ASSUME chan \in Channels, chan' \in Channels, NEW e \in End, chan[e] # <<>>,
           NEW E \in SUBSET End, NEW msg \in Message, chan' = SendOn(Consumed(e), E, msg),
           NEW s \in Sid, Head(chan[e]).sid # s, msg.sid # s,
           \A n \in Node : fwd'[n][s] = fwd[n][s], Balanced(s)
    PROVE  Balanced(s)'
<1>1. ASSUME NEW n \in Node PROVE Waiting(n, s)' = Waiting(n, s) /\ Missing(n, s)' = Missing(n, s)
  BY DEF Waiting, Missing
<1>2. ASSUME NEW y \in End PROVE Owed(y, s)' = Owed(y, s)
  <2>1. Owner[Other[y]] \in Node
    BY OverlayAssumption
  <2>2. Pending(Other[y], s)' <=> Pending(Other[y], s)
    BY <2>1 DEF Pending, Waiting
  <2>3. OwedChange(e, E, msg, y, s)
    BY OwedMoved
  <2>. QED  BY <2>2, <2>3 DEF OwedChange, OneIf, Says
<1>. QED  BY <1>1, <1>2, BalanceKept

\* The answer to the request that was read takes its place.
LEMMA AnswerCounted ==
    ASSUME chan \in Channels, chan' \in Channels, NEW e \in End, chan[e] # <<>>,
           NEW msg \in Message, chan' = SendOn(Consumed(e), {e}, msg),
           NEW s \in Sid, Says(Head(chan[e]), "REQ", s), Says(msg, "RESP", s),
           \A n \in Node : \/ fwd'[n][s] = fwd[n][s]
                           \/ ~Waiting(n, s) /\ ~Waiting(n, s)',
           Balanced(s)
    PROVE  Balanced(s)'
<1>1. ASSUME NEW n \in Node PROVE Missing(n, s)' = Missing(n, s)
  BY DEF Missing, Waiting
<1>2. ASSUME NEW y \in End PROVE Owed(y, s)' = Owed(y, s)
  <2>1. Owner[Other[y]] \in Node
    BY OverlayAssumption
  <2>2. Pending(Other[y], s)' <=> Pending(Other[y], s)
    BY <2>1 DEF Pending, Waiting
  <2>3. {e} \in SUBSET End
    OBVIOUS
  <2>4. OwedChange(e, {e}, msg, y, s)
    BY <2>3, OwedMoved
  <2>. QED  BY <2>2, <2>4 DEF OwedChange, OneIf, Says
<1>. QED  BY <1>1, <1>2, BalanceKept

\* The relay waits for a reply from each peer that it asks, and none owed it one:
\* before its first request it asked nobody for s.
LEMMA ForwardCounted ==
    ASSUME RoutingInv, chan' \in Channels, NEW e \in End, ReqForward(e), NEW s \in Sid,
           s = Head(chan[e]).sid, Balanced(s), fwd'[s[1]][s] = NoEntry
    PROVE  Balanced(s)'
<1>. DEFINE n == Owner[e]
            req == Head(chan[e])
            F == ForwardTo(e)
            msg == Request(req.sid, HopsLeft(req), req.word)
<1>1. /\ TypeOK /\ chan[e] # <<>> /\ chan \in Channels /\ n \in Node /\ req.type = "REQ"
      /\ req.hop \in Nat \ {0} /\ req.word \in Word /\ fwd[n][s] = NoEntry
  BY ReadMessage DEF RoutingInv, ReqForward, Fresh, Receives, TypeOK, Channels
<1>2. F \in SUBSET End /\ chan' = SendOn(Consumed(e), F, msg)
  BY DEF ReqForward, ForwardTo, ConnectedPeers
<1>3. msg \in Message /\ Says(msg, "REQ", s) /\ Says(req, "REQ", s)
  <2>1. HopsLeft(req) \in Nat \ {0}
    BY <1>1 DEF ReqForward, LastHop, HopsLeft
  <2>. QED  BY <1>1, <2>1, MessageTypes DEF Request, Says
<1>4. /\ \A m \in Node : fwd'[m][s] = IF m = n THEN Relay(e, TRUE) ELSE fwd[m][s]
      /\ Relay(e, TRUE) # NoEntry /\ Relay(e, TRUE).upstream = e
      /\ Relay(e, TRUE).waiting = TRUE
      /\ Relay(e, TRUE).needed = RepliesNeeded(n) /\ Relay(e, TRUE).received = 0
  <2>1. \A m \in Node : fwd'[m][s] = IF m = n THEN Relay(e, TRUE) ELSE fwd[m][s]
    BY <1>1 DEF ReqForward, TypeOK
  <2>. QED  BY <2>1, RelayType DEF Relay
<1>5. s[1] \in Node /\ n # s[1]
  BY <1>4 DEF Sid
\* The request is not n's own, on a connection with itself.
<1>6. Other[e] \in End /\ Owner[Other[e]] # n
  <2>1. 1 \in 1..Len(chan[e]) /\ req = chan[e][1]
    BY <1>1, ConsumedQueues
  <2>2. Asked(Other[e], s, created, fwd)
    BY <1>1, <2>1 DEF RoutingInv, MessagesRouted, MsgRouted
  <2>. QED  BY <1>1, <1>5, <2>2, OverlayAssumption DEF Asked
<1>7. \A y \in ConnectedPeers(n) : Owed(y, s) = 0
  BY <1>1, <1>5, NobodyOwes DEF ConnectedPeers, Waiting
<1>8. F = ConnectedPeers(n) \ {e} /\ Other[e] \notin F /\ e \in ConnectedPeers(n)
  BY <1>6 DEF ForwardTo, ConnectedPeers
<1>. HIDE DEF F, msg, req, n
<1>9. ASSUME NEW y \in End
      PROVE  /\ y \in F => Owed(y, s)' = 1
             /\ y \notin F => Owed(y, s)' = Owed(y, s)
  <2>1. OwedChange(e, F, msg, y, s)
    BY <1>1, <1>2, <1>3, OwedMoved
  <2>2. Other[y] = e <=> y = Other[e]
    BY OverlayAssumption
  <2>3. Other[y] \in End /\ Owner[Other[y]] \in Node
    BY OverlayAssumption
  <2>4. Pending(Other[y], s)' <=> Pending(Other[y], s) \/ Other[y] = e
    <3>1. CASE Owner[Other[y]] = n
      BY <1>1, <1>4, <2>3, <3>1 DEF Pending, Waiting
    <3>2. CASE Owner[Other[y]] # n
      <4>1. Other[y] # e
        BY <3>2 DEF n
      <4>. QED  BY <1>4, <2>3, <3>2, <4>1 DEF Pending, Waiting
    <3>. QED  BY <3>1, <3>2
  <2>5. Other[y] = e => ~Pending(Other[y], s)
    BY <1>1 DEF Pending, Waiting, n
  <2>6. CASE Other[y] = e
    <3>1. y \notin F
      BY <1>8, <2>2, <2>6
    <3>. QED  BY <1>3, <2>1, <2>4, <2>5, <2>6, <3>1 DEF OwedChange, OneIf, Says, req
  <2>7. CASE Other[y] # e /\ y \in F
    <3>1. Owed(y, s) = 0
      BY <1>7, <1>8, <2>7
    <3>. QED  BY <1>3, <2>1, <2>4, <2>7, <3>1 DEF OwedChange, OneIf, Says, req
  <2>8. CASE Other[y] # e /\ y \notin F
    BY <1>3, <2>1, <2>4, <2>8 DEF OwedChange, OneIf, Says, req
  <2>. QED  BY <2>6, <2>7, <2>8
<1>10. \A y \in End : Owed(y, s)' <= 1
  BY <1>9 DEF Balanced
<1>11. ASSUME NEW m \in Node \ {s[1]} PROVE Cardinality(Debts(m, s)') = Missing(m, s)'
  <2>1. CASE m = n
    <3>1. Debts(n, s)' = F
      BY <1>7, <1>8, <1>9 DEF Debts, ConnectedPeers
    <3>2. Cardinality(F) = RepliesNeeded(n) /\ RepliesNeeded(n) \in Nat
      BY RepliesFromAsked DEF F, n
    <3>3. Missing(n, s)' = RepliesNeeded(n)
      <4>1. fwd'[n][s] = Relay(e, TRUE)
        BY <1>1, <1>4
      <4>2. Missing(n, s)' = Relay(e, TRUE).needed - Relay(e, TRUE).received
        BY <1>4, <4>1 DEF Missing, Waiting
      <4>3. \A i, j, k : i = j - k /\ j = RepliesNeeded(n) /\ k = 0 => i = RepliesNeeded(n)
        BY <3>2
      <4>. QED  BY <1>4, <4>2, <4>3
    <3>. QED  BY <2>1, <3>1, <3>2, <3>3
  <2>2. CASE m # n
    <3>1. Debts(m, s)' = Debts(m, s)
      BY <1>8, <1>9, <2>2 DEF Debts, ConnectedPeers
    <3>2. Missing(m, s)' = Missing(m, s)
      BY <1>4, <2>2 DEF Missing, Waiting
    <3>. QED  BY <3>1, <3>2 DEF Balanced
  <2>. QED  BY <2>1, <2>2
<1>. QED  BY <1>10, <1>11 DEF Balanced

LEMMA RequestCounted ==
    ASSUME RoutingInv, NEW e \in End,
           ReqProcessed(e) \/ ReqFound(e) \/ ReqForward(e) \/ ReqDeadEnd(e),
           NEW s \in Sid, Balanced(s), fwd'[s[1]][s] = NoEntry
    PROVE  Balanced(s)'
<1>. DEFINE n == Owner[e]
            req == Head(chan[e])
<1>1. /\ TypeOK /\ chan[e] # <<>> /\ chan \in Channels /\ n \in Node /\ req.type = "REQ"
      /\ req.sid \in Sid /\ req.hop \in Nat \ {0} /\ req.word \in Word
  BY ReadMessage DEF RoutingInv, ReqProcessed, ReqFound, ReqForward, ReqDeadEnd, Fresh,
                     Receives, TypeOK, Channels
<1>2. chan' \in Channels
  BY RequestType DEF RoutingInv, TypeOK, Channels
<1>3. ASSUME NEW hits \in SUBSET Hit, chan' = SendOn(Consumed(e), {e}, Response(req.sid, hits)),
             \/ fwd' = fwd
             \/ /\ fwd[n][req.sid] = NoEntry
                /\ fwd' = [fwd EXCEPT ![n][req.sid] = Relay(e, FALSE)]
      PROVE  Balanced(s)'
  <2>. DEFINE msg == Response(req.sid, hits)
  <2>1. msg \in Message /\ msg.type = "RESP" /\ msg.sid = req.sid
    BY <1>1, MessageTypes DEF Response
  <2>2. \A m \in Node : \/ fwd'[m][s] = fwd[m][s]
                        \/ s = req.sid /\ ~Waiting(m, s) /\ ~Waiting(m, s)'
    <3>1. CASE fwd[n][req.sid] = NoEntry /\ fwd' = [fwd EXCEPT ![n][req.sid] = Relay(e, FALSE)]
      <4>1. \A m \in Node : fwd'[m][s] = IF m = n /\ s = req.sid THEN Relay(e, FALSE)
                                         ELSE fwd[m][s]
        BY <1>1, <3>1 DEF TypeOK
      <4>2. Relay(e, FALSE).waiting = FALSE
        BY DEF Relay
      <4>. HIDE DEF n, req
      <4>. QED  BY <3>1, <4>1, <4>2 DEF Waiting
    <3>. QED  BY <1>3, <3>1
  <2>3. {e} \in SUBSET End
    OBVIOUS
  <2>. HIDE DEF msg
  <2>4. chan' = SendOn(Consumed(e), {e}, msg)
    BY <1>3 DEF msg
  <2>5. CASE s = req.sid
    <3>1. Says(req, "REQ", s) /\ Says(msg, "RESP", s)
      BY <1>1, <2>1, <2>5 DEF Says
    <3>. QED  BY <1>1, <1>2, <2>1, <2>2, <2>4, <3>1, AnswerCounted
  <2>6. CASE s # req.sid
    <3>1. \A m \in Node : fwd'[m][s] = fwd[m][s]
      BY <2>2, <2>6
    <3>2. Head(chan[e]).sid # s /\ msg.sid # s
      BY <2>1, <2>6
    <3>. QED  BY <1>1, <1>2, <2>1, <2>3, <2>4, <3>1, <3>2, OtherSearches
  <2>. QED  BY <2>5, <2>6
<1>4. CASE ReqProcessed(e)
  <2>1. fwd' = fwd /\ chan' = SendOn(Consumed(e), {e}, Response(req.sid, {}))
    BY <1>4 DEF ReqProcessed
  <2>. QED  BY <1>3, <2>1
<1>5. CASE ReqDeadEnd(e)
  <2>1. /\ fwd[n][req.sid] = NoEntry
        /\ fwd' = [fwd EXCEPT ![n][req.sid] = Relay(e, FALSE)]
        /\ chan' = SendOn(Consumed(e), {e}, Response(req.sid, {}))
    BY <1>5 DEF ReqDeadEnd, Fresh
  <2>. QED  BY <1>3, <2>1
<1>6. CASE ReqFound(e)
  <2>1. /\ fwd[n][req.sid] = NoEntry
        /\ fwd' = [fwd EXCEPT ![n][req.sid] = Relay(e, FALSE)]
        /\ chan' = SendOn(Consumed(e), {e}, Response(req.sid, {OwnHit(e, req.word)}))
    BY <1>6 DEF ReqFound, Fresh
  <2>2. {OwnHit(e, req.word)} \in SUBSET Hit
    BY <1>1, <1>6 DEF ReqFound, OwnHit, Hit, Holds, TypeOK
  <2>. QED  BY <1>3, <2>1, <2>2
<1>7. CASE ReqForward(e)
  <2>1. CASE s = req.sid
    BY <1>2, <1>7, <2>1, ForwardCounted
  <2>2. CASE s # req.sid
    <3>. DEFINE msg == Request(req.sid, HopsLeft(req), req.word)
    <3>1. HopsLeft(req) \in Nat \ {0}
      BY <1>1, <1>7 DEF ReqForward, LastHop, HopsLeft
    <3>2. msg \in Message /\ msg.sid = req.sid
      BY <1>1, <3>1, MessageTypes DEF Request
    <3>3. ForwardTo(e) \in SUBSET End /\ chan' = SendOn(Consumed(e), ForwardTo(e), msg)
      BY <1>7 DEF ReqForward, ForwardTo, ConnectedPeers
    <3>4. \A m \in Node : fwd'[m][s] = fwd[m][s]
      BY <1>1, <1>7, <2>2 DEF ReqForward, TypeOK
    <3>5. Head(chan[e]).sid # s /\ msg.sid # s
      BY <2>2, <3>2
    <3>. HIDE DEF msg
    <3>. QED  BY <1>1, <1>2, <3>2, <3>3, <3>4, <3>5, OtherSearches
  <2>. QED  BY <2>1, <2>2
<1>. QED  BY <1>4, <1>5, <1>6, <1>7

\* A reply that comes to a relay is the only thing that its node is owed there, and the
\* relay waits for it.
LEMMA RelayWaits ==
    ASSUME TypeOK, NEW e \in End, ForRelay(e), NEW s \in Sid, s = Head(chan[e]).sid,
           Balanced(s), Owner[e] # s[1]
    PROVE  Owed(e, s) = 1 /\ ~Pending(Other[e], s) /\ Waiting(Owner[e], s)
<1>1. /\ chan \in Channels /\ chan[e] # <<>> /\ chan[e] \in Seq(Message)
      /\ Says(Head(chan[e]), "RESP", s)
  BY DEF TypeOK, Channels, ForRelay, Receives, Says
<1>2. InFlight(e, "RESP", s) > 0
  <2>1. InFlight(e, "RESP", s) = Num(chan[e], "RESP", s)
    BY <1>1, InFlightIsNum
  <2>2. Num(chan[e], "RESP", s) =
            Num(Tail(chan[e]), "RESP", s) + OneIf(Says(Head(chan[e]), "RESP", s))
    BY <1>1, NumTail
  <2>3. Num(Tail(chan[e]), "RESP", s) \in Nat
    <3>1. Tail(chan[e]) \in Seq(Message)
      BY <1>1
    <3>. QED  BY <3>1, NumType
  <2>. QED  BY <1>1, <2>1, <2>2, <2>3 DEF OneIf
<1>3. Owed(e, s) = 1 /\ ~Pending(Other[e], s)
  <2>1. /\ Owed(e, s) = InFlight(Other[e], "REQ", s) + InFlight(e, "RESP", s)
                            + OneIf(Pending(Other[e], s))
        /\ Owed(e, s) \in Nat
        /\ InFlight(Other[e], "REQ", s) \in Nat /\ InFlight(e, "RESP", s) \in Nat
    BY <1>1, OwedParts
  <2>2. Owed(e, s) <= 1
    BY DEF Balanced
  <2>. QED  BY <1>2, <2>1, <2>2 DEF OneIf
<1>4. Waiting(Owner[e], s)
  BY <1>1, <1>3, NobodyOwes
<1>. QED  BY <1>3, <1>4

\* A reply comes to a node that waits for it.  It is the only thing n is owed there, so
\* it is the one that a relay is to send upstream: not the same connection.
LEMMA RelayPaid ==
    ASSUME RoutingInv, chan' \in Channels, NEW e \in End, RespCollect(e) \/ RespComplete(e),
           NEW s \in Sid, s = Head(chan[e]).sid, Balanced(s), fwd'[s[1]][s] = NoEntry
    PROVE  Balanced(s)'
<1>. DEFINE n == Owner[e]
            resp == Head(chan[e])
            old == fwd[n][s]
            entry == Counted(old, resp)
            done == [entry EXCEPT !.waiting = FALSE]
            new == fwd'[n][s]
            up == old.upstream
<1>1. /\ TypeOK /\ chan[e] # <<>> /\ chan \in Channels /\ n \in Node /\ resp.type = "RESP"
      /\ resp \in Message /\ resp.hits \in SUBSET Hit
      /\ old \in Relays /\ old # NoEntry /\ ForRelay(e)
  <2>1. /\ TypeOK /\ chan[e] # <<>> /\ chan \in Channels /\ resp.type = "RESP" /\ ForRelay(e)
    BY DEF RoutingInv, RespCollect, RespComplete, ForRelay, Receives, TypeOK, Channels
  <2>2. n \in Node /\ resp \in Message /\ resp.hits \in SUBSET Hit
    BY <2>1, ReadMessage
  <2>3. old \in Relays /\ old # NoEntry
    BY <2>1, <2>2 DEF ForRelay, TypeOK
  <2>. QED  BY <2>1, <2>2, <2>3
<1>2. /\ entry \in Relays /\ done \in Relays
      /\ entry.received = old.received + 1 /\ done.received = old.received + 1
      /\ entry.needed = old.needed /\ done.needed = old.needed
      /\ entry.hits \in SUBSET Hit
      /\ entry.upstream = up /\ done.upstream = up
      /\ entry.waiting = old.waiting /\ done.waiting = FALSE
  <2>. HIDE DEF old, resp
  <2>1. /\ entry \in Relays /\ done \in Relays
        /\ entry.received = old.received + 1 /\ done.received = old.received + 1
        /\ entry.needed = old.needed /\ done.needed = old.needed
        /\ entry.upstream = up /\ done.upstream = up
        /\ entry.waiting = old.waiting /\ done.waiting = FALSE
    BY <1>1, RelayCounts
  <2>2. entry.hits \in SUBSET Hit
    <3>. HIDE DEF entry
    <3>. QED  BY <2>1 DEF Relays
  <2>. QED  BY <2>1, <2>2
<1>3. up \in End /\ Owner[up] = n /\ Other[up] \in End /\ Other[Other[up]] = up
  <2>1. up \in End /\ Owner[up] = n
    BY <1>1 DEF Relays, RoutingInv, RelaysRouted
  <2>. QED  BY <2>1, OverlayAssumption
<1>4. /\ RespCollect(e) => new = entry /\ chan' = Consumed(e) /\ entry.received # entry.needed
      /\ RespComplete(e) => /\ new = done /\ entry.received = entry.needed
                            /\ chan' = SendOn(Consumed(e), {up}, Response(s, entry.hits))
      /\ \A m \in Node \ {n} : fwd'[m][s] = fwd[m][s]
  <2>. HIDE DEF done, entry
  <2>1. RespCollect(e) => /\ fwd' = [fwd EXCEPT ![n][s] = entry]
                          /\ chan' = Consumed(e) /\ entry.received # entry.needed
    BY DEF RespCollect, HasAll, entry
  <2>2. RespComplete(e) => /\ fwd' = [fwd EXCEPT ![n][s] = done]
                           /\ entry.received = entry.needed
                           /\ chan' = SendOn(Consumed(e), {up}, Response(s, entry.hits))
    <3>. SUFFICES ASSUME RespComplete(e)
                  PROVE  /\ fwd' = [fwd EXCEPT ![n][s] = done]
                         /\ entry.received = entry.needed
                         /\ chan' = SendOn(Consumed(e), {up}, Response(s, entry.hits))
      OBVIOUS
    <3>1. /\ fwd' = [fwd EXCEPT ![n][s] = done] /\ entry.received = entry.needed
          /\ chan' = SendOn(Consumed(e), {entry.upstream}, Response(s, entry.hits))
      BY DEF RespComplete, HasAll, entry, done
    <3>. QED  BY <1>2, <3>1
  <2>. HIDE DEF n, resp, old, up
  <2>3. fwd \in [Node -> [Sid -> Relays \cup {NoEntry}]] /\ n \in Node
    BY <1>1 DEF TypeOK
  <2>. QED  BY <2>1, <2>2, <2>3
<1>5. n # s[1]
  <2>1. new \in Relays
    BY <1>2, <1>4
  <2>. QED  BY <2>1, NoEntryAssumption
<1>6. Says(resp, "RESP", s) /\ ~Says(resp, "REQ", s)
  BY <1>1 DEF Says
<1>7. Owed(e, s) = 1 /\ ~Pending(Other[e], s) /\ Waiting(n, s) /\ old.waiting
  <2>1. Owed(e, s) = 1 /\ ~Pending(Other[e], s) /\ Waiting(n, s)
    BY <1>1, <1>5, RelayWaits
  <2>. QED  BY <2>1 DEF Waiting
<1>8. Other[up] # e
  BY <1>3, <1>7 DEF Pending
<1>9. Missing(n, s)' = Missing(n, s) - 1
  <2>1. Missing(n, s) = old.needed - old.received
    BY <1>7 DEF Missing
  <2>2. old.needed \in Nat /\ old.received \in Nat
    BY <1>1 DEF Relays
  <2>3. new # NoEntry
    BY <1>2, <1>4, NoEntryAssumption
  <2>4. CASE RespCollect(e)
    <3>1. new.waiting /\ new.received = old.received + 1 /\ new.needed = old.needed
      BY <1>2, <1>4, <1>7, <2>4
    <3>2. Missing(n, s)' = new.needed - new.received
      BY <2>3, <3>1 DEF Missing, Waiting
    <3>. HIDE DEF new, old
    <3>. QED  BY <2>1, <2>2, <3>1, <3>2
  <2>5. CASE RespComplete(e)
    <3>1. ~new.waiting /\ old.received + 1 = old.needed
      BY <1>2, <1>4, <2>5
    <3>2. Missing(n, s)' = 0
      BY <3>1 DEF Missing, Waiting
    <3>. HIDE DEF new, old
    <3>. QED  BY <2>1, <2>2, <3>1, <3>2
  <2>. QED  BY <2>4, <2>5
<1>10. \A m \in Node \ {s[1], n} : Missing(m, s)' = Missing(m, s)
  BY <1>4 DEF Missing, Waiting
<1>11. ASSUME NEW y \in End
       PROVE  /\ y = e => Owed(y, s)' = 0
              /\ y # e => Owed(y, s)' = Owed(y, s)
  <2>1. Other[y] \in End /\ Owner[Other[y]] \in Node /\ Other[Other[y]] = y
    BY OverlayAssumption
  <2>2. CASE RespCollect(e)
    <3>1. OwedChange(e, {}, resp, y, s)
      <4>1. chan' = SendOn(Consumed(e), {}, resp) /\ {} \in SUBSET End
        BY <1>1, <1>4, <2>2, ConsumedQueues, SendNone
      <4>. HIDE DEF resp
      <4>. QED  BY <1>1, <4>1, OwedMoved
    <3>2. Pending(Other[y], s)' <=> Pending(Other[y], s)
      <4>1. CASE Owner[Other[y]] = n
        <5>1. new # NoEntry /\ new.waiting = old.waiting /\ new.upstream = old.upstream
          BY <1>2, <1>4, <2>2, NoEntryAssumption
        <5>. QED  BY <1>1, <4>1, <5>1 DEF Pending, Waiting
      <4>2. CASE Owner[Other[y]] # n
        BY <1>4, <2>1, <4>2 DEF Pending, Waiting
      <4>. QED  BY <4>1, <4>2
    <3>3. OwedChange(e, {}, resp, y, s) =>
              Owed(y, s)' + OneIf(y = e) = Owed(y, s) /\ Owed(y, s)' \in Nat
      BY <1>6, <3>2 DEF OwedChange, OneIf
    <3>. QED  BY <1>7, <3>1, <3>3 DEF OneIf, OwedChange
  <2>3. CASE RespComplete(e)
    <3>. DEFINE msg == Response(s, entry.hits)
    <3>1. msg \in Message /\ Says(msg, "RESP", s) /\ ~Says(msg, "REQ", s)
      BY <1>2, MessageTypes DEF Response, Says
    <3>2. OwedChange(e, {up}, msg, y, s)
      <4>1. chan' = SendOn(Consumed(e), {up}, msg) /\ {up} \in SUBSET End
        BY <1>3, <1>4, <2>3
      <4>. HIDE DEF msg, up
      <4>. QED  BY <1>1, <3>1, <4>1, OwedMoved
    <3>3. /\ Pending(Other[y], s)' <=> Pending(Other[y], s) /\ Other[y] # up
          /\ Other[y] = up => Pending(Other[y], s)
      <4>1. CASE Owner[Other[y]] = n
        <5>1. new.waiting = FALSE
          BY <1>2, <1>4, <2>3
        <5>. QED  BY <1>1, <1>3, <1>7, <4>1, <5>1 DEF Pending, Waiting
      <4>2. CASE Owner[Other[y]] # n
        BY <1>3, <1>4, <2>1, <4>2 DEF Pending, Waiting
      <4>. QED  BY <4>1, <4>2
    <3>4. Other[y] = up => y # e
      BY <1>8, <2>1
    <3>. HIDE DEF msg, up, resp, n, old, new, entry, done
    <3>5. Owed(y, s)' + OneIf(y = e) = Owed(y, s) /\ Owed(y, s)' \in Nat
      BY <1>6, <3>1, <3>2, <3>3, <3>4 DEF OwedChange, OneIf, resp
    <3>. QED  BY <1>7, <3>2, <3>5 DEF OneIf, OwedChange
  <2>. QED  BY <2>2, <2>3
<1>. HIDE DEF new, old, resp, entry, done, up
<1>. QED  BY <1>5, <1>7, <1>9, <1>10, <1>11, DebtPaid

LEMMA ResponseCounted ==
    ASSUME RoutingInv, NEW e \in End,
           RespCollect(e) \/ RespComplete(e) \/ RespInTime(e) \/ RespLate(e),
           NEW s \in Sid, Balanced(s), fwd'[s[1]][s] = NoEntry
    PROVE  Balanced(s)'
<1>. DEFINE n == Owner[e]
            resp == Head(chan[e])
<1>1. /\ TypeOK /\ chan[e] # <<>> /\ chan \in Channels /\ n \in Node /\ resp.type = "RESP"
      /\ resp \in Message /\ resp.sid \in Sid /\ resp.hits \in SUBSET Hit
  BY ReadMessage DEF RoutingInv, RespCollect, RespComplete, RespInTime, RespLate,
                     ForRelay, ForCreator, Receives, TypeOK, Channels
<1>2. chan' \in Channels
  BY ResponseType DEF RoutingInv, TypeOK, Channels
<1>3. ASSUME chan' = Consumed(e) PROVE chan' = SendOn(Consumed(e), {}, resp) /\ {} \in SUBSET End
  BY <1>1, <1>3, ConsumedQueues, SendNone
<1>4. CASE RespCollect(e) \/ RespComplete(e)
  <2>1. CASE s = resp.sid
    BY <1>2, <1>4, <2>1, RelayPaid
  <2>2. CASE s # resp.sid
    <3>1. \A m \in Node : fwd'[m][s] = fwd[m][s]
      <4>1. \E ent : fwd' = [fwd EXCEPT ![n][resp.sid] = ent]
        BY <1>4 DEF RespCollect, RespComplete
      <4>. HIDE DEF n, resp
      <4>. QED  BY <1>1, <2>2, <4>1 DEF TypeOK
    <3>2. CASE RespCollect(e)
      <4>1. chan' = SendOn(Consumed(e), {}, resp) /\ {} \in SUBSET End
        BY <1>3, <3>2 DEF RespCollect
      <4>. QED  BY <1>1, <1>2, <2>2, <3>1, <4>1, OtherSearches
    <3>3. CASE RespComplete(e)
      <4>. DEFINE old == fwd[n][resp.sid]
                  entry == Counted(old, resp)
                  msg == Response(resp.sid, entry.hits)
      <4>1. chan' = SendOn(Consumed(e), {entry.upstream}, msg)
        BY <3>3 DEF RespComplete
      <4>2. old \in Relays
        <5>1. old # NoEntry
          BY <3>3 DEF RespComplete, ForRelay
        <5>. QED  BY <1>1, <5>1 DEF TypeOK
      <4>3. entry \in Relays
        <5>. HIDE DEF old, resp
        <5>. QED  BY <1>1, <4>2, RelayCounts
      <4>4. entry.hits \in SUBSET Hit /\ {entry.upstream} \in SUBSET End
        <5>. HIDE DEF entry
        <5>. QED  BY <4>3 DEF Relays
      <4>5. msg \in Message /\ msg.sid # s
        BY <1>1, <2>2, <4>4, MessageTypes DEF Response
      <4>. HIDE DEF msg, entry
      <4>. QED  BY <1>1, <1>2, <2>2, <3>1, <4>1, <4>4, <4>5, OtherSearches
    <3>. QED  BY <1>4, <3>2, <3>3
  <2>. QED  BY <2>1, <2>2
\* The creator has one answer less to come; it is no relay.
<1>5. CASE RespInTime(e) \/ RespLate(e)
  <2>1. fwd' = fwd /\ chan' = Consumed(e) /\ resp.sid[1] = n
    BY <1>5 DEF RespInTime, RespLate, ForCreator
  <2>2. chan' = SendOn(Consumed(e), {}, resp) /\ {} \in SUBSET End
    BY <1>3, <2>1
  <2>3. CASE s # resp.sid
    BY <1>1, <1>2, <2>1, <2>2, <2>3, OtherSearches
  <2>4. CASE s = resp.sid
    <3>1. ASSUME NEW y \in End
          PROVE  Owed(y, s)' <= 1 /\ (y # e => Owed(y, s)' = Owed(y, s))
      <4>. HIDE DEF resp
      <4>1. OwedChange(e, {}, resp, y, s)
        BY <1>1, <1>2, <2>2, OwedMoved
      <4>2. Pending(Other[y], s)' <=> Pending(Other[y], s)
        BY <2>1 DEF Pending, Waiting
      <4>3. ~Says(resp, "REQ", s)
        BY <1>1 DEF Says
      <4>4. Owed(y, s)' + OneIf(y = e /\ Says(resp, "RESP", s)) = Owed(y, s)
            /\ Owed(y, s)' \in Nat
        BY <4>1, <4>2, <4>3 DEF OwedChange, OneIf, resp
      <4>5. Owed(y, s) <= 1 /\ Owed(y, s) \in Nat
        BY <4>1 DEF Balanced, OwedChange
      <4>. QED  BY <4>4, <4>5 DEF OneIf
    <3>2. ASSUME NEW m \in Node \ {s[1]}
          PROVE  Cardinality(Debts(m, s)') = Missing(m, s)'
      <4>1. Missing(m, s)' = Missing(m, s)
        BY <2>1 DEF Missing, Waiting
      <4>2. e \notin ConnectedPeers(m)
        BY <2>1, <2>4 DEF ConnectedPeers
      <4>3. Debts(m, s)' = Debts(m, s)
        BY <3>1, <4>2 DEF Debts, ConnectedPeers
      <4>. QED  BY <4>1, <4>3 DEF Balanced
    <3>. QED  BY <3>1, <3>2 DEF Balanced
  <2>. QED  BY <2>3, <2>4
<1>. QED  BY <1>4, <1>5

\* A request is sent on E and nothing is read.
LEMMA InFlightSent ==
    ASSUME chan \in Channels, NEW E \in SUBSET End, NEW msg \in Message,
           chan' = SendOn(chan, E, msg), NEW x \in End, NEW type, NEW s
    PROVE  /\ InFlight(x, type, s) \in Nat
           /\ InFlight(x, type, s)' =
                  InFlight(x, type, s) + OneIf(Other[x] \in E /\ Says(msg, type, s))
<1>1. InFlight(x, type, s) = Num(chan[x], type, s) /\ InFlight(x, type, s) \in Nat
  BY InFlightIsNum
<1>2. InFlight(x, type, s)' = Num(chan'[x], type, s)
  BY DEF InFlight, Num, Says, Indexes
<1>3. CASE Other[x] \in E
  <2>1. chan'[x] = Append(chan[x], msg) /\ chan[x] \in Seq(Message)
    BY <1>3 DEF SendOn, Channels
  <2>2. Num(Append(chan[x], msg), type, s) = Num(chan[x], type, s) + OneIf(Says(msg, type, s))
    BY <2>1, NumAppend
  <2>. QED  BY <1>1, <1>2, <1>3, <2>1, <2>2 DEF OneIf
<1>4. CASE Other[x] \notin E
  <2>1. chan'[x] = chan[x]
    BY <1>4 DEF SendOn
  <2>. QED  BY <1>1, <1>2, <1>4, <2>1 DEF OneIf
<1>. QED  BY <1>3, <1>4

LEMMA OwedSent ==
    ASSUME chan \in Channels, chan' \in Channels, fwd' = fwd,
           NEW E \in SUBSET End, NEW msg \in Message, msg.type = "REQ",
           chan' = SendOn(chan, E, msg), NEW y \in End, NEW s
    PROVE  /\ Owed(y, s) \in Nat
           /\ Owed(y, s)' = Owed(y, s) + OneIf(y \in E /\ msg.sid = s)
<1>1. Other[y] \in End /\ Other[Other[y]] = y
  BY OverlayAssumption
<1>2. \A x \in End : \A type :
          /\ InFlight(x, type, s) \in Nat
          /\ InFlight(x, type, s)' =
                 InFlight(x, type, s) + OneIf(Other[x] \in E /\ Says(msg, type, s))
  BY InFlightSent
<1>3. /\ InFlight(Other[y], "REQ", s)' =
             InFlight(Other[y], "REQ", s) + OneIf(y \in E /\ msg.sid = s)
      /\ InFlight(y, "RESP", s)' = InFlight(y, "RESP", s)
  <2>1. /\ InFlight(Other[y], "REQ", s)' =
               InFlight(Other[y], "REQ", s) + OneIf(Other[Other[y]] \in E /\ Says(msg, "REQ", s))
        /\ InFlight(y, "RESP", s)' =
               InFlight(y, "RESP", s) + OneIf(Other[y] \in E /\ Says(msg, "RESP", s))
        /\ InFlight(y, "RESP", s) \in Nat
    BY <1>1, <1>2
  <2>. QED  BY <1>1, <2>1 DEF OneIf, Says
<1>4. /\ Owed(y, s) = InFlight(Other[y], "REQ", s) + InFlight(y, "RESP", s)
                          + OneIf(Pending(Other[y], s))
      /\ Owed(y, s)' = InFlight(Other[y], "REQ", s)' + InFlight(y, "RESP", s)'
                          + OneIf(Pending(Other[y], s))
      /\ InFlight(Other[y], "REQ", s) \in Nat /\ InFlight(y, "RESP", s) \in Nat
      /\ Owed(y, s) \in Nat
  <2>1. Owed(y, s)' = InFlight(Other[y], "REQ", s)' + InFlight(y, "RESP", s)'
                          + OneIf(Pending(Other[y], s))
    BY DEF Owed, OneIf, Pending, Waiting
  <2>. QED  BY <2>1, OwedParts
<1>. DEFINE r == InFlight(Other[y], "REQ", s)
            a == InFlight(y, "RESP", s)
            p == OneIf(Pending(Other[y], s))
            out == OneIf(y \in E /\ msg.sid = s)
<1>5. p \in Nat /\ out \in Nat
  BY DEF OneIf
<1>6. Owed(y, s) = r + a + p /\ Owed(y, s)' = (r + out) + a + p /\ r \in Nat /\ a \in Nat
  BY <1>3, <1>4
<1>. HIDE DEF r, a, p, out
<1>7. Owed(y, s)' = Owed(y, s) + out
  BY <1>5, <1>6
<1>. QED  BY <1>4, <1>7 DEF out

\* forwarded_searches never forgets a search.
LEMMA RelayStays ==
    ASSUME RoutingInv, NEW e \in End, Listen(e), NEW m \in Node, NEW s \in Sid,
           fwd'[m][s] = NoEntry
    PROVE  fwd[m][s] = NoEntry
<1>. DEFINE n == Owner[e]
            sid == Head(chan[e]).sid
<1>1. /\ TypeOK /\ chan[e] # <<>> /\ n \in Node /\ sid \in Sid
  BY ReadMessage DEF RoutingInv, Listen, ReqProcessed, ReqFound, ReqForward, ReqDeadEnd, Fresh,
                     RespCollect, RespComplete, RespInTime, RespLate, ForRelay, ForCreator,
                     Receives
<1>2. CASE fwd' = fwd
  BY <1>2
<1>3. CASE ReqFound(e) \/ ReqForward(e) \/ ReqDeadEnd(e)
  <2>1. /\ fwd[n][sid] = NoEntry
        /\ \E b \in BOOLEAN : fwd' = [fwd EXCEPT ![n][sid] = Relay(e, b)]
    BY <1>3 DEF ReqFound, ReqForward, ReqDeadEnd, Fresh
  <2>. HIDE DEF n, sid
  <2>2. m # n \/ s # sid => fwd'[m][s] = fwd[m][s]
    BY <1>1, <2>1 DEF TypeOK
  <2>. QED  BY <2>1, <2>2
<1>4. CASE RespCollect(e) \/ RespComplete(e)
  <2>. DEFINE entry == Counted(fwd[n][sid], Head(chan[e]))
              done == [entry EXCEPT !.waiting = FALSE]
  <2>1. fwd' = [fwd EXCEPT ![n][sid] = entry] \/ fwd' = [fwd EXCEPT ![n][sid] = done]
    BY <1>4 DEF RespCollect, RespComplete
  <2>2. entry # NoEntry /\ done # NoEntry
    <3>1. fwd[n][sid] \in Relays
      BY <1>1, <1>4, NoEntryAssumption DEF RespCollect, RespComplete, ForRelay, TypeOK
    <3>2. Head(chan[e]).hits \in SUBSET Hit
      BY <1>1, <1>4, ReadMessage DEF RespCollect, RespComplete, ForRelay, Receives
    <3>3. entry \in Relays /\ done \in Relays
      <4>. HIDE DEF n, sid
      <4>. QED  BY <3>1, <3>2, RelayCounts
    <3>. HIDE DEF entry, done
    <3>. QED  BY <3>3, NoEntryAssumption
  <2>. HIDE DEF n, sid, entry, done
  <2>3. fwd \in [Node -> [Sid -> Relays \cup {NoEntry}]]
    BY <1>1 DEF TypeOK
  <2>4. ASSUME NEW ent, ent # NoEntry, fwd' = [fwd EXCEPT ![n][sid] = ent]
        PROVE  fwd[m][s] = NoEntry
    <3>1. m = n /\ s = sid => fwd'[m][s] = ent
      BY <1>1, <2>3, <2>4
    <3>2. m # n \/ s # sid => fwd'[m][s] = fwd[m][s]
      BY <1>1, <2>3, <2>4
    <3>. QED  BY <2>4, <3>1, <3>2
  <2>. QED  BY <2>1, <2>2, <2>4
<1>. QED  BY <1>2, <1>3, <1>4 DEF Listen, ReqProcessed, RespInTime, RespLate

\* A new attempt has an id that nobody has heard of.
LEMMA MainCounted ==
    ASSUME RoutingInv, SoundInv, NEW n \in Node, User(n) \/ Main(n),
           NEW s \in Sid, Balanced(s)
    PROVE  Balanced(s)'
<1>1. fwd' = fwd
  BY DEF User, Main, SearchUnasked, SearchStart, Choose, Attempt, WakeSuccess, WakeFailed
<1>2. \A m : Missing(m, s)' = Missing(m, s)
  BY <1>1 DEF Missing, Waiting
<1>3. CASE chan' = chan
  <2>1. \A y \in End : Owed(y, s)' = Owed(y, s)
    BY <1>1, <1>3 DEF Owed, InFlight, Indexes, Waiting
  <2>. QED  BY <1>2, <2>1, BalanceKept
<1>4. CASE Attempt(n)
  <2>. DEFINE sid == CurrentSid(n)
              msg == Request(sid, Hops[try[n]], word[n])
              E == ConnectedPeers(n)
  <2>1. /\ sid \in Sid /\ sid[1] = n /\ word[n] \in Word /\ Hops[try[n]] \in Nat \ {0}
    BY <1>4, SearchAssumption
       DEF Attempt, SoundInv, TypeOK, Places, CurrentSid, Sid, Attempts
  <2>2. created[sid] = NoEntry
    <3>1. pc[n] = "attempt" /\ sid[2] = counter[n] /\ counter[n] \in Nat
      BY <1>4 DEF Attempt, CurrentSid, SoundInv, TypeOK
    <3>. QED  BY <2>1, <3>1 DEF SoundInv, IdsInOrder
  <2>3. msg \in Message /\ E \in SUBSET End /\ msg.type = "REQ" /\ msg.sid = sid
    BY <2>1, MessageTypes DEF ConnectedPeers, Request
  <2>4. chan \in Channels /\ chan' \in Channels /\ chan' = SendOn(chan, E, msg)
    <3>1. chan \in Channels
      BY DEF SoundInv, TypeOK, Channels
    <3>2. chan' = SendOn(chan, E, msg)
      BY <1>4 DEF Attempt
    <3>. QED  BY <2>3, <3>1, <3>2, SendOnQueues
  <2>. HIDE DEF msg, sid
  <2>5. ASSUME NEW y \in End
        PROVE  /\ Owed(y, s) \in Nat
               /\ Owed(y, s)' = Owed(y, s) + OneIf(y \in E /\ sid = s)
    BY <1>1, <2>3, <2>4, OwedSent
  <2>6. CASE s # sid
    <3>1. \A y \in End : Owed(y, s)' = Owed(y, s)
      BY <2>5, <2>6 DEF OneIf
    <3>. QED  BY <1>2, <3>1, BalanceKept
  <2>7. CASE s = sid
    <3>1. \A m \in Node : ~Waiting(m, s)
      BY <2>1, <2>2, <2>7 DEF SoundInv, RelaysSound, HitsFor, Waiting
    <3>2. ASSUME NEW y \in End PROVE Owed(y, s) = 0
      <4>1. ASSUME NEW x \in End, NEW type PROVE InFlight(x, type, s) = 0
        <5>1. {i \in 1..Len(chan[x]) : chan[x][i].type = type /\ chan[x][i].sid = s} = {}
          BY <2>2, <2>7 DEF SoundInv, MessagesSound, MsgSound
        <5>. QED  BY <5>1, FS_EmptySet DEF InFlight, Indexes
      <4>2. Other[y] \in End /\ Owner[Other[y]] \in Node
        BY OverlayAssumption
      <4>3. ~Pending(Other[y], s)
        BY <3>1, <4>2 DEF Pending
      <4>4. Owed(y, s) = InFlight(Other[y], "REQ", s) + InFlight(y, "RESP", s)
                             + OneIf(Pending(Other[y], s))
        BY <2>4, OwedParts
      <4>. QED  BY <4>1, <4>2, <4>3, <4>4 DEF OneIf
    <3>3. \A y \in End : Owed(y, s)' <= 1 /\ (Owner[y] # n => Owed(y, s)' = 0)
      BY <2>5, <3>2 DEF OneIf, ConnectedPeers
    <3>4. ASSUME NEW m \in Node \ {s[1]}
          PROVE  Cardinality(Debts(m, s)') = Missing(m, s)'
      <4>1. Debts(m, s)' = {}
        BY <2>1, <2>7, <3>3 DEF Debts, ConnectedPeers
      <4>2. Missing(m, s)' = 0
        BY <1>2, <3>1 DEF Missing
      <4>. QED  BY <4>1, <4>2, FS_EmptySet
    <3>. QED  BY <3>3, <3>4 DEF Balanced
  <2>. QED  BY <2>6, <2>7
<1>. QED  BY <1>3, <1>4 DEF User, Main, SearchUnasked, SearchStart, Choose, WakeSuccess, WakeFailed

\* On every overlay, unless the request comes back to its creator, each request is answered
\* once, and a relay that waits misses exactly the replies that are still to come.
THEOREM RepliesAreCounted == Spec => []EveryReplyCounted
<1>. DEFINE Inv == EveryReplyCounted
<1>1. Init => Inv
  <2>. SUFFICES ASSUME Init, NEW s \in Sid PROVE Balanced(s)
    BY CountedByParts
  <2>1. chan \in Channels
    BY DEF Init, Channels
  <2>2. \A m \in Node : ~Waiting(m, s)
    BY DEF Init, Waiting
  <2>3. ASSUME NEW y \in End PROVE Owed(y, s) = 0
    <3>1. ASSUME NEW x \in End, NEW type PROVE InFlight(x, type, s) = 0
      <4>1. {i \in 1..Len(chan[x]) : chan[x][i].type = type /\ chan[x][i].sid = s} = {}
        BY DEF Init
      <4>. QED  BY <4>1, FS_EmptySet DEF InFlight, Indexes
    <3>2. Other[y] \in End /\ Owner[Other[y]] \in Node
      BY OverlayAssumption
    <3>3. ~Pending(Other[y], s)
      BY <2>2, <3>2 DEF Pending
    <3>4. Owed(y, s) = InFlight(Other[y], "REQ", s) + InFlight(y, "RESP", s)
                           + OneIf(Pending(Other[y], s))
      BY <2>1, OwedParts
    <3>. QED  BY <3>1, <3>2, <3>3, <3>4 DEF OneIf
  <2>4. ASSUME NEW m \in Node PROVE Cardinality(Debts(m, s)) = Missing(m, s)
    <3>1. Debts(m, s) = {}
      BY <2>3 DEF Debts, ConnectedPeers
    <3>. QED  BY <2>2, <3>1, FS_EmptySet DEF Missing
  <2>. QED  BY <2>3, <2>4 DEF Balanced
<1>2. RoutingInv /\ SoundInv /\ Inv /\ [Next]_vars => Inv'
  <2>. SUFFICES ASSUME RoutingInv, SoundInv, Inv, [Next]_vars,
                       NEW s \in Sid, fwd'[s[1]][s] = NoEntry
                PROVE  Balanced(s)'
    <3>1. (EveryReplyCounted <=> \A s \in Sid : fwd[s[1]][s] = NoEntry => Balanced(s))'
      BY CountedByParts, PTL
    <3>. QED  BY <3>1
  <2>1. s[1] \in Node
    BY DEF Sid
  <2>2. CASE UNCHANGED vars
    <3>1. fwd' = fwd /\ chan' = chan
      BY <2>2 DEF vars
    <3>2. Balanced(s)
      BY <3>1, CountedByParts
    <3>3. \A y \in End : Owed(y, s)' = Owed(y, s)
      BY <3>1 DEF Owed, InFlight, Indexes, Waiting
    <3>4. \A m \in Node \ {s[1]} : Missing(m, s)' = Missing(m, s)
      BY <3>1 DEF Missing, Waiting
    <3>. QED  BY <3>2, <3>3, <3>4, BalanceKept
  <2>3. ASSUME NEW n \in Searchers, User(n) \/ Main(n) PROVE Balanced(s)'
    <3>1. fwd' = fwd
      BY <2>3 DEF User, Main, SearchUnasked, SearchStart, Choose, Attempt, WakeSuccess,
                  WakeFailed
    <3>2. Balanced(s) /\ n \in Node
      BY <3>1, CountedByParts, SearchAssumption
    <3>. QED  BY <2>3, <3>2, MainCounted
  <2>4. ASSUME NEW e \in End, Listen(e) PROVE Balanced(s)'
    <3>1. fwd[s[1]][s] = NoEntry
      BY <2>1, <2>4, RelayStays
    <3>2. Balanced(s)
      BY <3>1, CountedByParts
    <3>. QED  BY <2>4, <3>2, RequestCounted, ResponseCounted DEF Listen
  <2>. QED  BY <2>2, <2>3, <2>4 DEF Next
<1>. QED  BY <1>1, <1>2, RoutingInvHolds, SoundInvHolds, PTL DEF Spec

----------------------------------------------------------------------------
(* What one step of a listener changes, for all its branches at once.      *)

\* One message is read and one is sent, perhaps to nobody.
Sends(e, E, msg) ==
    LET read == Head(chan[e]) IN
    /\ chan' = SendOn(Consumed(e), E, msg)
    /\ read.type = "REQ" /\ ~ReqForward(e) => E = {e} /\ Says(msg, "RESP", read.sid)
    /\ ReqForward(e) => E = ForwardTo(e) /\ Says(msg, "REQ", read.sid)
    /\ RespComplete(e) =>
           /\ E = {fwd[Owner[e]][read.sid].upstream}
           /\ Says(msg, "RESP", read.sid)
           /\ msg.hits = fwd[Owner[e]][read.sid].hits \cup read.hits
    /\ ReqFound(e) => msg.hits = {OwnHit(e, read.word)}

LEMMA ListenReads ==
    ASSUME TypeOK, NEW e \in End, Listen(e)
    PROVE  /\ chan \in Channels /\ chan' \in Channels /\ chan[e] # <<>> /\ Owner[e] \in Node
           /\ Head(chan[e]) \in Message /\ Head(chan[e]).sid \in Sid
<1>1. chan \in Channels /\ chan[e] # <<>>
  BY DEF Listen, ReqProcessed, ReqFound, ReqForward, ReqDeadEnd, Fresh, RespCollect,
         RespComplete, RespInTime, RespLate, ForRelay, ForCreator, Receives, TypeOK, Channels
<1>2. chan' \in Channels
  BY RequestType, ResponseType DEF Listen, TypeOK, Channels
<1>. QED  BY <1>1, <1>2, ReadMessage

LEMMA ListenSends ==
    ASSUME TypeOK, NEW e \in End, Listen(e)
    PROVE  \E E \in SUBSET End, msg \in Message : Sends(e, E, msg)
<1>. DEFINE n == Owner[e]
            read == Head(chan[e])
<1>1. /\ chan \in Channels /\ chan[e] # <<>> /\ n \in Node
      /\ read \in Message /\ read.sid \in Sid
      /\ read.type = "REQ" => read.hop \in Nat \ {0} /\ read.word \in Word
      /\ read.type = "RESP" => read.hits \in SUBSET Hit
  BY ListenReads, ReadMessage
<1>2. CASE ReqProcessed(e) \/ ReqFound(e) \/ ReqDeadEnd(e)
  <2>1. read.type = "REQ"
    BY <1>2 DEF ReqProcessed, ReqFound, ReqDeadEnd, Fresh, Receives
  <2>2. PICK hits \in SUBSET Hit :
            /\ chan' = SendOn(Consumed(e), {e}, Response(read.sid, hits))
            /\ ReqFound(e) => hits = {OwnHit(e, read.word)}
    <3>1. {OwnHit(e, read.word)} \in SUBSET Hit \/ ~ReqFound(e)
      BY <1>1, <2>1 DEF ReqFound, OwnHit, Hit, Holds, TypeOK
    <3>2. CASE ReqFound(e)
      BY <3>1, <3>2 DEF ReqFound
    <3>3. CASE ~ReqFound(e)
      BY <1>2, <3>3 DEF ReqProcessed, ReqDeadEnd
    <3>. QED  BY <3>2, <3>3
  <2>. DEFINE msg == Response(read.sid, hits)
  <2>3. msg \in Message /\ Says(msg, "RESP", read.sid) /\ msg.hits = hits
    BY <1>1, MessageTypes DEF Response, Says
  <2>4. ~ReqForward(e)
    BY <1>2 DEF ReqProcessed, ReqFound, ReqDeadEnd, ReqForward, Fresh
  <2>5. ~RespComplete(e)
    BY <2>1 DEF RespComplete, ForRelay, Receives
  <2>6. Sends(e, {e}, msg)
    BY <2>2, <2>3, <2>4, <2>5 DEF Sends
  <2>. HIDE DEF msg
  <2>7. {e} \in SUBSET End
    OBVIOUS
  <2>. QED  BY <2>3, <2>6, <2>7
<1>3. CASE ReqForward(e)
  <2>. DEFINE msg == Request(read.sid, HopsLeft(read), read.word)
  <2>1. read.type = "REQ"
    BY <1>3 DEF ReqForward, Fresh, Receives
  <2>2. HopsLeft(read) \in Nat \ {0}
    BY <1>1, <1>3, <2>1 DEF ReqForward, LastHop, HopsLeft
  <2>3. msg \in Message /\ Says(msg, "REQ", read.sid)
    BY <1>1, <2>1, <2>2, MessageTypes DEF Request, Says
  <2>4. ForwardTo(e) \in SUBSET End /\ chan' = SendOn(Consumed(e), ForwardTo(e), msg)
    BY <1>3 DEF ReqForward, ForwardTo, ConnectedPeers
  <2>5. ~RespComplete(e) /\ ~ReqFound(e)
    BY <1>3, <2>1 DEF RespComplete, ForRelay, Receives, ReqForward, ReqFound
  <2>6. Sends(e, ForwardTo(e), msg)
    BY <1>3, <2>3, <2>4, <2>5 DEF Sends
  <2>. HIDE DEF msg
  <2>. QED  BY <2>3, <2>4, <2>6
<1>4. CASE RespComplete(e)
  <2>. DEFINE old == fwd[n][read.sid]
              entry == Counted(old, read)
              msg == Response(read.sid, entry.hits)
  <2>1. read.type = "RESP" /\ old # NoEntry /\ chan' = SendOn(Consumed(e), {entry.upstream}, msg)
    BY <1>4 DEF RespComplete, ForRelay, Receives
  <2>2. old \in Relays /\ read.hits \in SUBSET Hit
    BY <1>1, <2>1 DEF TypeOK
  <2>3. /\ entry \in Relays /\ entry.upstream = old.upstream
        /\ entry.hits = old.hits \cup read.hits
    <3>. HIDE DEF old, read
    <3>. QED  BY <2>2, RelayCounts
  <2>4. entry.hits \in SUBSET Hit /\ {entry.upstream} \in SUBSET End
    <3>. HIDE DEF entry
    <3>. QED  BY <2>3 DEF Relays
  <2>5. msg \in Message /\ Says(msg, "RESP", read.sid) /\ msg.hits = entry.hits
    BY <1>1, <2>4, MessageTypes DEF Response, Says
  <2>6. ~ReqForward(e) /\ ~ReqFound(e)
    BY <2>1 DEF ReqForward, ReqFound, Fresh, Receives
  <2>. HIDE DEF msg, entry
  <2>7. Sends(e, {entry.upstream}, msg)
    BY <2>1, <2>3, <2>5, <2>6 DEF Sends
  <2>. QED  BY <2>4, <2>5, <2>7
<1>5. CASE RespCollect(e) \/ RespInTime(e) \/ RespLate(e)
  <2>1. read.type = "RESP" /\ chan' = Consumed(e)
    BY <1>5 DEF RespCollect, RespInTime, RespLate, ForRelay, ForCreator, Receives
  <2>2. chan' = SendOn(Consumed(e), {}, read)
    BY <1>1, <2>1, ConsumedQueues, SendNone
  <2>3. ~RespComplete(e) /\ ~ReqForward(e) /\ ~ReqFound(e)
    BY <1>5, <2>1 DEF RespCollect, RespComplete, RespInTime, RespLate, ForRelay, ForCreator,
                      ReqForward, ReqFound, Fresh, Receives
  <2>4. Sends(e, {}, read) /\ {} \in SUBSET End
    BY <2>1, <2>2, <2>3 DEF Sends
  <2>. HIDE DEF read
  <2>. QED  BY <1>1, <2>4
<1>. QED  BY <1>2, <1>3, <1>4, <1>5 DEF Listen

\* A relay keeps its upstream peer and the number of replies it needs, and counts the
\* responses that its node reads.
RelayGoesOn(e, n, s) ==
    LET old == fwd[n][s]
        new == fwd'[n][s]
        read == Head(chan[e])
        replied == n = Owner[e] /\ Says(read, "RESP", s)
    IN  /\ new # NoEntry /\ new.upstream = old.upstream /\ new.needed = old.needed
        /\ \/ new = old /\ ~replied
           \/ /\ replied /\ RespCollect(e) /\ new.received = old.received + 1
              /\ new.received # new.needed /\ new.waiting = old.waiting
              /\ new.hits = old.hits \cup read.hits
           \/ /\ replied /\ RespComplete(e) /\ new.received = old.received + 1
              /\ new.received = new.needed /\ new.waiting = FALSE

LEMMA RelayChanges ==
    ASSUME TypeOK, NEW e \in End, Listen(e), NEW n \in Node, NEW s \in Sid,
           fwd[n][s] # NoEntry
    PROVE  RelayGoesOn(e, n, s)
<1>. DEFINE old == fwd[n][s]
            read == Head(chan[e])
            entry == Counted(old, read)
            done == [entry EXCEPT !.waiting = FALSE]
<1>1. Owner[e] \in Node /\ read.sid \in Sid /\ chan[e] # <<>>
  BY ListenReads
<1>2. old \in Relays /\ fwd \in [Node -> [Sid -> Relays \cup {NoEntry}]]
  BY DEF TypeOK
<1>3. CASE n = Owner[e] /\ Says(read, "RESP", s)
  <2>1. RespCollect(e) \/ RespComplete(e)
    BY <1>3 DEF Listen, ReqProcessed, ReqFound, ReqForward, ReqDeadEnd, Fresh, RespInTime,
                RespLate, ForCreator, Receives, Says
  <2>2. read.hits \in SUBSET Hit
    BY <1>1, <1>3, ReadMessage DEF Says
  <2>3. /\ entry \in Relays /\ done \in Relays
        /\ entry.received = old.received + 1 /\ done.received = old.received + 1
        /\ entry.needed = old.needed /\ done.needed = old.needed
        /\ entry.hits = old.hits \cup read.hits
        /\ entry.upstream = old.upstream /\ done.upstream = old.upstream
        /\ entry.waiting = old.waiting /\ done.waiting = FALSE
    <3>. HIDE DEF old, read
    <3>. QED  BY <1>2, <2>2, RelayCounts
  <2>4. CASE RespCollect(e)
    <3>1. fwd' = [fwd EXCEPT ![n][s] = entry] /\ entry.received # entry.needed
      BY <1>3, <2>4 DEF RespCollect, HasAll, Says
    <3>. HIDE DEF entry
    <3>2. fwd'[n][s] = entry
      BY <1>2, <3>1
    <3>. QED  BY <1>3, <2>3, <2>4, <3>1, <3>2, NoEntryAssumption DEF RelayGoesOn
  <2>5. CASE RespComplete(e)
    <3>1. fwd' = [fwd EXCEPT ![n][s] = done] /\ entry.received = entry.needed
      BY <1>3, <2>5 DEF RespComplete, HasAll, Says
    <3>. HIDE DEF entry, done
    <3>2. fwd'[n][s] = done
      BY <1>2, <3>1
    <3>. QED  BY <1>3, <2>3, <2>5, <3>1, <3>2, NoEntryAssumption DEF RelayGoesOn
  <2>. QED  BY <2>1, <2>4, <2>5
<1>4. CASE ~(n = Owner[e] /\ Says(read, "RESP", s))
  <2>1. fwd'[n][s] = old
    <3>1. CASE fwd' = fwd
      BY <3>1
    <3>2. CASE ReqFound(e) \/ ReqForward(e) \/ ReqDeadEnd(e)
      <4>1. /\ fwd[Owner[e]][read.sid] = NoEntry
            /\ \E ent : fwd' = [fwd EXCEPT ![Owner[e]][read.sid] = ent]
        BY <3>2 DEF ReqFound, ReqForward, ReqDeadEnd, Fresh
      <4>. HIDE DEF read
      <4>. QED  BY <1>1, <1>2, <4>1
    <3>3. CASE RespCollect(e) \/ RespComplete(e)
      <4>1. /\ read.type = "RESP"
            /\ \E ent : fwd' = [fwd EXCEPT ![Owner[e]][read.sid] = ent]
        BY <3>3 DEF RespCollect, RespComplete, ForRelay, Receives
      <4>2. ~(n = Owner[e] /\ s = read.sid)
        BY <1>4, <4>1 DEF Says
      <4>. HIDE DEF read
      <4>. QED  BY <1>1, <1>2, <4>1, <4>2
    <3>. QED  BY <3>1, <3>2, <3>3 DEF Listen, ReqProcessed, RespInTime, RespLate
  <2>. HIDE DEF read
  <2>. QED  BY <1>4, <2>1 DEF RelayGoesOn, read
<1>. QED  BY <1>3, <1>4

\* A new relay is made by the listener that reads the request.
RelayComes(e, n, s) ==
    /\ n = Owner[e] /\ Says(Head(chan[e]), "REQ", s)
    /\ \/ ReqForward(e) /\ fwd'[n][s] = Relay(e, TRUE)
       \/ (ReqFound(e) \/ ReqDeadEnd(e)) /\ fwd'[n][s] = Relay(e, FALSE)

LEMMA RelayStarts ==
    ASSUME TypeOK, NEW e \in End, Listen(e), NEW n \in Node, NEW s \in Sid,
           fwd[n][s] = NoEntry, fwd'[n][s] # NoEntry
    PROVE  RelayComes(e, n, s)
<1>. DEFINE read == Head(chan[e])
<1>1. Owner[e] \in Node /\ read.sid \in Sid
  BY ListenReads
<1>2. fwd \in [Node -> [Sid -> Relays \cup {NoEntry}]]
  BY DEF TypeOK
<1>3. CASE RespCollect(e) \/ RespComplete(e)
  <2>1. /\ fwd[Owner[e]][read.sid] # NoEntry
        /\ \E ent : fwd' = [fwd EXCEPT ![Owner[e]][read.sid] = ent]
    BY <1>3 DEF RespCollect, RespComplete, ForRelay
  <2>. HIDE DEF read
  <2>. QED  BY <1>1, <1>2, <2>1
<1>4. CASE ReqFound(e) \/ ReqForward(e) \/ ReqDeadEnd(e)
  <2>1. /\ read.type = "REQ"
        /\ \/ ReqForward(e) /\ fwd' = [fwd EXCEPT ![Owner[e]][read.sid] = Relay(e, TRUE)]
           \/ /\ ReqFound(e) \/ ReqDeadEnd(e)
              /\ fwd' = [fwd EXCEPT ![Owner[e]][read.sid] = Relay(e, FALSE)]
    BY <1>4 DEF ReqFound, ReqForward, ReqDeadEnd, Fresh, Receives
  <2>2. n = Owner[e] /\ s = read.sid
    <3>1. \E ent : fwd' = [fwd EXCEPT ![Owner[e]][read.sid] = ent]
      BY <2>1
    <3>. HIDE DEF read
    <3>. QED  BY <1>1, <1>2, <3>1
  <2>3. /\ fwd' = [fwd EXCEPT ![Owner[e]][read.sid] = Relay(e, TRUE)] =>
              fwd'[n][s] = Relay(e, TRUE)
        /\ fwd' = [fwd EXCEPT ![Owner[e]][read.sid] = Relay(e, FALSE)] =>
              fwd'[n][s] = Relay(e, FALSE)
    BY <1>1, <1>2, <2>2
  <2>. QED  BY <2>1, <2>2, <2>3 DEF RelayComes, Says
<1>. QED  BY <1>3, <1>4 DEF Listen, ReqProcessed, RespInTime, RespLate

----------------------------------------------------------------------------
(* Nobody waits in vain.  A node that waits is still to get a reply at as   *)
(* many of its ends as it misses replies, at least.  Not exactly as many: a *)
(* request that came back to its creator puts a second one on the way to    *)
(* each of its peers.                                                       *)

\* A reply for s is still to come at e: the request or the response is on its way, or
\* the peer waits.  The creator counts on no peer that waits: that peer may be waiting
\* for the creator itself.
Coming(e, s) ==
    \/ InFlight(Other[e], "REQ", s) > 0
    \/ InFlight(e, "RESP", s) > 0
    \/ Owner[e] # s[1] /\ Pending(Other[e], s)

Debtors(n, s) == {e \in ConnectedPeers(n) : Coming(e, s)}

\* A peer of the creator that has not forwarded the search has its request still to
\* read, and when the creator waits as a relay also the one it sent on.
CreatorAsks(s) ==
    created[s] # NoEntry =>
        \A e \in ConnectedPeers(s[1]) : fwd[Owner[Other[e]]][s] = NoEntry =>
            InFlight(Other[e], "REQ", s) >= IF Waiting(s[1], s) THEN 2 ELSE 1

WaitsForSome(n, s) ==
    Waiting(n, s) => Missing(n, s) \in 1..Cardinality(Debtors(n, s))

AskedBy(n, s) == Owner[Other[fwd[n][s].upstream]]

\* Among relays other than the creator's there is one that asked none of the others.
Grounded(s) ==
    \A S \in SUBSET (Node \ {s[1]}) :
        S # {} /\ (\A m \in S : fwd[m][s] # NoEntry) =>
            \E m \in S : \A k \in S : AskedBy(k, s) # m

DeliveryInv ==
    \A s \in Sid :
        CreatorAsks(s) /\ Grounded(s) /\ \A n \in Node : WaitsForSome(n, s)

LEMMA DebtorsFinite ==
    ASSUME NEW n, NEW s
    PROVE  /\ IsFiniteSet(Debtors(n, s)) /\ Cardinality(Debtors(n, s)) \in Nat
           /\ IsFiniteSet(Debtors(n, s)') /\ Cardinality(Debtors(n, s)') \in Nat
<1>1. IsFiniteSet(End) /\ Debtors(n, s) \in SUBSET End /\ Debtors(n, s)' \in SUBSET End
  BY OverlayAssumption DEF Debtors, ConnectedPeers
<1>. QED  BY <1>1, FS_Subset, FS_CardinalityType

\* Nothing of a search that nobody created is on its way.
LEMMA OnWayCreated ==
    ASSUME SoundInv, NEW x \in End, NEW type, NEW s \in Sid, created[s] = NoEntry
    PROVE  InFlight(x, type, s) = 0
<1>1. {i \in 1..Len(chan[x]) : chan[x][i].type = type /\ chan[x][i].sid = s} = {}
  BY DEF SoundInv, MessagesSound, MsgSound
<1>. QED  BY <1>1, FS_EmptySet DEF InFlight, Indexes

LEMMA HeadInFlight ==
    ASSUME chan \in Channels, NEW e \in End, chan[e] # <<>>, NEW type, NEW s,
           Says(Head(chan[e]), type, s)
    PROVE  InFlight(e, type, s) \in Nat /\ InFlight(e, type, s) > 0
<1>1. chan[e] \in Seq(Message) /\ Tail(chan[e]) \in Seq(Message)
  BY DEF Channels
<1>2. Num(chan[e], type, s) = Num(Tail(chan[e]), type, s) + 1
  BY <1>1, NumTail DEF OneIf
<1>3. Num(Tail(chan[e]), type, s) \in Nat
  BY <1>1, NumType
<1>. QED  BY <1>2, <1>3, InFlightIsNum

\* What is on its way after a step of a listener.
LEMMA InFlightAfter ==
    ASSUME TypeOK, NEW e \in End, Listen(e), NEW E \in SUBSET End, NEW msg \in Message,
           Sends(e, E, msg), NEW x \in End, NEW type, NEW s
    PROVE  /\ InFlight(x, type, s) \in Nat /\ InFlight(x, type, s)' \in Nat
           /\ InFlight(x, type, s)' + OneIf(x = e /\ Says(Head(chan[e]), type, s)) =
              InFlight(x, type, s) + OneIf(Other[x] \in E /\ Says(msg, type, s))
<1>1. chan \in Channels /\ chan' \in Channels /\ chan[e] # <<>>
  BY ListenReads
<1>2. chan' = SendOn(Consumed(e), E, msg)
  BY DEF Sends
<1>3. InFlight(x, type, s) \in Nat
  BY <1>1, InFlightIsNum
<1>4. InFlight(x, type, s)' \in Nat
  <2>1. chan'[x] \in Seq(Message)
    BY <1>1 DEF Channels
  <2>2. InFlight(x, type, s)' = Num(chan'[x], type, s)
    BY DEF InFlight, Num, Says, Indexes
  <2>. QED  BY <2>1, <2>2, NumType
<1>. QED  BY <1>1, <1>2, <1>3, <1>4, InFlightMoved

\* A reply stays to come until it is read.
LEMMA ComingKept ==
    ASSUME RoutingInv, SoundInv, NEW e \in End, Listen(e), NEW s \in Sid, CreatorAsks(s),
           NEW y \in End, Coming(y, s), ~(y = e /\ Says(Head(chan[e]), "RESP", s)),
           Owner[y] # s[1] \/ Waiting(s[1], s)
    PROVE  Coming(y, s)'
<1>. DEFINE x == Other[y]
            read == Head(chan[e])
<1>1. TypeOK
  BY DEF RoutingInv
<1>2. x \in End /\ Other[x] = y /\ Owner[x] \in Node /\ Owner[y] \in Node /\ Owner[e] \in Node
  BY OverlayAssumption
<1>3. PICK E \in SUBSET End, msg \in Message : Sends(e, E, msg)
  BY <1>1, ListenSends
<1>4. /\ InFlight(x, "REQ", s) \in Nat /\ InFlight(x, "REQ", s)' \in Nat
      /\ InFlight(x, "REQ", s)' + OneIf(x = e /\ Says(read, "REQ", s)) =
         InFlight(x, "REQ", s) + OneIf(y \in E /\ Says(msg, "REQ", s))
  <2>. HIDE DEF x, read
  <2>1. /\ InFlight(x, "REQ", s) \in Nat /\ InFlight(x, "REQ", s)' \in Nat
        /\ InFlight(x, "REQ", s)' + OneIf(x = e /\ Says(Head(chan[e]), "REQ", s)) =
           InFlight(x, "REQ", s) + OneIf(Other[x] \in E /\ Says(msg, "REQ", s))
    BY <1>1, <1>2, <1>3, InFlightAfter
  <2>. QED  BY <1>2, <2>1 DEF OneIf, read
<1>5. /\ InFlight(y, "RESP", s) \in Nat /\ InFlight(y, "RESP", s)' \in Nat
      /\ InFlight(y, "RESP", s)' =
         InFlight(y, "RESP", s) + OneIf(x \in E /\ Says(msg, "RESP", s))
  <2>1. /\ InFlight(y, "RESP", s) \in Nat /\ InFlight(y, "RESP", s)' \in Nat
        /\ InFlight(y, "RESP", s)' + OneIf(y = e /\ Says(read, "RESP", s)) =
           InFlight(y, "RESP", s) + OneIf(x \in E /\ Says(msg, "RESP", s))
    BY <1>1, <1>3, InFlightAfter
  <2>. HIDE DEF x, read
  <2>2. OneIf(y = e /\ Says(read, "RESP", s)) = 0
    BY DEF OneIf, read
  <2>3. OneIf(x \in E /\ Says(msg, "RESP", s)) \in Nat
    BY DEF OneIf
  <2>. QED  BY <2>1, <2>2, <2>3
<1>. HIDE DEF x
<1>6. CASE InFlight(y, "RESP", s) > 0
  BY <1>5, <1>6 DEF OneIf, Coming
<1>7. CASE InFlight(x, "REQ", s) > 0 /\ ~(x = e /\ Says(read, "REQ", s))
  <2>1. InFlight(x, "REQ", s)' > 0
    BY <1>4, <1>7 DEF OneIf
  <2>. QED  BY <2>1 DEF Coming, x
<1>8. CASE InFlight(x, "REQ", s) > 0 /\ x = e /\ Says(read, "REQ", s)
  <2>1. CASE ~ReqForward(e)
    <3>1. E = {x} /\ Says(msg, "RESP", s)
      BY <1>3, <1>8, <2>1 DEF Sends, Says
    <3>. QED  BY <1>5, <3>1 DEF OneIf, Coming
  <2>2. CASE ReqForward(e) /\ Owner[y] # s[1]
    <3>1. s = read.sid /\ fwd[Owner[e]][s] = NoEntry
      BY <1>8, <2>2 DEF ReqForward, Fresh, Says
    <3>2. fwd' = [fwd EXCEPT ![Owner[e]][s] = Relay(e, TRUE)]
      BY <2>2, <3>1 DEF ReqForward
    <3>3. fwd'[Owner[e]][s] = Relay(e, TRUE)
      BY <1>1, <1>2, <3>2 DEF TypeOK
    <3>4. Relay(e, TRUE) # NoEntry /\ Relay(e, TRUE).waiting /\ Relay(e, TRUE).upstream = e
      BY RelayType DEF Relay
    <3>5. Pending(x, s)'
      BY <1>8, <3>3, <3>4 DEF Pending, Waiting
    <3>. QED  BY <2>2, <3>5 DEF Coming, x
  <2>3. CASE ReqForward(e) /\ Owner[y] = s[1] /\ Waiting(s[1], s)
    <3>1. fwd[Owner[x]][s] = NoEntry
      BY <1>8, <2>3 DEF ReqForward, Fresh, Says
    <3>2. created[s] # NoEntry
      <4>1. s[1] \in Node
        BY DEF Sid
      <4>. QED  BY <2>3, <4>1 DEF Waiting, SoundInv, RelaysSound, HitsFor
    <3>3. InFlight(x, "REQ", s) >= 2
      BY <2>3, <3>1, <3>2 DEF CreatorAsks, ConnectedPeers, x
    <3>4. InFlight(x, "REQ", s)' > 0
      BY <1>4, <3>3 DEF OneIf
    <3>. QED  BY <3>4 DEF Coming, x
  <2>. QED  BY <2>1, <2>2, <2>3
<1>9. CASE Owner[y] # s[1] /\ Pending(x, s)
  <2>. DEFINE m == Owner[x]
  <2>1. fwd[m][s] # NoEntry /\ fwd[m][s].waiting /\ fwd[m][s].upstream = x
    BY <1>9 DEF Pending, Waiting
  <2>2. RelayGoesOn(e, m, s)
    BY <1>1, <1>2, <2>1, RelayChanges
  <2>3. CASE fwd'[m][s].waiting
    <3>1. Pending(x, s)'
      BY <2>1, <2>2, <2>3 DEF RelayGoesOn, Pending, Waiting
    <3>. QED  BY <1>9, <3>1 DEF Coming, x
  <2>4. CASE ~fwd'[m][s].waiting
    <3>1. RespComplete(e) /\ m = Owner[e] /\ Says(read, "RESP", s)
      BY <2>1, <2>2, <2>4 DEF RelayGoesOn
    <3>2. s = read.sid
      BY <3>1 DEF Says
    <3>3. E = {x} /\ Says(msg, "RESP", s)
      BY <1>3, <2>1, <3>1, <3>2 DEF Sends
    <3>. QED  BY <1>5, <3>3 DEF OneIf, Coming
  <2>. QED  BY <2>3, <2>4
<1>. QED  BY <1>6, <1>7, <1>8, <1>9 DEF Coming, x

\* A request was sent to the peer at y, whose own may just have been read.
LEMMA AskedComes ==
    ASSUME TypeOK, NEW e \in End, ReqForward(e), NEW s, Says(Head(chan[e]), "REQ", s),
           NEW y \in ForwardTo(e)
    PROVE  InFlight(Other[y], "REQ", s)' > 0 /\ Coming(y, s)'
<1>1. Listen(e) /\ y \in End /\ Other[y] \in End /\ Other[Other[y]] = y
  BY OverlayAssumption DEF Listen, ForwardTo, ConnectedPeers
<1>2. PICK E \in SUBSET End, msg \in Message : Sends(e, E, msg)
  BY <1>1, ListenSends
<1>3. E = ForwardTo(e) /\ Says(msg, "REQ", s)
  BY <1>2 DEF Sends, Says
<1>. DEFINE x == Other[y]
<1>4. /\ InFlight(x, "REQ", s) \in Nat /\ InFlight(x, "REQ", s)' \in Nat
      /\ InFlight(x, "REQ", s)' + OneIf(x = e /\ Says(Head(chan[e]), "REQ", s)) =
         InFlight(x, "REQ", s) + OneIf(Other[x] \in E /\ Says(msg, "REQ", s))
  <2>. HIDE DEF x
  <2>. QED  BY <1>1, <1>2, InFlightAfter DEF x
<1>5. x = e => InFlight(x, "REQ", s) > 0
  BY <1>1, ListenReads, HeadInFlight
<1>. HIDE DEF x
<1>6. InFlight(x, "REQ", s)' > 0
  BY <1>1, <1>3, <1>4, <1>5 DEF OneIf, x
<1>. QED  BY <1>6 DEF Coming, x

LEMMA WaitsForSomeKept ==
    ASSUME RoutingInv, SoundInv, NEW e \in End, Listen(e), NEW s \in Sid, CreatorAsks(s),
           NEW n \in Node, WaitsForSome(n, s), Waiting(n, s)'
    PROVE  Missing(n, s)' \in 1..Cardinality(Debtors(n, s)')
<1>. DEFINE new == fwd'[n][s]
            old == fwd[n][s]
<1>1. TypeOK /\ Owner[e] \in Node
  BY ListenReads DEF RoutingInv
<1>2. new # NoEntry /\ new.waiting /\ Missing(n, s)' = new.needed - new.received
  BY DEF Waiting, Missing
<1>3. /\ IsFiniteSet(Debtors(n, s)) /\ Cardinality(Debtors(n, s)) \in Nat
      /\ IsFiniteSet(Debtors(n, s)') /\ Cardinality(Debtors(n, s)') \in Nat
  BY DebtorsFinite
<1>4. CASE old = NoEntry
  <2>1. RelayComes(e, n, s)
    BY <1>1, <1>2, <1>4, RelayStarts
  <2>2. /\ n = Owner[e] /\ Says(Head(chan[e]), "REQ", s) /\ ReqForward(e)
        /\ new.needed = RepliesNeeded(n) /\ new.received = 0
    <3>1. ~Relay(e, FALSE).waiting
      BY DEF Relay
    <3>. QED  BY <1>2, <2>1, <3>1 DEF RelayComes, Relay
  <2>3. Missing(n, s)' = RepliesNeeded(n)
    <3>1. RepliesNeeded(n) \in Nat
      BY <2>2, RepliesNeededType
    <3>. HIDE DEF new
    <3>. QED  BY <1>2, <2>2, <3>1
  <2>4. ForwardTo(e) # {}
    BY <2>2 DEF ReqForward
  <2>5. /\ Cardinality(ForwardTo(e)) = RepliesNeeded(n) /\ RepliesNeeded(n) \in Nat
        /\ RepliesNeeded(n) > 0
    BY <2>2, <2>4, RepliesFromAsked
  <2>6. ForwardTo(e) \in SUBSET (Debtors(n, s)')
    <3>1. \A y \in ForwardTo(e) : Coming(y, s)'
      BY <1>1, <2>2, AskedComes
    <3>. QED  BY <2>2, <3>1 DEF Debtors, ForwardTo, ConnectedPeers
  <2>7. Cardinality(ForwardTo(e)) <= Cardinality(Debtors(n, s)')
    BY <1>3, <2>6, FS_Subset
  <2>. HIDE DEF new
  <2>. QED  BY <1>3, <2>3, <2>5, <2>7
<1>5. CASE old # NoEntry
  <2>1. RelayGoesOn(e, n, s)
    BY <1>1, <1>5, RelayChanges
  <2>2. Waiting(n, s)
    BY <1>2, <1>5, <2>1 DEF RelayGoesOn, Waiting
  <2>3. Missing(n, s) = old.needed - old.received /\ old.needed \in Nat /\ old.received \in Nat
    <3>1. old \in Relays
      BY <1>1, <1>5 DEF TypeOK
    <3>. QED  BY <2>2, <3>1 DEF Missing, Relays
  <2>4. Missing(n, s) \in 1..Cardinality(Debtors(n, s))
    BY <2>2 DEF WaitsForSome
  <2>5. \A y \in Debtors(n, s) :
            ~(y = e /\ Says(Head(chan[e]), "RESP", s)) => y \in Debtors(n, s)'
    <3>. SUFFICES ASSUME NEW y \in Debtors(n, s), ~(y = e /\ Says(Head(chan[e]), "RESP", s))
                  PROVE  y \in Debtors(n, s)'
      OBVIOUS
    <3>1. y \in End /\ Owner[y] = n /\ Coming(y, s)
      BY DEF Debtors, ConnectedPeers
    <3>2. Coming(y, s)'
      BY <2>2, <3>1, ComingKept
    <3>. QED  BY <3>1, <3>2 DEF Debtors, ConnectedPeers
  <2>6. CASE ~(n = Owner[e] /\ Says(Head(chan[e]), "RESP", s))
    <3>1. new = old
      BY <2>1, <2>6 DEF RelayGoesOn
    <3>2. Debtors(n, s) \in SUBSET (Debtors(n, s)')
      BY <2>5, <2>6 DEF Debtors, ConnectedPeers
    <3>3. Cardinality(Debtors(n, s)) <= Cardinality(Debtors(n, s)')
      BY <1>3, <3>2, FS_Subset
    <3>4. Missing(n, s)' = Missing(n, s)
      BY <1>2, <2>3, <3>1
    <3>. HIDE DEF new, old
    <3>. QED  BY <1>3, <2>4, <3>3, <3>4
  <2>7. CASE n = Owner[e] /\ Says(Head(chan[e]), "RESP", s)
    <3>1. new.received = old.received + 1 /\ new.needed = old.needed /\ new.received # new.needed
      BY <1>2, <2>1, <2>7 DEF RelayGoesOn
    <3>2. Missing(n, s)' = Missing(n, s) - 1 /\ Missing(n, s)' # 0
      <4>. HIDE DEF new, old
      <4>. QED  BY <1>2, <2>3, <3>1
    <3>. DEFINE rest == Debtors(n, s) \ {e}
    <3>3. rest \in SUBSET (Debtors(n, s)')
      BY <2>5
    <3>4. Cardinality(rest) <= Cardinality(Debtors(n, s)')
      <4>. HIDE DEF rest
      <4>. QED  BY <1>3, <3>3, FS_Subset
    <3>5. Cardinality(rest) >= Cardinality(Debtors(n, s)) - 1 /\ Cardinality(rest) \in Nat
      <4>1. /\ IsFiniteSet(rest)
            /\ Cardinality(rest) = IF e \in Debtors(n, s) THEN Cardinality(Debtors(n, s)) - 1
                                   ELSE Cardinality(Debtors(n, s))
        BY <1>3, FS_RemoveElement
      <4>2. Cardinality(rest) \in Nat
        BY <4>1, FS_CardinalityType
      <4>. QED  BY <1>3, <4>1, <4>2
    <3>. HIDE DEF new, old, rest
    <3>. QED  BY <1>3, <2>4, <3>2, <3>4, <3>5
  <2>. QED  BY <2>6, <2>7
<1>. QED  BY <1>4, <1>5

LEMMA CreatorAsksKept ==
    ASSUME RoutingInv, NEW e \in End, Listen(e), NEW s \in Sid, CreatorAsks(s),
           created'[s] # NoEntry => created[s] # NoEntry
    PROVE  CreatorAsks(s)'
<1>. SUFFICES ASSUME created[s] # NoEntry, NEW y \in ConnectedPeers(s[1]),
                     fwd'[Owner[Other[y]]][s] = NoEntry
              PROVE  InFlight(Other[y], "REQ", s)' >= IF Waiting(s[1], s)' THEN 2 ELSE 1
  BY DEF CreatorAsks, ConnectedPeers
<1>. DEFINE x == Other[y]
            read == Head(chan[e])
<1>1. TypeOK /\ s[1] \in Node
  BY DEF RoutingInv, Sid
<1>2. y \in End /\ Owner[y] = s[1] /\ x \in End /\ Other[x] = y /\ Owner[x] \in Node
  BY OverlayAssumption DEF ConnectedPeers
<1>3. fwd[Owner[x]][s] = NoEntry
  BY <1>2, RelayStays
<1>4. PICK E \in SUBSET End, msg \in Message : Sends(e, E, msg)
  BY <1>1, ListenSends
<1>5. ~(x = e /\ Says(read, "REQ", s))
  <2>. SUFFICES ASSUME x = e, Says(read, "REQ", s) PROVE FALSE
    OBVIOUS
  <2>1. ReqFound(e) \/ ReqForward(e) \/ ReqDeadEnd(e)
    BY <1>3 DEF Listen, ReqProcessed, RespCollect, RespComplete, RespInTime, RespLate,
                ForRelay, ForCreator, Receives, Says
  <2>2. PICK b \in BOOLEAN : fwd' = [fwd EXCEPT ![Owner[e]][s] = Relay(e, b)]
    BY <2>1 DEF ReqFound, ReqForward, ReqDeadEnd, Says
  <2>3. fwd'[Owner[e]][s] = Relay(e, b)
    BY <1>1, <1>2, <2>2 DEF TypeOK
  <2>. QED  BY <2>3, RelayType
<1>6. /\ InFlight(x, "REQ", s) \in Nat /\ InFlight(x, "REQ", s)' \in Nat
      /\ InFlight(x, "REQ", s)' = InFlight(x, "REQ", s) + OneIf(y \in E /\ Says(msg, "REQ", s))
  <2>. HIDE DEF x, read
  <2>1. /\ InFlight(x, "REQ", s) \in Nat /\ InFlight(x, "REQ", s)' \in Nat
        /\ InFlight(x, "REQ", s)' + OneIf(x = e /\ Says(Head(chan[e]), "REQ", s)) =
           InFlight(x, "REQ", s) + OneIf(Other[x] \in E /\ Says(msg, "REQ", s))
    BY <1>1, <1>2, <1>4, InFlightAfter
  <2>. QED  BY <1>2, <1>5, <2>1 DEF OneIf, read
<1>7. InFlight(x, "REQ", s) >= IF Waiting(s[1], s) THEN 2 ELSE 1
  BY <1>3 DEF CreatorAsks
<1>8. CASE Waiting(s[1], s) \/ ~Waiting(s[1], s)'
  <2>. HIDE DEF x
  <2>. QED  BY <1>6, <1>7, <1>8 DEF OneIf, x
<1>9. CASE ~Waiting(s[1], s) /\ Waiting(s[1], s)'
  <2>1. fwd[s[1]][s] = NoEntry /\ fwd'[s[1]][s] # NoEntry
    <3>1. fwd'[s[1]][s] # NoEntry /\ fwd'[s[1]][s].waiting
      BY <1>9 DEF Waiting
    <3>2. ASSUME fwd[s[1]][s] # NoEntry PROVE FALSE
      <4>1. RelayGoesOn(e, s[1], s)
        BY <1>1, <3>2, RelayChanges
      <4>. QED  BY <1>9, <3>1, <3>2, <4>1 DEF RelayGoesOn, Waiting
    <3>. QED  BY <3>1, <3>2
  <2>2. s[1] = Owner[e] /\ Says(read, "REQ", s) /\ ReqForward(e)
    <3>1. RelayComes(e, s[1], s)
      BY <1>1, <2>1, RelayStarts
    <3>2. ~Relay(e, FALSE).waiting
      BY DEF Relay
    <3>. QED  BY <1>9, <3>1, <3>2 DEF RelayComes, Waiting
\* Whoever sent the creator its own request has forwarded it: not the peer at y.
  <2>3. y # e
    <3>1. chan[e] # <<>> /\ chan \in Channels
      BY <1>1, ListenReads
    <3>2. 1 \in 1..Len(chan[e]) /\ read = chan[e][1]
      BY <3>1, ConsumedQueues
    <3>3. Asked(Other[e], s, created, fwd)
      BY <2>2, <3>2 DEF RoutingInv, MessagesRouted, MsgRouted, Says
    <3>. QED  BY <1>3, <2>1, <3>3 DEF Asked
  <2>4. E = ForwardTo(e) /\ Says(msg, "REQ", s)
    BY <1>4, <2>2 DEF Sends, Says
  <2>5. y \in E
    BY <2>2, <2>3, <2>4 DEF ForwardTo
  <2>. HIDE DEF x
  <2>. QED  BY <1>6, <1>7, <2>4, <2>5 DEF OneIf, x
<1>. QED  BY <1>8, <1>9

\* A relay asked somebody who had asked before.
LEMMA GroundedKept ==
    ASSUME RoutingInv, NEW e \in End, Listen(e), NEW s \in Sid, Grounded(s)
    PROVE  Grounded(s)'
<1>. SUFFICES ASSUME NEW S \in SUBSET (Node \ {s[1]}), S # {},
                     \A m \in S : fwd'[m][s] # NoEntry
              PROVE  \E m \in S : \A k \in S : AskedBy(k, s)' # m
  BY DEF Grounded
<1>1. TypeOK
  BY DEF RoutingInv
<1>2. \A k \in S : fwd[k][s] # NoEntry => AskedBy(k, s)' = AskedBy(k, s)
  <2>. TAKE k \in S
  <2>. HAVE fwd[k][s] # NoEntry
  <2>1. RelayGoesOn(e, k, s)
    BY <1>1, RelayChanges
  <2>. QED  BY <2>1 DEF RelayGoesOn, AskedBy
<1>3. CASE \A m \in S : fwd[m][s] # NoEntry
  BY <1>2, <1>3 DEF Grounded
<1>4. CASE \E m \in S : fwd[m][s] = NoEntry
  <2>1. PICK n \in S : fwd[n][s] = NoEntry
    BY <1>4
  <2>2. RelayComes(e, n, s)
    BY <1>1, <2>1, RelayStarts
  <2>3. chan \in Channels /\ chan[e] # <<>>
    BY <1>1, ListenReads
  <2>4. Asked(Other[e], s, created, fwd)
    <3>1. 1 \in 1..Len(chan[e]) /\ Head(chan[e]) = chan[e][1]
      BY <2>3, ConsumedQueues
    <3>. QED  BY <2>2, <3>1 DEF RelayComes, RoutingInv, MessagesRouted, MsgRouted, Says
  <2>5. ASSUME NEW k \in S PROVE AskedBy(k, s)' # n
    <3>1. CASE fwd[k][s] # NoEntry
      <4>1. Asked(Other[fwd[k][s].upstream], s, created, fwd)
        BY <3>1 DEF RoutingInv, RelaysRouted
      <4>. QED  BY <1>2, <2>1, <3>1, <4>1 DEF Asked, AskedBy
    <3>2. CASE fwd[k][s] = NoEntry
      <4>1. RelayComes(e, k, s)
        BY <1>1, <3>2, RelayStarts
      <4>2. AskedBy(k, s)' = Owner[Other[e]]
        BY <4>1 DEF RelayComes, Relay, AskedBy
      <4>. QED  BY <2>1, <2>4, <4>2 DEF Asked
    <3>. QED  BY <3>1, <3>2
  <2>. QED  BY <2>5
<1>. QED  BY <1>3, <1>4

LEMMA ListenCreatesNothing ==
    ASSUME TypeOK, NEW e \in End, Listen(e), NEW s \in Sid
    PROVE  /\ created'[s] # NoEntry <=> created[s] # NoEntry
           /\ created[s] # NoEntry =>
                 /\ created'[s].word = created[s].word
                 /\ created[s].status = "FAILED" => created'[s].status = "FAILED"
                 /\ created[s].hits \subseteq created'[s].hits
                 /\ RespInTime(e) /\ s = Head(chan[e]).sid =>
                       Head(chan[e]).hits \subseteq created'[s].hits
<1>1. CASE ~RespInTime(e)
  BY <1>1 DEF Listen, ReqProcessed, ReqFound, ReqForward, ReqDeadEnd, RespCollect,
              RespComplete, RespLate
<1>2. CASE RespInTime(e)
  <2>. DEFINE resp == Head(chan[e])
              old == created[resp.sid]
              new == [old EXCEPT !.status = IF resp.hits # {} THEN "SUCCESS" ELSE @,
                                 !.hits = @ \cup resp.hits]
  <2>1. resp.sid \in Sid /\ old # NoEntry /\ StillOpen(resp.sid)
    BY <1>2, ListenReads DEF RespInTime, ForCreator
  <2>2. old \in Searches /\ created \in [Sid -> Searches \cup {NoEntry}]
    BY <2>1 DEF TypeOK
  <2>3. resp.hits \in SUBSET Hit
    BY <1>2, ReadMessage DEF RespInTime, ForCreator, Receives
  <2>4. created' = [created EXCEPT ![resp.sid] = new]
    BY <1>2, Zenon DEF RespInTime
  <2>5. new \in Searches /\ new.word = old.word /\ new.hits = old.hits \cup resp.hits
    <3>. HIDE DEF old, resp
    <3>. QED  BY <2>2, <2>3 DEF Searches
  <2>6. old.status # "FAILED"
    BY <2>1 DEF StillOpen
  <2>. HIDE DEF new, resp
  <2>7. CASE s = resp.sid
    <3>1. created'[s] = new
      BY <2>2, <2>4, <2>7
    <3>. QED  BY <2>1, <2>5, <2>6, <2>7, <3>1, NoEntryAssumption DEF resp
  <2>8. CASE s # resp.sid
    BY <2>2, <2>4, <2>8 DEF resp
  <2>. QED  BY <2>7, <2>8
<1>. QED  BY <1>1, <1>2

\* A new attempt asks every peer of its node; nobody has relayed it.
LEMMA MainDelivers ==
    ASSUME SoundInv, NEW n \in Node, User(n) \/ Main(n), DeliveryInv
    PROVE  DeliveryInv'
<1>1. fwd' = fwd
  BY DEF User, Main, SearchUnasked, SearchStart, Choose, Attempt, WakeSuccess, WakeFailed
<1>2. \A m, s : (Waiting(m, s)' <=> Waiting(m, s)) /\ Missing(m, s)' = Missing(m, s)
  BY <1>1 DEF Missing, Waiting
<1>3. \A x, s : Pending(x, s)' <=> Pending(x, s)
  BY <1>1 DEF Pending, Waiting
<1>4. \A s \in Sid : Grounded(s)'
  BY <1>1 DEF DeliveryInv, Grounded, AskedBy
<1>5. ASSUME \A x \in End : \A type : \A s \in Sid :
                 /\ InFlight(x, type, s) \in Nat /\ InFlight(x, type, s)' \in Nat
                 /\ InFlight(x, type, s)' >= InFlight(x, type, s),
             NEW s \in Sid
      PROVE  /\ \A m \in Node : WaitsForSome(m, s)'
             /\ (created'[s] # NoEntry => created[s] # NoEntry) => CreatorAsks(s)'
  <2>1. \A y \in End : Coming(y, s) => Coming(y, s)'
    <3>. SUFFICES ASSUME NEW y \in End, Coming(y, s) PROVE Coming(y, s)'
      OBVIOUS
    <3>1. Other[y] \in End
      BY OverlayAssumption
    <3>2. /\ InFlight(Other[y], "REQ", s)' >= InFlight(Other[y], "REQ", s)
          /\ InFlight(Other[y], "REQ", s)' \in Nat /\ InFlight(Other[y], "REQ", s) \in Nat
          /\ InFlight(y, "RESP", s)' >= InFlight(y, "RESP", s)
          /\ InFlight(y, "RESP", s)' \in Nat /\ InFlight(y, "RESP", s) \in Nat
      BY <1>5, <3>1
    <3>. QED  BY <1>3, <3>2 DEF Coming
  <2>2. ASSUME NEW m \in Node, Waiting(m, s)
        PROVE  Missing(m, s)' \in 1..Cardinality(Debtors(m, s)')
    <3>1. Debtors(m, s) \in SUBSET (Debtors(m, s)')
      BY <2>1 DEF Debtors, ConnectedPeers
    <3>2. /\ IsFiniteSet(Debtors(m, s)') /\ Cardinality(Debtors(m, s)') \in Nat
          /\ Cardinality(Debtors(m, s)) \in Nat
      BY DebtorsFinite
    <3>3. Cardinality(Debtors(m, s)) <= Cardinality(Debtors(m, s)')
      BY <3>1, <3>2, FS_Subset
    <3>4. Missing(m, s) \in 1..Cardinality(Debtors(m, s))
      BY <2>2 DEF DeliveryInv, WaitsForSome
    <3>. QED  BY <1>2, <3>2, <3>3, <3>4
  <2>3. ASSUME created[s] # NoEntry PROVE CreatorAsks(s)'
    <3>. SUFFICES ASSUME NEW y \in ConnectedPeers(s[1]), fwd[Owner[Other[y]]][s] = NoEntry
                  PROVE  InFlight(Other[y], "REQ", s)' >= IF Waiting(s[1], s) THEN 2 ELSE 1
      BY <1>1, <1>2 DEF CreatorAsks, ConnectedPeers
    <3>1. InFlight(Other[y], "REQ", s) >= IF Waiting(s[1], s) THEN 2 ELSE 1
      BY <2>3 DEF DeliveryInv, CreatorAsks
    <3>2. Other[y] \in End
      BY OverlayAssumption DEF ConnectedPeers
    <3>. QED  BY <1>5, <3>1, <3>2
  <2>4. ASSUME NEW m \in Node PROVE WaitsForSome(m, s)'
    <3>1. Waiting(m, s)' => Missing(m, s)' \in 1..Cardinality(Debtors(m, s)')
      BY <1>2, <2>2
    <3>. QED  BY <3>1 DEF WaitsForSome
  <2>5. created'[s] = NoEntry => CreatorAsks(s)'
    BY DEF CreatorAsks
  <2>. QED  BY <2>3, <2>4, <2>5
<1>6. CASE chan' = chan /\ \A s \in Sid : created'[s] # NoEntry => created[s] # NoEntry
  <2>1. chan \in Channels
    BY DEF SoundInv, TypeOK, Channels
  <2>2. ASSUME NEW x \in End, NEW type, NEW s \in Sid
        PROVE  /\ InFlight(x, type, s) \in Nat
               /\ InFlight(x, type, s)' = InFlight(x, type, s)
    <3>1. InFlight(x, type, s)' = InFlight(x, type, s)
      BY <1>6 DEF InFlight, Indexes
    <3>. QED  BY <2>1, <3>1, InFlightIsNum
  <2>3. ASSUME NEW x \in End, NEW type, NEW s \in Sid
        PROVE  /\ InFlight(x, type, s) \in Nat /\ InFlight(x, type, s)' \in Nat
               /\ InFlight(x, type, s)' >= InFlight(x, type, s)
    BY <2>2
  <2>. QED  BY <1>4, <1>5, <1>6, <2>3 DEF DeliveryInv
<1>7. CASE Attempt(n)
  <2>. DEFINE sid == CurrentSid(n)
              msg == Request(sid, Hops[try[n]], word[n])
              E == ConnectedPeers(n)
  <2>1. /\ sid \in Sid /\ sid[1] = n /\ word[n] \in Word /\ Hops[try[n]] \in Nat \ {0}
    BY <1>7, SearchAssumption
       DEF Attempt, SoundInv, TypeOK, Places, CurrentSid, Sid, Attempts
  <2>2. created[sid] = NoEntry
    <3>1. pc[n] = "attempt" /\ sid[2] = counter[n] /\ counter[n] \in Nat
      BY <1>7 DEF Attempt, CurrentSid, SoundInv, TypeOK
    <3>. QED  BY <2>1, <3>1 DEF SoundInv, IdsInOrder
  <2>3. msg \in Message /\ E \in SUBSET End /\ Says(msg, "REQ", sid)
    BY <2>1, MessageTypes DEF ConnectedPeers, Request, Says
  <2>4. chan \in Channels /\ chan' = SendOn(chan, E, msg)
    BY <1>7 DEF Attempt, SoundInv, TypeOK, Channels
  <2>5. \A s \in Sid : s # sid => created'[s] = created[s]
    <3>1. \E ent : created' = [created EXCEPT ![sid] = ent]
      BY <1>7 DEF Attempt
    <3>. HIDE DEF sid
    <3>. QED  BY <2>1, <3>1 DEF SoundInv, TypeOK
  <2>. HIDE DEF msg, sid, E
  <2>6. ASSUME NEW x \in End, NEW type, NEW s
        PROVE  /\ InFlight(x, type, s) \in Nat /\ InFlight(x, type, s)' \in Nat
               /\ InFlight(x, type, s)' >= InFlight(x, type, s)
               /\ Other[x] \in E /\ type = "REQ" /\ s = sid => InFlight(x, type, s)' >= 1
    <3>1. /\ InFlight(x, type, s) \in Nat
          /\ InFlight(x, type, s)' =
                 InFlight(x, type, s) + OneIf(Other[x] \in E /\ Says(msg, type, s))
      BY <2>3, <2>4, InFlightSent
    <3>. QED  BY <2>3, <3>1 DEF OneIf
  <2>7. ASSUME NEW s \in Sid PROVE CreatorAsks(s)'
    <3>1. CASE s # sid
      BY <1>5, <2>5, <2>6, <3>1
    <3>2. CASE s = sid
      <4>1. ~Waiting(s[1], s)'
        BY <1>2, <2>1, <2>2, <3>2 DEF SoundInv, RelaysSound, HitsFor, Waiting
      <4>2. ASSUME NEW y \in ConnectedPeers(s[1])
            PROVE  InFlight(Other[y], "REQ", s)' >= 1
        <5>1. y \in End /\ y \in E /\ Other[y] \in End /\ Other[Other[y]] = y
          BY <2>1, <3>2, OverlayAssumption DEF ConnectedPeers, E
        <5>. QED  BY <2>6, <3>2, <5>1
      <4>. QED  BY <4>1, <4>2 DEF CreatorAsks, ConnectedPeers
    <3>. QED  BY <3>1, <3>2
  <2>8. \A s \in Sid : \A m \in Node : WaitsForSome(m, s)'
    BY <1>5, <2>6
  <2>. QED  BY <1>4, <2>7, <2>8 DEF DeliveryInv
<1>8. CASE WakeFailed(n)
  <2>1. chan' = chan /\ created' = TimedOut(CurrentSid(n))
    BY <1>8 DEF WakeFailed
  <2>2. CurrentSid(n) \in Sid /\ created[CurrentSid(n)] # NoEntry
    BY <1>8 DEF WakeFailed, SoundInv, TypeOK, Places
  <2>3. \A s \in Sid : created'[s] # NoEntry => created[s] # NoEntry
    <3>1. \E ent : created' = [created EXCEPT ![CurrentSid(n)] = ent]
      BY <2>1 DEF TimedOut
    <3>. QED  BY <2>2, <3>1 DEF SoundInv, TypeOK
  <2>. QED  BY <1>6, <2>1, <2>3
<1>. QED  BY <1>6, <1>7, <1>8
          DEF User, Main, SearchUnasked, SearchStart, Choose, WakeSuccess

LEMMA DeliveryInvHolds == Spec => []DeliveryInv
<1>1. Init => DeliveryInv
  BY DEF Init, DeliveryInv, CreatorAsks, Grounded, WaitsForSome, Waiting, Sid
<1>2. RoutingInv /\ SoundInv /\ DeliveryInv /\ [Next]_vars => DeliveryInv'
  <2>. SUFFICES ASSUME RoutingInv, SoundInv, DeliveryInv, [Next]_vars PROVE DeliveryInv'
    OBVIOUS
  <2>1. CASE UNCHANGED vars
    <3>1. fwd' = fwd /\ chan' = chan /\ created' = created
      BY <2>1 DEF vars
    <3>2. \A x, type, s : InFlight(x, type, s)' = InFlight(x, type, s)
      BY <3>1 DEF InFlight, Indexes
    <3>3. \A n, s : (Waiting(n, s)' <=> Waiting(n, s)) /\ Missing(n, s)' = Missing(n, s)
      BY <3>1 DEF Waiting, Missing
    <3>4. \A s \in Sid : CreatorAsks(s)' /\ Grounded(s)'
      BY <3>1, <3>2, <3>3 DEF DeliveryInv, CreatorAsks, Grounded, AskedBy, ConnectedPeers
    <3>5. ASSUME NEW s \in Sid, NEW n \in Node PROVE WaitsForSome(n, s)'
      <4>1. \A y : Coming(y, s)' <=> Coming(y, s)
        BY <3>1, <3>2, <3>3 DEF Coming, Pending
      <4>2. Debtors(n, s)' = Debtors(n, s)
        BY <4>1 DEF Debtors, ConnectedPeers
      <4>3. WaitsForSome(n, s)
        BY DEF DeliveryInv
      <4>. QED  BY <3>3, <4>2, <4>3 DEF WaitsForSome
    <3>. QED  BY <3>4, <3>5 DEF DeliveryInv
  <2>2. ASSUME NEW n \in Searchers, User(n) \/ Main(n) PROVE DeliveryInv'
    BY <2>2, MainDelivers, SearchAssumption
  <2>3. ASSUME NEW e \in End, Listen(e), NEW s \in Sid
        PROVE  CreatorAsks(s)' /\ Grounded(s)' /\ \A n \in Node : WaitsForSome(n, s)'
    <3>1. CreatorAsks(s) /\ Grounded(s) /\ \A n \in Node : WaitsForSome(n, s)
      BY DEF DeliveryInv
    <3>2. created'[s] # NoEntry => created[s] # NoEntry
      BY <2>3, ListenCreatesNothing DEF RoutingInv
    <3>3. CreatorAsks(s)'
      BY <2>3, <3>1, <3>2, CreatorAsksKept
    <3>4. Grounded(s)'
      BY <2>3, <3>1, GroundedKept
    <3>5. ASSUME NEW n \in Node PROVE WaitsForSome(n, s)'
      <4>1. Waiting(n, s)' => Missing(n, s)' \in 1..Cardinality(Debtors(n, s)')
        BY <2>3, <3>1, WaitsForSomeKept
      <4>. QED  BY <4>1 DEF WaitsForSome
    <3>. QED  BY <3>3, <3>4, <3>5
  <2>. QED  BY <2>1, <2>2, <2>3 DEF Next, DeliveryInv
<1>. QED  BY <1>1, <1>2, RoutingInvHolds, SoundInvHolds, PTL DEF Spec

\* When nothing of a search is on its way any more, nobody waits.
LEMMA QuietNobodyWaits ==
    ASSUME RoutingInv, DeliveryInv, NEW s \in Sid, Quiet(s)
    PROVE  \A n \in Node : ~Waiting(n, s)
<1>1. chan \in Channels
  BY DEF RoutingInv, TypeOK, Channels
<1>2. ASSUME NEW x \in End PROVE InFlight(x, "REQ", s) = 0 /\ InFlight(x, "RESP", s) = 0
  <2>1. InFlight(x, "REQ", s) \in Nat /\ InFlight(x, "RESP", s) \in Nat
    BY <1>1, InFlightIsNum
  <2>2. InFlight(x, "REQ", s) + InFlight(x, "RESP", s) = 0
    BY DEF Quiet
  <2>. QED  BY <2>1, <2>2
<1>3. ASSUME NEW n \in Node, Waiting(n, s)
      PROVE  n # s[1] /\ \E m \in Node : Waiting(m, s) /\ AskedBy(m, s) = n
  <2>1. Missing(n, s) \in 1..Cardinality(Debtors(n, s))
    BY <1>3 DEF DeliveryInv, WaitsForSome
  <2>2. Debtors(n, s) # {}
    BY <2>1, FS_EmptySet
  <2>3. PICK y \in End : Owner[y] = n /\ Coming(y, s)
    BY <2>2 DEF Debtors, ConnectedPeers
  <2>4. Other[y] \in End /\ Other[Other[y]] = y /\ Owner[Other[y]] \in Node
    BY OverlayAssumption
  <2>5. n # s[1] /\ Pending(Other[y], s)
    <3>1. InFlight(Other[y], "REQ", s) = 0 /\ InFlight(y, "RESP", s) = 0
      BY <1>2, <2>4
    <3>. QED  BY <2>3, <3>1 DEF Coming
  <2>. QED  BY <2>3, <2>4, <2>5 DEF Pending, AskedBy
<1>. DEFINE W == {n \in Node : Waiting(n, s)}
<1>4. W \in SUBSET (Node \ {s[1]}) /\ \A m \in W : fwd[m][s] # NoEntry
  BY <1>3 DEF Waiting
<1>5. W = {}
  <2>1. Grounded(s)
    BY DEF DeliveryInv
  <2>2. ASSUME NEW m \in W PROVE \E k \in W : AskedBy(k, s) = m
    BY <1>3
  <2>. HIDE DEF W
  <2>. QED  BY <1>4, <2>1, <2>2 DEF Grounded
<1>. QED  BY <1>5

----------------------------------------------------------------------------
(* No YES is lost.  A hit is kept somewhere on its way until the creator    *)
(* has it or the search has failed.  This needs EveryReplyCounted: a relay  *)
(* that no longer waits would drop the hits of a response.                  *)

InSomeResponse(s, h) ==
    \E x \in End : \E i \in 1..Len(chan[x]) :
        Says(chan[x][i], "RESP", s) /\ h \in chan[x][i].hits

Kept(s, h) ==
    \/ InSomeResponse(s, h)
    \/ \E n \in Node : Waiting(n, s) /\ h \in fwd[n][s].hits
    \/ created[s] # NoEntry /\ h \in created[s].hits

\* What a peer had a file for, it has a file for.
IndexGrows == \A n \in Node, w \in Word : Index0[n][w] # NoFile => index[n][w] # NoFile

HoldersKept(s) ==
    created[s] # NoEntry /\ fwd[s[1]][s] = NoEntry /\ created[s].status # "FAILED" =>
        \A n \in Node : fwd[n][s] # NoEntry /\ Index0[n][created[s].word] # NoFile =>
            \E h \in Hit : h.peer = n /\ Kept(s, h)

KeptInv == IndexGrows /\ \A s \in Sid : HoldersKept(s)

\* Hits stay in the queues until their response is read, and a response that is sent
\* gets there.
LEMMA ResponsesKept ==
    ASSUME chan \in Channels, NEW e \in End, chan[e] # <<>>,
           NEW E \in SUBSET End, NEW msg \in Message, chan' = SendOn(Consumed(e), E, msg),
           NEW s, NEW h
    PROVE  /\ InSomeResponse(s, h) =>
                  \/ InSomeResponse(s, h)'
                  \/ Says(Head(chan[e]), "RESP", s) /\ h \in Head(chan[e]).hits
           /\ E # {} /\ Says(msg, "RESP", s) /\ h \in msg.hits => InSomeResponse(s, h)'
<1>1. ASSUME NEW x \in End
      PROVE  /\ Consumed(e)[x] = IF x = e THEN Tail(chan[x]) ELSE chan[x]
             /\ Consumed(e)[x] \in Seq(Message)
             /\ chan'[x] = IF Other[x] \in E THEN Append(Consumed(e)[x], msg)
                           ELSE Consumed(e)[x]
  BY DEF Consumed, SendOn, Channels
<1>2. ASSUME NEW x \in End, NEW i \in 1..Len(chan[x]), x # e \/ i # 1
      PROVE  \E j \in 1..Len(chan'[x]) : chan'[x][j] = chan[x][i]
  <2>. DEFINE j == IF x = e THEN i - 1 ELSE i
  <2>1. chan[x] \in Seq(Message)
    BY DEF Channels
  <2>2. j \in 1..Len(Consumed(e)[x]) /\ Consumed(e)[x][j] = chan[x][i]
    <3>1. CASE x = e
      <4>1. Consumed(e)[x] = Tail(chan[x]) /\ chan[x] # <<>>
        BY <1>1, <3>1
      <4>2. i \in 2..Len(chan[x])
        BY <1>2, <3>1
      <4>. QED  BY <2>1, <3>1, <4>1, <4>2
    <3>2. CASE x # e
      BY <1>1, <3>2
    <3>. QED  BY <3>1, <3>2
  <2>. DEFINE c == Consumed(e)[x]
  <2>3. c \in Seq(Message) /\ (chan'[x] = Append(c, msg) \/ chan'[x] = c)
    BY <1>1
  <2>. HIDE DEF j, c
  <2>4. j \in 1..Len(c) /\ c[j] = chan[x][i]
    BY <2>2 DEF c
  <2>5. j \in 1..Len(chan'[x]) /\ chan'[x][j] = chan[x][i]
    BY <2>3, <2>4
  <2>. QED  BY <2>5
<1>3. ASSUME InSomeResponse(s, h)
      PROVE  \/ InSomeResponse(s, h)'
             \/ Says(Head(chan[e]), "RESP", s) /\ h \in Head(chan[e]).hits
  <2>1. PICK x \in End : \E i \in 1..Len(chan[x]) :
            Says(chan[x][i], "RESP", s) /\ h \in chan[x][i].hits
    BY <1>3 DEF InSomeResponse
  <2>4. PICK i \in 1..Len(chan[x]) : Says(chan[x][i], "RESP", s) /\ h \in chan[x][i].hits
    BY <2>1
  <2>2. CASE x = e /\ i = 1
    <3>1. Head(chan[e]) = chan[x][i]
      BY <2>2, ConsumedQueues
    <3>. QED  BY <2>4, <3>1
  <2>3. CASE x # e \/ i # 1
    <3>1. PICK j \in 1..Len(chan'[x]) : chan'[x][j] = chan[x][i]
      BY <1>2, <2>3
    <3>. QED  BY <2>4, <3>1 DEF InSomeResponse, Says
  <2>. QED  BY <2>2, <2>3
<1>4. ASSUME E # {}, Says(msg, "RESP", s), h \in msg.hits PROVE InSomeResponse(s, h)'
  <2>1. PICK y \in E : TRUE
    BY <1>4
  <2>2. Other[y] \in End /\ Other[Other[y]] = y
    BY OverlayAssumption
  <2>. DEFINE x == Other[y]
  <2>3. /\ Len(chan'[x]) \in 1..Len(chan'[x]) /\ chan'[x][Len(chan'[x])] = msg
    <3>. DEFINE c == Consumed(e)[x]
    <3>1. c \in Seq(Message) /\ chan'[x] = Append(c, msg)
      BY <1>1, <2>2
    <3>. HIDE DEF c
    <3>. QED  BY <3>1
  <2>. HIDE DEF x
  <2>4. x \in End
    BY <2>2 DEF x
  <2>. QED  BY <1>4, <2>3, <2>4 DEF InSomeResponse, Says
<1>. QED  BY <1>3, <1>4

LEMMA HitsKept ==
    ASSUME RoutingInv, NEW e \in End, Listen(e), NEW s \in Sid, Balanced(s),
           fwd[s[1]][s] = NoEntry, created[s] # NoEntry, created'[s].status # "FAILED",
           NEW h, Kept(s, h)
    PROVE  Kept(s, h)'
<1>. DEFINE read == Head(chan[e])
<1>1. /\ TypeOK /\ chan \in Channels /\ chan[e] # <<>> /\ Owner[e] \in Node
  BY ListenReads DEF RoutingInv
<1>2. PICK E \in SUBSET End, msg \in Message : Sends(e, E, msg)
  BY <1>1, ListenSends
<1>3. chan' = SendOn(Consumed(e), E, msg)
  BY <1>2 DEF Sends
<1>4. /\ created'[s] # NoEntry /\ created[s].hits \subseteq created'[s].hits
      /\ RespInTime(e) /\ s = read.sid => read.hits \subseteq created'[s].hits
  BY <1>1, ListenCreatesNothing
\* The hits of a relay that answers, and those of the last reply, go upstream.
<1>5. ASSUME RespComplete(e), s = read.sid, h \in fwd[Owner[e]][s].hits \cup read.hits
      PROVE  Kept(s, h)'
  <2>1. E # {} /\ Says(msg, "RESP", s) /\ h \in msg.hits
    BY <1>2, <1>5 DEF Sends
  <2>2. InSomeResponse(s, h)'
    BY <1>1, <1>3, <2>1, ResponsesKept
  <2>. QED  BY <2>2 DEF Kept
\* The others keep what they had.
<1>6. ASSUME NEW n \in Node, Waiting(n, s), h \in fwd[n][s].hits PROVE Kept(s, h)'
  <2>1. fwd[n][s] # NoEntry /\ fwd[n][s].waiting
    BY <1>6 DEF Waiting
  <2>2. RelayGoesOn(e, n, s)
    BY <1>1, <2>1, RelayChanges
  <2>3. CASE fwd'[n][s].waiting
    <3>1. Waiting(n, s)' /\ h \in fwd'[n][s].hits
      BY <1>6, <2>2, <2>3 DEF RelayGoesOn, Waiting
    <3>. QED  BY <3>1 DEF Kept
  <2>4. CASE ~fwd'[n][s].waiting
    <3>1. RespComplete(e) /\ s = read.sid /\ n = Owner[e]
      BY <2>1, <2>2, <2>4 DEF RelayGoesOn, Says
    <3>. QED  BY <1>5, <1>6, <3>1
  <2>. QED  BY <2>3, <2>4
<1>7. ASSUME Says(read, "RESP", s), h \in read.hits PROVE Kept(s, h)'
  <2>1. s = read.sid /\ read.type = "RESP"
    BY <1>7 DEF Says
  <2>2. CASE RespCollect(e)
    <3>1. ForRelay(e) /\ fwd[Owner[e]][s] # NoEntry
      BY <2>1, <2>2 DEF RespCollect, ForRelay
    <3>2. Waiting(Owner[e], s)
      BY <1>1, <2>1, <3>1, RelayWaits
    <3>3. RelayGoesOn(e, Owner[e], s)
      BY <1>1, <3>1, RelayChanges
    <3>4. ~RespComplete(e)
      BY <2>2 DEF RespCollect, RespComplete
    <3>5. Waiting(Owner[e], s)' /\ h \in fwd'[Owner[e]][s].hits
      BY <1>7, <3>2, <3>3, <3>4 DEF RelayGoesOn, Waiting
    <3>. QED  BY <1>1, <3>5 DEF Kept
  <2>3. CASE RespComplete(e)
    BY <1>5, <1>7, <2>1, <2>3
  <2>4. CASE RespInTime(e)
    BY <1>4, <1>7, <2>1, <2>4 DEF Kept
  <2>5. CASE RespLate(e)
    <3>1. created' = created /\ ~StillOpen(s)
      BY <2>1, <2>5 DEF RespLate
    <3>2. created[s].status \in {"ACTIVE", "SUCCESS", "FAILED"}
      BY <1>1 DEF TypeOK, Searches
    <3>. QED  BY <3>1, <3>2 DEF StillOpen
  <2>. QED  BY <2>1, <2>2, <2>3, <2>4, <2>5
            DEF Listen, ReqProcessed, ReqFound, ReqForward, ReqDeadEnd, Fresh, Receives
<1>8. CASE InSomeResponse(s, h)
  <2>1. InSomeResponse(s, h)' \/ (Says(read, "RESP", s) /\ h \in read.hits)
    BY <1>1, <1>3, <1>8, ResponsesKept
  <2>. QED  BY <1>7, <2>1 DEF Kept
<1>9. CASE created[s] # NoEntry /\ h \in created[s].hits
  BY <1>4, <1>9 DEF Kept
<1>. QED  BY <1>6, <1>8, <1>9 DEF Kept

\* A peer that has the file answers with it.
LEMMA ListenKeeps ==
    ASSUME RoutingInv, SoundInv, EveryReplyCounted, KeptInv, NEW e \in End, Listen(e),
           NEW s \in Sid
    PROVE  HoldersKept(s)'
<1>. SUFFICES ASSUME created'[s] # NoEntry, fwd'[s[1]][s] = NoEntry,
                     created'[s].status # "FAILED", NEW n \in Node, fwd'[n][s] # NoEntry,
                     Index0[n][created'[s].word] # NoFile
              PROVE  \E h \in Hit : h.peer = n /\ Kept(s, h)'
  BY DEF HoldersKept
<1>1. /\ TypeOK /\ chan \in Channels /\ chan[e] # <<>> /\ Owner[e] \in Node /\ s[1] \in Node
      /\ Head(chan[e]) \in Message
  BY ListenReads DEF RoutingInv, Sid
<1>2. /\ created[s] # NoEntry /\ created'[s].word = created[s].word
      /\ created[s].status # "FAILED"
  BY <1>1, ListenCreatesNothing
<1>3. fwd[s[1]][s] = NoEntry
  BY <1>1, RelayStays
<1>4. Balanced(s)
  BY <1>3, CountedByParts
<1>5. CASE fwd[n][s] # NoEntry
  <2>1. PICK h \in Hit : h.peer = n /\ Kept(s, h)
    BY <1>2, <1>3, <1>5 DEF KeptInv, HoldersKept
  <2>2. Kept(s, h)'
    BY <1>2, <1>3, <1>4, <2>1, HitsKept
  <2>. QED  BY <2>1, <2>2
<1>6. CASE fwd[n][s] = NoEntry
  <2>. DEFINE w == Head(chan[e]).word
  <2>1. RelayComes(e, n, s)
    BY <1>1, <1>6, RelayStarts
  <2>2. n = Owner[e] /\ Says(Head(chan[e]), "REQ", s)
    BY <2>1 DEF RelayComes
  <2>3. w = created[s].word /\ w \in Word
    <3>1. 1 \in 1..Len(chan[e]) /\ Head(chan[e]) = chan[e][1]
      BY <1>1, ConsumedQueues
    <3>2. MsgSound(Head(chan[e]), created, index)
      BY <3>1 DEF SoundInv, MessagesSound
    <3>3. w \in Word
      BY <1>1, <2>2, ReadMessage DEF Says
    <3>. QED  BY <2>2, <3>2, <3>3 DEF MsgSound, Says
  <2>4. index[n][w] # NoFile
    BY <1>2, <2>3 DEF KeptInv, IndexGrows
  <2>5. ReqFound(e)
    BY <2>1, <2>2, <2>4 DEF RelayComes, ReqForward, ReqDeadEnd, Holds
  <2>6. PICK E \in SUBSET End, msg \in Message : Sends(e, E, msg)
    BY <1>1, ListenSends
  <2>7. PICK h : h = OwnHit(e, w)
    OBVIOUS
  <2>8. E = {e} /\ Says(msg, "RESP", s) /\ msg.hits = {h}
    <3>1. ~ReqForward(e)
      BY <2>2, <2>4 DEF ReqForward, Holds
    <3>. QED  BY <2>2, <2>5, <2>6, <2>7, <3>1 DEF Sends, Says
  <2>9. h \in Hit /\ h.peer = n
    BY <1>1, <2>2, <2>3, <2>4, <2>7 DEF OwnHit, Hit, TypeOK
  <2>10. InSomeResponse(s, h)'
    <3>1. chan' = SendOn(Consumed(e), E, msg)
      BY <2>6 DEF Sends
    <3>. QED  BY <1>1, <2>8, <3>1, ResponsesKept
  <2>. QED  BY <2>9, <2>10 DEF Kept
<1>. QED  BY <1>5, <1>6

\* A node keeps what it has: downloads only add to its indexes.
LEMMA FilesStay ==
    ASSUME TypeOK, [Next]_vars
    PROVE  \A n \in Node, w \in Word : index[n][w] # NoFile => index'[n][w] # NoFile
<1>1. CASE UNCHANGED index
  BY <1>1
<1>2. ASSUME NEW n \in Node, Choose(n), NEW hit \in created[CurrentSid(n)].hits,
             NEW K, Learn(n, hit.file, K)
      PROVE  \A m \in Node, w \in Word : index[m][w] # NoFile => index'[m][w] # NoFile
  <2>1. hit \in Hit
    BY <1>2 DEF Choose, TypeOK, Places, Searches
  <2>2. hit.file # NoFile
    BY <2>1, IndexAssumption DEF Hit
  <2>3. \A m \in Node, w \in Word :
            index'[m][w] = IF m = n /\ (w = Name[hit.file] \/ w \in K) THEN hit.file
                           ELSE index[m][w]
    BY <1>2 DEF Learn, TypeOK
  <2>. QED  BY <2>2, <2>3
<1>3. ASSUME NEW n \in Searchers, Choose(n)
      PROVE  \A m \in Node, w \in Word : index[m][w] # NoFile => index'[m][w] # NoFile
  <2>1. n \in Node
    BY SearchAssumption
  <2>2. CASE \E hit \in created[CurrentSid(n)].hits :
                 \E K \in {{}, Keywords[hit.file]} : Learn(n, hit.file, K)
    BY <1>2, <1>3, <2>1, <2>2
  <2>. QED  BY <1>1, <1>3, <2>2 DEF Choose
<1>. QED  BY <1>1, <1>3
          DEF Next, vars, User, Main, SearchUnasked, SearchStart, Attempt, WakeSuccess,
              WakeFailed, Listen, ReqProcessed, ReqFound, ReqForward, ReqDeadEnd,
              RespCollect, RespComplete, RespInTime, RespLate

LEMMA IndexGrowsKept ==
    ASSUME TypeOK, IndexGrows, [Next]_vars PROVE IndexGrows'
BY FilesStay DEF IndexGrows

\* Other steps keep what is kept, or let a search fail.
LEMMA KeptElsewhere ==
    ASSUME fwd' = fwd, \A x \in End : \A i \in 1..Len(chan[x]) :
                           i \in 1..Len(chan'[x]) /\ chan'[x][i] = chan[x][i],
           NEW s, created'[s] = created[s], HoldersKept(s)
    PROVE  HoldersKept(s)'
<1>1. ASSUME NEW h, Kept(s, h) PROVE Kept(s, h)'
  <2>1. InSomeResponse(s, h) => InSomeResponse(s, h)'
    <3>. SUFFICES ASSUME NEW x \in End, NEW i \in 1..Len(chan[x]),
                         Says(chan[x][i], "RESP", s), h \in chan[x][i].hits
                  PROVE  InSomeResponse(s, h)'
      BY DEF InSomeResponse
    <3>. QED  BY DEF InSomeResponse, Says
  <2>. QED  BY <1>1, <2>1 DEF Kept, Waiting
<1>. QED  BY <1>1 DEF HoldersKept

LEMMA MainKeeps ==
    ASSUME SoundInv, KeptInv, NEW n \in Node, User(n) \/ Main(n), NEW s \in Sid
    PROVE  HoldersKept(s)'
<1>1. fwd' = fwd /\ TypeOK /\ HoldersKept(s)
  BY DEF User, Main, SearchUnasked, SearchStart, Choose, Attempt, WakeSuccess, WakeFailed,
         SoundInv, KeptInv
<1>2. CASE chan' = chan /\ created' = created
  BY <1>1, <1>2, KeptElsewhere
<1>3. CASE Attempt(n)
  <2>. DEFINE sid == CurrentSid(n)
              msg == Request(sid, Hops[try[n]], word[n])
  <2>1. /\ sid \in Sid /\ sid[1] = n /\ word[n] \in Word /\ Hops[try[n]] \in Nat \ {0}
    BY <1>3, SearchAssumption
       DEF Attempt, SoundInv, TypeOK, Places, CurrentSid, Sid, Attempts
  <2>2. created[sid] = NoEntry
    <3>1. pc[n] = "attempt" /\ sid[2] = counter[n] /\ counter[n] \in Nat
      BY <1>3 DEF Attempt, CurrentSid, SoundInv, TypeOK
    <3>. QED  BY <2>1, <3>1 DEF SoundInv, IdsInOrder
  <2>3. CASE s = sid
    <3>1. \A m \in Node : fwd'[m][s] = NoEntry
      BY <1>1, <2>2, <2>3 DEF SoundInv, RelaysSound, HitsFor
    <3>. QED  BY <3>1 DEF HoldersKept
  <2>4. CASE s # sid
    <3>1. created'[s] = created[s]
      <4>1. \E ent : created' = [created EXCEPT ![sid] = ent]
        BY <1>3 DEF Attempt
      <4>. HIDE DEF sid
      <4>. QED  BY <1>1, <2>1, <2>4, <4>1 DEF TypeOK
    <3>2. ASSUME NEW x \in End, NEW i \in 1..Len(chan[x])
          PROVE  i \in 1..Len(chan'[x]) /\ chan'[x][i] = chan[x][i]
      <4>1. chan[x] \in Seq(Message)
        BY <1>1 DEF TypeOK
      <4>2. msg \in Message /\ chan' = SendOn(chan, ConnectedPeers(n), msg)
        BY <1>3, <2>1, MessageTypes DEF Attempt
      <4>. HIDE DEF msg
      <4>3. chan'[x] = chan[x] \/ chan'[x] = Append(chan[x], msg)
        BY <4>2 DEF SendOn
      <4>. QED  BY <4>1, <4>2, <4>3
    <3>. QED  BY <1>1, <3>1, <3>2, KeptElsewhere
  <2>. QED  BY <2>3, <2>4
<1>4. CASE WakeFailed(n)
  <2>. DEFINE sid == CurrentSid(n)
  <2>1. sid \in Sid /\ created[sid] \in Searches
    <3>1. sid \in Sid /\ created[sid] # NoEntry
      BY <1>1, <1>4 DEF WakeFailed, TypeOK, Places
    <3>. QED  BY <1>1, <3>1 DEF TypeOK
  <2>2. chan' = chan /\ created' = [created EXCEPT ![sid] = [created[sid] EXCEPT !.status = "FAILED"]]
    BY <1>4, Zenon DEF WakeFailed, TimedOut
  <2>3. CASE s = sid
    <3>1. created'[s] = [created[sid] EXCEPT !.status = "FAILED"]
      BY <1>1, <2>1, <2>2, <2>3 DEF TypeOK
    <3>2. created'[s].status = "FAILED"
      BY <2>1, <3>1 DEF Searches
    <3>. QED  BY <3>2 DEF HoldersKept
  <2>4. CASE s # sid
    <3>1. created'[s] = created[s]
      BY <1>1, <2>1, <2>2, <2>4 DEF TypeOK
    <3>. QED  BY <1>1, <2>2, <3>1, KeptElsewhere
  <2>. QED  BY <2>3, <2>4
<1>. QED  BY <1>2, <1>3, <1>4 DEF User, Main, SearchUnasked, SearchStart, Choose, WakeSuccess

LEMMA KeptInvHolds == Spec => []KeptInv
<1>1. Init => KeptInv
  BY DEF Init, KeptInv, IndexGrows, HoldersKept
<1>2. RoutingInv /\ SoundInv /\ EveryReplyCounted /\ KeptInv /\ [Next]_vars => KeptInv'
  <2>. SUFFICES ASSUME RoutingInv, SoundInv, EveryReplyCounted, KeptInv, [Next]_vars,
                       NEW s \in Sid
                PROVE  HoldersKept(s)'
    BY IndexGrowsKept DEF KeptInv, RoutingInv
  <2>1. CASE UNCHANGED vars
    BY <2>1, KeptElsewhere DEF vars, KeptInv
  <2>2. ASSUME NEW n \in Searchers, User(n) \/ Main(n) PROVE HoldersKept(s)'
    BY <2>2, MainKeeps, SearchAssumption
  <2>3. ASSUME NEW e \in End, Listen(e) PROVE HoldersKept(s)'
    BY <2>3, ListenKeeps
  <2>. QED  BY <2>1, <2>2, <2>3 DEF Next
<1>. QED  BY <1>1, <1>2, RoutingInvHolds, SoundInvHolds, RepliesAreCounted, PTL DEF Spec

\* On every overlay: when the flood of a search is over no relay waits, looped back or not;
\* and unless the request came back to its creator or the search has failed, every peer it
\* reached that has had a file for the word all along is on the list.
THEOREM HoldersAreReported == Spec => []EveryHolderReported
<1>1. RoutingInv /\ DeliveryInv /\ KeptInv => EveryHolderReported
  <2>. SUFFICES ASSUME RoutingInv, DeliveryInv, KeptInv, NEW s \in Sid, Quiet(s)
                PROVE  /\ \A n \in Node : ~Waiting(n, s)
                       /\ ~LoopedBack(s) /\ created[s].status # "FAILED" =>
                            \A n \in Node :
                               fwd[n][s] # NoEntry /\ Index0[n][created[s].word] # NoFile =>
                                   \E hit \in created[s].hits : hit.peer = n
    BY DEF EveryHolderReported
  <2>1. \A n \in Node : ~Waiting(n, s)
    BY QuietNobodyWaits
  <2>2. \A h : ~InSomeResponse(s, h)
    <3>. SUFFICES ASSUME NEW x \in End, NEW i \in 1..Len(chan[x]),
                         Says(chan[x][i], "RESP", s)
                  PROVE  FALSE
      BY DEF InSomeResponse
    <3>. DEFINE R == {j \in 1..Len(chan[x]) : Says(chan[x][j], "RESP", s)}
    <3>1. chan \in Channels /\ chan[x] \in Seq(Message)
      BY DEF RoutingInv, TypeOK, Channels
    <3>2. IsFiniteSet(R) /\ InFlight(x, "RESP", s) = Cardinality(R)
      BY <3>1, NumType, InFlightIsNum DEF Num
    <3>3. Cardinality(R) = 0
      <4>1. InFlight(x, "REQ", s) \in Nat /\ InFlight(x, "RESP", s) \in Nat
        BY <3>1, InFlightIsNum
      <4>2. InFlight(x, "REQ", s) + InFlight(x, "RESP", s) = 0
        BY DEF Quiet
      <4>. HIDE DEF R
      <4>. QED  BY <3>2, <4>1, <4>2
    <3>4. i \in R
      OBVIOUS
    <3>. HIDE DEF R
    <3>. QED  BY <3>2, <3>3, <3>4, FS_EmptySet
  <2>3. ASSUME ~LoopedBack(s), created[s].status # "FAILED", NEW n \in Node,
               fwd[n][s] # NoEntry, Index0[n][created[s].word] # NoFile
        PROVE  \E hit \in created[s].hits : hit.peer = n
    <3>1. created[s] # NoEntry /\ fwd[s[1]][s] = NoEntry
      BY <2>3 DEF Quiet, LoopedBack
    <3>2. PICK h \in Hit : h.peer = n /\ Kept(s, h)
      BY <2>3, <3>1 DEF KeptInv, HoldersKept
    <3>. QED  BY <2>1, <2>2, <3>2 DEF Kept
  <2>. QED  BY <2>1, <2>3
<1>. QED  BY <1>1, RoutingInvHolds, DeliveryInvHolds, KeptInvHolds, PTL

----------------------------------------------------------------------------
(* Without cycles the flood leaves out nobody.  A request goes away from    *)
(* its creator: the connection it comes by is the only one between the two, *)
(* so no walk to its receiver is shorter than the one it has taken.         *)

\* A walk to n takes d connections at least.
Far(n, d, s) == \A k \in Nat : Walk(s[1], k, n) => d <= k

\* The creator of s is beyond the connection r.
Behind(r, s) == \E part \in SUBSET Node : WaysOut(part) = {r} /\ s[1] \notin part

ReqFar(x, msg, cr) == msg.type = "REQ" =>
    /\ Behind(x, msg.sid)
    /\ Far(Owner[x], cr[msg.sid].hop - msg.hop + 1, msg.sid)

MessagesFar == \A x \in End : \A i \in 1..Len(chan[x]) : ReqFar(x, chan[x][i], created)

\* The peer at e has the search or will have it.
Told(e, s) ==
    LET m == Owner[Other[e]] IN
    m = s[1] \/ fwd[m][s] # NoEntry \/ InFlight(Other[e], "REQ", s) > 0

\* A relay that has not the file tells its peers, unless it was the last hop.
Spreads(n, s) == fwd[n][s] # NoEntry /\ ~Holds(n, created[s].word) =>
    Far(n, created[s].hop, s) \/ \A e \in ConnectedPeers(n) : Told(e, s)

CoverInv == Forest /\ MessagesFar /\ \A n \in Node, s \in Sid : Spreads(n, s)

\* What the induction over walks rests on.
LEMMA LeastNumber ==
    ASSUME NEW S, S \subseteq Nat, S # {}
    PROVE  \E x \in S : \A y \in S : x <= y
<1>. DEFINE R == OpToRel(<, Nat)
<1>1. PICK x \in S : \A y \in S : ~ (<<y, x>> \in R)
  BY NatLessThanWellFounded, WFMin
<1>2. ASSUME NEW y \in S PROVE x <= y
  <2>1. x \in Nat /\ y \in Nat /\ <<y, x>> \in Nat \X Nat
    OBVIOUS
  <2>2. y < x => <<y, x>> \in R
    BY <2>1 DEF OpToRel
  <2>. HIDE DEF R
  <2>. QED  BY <1>1, <2>1, <2>2
<1>. QED  BY <1>2

\* The beginning of a walk is a walk.
LEMMA WalkBegins ==
    ASSUME NEW n, NEW k \in Nat, NEW path \in Walks(n, k), NEW j \in 0..k
    PROVE  Walk(n, j, path[j])
<1>. DEFINE begin == [i \in 0..j |-> path[i]]
<1>1. /\ path \in [0..k -> Node] /\ path[0] = n
      /\ \A i \in 1..k : \E e \in End : Owner[e] = path[i - 1] /\ Owner[Other[e]] = path[i]
  BY DEF Walks
<1>2. begin \in [0..j -> Node] /\ begin[0] = n /\ begin[j] = path[j]
  BY <1>1
<1>3. ASSUME NEW i \in 1..j
      PROVE  \E e \in End : Owner[e] = begin[i - 1] /\ Owner[Other[e]] = begin[i]
  <2>1. i \in 1..k /\ begin[i - 1] = path[i - 1] /\ begin[i] = path[i]
    OBVIOUS
  <2>. HIDE DEF begin
  <2>. QED  BY <1>1, <2>1
<1>. HIDE DEF begin
<1>. QED  BY <1>2, <1>3 DEF Walk, Walks

\* Who walks into a part with one connection comes by that connection.
LEMMA WalkCrosses ==
    ASSUME NEW part, NEW r \in End, WaysOut(part) = {r}, NEW n, n \notin part,
           NEW k \in Nat, NEW m \in part, Walk(n, k, m)
    PROVE  \E j \in 1..k : Walk(n, j - 1, Owner[Other[r]])
<1>1. PICK path \in Walks(n, k) : path[k] = m
  BY DEF Walk
<1>2. /\ path[0] = n
      /\ \A i \in 1..k : \E e \in End : Owner[e] = path[i - 1] /\ Owner[Other[e]] = path[i]
  BY DEF Walks
<1>. DEFINE S == {i \in 0..k : path[i] \in part}
<1>3. S \subseteq Nat /\ k \in S
  BY <1>1
<1>4. PICK j \in S : \A i \in S : j <= i
  <2>. HIDE DEF S
  <2>. QED  BY <1>3, LeastNumber
<1>5. j \in 1..k /\ path[j] \in part /\ path[j - 1] \notin part
  <2>1. j \in 0..k /\ path[j] \in part /\ j # 0
    BY <1>2
  <2>2. j - 1 \in 0..k /\ ~(j <= j - 1)
    BY <2>1
  <2>. QED  BY <1>4, <2>1, <2>2
<1>6. PICK e \in End : Owner[e] = path[j - 1] /\ Owner[Other[e]] = path[j]
  BY <1>2, <1>5
<1>7. Other[e] \in WaysOut(part) /\ Other[Other[e]] = e
  BY <1>5, <1>6, OverlayAssumption DEF WaysOut
<1>8. Other[e] = r /\ Owner[Other[r]] = path[j - 1]
  BY <1>6, <1>7
<1>9. Walk(n, j - 1, path[j - 1])
  <2>1. j - 1 \in 0..k
    BY <1>5
  <2>. QED  BY <2>1, WalkBegins
<1>. QED  BY <1>5, <1>8, <1>9

\* One connection further from the creator.
LEMMA FartherOn ==
    ASSUME Forest, NEW s \in Sid, NEW e \in End, Behind(e, s), NEW d \in Nat,
           Far(Owner[e], d, s), NEW x \in End, Other[x] \in ForwardTo(e)
    PROVE  Behind(x, s) /\ Far(Owner[x], d + 1, s)
<1>1. /\ Owner[Other[x]] = Owner[e] /\ Other[x] # e /\ Other[x] \in End
      /\ Other[Other[x]] = x /\ Owner[x] \in Node
  BY OverlayAssumption DEF ForwardTo, ConnectedPeers
<1>2. PICK near \in SUBSET Node : WaysOut(near) = {e} /\ s[1] \notin near
  BY DEF Behind
<1>3. PICK beyond \in SUBSET Node : WaysOut(beyond) = {x}
  BY DEF Forest
<1>. DEFINE part == near \cap beyond
<1>4. Owner[e] \in near /\ Owner[x] \in beyond /\ Owner[e] \notin beyond
  BY <1>1, <1>2, <1>3 DEF WaysOut
<1>5. Owner[x] \in near
  <2>1. Other[x] \notin WaysOut(near)
    BY <1>1, <1>2
  <2>. QED  BY <1>1, <1>4, <2>1 DEF WaysOut
<1>6. WaysOut(part) = {x}
  <2>1. x \in WaysOut(part)
    BY <1>1, <1>4, <1>5 DEF WaysOut
  <2>2. ASSUME NEW y \in WaysOut(part) PROVE y = x
    <3>1. y \in WaysOut(near) \/ y \in WaysOut(beyond)
      BY DEF WaysOut
    <3>2. y # e
      BY <1>4 DEF WaysOut
    <3>. QED  BY <1>2, <1>3, <3>1, <3>2
  <2>. QED  BY <2>1, <2>2
<1>7. part \in SUBSET Node /\ s[1] \notin part /\ Owner[x] \in part
  BY <1>2, <1>4, <1>5
<1>. HIDE DEF part
<1>8. Behind(x, s)
  BY <1>6, <1>7 DEF Behind
<1>9. ASSUME NEW k \in Nat, Walk(s[1], k, Owner[x]) PROVE d + 1 <= k
  <2>1. PICK j \in 1..k : Walk(s[1], j - 1, Owner[Other[x]])
    BY <1>6, <1>7, <1>9, WalkCrosses
  <2>2. j - 1 \in Nat /\ Walk(s[1], j - 1, Owner[e])
    BY <1>1, <2>1
  <2>3. d <= j - 1
    BY <2>2 DEF Far
  <2>. QED  BY <2>3
<1>. QED  BY <1>8, <1>9 DEF Far

\* The peers of the creator.
LEMMA FarFromCreator ==
    ASSUME Forest, NEW s \in Sid, NEW x \in End, Owner[Other[x]] = s[1]
    PROVE  Behind(x, s) /\ Far(Owner[x], 1, s)
<1>1. PICK part \in SUBSET Node : WaysOut(part) = {x}
  BY DEF Forest
<1>2. s[1] \notin part /\ Owner[x] \in part
  BY <1>1 DEF WaysOut
<1>3. ASSUME NEW k \in Nat, Walk(s[1], k, Owner[x]) PROVE 1 <= k
  <2>1. k # 0
    BY <1>2, <1>3 DEF Walk, Walks
  <2>. QED  BY <2>1
<1>. QED  BY <1>1, <1>2, <1>3 DEF Behind, Far

\* Searches keep their words and hop counts, and nodes their files.
SearchesStay == \A s \in Sid : created[s] # NoEntry =>
    /\ created'[s] # NoEntry
    /\ created'[s].hop = created[s].hop /\ created'[s].word = created[s].word

LEMMA SearchesKept ==
    ASSUME SoundInv, [Next]_vars PROVE SearchesStay
<1>1. CASE created' = created
  BY <1>1 DEF SearchesStay
<1>2. ASSUME NEW sid \in Sid, NEW new \in Searches, created' = [created EXCEPT ![sid] = new],
             \/ created[sid] = NoEntry
             \/ new.hop = created[sid].hop /\ new.word = created[sid].word
      PROVE  SearchesStay
  <2>1. \A s \in Sid : created'[s] = IF s = sid THEN new ELSE created[s]
    BY <1>2 DEF SoundInv, TypeOK
  <2>2. new # NoEntry
    BY NoEntryAssumption
  <2>. QED  BY <1>2, <2>1, <2>2 DEF SearchesStay
<1>3. ASSUME NEW n \in Node, Attempt(n) PROVE SearchesStay
  <2>. DEFINE sid == CurrentSid(n)
              new == ActiveSearch(word[n], Hops[try[n]])
  <2>1. /\ sid \in Sid /\ sid[1] = n /\ word[n] \in Word /\ Hops[try[n]] \in Nat \ {0}
    BY <1>3, SearchAssumption
       DEF Attempt, SoundInv, TypeOK, Places, CurrentSid, Sid, Attempts
  <2>2. created[sid] = NoEntry
    <3>1. pc[n] = "attempt" /\ sid[2] = counter[n] /\ counter[n] \in Nat
      BY <1>3 DEF Attempt, CurrentSid, SoundInv, TypeOK
    <3>. QED  BY <2>1, <3>1 DEF SoundInv, IdsInOrder
  <2>3. new \in Searches
    BY <2>1 DEF ActiveSearch, Searches
  <2>4. created' = [created EXCEPT ![sid] = new]
    BY <1>3 DEF Attempt
  <2>. HIDE DEF sid, new
  <2>. QED  BY <1>2, <2>1, <2>2, <2>3, <2>4
<1>4. ASSUME NEW n \in Node, WakeFailed(n) PROVE SearchesStay
  <2>. DEFINE sid == CurrentSid(n)
              new == [created[sid] EXCEPT !.status = "FAILED"]
  <2>1. sid \in Sid /\ created[sid] \in Searches
    <3>1. sid \in Sid /\ created[sid] # NoEntry
      BY <1>4 DEF WakeFailed, SoundInv, TypeOK, Places
    <3>. QED  BY <3>1 DEF SoundInv, TypeOK
  <2>2. created' = [created EXCEPT ![sid] = new]
    BY <1>4, Zenon DEF WakeFailed, TimedOut
  <2>3. new \in Searches /\ new.hop = created[sid].hop /\ new.word = created[sid].word
    BY <2>1 DEF Searches
  <2>. HIDE DEF sid, new
  <2>. QED  BY <1>2, <2>1, <2>2, <2>3
<1>5. ASSUME NEW e \in End, RespInTime(e) PROVE SearchesStay
  <2>. DEFINE resp == Head(chan[e])
              old == created[resp.sid]
              new == [old EXCEPT !.status = IF resp.hits # {} THEN "SUCCESS" ELSE @,
                                 !.hits = @ \cup resp.hits]
  <2>1. resp.sid \in Sid /\ old # NoEntry
    BY <1>5, ListenReads DEF SoundInv, Listen, RespInTime, ForCreator
  <2>2. old \in Searches
    BY <2>1 DEF SoundInv, TypeOK
  <2>3. resp.hits \in SUBSET Hit
    BY <1>5, ReadMessage DEF SoundInv, RespInTime, ForCreator, Receives
  <2>4. created' = [created EXCEPT ![resp.sid] = new]
    BY <1>5, Zenon DEF RespInTime
  <2>5. new \in Searches /\ new.word = old.word /\ new.hop = old.hop
    <3>. HIDE DEF old, resp
    <3>. QED  BY <2>2, <2>3 DEF Searches
  <2>6. old = created[resp.sid]
    OBVIOUS
  <2>. HIDE DEF new, old, resp
  <2>. QED  BY <1>2, <2>1, <2>4, <2>5, <2>6
<1>. QED  BY <1>1, <1>3, <1>4, <1>5, SearchAssumption
          DEF Next, vars, User, Main, SearchUnasked, SearchStart, Choose, WakeSuccess, Listen,
              ReqProcessed, ReqFound, ReqForward, ReqDeadEnd, RespCollect, RespComplete,
              RespLate

\* Requests that are on their way stay far, and so do those that a step sends.
LEMMA MessagesFarKept ==
    ASSUME SoundInv, MessagesFar, SearchesStay, NEW E, NEW msg, Queued(E, msg),
           \A x \in End : Other[x] \in E => ReqFar(x, msg, created')
    PROVE  MessagesFar'
<1>. SUFFICES ASSUME NEW x \in End, NEW i \in 1..Len(chan'[x])
              PROVE  ReqFar(x, chan'[x][i], created')
  BY DEF MessagesFar
<1>1. CASE chan'[x][i] = msg /\ Other[x] \in E
  BY <1>1
<1>2. ASSUME NEW j \in 1..Len(chan[x]), chan'[x][i] = chan[x][j]
      PROVE  ReqFar(x, chan'[x][i], created')
  <2>1. ReqFar(x, chan[x][j], created)
    BY DEF MessagesFar
  <2>2. chan[x][j].sid \in Sid /\ created[chan[x][j].sid] # NoEntry
    BY DEF SoundInv, TypeOK, Message, MessagesSound, MsgSound
  <2>3. created'[chan[x][j].sid].hop = created[chan[x][j].sid].hop
    BY <2>2 DEF SearchesStay
  <2>. QED  BY <1>2, <2>1, <2>3 DEF ReqFar
<1>. QED  BY <1>1, <1>2 DEF Queued

LEMMA ListenFar ==
    ASSUME Forest, SoundInv, FloodWithinHops, MessagesFar, SearchesStay,
           NEW e \in End, Listen(e)
    PROVE  MessagesFar'
<1>. DEFINE read == Head(chan[e])
<1>1. /\ TypeOK /\ chan \in Channels /\ chan[e] # <<>> /\ read \in Message /\ read.sid \in Sid
  BY ListenReads DEF SoundInv
<1>2. 1 \in 1..Len(chan[e]) /\ read = chan[e][1]
  BY <1>1, ConsumedQueues
<1>3. ASSUME NEW E \in SUBSET End, NEW msg \in Message, chan' = SendOn(Consumed(e), E, msg)
      PROVE  Queued(E, msg)
  <2>1. \A x \in End : \A i \in 1..Len(SendOn(Consumed(e), E, msg)[x]) :
            \/ SendOn(Consumed(e), E, msg)[x][i] = msg /\ Other[x] \in E
            \/ \E j \in 1..Len(chan[x]) :
                  SendOn(Consumed(e), E, msg)[x][i] = chan[x][j]
    <3>. HIDE DEF read
    <3>. QED  BY <1>1, AnsweredOn
  <2>. QED  BY <1>3, <2>1 DEF Queued
<1>4. CASE (read.type = "REQ" /\ ~ReqForward(e)) \/ RespComplete(e)
  <2>1. PICK E \in SUBSET End, msg \in Message : Sends(e, E, msg)
    BY <1>1, ListenSends
  <2>2. Says(msg, "RESP", read.sid) /\ chan' = SendOn(Consumed(e), E, msg)
    BY <1>4, <2>1 DEF Sends
  <2>3. \A x \in End : ReqFar(x, msg, created')
    BY <2>2 DEF ReqFar, Says
  <2>. HIDE DEF read
  <2>. QED  BY <1>3, <2>2, <2>3, MessagesFarKept
<1>5. CASE RespCollect(e) \/ RespInTime(e) \/ RespLate(e)
  <2>1. chan' = Consumed(e)
    BY <1>5 DEF RespCollect, RespInTime, RespLate
  <2>2. Queued({}, read)
    BY <1>1, <2>1, ConsumedQueues DEF Queued
  <2>. HIDE DEF read
  <2>. QED  BY <2>2, MessagesFarKept
<1>6. CASE ReqForward(e)
  <2>. DEFINE s == read.sid
              hop == created[s].hop
              msg == Request(s, HopsLeft(read), read.word)
  <2>1. read.type = "REQ" /\ ~LastHop(read)
    BY <1>6 DEF ReqForward, Fresh, Receives
  <2>2. read.hop \in Nat \ {0} /\ read.word \in Word
    BY <1>1, <2>1, ReadMessage
  <2>3. HopsLeft(read) = read.hop - 1 /\ HopsLeft(read) \in Nat \ {0}
    BY <2>1, <2>2 DEF LastHop, HopsLeft
  <2>4. msg \in Message /\ msg.sid = s /\ msg.hop = HopsLeft(read)
    BY <1>1, <2>2, <2>3, MessageTypes DEF Request
  <2>5. chan' = SendOn(Consumed(e), ForwardTo(e), msg) /\ ForwardTo(e) \in SUBSET End
    BY <1>6 DEF ReqForward, ForwardTo, ConnectedPeers
  <2>6. created[s] # NoEntry /\ hop \in Nat /\ created'[s].hop = hop
    <3>1. created[s] # NoEntry
      BY <1>2 DEF SoundInv, MessagesSound, MsgSound
    <3>. QED  BY <1>1, <3>1 DEF TypeOK, Searches, SearchesStay
  <2>7. Behind(e, s) /\ Far(Owner[e], hop - read.hop + 1, s)
    BY <1>2, <2>1 DEF MessagesFar, ReqFar
  <2>8. read.hop \in 1..hop
    BY <1>2, <2>1, FloodByParts DEF ReqNear
  <2>9. hop - read.hop + 1 \in Nat /\ (hop - read.hop + 1) + 1 = hop - msg.hop + 1
    BY <2>2, <2>3, <2>4, <2>6, <2>8
  <2>10. ASSUME NEW x \in End, Other[x] \in ForwardTo(e) PROVE ReqFar(x, msg, created')
    <3>. DEFINE d == hop - read.hop + 1
    <3>1. d \in Nat /\ Far(Owner[e], d, s)
      BY <2>7, <2>9
    <3>2. Behind(x, s) /\ Far(Owner[x], d + 1, s)
      <4>. HIDE DEF d, s
      <4>1. s \in Sid
        BY <1>1 DEF s
      <4>. QED  BY <2>7, <2>10, <3>1, <4>1, FartherOn
    <3>3. Far(Owner[x], hop - msg.hop + 1, s)
      BY <2>9, <3>2
    <3>. HIDE DEF msg, hop, s
    <3>. QED  BY <2>4, <2>6, <3>2, <3>3 DEF ReqFar
  <2>. HIDE DEF msg, read
  <2>. QED  BY <1>3, <2>4, <2>5, <2>10, MessagesFarKept
<1>. QED  BY <1>4, <1>5, <1>6
          DEF Listen, ReqProcessed, ReqFound, ReqDeadEnd, Fresh, Receives

LEMMA MainFar ==
    ASSUME Forest, SoundInv, MessagesFar, SearchesStay, NEW n \in Node, User(n) \/ Main(n)
    PROVE  MessagesFar'
<1>1. CASE chan' = chan
  <2>1. Queued({}, NoEntry)
    BY <1>1 DEF Queued
  <2>. QED  BY <2>1, MessagesFarKept
<1>2. CASE Attempt(n)
  <2>. DEFINE sid == CurrentSid(n)
              hop == Hops[try[n]]
              msg == Request(sid, hop, word[n])
  <2>1. /\ sid \in Sid /\ sid[1] = n /\ word[n] \in Word /\ hop \in Nat \ {0}
    BY <1>2, SearchAssumption
       DEF Attempt, SoundInv, TypeOK, Places, CurrentSid, Sid, Attempts
  <2>2. created'[sid].hop = hop
    <3>1. created'[sid] = ActiveSearch(word[n], hop)
      BY <1>2, <2>1 DEF Attempt, SoundInv, TypeOK
    <3>. QED  BY <3>1 DEF ActiveSearch
  <2>3. chan' = SendOn(chan, ConnectedPeers(n), msg) /\ ConnectedPeers(n) \in SUBSET End
    BY <1>2 DEF Attempt, ConnectedPeers
  <2>4. msg \in Message /\ chan \in Channels /\ msg.sid = sid /\ msg.hop = hop
    BY <2>1, MessageTypes DEF SoundInv, TypeOK, Channels, Request
  <2>. HIDE DEF msg, sid, hop
  <2>5. ASSUME NEW x \in End, Other[x] \in ConnectedPeers(n) PROVE ReqFar(x, msg, created')
    <3>1. Owner[Other[x]] = sid[1]
      BY <2>1, <2>5 DEF ConnectedPeers
    <3>2. Behind(x, sid) /\ Far(Owner[x], 1, sid)
      BY <2>1, <3>1, FarFromCreator
    <3>3. hop - hop + 1 = 1
      BY <2>1
    <3>. QED  BY <2>2, <2>4, <3>2, <3>3 DEF ReqFar
  <2>6. Queued(ConnectedPeers(n), msg)
    BY <2>3, <2>4, SentTo DEF Queued
  <2>. QED  BY <2>5, <2>6, MessagesFarKept
<1>. QED  BY <1>1, <1>2
          DEF User, Main, SearchUnasked, SearchStart, Choose, WakeSuccess, WakeFailed

\* A peer that has read the request has the search.
LEMMA ReadIsRelayed ==
    ASSUME TypeOK, NEW e \in End, Listen(e), NEW s \in Sid, Says(Head(chan[e]), "REQ", s)
    PROVE  fwd'[Owner[e]][s] # NoEntry
<1>. DEFINE n == Owner[e]
<1>1. n \in Node /\ s = Head(chan[e]).sid
  BY OverlayAssumption DEF Says
<1>2. CASE fwd[n][s] # NoEntry
  <2>1. RelayGoesOn(e, n, s)
    BY <1>1, <1>2, RelayChanges
  <2>. QED  BY <2>1 DEF RelayGoesOn
<1>3. CASE fwd[n][s] = NoEntry
  <2>1. \E b \in BOOLEAN : fwd' = [fwd EXCEPT ![n][s] = Relay(e, b)]
    BY <1>1, <1>3 DEF Says, Listen, ReqProcessed, ReqFound, ReqForward, ReqDeadEnd, RespCollect,
                      RespComplete, RespInTime, RespLate, ForRelay, ForCreator, Receives
  <2>2. PICK b \in BOOLEAN : fwd' = [fwd EXCEPT ![n][s] = Relay(e, b)]
    BY <2>1
  <2>3. fwd'[n][s] = Relay(e, b)
    BY <1>1, <2>2 DEF TypeOK
  <2>. QED  BY <2>3, RelayType
<1>. QED  BY <1>2, <1>3

LEMMA RelayRemains ==
    ASSUME TypeOK, NEW e \in End, Listen(e), NEW n \in Node, NEW s \in Sid,
           fwd[n][s] # NoEntry
    PROVE  fwd'[n][s] # NoEntry
BY RelayChanges DEF RelayGoesOn

LEMMA ToldKept ==
    ASSUME TypeOK, NEW e \in End, Listen(e), NEW y \in End, NEW s \in Sid, Told(y, s)
    PROVE  Told(y, s)'
<1>. DEFINE x == Other[y]
            m == Owner[x]
<1>1. x \in End /\ m \in Node
  BY OverlayAssumption
<1>2. CASE m = s[1]
  BY <1>2 DEF Told
<1>3. CASE fwd[m][s] # NoEntry
  BY <1>1, <1>3, RelayRemains DEF Told
<1>4. CASE InFlight(x, "REQ", s) > 0
  <2>1. CASE x = e /\ Says(Head(chan[e]), "REQ", s)
    BY <2>1, ReadIsRelayed DEF Told
  <2>2. CASE ~(x = e /\ Says(Head(chan[e]), "REQ", s))
    <3>1. PICK E \in SUBSET End, msg \in Message : Sends(e, E, msg)
      BY ListenSends
    <3>2. /\ InFlight(x, "REQ", s) \in Nat /\ InFlight(x, "REQ", s)' \in Nat
          /\ InFlight(x, "REQ", s)' + OneIf(x = e /\ Says(Head(chan[e]), "REQ", s)) =
             InFlight(x, "REQ", s) + OneIf(Other[x] \in E /\ Says(msg, "REQ", s))
      <4>. HIDE DEF x
      <4>. QED  BY <1>1, <3>1, InFlightAfter
    <3>3. /\ OneIf(x = e /\ Says(Head(chan[e]), "REQ", s)) = 0
          /\ OneIf(Other[x] \in E /\ Says(msg, "REQ", s)) \in {0, 1}
      BY <2>2 DEF OneIf
    <3>4. InFlight(x, "REQ", s)' > 0
      BY <1>4, <3>2, <3>3
    <3>. QED  BY <3>4 DEF Told
  <2>. QED  BY <2>1, <2>2
<1>. QED  BY <1>2, <1>3, <1>4 DEF Told

LEMMA ListenSpreads ==
    ASSUME Forest, RoutingInv, SoundInv, CoverInv, NEW e \in End, Listen(e),
           NEW n \in Node, NEW s \in Sid
    PROVE  Spreads(n, s)'
<1>. DEFINE read == Head(chan[e])
            w == created[s].word
            hop == created[s].hop
<1>1. /\ TypeOK /\ chan \in Channels /\ chan[e] # <<>> /\ read \in Message /\ read.sid \in Sid
      /\ Owner[e] \in Node
  BY ListenReads DEF SoundInv
<1>2. 1 \in 1..Len(chan[e]) /\ read = chan[e][1]
  BY <1>1, ConsumedQueues
<1>3. [Next]_vars /\ SearchesStay
  <2>1. [Next]_vars
    BY DEF Next
  <2>. QED  BY <2>1, SearchesKept
<1>. SUFFICES ASSUME fwd'[n][s] # NoEntry, ~Holds(n, created[s].word)', ~Far(n, created[s].hop, s)',
                     NEW y \in ConnectedPeers(n)
              PROVE  Told(y, s)'
  BY DEF Spreads, ConnectedPeers
<1>4. y \in End /\ Owner[y] = n
  BY DEF ConnectedPeers
<1>5. created[s] # NoEntry
  <2>1. CASE fwd[n][s] # NoEntry
    BY <2>1 DEF SoundInv, RelaysSound, HitsFor
  <2>2. CASE fwd[n][s] = NoEntry
    <3>1. Says(read, "REQ", s)
      BY <1>1, <2>2, RelayStarts DEF RelayComes
    <3>. QED  BY <1>2, <3>1 DEF Says, SoundInv, MessagesSound, MsgSound
  <2>. QED  BY <2>1, <2>2
<1>6. created'[s].word = w /\ created'[s].hop = hop /\ w \in Word
  <2>1. created[s] \in Searches
    BY <1>1, <1>5 DEF TypeOK
  <2>. QED  BY <1>3, <1>5, <2>1 DEF SearchesStay, Searches
<1>7. ~Holds(n, w) /\ ~Far(n, hop, s)
  <2>1. index'[n][w] = NoFile
    BY <1>6 DEF Holds
  <2>2. index[n][w] = NoFile
    BY <1>1, <1>3, <1>6, <2>1, FilesStay
  <2>3. ~Far(n, hop, s)
    BY <1>6 DEF Far
  <2>. QED  BY <2>2, <2>3 DEF Holds
<1>8. CASE fwd[n][s] # NoEntry
  <2>1. Told(y, s)
    BY <1>7, <1>8 DEF CoverInv, Spreads
  <2>. QED  BY <1>1, <1>4, <2>1, ToldKept
<1>9. CASE fwd[n][s] = NoEntry
  <2>1. n = Owner[e] /\ Says(read, "REQ", s)
        /\ (ReqForward(e) \/ ReqFound(e) \/ ReqDeadEnd(e))
    BY <1>1, <1>9, RelayStarts DEF RelayComes
  <2>2. s = read.sid /\ read.type = "REQ" /\ read.word = w
    BY <1>2, <2>1 DEF Says, SoundInv, MessagesSound, MsgSound
  <2>3. ~ReqFound(e)
    BY <1>7, <2>1, <2>2 DEF ReqFound
  <2>4. CASE y = e
    <3>1. Asked(Other[e], s, created, fwd)
      BY <1>2, <2>2 DEF RoutingInv, MessagesRouted, MsgRouted
    <3>2. Told(e, s)
      BY <3>1 DEF Asked, Told
    <3>. QED  BY <1>1, <2>4, <3>2, ToldKept
  <2>5. CASE y # e
    <3>1. y \in ForwardTo(e)
      BY <2>1, <2>5 DEF ForwardTo
    <3>2. ReqForward(e)
      <4>1. ReqDeadEnd(e) => LastHop(read)
        BY <3>1 DEF ReqDeadEnd
      <4>2. ~LastHop(read)
        <5>1. Far(n, hop - read.hop + 1, s)
          BY <1>2, <2>1, <2>2 DEF CoverInv, MessagesFar, ReqFar
        <5>2. read.hop \in Nat /\ hop \in Nat
          <6>1. created[s] \in Searches
            BY <1>1, <1>5 DEF TypeOK
          <6>. QED  BY <1>1, <2>2, <6>1, ReadMessage DEF Searches
        <5>3. ASSUME LastHop(read) PROVE hop - read.hop + 1 = hop
          BY <5>2, <5>3 DEF LastHop, HopsLeft
        <5>. QED  BY <1>7, <5>1, <5>3
      <4>. QED  BY <2>1, <2>3, <4>1, <4>2
    <3>. DEFINE x == Other[y]
    <3>3. x \in End /\ Other[x] = y
      BY <1>4, OverlayAssumption
    <3>4. CASE x = e
      BY <2>1, <3>4, ReadIsRelayed, <1>1 DEF Told
    <3>5. CASE x # e
      <4>1. PICK E \in SUBSET End, msg \in Message : Sends(e, E, msg)
        BY <1>1, ListenSends
      <4>2. Other[x] \in E /\ Says(msg, "REQ", s)
        BY <2>2, <3>1, <3>2, <3>3, <4>1 DEF Sends
      <4>3. /\ InFlight(x, "REQ", s) \in Nat /\ InFlight(x, "REQ", s)' \in Nat
            /\ InFlight(x, "REQ", s)' + OneIf(x = e /\ Says(Head(chan[e]), "REQ", s)) =
               InFlight(x, "REQ", s) + OneIf(Other[x] \in E /\ Says(msg, "REQ", s))
        <5>. HIDE DEF x
        <5>. QED  BY <1>1, <3>3, <4>1, InFlightAfter
      <4>4. /\ OneIf(x = e /\ Says(Head(chan[e]), "REQ", s)) = 0
            /\ OneIf(Other[x] \in E /\ Says(msg, "REQ", s)) = 1
        BY <3>5, <4>2 DEF OneIf
      <4>5. InFlight(x, "REQ", s)' > 0
        BY <4>3, <4>4
      <4>. QED  BY <4>5 DEF Told
    <3>. QED  BY <3>4, <3>5
  <2>. QED  BY <2>4, <2>5
<1>. QED  BY <1>8, <1>9

LEMMA MainSpreads ==
    ASSUME SoundInv, CoverInv, NEW m \in Searchers, User(m) \/ Main(m),
           NEW n \in Node, NEW s \in Sid
    PROVE  Spreads(n, s)'
<1>1. /\ TypeOK /\ chan \in Channels /\ fwd' = fwd /\ [Next]_vars /\ m \in Node
  BY SearchAssumption
     DEF User, Main, SearchUnasked, SearchStart, Choose, Attempt, WakeSuccess, WakeFailed,
         SoundInv, TypeOK, Channels, Next
<1>2. SearchesStay
  BY <1>1, SearchesKept
<1>3. ASSUME NEW x \in End, InFlight(x, "REQ", s) > 0 PROVE InFlight(x, "REQ", s)' > 0
  <2>1. CASE chan' = chan
    BY <1>3, <2>1 DEF InFlight, Indexes
  <2>2. CASE Attempt(m)
    <3>. DEFINE msg == Request(CurrentSid(m), Hops[try[m]], word[m])
    <3>0. pc[m] = "attempt"
      BY <2>2 DEF Attempt
    <3>1. CurrentSid(m) \in Sid /\ word[m] \in Word /\ Hops[try[m]] \in Nat \ {0}
      <4>1. /\ counter[m] \in 1..MaxSid - (Attempts - try[m]) /\ word[m] \in Word
            /\ try[m] \in 1..Attempts
        BY <1>1, <3>0 DEF TypeOK, Places
      <4>2. /\ MaxSid \in Nat /\ Attempts \in Nat
            /\ \A k \in 1..Attempts : Hops[k] \in Nat \ {0}
        BY SearchAssumption DEF Attempts
      <4>3. counter[m] \in 1..MaxSid
        BY <4>1, <4>2
      <4>. QED  BY <1>1, <4>1, <4>2, <4>3 DEF CurrentSid, Sid
    <3>2. msg \in Message /\ chan' = SendOn(chan, ConnectedPeers(m), msg)
      BY <2>2, <3>1, MessageTypes DEF Attempt
    <3>3. ConnectedPeers(m) \in SUBSET End
      BY DEF ConnectedPeers
    <3>. HIDE DEF msg
    <3>4. /\ InFlight(x, "REQ", s) \in Nat
          /\ InFlight(x, "REQ", s)' = InFlight(x, "REQ", s)
                 + OneIf(Other[x] \in ConnectedPeers(m) /\ Says(msg, "REQ", s))
      BY <1>1, <3>2, <3>3, InFlightSent
    <3>. QED  BY <1>3, <3>4 DEF OneIf
  <2>. QED  BY <2>1, <2>2
            DEF User, Main, SearchUnasked, SearchStart, Choose, WakeSuccess, WakeFailed
<1>. SUFFICES ASSUME fwd'[n][s] # NoEntry, ~Holds(n, created[s].word)', ~Far(n, created[s].hop, s)',
                     NEW y \in ConnectedPeers(n)
              PROVE  Told(y, s)'
  BY DEF Spreads, ConnectedPeers
<1>4. y \in End /\ Other[y] \in End
  BY OverlayAssumption DEF ConnectedPeers
<1>5. fwd[n][s] # NoEntry /\ created[s] # NoEntry
  BY <1>1 DEF SoundInv, RelaysSound, HitsFor
<1>6. /\ created'[s].word = created[s].word /\ created'[s].hop = created[s].hop
      /\ created[s].word \in Word
  <2>1. created[s] \in Searches
    BY <1>1, <1>5 DEF TypeOK
  <2>. QED  BY <1>2, <1>5, <2>1 DEF SearchesStay, Searches
<1>7. ~Holds(n, created[s].word) /\ ~Far(n, created[s].hop, s)
  <2>1. index'[n][created[s].word] = NoFile
    BY <1>6 DEF Holds
  <2>2. index[n][created[s].word] = NoFile
    BY <1>1, <1>6, <2>1, FilesStay
  <2>3. ~Far(n, created[s].hop, s)
    BY <1>6 DEF Far
  <2>. QED  BY <2>2, <2>3 DEF Holds
<1>8. Told(y, s)
  BY <1>5, <1>7 DEF CoverInv, Spreads
<1>. QED  BY <1>1, <1>3, <1>4, <1>8 DEF Told

LEMMA CoverInvHolds == Forest /\ Spec => []CoverInv
<1>1. Forest /\ Init => CoverInv
  BY DEF Init, CoverInv, MessagesFar, Spreads
<1>2. RoutingInv /\ SoundInv /\ FloodWithinHops /\ CoverInv /\ [Next]_vars => CoverInv'
  <2>. SUFFICES ASSUME RoutingInv, SoundInv, FloodWithinHops, CoverInv, [Next]_vars
                PROVE  CoverInv'
    OBVIOUS
  <2>1. Forest /\ Forest' /\ MessagesFar /\ SearchesStay
    BY SearchesKept DEF CoverInv, Forest, WaysOut
  <2>2. CASE UNCHANGED vars
    BY <2>1, <2>2 DEF vars, CoverInv, MessagesFar, ReqFar, Far, Spreads, Told, Holds, InFlight,
                Indexes, ConnectedPeers
  <2>3. ASSUME NEW n \in Searchers, User(n) \/ Main(n) PROVE CoverInv'
    BY <2>1, <2>3, MainFar, MainSpreads, SearchAssumption DEF CoverInv
  <2>4. ASSUME NEW e \in End, Listen(e) PROVE CoverInv'
    BY <2>1, <2>4, ListenFar, ListenSpreads DEF CoverInv
  <2>. QED  BY <2>2, <2>3, <2>4 DEF Next
<1>3. Spec => [](RoutingInv /\ SoundInv /\ FloodWithinHops)
  BY RoutingInvHolds, SoundInvHolds, FloodStaysWithinHops, PTL
<1>. QED  BY <1>1, <1>2, <1>3, PTL DEF Spec

\* On every overlay without cycles: when the flood of a search is over, every peer within
\* hop_count connections of its creator has had the request, unless every way there leads
\* through one that has the file (lines 104-140, README.md:5).
THEOREM FloodCovers == Forest /\ Spec => []FloodCoversHops
<1>1. RoutingInv /\ DeliveryInv /\ CoverInv => FloodCoversHops
  <2>. SUFFICES ASSUME RoutingInv, DeliveryInv, CoverInv, NEW s \in Sid, Quiet(s),
                       NEW k \in 1..created[s].hop, NEW path \in Walks(s[1], k),
                       \A i \in 1..k - 1 : path[i] = s[1] \/ ~Holds(path[i], created[s].word),
                       path[k] # s[1], fwd[path[k]][s] = NoEntry
                PROVE  FALSE
    BY DEF FloodCoversHops
  <2>1. created[s] # NoEntry /\ created[s].hop \in Nat /\ k \in Nat
    <3>1. created[s] # NoEntry
      BY DEF Quiet
    <3>2. created[s].hop \in Nat
      BY <3>1 DEF RoutingInv, TypeOK, Searches
    <3>. QED  BY <3>1, <3>2
  <2>2. \A x \in End : InFlight(x, "REQ", s) = 0
    <3>. SUFFICES ASSUME NEW x \in End PROVE InFlight(x, "REQ", s) = 0
      OBVIOUS
    <3>1. InFlight(x, "REQ", s) \in Nat /\ InFlight(x, "RESP", s) \in Nat
      BY InFlightIsNum DEF RoutingInv, TypeOK, Channels
    <3>2. InFlight(x, "REQ", s) + InFlight(x, "RESP", s) = 0
      BY DEF Quiet
    <3>. QED  BY <3>1, <3>2
  <2>3. /\ path \in [0..k -> Node] /\ path[0] = s[1]
        /\ \A i \in 1..k : \E e \in End : Owner[e] = path[i - 1] /\ Owner[Other[e]] = path[i]
    BY DEF Walks
  <2>. DEFINE Missed == {i \in 0..k : path[i] # s[1] /\ fwd[path[i]][s] = NoEntry}
  <2>4. PICK i \in Missed : \A j \in Missed : i <= j
    <3>1. Missed \subseteq Nat /\ Missed # {}
      BY <2>1
    <3>. HIDE DEF Missed
    <3>. QED  BY <3>1, LeastNumber
  <2>5. i \in 1..k /\ path[i] # s[1] /\ fwd[path[i]][s] = NoEntry
    BY <2>3
  <2>6. i - 1 \in 0..k /\ i - 1 \notin Missed
    BY <2>4, <2>5
  <2>. DEFINE n == path[i - 1]
  <2>7. n \in Node /\ (n = s[1] \/ fwd[n][s] # NoEntry)
    BY <2>3, <2>6
  <2>8. PICK e \in End : Owner[e] = n /\ Owner[Other[e]] = path[i]
    BY <2>3, <2>5
  <2>9. Other[e] \in End
    BY OverlayAssumption
  <2>10. CASE n = s[1]
    <3>1. CreatorAsks(s) /\ e \in ConnectedPeers(s[1])
      BY <2>8, <2>10 DEF DeliveryInv, ConnectedPeers
    <3>2. InFlight(Other[e], "REQ", s) >= IF Waiting(s[1], s) THEN 2 ELSE 1
      BY <2>1, <2>5, <2>8, <3>1 DEF CreatorAsks
    <3>. QED  BY <2>2, <2>9, <3>2
  <2>11. CASE n # s[1]
    <3>1. i - 1 \in 1..k - 1
      <4>1. i - 1 # 0
        BY <2>3, <2>11
      <4>. QED  BY <2>5, <2>6, <4>1
    <3>2. fwd[n][s] # NoEntry /\ ~Holds(n, created[s].word)
      BY <2>7, <2>11, <3>1
    <3>3. Far(n, created[s].hop, s) \/ \A y \in ConnectedPeers(n) : Told(y, s)
      BY <2>7, <3>2 DEF CoverInv, Spreads
    <3>4. ~Far(n, created[s].hop, s)
      <4>1. Walk(s[1], i - 1, n)
        BY <2>1, <2>6, WalkBegins
      <4>2. i - 1 \in Nat /\ ~(created[s].hop <= i - 1)
        BY <2>1, <3>1
      <4>. QED  BY <4>1, <4>2 DEF Far
    <3>5. Told(e, s)
      BY <2>8, <3>3, <3>4 DEF ConnectedPeers
    <3>. QED  BY <2>2, <2>5, <2>8, <2>9, <3>5 DEF Told
  <2>. QED  BY <2>10, <2>11
<1>. QED  BY <1>1, RoutingInvHolds, DeliveryInvHolds, CoverInvHolds, PTL

=============================================================================
