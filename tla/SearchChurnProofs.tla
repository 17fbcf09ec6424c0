------------------------- MODULE SearchChurnProofs -------------------------
(***************************************************************************)
(* Proofs about SearchChurn: for every overlay and whoever leaves, crashes  *)
(* and comes back when; NewIdsFind for every tree.                         *)
(***************************************************************************)
EXTENDS SearchChurn, SequenceTheorems, FiniteSetTheorems, TLAPS

Message ==
    [type : {"REQ"}, sid : Sid, word : Word]
        \cup [type : {"RESP"}, sid : Sid, hits : SUBSET Hit] \cup {Disconnect}

Queues == [End -> Seq(Message)]

\* A message is in a queue.
On(q, msg) == \E i \in 1..Len(q) : q[i] = msg

\* What is sent on the ends E is read at r.
Reaches(E, r) ==
    r \in listens /\ \E x \in E \cap connected : sock[x] # NoEntry /\ sock[x] = Other(r)

----------------------------------------------------------------------------
(* Ends and queues.                                                        *)

LEMMA EndFinite == IsFiniteSet(End)
<1>1. IsFiniteSet(1..MaxLives)
  BY ChurnAssumption, FS_Interval
<1>2. IsFiniteSet(Node \X (1..MaxLives))
  BY <1>1, ChurnAssumption, FS_Product
<1>. DEFINE pairs == Node \X (Node \X (1..MaxLives))
            triple == [p \in pairs |-> <<p[1], p[2][1], p[2][2]>>]
<1>3. IsFiniteSet(pairs)
  BY <1>2, ChurnAssumption, FS_Product
<1>4. triple \in Surjection(pairs, End)
  <2>1. \A p \in pairs : triple[p] \in End
    BY DEF End
  <2>2. \A e \in End : <<e[1], <<e[2], e[3]>>>> \in pairs /\ triple[<<e[1], <<e[2], e[3]>>>>] = e
    BY DEF End
  <2>3. triple \in [pairs -> End]
    BY <2>1
  <2>. HIDE DEF triple, pairs
  <2>. QED  BY <2>2, <2>3 DEF Surjection
<1>. QED
  <2>. HIDE DEF triple, pairs
  <2>. QED  BY <1>3, <1>4, FS_Surjection

LEMMA EndParts ==
    /\ \A e \in End : /\ e[1] \in Node /\ e[2] \in Node /\ e[3] \in 1..MaxLives
                      /\ Other(e) \in End /\ Other(Other(e)) = e
                      /\ Other(e)[1] = e[2] /\ Other(e)[2] = e[1] /\ Other(e)[3] = e[3]
BY DEF End, Other

LEMMA OnAppended ==
    ASSUME NEW q \in Seq(Message), NEW k \in Nat, NEW msg \in Message
    PROVE  LET longer == q \o [i \in 1..k |-> msg] IN
           /\ longer \in Seq(Message)
           /\ k = 0 => longer = q
           /\ \A m : On(longer, m) <=> On(q, m) \/ (k # 0 /\ m = msg)
<1>. DEFINE more == [i \in 1..k |-> msg]
            longer == q \o more
<1>1. more \in Seq(Message) /\ Len(more) = k /\ \A i \in 1..k : more[i] = msg
  OBVIOUS
<1>. HIDE DEF more
<1>2. /\ longer \in Seq(Message) /\ Len(q) \in Nat /\ Len(longer) = Len(q) + k
      /\ \A i \in 1..Len(longer) :
            longer[i] = IF i <= Len(q) THEN q[i] ELSE more[i - Len(q)]
  BY <1>1
<1>3. k = 0 => longer = q
  <2>1. k = 0 => more = <<>>
    BY <1>1
  <2>. QED  BY <2>1
<1>. HIDE DEF longer
<1>4. ASSUME NEW m PROVE On(longer, m) <=> On(q, m) \/ (k # 0 /\ m = msg)
  <2>1. ASSUME On(longer, m) PROVE On(q, m) \/ (k # 0 /\ m = msg)
    <3>1. PICK i \in 1..Len(longer) : longer[i] = m
      BY <2>1 DEF On
    <3>2. CASE i <= Len(q)
      BY <1>2, <3>1, <3>2 DEF On
    <3>3. CASE ~(i <= Len(q))
      <4>1. i - Len(q) \in 1..k
        BY <1>2, <3>1, <3>3
      <4>. QED  BY <1>1, <1>2, <3>1, <3>3, <4>1
    <3>. QED  BY <3>2, <3>3
  <2>2. ASSUME On(q, m) PROVE On(longer, m)
    <3>1. PICK i \in 1..Len(q) : q[i] = m
      BY <2>2 DEF On
    <3>2. i \in 1..Len(longer) /\ longer[i] = m
      BY <1>2, <3>1
    <3>. QED  BY <3>2 DEF On
  <2>3. ASSUME k # 0, m = msg PROVE On(longer, m)
    <3>1. Len(q) + 1 \in 1..Len(longer) /\ ~(Len(q) + 1 <= Len(q)) /\ 1 \in 1..k
          /\ (Len(q) + 1) - Len(q) = 1
      BY <1>2, <2>3
    <3>2. longer[Len(q) + 1] = msg
      BY <1>1, <1>2, <3>1
    <3>. QED  BY <2>3, <3>1, <3>2 DEF On
  <2>. QED  BY <2>1, <2>2, <2>3
<1>. QED  BY <1>2, <1>3, <1>4 DEF longer, more

\* send_msg_to_peer.
LEMMA OnSent ==
    ASSUME NEW ch \in Queues, NEW E \in SUBSET End, NEW msg \in Message
    PROVE  /\ SendOn(ch, E, msg) \in Queues
           /\ \A r \in End : /\ ~Reaches(E, r) => SendOn(ch, E, msg)[r] = ch[r]
                             /\ \A m : On(SendOn(ch, E, msg)[r], m) <=>
                                         On(ch[r], m) \/ (Reaches(E, r) /\ m = msg)
<1>. DEFINE from(r) == {e \in E \cap connected :
                          sock[e] # NoEntry /\ r \in listens /\ sock[e] = Other(r)}
            copies(r) == [i \in 1..Cardinality(from(r)) |-> msg]
<1>1. ASSUME NEW r \in End
      PROVE  Cardinality(from(r)) \in Nat /\ (Cardinality(from(r)) # 0 <=> Reaches(E, r))
  <2>1. from(r) \in SUBSET End
    OBVIOUS
  <2>2. IsFiniteSet(from(r))
    BY <2>1, EndFinite, FS_Subset
  <2>3. Reaches(E, r) <=> from(r) # {}
    BY DEF Reaches
  <2>. HIDE DEF from
  <2>. QED  BY <2>2, <2>3, FS_CardinalityType, FS_EmptySet
<1>2. SendOn(ch, E, msg) = [r \in End |-> ch[r] \o copies(r)]
  BY DEF SendOn
<1>3. ASSUME NEW r \in End
      PROVE  /\ ch[r] \o copies(r) \in Seq(Message)
             /\ ~Reaches(E, r) => ch[r] \o copies(r) = ch[r]
             /\ \A m : On(ch[r] \o copies(r), m) <=> On(ch[r], m) \/ (Reaches(E, r) /\ m = msg)
  <2>. DEFINE k == Cardinality(from(r))
  <2>1. k \in Nat /\ (k # 0 <=> Reaches(E, r)) /\ ch[r] \in Seq(Message)
    BY <1>1 DEF Queues
  <2>. DEFINE same == [i \in 1..k |-> msg]
  <2>2. copies(r) = same
    OBVIOUS
  <2>. HIDE DEF k, copies
  <2>3. /\ ch[r] \o same \in Seq(Message)
        /\ k = 0 => ch[r] \o same = ch[r]
        /\ \A m : On(ch[r] \o same, m) <=> On(ch[r], m) \/ (k # 0 /\ m = msg)
    BY <2>1, OnAppended
  <2>. HIDE DEF same
  <2>. QED  BY <2>1, <2>2, <2>3
<1>. HIDE DEF copies
<1>. QED  BY <1>2, <1>3 DEF Queues

LEMMA OnTail ==
    ASSUME NEW q \in Seq(Message), q # <<>>
    PROVE  /\ Head(q) \in Message /\ Tail(q) \in Seq(Message) /\ On(q, Head(q))
           /\ \A m : On(q, m) <=> m = Head(q) \/ On(Tail(q), m)
<1>1. /\ Len(q) \in Nat \ {0} /\ Tail(q) \in Seq(Message) /\ Head(q) \in Message
      /\ Head(q) = q[1] /\ Len(Tail(q)) = Len(q) - 1
      /\ \A i \in 1..Len(Tail(q)) : Tail(q)[i] = q[i + 1]
  OBVIOUS
<1>2. ASSUME NEW m, On(q, m), m # Head(q) PROVE On(Tail(q), m)
  <2>1. PICK i \in 1..Len(q) : q[i] = m
    BY <1>2 DEF On
  <2>2. i - 1 \in 1..Len(Tail(q)) /\ (i - 1) + 1 = i
    BY <1>1, <1>2, <2>1
  <2>3. Tail(q)[i - 1] = m
    BY <1>1, <2>1, <2>2
  <2>. QED  BY <2>2, <2>3 DEF On
<1>3. ASSUME NEW m, On(Tail(q), m) PROVE On(q, m)
  <2>1. PICK i \in 1..Len(Tail(q)) : Tail(q)[i] = m
    BY <1>3 DEF On
  <2>2. i + 1 \in 1..Len(q) /\ q[i + 1] = m
    BY <1>1, <2>1
  <2>. QED  BY <2>2 DEF On
<1>4. On(q, Head(q))
  BY <1>1 DEF On
<1>. QED  BY <1>1, <1>2, <1>3, <1>4

LEMMA OnConsumed ==
    ASSUME chan \in Queues, NEW e \in End, chan[e] # <<>>
    PROVE  /\ Consumed(e) \in Queues /\ Head(chan[e]) \in Message
           /\ On(chan[e], Head(chan[e]))
           /\ \A r \in End : \A m : On(Consumed(e)[r], m) => On(chan[r], m)
           /\ \A r \in End : \A m :
                 On(chan[r], m) => On(Consumed(e)[r], m) \/ (r = e /\ m = Head(chan[e]))
           /\ \A r \in End : r # e => Consumed(e)[r] = chan[r]
<1>1. chan[e] \in Seq(Message)
  BY DEF Queues
<1>2. /\ Head(chan[e]) \in Message /\ Tail(chan[e]) \in Seq(Message)
      /\ On(chan[e], Head(chan[e]))
      /\ \A m : On(chan[e], m) <=> m = Head(chan[e]) \/ On(Tail(chan[e]), m)
  BY <1>1, OnTail
<1>3. \A r \in End : Consumed(e)[r] = IF r = e THEN Tail(chan[e]) ELSE chan[r]
  BY DEF Consumed, Queues
<1>4. Consumed(e) \in Queues
  BY <1>2 DEF Consumed, Queues
<1>. QED  BY <1>2, <1>3, <1>4

\* A message is read at e, and msg is sent on E.
PassedOn(e, E, msg) ==
    /\ chan' \in Queues
    /\ \A r \in End : \A m : On(chan'[r], m) => On(chan[r], m) \/ (Reaches(E, r) /\ m = msg)
    /\ \A r \in End : \A m :
          On(chan[r], m) => On(chan'[r], m) \/ (r = e /\ m = Head(chan[e]))
    /\ \A r \in End : Reaches(E, r) => On(chan'[r], msg)
    /\ \A r \in End : r # e /\ ~Reaches(E, r) => chan'[r] = chan[r]

LEMMA OnAnswered ==
    ASSUME chan \in Queues, NEW e \in End, chan[e] # <<>>,
           NEW E \in SUBSET End, NEW msg \in Message, chan' = SendOn(Consumed(e), E, msg)
    PROVE  PassedOn(e, E, msg)
<1>1. /\ Consumed(e) \in Queues
      /\ \A r \in End : \A m : On(Consumed(e)[r], m) => On(chan[r], m)
      /\ \A r \in End : \A m :
            On(chan[r], m) => On(Consumed(e)[r], m) \/ (r = e /\ m = Head(chan[e]))
      /\ \A r \in End : r # e => Consumed(e)[r] = chan[r]
  BY OnConsumed
<1>. DEFINE ch == Consumed(e)
            next == SendOn(ch, E, msg)
<1>2. ch \in Queues /\ chan' = next
  BY <1>1
<1>3. \A r \in End : \A m : On(ch[r], m) => On(chan[r], m)
  BY <1>1
<1>4. \A r \in End : \A m : On(chan[r], m) => On(ch[r], m) \/ (r = e /\ m = Head(chan[e]))
  BY <1>1
<1>5. \A r \in End : r # e => ch[r] = chan[r]
  BY <1>1
<1>. HIDE DEF ch
<1>6. /\ next \in Queues
      /\ \A r \in End : /\ ~Reaches(E, r) => next[r] = ch[r]
                        /\ \A m : On(next[r], m) <=> On(ch[r], m) \/ (Reaches(E, r) /\ m = msg)
  BY <1>2, OnSent
<1>. HIDE DEF next
<1>. QED  BY <1>2, <1>3, <1>4, <1>5, <1>6 DEF PassedOn

----------------------------------------------------------------------------
(* Types and connections.                                                  *)

TypeOK ==
    /\ alive \subseteq Node /\ life \in 1..MaxLives
    /\ listed \subseteq End /\ connected \subseteq End
    /\ sock \in [End -> End \cup {NoEntry}]
    /\ chan \in Queues
    /\ pc \in {"idle", "sleep"} /\ counter \in Nat
    /\ created \in [Sid -> Searches \cup {NoEntry}]
    /\ fwd \in [Node -> [Sid -> Relays \cup {NoEntry}]]
    /\ reused \in BOOLEAN

\* The search that main sleeps for is one it created.
Sleeping == pc = "sleep" => counter \in Sid /\ created[counter] # NoEntry

\* A listener in its loop reads the socket of its own connection, of a peer that its
\* node lists as connected.
Listening == \A e \in listens : e \in listed \cap connected /\ sock[e] = e

\* No other descriptor refers to it, unless one was given out again.
OwnSocket == ~reused => \A e \in End : sock[e] \in {e, NoEntry}

\* A listed, connected end listens if the one at the other side does.
BothListen == \A e \in listed \cap connected : Other(e) \in listens => e \in listens

\* Nothing is known of the connections of later lives.
FutureFresh == \A e \in End : e[3] > life =>
    e \notin listed \cup connected /\ chan[e] = <<>>

\* A relay keeps ends of its own node.
RelaysOwn == \A n \in Node, s \in Sid : fwd[n][s] # NoEntry =>
    \A e \in fwd[n][s].asked \cup {fwd[n][s].upstream} : e[1] = n /\ e[3] <= life

ConnInv ==
    TypeOK /\ Sleeping /\ Listening /\ OwnSocket /\ BothListen /\ FutureFresh /\ RelaysOwn

\* The messages that are sent.
LEMMA MessageTypes ==
    /\ \A s \in Sid, w \in Word : Request(s, w) \in Message
    /\ \A s \in Sid, hits \in SUBSET Hit : Response(s, hits) \in Message
    /\ Disconnect \in Message
BY DEF Request, Response, Message

LEMMA ReadMessage ==
    ASSUME ConnInv, NEW e \in End, NEW type, Receives(e, type)
    PROVE  /\ e \in listens /\ chan[e] # <<>> /\ Head(chan[e]) \in Message
           /\ Head(chan[e]).type = type /\ On(chan[e], Head(chan[e]))
           /\ type = "REQ" => /\ Head(chan[e]).sid \in Sid /\ Head(chan[e]).word \in Word
                              /\ Head(chan[e]) = Request(Head(chan[e]).sid, Head(chan[e]).word)
           /\ type = "RESP" => /\ Head(chan[e]).sid \in Sid /\ Head(chan[e]).hits \in SUBSET Hit
                               /\ Head(chan[e]) = Response(Head(chan[e]).sid, Head(chan[e]).hits)
           /\ type = "DISCONNECT" => Head(chan[e]) = Disconnect
<1>1. chan \in Queues /\ e \in listens /\ chan[e] # <<>> /\ Head(chan[e]).type = type
  BY DEF ConnInv, TypeOK, Receives
<1>2. Head(chan[e]) \in Message /\ On(chan[e], Head(chan[e]))
  BY <1>1, OnConsumed
<1>3. CASE Head(chan[e]) \in [type : {"REQ"}, sid : Sid, word : Word]
  BY <1>1, <1>2, <1>3 DEF Request
<1>4. CASE Head(chan[e]) \in [type : {"RESP"}, sid : Sid, hits : SUBSET Hit]
  BY <1>1, <1>2, <1>4 DEF Response
<1>5. CASE Head(chan[e]) = Disconnect
  BY <1>1, <1>2, <1>5 DEF Disconnect
<1>. QED  BY <1>2, <1>3, <1>4, <1>5 DEF Message

\* A listening end is one of its node's peers; a new relay counts the others.
LEMMA RelayType ==
    ASSUME ConnInv, NEW e \in listens, NEW b \in BOOLEAN
    PROVE  /\ e \in End /\ Relay(e, b) \in Relays /\ Relay(e, b) # NoEntry
           /\ Relay(e, b).needed = Cardinality(ForwardTo(e))
           /\ Relay(e, b).received = 0 /\ Relay(e, b).upstream = e /\ Relay(e, b).hits = {}
           /\ Relay(e, b).waiting = b
           /\ Relay(e, b).asked = IF b THEN ForwardTo(e) ELSE {}
<1>. DEFINE P == ConnectedPeers(e[1])
<1>1. e \in End /\ e \in P /\ P \in SUBSET End
  BY DEF ConnInv, TypeOK, Listening, ConnectedPeers, EndsOf
<1>2. IsFiniteSet(P)
  BY <1>1, EndFinite, FS_Subset
<1>. HIDE DEF P
<1>3. Cardinality(P \ {e}) = Cardinality(P) - 1 /\ IsFiniteSet(P \ {e})
  BY <1>1, <1>2, FS_RemoveElement
<1>4. Cardinality(P \ {e}) \in Nat
  BY <1>3, FS_CardinalityType
<1>5. RepliesNeeded(e[1]) = Cardinality(P \ {e}) /\ ForwardTo(e) = P \ {e}
  BY <1>3 DEF RepliesNeeded, ForwardTo, P
<1>6. Relay(e, b) \in Relays
  BY <1>1, <1>4, <1>5 DEF Relay, Relays
<1>7. Relay(e, b) # NoEntry
  BY <1>6, NoEntryAssumption
<1>. QED  BY <1>1, <1>5, <1>6, <1>7 DEF Relay

LEMMA ConnInit == Init => ConnInv
<1>. SUFFICES ASSUME Init PROVE ConnInv
  OBVIOUS
<1>1. \A e \in Links1 : e \in End /\ e[3] = 1 /\ Other(e) \in End /\ Other(e)[3] = 1
  BY ChurnAssumption DEF Links1, End, Other
<1>2. \A e \in listed : e \in End /\ e[3] = 1
  BY <1>1 DEF Init
<1>3. chan \in Queues /\ \A e \in End : chan[e] = <<>>
  BY DEF Init, Queues
<1>4. life = 1 /\ 1 \in 1..MaxLives
  BY ChurnAssumption DEF Init
<1>5. TypeOK
  BY <1>2, <1>3, <1>4 DEF Init, TypeOK, NoSearches
<1>6. Sleeping /\ OwnSocket /\ RelaysOwn
  BY <1>2 DEF Init, Sleeping, OwnSocket, RelaysOwn, NoSearches
<1>7. Listening
  BY <1>2 DEF Init, Listening
<1>8. BothListen
  BY DEF Init, BothListen
<1>9. FutureFresh
  BY <1>2, <1>3, <1>4, EndParts DEF Init, FutureFresh
<1>. QED  BY <1>5, <1>6, <1>7, <1>8, <1>9 DEF ConnInv

\* A step that changes no connection, no life and no relay's ends.
LEMMA ConnQuiet ==
    ASSUME ConnInv, UNCHANGED <<life, conns, reused>>, TypeOK', Sleeping', RelaysOwn',
           \A e \in End : e[3] > life => chan'[e] = <<>>
    PROVE  ConnInv'
BY DEF ConnInv, conns, Listening, OwnSocket, BothListen, FutureFresh

\* What is read at e and sent on E leaves later connections alone.
LEMMA FutureUnread ==
    ASSUME ConnInv, NEW e \in listens, NEW E \in SUBSET End, NEW msg \in Message,
           chan[e] # <<>>, chan' = SendOn(Consumed(e), E, msg)
    PROVE  chan' \in Queues /\ \A r \in End : r[3] > life => chan'[r] = <<>>
<1>1. \A r \in End : r[3] > life => r \notin listens /\ r # e /\ chan[r] = <<>>
  BY DEF ConnInv, Listening, FutureFresh
<1>2. e \in End /\ chan \in Queues
  BY DEF ConnInv, TypeOK, Listening
<1>3. /\ chan' \in Queues
      /\ \A r \in End : r # e /\ ~Reaches(E, r) => chan'[r] = chan[r]
  <2>1. PassedOn(e, E, msg)
    BY <1>2, OnAnswered
  <2>. QED  BY <2>1 DEF PassedOn
<1>. QED  BY <1>1, <1>3 DEF Reaches

LEMMA AttemptConn == ASSUME ConnInv, NEW w \in Word, Attempt(w) PROVE ConnInv'
<1>. DEFINE s == counter + 1
<1>1. s \in Sid /\ s \in Nat /\ Searcher \in Node
  BY ChurnAssumption DEF ConnInv, TypeOK, Attempt, Sid
<1>2. ConnectedPeers(Searcher) \in SUBSET End /\ chan \in Queues /\ Request(s, w) \in Message
  BY <1>1, MessageTypes DEF ConnInv, TypeOK, ConnectedPeers
<1>3. chan' = SendOn(chan, ConnectedPeers(Searcher), Request(s, w))
  BY DEF Attempt
<1>4. /\ chan' \in Queues
      /\ \A r \in End : ~Reaches(ConnectedPeers(Searcher), r) => chan'[r] = chan[r]
  BY <1>2, <1>3, OnSent
<1>5. \A e \in End : e[3] > life => chan'[e] = <<>>
  BY <1>4 DEF ConnInv, Listening, FutureFresh, Reaches
<1>. DEFINE new == [status |-> "ACTIVE", hits |-> {}, word |-> w, calm |-> Calm /\ s \notin used]
<1>6. new \in Searches /\ new # NoEntry
  <2>1. new \in Searches
    BY DEF Searches
  <2>. HIDE DEF new
  <2>. QED  BY <2>1, NoEntryAssumption
<1>7. created' = [created EXCEPT ![s] = new] /\ counter' = s /\ pc' = "sleep"
      /\ UNCHANGED <<alive, life, conns, fwd, used, reused>>
  BY DEF Attempt
<1>. HIDE DEF new, s
<1>8. TypeOK'
  BY <1>1, <1>4, <1>6, <1>7 DEF ConnInv, TypeOK, conns
<1>9. Sleeping'
  BY <1>1, <1>6, <1>7 DEF ConnInv, TypeOK, Sleeping
<1>10. RelaysOwn'
  BY <1>7 DEF ConnInv, RelaysOwn
<1>. QED  BY <1>5, <1>7, <1>8, <1>9, <1>10, ConnQuiet

LEMMA WakeConn == ASSUME ConnInv, Wake PROVE ConnInv'
<1>1. counter \in Sid /\ created[counter] \in Searches
  BY DEF ConnInv, TypeOK, Sleeping, Wake
<1>2. created' \in [Sid -> Searches \cup {NoEntry}]
  BY <1>1 DEF ConnInv, TypeOK, Wake, Searches
<1>3. TypeOK' /\ Sleeping' /\ RelaysOwn' /\ UNCHANGED <<life, conns, reused, chan>>
  BY <1>2 DEF ConnInv, TypeOK, Sleeping, RelaysOwn, Wake, conns
<1>. QED  BY <1>3, ConnQuiet DEF ConnInv, FutureFresh

\* A relay comes, with a new entry.
LEMMA RelayComesConn ==
    ASSUME ConnInv, NEW e \in listens, NEW s \in Sid, NEW b \in BOOLEAN, NEW E \in SUBSET End,
           NEW msg \in Message, chan[e] # <<>>, chan' = SendOn(Consumed(e), E, msg),
           fwd' = [fwd EXCEPT ![e[1]][s] = Relay(e, b)],
           UNCHANGED <<alive, life, conns, search, used, reused>>
    PROVE  ConnInv'
<1>1. /\ e \in End /\ e[1] \in Node /\ Relay(e, b) \in Relays
      /\ Relay(e, b).upstream = e /\ Relay(e, b).asked \subseteq ForwardTo(e)
  BY RelayType, EndParts
<1>2. chan' \in Queues /\ \A r \in End : r[3] > life => chan'[r] = <<>>
  BY FutureUnread
<1>3. TypeOK'
  BY <1>1, <1>2 DEF ConnInv, TypeOK, conns, search
<1>4. Sleeping'
  BY DEF ConnInv, Sleeping, search
<1>5. RelaysOwn'
  <2>1. \A x \in ForwardTo(e) \cup {e} : x[1] = e[1] /\ x[3] <= life
    <3>1. \A x \in ForwardTo(e) \cup {e} : x \in listed /\ x \in End /\ x[1] = e[1]
      BY <1>1 DEF ForwardTo, ConnectedPeers, EndsOf, ConnInv, Listening
    <3>. QED  BY <3>1, EndParts, ChurnAssumption DEF ConnInv, TypeOK, FutureFresh
  <2>2. \A n \in Node, t \in Sid :
           fwd'[n][t] = IF n = e[1] /\ t = s THEN Relay(e, b) ELSE fwd[n][t]
    BY <1>1 DEF ConnInv, TypeOK
  <2>. QED  BY <1>1, <2>1, <2>2 DEF ConnInv, RelaysOwn
<1>. QED  BY <1>2, <1>3, <1>4, <1>5, ConnQuiet

LEMMA ReqProcessedConn == ASSUME ConnInv, NEW e \in End, ReqProcessed(e) PROVE ConnInv'
<1>1. Receives(e, "REQ")
  BY DEF ReqProcessed
<1>2. e \in listens /\ chan[e] # <<>> /\ Response(Head(chan[e]).sid, {}) \in Message
  BY <1>1, ReadMessage, MessageTypes
<1>3. chan' \in Queues /\ \A r \in End : r[3] > life => chan'[r] = <<>>
  BY <1>2, FutureUnread DEF ReqProcessed
<1>. QED  BY <1>3, ConnQuiet
         DEF ReqProcessed, ConnInv, TypeOK, Sleeping, RelaysOwn, conns, search

LEMMA ReqAnsweredConn == ASSUME ConnInv, NEW e \in End, ReqAnswered(e) PROVE ConnInv'
<1>. DEFINE hits == {<<e[1], Head(chan[e]).word>>} \cap (Node \X Holds[e[1]])
<1>1. Receives(e, "REQ")
  BY DEF ReqAnswered
<1>2. e \in listens /\ chan[e] # <<>> /\ Head(chan[e]).sid \in Sid /\ Head(chan[e]).word \in Word
  BY <1>1, ReadMessage
<1>3. hits \in SUBSET Hit
  BY <1>2, EndParts DEF Hit
<1>4. Response(Head(chan[e]).sid, hits) \in Message
  <2>. HIDE DEF hits
  <2>. QED  BY <1>2, <1>3, MessageTypes
<1>5. /\ chan' = SendOn(Consumed(e), {e}, Response(Head(chan[e]).sid, hits))
      /\ fwd' = [fwd EXCEPT ![e[1]][Head(chan[e]).sid] = Relay(e, FALSE)]
      /\ UNCHANGED <<alive, life, conns, search, used, reused>>
  BY DEF ReqAnswered
<1>. HIDE DEF hits
<1>. QED  BY <1>2, <1>4, <1>5, RelayComesConn

LEMMA ReqForwardConn == ASSUME ConnInv, NEW e \in End, ReqForward(e) PROVE ConnInv'
<1>1. Receives(e, "REQ")
  BY DEF ReqForward
<1>2. e \in listens /\ chan[e] # <<>> /\ Head(chan[e]).sid \in Sid /\ Head(chan[e]) \in Message
  BY <1>1, ReadMessage
<1>3. /\ chan' = SendOn(Consumed(e), ForwardTo(e), Head(chan[e]))
      /\ fwd' = [fwd EXCEPT ![e[1]][Head(chan[e]).sid] = Relay(e, TRUE)]
      /\ UNCHANGED <<alive, life, conns, search, used, reused>>
  BY DEF ReqForward
<1>4. ForwardTo(e) \in SUBSET End
  BY DEF ConnInv, TypeOK, ForwardTo, ConnectedPeers
<1>. QED  BY <1>2, <1>3, <1>4, RelayComesConn

\* What a relay becomes with one more reply.
LEMMA RelayedEntry ==
    ASSUME ConnInv, NEW e \in End, RespRelayed(e)
    PROVE  LET n == e[1]
               s == Head(chan[e]).sid
               old == fwd[n][s]
               new == fwd'[n][s]
           IN
           /\ n \in Node /\ s \in Sid /\ old \in Relays /\ new \in Relays /\ new # NoEntry
           /\ \A m \in Node, t \in Sid : ~(m = n /\ t = s) => fwd'[m][t] = fwd[m][t]
           /\ new.received = old.received + 1 /\ new.needed = old.needed
           /\ new.upstream = old.upstream /\ new.asked = old.asked
           /\ new.hits = old.hits \cup Head(chan[e]).hits
           /\ new.waiting <=> old.waiting /\ new.received # new.needed
           /\ chan' = IF new.received = new.needed
                      THEN SendOn(Consumed(e), {old.upstream} \cap listed, Response(s, new.hits))
                      ELSE Consumed(e)
<1>. DEFINE n == e[1]
            resp == Head(chan[e])
            s == resp.sid
            old == fwd[n][s]
            entry == [old EXCEPT !.received = @ + 1, !.hits = Collected(@, resp.hits)]
            last == entry.received = entry.needed
            new == [entry EXCEPT !.waiting = @ /\ ~last]
<1>1. Receives(e, "RESP") /\ old # NoEntry
  BY DEF RespRelayed, Known
<1>2. n \in Node /\ s \in Sid /\ resp.hits \in SUBSET Hit
  BY <1>1, ReadMessage, EndParts
<1>3. old \in Relays
  BY <1>1, <1>2 DEF ConnInv, TypeOK
<1>4. /\ fwd' = [fwd EXCEPT ![n][s] = new]
      /\ chan' = IF last THEN SendOn(Consumed(e), Upstream(entry), Response(s, entry.hits))
                 ELSE Consumed(e)
  BY DEF RespRelayed
<1>. HIDE DEF n, resp, s, old
<1>5. /\ entry \in Relays /\ entry.received = old.received + 1 /\ entry.needed = old.needed
      /\ entry.upstream = old.upstream /\ entry.asked = old.asked
      /\ entry.hits = old.hits \cup resp.hits /\ entry.waiting = old.waiting
  <2>1. /\ old.received + 1 \in Nat /\ old.hits \cup resp.hits \in SUBSET Hit
        /\ entry = [old EXCEPT !.received = old.received + 1, !.hits = old.hits \cup resp.hits]
    BY <1>2, <1>3 DEF Relays, Collected
  <2>. DEFINE r == old.received + 1
              h == old.hits \cup resp.hits
  <2>. HIDE DEF r, h, entry
  <2>2. r \in Nat /\ h \in SUBSET Hit /\ entry = [old EXCEPT !.received = r, !.hits = h]
    BY <2>1 DEF r, h
  <2>3. /\ entry \in Relays /\ entry.received = r /\ entry.needed = old.needed
        /\ entry.upstream = old.upstream /\ entry.asked = old.asked
        /\ entry.hits = h /\ entry.waiting = old.waiting
    BY <1>3, <2>2 DEF Relays
  <2>. QED  BY <2>3 DEF r, h
<1>. HIDE DEF entry
<1>6. /\ new \in Relays /\ new.received = entry.received /\ new.needed = entry.needed
      /\ new.upstream = entry.upstream /\ new.asked = entry.asked /\ new.hits = entry.hits
      /\ new.waiting <=> entry.waiting /\ ~last
  BY <1>5 DEF Relays
<1>7. fwd'[n][s] = new /\ \A m \in Node, t \in Sid : ~(m = n /\ t = s) => fwd'[m][t] = fwd[m][t]
  <2>. HIDE DEF new
  <2>. QED  BY <1>2, <1>4 DEF ConnInv, TypeOK
<1>8. new # NoEntry
  BY <1>6, NoEntryAssumption
<1>9. Upstream(entry) = {old.upstream} \cap listed
  BY <1>5 DEF Upstream
<1>. HIDE DEF new
<1>10. last <=> new.received = new.needed
  BY <1>6
<1>11. chan' = IF new.received = new.needed
               THEN SendOn(Consumed(e), {old.upstream} \cap listed, Response(s, new.hits))
               ELSE Consumed(e)
  BY <1>4, <1>6, <1>9, <1>10
<1>12. new.waiting <=> old.waiting /\ new.received # new.needed
  BY <1>5, <1>6, <1>10
<1>. QED  BY <1>2, <1>3, <1>5, <1>6, <1>7, <1>8, <1>11, <1>12 DEF n, resp, s, old

LEMMA RespRelayedConn == ASSUME ConnInv, NEW e \in End, RespRelayed(e) PROVE ConnInv'
<1>. DEFINE n == e[1]
            s == Head(chan[e]).sid
            up == {fwd[n][s].upstream} \cap listed
<1>1. /\ n \in Node /\ s \in Sid /\ fwd[n][s] \in Relays
      /\ fwd'[n][s] \in Relays /\ fwd'[n][s] # NoEntry
      /\ \A m \in Node, t \in Sid : ~(m = n /\ t = s) => fwd'[m][t] = fwd[m][t]
      /\ fwd'[n][s].upstream = fwd[n][s].upstream /\ fwd'[n][s].asked = fwd[n][s].asked
      /\ chan' = IF fwd'[n][s].received = fwd'[n][s].needed
                 THEN SendOn(Consumed(e), up, Response(s, fwd'[n][s].hits))
                 ELSE Consumed(e)
  BY RelayedEntry
<1>2. /\ e \in listens /\ chan[e] # <<>> /\ chan \in Queues /\ Receives(e, "RESP")
      /\ fwd[n][s] # NoEntry
      /\ UNCHANGED <<alive, life, conns, search, used, reused>>
  BY DEF RespRelayed, Receives, ConnInv, TypeOK, Known
<1>3. chan' \in Queues /\ \A r \in End : r[3] > life => chan'[r] = <<>>
  <2>1. CASE chan' = Consumed(e)
    <3>1. \A r \in End : r[3] > life => r # e /\ chan[r] = <<>>
      BY <1>2 DEF ConnInv, Listening, FutureFresh
    <3>. QED  BY <1>2, <2>1, <3>1, OnConsumed
  <2>2. CASE chan' = SendOn(Consumed(e), up, Response(s, fwd'[n][s].hits))
    <3>1. PICK hits \in SUBSET Hit : hits = fwd'[n][s].hits
      BY <1>1 DEF Relays
    <3>2. Response(s, hits) \in Message /\ up \in SUBSET End
      BY <1>1, MessageTypes DEF ConnInv, TypeOK
    <3>3. chan' = SendOn(Consumed(e), up, Response(s, hits))
      BY <2>2, <3>1
    <3>. HIDE DEF up, s, n
    <3>. QED  BY <1>2, <3>2, <3>3, FutureUnread
  <2>. QED  BY <1>1, <2>1, <2>2
<1>4. fwd' \in [Node -> [Sid -> Relays \cup {NoEntry}]]
  BY <1>1, <1>2 DEF RespRelayed, ConnInv, TypeOK
<1>5. TypeOK' /\ Sleeping'
  BY <1>2, <1>3, <1>4 DEF ConnInv, TypeOK, Sleeping, conns, search
<1>6. RelaysOwn'
  <2>1. ASSUME NEW m \in Node, NEW t \in Sid, fwd'[m][t] # NoEntry
        PROVE  /\ fwd[m][t] # NoEntry /\ fwd'[m][t].asked = fwd[m][t].asked
               /\ fwd'[m][t].upstream = fwd[m][t].upstream
    <3>1. CASE m = n /\ t = s
      BY <1>1, <1>2, <3>1
    <3>2. CASE ~(m = n /\ t = s)
      BY <1>1, <2>1, <3>2
    <3>. QED  BY <3>1, <3>2
  <2>2. life' = life
    BY <1>2
  <2>. QED  BY <2>1, <2>2 DEF ConnInv, RelaysOwn
<1>. QED  BY <1>2, <1>3, <1>5, <1>6, ConnQuiet

LEMMA RespToCreatorConn == ASSUME ConnInv, NEW e \in End, RespToCreator(e) PROVE ConnInv'
<1>. DEFINE resp == Head(chan[e])
<1>1. Receives(e, "RESP")
  BY DEF RespToCreator
<1>2. e \in listens /\ chan[e] # <<>> /\ resp.sid \in Sid /\ resp.hits \in SUBSET Hit
  BY <1>1, ReadMessage
<1>3. /\ chan' = Consumed(e) /\ UNCHANGED <<alive, life, conns, pc, counter, fwd, used, reused>>
      /\ \/ created' = created
         \/ /\ created[resp.sid] # NoEntry
            /\ created' = [created EXCEPT
                  ![resp.sid].status = IF resp.hits # {} THEN "SUCCESS" ELSE @,
                  ![resp.sid].hits = @ \cup resp.hits]
  BY DEF RespToCreator
<1>. HIDE DEF resp
<1>4. /\ created' \in [Sid -> Searches \cup {NoEntry}]
      /\ \A s \in Sid : created[s] # NoEntry => created'[s] # NoEntry
  <2>1. CASE created' = created
    BY <2>1 DEF ConnInv, TypeOK
  <2>2. CASE /\ created[resp.sid] # NoEntry
             /\ created' = [created EXCEPT
                   ![resp.sid].status = IF resp.hits # {} THEN "SUCCESS" ELSE @,
                   ![resp.sid].hits = @ \cup resp.hits]
    <3>. DEFINE found == [created[resp.sid] EXCEPT
                            !.status = IF resp.hits # {} THEN "SUCCESS" ELSE @,
                            !.hits = @ \cup resp.hits]
    <3>1. created[resp.sid] \in Searches /\ created \in [Sid -> Searches \cup {NoEntry}]
      BY <1>2, <2>2 DEF ConnInv, TypeOK
    <3>2. found \in Searches
      BY <1>2, <3>1 DEF Searches
    <3>3. found # NoEntry
      BY <3>2, NoEntryAssumption
    <3>4. created' = [created EXCEPT ![resp.sid] = found]
      BY <1>2, <2>2, <3>1 DEF Searches
    <3>. HIDE DEF found
    <3>. QED  BY <1>2, <3>1, <3>2, <3>3, <3>4
  <2>. QED  BY <1>3, <2>1, <2>2
<1>5. chan \in Queues /\ \A r \in End : r[3] > life => r # e /\ chan[r] = <<>>
  BY <1>2 DEF ConnInv, TypeOK, Listening, FutureFresh
<1>6. chan' \in Queues /\ \A r \in End : r[3] > life => chan'[r] = <<>>
  BY <1>2, <1>3, <1>5, OnConsumed
<1>7. TypeOK' /\ Sleeping' /\ RelaysOwn'
  BY <1>3, <1>4, <1>6 DEF ConnInv, TypeOK, Sleeping, RelaysOwn, conns
<1>. QED  BY <1>3, <1>6, <1>7, ConnQuiet

LEMMA HearDisconnectConn == ASSUME ConnInv, NEW e \in End, HearDisconnect(e) PROVE ConnInv'
<1>1. /\ e \in listens /\ chan[e] # <<>> /\ chan' = Consumed(e)
      /\ connected' = connected \ {e} /\ listens' = listens \ {e} /\ listed' = listed
      /\ sock' = [x \in End |-> IF sock[x] = e THEN NoEntry ELSE sock[x]]
      /\ UNCHANGED <<alive, life, search, fwd, used, reused>>
  BY DEF HearDisconnect, Receives, ListenerEnds
<1>2. chan \in Queues /\ \A r \in End : r[3] > life => r # e /\ chan[r] = <<>>
  BY <1>1 DEF ConnInv, TypeOK, Listening, FutureFresh
<1>3. chan' \in Queues /\ \A r \in End : r[3] > life => chan'[r] = <<>>
  BY <1>1, <1>2, OnConsumed
<1>4. TypeOK' /\ Sleeping' /\ RelaysOwn'
  BY <1>1, <1>3 DEF ConnInv, TypeOK, Sleeping, RelaysOwn, search
<1>5. Listening' /\ OwnSocket'
  BY <1>1 DEF ConnInv, TypeOK, Listening, OwnSocket
<1>6. BothListen'
  BY <1>1 DEF ConnInv, BothListen
<1>7. FutureFresh'
  BY <1>1, <1>3 DEF ConnInv, FutureFresh
<1>. QED  BY <1>4, <1>5, <1>6, <1>7 DEF ConnInv

LEMMA HearResetConn == ASSUME ConnInv, NEW e \in End, HearReset(e) PROVE ConnInv'
<1>1. /\ e \in listens /\ Other(e) \notin listens /\ listens' = listens \ {e}
      /\ sock' = [x \in End |-> IF sock[x] = e THEN NoEntry ELSE sock[x]]
      /\ UNCHANGED <<alive, life, listed, connected, chan, search, fwd, used, reused>>
  BY DEF HearReset, ListenerEnds
<1>2. TypeOK' /\ Sleeping' /\ RelaysOwn'
  BY <1>1 DEF ConnInv, TypeOK, Sleeping, RelaysOwn, search
<1>3. Listening' /\ OwnSocket'
  BY <1>1 DEF ConnInv, TypeOK, Listening, OwnSocket
<1>4. BothListen'
  BY <1>1, EndParts DEF ConnInv, BothListen
<1>5. FutureFresh'
  BY <1>1 DEF ConnInv, FutureFresh
<1>. QED  BY <1>2, <1>3, <1>4, <1>5 DEF ConnInv

LEMMA MonitorFreesConn == ASSUME ConnInv, NEW e \in End, MonitorFrees(e) PROVE ConnInv'
<1>1. /\ e \notin listens /\ listed' = listed \ {e}
      /\ UNCHANGED <<alive, life, connected, listens, sock, chan, search, fwd, used, reused>>
  BY DEF MonitorFrees
<1>2. TypeOK' /\ Sleeping' /\ RelaysOwn'
  BY <1>1 DEF ConnInv, TypeOK, Sleeping, RelaysOwn, search
<1>3. Listening' /\ OwnSocket' /\ BothListen' /\ FutureFresh'
  BY <1>1 DEF ConnInv, Listening, OwnSocket, BothListen, FutureFresh
<1>. QED  BY <1>2, <1>3 DEF ConnInv

\* A process that ends takes all its ends with it.
LEMMA EndsConn ==
    ASSUME ConnInv, NEW n \in Node, NEW ch \in Queues, Ends(n, ch),
           \A e \in End : e[3] > life => ch[e] = <<>>
    PROVE  ConnInv'
<1>1. /\ alive' = alive \ {n} /\ UNCHANGED <<life, reused>>
      /\ listed' = listed \ EndsOf(n) /\ connected' = connected \ EndsOf(n)
      /\ listens' = listens \ EndsOf(n)
      /\ sock' = [e \in End |-> IF e \in EndsOf(n) THEN NoEntry ELSE sock[e]]
      /\ chan' = [e \in End |-> IF e \in EndsOf(n) THEN <<>> ELSE ch[e]]
      /\ fwd' = [fwd EXCEPT ![n] = NoSearches]
  BY DEF Ends
<1>2. /\ created' \in [Sid -> Searches \cup {NoEntry}] /\ pc' \in {"idle", "sleep"}
      /\ counter' \in Nat /\ Sleeping'
  <2>1. CASE n = Searcher
    BY <2>1 DEF Ends, NoSearches, Sleeping
  <2>2. CASE n # Searcher
    <3>1. /\ UNCHANGED <<pc, counter>>
          /\ created' = [s \in Sid |-> IF created[s] = NoEntry THEN NoEntry
                                       ELSE [created[s] EXCEPT !.calm = FALSE]]
      BY <2>2 DEF Ends
    <3>2. ASSUME NEW s \in Sid, created[s] # NoEntry
          PROVE  /\ [created[s] EXCEPT !.calm = FALSE] \in Searches
                 /\ [created[s] EXCEPT !.calm = FALSE] # NoEntry
      <4>1. created[s] \in Searches
        BY <3>2 DEF ConnInv, TypeOK
      <4>2. [created[s] EXCEPT !.calm = FALSE] \in Searches
        BY <4>1 DEF Searches
      <4>. QED  BY <4>2, NoEntryAssumption
    <3>. QED  BY <3>1, <3>2 DEF ConnInv, TypeOK, Sleeping
  <2>. QED  BY <2>1, <2>2
<1>3. TypeOK'
  BY <1>1, <1>2 DEF ConnInv, TypeOK, Queues, NoSearches
<1>4. RelaysOwn'
  BY <1>1 DEF ConnInv, TypeOK, RelaysOwn, NoSearches
<1>5. Listening' /\ OwnSocket'
  BY <1>1 DEF ConnInv, TypeOK, Listening, OwnSocket
<1>6. BothListen'
  BY <1>1 DEF ConnInv, BothListen
<1>7. FutureFresh'
  BY <1>1 DEF ConnInv, FutureFresh
<1>. QED  BY <1>2, <1>3, <1>4, <1>5, <1>6, <1>7 DEF ConnInv

\* What a leaving node says.
LEMMA LeaveSends ==
    ASSUME ConnInv, NEW n \in Node
    PROVE  LET ch == SendOn(chan, ConnectedPeers(n), Disconnect) IN
           /\ ch \in Queues /\ \A e \in End : e[3] > life => ch[e] = <<>>
           /\ \A r \in End : \A m : m.type # "DISCONNECT" => (On(ch[r], m) <=> On(chan[r], m))
<1>. DEFINE P == ConnectedPeers(n)
            ch == SendOn(chan, P, Disconnect)
<1>1. chan \in Queues /\ P \in SUBSET End /\ Disconnect \in Message
  BY MessageTypes DEF ConnInv, TypeOK, ConnectedPeers
<1>2. Disconnect.type = "DISCONNECT"
  BY DEF Disconnect
<1>. HIDE DEF P
<1>3. /\ ch \in Queues
      /\ \A r \in End : /\ ~Reaches(P, r) => ch[r] = chan[r]
                        /\ \A m : On(ch[r], m) <=> On(chan[r], m) \/ (Reaches(P, r) /\ m = Disconnect)
  BY <1>1, OnSent
<1>4. \A e \in End : e[3] > life => ch[e] = <<>>
  BY <1>3 DEF ConnInv, Listening, FutureFresh, Reaches
<1>. HIDE DEF ch
<1>5. \A r \in End : \A m : m.type # "DISCONNECT" => (On(ch[r], m) <=> On(chan[r], m))
  BY <1>2, <1>3
<1>. QED  BY <1>3, <1>4, <1>5 DEF ch, P

LEMMA LeaveConn == ASSUME ConnInv, NEW n \in Node, Leave(n) PROVE ConnInv'
BY LeaveSends, EndsConn DEF Leave

\* A process dies of a signal, or of what it reads in memory that it freed.
LEMMA DyingSteps ==
    /\ \A n \in Node : Crash(n) => Dies(n)
    /\ \A e \in End : RelayDies(e) => e[1] \in Node /\ Dies(e[1])
BY EndParts DEF Crash, RelayDies

LEMMA DiesConn == ASSUME ConnInv, NEW n \in Node, Dies(n) PROVE ConnInv'
BY EndsConn DEF Dies, ConnInv, TypeOK, FutureFresh

\* A relay whose upstream was freed takes the end in for it; nothing else of it changes.
Taken(in) == \A n \in Node, s \in Sid :
    \/ fwd'[n][s] = fwd[n][s]
    \/ /\ n = Entry /\ fwd[n][s] # NoEntry /\ fwd[n][s].upstream \notin listed
       /\ fwd'[n][s] # NoEntry /\ fwd'[n][s].upstream = in
       /\ fwd'[n][s].received = fwd[n][s].received /\ fwd'[n][s].needed = fwd[n][s].needed
       /\ fwd'[n][s].waiting = fwd[n][s].waiting /\ fwd'[n][s].asked = fwd[n][s].asked

\* The two new ends, and what else becomes of the sockets.
LEMMA RestartMakes ==
    ASSUME ConnInv, Restart
    PROVE  LET out == <<Searcher, Entry, life + 1>>
               in == Other(out)
           IN
           /\ out \in End /\ in \in End /\ out # in /\ out = Other(in) /\ in[1] = Entry
           /\ out[3] = life + 1 /\ in[3] = life + 1
           /\ {out, in} \cap listed = {} /\ {out, in} \cap connected = {}
           /\ chan[out] = <<>> /\ chan[in] = <<>>
           /\ listed' = listed \cup {out, in} /\ connected' = connected \cup {out, in}
           /\ listens' = listens \cup {out, in}
           /\ life' = life + 1 /\ life' \in 1..MaxLives /\ alive' = alive \cup {Searcher}
           /\ sock' \in [End -> End \cup {NoEntry}] /\ sock'[out] = out /\ sock'[in] = in
           /\ \A e \in End \ {out, in} :
                 \/ sock'[e] = sock[e]
                 \/ sock'[e] = in /\ e[1] = Entry /\ reused' /\ sock[e] = NoEntry
           /\ reused' \in BOOLEAN /\ (reused => reused')
           /\ fwd' \in [Node -> [Sid -> Relays \cup {NoEntry}]]
           /\ Taken(in) /\ (~reused' => fwd' = fwd)
           /\ UNCHANGED <<chan, search, used>>
<1>. DEFINE out == <<Searcher, Entry, life + 1>>
            in == Other(out)
<1>1. life + 1 \in 1..MaxLives /\ life < life + 1
  BY ChurnAssumption DEF ConnInv, TypeOK, Restart
<1>2. /\ out \in End /\ in \in End /\ out # in /\ out = Other(in) /\ in[1] = Entry
      /\ out[3] = life + 1 /\ in[3] = life + 1 /\ Entry \in Node
  BY <1>1, ChurnAssumption DEF End, Other
<1>3. /\ {out, in} \cap listed = {} /\ {out, in} \cap connected = {}
      /\ chan[out] = <<>> /\ chan[in] = <<>>
  BY <1>1, <1>2 DEF ConnInv, TypeOK, FutureFresh
<1>4. PICK again \in {{}} \cup {{e} : e \in {e \in ConnectedPeers(Entry) : sock[e] = NoEntry}},
           place \in {{}} \cup {{e} : e \in {e \in EndsOf(Entry) \ listed : PointedTo(e)}} :
        /\ sock' = [e \in End |-> IF e = out THEN out
                                  ELSE IF e \in again \cup {in} THEN in ELSE sock[e]]
        /\ fwd' = [fwd EXCEPT ![Entry] = Occupied(@, place, in)]
        /\ reused' = (reused \/ again # {} \/ place # {})
  BY DEF Restart
<1>5. (\A e \in again : sock[e] = NoEntry /\ e[1] = Entry) /\ (\A e \in place : e \notin listed)
  BY DEF ConnectedPeers, EndsOf
<1>6. /\ listed' = listed \cup {out, in} /\ connected' = connected \cup {out, in}
      /\ listens' = listens \cup {out, in}
      /\ life' = life + 1 /\ alive' = alive \cup {Searcher}
      /\ UNCHANGED <<chan, search, used>>
  BY DEF Restart
<1>7. reused' \in BOOLEAN /\ (reused => reused')
  BY <1>4 DEF ConnInv, TypeOK
<1>. HIDE DEF out, in
<1>8. /\ sock' \in [End -> End \cup {NoEntry}] /\ sock'[out] = out /\ sock'[in] = in
      /\ \A e \in End \ {out, in} :
            \/ sock'[e] = sock[e]
            \/ sock'[e] = in /\ e[1] = Entry /\ reused' /\ sock[e] = NoEntry
  BY <1>2, <1>4, <1>5 DEF ConnInv, TypeOK
<1>. DEFINE taken == Occupied(fwd[Entry], place, in)
<1>13. /\ fwd \in [Node -> [Sid -> Relays \cup {NoEntry}]]
       /\ fwd' = [n \in Node |-> IF n = Entry THEN taken ELSE fwd[n]]
  BY <1>2, <1>4 DEF ConnInv, TypeOK
<1>14. ASSUME NEW s \in Sid
       PROVE  taken[s] = fwd[Entry][s]
                 \/ /\ fwd[Entry][s] # NoEntry /\ fwd[Entry][s].upstream \in place
                    /\ taken[s] = [fwd[Entry][s] EXCEPT !.upstream = in]
  BY DEF Occupied
<1>15. \A r \in Relays : [r EXCEPT !.upstream = in] \in Relays
  BY <1>2 DEF Relays
<1>16. taken = [s \in Sid |-> taken[s]]
  BY DEF Occupied
<1>. HIDE DEF taken
<1>17. taken \in [Sid -> Relays \cup {NoEntry}]
  <2>1. ASSUME NEW s \in Sid PROVE taken[s] \in Relays \cup {NoEntry}
    <3>1. fwd[Entry][s] \in Relays \cup {NoEntry}
      BY <1>2, <1>13
    <3>2. CASE taken[s] = fwd[Entry][s]
      BY <3>1, <3>2
    <3>3. CASE taken[s] # fwd[Entry][s]
      <4>1. taken[s] = [fwd[Entry][s] EXCEPT !.upstream = in] /\ fwd[Entry][s] \in Relays
        BY <1>14, <3>1, <3>3
      <4>. QED  BY <1>15, <4>1
    <3>. QED  BY <3>2, <3>3
  <2>. QED  BY <1>16, <2>1
<1>9. ASSUME NEW n \in Node, NEW s \in Sid
      PROVE  fwd'[n][s] = fwd[n][s]
                \/ /\ n = Entry /\ fwd[n][s] # NoEntry /\ fwd[n][s].upstream \in place
                   /\ fwd'[n][s] = [fwd[n][s] EXCEPT !.upstream = in]
  BY <1>13, <1>14
<1>10. Taken(in)
  <2>1. ASSUME NEW n \in Node, NEW s \in Sid, fwd[n][s] # NoEntry,
               fwd'[n][s] = [fwd[n][s] EXCEPT !.upstream = in]
        PROVE  /\ fwd'[n][s] # NoEntry /\ fwd'[n][s].upstream = in
               /\ fwd'[n][s].received = fwd[n][s].received /\ fwd'[n][s].needed = fwd[n][s].needed
               /\ fwd'[n][s].waiting = fwd[n][s].waiting /\ fwd'[n][s].asked = fwd[n][s].asked
    <3>1. fwd[n][s] \in Relays
      BY <2>1 DEF ConnInv, TypeOK
    <3>2. [fwd[n][s] EXCEPT !.upstream = in] \in Relays
      BY <1>2, <3>1 DEF Relays
    <3>3. fwd'[n][s] # NoEntry
      BY <2>1, <3>2, NoEntryAssumption
    <3>. QED  BY <2>1, <3>1, <3>3 DEF Relays
  <2>. QED  BY <1>5, <1>9, <2>1 DEF Taken
<1>11. fwd' \in [Node -> [Sid -> Relays \cup {NoEntry}]]
  BY <1>13, <1>17
<1>12. ~reused' => fwd' = fwd
  <2>1. SUFFICES ASSUME ~reused' PROVE fwd' = fwd
    OBVIOUS
  <2>2. place = {}
    BY <1>4, <2>1
  <2>3. \A s \in Sid : taken[s] = fwd[Entry][s]
    BY <1>14, <2>2
  <2>4. taken = fwd[Entry]
    BY <1>2, <1>13, <1>16, <2>3
  <2>. QED  BY <1>13, <2>4
<1>. QED
  BY <1>1, <1>2, <1>3, <1>6, <1>7, <1>8, <1>10, <1>11, <1>12 DEF out, in

LEMMA RestartConn == ASSUME ConnInv, Restart PROVE ConnInv'
<1>. DEFINE out == <<Searcher, Entry, life + 1>>
            in == Other(out)
<1>1. /\ out \in End /\ in \in End /\ out # in /\ out = Other(in) /\ in[1] = Entry
      /\ out[3] = life + 1 /\ in[3] = life + 1
      /\ {out, in} \cap listed = {} /\ {out, in} \cap connected = {}
      /\ chan[out] = <<>> /\ chan[in] = <<>>
      /\ listed' = listed \cup {out, in} /\ connected' = connected \cup {out, in}
      /\ listens' = listens \cup {out, in}
      /\ life' = life + 1 /\ life' \in 1..MaxLives /\ alive' = alive \cup {Searcher}
      /\ sock' \in [End -> End \cup {NoEntry}] /\ sock'[out] = out /\ sock'[in] = in
      /\ \A e \in End \ {out, in} : sock'[e] = sock[e] \/ (reused' /\ sock[e] = NoEntry)
      /\ reused' \in BOOLEAN /\ (reused => reused')
      /\ fwd' \in [Node -> [Sid -> Relays \cup {NoEntry}]]
      /\ Taken(in) /\ UNCHANGED <<chan, search, used>>
  BY RestartMakes
<1>. HIDE DEF out, in
<1>2. TypeOK' /\ Sleeping'
  BY <1>1, ChurnAssumption DEF ConnInv, TypeOK, Sleeping, search
<1>3. RelaysOwn'
  <2>1. \A n \in Node, s \in Sid : fwd[n][s] # NoEntry =>
           \A e \in fwd[n][s].asked \cup {fwd[n][s].upstream} : e \in End
    BY DEF ConnInv, TypeOK, Relays
  <2>2. \A e \in End : e[3] <= life => e[3] <= life'
    BY <1>1, EndParts DEF ConnInv, TypeOK
  <2>3. \A n \in Node, s \in Sid : fwd'[n][s] # NoEntry =>
           /\ fwd[n][s] # NoEntry /\ fwd'[n][s].asked = fwd[n][s].asked
           /\ fwd'[n][s].upstream = fwd[n][s].upstream \/ (n = Entry /\ fwd'[n][s].upstream = in)
    BY <1>1 DEF Taken
  <2>4. in[3] <= life'
    BY <1>1
  <2>. QED  BY <1>1, <2>1, <2>2, <2>3, <2>4 DEF ConnInv, RelaysOwn
<1>4. Listening'
  BY <1>1, NoEntryAssumption DEF ConnInv, TypeOK, Listening
<1>5. OwnSocket'
  BY <1>1 DEF ConnInv, TypeOK, OwnSocket
<1>6. BothListen'
  <2>1. \A e \in End : Other(e) \in {out, in} => e \in {out, in}
    BY <1>1, EndParts
  <2>. QED  BY <1>1, <2>1 DEF ConnInv, TypeOK, BothListen
<1>7. FutureFresh'
  BY <1>1, EndParts DEF ConnInv, TypeOK, FutureFresh
<1>. QED  BY <1>2, <1>3, <1>4, <1>5, <1>6, <1>7 DEF ConnInv

LEMMA ConnStep == ConnInv /\ [Next]_vars => ConnInv'
<1>. SUFFICES ASSUME ConnInv, [Next]_vars PROVE ConnInv'
  OBVIOUS
<1>1. ASSUME NEW e \in End, Listener(e) PROVE ConnInv'
  BY <1>1, ReqProcessedConn, ReqAnsweredConn, ReqForwardConn, RespRelayedConn,
     RespToCreatorConn, HearDisconnectConn, HearResetConn,
     DyingSteps, DiesConn DEF Listener
<1>2. CASE UNCHANGED vars
  BY <1>2 DEF vars, conns, search, ConnInv, TypeOK, Sleeping, Listening, OwnSocket,
              BothListen, FutureFresh, RelaysOwn
<1>. QED
  BY <1>1, <1>2, AttemptConn, WakeConn, RestartConn, MonitorFreesConn, LeaveConn,
     DyingSteps, DiesConn
     DEF Next

\* simple-search.cpp:283-311: a listener reads its own connection while its node lists the
\* peer as connected, relays keep ends of their own node, and a node that comes back
\* finds no trace of its new connection.
THEOREM ConnHolds == Spec => []ConnInv
BY ConnInit, ConnStep, PTL DEF Spec

----------------------------------------------------------------------------
(* What is shown are answers to this search.  Some of the relays, the good  *)
(* ones, were asked on a path that begins at the search that the searching   *)
(* node has under this id now; others serve a search of an earlier life.    *)

Created(n, s) == n = Searcher /\ created[s] # NoEntry

\* n has sent requests for s.
Asked(n, s) == Known(n, s) \/ Created(n, s)

\* The answers that n takes for s are for the search that exists now.
Own(good, n, s) == IF Known(n, s) THEN <<n, s>> \in good ELSE Created(n, s)

\* At the other side of a listening end: a request, and a relay; and at the end
\* itself: a response.
RequestsOwn(good) == \A r \in listens, s \in Sid, w \in Word :
    On(chan[Other(r)], Request(s, w)) =>
        Asked(r[1], s) /\ (Own(good, r[1], s) => created[s].word = w)

RelaysGood(good) == \A r \in listens, n \in Node, s \in Sid :
    fwd[n][s] # NoEntry /\ fwd[n][s].upstream = Other(r) =>
        Asked(r[1], s) /\ (Own(good, r[1], s) => <<n, s>> \in good)

ResponsesOwn(good) == \A r \in listens, s \in Sid, hits \in SUBSET Hit :
    On(chan[r], Response(s, hits)) /\ hits # {} =>
        Asked(r[1], s) /\ (Own(good, r[1], s) => \A hit \in hits : hit[2] = created[s].word)

HitsOwn(good) == \A n \in Node, s \in Sid :
    <<n, s>> \in good /\ fwd[n][s] # NoEntry =>
        created[s] # NoEntry /\ \A hit \in fwd[n][s].hits : hit[2] = created[s].word

Traced(good) == RequestsOwn(good) /\ RelaysGood(good) /\ ResponsesOwn(good) /\ HitsOwn(good)

ListsOwn == \A s \in Sid : created[s] # NoEntry =>
    \A hit \in created[s].hits : hit[2] = created[s].word

IdsInOrder == \A s \in Sid : created[s] # NoEntry => s <= counter

OwnInv ==
    /\ IdsInOrder
    /\ ~reused => ListsOwn /\ \E good \in SUBSET (Node \X Sid) : Traced(good)

LEMMA OwnInit == Init => OwnInv
<1>. SUFFICES ASSUME Init PROVE OwnInv
  OBVIOUS
<1>1. \A e \in End : \A m : ~On(chan[e], m)
  BY DEF Init, On
<1>2. \A e \in listens : e \in End /\ Other(e) \in End
  BY ConnInit, EndParts DEF ConnInv, TypeOK, Listening
<1>3. Traced({})
  BY <1>1, <1>2 DEF Init, NoSearches, Traced, RequestsOwn, RelaysGood, ResponsesOwn, HitsOwn
<1>. QED  BY <1>3 DEF Init, NoSearches, OwnInv, IdsInOrder, ListsOwn

\* Without reuse a message only gets to the other end of the connection.
LEMMA ReachesOther ==
    ASSUME ConnInv, ~reused, NEW E \in SUBSET End, NEW r \in End, Reaches(E, r)
    PROVE  r \in listens /\ Other(r) \in E
BY DEF Reaches, ConnInv, OwnSocket

\* Whoever asked has asked, and takes answers to its search at most where it did.
Follows(good, good2) ==
    \A r \in listens \cap listens', s \in Sid : Asked(r[1], s) =>
        /\ Asked(r[1], s)'
        /\ Own(good2, r[1], s)' => Own(good, r[1], s) /\ created'[s].word = created[s].word

\* What was right about a message or a relay is right.
LEMMA OldRight ==
    ASSUME NEW good, NEW good2, Traced(good), Follows(good, good2),
           NEW r \in listens \cap listens', NEW s \in Sid
    PROVE  /\ \A w \in Word : On(chan[Other(r)], Request(s, w)) =>
                 Asked(r[1], s)' /\ (Own(good2, r[1], s)' => created'[s].word = w)
           /\ \A n \in Node : fwd[n][s] # NoEntry /\ fwd[n][s].upstream = Other(r) =>
                 Asked(r[1], s)' /\ (Own(good2, r[1], s)' => <<n, s>> \in good)
           /\ \A hits \in SUBSET Hit : On(chan[r], Response(s, hits)) /\ hits # {} =>
                 /\ Asked(r[1], s)'
                 /\ Own(good2, r[1], s)' => \A hit \in hits : hit[2] = created'[s].word
<1>1. Asked(r[1], s) =>
        /\ Asked(r[1], s)'
        /\ Own(good2, r[1], s)' => Own(good, r[1], s) /\ created'[s].word = created[s].word
  BY DEF Follows
<1>2. \A w \in Word : On(chan[Other(r)], Request(s, w)) =>
         Asked(r[1], s) /\ (Own(good, r[1], s) => created[s].word = w)
  BY DEF Traced, RequestsOwn
<1>3. \A n \in Node : fwd[n][s] # NoEntry /\ fwd[n][s].upstream = Other(r) =>
         Asked(r[1], s) /\ (Own(good, r[1], s) => <<n, s>> \in good)
  BY DEF Traced, RelaysGood
<1>4. \A hits \in SUBSET Hit : On(chan[r], Response(s, hits)) /\ hits # {} =>
         Asked(r[1], s) /\ (Own(good, r[1], s) => \A hit \in hits : hit[2] = created[s].word)
  BY DEF Traced, ResponsesOwn
<1>. HIDE DEF Asked, Own
<1>. QED  BY <1>1, <1>2, <1>3, <1>4

LEMMA ResponseParts ==
    \A s, t, hits, hits2 : Response(s, hits) = Response(t, hits2) => s = t /\ hits = hits2
BY DEF Response

LEMMA RequestParts ==
    /\ \A s, t, w, w2 : Request(s, w) = Request(t, w2) => s = t /\ w = w2
    /\ \A s, t, w, hits : Request(s, w) # Response(t, hits)
BY DEF Request, Response

\* Nothing is sent but NO_PROCESSED; no relay changes but those of a process that ends.
LEMMA TraceStays ==
    ASSUME ConnInv, NEW good, Traced(good), listens' \subseteq listens,
           \A r \in End, s \in Sid : \A w \in Word :
              On(chan'[r], Request(s, w)) => On(chan[r], Request(s, w)),
           \A r \in End, s \in Sid : \A hits \in SUBSET Hit :
              On(chan'[r], Response(s, hits)) /\ hits # {} => On(chan[r], Response(s, hits)),
           \A n \in Node, s \in Sid :
              \/ fwd'[n][s] = fwd[n][s]
              \/ fwd'[n][s] = NoEntry /\ \A r \in listens' : r[1] # n,
           \A s \in Sid :
              /\ created'[s] = NoEntry <=> created[s] = NoEntry
              /\ created[s] # NoEntry => created'[s].word = created[s].word
    PROVE  Traced(good)'
<1>1. \A r \in listens' : r \in End /\ r \in listens /\ r[1] \in Node /\ Other(r) \in End
  BY EndParts DEF ConnInv, TypeOK, Listening
<1>2. ASSUME NEW r \in listens', NEW s \in Sid
      PROVE  /\ Known(r[1], s)' <=> Known(r[1], s)
             /\ Created(r[1], s)' <=> Created(r[1], s)
             /\ Asked(r[1], s)' <=> Asked(r[1], s)
             /\ Own(good, r[1], s)' <=> Own(good, r[1], s)
             /\ Own(good, r[1], s) => created'[s].word = created[s].word
  <2>1. fwd'[r[1]][s] = fwd[r[1]][s]
    BY <1>1
  <2>2. Known(r[1], s)' <=> Known(r[1], s)
    BY <2>1 DEF Known
  <2>3. Created(r[1], s)' <=> Created(r[1], s)
    BY DEF Created
  <2>4. Own(good, r[1], s) => created[s] # NoEntry
    BY <1>1 DEF Own, Known, Created, Traced, HitsOwn
  <2>. QED  BY <2>2, <2>3, <2>4 DEF Asked, Own
<1>3. Follows(good, good)
  BY <1>2 DEF Follows
<1>4. RequestsOwn(good)'
  BY <1>1, <1>3, OldRight DEF RequestsOwn
<1>5. RelaysGood(good)'
  <2>1. ASSUME NEW r \in listens', NEW n \in Node, NEW s \in Sid,
               fwd'[n][s] # NoEntry, fwd'[n][s].upstream = Other(r)
        PROVE  Asked(r[1], s)' /\ (Own(good, r[1], s)' => <<n, s>> \in good)
    <3>1. fwd[n][s] # NoEntry /\ fwd[n][s].upstream = Other(r)
      BY <2>1
    <3>. QED  BY <1>1, <1>3, <3>1, OldRight
  <2>. QED  BY <2>1 DEF RelaysGood
<1>6. ResponsesOwn(good)'
  BY <1>1, <1>3, OldRight DEF ResponsesOwn
<1>7. HitsOwn(good)'
  BY DEF Traced, HitsOwn
<1>. QED  BY <1>4, <1>5, <1>6, <1>7 DEF Traced

\* A new search has an id that no relay of its own has, as ids only go up.
LEMMA AttemptOwn ==
    ASSUME ConnInv, IdsInOrder, ~reused, ListsOwn, NEW good, Traced(good),
           NEW w \in Word, Attempt(w)
    PROVE  ListsOwn' /\ Traced(good)'
<1>0. PICK s \in Nat : s = counter + 1
  BY DEF ConnInv, TypeOK
<1>. DEFINE P == ConnectedPeers(Searcher)
            new == [status |-> "ACTIVE", hits |-> {}, word |-> w, calm |-> Calm /\ s \notin used]
<1>1. s \in Sid /\ created[s] = NoEntry
  <2>1. s \in Sid
    BY <1>0, ChurnAssumption DEF ConnInv, TypeOK, Attempt, Sid
  <2>2. s \in Nat /\ counter \in Nat /\ ~(s <= counter)
    BY <1>0 DEF ConnInv, TypeOK
  <2>. QED  BY <2>1, <2>2 DEF IdsInOrder
<1>2. /\ P \in SUBSET End /\ chan \in Queues /\ Request(s, w) \in Message
      /\ \A x \in P : x[1] = Searcher
  BY <1>1, MessageTypes DEF ConnInv, TypeOK, ConnectedPeers, EndsOf
<1>3. /\ chan' = SendOn(chan, P, Request(s, w)) /\ created' = [created EXCEPT ![s] = new]
      /\ UNCHANGED <<alive, life, conns, fwd, used, reused>>
  BY <1>0 DEF Attempt
<1>4. \A t \in Sid : created'[t] = IF t = s THEN new ELSE created[t]
  BY <1>1, <1>3 DEF ConnInv, TypeOK
<1>5. new \in Searches /\ new # NoEntry /\ new.hits = {} /\ new.word = w
  <2>1. new \in Searches /\ new.hits = {} /\ new.word = w
    BY DEF Searches
  <2>. HIDE DEF new
  <2>. QED  BY <2>1, NoEntryAssumption
<1>. HIDE DEF new, P
<1>6. ListsOwn'
  BY <1>4, <1>5 DEF ListsOwn
<1>7. \A r \in End : \A m :
         On(chan'[r], m) <=> On(chan[r], m) \/ (Reaches(P, r) /\ m = Request(s, w))
  <2>. DEFINE next == SendOn(chan, P, Request(s, w))
  <2>1. chan' = next
    BY <1>3
  <2>2. \A r \in End : \A m :
           On(next[r], m) <=> On(chan[r], m) \/ (Reaches(P, r) /\ m = Request(s, w))
    BY <1>2, OnSent
  <2>. HIDE DEF next
  <2>. QED  BY <2>1, <2>2
<1>8. \A r \in listens : r \in End /\ Other(r) \in End /\ Other(Other(r)) = r /\ r[1] \in Node
  BY EndParts DEF ConnInv, TypeOK, Listening
<1>9. \A n \in Node, t \in Sid : Known(n, t)' <=> Known(n, t)
  BY <1>3 DEF Known
<1>10. \A n \in Node : Known(n, s) => <<n, s>> \notin good
  BY <1>1 DEF Traced, HitsOwn, Known
<1>11. listens' = listens
  BY <1>3 DEF conns
<1>12. Follows(good, good)
  <2>1. ASSUME NEW r \in listens, NEW t \in Sid, Asked(r[1], t)
        PROVE  /\ Asked(r[1], t)'
               /\ Own(good, r[1], t)' =>
                     Own(good, r[1], t) /\ created'[t].word = created[t].word
    <3>1. CASE t = s
      <4>1. Known(r[1], s) /\ <<r[1], s>> \notin good
        BY <1>1, <1>8, <1>10, <2>1, <3>1 DEF Asked, Created
      <4>2. Known(r[1], s)'
        BY <1>1, <1>8, <1>9, <4>1
      <4>3. Asked(r[1], s)'
        BY <4>2 DEF Asked
      <4>4. ~Own(good, r[1], s)'
        BY <4>1, <4>2 DEF Own
      <4>. QED  BY <3>1, <4>3, <4>4
    <3>2. CASE t # s
      <4>1. created'[t] = created[t]
        BY <1>4, <3>2
      <4>2. Known(r[1], t)' <=> Known(r[1], t)
        BY <1>8, <1>9
      <4>3. Created(r[1], t)' <=> Created(r[1], t)
        BY <4>1 DEF Created
      <4>4. (Asked(r[1], t)' <=> Asked(r[1], t)) /\ (Own(good, r[1], t)' <=> Own(good, r[1], t))
        BY <4>2, <4>3 DEF Asked, Own
      <4>. QED  BY <2>1, <4>1, <4>4
    <3>. QED  BY <3>1, <3>2
  <2>. QED  BY <2>1 DEF Follows
<1>13. RequestsOwn(good)'
  <2>1. ASSUME NEW r \in listens', NEW t \in Sid, NEW v \in Word,
               On(chan'[Other(r)], Request(t, v))
        PROVE  Asked(r[1], t)' /\ (Own(good, r[1], t)' => created'[t].word = v)
    <3>1. r \in listens /\ r \in End /\ Other(r) \in End
      BY <1>8, <1>11
    <3>2. CASE On(chan[Other(r)], Request(t, v))
      BY <1>11, <1>12, <3>1, <3>2, OldRight
    <3>3. CASE Reaches(P, Other(r)) /\ Request(t, v) = Request(s, w)
      <4>1. Other(Other(r)) \in P /\ t = s /\ v = w
        BY <1>2, <3>1, <3>3, ReachesOther, RequestParts
      <4>2. r[1] = Searcher
        BY <1>2, <1>8, <3>1, <4>1
      <4>. QED  BY <1>4, <1>5, <4>1, <4>2 DEF Asked, Created
    <3>. QED  BY <1>7, <2>1, <3>1, <3>2, <3>3
  <2>. QED  BY <2>1 DEF RequestsOwn
<1>14. RelaysGood(good)'
  BY <1>3, <1>11, <1>12, OldRight DEF RelaysGood
<1>15. ResponsesOwn(good)'
  <2>1. ASSUME NEW r \in listens', NEW t \in Sid, NEW hits \in SUBSET Hit,
               On(chan'[r], Response(t, hits)), hits # {}
        PROVE  /\ Asked(r[1], t)'
               /\ Own(good, r[1], t)' => \A hit \in hits : hit[2] = created'[t].word
    <3>1. r \in listens /\ r \in End
      BY <1>8, <1>11
    <3>2. On(chan[r], Response(t, hits))
      BY <1>7, <2>1, <3>1, RequestParts
    <3>. QED  BY <1>11, <1>12, <2>1, <3>1, <3>2, OldRight
  <2>. QED  BY <2>1 DEF ResponsesOwn
<1>16. HitsOwn(good)'
  BY <1>1, <1>3, <1>4 DEF Traced, HitsOwn
<1>. QED  BY <1>6, <1>13, <1>14, <1>15, <1>16 DEF Traced

\* A relay that comes is good if the node it had the request from takes answers to the
\* search that exists.
LEMMA RelayComesOwn ==
    ASSUME ConnInv, ~reused, NEW good \in SUBSET (Node \X Sid), Traced(good),
           NEW e \in listens, NEW s \in Sid, NEW w \in Word, NEW b \in BOOLEAN,
           NEW E \in SUBSET End, NEW msg \in Message, chan[e] # <<>>,
           Head(chan[e]) = Request(s, w), ~Known(e[1], s),
           \/ E = {e} /\ \E hits : msg = Response(s, hits) /\ \A hit \in hits : hit[2] = w
           \/ E = ForwardTo(e) /\ msg = Request(s, w),
           chan' = SendOn(Consumed(e), E, msg),
           fwd' = [fwd EXCEPT ![e[1]][s] = Relay(e, b)],
           UNCHANGED <<alive, life, conns, search, used, reused>>
    PROVE  \E good2 \in SUBSET (Node \X Sid) : Traced(good2)'
<1>. DEFINE n == e[1]
            taken == Other(e) \in listens /\ Own(good, e[2], s)
<1>0. PICK good2 : good2 = IF taken THEN good \cup {<<n, s>>} ELSE good \ {<<n, s>>}
  OBVIOUS
<1>1. /\ e \in End /\ n \in Node /\ Other(e) \in End /\ Other(e)[1] = e[2] /\ e[2] \in Node
      /\ Relay(e, b) # NoEntry /\ Relay(e, b).upstream = e /\ Relay(e, b).hits = {}
  BY RelayType, EndParts
<1>2. \A m \in Node, t \in Sid : fwd'[m][t] = IF m = n /\ t = s THEN Relay(e, b) ELSE fwd[m][t]
  BY <1>1 DEF ConnInv, TypeOK
<1>3. \A m \in Node, t \in Sid : Known(m, t)' <=> (m = n /\ t = s) \/ Known(m, t)
  BY <1>1, <1>2 DEF Known
<1>4. listens' = listens /\ created' = created
  BY DEF conns, search
<1>5. good2 \in SUBSET (Node \X Sid)
  BY <1>0, <1>1
<1>6. \A m \in Node, t \in Sid : ~(m = n /\ t = s) => (<<m, t>> \in good2 <=> <<m, t>> \in good)
  BY <1>0
<1>7. <<n, s>> \in good2 <=> taken
  BY <1>0
<1>8. \A r \in listens : r \in End /\ Other(r) \in End /\ Other(Other(r)) = r /\ r[1] \in Node
  BY EndParts DEF ConnInv, TypeOK, Listening
<1>9. On(chan[e], Request(s, w))
  BY <1>1, OnConsumed DEF ConnInv, TypeOK
<1>10. \A r \in End : \A m :
          On(chan'[r], m) => On(chan[r], m) \/ (Reaches(E, r) /\ m = msg)
  <2>1. chan \in Queues /\ e \in End /\ chan[e] # <<>> /\ E \in SUBSET End /\ msg \in Message
        /\ chan' = SendOn(Consumed(e), E, msg)
    BY <1>1 DEF ConnInv, TypeOK
  <2>. HIDE DEF n, taken
  <2>2. PassedOn(e, E, msg)
    BY <2>1, OnAnswered
  <2>. QED  BY <2>2 DEF PassedOn
<1>. HIDE DEF n
<1>11. Other(e) \in listens =>
          Asked(e[2], s) /\ (Own(good, e[2], s) => created[s].word = w)
  BY <1>1, <1>8, <1>9 DEF Traced, RequestsOwn
<1>12. taken => created[s] # NoEntry /\ created[s].word = w
  <2>1. Own(good, e[2], s) => created[s] # NoEntry
    BY <1>1 DEF Own, Known, Created, Traced, HitsOwn
  <2>. QED  BY <1>11, <2>1
<1>. HIDE DEF taken
<1>21. \A m, t : Created(m, t)' <=> Created(m, t)
  BY <1>4 DEF Created
<1>13. ASSUME NEW m \in Node, NEW t \in Sid, ~(m = n /\ t = s)
       PROVE  Own(good2, m, t)' <=> Own(good, m, t)
  <2>1. Own(good2, m, t)' <=> IF Known(m, t)' THEN <<m, t>> \in good2 ELSE Created(m, t)'
    BY DEF Own
  <2>2. Own(good, m, t) <=> IF Known(m, t) THEN <<m, t>> \in good ELSE Created(m, t)
    BY DEF Own
  <2>. QED  BY <1>3, <1>6, <1>21, <1>13, <2>1, <2>2
<1>14. Own(good2, n, s)' <=> taken
  <2>1. Known(n, s)'
    BY <1>1, <1>3
  <2>. QED  BY <1>7, <2>1 DEF Own
<1>15. \A m \in Node, t \in Sid : Asked(m, t) => Asked(m, t)'
  <2>1. ASSUME NEW m \in Node, NEW t \in Sid, Asked(m, t) PROVE Asked(m, t)'
    <3>1. Known(m, t)' \/ Created(m, t)'
      BY <1>3, <1>21, <2>1 DEF Asked
    <3>. QED  BY <3>1 DEF Asked
  <2>. QED  BY <2>1
<1>16. Follows(good, good2)
  <2>1. ASSUME NEW r \in listens, NEW t \in Sid, Asked(r[1], t)
        PROVE  Own(good2, r[1], t)' => Own(good, r[1], t)
    <3>1. CASE r[1] = n /\ t = s
      <4>1. Created(n, s) /\ ~Known(n, s)
        BY <2>1, <3>1 DEF Asked, n
      <4>. QED  BY <3>1, <4>1 DEF Own
    <3>2. CASE ~(r[1] = n /\ t = s)
      BY <1>8, <1>13, <3>2
    <3>. QED  BY <3>1, <3>2
  <2>. QED  BY <1>4, <1>8, <1>15, <2>1 DEF Follows
<1>17. RequestsOwn(good2)'
  <2>1. ASSUME NEW r \in listens', NEW t \in Sid, NEW v \in Word,
               On(chan'[Other(r)], Request(t, v))
        PROVE  Asked(r[1], t)' /\ (Own(good2, r[1], t)' => created'[t].word = v)
    <3>1. r \in listens /\ r \in End /\ Other(r) \in End
      BY <1>4, <1>8
    <3>2. CASE On(chan[Other(r)], Request(t, v))
      BY <1>4, <1>16, <3>1, <3>2, OldRight
    <3>3. CASE Reaches(E, Other(r)) /\ Request(t, v) = msg
      <4>1. r \in E /\ E = ForwardTo(e) /\ t = s /\ v = w
        BY <1>8, <3>1, <3>3, ReachesOther, RequestParts
      <4>2. r[1] = n
        BY <4>1 DEF ForwardTo, ConnectedPeers, EndsOf, n
      <4>3. Known(n, s)'
        BY <1>1, <1>3
      <4>. QED  BY <1>4, <1>12, <1>14, <4>1, <4>2, <4>3 DEF Asked
    <3>. QED  BY <1>10, <2>1, <3>1, <3>2, <3>3
  <2>. QED  BY <2>1 DEF RequestsOwn
<1>18. RelaysGood(good2)'
  <2>1. ASSUME NEW r \in listens', NEW m \in Node, NEW t \in Sid,
               fwd'[m][t] # NoEntry, fwd'[m][t].upstream = Other(r)
        PROVE  Asked(r[1], t)' /\ (Own(good2, r[1], t)' => <<m, t>> \in good2)
    <3>1. r \in listens /\ r \in End
      BY <1>4, <1>8
    <3>2. CASE m = n /\ t = s
      <4>1. r = Other(e) /\ r[1] = e[2]
        BY <1>1, <1>2, <1>8, <2>1, <3>1, <3>2, EndParts
      <4>2. Asked(e[2], s)'
        BY <1>1, <1>11, <1>15, <3>1, <4>1
      <4>3. Own(good2, e[2], s)' => taken
        <5>1. CASE e[2] = n
          BY <1>14, <5>1
        <5>2. CASE e[2] # n
          <6>1. Own(good2, e[2], s)' => Own(good, e[2], s)
            BY <1>1, <1>13, <5>2
          <6>. QED  BY <3>1, <4>1, <6>1 DEF taken
        <5>. QED  BY <5>1, <5>2
      <4>. QED  BY <1>7, <3>2, <4>1, <4>2, <4>3
    <3>3. CASE ~(m = n /\ t = s)
      <4>1. fwd[m][t] # NoEntry /\ fwd[m][t].upstream = Other(r)
        BY <1>2, <2>1, <3>3
      <4>. QED  BY <1>4, <1>6, <1>16, <3>1, <3>3, <4>1, OldRight
    <3>. QED  BY <3>2, <3>3
  <2>. QED  BY <2>1 DEF RelaysGood
<1>19. ResponsesOwn(good2)'
  <2>1. ASSUME NEW r \in listens', NEW t \in Sid, NEW hits \in SUBSET Hit,
               On(chan'[r], Response(t, hits)), hits # {}
        PROVE  /\ Asked(r[1], t)'
               /\ Own(good2, r[1], t)' => \A hit \in hits : hit[2] = created'[t].word
    <3>1. r \in listens /\ r \in End
      BY <1>4, <1>8
    <3>2. CASE On(chan[r], Response(t, hits))
      BY <1>4, <1>16, <2>1, <3>1, <3>2, OldRight
    <3>3. CASE Reaches(E, r) /\ Response(t, hits) = msg
      <4>1. Other(r) \in E /\ E = {e} /\ t = s /\ \A hit \in hits : hit[2] = w
        BY <3>1, <3>3, ReachesOther, RequestParts, ResponseParts
      <4>2. r = Other(e) /\ r[1] = e[2]
        BY <1>1, <1>8, <3>1, <4>1, EndParts
      <4>3. Asked(e[2], s)'
        BY <1>1, <1>11, <1>15, <3>1, <4>2
      <4>4. Own(good2, e[2], s)' => created'[s].word = w
        <5>1. CASE e[2] = n
          BY <1>4, <1>12, <1>14, <5>1
        <5>2. CASE e[2] # n
          BY <1>1, <1>4, <1>11, <1>13, <3>1, <4>2, <5>2
        <5>. QED  BY <5>1, <5>2
      <4>. QED  BY <4>1, <4>2, <4>3, <4>4
    <3>. QED  BY <1>10, <2>1, <3>1, <3>2, <3>3
  <2>. QED  BY <2>1 DEF ResponsesOwn
<1>20. HitsOwn(good2)'
  <2>1. ASSUME NEW m \in Node, NEW t \in Sid, <<m, t>> \in good2, fwd'[m][t] # NoEntry
        PROVE  created'[t] # NoEntry /\ \A hit \in fwd'[m][t].hits : hit[2] = created'[t].word
    <3>1. CASE m = n /\ t = s
      BY <1>1, <1>2, <1>4, <1>7, <1>12, <2>1, <3>1
    <3>2. CASE ~(m = n /\ t = s)
      BY <1>2, <1>4, <1>6, <2>1, <3>2 DEF Traced, HitsOwn
    <3>. QED  BY <3>1, <3>2
  <2>. QED  BY <2>1 DEF HitsOwn
<1>. QED  BY <1>5, <1>17, <1>18, <1>19, <1>20 DEF Traced

\* Steps that send no request and no hit, and make no relay.
LEMMA QuietOwn ==
    ASSUME ConnInv, OwnInv, listens' \subseteq listens, reused' = reused, counter' = counter,
           \A r \in End, s \in Sid : \A w \in Word :
              On(chan'[r], Request(s, w)) => On(chan[r], Request(s, w)),
           \A r \in End, s \in Sid : \A hits \in SUBSET Hit :
              On(chan'[r], Response(s, hits)) /\ hits # {} => On(chan[r], Response(s, hits)),
           \A n \in Node, s \in Sid :
              \/ fwd'[n][s] = fwd[n][s]
              \/ fwd'[n][s] = NoEntry /\ \A r \in listens' : r[1] # n,
           \A s \in Sid :
              /\ created'[s] = NoEntry <=> created[s] = NoEntry
              /\ created[s] # NoEntry => /\ created'[s].word = created[s].word
                                         /\ created'[s].hits = created[s].hits
    PROVE  OwnInv'
<1>1. IdsInOrder'
  BY DEF OwnInv, IdsInOrder
<1>2. ASSUME ~reused'
      PROVE  ListsOwn' /\ (\E good \in SUBSET (Node \X Sid) : Traced(good))'
  <2>1. PICK good \in SUBSET (Node \X Sid) : Traced(good)
    BY <1>2 DEF OwnInv
  <2>2. Traced(good)'
    BY <2>1, TraceStays
  <2>3. ListsOwn'
    BY <1>2 DEF OwnInv, ListsOwn
  <2>. QED  BY <2>2, <2>3
<1>. QED  BY <1>1, <1>2 DEF OwnInv

LEMMA ReqProcessedOwn ==
    ASSUME ConnInv, OwnInv, NEW e \in End, ReqProcessed(e) PROVE OwnInv'
<1>1. PICK s \in Sid : s = Head(chan[e]).sid
  BY ReadMessage DEF ReqProcessed
<1>2. PICK msg \in Message : msg = Response(s, {})
  BY MessageTypes
<1>3. /\ chan \in Queues /\ chan[e] # <<>> /\ {e} \in SUBSET End
      /\ chan' = SendOn(Consumed(e), {e}, msg)
      /\ UNCHANGED <<alive, life, conns, search, fwd, used, reused>>
  BY <1>1, <1>2 DEF ReqProcessed, Receives, ConnInv, TypeOK
<1>4. \A r \in End : \A m : On(chan'[r], m) => On(chan[r], m) \/ (Reaches({e}, r) /\ m = msg)
  <2>1. PassedOn(e, {e}, msg)
    BY <1>3, OnAnswered
  <2>. QED  BY <2>1 DEF PassedOn
<1>5. \A r \in End, t \in Sid : \A w \in Word :
         On(chan'[r], Request(t, w)) => On(chan[r], Request(t, w))
  BY <1>2, <1>4, RequestParts
<1>6. \A r \in End, t \in Sid : \A hits \in SUBSET Hit :
         On(chan'[r], Response(t, hits)) /\ hits # {} => On(chan[r], Response(t, hits))
  BY <1>2, <1>4, ResponseParts
<1>7. listens' = listens /\ reused' = reused /\ counter' = counter /\ fwd' = fwd
      /\ created' = created
  BY <1>3 DEF conns, search
<1>. QED  BY <1>5, <1>6, <1>7, QuietOwn

\* Steps that only take messages away.
LEMMA TakesOwn ==
    ASSUME ConnInv, OwnInv, listens' \subseteq listens,
           \A r \in End : \A m : On(chan'[r], m) => On(chan[r], m),
           UNCHANGED <<search, fwd, reused>>
    PROVE  OwnInv'
BY QuietOwn DEF search

LEMMA HearDisconnectOwn ==
    ASSUME ConnInv, OwnInv, NEW e \in End, HearDisconnect(e) PROVE OwnInv'
<1>1. chan \in Queues /\ chan[e] # <<>> /\ chan' = Consumed(e) /\ listens' \subseteq listens
      /\ UNCHANGED <<search, fwd, reused>>
  BY DEF HearDisconnect, Receives, ListenerEnds, ConnInv, TypeOK
<1>2. \A r \in End : \A m : On(chan'[r], m) => On(chan[r], m)
  BY <1>1, OnConsumed
<1>. QED  BY <1>1, <1>2, TakesOwn

LEMMA HearResetOwn ==
    ASSUME ConnInv, OwnInv, NEW e \in End, HearReset(e) PROVE OwnInv'
BY TakesOwn DEF HearReset, ListenerEnds

LEMMA MonitorFreesOwn ==
    ASSUME ConnInv, OwnInv, NEW e \in End, MonitorFrees(e) PROVE OwnInv'
BY TakesOwn DEF MonitorFrees

LEMMA WakeOwn == ASSUME ConnInv, OwnInv, Wake PROVE OwnInv'
<1>1. /\ created' = [created EXCEPT ![counter].status = IF @ = "ACTIVE" THEN "FAILED" ELSE @]
      /\ UNCHANGED <<conns, counter, chan, fwd, reused>>
  BY DEF Wake
<1>2. counter \in Sid /\ created[counter] \in Searches
  BY DEF Wake, ConnInv, TypeOK, Sleeping
<1>3. PICK x \in Searches : /\ created' = [created EXCEPT ![counter] = x]
                            /\ x.word = created[counter].word /\ x.hits = created[counter].hits
  <2>. DEFINE c == created[counter]
              x == [c EXCEPT !.status = IF c.status = "ACTIVE" THEN "FAILED" ELSE c.status]
  <2>1. x \in Searches /\ x.word = c.word /\ x.hits = c.hits
    BY <1>2 DEF Searches
  <2>2. created' = [created EXCEPT ![counter] = x]
    BY <1>1
  <2>. HIDE DEF x
  <2>. QED  BY <2>1, <2>2
<1>4. x # NoEntry /\ created[counter] # NoEntry
  BY <1>2, NoEntryAssumption
<1>5. \A s \in Sid :
        /\ created'[s] = NoEntry <=> created[s] = NoEntry
        /\ created[s] # NoEntry => /\ created'[s].word = created[s].word
                                   /\ created'[s].hits = created[s].hits
  BY <1>3, <1>4 DEF ConnInv, TypeOK
<1>. QED  BY <1>1, <1>5, QuietOwn DEF conns

LEMMA AttemptKeeps == ASSUME ConnInv, OwnInv, NEW w \in Word, Attempt(w) PROVE OwnInv'
<1>1. IdsInOrder'
  BY DEF Attempt, OwnInv, IdsInOrder, ConnInv, TypeOK, Sid
<1>2. ASSUME ~reused'
      PROVE  ListsOwn' /\ (\E good \in SUBSET (Node \X Sid) : Traced(good))'
  <2>1. ~reused /\ IdsInOrder /\ ListsOwn
    BY <1>2 DEF Attempt, OwnInv
  <2>2. PICK good \in SUBSET (Node \X Sid) : Traced(good)
    BY <2>1 DEF OwnInv
  <2>. QED  BY <2>1, <2>2, AttemptOwn
<1>. QED  BY <1>1, <1>2 DEF OwnInv

LEMMA RelayComesKeeps ==
    ASSUME ConnInv, OwnInv,
           NEW e \in listens, NEW s \in Sid, NEW w \in Word, NEW b \in BOOLEAN,
           NEW E \in SUBSET End, NEW msg \in Message, chan[e] # <<>>,
           Head(chan[e]) = Request(s, w), ~Known(e[1], s),
           \/ E = {e} /\ \E hits : msg = Response(s, hits) /\ \A hit \in hits : hit[2] = w
           \/ E = ForwardTo(e) /\ msg = Request(s, w),
           chan' = SendOn(Consumed(e), E, msg),
           fwd' = [fwd EXCEPT ![e[1]][s] = Relay(e, b)],
           UNCHANGED <<alive, life, conns, search, used, reused>>
    PROVE  OwnInv'
<1>1. IdsInOrder'
  BY DEF OwnInv, IdsInOrder, search
<1>2. ASSUME ~reused'
      PROVE  ListsOwn' /\ (\E good \in SUBSET (Node \X Sid) : Traced(good))'
  <2>1. ~reused /\ ListsOwn
    BY <1>2 DEF OwnInv
  <2>2. PICK good \in SUBSET (Node \X Sid) : Traced(good)
    BY <2>1 DEF OwnInv
  <2>3. \E good2 \in SUBSET (Node \X Sid) : Traced(good2)'
    BY <2>1, <2>2, RelayComesOwn
  <2>4. ListsOwn'
    BY <2>1 DEF ListsOwn, search
  <2>. QED  BY <2>3, <2>4
<1>. QED  BY <1>1, <1>2 DEF OwnInv

LEMMA ReqAnsweredOwn == ASSUME ConnInv, OwnInv, NEW e \in End, ReqAnswered(e) PROVE OwnInv'
<1>1. PICK s \in Sid, w \in Word :
         /\ e \in listens /\ chan[e] # <<>>
         /\ s = Head(chan[e]).sid /\ w = Head(chan[e]).word /\ Head(chan[e]) = Request(s, w)
  BY ReadMessage DEF ReqAnswered
<1>2. PICK hits : hits = {<<e[1], w>>} \cap (Node \X Holds[e[1]])
  OBVIOUS
<1>3. hits \in SUBSET Hit /\ \A hit \in hits : hit[2] = w
  BY <1>1, <1>2, EndParts DEF Hit
<1>4. PICK msg \in Message : msg = Response(s, hits)
  BY <1>3, MessageTypes
<1>5. /\ chan' = SendOn(Consumed(e), {e}, msg)
      /\ fwd' = [fwd EXCEPT ![e[1]][s] = Relay(e, FALSE)] /\ ~Known(e[1], s)
      /\ UNCHANGED <<alive, life, conns, search, used, reused>>
  BY <1>1, <1>2, <1>4 DEF ReqAnswered
<1>6. {e} \in SUBSET End /\ FALSE \in BOOLEAN
      /\ \E h : msg = Response(s, h) /\ \A hit \in h : hit[2] = w
  BY <1>3, <1>4
<1>. QED  BY <1>1, <1>5, <1>6, RelayComesKeeps

LEMMA ReqForwardOwn == ASSUME ConnInv, OwnInv, NEW e \in End, ReqForward(e) PROVE OwnInv'
<1>1. PICK s \in Sid, w \in Word :
         /\ e \in listens /\ chan[e] # <<>> /\ Head(chan[e]) \in Message
         /\ s = Head(chan[e]).sid /\ w = Head(chan[e]).word /\ Head(chan[e]) = Request(s, w)
  BY ReadMessage DEF ReqForward
<1>2. PICK msg \in Message : msg = Request(s, w)
  BY <1>1
<1>3. /\ chan' = SendOn(Consumed(e), ForwardTo(e), msg)
      /\ fwd' = [fwd EXCEPT ![e[1]][s] = Relay(e, TRUE)] /\ ~Known(e[1], s)
      /\ UNCHANGED <<alive, life, conns, search, used, reused>>
  BY <1>1, <1>2 DEF ReqForward
<1>4. PICK E \in SUBSET End : E = ForwardTo(e)
  BY DEF ConnInv, TypeOK, ForwardTo, ConnectedPeers
<1>5. chan' = SendOn(Consumed(e), E, msg) /\ TRUE \in BOOLEAN
  BY <1>3, <1>4
<1>. QED  BY <1>1, <1>2, <1>3, <1>4, <1>5, RelayComesKeeps

\* A reply for a relay, and what the relay then says.
LEMMA RespRelayedOwn == ASSUME ConnInv, OwnInv, NEW e \in End, RespRelayed(e) PROVE OwnInv'
<1>1. PICK n \in Node, s \in Sid, more \in SUBSET Hit, old \in Relays, new \in Relays :
         /\ n = e[1] /\ s = Head(chan[e]).sid /\ more = Head(chan[e]).hits
         /\ old = fwd[n][s] /\ new = fwd'[n][s]
  BY RelayedEntry, ReadMessage DEF RespRelayed
<1>2. /\ \A m \in Node, t \in Sid : ~(m = n /\ t = s) => fwd'[m][t] = fwd[m][t]
      /\ new.upstream = old.upstream /\ new.hits = old.hits \cup more
      /\ chan' = IF new.received = new.needed
                 THEN SendOn(Consumed(e), {old.upstream} \cap listed, Response(s, new.hits))
                 ELSE Consumed(e)
  BY <1>1, RelayedEntry
<1>3. old # NoEntry /\ new # NoEntry
  BY NoEntryAssumption
<1>4. e \in listens /\ chan[e] # <<>> /\ On(chan[e], Response(s, more)) /\ chan \in Queues
      /\ Receives(e, "RESP")
  BY <1>1, ReadMessage DEF RespRelayed, ConnInv, TypeOK
<1>5. UNCHANGED <<alive, life, conns, search, used, reused>>
  BY DEF RespRelayed
<1>6. PICK E \in SUBSET End : E = {old.upstream} \cap listed
  BY DEF ConnInv, TypeOK
<1>7. new.hits \in SUBSET Hit
  BY DEF Relays
<1>8. PICK msg \in Message : msg = Response(s, new.hits)
  BY <1>7, MessageTypes
<1>9. \A r \in End : \A m : On(chan'[r], m) => On(chan[r], m) \/ (Reaches(E, r) /\ m = msg)
  <2>1. CASE new.received = new.needed
    <3>1. chan' = SendOn(Consumed(e), E, msg)
      BY <1>2, <1>6, <1>8, <2>1
    <3>2. PassedOn(e, E, msg)
      BY <1>4, <3>1, OnAnswered
    <3>. QED  BY <3>2 DEF PassedOn
  <2>2. CASE new.received # new.needed
    BY <1>2, <1>4, <2>2, OnConsumed
  <2>. QED  BY <2>1, <2>2
<1>10. IdsInOrder'
  BY <1>5 DEF OwnInv, IdsInOrder, search
<1>11. ASSUME ~reused' PROVE ListsOwn' /\ (\E good \in SUBSET (Node \X Sid) : Traced(good))'
  <2>1. ~reused /\ ListsOwn
    BY <1>5, <1>11 DEF OwnInv
  <2>2. PICK good \in SUBSET (Node \X Sid) : Traced(good)
    BY <2>1 DEF OwnInv
  <2>3. ListsOwn'
    BY <1>5, <2>1 DEF ListsOwn, search
  <2>4. \A m \in Node, t \in Sid : Known(m, t)' <=> Known(m, t)
    BY <1>1, <1>2, <1>3 DEF Known
  <2>5. listens' = listens /\ created' = created
    BY <1>5 DEF conns, search
  <2>6. \A m, t : Created(m, t)' <=> Created(m, t)
    BY <2>5 DEF Created
  <2>7. ASSUME NEW m \in Node, NEW t \in Sid
        PROVE  (Asked(m, t)' <=> Asked(m, t)) /\ (Own(good, m, t)' <=> Own(good, m, t))
    BY <2>4, <2>6 DEF Asked, Own
  <2>8. \A r \in listens : r \in End /\ Other(r) \in End /\ Other(Other(r)) = r /\ r[1] \in Node
    BY EndParts DEF ConnInv, TypeOK, Listening
  <2>9. Follows(good, good)
    BY <2>5, <2>7, <2>8 DEF Follows
  <2>10. HitsOwn(good)'
    <3>1. ASSUME <<n, s>> \in good
          PROVE  created[s] # NoEntry /\ \A hit \in new.hits : hit[2] = created[s].word
      <4>1. created[s] # NoEntry /\ \A hit \in old.hits : hit[2] = created[s].word
        BY <1>1, <1>3, <2>2, <3>1 DEF Traced, HitsOwn
      <4>2. Own(good, n, s)
        BY <1>1, <1>3, <3>1 DEF Own, Known
      <4>3. \A hit \in more : hit[2] = created[s].word
        BY <1>1, <1>4, <2>2, <4>2 DEF Traced, ResponsesOwn
      <4>. QED  BY <1>2, <4>1, <4>3
    <3>2. ASSUME NEW m \in Node, NEW t \in Sid, <<m, t>> \in good, fwd'[m][t] # NoEntry
          PROVE  created[t] # NoEntry /\ \A hit \in fwd'[m][t].hits : hit[2] = created[t].word
      <4>1. CASE m = n /\ t = s
        BY <1>1, <3>1, <3>2, <4>1
      <4>2. CASE ~(m = n /\ t = s)
        BY <1>2, <2>2, <3>2, <4>2 DEF Traced, HitsOwn
      <4>. QED  BY <4>1, <4>2
    <3>. QED  BY <2>5, <3>2 DEF HitsOwn
  <2>11. RequestsOwn(good)'
    <3>1. ASSUME NEW r \in listens, NEW t \in Sid, NEW v \in Word, On(chan'[Other(r)], Request(t, v))
          PROVE  Asked(r[1], t)' /\ (Own(good, r[1], t)' => created'[t].word = v)
      <4>1. On(chan[Other(r)], Request(t, v))
        BY <1>8, <1>9, <2>8, <3>1, RequestParts
      <4>. QED  BY <2>2, <2>5, <2>9, <4>1, OldRight
    <3>. QED  BY <2>5, <3>1 DEF RequestsOwn
  <2>12. RelaysGood(good)'
    <3>1. ASSUME NEW r \in listens, NEW m \in Node, NEW t \in Sid,
                 fwd'[m][t] # NoEntry, fwd'[m][t].upstream = Other(r)
          PROVE  Asked(r[1], t)' /\ (Own(good, r[1], t)' => <<m, t>> \in good)
      <4>1. fwd[m][t] # NoEntry /\ fwd[m][t].upstream = Other(r)
        BY <1>1, <1>2, <1>3, <3>1
      <4>. QED  BY <2>2, <2>5, <2>9, <4>1, OldRight
    <3>. QED  BY <2>5, <3>1 DEF RelaysGood
  <2>13. ResponsesOwn(good)'
    <3>1. ASSUME NEW r \in listens, NEW t \in Sid, NEW hits \in SUBSET Hit,
                 On(chan'[r], Response(t, hits)), hits # {}
          PROVE  /\ Asked(r[1], t)'
                 /\ Own(good, r[1], t)' => \A hit \in hits : hit[2] = created'[t].word
      <4>1. CASE On(chan[r], Response(t, hits))
        BY <2>2, <2>5, <2>9, <3>1, <4>1, OldRight
      <4>2. CASE Reaches(E, r) /\ Response(t, hits) = msg
        <5>1. Other(r) \in E /\ t = s /\ hits = new.hits
          BY <1>8, <2>1, <2>8, <4>2, ReachesOther, ResponseParts
        <5>2. fwd[n][s] # NoEntry /\ fwd[n][s].upstream = Other(r)
          BY <1>1, <1>3, <1>6, <5>1
        <5>3. Asked(r[1], s)' /\ (Own(good, r[1], s)' => <<n, s>> \in good)
          BY <2>2, <2>5, <2>9, <5>2, OldRight
        <5>4. <<n, s>> \in good => \A hit \in new.hits : hit[2] = created'[s].word
          BY <1>1, <1>3, <2>10 DEF HitsOwn
        <5>. QED  BY <5>1, <5>3, <5>4
      <4>. QED  BY <1>9, <2>8, <3>1, <4>1, <4>2
    <3>. QED  BY <2>5, <3>1 DEF ResponsesOwn
  <2>14. Traced(good)'
    BY <2>10, <2>11, <2>12, <2>13 DEF Traced
  <2>. QED  BY <2>3, <2>14
<1>. QED  BY <1>10, <1>11 DEF OwnInv

LEMMA RespToCreatorOwn == ASSUME ConnInv, OwnInv, NEW e \in End, RespToCreator(e) PROVE OwnInv'
<1>1. PICK s \in Sid, more \in SUBSET Hit :
         /\ e \in listens /\ chan[e] # <<>> /\ s = Head(chan[e]).sid /\ more = Head(chan[e]).hits
         /\ On(chan[e], Response(s, more))
  BY ReadMessage DEF RespToCreator
<1>2. /\ ~Known(e[1], s) /\ chan' = Consumed(e)
      /\ UNCHANGED <<alive, life, conns, pc, counter, fwd, used, reused>>
  BY <1>1 DEF RespToCreator
<1>3. \A r \in End : \A m : On(chan'[r], m) => On(chan[r], m)
  BY <1>1, <1>2, OnConsumed DEF ConnInv, TypeOK
<1>4. CASE created' = created
  BY <1>2, <1>3, <1>4, QuietOwn DEF conns
<1>5. CASE created' # created
  <2>. DEFINE c == created[s]
              x == [c EXCEPT !.status = IF more # {} THEN "SUCCESS" ELSE @, !.hits = @ \cup more]
  <2>1. e[1] = Searcher /\ c # NoEntry /\ created' = [created EXCEPT ![s] = x]
    BY <1>1, <1>5 DEF RespToCreator
  <2>2. c \in Searches
    BY <2>1 DEF ConnInv, TypeOK
  <2>3. x \in Searches /\ x.word = c.word /\ x.hits = c.hits \cup more
    BY <2>2 DEF Searches
  <2>4. x # NoEntry
    <3>. HIDE DEF x
    <3>. QED  BY <2>3, NoEntryAssumption
  <2>5. \A t \in Sid : created'[t] = IF t = s THEN x ELSE created[t]
    BY <2>1 DEF ConnInv, TypeOK
  <2>. HIDE DEF x
  <2>6. IdsInOrder'
    BY <1>2, <2>1, <2>5 DEF OwnInv, IdsInOrder
  <2>7. ASSUME ~reused'
        PROVE  ListsOwn' /\ (\E good \in SUBSET (Node \X Sid) : Traced(good))'
    <3>1. ~reused /\ ListsOwn
      BY <1>2, <2>7 DEF OwnInv
    <3>2. PICK good \in SUBSET (Node \X Sid) : Traced(good)
      BY <3>1 DEF OwnInv
    <3>3. Own(good, e[1], s)
      BY <1>2, <2>1 DEF Own, Created
    <3>4. \A hit \in more : hit[2] = c.word
      BY <1>1, <3>2, <3>3 DEF Traced, ResponsesOwn
    <3>5. ListsOwn'
      BY <2>1, <2>3, <2>5, <3>1, <3>4 DEF ListsOwn
    <3>6. /\ listens' = listens /\ fwd' = fwd
          /\ \A t \in Sid :
              /\ created'[t] = NoEntry <=> created[t] = NoEntry
              /\ created[t] # NoEntry => created'[t].word = created[t].word
      BY <1>2, <2>1, <2>3, <2>4, <2>5 DEF conns
    <3>7. Traced(good)'
      BY <1>3, <3>2, <3>6, TraceStays
    <3>. QED  BY <3>5, <3>7
  <2>. QED  BY <2>6, <2>7 DEF OwnInv
<1>. QED  BY <1>4, <1>5

\* A process that ends: a relay, or the searching node, which forgets its searches.
LEMMA EndsOwn ==
    ASSUME ConnInv, OwnInv, NEW n \in Node, NEW ch \in Queues, Ends(n, ch),
           \A r \in End : \A m : m.type # "DISCONNECT" => (On(ch[r], m) <=> On(chan[r], m))
    PROVE  OwnInv'
<1>1. /\ UNCHANGED <<life, reused>> /\ listens' = listens \ EndsOf(n)
      /\ chan' = [e \in End |-> IF e \in EndsOf(n) THEN <<>> ELSE ch[e]]
      /\ fwd' = [fwd EXCEPT ![n] = NoSearches]
  BY DEF Ends
<1>2. \A m : ~On(<<>>, m)
  BY DEF On
<1>3. /\ \A s \in Sid, w \in Word : Request(s, w).type # "DISCONNECT"
      /\ \A s \in Sid, hits \in SUBSET Hit : Response(s, hits).type # "DISCONNECT"
  BY DEF Request, Response
<1>4. /\ \A r \in End, s \in Sid : \A w \in Word :
            On(chan'[r], Request(s, w)) => On(chan[r], Request(s, w))
      /\ \A r \in End, s \in Sid : \A hits \in SUBSET Hit :
            On(chan'[r], Response(s, hits)) => On(chan[r], Response(s, hits))
  BY <1>1, <1>2, <1>3
<1>5. \A r \in listens : r \in End /\ r[1] \in Node /\ Other(r) \in End
  BY EndParts DEF ConnInv, TypeOK, Listening
<1>6. \A r \in listens' : r \in listens /\ r[1] # n
  BY <1>1, <1>5 DEF EndsOf
<1>7. \A m \in Node, s \in Sid : fwd'[m][s] = IF m = n THEN NoEntry ELSE fwd[m][s]
  BY <1>1 DEF ConnInv, TypeOK, NoSearches
<1>8. CASE n # Searcher
  <2>1. /\ UNCHANGED <<pc, counter>>
        /\ created' = [s \in Sid |-> IF created[s] = NoEntry THEN NoEntry
                                     ELSE [created[s] EXCEPT !.calm = FALSE]]
    BY <1>8 DEF Ends
  <2>2. ASSUME NEW s \in Sid
        PROVE  /\ created'[s] = NoEntry <=> created[s] = NoEntry
               /\ created[s] # NoEntry => /\ created'[s].word = created[s].word
                                          /\ created'[s].hits = created[s].hits
    <3>1. CASE created[s] = NoEntry
      BY <2>1, <3>1
    <3>2. CASE created[s] # NoEntry
      <4>1. created[s] \in Searches
        BY <3>2 DEF ConnInv, TypeOK
      <4>2. PICK x \in Searches : /\ created'[s] = x
                                  /\ x.word = created[s].word /\ x.hits = created[s].hits
        <5>1. created'[s] = [created[s] EXCEPT !.calm = FALSE]
          BY <2>1, <3>2
        <5>. QED  BY <4>1, <5>1 DEF Searches
      <4>3. x # NoEntry
        BY NoEntryAssumption
      <4>. QED  BY <3>2, <4>2, <4>3
    <3>. QED  BY <3>1, <3>2
  <2>. QED  BY <1>1, <1>4, <1>6, <1>7, <2>1, <2>2, QuietOwn
<1>9. CASE n = Searcher
  <2>1. created' = NoSearches
    BY <1>9 DEF Ends
  <2>2. IdsInOrder' /\ ListsOwn'
    BY <2>1 DEF IdsInOrder, ListsOwn, NoSearches
  <2>3. ASSUME ~reused' PROVE (\E good \in SUBSET (Node \X Sid) : Traced(good))'
    <3>1. PICK good \in SUBSET (Node \X Sid) : Traced(good)
      BY <1>1, <2>3 DEF OwnInv
    <3>2. PICK none \in SUBSET (Node \X Sid) : none = {}
      OBVIOUS
    <3>3. ASSUME NEW r \in listens', NEW s \in Sid
          PROVE  ~Own(none, r[1], s)' /\ (Asked(r[1], s) => Asked(r[1], s)')
      <4>1. ~Created(r[1], s)' /\ ~Created(r[1], s)
        BY <1>6, <1>9 DEF Created
      <4>2. Known(r[1], s) <=> Known(r[1], s)'
        BY <1>5, <1>6, <1>7 DEF Known
      <4>. QED  BY <3>2, <4>1, <4>2 DEF Own, Asked
    <3>4. RequestsOwn(none)'
      BY <1>4, <1>5, <1>6, <3>1, <3>3 DEF RequestsOwn, Traced
    <3>5. RelaysGood(none)'
      BY <1>6, <1>7, <3>1, <3>3 DEF RelaysGood, Traced
    <3>6. ResponsesOwn(none)'
      BY <1>4, <1>5, <1>6, <3>1, <3>3 DEF ResponsesOwn, Traced
    <3>7. HitsOwn(none)'
      BY <3>2 DEF HitsOwn
    <3>. QED  BY <3>4, <3>5, <3>6, <3>7 DEF Traced
  <2>. QED  BY <2>2, <2>3 DEF OwnInv
<1>. QED  BY <1>8, <1>9

LEMMA LeaveOwn == ASSUME ConnInv, OwnInv, NEW n \in Node, Leave(n) PROVE OwnInv'
BY LeaveSends, EndsOwn DEF Leave

LEMMA DiesOwn == ASSUME ConnInv, OwnInv, NEW n \in Node, Dies(n) PROVE OwnInv'
BY EndsOwn DEF Dies, ConnInv, TypeOK

\* Nobody has a relay for the new connection, and nothing is on it.
LEMMA RestartOwn == ASSUME ConnInv, OwnInv, Restart PROVE OwnInv'
<1>1. PICK out \in End, in \in End :
        /\ out = Other(in) /\ in = Other(out) /\ out[3] = life + 1 /\ in[3] = life + 1
        /\ chan[out] = <<>> /\ chan[in] = <<>> /\ listens' = listens \cup {out, in}
        /\ (reused => reused') /\ (~reused' => fwd' = fwd)
        /\ UNCHANGED <<chan, search, used>>
  BY RestartMakes, EndParts
<1>2. \A m : ~On(<<>>, m)
  BY DEF On
<1>3. \A n \in Node, s \in Sid : fwd[n][s] # NoEntry =>
         fwd[n][s].upstream # out /\ fwd[n][s].upstream # in
  BY <1>1 DEF ConnInv, TypeOK, RelaysOwn
<1>4. IdsInOrder'
  BY <1>1 DEF OwnInv, IdsInOrder, search
<1>5. ASSUME ~reused' PROVE ListsOwn' /\ (\E good \in SUBSET (Node \X Sid) : Traced(good))'
  <2>1. ~reused /\ ListsOwn /\ fwd' = fwd
    BY <1>1, <1>5 DEF OwnInv
  <2>2. PICK good \in SUBSET (Node \X Sid) : Traced(good)
    BY <2>1 DEF OwnInv
  <2>3. ListsOwn'
    BY <1>1, <2>1 DEF ListsOwn, search
  <2>4. \A n, s : /\ Known(n, s)' <=> Known(n, s)
                  /\ Created(n, s)' <=> Created(n, s)
    BY <1>1, <2>1 DEF Known, Created, search
  <2>5. \A n, s : /\ Asked(n, s)' <=> Asked(n, s)
                  /\ Own(good, n, s)' <=> Own(good, n, s)
    BY <2>4 DEF Asked, Own
  <2>6. \A r \in listens' : r \in listens \/ r = out \/ r = in
    BY <1>1
  <2>7. RequestsOwn(good)'
    BY <1>1, <2>1, <1>2, <2>2, <2>5, <2>6 DEF RequestsOwn, Traced, search
  <2>8. RelaysGood(good)'
    BY <1>1, <2>1, <1>3, <2>2, <2>5, <2>6 DEF RelaysGood, Traced
  <2>9. ResponsesOwn(good)'
    BY <1>1, <2>1, <1>2, <2>2, <2>5, <2>6 DEF ResponsesOwn, Traced, search
  <2>10. HitsOwn(good)'
    BY <1>1, <2>1, <2>2 DEF HitsOwn, Traced, search
  <2>. QED  BY <2>3, <2>7, <2>8, <2>9, <2>10 DEF Traced
<1>. QED  BY <1>4, <1>5 DEF OwnInv

LEMMA OwnStep == ConnInv /\ OwnInv /\ [Next]_vars => OwnInv'
<1>. SUFFICES ASSUME ConnInv, OwnInv, [Next]_vars PROVE OwnInv'
  OBVIOUS
<1>1. ASSUME NEW e \in End, Listener(e) PROVE OwnInv'
  BY <1>1, ReqProcessedOwn, ReqAnsweredOwn, ReqForwardOwn, RespRelayedOwn,
     RespToCreatorOwn, HearDisconnectOwn, HearResetOwn,
     DyingSteps, DiesOwn DEF Listener
<1>2. CASE UNCHANGED vars
  BY <1>2, TakesOwn DEF vars, conns
<1>. QED
  BY <1>1, <1>2, AttemptKeeps, WakeOwn, RestartOwn, MonitorFreesOwn, LeaveOwn,
     DyingSteps, DiesOwn
     DEF Next

\* common.h:160: although the ids start again with each life of the searching node, what
\* its user is shown are answers to this search, whoever left, crashed or came back,
\* as long as neither a descriptor nor the memory of a relay's upstream was given out
\* again.
THEOREM AnswersAreOwn == Spec => []AnswersOwn
<1>1. OwnInv => AnswersOwn
  BY DEF OwnInv, AnswersOwn, ListsOwn
<1>. QED  BY <1>1, OwnInit, OwnStep, ConnHolds, PTL DEF Spec

----------------------------------------------------------------------------
(* Who a waiting relay waits for.  It has at least as many debtors as replies *)
(* to come: of the peers that it asked, those that are lost, those that have  *)
(* not read the request, those whose reply is not read, and those that wait   *)
(* themselves, with this peer as their upstream.                             *)

Owes(e, s) ==
    \/ Lost(e)
    \/ \E w \in Word : On(chan[Other(e)], Request(s, w))
    \/ \E hits \in SUBSET Hit : On(chan[e], Response(s, hits))
    \/ Waiting(e[2], s) /\ fwd[e[2]][s].upstream = Other(e)

Debtors(n, s) == {e \in fwd[n][s].asked : Owes(e, s)}

Counts(n, s) == Waiting(n, s) =>
    /\ fwd[n][s].received < fwd[n][s].needed
    /\ fwd[n][s].needed - fwd[n][s].received <= Cardinality(Debtors(n, s))

WaitInv == \A n \in Node, s \in Sid : Counts(n, s)

LEMMA WaitInit == Init => WaitInv
BY DEF Init, NoSearches, WaitInv, Counts, Waiting

LEMMA DebtorsFinite ==
    ASSUME ConnInv, NEW n \in Node, NEW s \in Sid, fwd[n][s] # NoEntry
    PROVE  /\ fwd[n][s] \in Relays /\ fwd[n][s].asked \in SUBSET End
           /\ \A D \in SUBSET fwd[n][s].asked : IsFiniteSet(D) /\ Cardinality(D) \in Nat
<1>1. fwd[n][s] \in Relays
  BY DEF ConnInv, TypeOK
<1>2. fwd[n][s].asked \in SUBSET End
  BY <1>1 DEF Relays
<1>3. \A D \in SUBSET fwd[n][s].asked : D \in SUBSET End
  BY <1>2
<1>4. \A D \in SUBSET fwd[n][s].asked : IsFiniteSet(D) /\ Cardinality(D) \in Nat
  BY <1>3, EndFinite, FS_Subset, FS_CardinalityType
<1>. QED  BY <1>1, <1>2, <1>4

\* A relay that did not change, and whose debtors are debtors still.
LEMMA CountKept ==
    ASSUME ConnInv, ConnInv', NEW n \in Node, NEW s \in Sid, Counts(n, s),
           fwd'[n][s] # NoEntry => fwd[n][s] # NoEntry,
           fwd'[n][s].received = fwd[n][s].received, fwd'[n][s].needed = fwd[n][s].needed,
           fwd'[n][s].waiting = fwd[n][s].waiting, fwd'[n][s].asked = fwd[n][s].asked,
           \A e \in End : Waiting(n, s) /\ e[1] = n /\ e[3] <= life /\ Owes(e, s) => Owes(e, s)'
    PROVE  Counts(n, s)'
<1>. SUFFICES ASSUME Waiting(n, s)'
              PROVE  /\ fwd'[n][s].received < fwd'[n][s].needed
                     /\ fwd'[n][s].needed - fwd'[n][s].received <= Cardinality(Debtors(n, s))'
  BY DEF Counts
<1>1. Waiting(n, s) /\ fwd[n][s] # NoEntry
  BY DEF Waiting
<1>2. PICK old \in Relays : old = fwd[n][s]
  BY <1>1, DebtorsFinite
<1>3. PICK D : D = Debtors(n, s)
  OBVIOUS
<1>4. PICK D2 : D2 = Debtors(n, s)'
  OBVIOUS
<1>5. D \subseteq D2 /\ D2 \subseteq fwd[n][s].asked /\ D \subseteq fwd[n][s].asked
  <2>1. D2 = {e \in fwd[n][s].asked : Owes(e, s)'}
    BY <1>4 DEF Debtors
  <2>2. D = {e \in fwd[n][s].asked : Owes(e, s)}
    BY <1>3 DEF Debtors
  <2>3. \A e \in fwd[n][s].asked : e \in End /\ e[1] = n /\ e[3] <= life
    BY <1>1, DebtorsFinite DEF ConnInv, RelaysOwn
  <2>. QED  BY <1>1, <2>1, <2>2, <2>3
<1>6. IsFiniteSet(D2) /\ Cardinality(D2) \in Nat /\ Cardinality(D) \in Nat
  BY <1>1, <1>5, DebtorsFinite
<1>7. Cardinality(D) <= Cardinality(D2)
  BY <1>5, <1>6, FS_Subset
<1>8. old.received < old.needed /\ old.needed - old.received <= Cardinality(D)
  BY <1>1, <1>2, <1>3 DEF Counts
<1>9. Cardinality(Debtors(n, s))' = Cardinality(D2)
  BY <1>4
<1>10. old.received \in Nat /\ old.needed \in Nat
  BY <1>2 DEF Relays
<1>. QED  BY <1>2, <1>6, <1>7, <1>8, <1>9, <1>10

\* Whoever is not lost hears, and is heard.
LEMMA NotLost ==
    ASSUME ConnInv, NEW e \in End, ~Lost(e)
    PROVE  /\ e \in listens /\ Other(e) \in listens
           /\ \A E \in SUBSET End : /\ Other(e) \in E => Reaches(E, e)
                                    /\ e \in E => Reaches(E, Other(e))
<1>1. e \in listed \cap connected /\ Other(e) \in listens
  BY DEF Lost
<1>2. e \in listens
  BY <1>1 DEF ConnInv, BothListen
<1>3. /\ sock[e] = e /\ sock[Other(e)] = Other(e) /\ e \in connected /\ Other(e) \in connected
      /\ Other(e) \in End /\ Other(Other(e)) = e
  BY <1>1, <1>2, EndParts DEF ConnInv, Listening
<1>4. e # NoEntry /\ Other(e) # NoEntry
  BY <1>3, NoEntryAssumption
<1>. QED  BY <1>1, <1>2, <1>3, <1>4 DEF Reaches

\* What is not read now is there later, and whoever is lost stays so.
LEMMA OwesStays ==
    ASSUME NEW e \in End, NEW s \in Sid, Owes(e, s), Lost(e) => Lost(e)',
           \A w \in Word : On(chan[Other(e)], Request(s, w)) =>
               On(chan'[Other(e)], Request(s, w)) \/ Owes(e, s)',
           \A hits \in SUBSET Hit : On(chan[e], Response(s, hits)) =>
               On(chan'[e], Response(s, hits)) \/ Owes(e, s)',
           Waiting(e[2], s) /\ fwd[e[2]][s].upstream = Other(e) =>
               (Waiting(e[2], s)' /\ fwd'[e[2]][s].upstream = Other(e)) \/ Owes(e, s)'
    PROVE  Owes(e, s)'
<1>1. CASE Lost(e)
  BY <1>1 DEF Owes
<1>2. CASE \E w \in Word : On(chan[Other(e)], Request(s, w))
  BY <1>2 DEF Owes
<1>3. CASE \E hits \in SUBSET Hit : On(chan[e], Response(s, hits))
  BY <1>3 DEF Owes
<1>4. CASE Waiting(e[2], s) /\ fwd[e[2]][s].upstream = Other(e)
  BY <1>4 DEF Owes
<1>. QED  BY <1>1, <1>2, <1>3, <1>4 DEF Owes

LEMMA LostStays ==
    ASSUME listed' \subseteq listed, connected' \subseteq connected, listens' \subseteq listens
    PROVE  \A e : Lost(e) => Lost(e)'
BY DEF Lost

\* Steps that read no request and no reply, and change no relay.
LEMMA QuietWait ==
    ASSUME ConnInv, ConnInv', WaitInv, fwd' = fwd,
           listed' \subseteq listed, connected' \subseteq connected, listens' \subseteq listens,
           \A r \in End, s \in Sid :
              /\ \A w \in Word : On(chan[r], Request(s, w)) => On(chan'[r], Request(s, w))
              /\ \A hits \in SUBSET Hit :
                    On(chan[r], Response(s, hits)) => On(chan'[r], Response(s, hits))
    PROVE  WaitInv'
<1>1. ASSUME NEW n \in Node, NEW s \in Sid PROVE Counts(n, s)'
  <2>1. ASSUME NEW e \in End, Owes(e, s) PROVE Owes(e, s)'
    <3>1. Lost(e) => Lost(e)'
      BY LostStays
    <3>2. Other(e) \in End
      BY EndParts
    <3>3. Waiting(e[2], s) => Waiting(e[2], s)'
      BY DEF Waiting
    <3>. QED  BY <2>1, <3>1, <3>2, <3>3, OwesStays
  <2>. QED  BY <2>1, CountKept DEF WaitInv
<1>. QED  BY <1>1 DEF WaitInv

LEMMA MessageNames ==
    /\ \A s, w : Request(s, w).type = "REQ"
    /\ \A s, hits : Response(s, hits).type = "RESP"
    /\ Disconnect.type = "DISCONNECT"
BY DEF Request, Response, Disconnect

LEMMA AttemptWait ==
    ASSUME ConnInv, ConnInv', WaitInv, NEW w \in Word, Attempt(w) PROVE WaitInv'
<1>1. PICK s \in Nat : s = counter + 1
  BY DEF ConnInv, TypeOK
<1>2. s \in Sid
  BY <1>1, ChurnAssumption DEF ConnInv, TypeOK, Attempt, Sid
<1>3. PICK msg \in Message : msg = Request(s, w)
  BY <1>2, MessageTypes
<1>4. PICK P \in SUBSET End : P = ConnectedPeers(Searcher)
  BY DEF ConnInv, TypeOK, ConnectedPeers
<1>5. chan' = SendOn(chan, P, msg) /\ UNCHANGED <<conns, fwd>> /\ chan \in Queues
  BY <1>1, <1>3, <1>4 DEF Attempt, ConnInv, TypeOK
<1>6. PICK next : next = SendOn(chan, P, msg)
  OBVIOUS
<1>7. \A r \in End : \A m : On(chan[r], m) => On(next[r], m)
  BY <1>5, <1>6, OnSent
<1>. QED  BY <1>5, <1>6, <1>7, QuietWait DEF conns

LEMMA WakeWait == ASSUME ConnInv, ConnInv', WaitInv, Wake PROVE WaitInv'
BY QuietWait DEF Wake, conns

LEMMA HearResetWait ==
    ASSUME ConnInv, ConnInv', WaitInv, NEW e \in End, HearReset(e) PROVE WaitInv'
BY QuietWait DEF HearReset, ListenerEnds

LEMMA MonitorFreesWait ==
    ASSUME ConnInv, ConnInv', WaitInv, NEW e \in End, MonitorFrees(e) PROVE WaitInv'
BY QuietWait DEF MonitorFrees

LEMMA HearDisconnectWait ==
    ASSUME ConnInv, ConnInv', WaitInv, NEW e \in End, HearDisconnect(e) PROVE WaitInv'
<1>1. /\ chan \in Queues /\ chan[e] # <<>> /\ Head(chan[e]).type = "DISCONNECT"
      /\ chan' = Consumed(e) /\ fwd' = fwd
      /\ listed' = listed /\ connected' \subseteq connected /\ listens' \subseteq listens
  BY DEF HearDisconnect, Receives, ListenerEnds, ConnInv, TypeOK
<1>2. \A r \in End : \A m : On(chan[r], m) => On(chan'[r], m) \/ (r = e /\ m = Head(chan[e]))
  BY <1>1, OnConsumed
<1>3. \A r \in End, s \in Sid :
         /\ \A w \in Word : On(chan[r], Request(s, w)) => On(chan'[r], Request(s, w))
         /\ \A hits \in SUBSET Hit :
               On(chan[r], Response(s, hits)) => On(chan'[r], Response(s, hits))
  BY <1>1, <1>2, MessageNames
<1>. QED  BY <1>1, <1>3, QuietWait

\* The creator of a search has no relay that could miss the reply.
LEMMA RespToCreatorWait ==
    ASSUME ConnInv, ConnInv', WaitInv, NEW e \in End, RespToCreator(e) PROVE WaitInv'
<1>1. PICK s \in Sid, more \in SUBSET Hit :
         /\ chan[e] # <<>> /\ s = Head(chan[e]).sid /\ Head(chan[e]) = Response(s, more)
  BY ReadMessage DEF RespToCreator
<1>2. /\ chan \in Queues /\ chan' = Consumed(e) /\ UNCHANGED <<conns, fwd>> /\ ~Known(e[1], s)
  BY <1>1 DEF RespToCreator, ConnInv, TypeOK
<1>3. \A r \in End : \A m : On(chan[r], m) => On(chan'[r], m) \/ (r = e /\ m = Head(chan[e]))
  BY <1>1, <1>2, OnConsumed
<1>4. ASSUME NEW n \in Node, NEW t \in Sid PROVE Counts(n, t)'
  <2>1. ASSUME NEW d \in End, Waiting(n, t), d[1] = n, Owes(d, t) PROVE Owes(d, t)'
    <3>1. Lost(d) => Lost(d)'
      BY <1>2 DEF Lost, conns
    <3>2. \A w \in Word : On(chan[Other(d)], Request(t, w)) => On(chan'[Other(d)], Request(t, w))
      BY <1>1, <1>3, EndParts, RequestParts
    <3>3. ~(d = e /\ t = s)
      BY <1>2, <2>1 DEF Known, Waiting
    <3>4. \A hits \in SUBSET Hit : On(chan[d], Response(t, hits)) => On(chan'[d], Response(t, hits))
      BY <1>1, <1>3, <3>3, ResponseParts
    <3>5. Waiting(d[2], t) => Waiting(d[2], t)'
      BY <1>2 DEF Waiting
    <3>. QED  BY <1>2, <2>1, <3>1, <3>2, <3>4, <3>5, OwesStays
  <2>. QED  BY <1>2, <2>1, CountKept DEF WaitInv
<1>. QED  BY <1>4 DEF WaitInv

\* The reply to a request gets to the node that sent it, which is a debtor no matter
\* what the answer.
LEMMA AnswerWait ==
    ASSUME ConnInv, ConnInv', WaitInv, NEW e \in listens, NEW s \in Sid, NEW w \in Word,
           NEW hits \in SUBSET Hit, chan[e] # <<>>, Head(chan[e]) = Request(s, w),
           chan' = SendOn(Consumed(e), {e}, Response(s, hits)), UNCHANGED conns,
           \A n \in Node, t \in Sid :
              fwd'[n][t] = fwd[n][t] \/ (fwd[n][t] = NoEntry /\ ~Waiting(n, t)')
    PROVE  WaitInv'
<1>1. PICK msg \in Message : msg = Response(s, hits)
  BY MessageTypes
<1>2. e \in End /\ chan \in Queues /\ {e} \in SUBSET End
  BY DEF ConnInv, TypeOK, Listening
<1>3. /\ \A r \in End : \A m : On(chan'[r], m) => On(chan[r], m) \/ (Reaches({e}, r) /\ m = msg)
      /\ \A r \in End : \A m :
            On(chan[r], m) => On(chan'[r], m) \/ (r = e /\ m = Head(chan[e]))
      /\ \A r \in End : Reaches({e}, r) => On(chan'[r], msg)
      /\ \A r \in End : r # e /\ ~Reaches({e}, r) => chan'[r] = chan[r]
  <2>1. chan' = SendOn(Consumed(e), {e}, msg)
    BY <1>1
  <2>2. PassedOn(e, {e}, msg)
    BY <1>2, <2>1, OnAnswered
  <2>. QED  BY <2>2 DEF PassedOn
<1>4. ASSUME NEW d \in End, NEW t \in Sid, Owes(d, t) PROVE Owes(d, t)'
  <2>1. Lost(d) => Lost(d)'
    BY DEF Lost, conns
  <2>2. Other(d) \in End /\ Other(Other(d)) = d /\ d[2] \in Node
    BY EndParts
  <2>3. ASSUME NEW v \in Word, On(chan[Other(d)], Request(t, v)), Other(d) = e,
               Request(t, v) = Head(chan[e])
        PROVE  Owes(d, t)'
    <3>1. t = s
      BY <2>3, RequestParts
    <3>2. CASE Lost(d)
      BY <2>1, <3>2 DEF Owes
    <3>3. CASE ~Lost(d)
      <4>1. Reaches({e}, d)
        BY <1>2, <2>3, <3>3, NotLost
      <4>2. On(chan'[d], Response(t, hits))
        BY <1>1, <1>3, <3>1, <4>1
      <4>. QED  BY <4>2 DEF Owes
    <3>. QED  BY <3>2, <3>3
  <2>4. \A v \in Word : On(chan[Other(d)], Request(t, v)) =>
           On(chan'[Other(d)], Request(t, v)) \/ Owes(d, t)'
    BY <1>3, <2>2, <2>3
  <2>5. \A h \in SUBSET Hit : On(chan[d], Response(t, h)) => On(chan'[d], Response(t, h))
    <3>1. \A h \in SUBSET Hit : Response(t, h) # Head(chan[e])
      BY RequestParts
    <3>. QED  BY <1>3, <3>1
  <2>6. Waiting(d[2], t) => Waiting(d[2], t)' /\ fwd'[d[2]][t] = fwd[d[2]][t]
    BY <2>2 DEF Waiting
  <2>. QED  BY <1>4, <2>1, <2>4, <2>5, <2>6, OwesStays
<1>5. ASSUME NEW n \in Node, NEW t \in Sid PROVE Counts(n, t)'
  <2>1. CASE fwd'[n][t] = fwd[n][t]
    BY <1>4, <2>1, CountKept DEF WaitInv
  <2>2. CASE ~Waiting(n, t)'
    BY <2>2 DEF Counts
  <2>. QED  BY <2>1, <2>2
<1>. QED  BY <1>5 DEF WaitInv

LEMMA ReqProcessedWait ==
    ASSUME ConnInv, ConnInv', WaitInv, NEW e \in End, ReqProcessed(e) PROVE WaitInv'
<1>1. PICK s \in Sid, w \in Word :
         /\ e \in listens /\ chan[e] # <<>>
         /\ s = Head(chan[e]).sid /\ Head(chan[e]) = Request(s, w)
  BY ReadMessage DEF ReqProcessed
<1>2. PICK none \in SUBSET Hit : none = {}
  OBVIOUS
<1>3. chan' = SendOn(Consumed(e), {e}, Response(s, none)) /\ UNCHANGED <<conns, fwd>>
  BY <1>1, <1>2 DEF ReqProcessed
<1>. QED  BY <1>1, <1>3, AnswerWait

LEMMA ReqAnsweredWait ==
    ASSUME ConnInv, ConnInv', WaitInv, NEW e \in End, ReqAnswered(e) PROVE WaitInv'
<1>1. PICK s \in Sid, w \in Word :
         /\ e \in listens /\ chan[e] # <<>> /\ e[1] \in Node
         /\ s = Head(chan[e]).sid /\ w = Head(chan[e]).word /\ Head(chan[e]) = Request(s, w)
  BY ReadMessage, EndParts DEF ReqAnswered
<1>2. PICK hits \in SUBSET Hit : hits = {<<e[1], w>>} \cap (Node \X Holds[e[1]])
  <2>1. {<<e[1], w>>} \cap (Node \X Holds[e[1]]) \in SUBSET Hit
    BY <1>1 DEF Hit
  <2>. QED  BY <2>1
<1>3. /\ chan' = SendOn(Consumed(e), {e}, Response(s, hits))
      /\ UNCHANGED conns
      /\ fwd' = [fwd EXCEPT ![e[1]][s] = Relay(e, FALSE)] /\ ~Known(e[1], s)
  BY <1>1, <1>2 DEF ReqAnswered
<1>4. Relay(e, FALSE).waiting = FALSE
  BY <1>1, RelayType
<1>5. ASSUME NEW n \in Node, NEW t \in Sid
      PROVE  fwd'[n][t] = fwd[n][t] \/ (fwd[n][t] = NoEntry /\ ~Waiting(n, t)')
  <2>1. CASE n = e[1] /\ t = s
    <3>1. fwd'[n][t] = Relay(e, FALSE) /\ fwd[n][t] = NoEntry
      BY <1>3, <2>1 DEF Known, ConnInv, TypeOK
    <3>. QED  BY <1>4, <3>1 DEF Waiting
  <2>2. CASE ~(n = e[1] /\ t = s)
    BY <1>3, <2>2 DEF ConnInv, TypeOK
  <2>. QED  BY <2>1, <2>2
<1>. QED  BY <1>1, <1>3, <1>5, AnswerWait

\* Whoever a new relay asks is lost or has the request to read.  It waits for the node
\* that asked.
LEMMA ReqForwardWait ==
    ASSUME ConnInv, ConnInv', WaitInv, NEW e \in End, ReqForward(e) PROVE WaitInv'
<1>1. PICK s \in Sid, w \in Word, msg \in Message :
         /\ e \in listens /\ chan[e] # <<>> /\ msg = Head(chan[e])
         /\ s = Head(chan[e]).sid /\ msg = Request(s, w)
  BY ReadMessage DEF ReqForward
<1>2. PICK n \in Node : n = e[1]
  BY EndParts
<1>3. PICK E \in SUBSET End : E = ForwardTo(e)
  BY DEF ConnInv, TypeOK, ForwardTo, ConnectedPeers
<1>4. PICK new \in Relays : new = Relay(e, TRUE)
  BY <1>1, RelayType
<1>5. /\ chan' = SendOn(Consumed(e), E, msg) /\ UNCHANGED conns /\ E # {}
      /\ fwd' = [fwd EXCEPT ![n][s] = new] /\ ~Known(n, s) /\ chan \in Queues
  BY <1>1, <1>2, <1>3, <1>4 DEF ReqForward, ConnInv, TypeOK
<1>6. /\ new.needed = Cardinality(E) /\ new.received = 0 /\ new.upstream = e
      /\ new.waiting /\ new.asked = E /\ new # NoEntry
  BY <1>1, <1>3, <1>4, RelayType
<1>7. /\ \A r \in End : \A m : On(chan'[r], m) => On(chan[r], m) \/ (Reaches(E, r) /\ m = msg)
      /\ \A r \in End : \A m :
            On(chan[r], m) => On(chan'[r], m) \/ (r = e /\ m = Head(chan[e]))
      /\ \A r \in End : Reaches(E, r) => On(chan'[r], msg)
      /\ \A r \in End : r # e /\ ~Reaches(E, r) => chan'[r] = chan[r]
  <2>1. PassedOn(e, E, msg)
    BY <1>1, <1>5, OnAnswered
  <2>. QED  BY <2>1 DEF PassedOn
<1>8. \A m \in Node, t \in Sid : fwd'[m][t] = IF m = n /\ t = s THEN new ELSE fwd[m][t]
  BY <1>5 DEF ConnInv, TypeOK
<1>9. Waiting(n, s)' /\ fwd'[n][s].upstream = e
  BY <1>6, <1>8 DEF Waiting
<1>10. ASSUME NEW d \in End, NEW t \in Sid, Owes(d, t) PROVE Owes(d, t)'
  <2>1. Lost(d) => Lost(d)'
    BY <1>5 DEF Lost, conns
  <2>2. Other(d) \in End /\ Other(d)[1] = d[2] /\ d[2] \in Node
    BY EndParts
  <2>3. ASSUME NEW v \in Word, Other(d) = e, Request(t, v) = Head(chan[e]) PROVE Owes(d, t)'
    <3>1. t = s /\ d[2] = n
      BY <1>1, <1>2, <2>2, <2>3, RequestParts
    <3>. QED  BY <1>9, <2>3, <3>1 DEF Owes
  <2>4. \A v \in Word : On(chan[Other(d)], Request(t, v)) =>
           On(chan'[Other(d)], Request(t, v)) \/ Owes(d, t)'
    BY <1>7, <2>2, <2>3
  <2>5. \A h \in SUBSET Hit : On(chan[d], Response(t, h)) => On(chan'[d], Response(t, h))
    BY <1>1, <1>7, RequestParts
  <2>6. Waiting(d[2], t) => Waiting(d[2], t)' /\ fwd'[d[2]][t] = fwd[d[2]][t]
    <3>1. Waiting(d[2], t) => ~(d[2] = n /\ t = s)
      BY <1>5 DEF Waiting, Known
    <3>2. Waiting(d[2], t) => fwd'[d[2]][t] = fwd[d[2]][t]
      BY <1>8, <2>2, <3>1
    <3>. QED  BY <3>2 DEF Waiting
  <2>. QED  BY <1>10, <2>1, <2>4, <2>5, <2>6, OwesStays
<1>11. ASSUME NEW x \in E PROVE Owes(x, s)'
  <2>1. CASE Lost(x)
    BY <1>5, <2>1 DEF Owes, Lost, conns
  <2>2. CASE ~Lost(x)
    <3>1. Reaches(E, Other(x)) /\ Other(x) \in End
      BY <2>2, NotLost, EndParts
    <3>2. On(chan'[Other(x)], Request(s, w))
      BY <1>1, <1>7, <3>1
    <3>. QED  BY <3>2 DEF Owes
  <2>. QED  BY <2>1, <2>2
<1>12. Counts(n, s)'
  <2>1. Debtors(n, s)' = E
    BY <1>6, <1>8, <1>11 DEF Debtors
  <2>2. Cardinality(E) \in Nat /\ Cardinality(E) # 0
    BY <1>5, EndFinite, FS_Subset, FS_CardinalityType, FS_EmptySet
  <2>3. fwd'[n][s] = new
    BY <1>8
  <2>. QED  BY <1>6, <2>1, <2>2, <2>3 DEF Counts
<1>13. ASSUME NEW m \in Node, NEW t \in Sid PROVE Counts(m, t)'
  <2>1. CASE m = n /\ t = s
    BY <1>12, <2>1
  <2>2. CASE ~(m = n /\ t = s)
    BY <1>8, <1>10, <2>2, CountKept DEF WaitInv
  <2>. QED  BY <2>1, <2>2
<1>. QED  BY <1>13 DEF WaitInv

\* A reply is one reply less to come, and one debtor less at most; with the last one
\* the relay itself answers, and where it does not get to, it is lost.
LEMMA RespRelayedWait ==
    ASSUME ConnInv, ConnInv', WaitInv, NEW e \in End, RespRelayed(e) PROVE WaitInv'
<1>1. PICK n \in Node, s \in Sid, old \in Relays, new \in Relays :
         /\ n = e[1] /\ s = Head(chan[e]).sid
         /\ old = fwd[n][s] /\ new = fwd'[n][s]
  BY RelayedEntry
<1>2. /\ \A m \in Node, t \in Sid : ~(m = n /\ t = s) => fwd'[m][t] = fwd[m][t]
      /\ new.received = old.received + 1 /\ new.needed = old.needed
      /\ new.upstream = old.upstream /\ new.asked = old.asked
      /\ new.waiting <=> old.waiting /\ new.received # new.needed
      /\ chan' = IF new.received = new.needed
                 THEN SendOn(Consumed(e), {old.upstream} \cap listed, Response(s, new.hits))
                 ELSE Consumed(e)
  BY <1>1, RelayedEntry
<1>3. old # NoEntry /\ new # NoEntry
  BY NoEntryAssumption
<1>4. /\ e \in listens /\ chan[e] # <<>> /\ chan \in Queues /\ UNCHANGED conns
      /\ Head(chan[e]).type = "RESP"
  BY ReadMessage DEF RespRelayed, ConnInv, TypeOK
<1>5. PICK more \in SUBSET Hit : Head(chan[e]) = Response(s, more)
  BY <1>1, ReadMessage DEF RespRelayed
<1>6. PICK E \in SUBSET End : E = {old.upstream} \cap listed
  BY DEF ConnInv, TypeOK
<1>7. new.hits \in SUBSET Hit
  BY DEF Relays
<1>8. PICK msg \in Message : msg = Response(s, new.hits)
  BY <1>7, MessageTypes
<1>9. /\ \A r \in End : \A m :
            On(chan[r], m) => On(chan'[r], m) \/ (r = e /\ m = Head(chan[e]))
      /\ new.received = new.needed => \A r \in End : Reaches(E, r) => On(chan'[r], msg)
  <2>1. CASE new.received = new.needed
    <3>1. chan' = SendOn(Consumed(e), E, msg)
      BY <1>2, <1>6, <1>8, <2>1
    <3>2. PassedOn(e, E, msg)
      BY <1>4, <3>1, OnAnswered
    <3>. QED  BY <3>2 DEF PassedOn
  <2>2. CASE new.received # new.needed
    BY <1>2, <1>4, <2>2, OnConsumed
  <2>. QED  BY <2>1, <2>2
<1>10. ASSUME NEW d \in End, NEW t \in Sid, Owes(d, t), ~(d = e /\ t = s) PROVE Owes(d, t)'
  <2>1. Lost(d) => Lost(d)'
    BY <1>4 DEF Lost, conns
  <2>2. Other(d) \in End /\ d[2] \in Node
    BY EndParts
  <2>3. \A v \in Word : On(chan[Other(d)], Request(t, v)) => On(chan'[Other(d)], Request(t, v))
    <3>1. \A v \in Word : Request(t, v) # Head(chan[e])
      BY <1>5, RequestParts
    <3>. QED  BY <1>9, <2>2, <3>1
  <2>4. \A h \in SUBSET Hit : On(chan[d], Response(t, h)) => On(chan'[d], Response(t, h))
    <3>1. \A h \in SUBSET Hit : Response(t, h) = Head(chan[e]) => t = s
      BY <1>5, ResponseParts
    <3>. QED  BY <1>9, <1>10, <3>1
  <2>5. ASSUME Waiting(d[2], t), fwd[d[2]][t].upstream = Other(d)
        PROVE  (Waiting(d[2], t)' /\ fwd'[d[2]][t].upstream = Other(d)) \/ Owes(d, t)'
    <3>1. CASE ~(d[2] = n /\ t = s)
      <4>1. fwd'[d[2]][t] = fwd[d[2]][t]
        BY <1>2, <2>2, <3>1
      <4>. QED  BY <2>5, <4>1 DEF Waiting
    <3>2. CASE d[2] = n /\ t = s /\ new.received # new.needed
      <4>1. old.waiting /\ old.upstream = Other(d)
        BY <1>1, <2>5, <3>2 DEF Waiting
      <4>2. new.waiting /\ new.upstream = Other(d)
        BY <1>2, <3>2, <4>1
      <4>. QED  BY <1>1, <1>3, <3>2, <4>2 DEF Waiting
    <3>3. CASE d[2] = n /\ t = s /\ new.received = new.needed
      <4>1. CASE Lost(d)
        BY <2>1, <4>1 DEF Owes
      <4>2. CASE ~Lost(d)
        <5>1. Other(d) \in listens /\ old.upstream = Other(d)
          BY <1>1, <2>5, <3>3, <4>2, NotLost
        <5>2. Other(d) \in E
          BY <1>6, <5>1 DEF ConnInv, Listening
        <5>3. Reaches(E, d)
          BY <4>2, <5>2, NotLost
        <5>4. On(chan'[d], Response(t, new.hits))
          BY <1>8, <1>9, <3>3, <5>3
        <5>. QED  BY <1>7, <5>4 DEF Owes
      <4>. QED  BY <4>1, <4>2
    <3>. QED  BY <3>1, <3>2, <3>3
  <2>. QED  BY <1>10, <2>1, <2>3, <2>4, <2>5, OwesStays
<1>11. ASSUME Waiting(n, s)'
       PROVE  /\ new.received < new.needed
              /\ new.needed - new.received <= Cardinality(Debtors(n, s))'
  <2>1. new.waiting
    BY <1>1, <1>11 DEF Waiting
  <2>2. old.waiting /\ new.received # new.needed
    BY <1>2, <2>1
  <2>3. Waiting(n, s) /\ fwd[n][s] # NoEntry
    BY <1>1, <1>3, <2>2 DEF Waiting
  <2>4. PICK D : D = Debtors(n, s)
    OBVIOUS
  <2>5. PICK D2 : D2 = Debtors(n, s)'
    OBVIOUS
  <2>6. D = {d \in old.asked : Owes(d, s)} /\ D2 = {d \in old.asked : Owes(d, s)'}
    BY <1>1, <1>2, <2>4, <2>5 DEF Debtors
  <2>7. old.asked \in SUBSET End
    BY DEF Relays
  <2>8. D \ {e} \subseteq D2 /\ D \subseteq old.asked /\ D2 \subseteq old.asked
    BY <1>10, <2>6, <2>7
  <2>9. IsFiniteSet(D) /\ IsFiniteSet(D2) /\ Cardinality(D) \in Nat /\ Cardinality(D2) \in Nat
    BY <1>1, <2>3, <2>8, DebtorsFinite
  <2>10. Cardinality(D \ {e}) <= Cardinality(D2)
    BY <2>8, <2>9, FS_Subset
  <2>11. Cardinality(D) - 1 <= Cardinality(D \ {e}) /\ Cardinality(D \ {e}) \in Nat
    <3>1. CASE e \in D
      <4>1. IsFiniteSet(D \ {e}) /\ Cardinality(D \ {e}) = Cardinality(D) - 1
        BY <2>9, <3>1, FS_RemoveElement
      <4>2. Cardinality(D \ {e}) \in Nat
        BY <4>1, FS_CardinalityType
      <4>. QED  BY <2>9, <4>1, <4>2
    <3>2. CASE e \notin D
      <4>1. D \ {e} = D
        BY <3>2
      <4>. QED  BY <2>9, <4>1
    <3>. QED  BY <3>1, <3>2
  <2>12. old.received < old.needed /\ old.needed - old.received <= Cardinality(D)
    BY <1>1, <2>3, <2>4 DEF WaitInv, Counts
  <2>13. old.received \in Nat /\ old.needed \in Nat
    BY DEF Relays
  <2>14. new.received < new.needed /\ new.needed - new.received <= Cardinality(D2)
    BY <1>2, <2>2, <2>9, <2>10, <2>11, <2>12, <2>13
  <2>. QED  BY <2>5, <2>14
<1>12. ASSUME NEW m \in Node, NEW t \in Sid PROVE Counts(m, t)'
  <2>1. CASE m = n /\ t = s
    BY <1>1, <1>11, <2>1 DEF Counts
  <2>2. CASE ~(m = n /\ t = s)
    <3>1. ASSUME NEW d \in End, d[1] = m, Owes(d, t) PROVE Owes(d, t)'
      BY <1>1, <1>10, <2>2, <3>1
    <3>. QED  BY <1>2, <2>2, <3>1, CountKept DEF WaitInv
  <2>. QED  BY <2>1, <2>2
<1>. QED  BY <1>12 DEF WaitInv

\* A process that ends is lost for all who asked it.
LEMMA EndsWait ==
    ASSUME ConnInv, ConnInv', WaitInv, NEW n \in Node, NEW ch \in Queues, Ends(n, ch),
           \A r \in End : \A m : m.type # "DISCONNECT" => (On(ch[r], m) <=> On(chan[r], m))
    PROVE  WaitInv'
<1>1. /\ listed' = listed \ EndsOf(n) /\ connected' = connected \ EndsOf(n)
      /\ listens' = listens \ EndsOf(n)
      /\ chan' = [e \in End |-> IF e \in EndsOf(n) THEN <<>> ELSE ch[e]]
      /\ fwd' = [fwd EXCEPT ![n] = NoSearches]
  BY DEF Ends
<1>2. \A m \in Node, s \in Sid : fwd'[m][s] = IF m = n THEN NoEntry ELSE fwd[m][s]
  BY <1>1 DEF ConnInv, TypeOK, NoSearches
<1>3. ASSUME NEW d \in End, NEW t \in Sid, Owes(d, t), d[1] # n PROVE Owes(d, t)'
  <2>1. Lost(d) => Lost(d)'
    BY <1>1, LostStays
  <2>2. Other(d) \in End /\ Other(d)[1] = d[2] /\ d[2] \in Node
    BY EndParts
  <2>3. CASE d[2] = n
    <3>1. Other(d) \notin listens'
      BY <1>1, <2>2, <2>3 DEF EndsOf
    <3>. QED  BY <3>1 DEF Owes, Lost
  <2>4. CASE d[2] # n
    <3>1. chan'[d] = ch[d] /\ chan'[Other(d)] = ch[Other(d)]
      BY <1>1, <1>3, <2>2, <2>4 DEF EndsOf
    <3>2. \A v \in Word : On(chan[Other(d)], Request(t, v)) => On(chan'[Other(d)], Request(t, v))
      BY <2>2, <3>1, MessageNames
    <3>3. \A h \in SUBSET Hit : On(chan[d], Response(t, h)) => On(chan'[d], Response(t, h))
      BY <3>1, MessageNames
    <3>4. Waiting(d[2], t) => Waiting(d[2], t)' /\ fwd'[d[2]][t] = fwd[d[2]][t]
      BY <1>2, <2>2, <2>4 DEF Waiting
    <3>. QED  BY <1>3, <2>1, <3>2, <3>3, <3>4, OwesStays
  <2>. QED  BY <2>3, <2>4
<1>4. ASSUME NEW m \in Node, NEW t \in Sid PROVE Counts(m, t)'
  <2>1. CASE m = n
    BY <1>2, <2>1 DEF Counts, Waiting
  <2>2. CASE m # n
    BY <1>2, <1>3, <2>2, CountKept DEF WaitInv
  <2>. QED  BY <2>1, <2>2
<1>. QED  BY <1>4 DEF WaitInv

LEMMA LeaveWait ==
    ASSUME ConnInv, ConnInv', WaitInv, NEW n \in Node, Leave(n) PROVE WaitInv'
BY LeaveSends, EndsWait DEF Leave

LEMMA DiesWait ==
    ASSUME ConnInv, ConnInv', WaitInv, NEW n \in Node, Dies(n) PROVE WaitInv'
BY EndsWait DEF Dies, ConnInv, TypeOK

\* The new connection brings nobody back: it is none of those that were asked.
LEMMA RestartWait == ASSUME ConnInv, ConnInv', WaitInv, Restart PROVE WaitInv'
<1>1. PICK out \in End, in \in End :
        /\ out = Other(in) /\ in = Other(out) /\ out[3] = life + 1 /\ in[3] = life + 1
        /\ listed' = listed \cup {out, in} /\ connected' = connected \cup {out, in}
        /\ listens' = listens \cup {out, in} /\ Taken(in) /\ UNCHANGED chan
  BY RestartMakes, EndParts
<1>2. ASSUME NEW d \in End, NEW t \in Sid, d[3] <= life, Owes(d, t) PROVE Owes(d, t)'
  <2>1. d # out /\ d # in /\ Other(d) # out /\ Other(d) # in /\ d[2] \in Node
    BY <1>1, <1>2, EndParts DEF ConnInv, TypeOK
  <2>2. Lost(d) => Lost(d)'
    BY <1>1, <2>1 DEF Lost
  <2>3. Lost(d) => Owes(d, t)'
    BY <2>2 DEF Owes
  <2>4. CASE fwd'[d[2]][t] = fwd[d[2]][t]
    <3>1. Waiting(d[2], t) => Waiting(d[2], t)'
      BY <2>4 DEF Waiting
    <3>. QED  BY <1>1, <1>2, <2>2, <2>4, <3>1, OwesStays
  <2>5. CASE fwd'[d[2]][t] # fwd[d[2]][t]
    <3>1. fwd[d[2]][t].upstream \notin listed
      BY <1>1, <2>1, <2>5 DEF Taken
    <3>2. fwd[d[2]][t].upstream = Other(d) => Lost(d)
      BY <3>1 DEF ConnInv, Listening, Lost
    <3>. QED  BY <1>1, <1>2, <2>2, <2>3, <3>2, OwesStays
  <2>. QED  BY <2>4, <2>5
<1>3. ASSUME NEW m \in Node, NEW t \in Sid PROVE Counts(m, t)'
  <2>1. /\ fwd'[m][t] # NoEntry => fwd[m][t] # NoEntry
        /\ fwd'[m][t].received = fwd[m][t].received /\ fwd'[m][t].needed = fwd[m][t].needed
        /\ fwd'[m][t].waiting = fwd[m][t].waiting /\ fwd'[m][t].asked = fwd[m][t].asked
    BY <1>1 DEF Taken
  <2>. QED  BY <1>2, <2>1, CountKept DEF WaitInv
<1>. QED  BY <1>3 DEF WaitInv

LEMMA WaitStep == ConnInv /\ WaitInv /\ [Next]_vars => WaitInv'
<1>. SUFFICES ASSUME ConnInv, WaitInv, [Next]_vars PROVE WaitInv'
  OBVIOUS
<1>1. ConnInv'
  BY ConnStep
<1>2. ASSUME NEW e \in End, Listener(e) PROVE WaitInv'
  BY <1>1, <1>2, ReqProcessedWait, ReqAnsweredWait, ReqForwardWait, RespRelayedWait,
     RespToCreatorWait, HearDisconnectWait, HearResetWait,
     DyingSteps, DiesWait DEF Listener
<1>3. CASE UNCHANGED vars
  BY <1>1, <1>3, QuietWait DEF vars, conns
<1>. QED
  BY <1>1, <1>2, <1>3, AttemptWait, WakeWait, RestartWait, MonitorFreesWait, LeaveWait,
     DyingSteps, DiesWait DEF Next

\* When nothing is on its way, a debtor of a relay that waits is lost or waits itself.
LEMMA WaitsWhenQuiet == ConnInv /\ WaitInv => WaitsForLost
<1>. SUFFICES ASSUME ConnInv, WaitInv, Quiet, NEW n \in alive, NEW s \in Sid, Waiting(n, s)
              PROVE  \E e \in fwd[n][s].asked : Lost(e) \/ Waiting(e[2], s)
  BY DEF WaitsForLost
<1>1. n \in Node /\ fwd[n][s] # NoEntry
  BY DEF ConnInv, TypeOK, Waiting
<1>2. PICK old \in Relays : old = fwd[n][s]
  BY <1>1, DebtorsFinite
<1>3. PICK D : D = Debtors(n, s)
  OBVIOUS
<1>4. old.received < old.needed /\ old.needed - old.received <= Cardinality(D)
  BY <1>1, <1>2, <1>3 DEF WaitInv, Counts
<1>5. D # {}
  <2>1. old.received \in Nat /\ old.needed \in Nat
    BY DEF Relays
  <2>. QED  BY <1>4, <2>1, FS_EmptySet
<1>6. PICK e \in fwd[n][s].asked : Owes(e, s)
  BY <1>3, <1>5 DEF Debtors
<1>7. e \in End
  BY <1>1, DebtorsFinite
<1>8. ASSUME ~Lost(e) PROVE Waiting(e[2], s)
  <2>1. chan[e] = <<>> /\ chan[Other(e)] = <<>>
    BY <1>7, <1>8, NotLost DEF Quiet
  <2>2. \A m : ~On(<<>>, m)
    BY DEF On
  <2>. QED  BY <1>6, <1>8, <2>1, <2>2 DEF Owes
<1>. QED  BY <1>6, <1>8

\* Lines 106 and 205-209: a relay that waits when no message is on its way waits for a
\* peer that is gone, or for one that does so.
THEOREM RelaysWaitForLost == Spec => []WaitsForLost
BY WaitInit, WaitStep, ConnHolds, WaitsWhenQuiet, PTL DEF Spec

----------------------------------------------------------------------------
(* NewIdFinds.  First the connections, on a tree.                          *)

\* The ends whose listener and whose other side's listener are in their loops.
Live == {e \in listens : Other(e) \in listens}

\* The only live end that leads out of part.
OnlyOut(e, part, ends) ==
    /\ e[1] \in part /\ e[2] \notin part
    /\ \A x \in ends : x[1] \in part /\ x[2] \notin part => x = e

AliveListed == \A e \in listed : e[1] \in alive

Lifeless == Searcher \notin alive => counter = 0 /\ \A s \in Sid : created[s] = NoEntry

\* A descriptor refers to a connection of its own node, and to an open one.
SockOwn == \A e \in End : sock[e] # NoEntry => sock[e][1] = e[1] /\ sock[e] \in listens

\* Whoever said that it leaves has left.
NoBye == \A e \in listens : On(chan[e], Disconnect) => Other(e) \notin listens

\* No connection is on a cycle.
Bridges == \A e \in Live : \E part \in SUBSET Node : OnlyOut(e, part, Live)

\* Somebody in part has a peer that died, and will not free it.
Widowed(e) ==
    /\ e \in listed \cap connected /\ Other(e) \notin listens
    /\ ~(e \in listens /\ On(chan[e], Disconnect))
Broken(part) == \E e \in End : Widowed(e) /\ e[1] \in part

\* The overlay of those that run does not come apart, but where somebody died.
Leads(part) == \E e \in Live : e[1] \in part /\ e[2] \in alive \ part
OnePiece == \A part \in SUBSET alive : part \in {{}, alive} \/ Broken(part) \/ Leads(part)

\* Of several nodes with a file for a word each has one connection at most.
HolderLeaf == \A m, n \in Node : m # n /\ Holds[m] \cap Holds[n] # {} /\ m # Searcher =>
    \A x, y \in Live : x[1] = m /\ y[1] = m => x = y

TreeInv ==
    /\ HoldersApart
    /\ AliveListed /\ Lifeless /\ SockOwn /\ NoBye /\ Bridges /\ OnePiece /\ HolderLeaf

LEMMA TreeInit == Tree /\ HoldersApart /\ Init => TreeInv
<1>. SUFFICES ASSUME Tree, HoldersApart, Init PROVE TreeInv
  OBVIOUS
<1>1. \A p \in Links : p[1] \in Node /\ p[2] \in Node /\ p = <<p[1], p[2]>>
  BY ChurnAssumption
<1>2. \A e \in listed : \E p \in Links :
         \/ e = <<p[1], p[2], 1>> \/ e = <<p[2], p[1], 1>>
  <2>1. \A f \in Links1 : \E p \in Links : f = <<p[1], p[2], 1>>
    BY DEF Links1
  <2>2. \A f \in Links1 : \E p \in Links : Other(f) = <<p[2], p[1], 1>>
    BY <2>1 DEF Other
  <2>. QED  BY <2>1, <2>2 DEF Init
<1>3. \A p \in Links : <<p[1], p[2], 1>> \in listed /\ <<p[2], p[1], 1>> \in listed
  <2>1. \A p \in Links : <<p[1], p[2], 1>> \in Links1
    BY DEF Links1
  <2>2. \A p \in Links : Other(<<p[1], p[2], 1>>) = <<p[2], p[1], 1>>
    BY DEF Other
  <2>. QED  BY <2>1, <2>2 DEF Init
<1>4. \A e \in listed : e \in End /\ Other(e) \in listed
  <2>1. \A e \in listed : e \in End
    BY ConnInit DEF ConnInv, TypeOK
  <2>2. \A e \in listed : Other(e) \in listed
    BY <1>2, <1>3 DEF Other
  <2>. QED  BY <2>1, <2>2
<1>5. /\ alive = Node /\ connected = listed /\ listens = listed
      /\ sock = [e \in End |-> IF e \in listed THEN e ELSE NoEntry]
      /\ \A e \in End : chan[e] = <<>>
  BY DEF Init
<1>6. Live = listed
  BY <1>4, <1>5 DEF Live
<1>7. AliveListed /\ Lifeless /\ SockOwn
  BY <1>4, <1>5, EndParts, ChurnAssumption DEF AliveListed, Lifeless, SockOwn
<1>8. NoBye
  BY <1>4, <1>5 DEF NoBye, On
<1>9. Bridges
  <2>1. SUFFICES ASSUME NEW e \in listed PROVE \E part \in SUBSET Node : OnlyOut(e, part, listed)
    BY <1>6 DEF Bridges
  <2>2. PICK p \in Links : e = <<p[1], p[2], 1>> \/ e = <<p[2], p[1], 1>>
    BY <1>2
  <2>3. PICK side \in SUBSET Node : {q \in Links : Crosses(q, side)} = {p}
    BY DEF Tree
  <2>4. PICK part \in SUBSET Node :
           /\ e[1] \in part /\ e[2] \notin part
           /\ \A q \in Links : Crosses(q, part) => q = p
    <3>1. Crosses(p, side) /\ \A q \in Links : Crosses(q, side) => q = p
      BY <2>3
    <3>2. CASE e[1] \in side
      BY <1>1, <2>2, <3>1, <3>2 DEF Crosses
    <3>3. CASE e[1] \notin side
      <4>1. /\ e[1] \in Node \ side /\ e[2] \notin Node \ side
            /\ \A q \in Links : Crosses(q, Node \ side) => q = p
        BY <1>1, <2>2, <3>1, <3>3 DEF Crosses
      <4>. QED  BY <4>1
    <3>. QED  BY <3>2, <3>3
  <2>5. ASSUME NEW x \in listed, x[1] \in part, x[2] \notin part PROVE x = e
    <3>1. PICK q \in Links : x = <<q[1], q[2], 1>> \/ x = <<q[2], q[1], 1>>
      BY <1>2
    <3>2. q = p
      BY <2>4, <2>5, <3>1 DEF Crosses
    <3>. QED  BY <2>2, <2>4, <2>5, <3>1, <3>2
  <2>. QED  BY <2>4, <2>5 DEF OnlyOut
<1>10. OnePiece
  <2>1. SUFFICES ASSUME NEW part \in SUBSET Node, part \notin {{}, Node}
                 PROVE  \E e \in listed : e[1] \in part /\ e[2] \in Node \ part
    BY <1>5, <1>6 DEF OnePiece, Leads
  <2>2. PICK p \in Links : Crosses(p, part)
    BY <2>1 DEF Tree
  <2>. QED  BY <1>1, <1>3, <2>2 DEF Crosses
<1>11. HolderLeaf
  <2>1. SUFFICES ASSUME NEW m \in Node, NEW x \in listed, NEW y \in listed, x[1] = m, y[1] = m,
                        \A p, q \in Links : m \in {p[1], p[2]} \cap {q[1], q[2]} => p = q
                 PROVE  x = y
    BY <1>6 DEF HolderLeaf, HoldersApart
  <2>2. PICK p \in Links : x = <<p[1], p[2], 1>> \/ x = <<p[2], p[1], 1>>
    BY <1>2
  <2>3. PICK q \in Links : y = <<q[1], q[2], 1>> \/ y = <<q[2], q[1], 1>>
    BY <1>2
  <2>4. p = q
    <3>1. m \in {p[1], p[2]} /\ m \in {q[1], q[2]}
      BY <2>1, <2>2, <2>3
    <3>. QED  BY <2>1, <3>1
  <2>. QED  BY <2>1, <2>2, <2>3, <2>4
<1>. QED  BY <1>7, <1>8, <1>9, <1>10, <1>11 DEF TreeInv

\* The Live ends are those of the listeners that were there, and nobody new says that
\* it leaves.
LEMMA TreeShrinks ==
    ASSUME ConnInv, TreeInv, Lifeless', alive' = alive, listed' \subseteq listed,
           listens' \subseteq listens, Live \subseteq listens',
           \A x \in End : On(chan'[x], Disconnect) => On(chan[x], Disconnect),
           \A x \in End : Widowed(x) => Widowed(x)',
           \A x \in End : sock'[x] # NoEntry => sock'[x] = sock[x] /\ sock[x] \in listens'
    PROVE  TreeInv'
<1>1. \A x \in listens : x \in End /\ Other(x) \in End /\ Other(Other(x)) = x
  BY EndParts DEF ConnInv, TypeOK, Listening
<1>2. Live' = Live
  BY <1>1 DEF Live
<1>3. AliveListed' /\ SockOwn' /\ NoBye'
  BY <1>1 DEF TreeInv, AliveListed, SockOwn, NoBye
<1>4. Bridges' /\ HolderLeaf'
  BY <1>2 DEF TreeInv, Bridges, HolderLeaf
<1>5. OnePiece'
  <2>1. \A part : Broken(part) => Broken(part)'
    BY DEF Broken
  <2>2. \A part : Leads(part) => Leads(part)'
    BY <1>2 DEF Leads
  <2>. QED  BY <2>1, <2>2 DEF TreeInv, OnePiece
<1>6. HoldersApart'
  BY DEF TreeInv, HoldersApart
<1>. QED  BY <1>3, <1>4, <1>5, <1>6 DEF TreeInv

\* Steps that leave the connections alone.
LEMMA TreeQuiet ==
    ASSUME ConnInv, TreeInv, Lifeless', UNCHANGED <<alive, conns>>,
           \A x \in End : On(chan'[x], Disconnect) => On(chan[x], Disconnect)
    PROVE  TreeInv'
<1>1. \A x \in End : Widowed(x) => Widowed(x)'
  BY DEF Widowed, conns
<1>2. \A x \in End : sock'[x] # NoEntry => sock'[x] = sock[x] /\ sock[x] \in listens'
  BY DEF conns, TreeInv, SockOwn
<1>3. Live \subseteq listens'
  BY DEF Live, conns
<1>. QED  BY <1>1, <1>2, <1>3, TreeShrinks DEF conns

\* What is read at e, and sent on E, is no DISCONNECT.
LEMMA TreePassed ==
    ASSUME ConnInv, TreeInv, NEW e \in End, chan[e] # <<>>, NEW E \in SUBSET End,
           NEW msg \in Message, msg # Disconnect, chan' = SendOn(Consumed(e), E, msg),
           UNCHANGED <<alive, conns, counter, created>>
    PROVE  TreeInv'
<1>1. PassedOn(e, E, msg)
  BY OnAnswered DEF ConnInv, TypeOK
<1>2. \A x \in End : On(chan'[x], Disconnect) => On(chan[x], Disconnect)
  BY <1>1 DEF PassedOn
<1>3. Lifeless'
  BY DEF TreeInv, Lifeless
<1>. QED  BY <1>2, <1>3, TreeQuiet

LEMMA AttemptTree == ASSUME ConnInv, TreeInv, NEW w \in Word, Attempt(w) PROVE TreeInv'
<1>1. PICK s \in Nat : s = counter + 1
  BY DEF ConnInv, TypeOK
<1>2. s \in Sid
  BY <1>1, ChurnAssumption DEF ConnInv, TypeOK, Attempt, Sid
<1>3. PICK msg \in Message : msg = Request(s, w)
  BY <1>2, MessageTypes
<1>4. PICK P \in SUBSET End : P = ConnectedPeers(Searcher)
  BY DEF ConnInv, TypeOK, ConnectedPeers
<1>5. chan' = SendOn(chan, P, msg) /\ UNCHANGED <<alive, conns>> /\ chan \in Queues
      /\ Searcher \in alive
  BY <1>1, <1>3, <1>4 DEF Attempt, ConnInv, TypeOK
<1>6. PICK next : next = SendOn(chan, P, msg)
  OBVIOUS
<1>7. \A r \in End : \A m : On(next[r], m) => On(chan[r], m) \/ m = msg
  <2>1. \A r \in End : \A m : On(SendOn(chan, P, msg)[r], m) <=>
           On(chan[r], m) \/ (Reaches(P, r) /\ m = msg)
    BY <1>5, OnSent
  <2>. QED  BY <1>6, <2>1
<1>8. msg # Disconnect
  BY <1>3, MessageNames
<1>9. Lifeless'
  BY <1>5 DEF Lifeless
<1>. QED  BY <1>5, <1>6, <1>7, <1>8, <1>9, TreeQuiet

LEMMA WakeTree == ASSUME ConnInv, TreeInv, Wake PROVE TreeInv'
<1>1. Searcher \in alive /\ UNCHANGED <<alive, conns, chan>>
  BY DEF Wake, ConnInv, Sleeping, TreeInv, Lifeless
<1>. QED  BY <1>1, TreeQuiet DEF Lifeless

LEMMA ReqProcessedTree ==
    ASSUME ConnInv, TreeInv, NEW e \in End, ReqProcessed(e) PROVE TreeInv'
<1>1. PICK s \in Sid : chan[e] # <<>> /\ s = Head(chan[e]).sid
  BY ReadMessage DEF ReqProcessed
<1>2. PICK msg \in Message : msg = Response(s, {}) /\ msg # Disconnect
  BY MessageTypes, MessageNames
<1>3. chan' = SendOn(Consumed(e), {e}, msg) /\ UNCHANGED <<alive, conns, counter, created>>
  BY <1>1, <1>2 DEF ReqProcessed, search
<1>. QED  BY <1>1, <1>2, <1>3, TreePassed

LEMMA ReqAnsweredTree ==
    ASSUME ConnInv, TreeInv, NEW e \in End, ReqAnswered(e) PROVE TreeInv'
<1>1. PICK s \in Sid, w \in Word :
         chan[e] # <<>> /\ e[1] \in Node /\ s = Head(chan[e]).sid /\ w = Head(chan[e]).word
  BY ReadMessage, EndParts DEF ReqAnswered
<1>2. PICK hits \in SUBSET Hit : hits = {<<e[1], w>>} \cap (Node \X Holds[e[1]])
  <2>1. {<<e[1], w>>} \cap (Node \X Holds[e[1]]) \in SUBSET Hit
    BY <1>1 DEF Hit
  <2>. QED  BY <2>1
<1>3. PICK msg \in Message : msg = Response(s, hits) /\ msg # Disconnect
  BY MessageTypes, MessageNames
<1>4. chan' = SendOn(Consumed(e), {e}, msg) /\ UNCHANGED <<alive, conns, counter, created>>
  BY <1>1, <1>2, <1>3 DEF ReqAnswered, search
<1>. QED  BY <1>1, <1>3, <1>4, TreePassed

LEMMA ReqForwardTree ==
    ASSUME ConnInv, TreeInv, NEW e \in End, ReqForward(e) PROVE TreeInv'
<1>1. PICK msg \in Message : chan[e] # <<>> /\ msg = Head(chan[e]) /\ msg # Disconnect
  BY ReadMessage, MessageNames DEF ReqForward
<1>2. PICK E \in SUBSET End : E = ForwardTo(e)
  BY DEF ConnInv, TypeOK, ForwardTo, ConnectedPeers
<1>3. chan' = SendOn(Consumed(e), E, msg) /\ UNCHANGED <<alive, conns, counter, created>>
  BY <1>1, <1>2 DEF ReqForward, search
<1>. QED  BY <1>1, <1>3, TreePassed

LEMMA RespRelayedTree ==
    ASSUME ConnInv, TreeInv, NEW e \in End, RespRelayed(e) PROVE TreeInv'
<1>1. PICK s \in Sid, n \in Node :
         /\ s = Head(chan[e]).sid /\ n = e[1] /\ fwd'[n][s] \in Relays
         /\ chan' = IF fwd'[n][s].received = fwd'[n][s].needed
                    THEN SendOn(Consumed(e), {fwd[n][s].upstream} \cap listed,
                                Response(s, fwd'[n][s].hits))
                    ELSE Consumed(e)
  BY RelayedEntry
<1>2. PICK hits \in SUBSET Hit : hits = fwd'[n][s].hits
  BY <1>1 DEF Relays
<1>3. PICK E \in SUBSET End : E = {fwd[n][s].upstream} \cap listed
  BY DEF ConnInv, TypeOK
<1>4. PICK msg \in Message : msg = Response(s, hits) /\ msg # Disconnect
  BY MessageTypes, MessageNames
<1>5. chan' = SendOn(Consumed(e), E, msg) \/ chan' = Consumed(e)
  BY <1>1, <1>2, <1>3, <1>4
<1>6. chan \in Queues /\ chan[e] # <<>> /\ UNCHANGED <<alive, conns, counter, created>>
  BY DEF RespRelayed, Receives, ConnInv, TypeOK, search
<1>7. CASE chan' = SendOn(Consumed(e), E, msg)
  BY <1>4, <1>6, <1>7, TreePassed
<1>8. CASE chan' = Consumed(e)
  <2>1. \A x \in End : On(chan'[x], Disconnect) => On(chan[x], Disconnect)
    BY <1>6, <1>8, OnConsumed
  <2>2. Lifeless'
    BY <1>6 DEF TreeInv, Lifeless
  <2>. QED  BY <1>6, <2>1, <2>2, TreeQuiet
<1>. QED  BY <1>5, <1>7, <1>8

LEMMA RespToCreatorTree ==
    ASSUME ConnInv, TreeInv, NEW e \in End, RespToCreator(e) PROVE TreeInv'
<1>1. PICK s \in Sid : chan[e] # <<>> /\ s = Head(chan[e]).sid
  BY ReadMessage DEF RespToCreator
<1>2. /\ chan \in Queues /\ chan' = Consumed(e) /\ UNCHANGED <<alive, conns, counter>>
      /\ created[s] = NoEntry => created' = created
  BY <1>1 DEF RespToCreator, ConnInv, TypeOK
<1>3. \A x \in End : On(chan'[x], Disconnect) => On(chan[x], Disconnect)
  BY <1>1, <1>2, OnConsumed
<1>4. Lifeless'
  BY <1>2 DEF TreeInv, Lifeless
<1>. QED  BY <1>2, <1>3, <1>4, TreeQuiet

LEMMA HearDisconnectTree ==
    ASSUME ConnInv, TreeInv, NEW e \in End, HearDisconnect(e) PROVE TreeInv'
<1>1. /\ e \in listens /\ chan[e] # <<>> /\ On(chan[e], Disconnect) /\ chan \in Queues
      /\ chan' = Consumed(e) /\ connected' = connected \ {e} /\ listens' = listens \ {e}
      /\ sock' = [x \in End |-> IF sock[x] = e THEN NoEntry ELSE sock[x]]
      /\ UNCHANGED <<alive, listed, counter, created>>
  BY ReadMessage DEF HearDisconnect, ListenerEnds, ConnInv, TypeOK, search
<1>2. Other(e) \notin listens /\ \A x \in End : Other(x) = e => x = Other(e)
  BY <1>1, EndParts DEF TreeInv, NoBye
<1>3. \A x \in End : On(chan'[x], Disconnect) => On(chan[x], Disconnect)
  BY <1>1, OnConsumed
<1>4. \A x \in End : Widowed(x) => Widowed(x)'
  BY <1>1, <1>3 DEF Widowed
<1>5. Live \subseteq listens'
  BY <1>1, <1>2 DEF Live
<1>6. \A x \in End : sock'[x] # NoEntry => sock'[x] = sock[x] /\ sock[x] \in listens'
  BY <1>1 DEF TreeInv, SockOwn
<1>7. Lifeless'
  BY <1>1 DEF TreeInv, Lifeless
<1>. QED  BY <1>1, <1>3, <1>4, <1>5, <1>6, <1>7, TreeShrinks

LEMMA HearResetTree ==
    ASSUME ConnInv, TreeInv, NEW e \in End, HearReset(e) PROVE TreeInv'
<1>1. /\ e \in listens /\ Other(e) \notin listens /\ listens' = listens \ {e}
      /\ sock' = [x \in End |-> IF sock[x] = e THEN NoEntry ELSE sock[x]]
      /\ UNCHANGED <<alive, listed, connected, chan, counter, created>>
  BY DEF HearReset, ListenerEnds, search
<1>2. \A x \in End : Widowed(x) => Widowed(x)'
  BY <1>1 DEF Widowed
<1>3. Live \subseteq listens'
  BY <1>1 DEF Live
<1>4. \A x \in End : sock'[x] # NoEntry => sock'[x] = sock[x] /\ sock[x] \in listens'
  BY <1>1 DEF TreeInv, SockOwn
<1>5. Lifeless'
  BY <1>1 DEF TreeInv, Lifeless
<1>. QED  BY <1>1, <1>2, <1>3, <1>4, <1>5, TreeShrinks

LEMMA MonitorFreesTree ==
    ASSUME ConnInv, TreeInv, NEW e \in End, MonitorFrees(e) PROVE TreeInv'
<1>1. /\ e \notin connected /\ listed' = listed \ {e}
      /\ UNCHANGED <<alive, connected, listens, sock, chan, counter, created>>
  BY DEF MonitorFrees, search
<1>2. \A x \in End : Widowed(x) => Widowed(x)'
  BY <1>1 DEF Widowed
<1>3. Live \subseteq listens'
  BY <1>1 DEF Live
<1>4. \A x \in End : sock'[x] # NoEntry => sock'[x] = sock[x] /\ sock[x] \in listens'
  BY <1>1 DEF TreeInv, SockOwn
<1>5. Lifeless'
  BY <1>1 DEF TreeInv, Lifeless
<1>. QED  BY <1>1, <1>2, <1>3, <1>4, <1>5, TreeShrinks

\* A process that ends.  What it says gets to the other side of its connections only.
LEMMA EndsTree ==
    ASSUME ConnInv, TreeInv, NEW n \in Node, NEW ch \in Queues, Ends(n, ch),
           \A x \in End : On(ch[x], Disconnect) =>
              On(chan[x], Disconnect) \/ (x[2] = n /\ Other(x) \in listens)
    PROVE  /\ \A x \in End : Widowed(x) /\ x[1] # n => Widowed(x)'
           /\ \A x \in Live : x[1] # n /\ x[2] # n => x \in Live'
           /\ OnePiece' => TreeInv'
<1>1. /\ alive' = alive \ {n}
      /\ listed' = listed \ EndsOf(n) /\ connected' = connected \ EndsOf(n)
      /\ listens' = listens \ EndsOf(n)
      /\ sock' = [e \in End |-> IF e \in EndsOf(n) THEN NoEntry ELSE sock[e]]
      /\ chan' = [e \in End |-> IF e \in EndsOf(n) THEN <<>> ELSE ch[e]]
  BY DEF Ends
<1>2. \A x \in End : /\ x \in EndsOf(n) <=> x[1] = n
                     /\ Other(x) \in End /\ Other(Other(x)) = x /\ Other(x)[1] = x[2]
  BY EndParts DEF EndsOf
<1>3. \A x \in End : x[1] # n => chan'[x] = ch[x] /\ sock'[x] = sock[x]
  BY <1>1, <1>2
<1>4. \A x \in listens \cup listed : x \in End
  BY DEF ConnInv, TypeOK, Listening
<1>5. \A x \in End : Widowed(x) /\ x[1] # n => Widowed(x)'
  BY <1>1, <1>2, <1>3 DEF Widowed
<1>6. \A x \in End : x \in Live' <=> x \in Live /\ x[1] # n /\ x[2] # n
  BY <1>1, <1>2 DEF Live
<1>7. Live' \subseteq Live /\ \A x \in Live : x \in End
  BY <1>1, <1>4 DEF Live
<1>8. AliveListed'
  BY <1>1, <1>2, <1>4 DEF TreeInv, AliveListed
<1>9. Lifeless'
  <2>1. CASE n = Searcher
    BY <2>1 DEF Lifeless, Ends, NoSearches
  <2>2. CASE n # Searcher
    <3>1. /\ counter' = counter
          /\ created' = [s \in Sid |-> IF created[s] = NoEntry THEN NoEntry
                                       ELSE [created[s] EXCEPT !.calm = FALSE]]
      BY <2>2 DEF Ends
    <3>. QED  BY <1>1, <2>2, <3>1 DEF TreeInv, Lifeless
  <2>. QED  BY <2>1, <2>2
<1>10. SockOwn'
  <2>1. ASSUME NEW x \in End, sock'[x] # NoEntry PROVE sock'[x][1] = x[1] /\ sock'[x] \in listens'
    <3>1. x[1] # n /\ sock'[x] = sock[x]
      BY <1>1, <1>2, <2>1
    <3>2. sock[x][1] = x[1] /\ sock[x] \in listens
      BY <2>1, <3>1 DEF TreeInv, SockOwn
    <3>. QED  BY <1>1, <1>2, <1>4, <3>1, <3>2
  <2>. QED  BY <2>1 DEF SockOwn
<1>11. NoBye'
  <2>1. ASSUME NEW x \in listens', On(chan'[x], Disconnect) PROVE Other(x) \notin listens'
    <3>1. x \in End /\ x \in listens /\ x[1] # n /\ chan'[x] = ch[x]
      BY <1>1, <1>2, <1>3, <1>4
    <3>2. On(chan[x], Disconnect) \/ x[2] = n
      BY <2>1, <3>1
    <3>. QED  BY <1>1, <1>2, <3>1, <3>2 DEF TreeInv, NoBye
  <2>. QED  BY <2>1 DEF NoBye
<1>12. Bridges'
  BY <1>7 DEF TreeInv, Bridges, OnlyOut
<1>13. HolderLeaf'
  BY <1>7 DEF TreeInv, HolderLeaf
<1>14. HoldersApart'
  BY DEF TreeInv, HoldersApart
<1>15. \A x \in Live : x[1] # n /\ x[2] # n => x \in Live'
  BY <1>6, <1>7
<1>. QED
  BY <1>5, <1>8, <1>9, <1>10, <1>11, <1>12, <1>13, <1>14, <1>15 DEF TreeInv

\* Who had a connection to a process that is killed is widowed.
LEMMA DiesTree == ASSUME ConnInv, TreeInv, NEW n \in Node, Dies(n) PROVE TreeInv'
<1>1. Ends(n, chan) /\ chan \in Queues
  BY DEF Dies, ConnInv, TypeOK
<1>2. /\ \A x \in End : Widowed(x) /\ x[1] # n => Widowed(x)'
      /\ \A x \in Live : x[1] # n /\ x[2] # n => x \in Live'
      /\ OnePiece' => TreeInv'
  BY <1>1, EndsTree
<1>3. SUFFICES ASSUME NEW part \in SUBSET (alive'), part \notin {{}, alive'}
               PROVE  Broken(part)' \/ Leads(part)'
  BY <1>2 DEF OnePiece
<1>4. /\ alive' = alive \ {n} /\ part \subseteq alive /\ n \notin part /\ n \in alive
      /\ listed' = listed \ EndsOf(n) /\ connected' = connected \ EndsOf(n)
      /\ listens' = listens \ EndsOf(n)
      /\ \A x \in End : x[1] # n => chan'[x] = chan[x]
  BY <1>1 DEF Ends, EndsOf, Dies
<1>5. Broken(part) \/ Leads(part)
  BY <1>3, <1>4 DEF TreeInv, OnePiece
<1>6. CASE Broken(part)
  BY <1>2, <1>4, <1>6 DEF Broken
<1>7. ASSUME NEW x \in Live, x[1] \in part, x[2] \in alive \ part
      PROVE  Broken(part)' \/ Leads(part)'
  <2>1. x \in End /\ x \in listens /\ Other(x) \in listens /\ Other(x) \in End /\ Other(x)[1] = x[2]
        /\ x \in listed \cap connected
    BY EndParts DEF Live, ConnInv, TypeOK, Listening
  <2>2. CASE x[2] # n
    BY <1>2, <1>4, <1>7, <2>2 DEF Leads
  <2>3. CASE x[2] = n
    <3>1. ~On(chan[x], Disconnect)
      BY <2>1 DEF TreeInv, NoBye
    <3>2. x[1] # n
      BY <1>4, <1>7
    <3>3. Widowed(x)'
      BY <1>4, <2>1, <2>3, <3>1, <3>2 DEF Widowed, EndsOf
    <3>. QED  BY <1>7, <2>1, <3>3 DEF Broken
  <2>. QED  BY <2>2, <2>3
<1>. QED  BY <1>5, <1>6, <1>7 DEF Leads

\* Who has one peer at most connects no others.
LEMMA LeaveTree == ASSUME ConnInv, TreeInv, NEW n \in Node, Leave(n) PROVE TreeInv'
<1>1. PICK P \in SUBSET End : P = ConnectedPeers(n)
  BY DEF ConnInv, TypeOK, ConnectedPeers
<1>2. PICK ch \in Queues : ch = SendOn(chan, P, Disconnect)
  BY <1>1, LeaveSends
<1>3. Ends(n, ch) /\ Cardinality(P) <= 1 /\ n \in alive
  BY <1>1, <1>2 DEF Leave
<1>4. \A x, y \in P : x = y
  <2>1. IsFiniteSet(P) /\ Cardinality(P) \in Nat
    BY EndFinite, FS_Subset, FS_CardinalityType
  <2>2. ASSUME NEW x \in P, NEW y \in P, x # y PROVE FALSE
    <3>1. Cardinality(P \ {x}) = Cardinality(P) - 1 /\ IsFiniteSet(P \ {x})
      BY <2>1, FS_RemoveElement
    <3>2. Cardinality(P \ {x}) = 0
      BY <1>3, <2>1, <3>1, FS_CardinalityType
    <3>. QED  BY <2>2, <3>1, <3>2, FS_EmptySet
  <2>. QED  BY <2>2
<1>5. \A x \in End : On(ch[x], Disconnect) =>
         On(chan[x], Disconnect) \/ (x[2] = n /\ Other(x) \in listens)
  <2>1. chan \in Queues /\ Disconnect \in Message
    BY MessageTypes DEF ConnInv, TypeOK
  <2>2. \A x \in End : On(SendOn(chan, P, Disconnect)[x], Disconnect) =>
           On(chan[x], Disconnect) \/ Reaches(P, x)
    BY <2>1, OnSent
  <2>3. ASSUME NEW x \in End, Reaches(P, x) PROVE x[2] = n /\ Other(x) \in listens
    <3>1. PICK y \in P : sock[y] # NoEntry /\ sock[y] = Other(x)
      BY <2>3 DEF Reaches
    <3>2. sock[y][1] = y[1] /\ sock[y] \in listens /\ y[1] = n
      BY <1>1, <3>1 DEF TreeInv, SockOwn, ConnectedPeers, EndsOf
    <3>. QED  BY <3>1, <3>2, EndParts
  <2>. QED  BY <1>2, <2>2, <2>3
<1>6. /\ \A x \in End : Widowed(x) /\ x[1] # n => Widowed(x)'
      /\ \A x \in Live : x[1] # n /\ x[2] # n => x \in Live'
      /\ OnePiece' => TreeInv'
  BY <1>3, <1>5, EndsTree
<1>7. SUFFICES ASSUME NEW part \in SUBSET (alive'), part \notin {{}, alive'}
               PROVE  Broken(part)' \/ Leads(part)'
  BY <1>6 DEF OnePiece
<1>8. /\ alive' = alive \ {n} /\ part \subseteq alive /\ n \notin part
  BY <1>3 DEF Ends
<1>9. \A x \in Live : /\ x \in End /\ Other(x) \in Live /\ Other(x)[1] = x[2] /\ Other(x)[2] = x[1]
                      /\ x[1] = n => x \in P
  BY <1>1, EndParts DEF Live, ConnInv, TypeOK, Listening, ConnectedPeers, EndsOf
<1>10. Broken(part) \/ Leads(part)
  BY <1>3, <1>7, <1>8 DEF TreeInv, OnePiece
<1>11. CASE Broken(part)
  BY <1>6, <1>8, <1>11 DEF Broken
<1>12. ASSUME NEW x \in Live, x[1] \in part, x[2] \in alive \ part
       PROVE  Broken(part)' \/ Leads(part)'
  <2>1. CASE x[2] # n
    BY <1>6, <1>8, <1>12, <2>1 DEF Leads
  <2>2. CASE x[2] = n
    <3>1. PICK more \in SUBSET alive : more = part \cup {n}
      BY <1>3, <1>8
    <3>2. more \notin {{}, alive}
      BY <1>7, <1>8, <3>1
    <3>3. Broken(more) \/ Leads(more)
      BY <3>2 DEF TreeInv, OnePiece
    <3>4. Other(x) \in P /\ Other(x) \in listens /\ x \in listens
      BY <1>9, <2>2 DEF Live
    <3>5. ASSUME NEW y \in End, Widowed(y), y[1] \in more PROVE y[1] \in part
      <4>1. y[1] = n => y \in P
        BY <1>1, <3>5 DEF Widowed, ConnectedPeers, EndsOf
      <4>2. y # Other(x)
        BY <1>9, <3>4, <3>5, EndParts DEF Widowed
      <4>. QED  BY <1>4, <3>1, <3>4, <3>5, <4>1, <4>2
    <3>6. CASE Broken(more)
      BY <1>6, <1>8, <3>5, <3>6 DEF Broken
    <3>7. ASSUME NEW y \in Live, y[1] \in more, y[2] \in alive \ more
          PROVE  Leads(part)'
      <4>1. y[1] # n
        BY <1>4, <1>9, <1>12, <2>2, <3>1, <3>4, <3>7
      <4>. QED  BY <1>6, <1>8, <3>1, <3>7, <4>1 DEF Leads
    <3>. QED  BY <3>3, <3>6, <3>7 DEF Leads
  <2>. QED  BY <2>1, <2>2
<1>. QED  BY <1>10, <1>11, <1>12 DEF Leads

\* The searching node comes back as a leaf at Entry.
LEMMA RestartTree == ASSUME ConnInv, TreeInv, Restart PROVE TreeInv'
<1>1. PICK out \in End, in \in End :
        /\ out = <<Searcher, Entry, life + 1>> /\ in = Other(out)
        /\ {out, in} \cap listed = {} /\ chan[out] = <<>> /\ chan[in] = <<>>
        /\ listed' = listed \cup {out, in} /\ connected' = connected \cup {out, in}
        /\ listens' = listens \cup {out, in} /\ alive' = alive \cup {Searcher}
        /\ sock'[out] = out /\ sock'[in] = in
        /\ \A x \in End \ {out, in} : sock'[x] = sock[x] \/ (sock'[x] = in /\ x[1] = Entry)
        /\ UNCHANGED <<chan, search, used>>
  BY RestartMakes
<1>2. /\ Searcher \notin alive /\ Entry \in alive
      /\ \A x \in End : sock'[x] = sock[x] \/ (sock'[x] = in /\ x[1] = Entry) \/ x \in {out, in}
  BY <1>1 DEF Restart
<1>3. /\ out[1] = Searcher /\ out[2] = Entry /\ in[1] = Entry /\ in[2] = Searcher
      /\ out = Other(in) /\ Searcher # Entry /\ Searcher \in Node /\ Entry \in Node
  BY <1>1, EndParts, ChurnAssumption
<1>4. \A x \in listed \cup listens :
         /\ x \in End /\ x[1] # Searcher /\ x[1] \in alive /\ x \notin {out, in}
         /\ Other(x) \notin {out, in}
  <2>1. \A x \in listens : x \in listed
    BY DEF ConnInv, Listening
  <2>2. \A x \in listed : x \in End /\ x[1] \in alive
    BY DEF ConnInv, TypeOK, TreeInv, AliveListed
  <2>3. \A x \in End : Other(x) \in {out, in} => x \in {out, in}
    BY <1>1, EndParts
  <2>. QED  BY <1>1, <1>2, <2>1, <2>2, <2>3
<1>5. \A x \in Live : /\ x \in End /\ x \in listens /\ x[1] # Searcher /\ x[2] # Searcher
                      /\ x[1] \in alive /\ x[2] \in alive
  BY <1>4, EndParts DEF Live
<1>6. Live' = Live \cup {out, in}
  <2>1. \A x : x \in Live' <=> x \in Live \cup {out, in}
    BY <1>1, <1>3, <1>4 DEF Live
  <2>. QED  BY <2>1
<1>7. AliveListed' /\ Lifeless'
  BY <1>1, <1>2, <1>3, <1>4 DEF AliveListed, Lifeless
<1>8. SockOwn'
  <2>1. \A x \in End : sock[x] # NoEntry => sock[x][1] = x[1] /\ sock[x] \in listens
    BY DEF TreeInv, SockOwn
  <2>. QED  BY <1>1, <1>2, <1>3, <2>1 DEF SockOwn
<1>9. NoBye'
  <2>1. \A x \in {out, in} : ~On(chan'[x], Disconnect)
    <3>1. ~On(<<>>, Disconnect)
      BY DEF On
    <3>. QED  BY <1>1, <3>1
  <2>. QED  BY <1>1, <1>4, <2>1 DEF TreeInv, NoBye
<1>10. Bridges'
  <2>1. SUFFICES ASSUME NEW e \in Live \cup {out, in}
                 PROVE  \E part \in SUBSET Node : OnlyOut(e, part, Live \cup {out, in})
    BY <1>6 DEF Bridges
  <2>2. CASE e = out
    <3>1. OnlyOut(out, {Searcher}, Live \cup {out, in})
      BY <1>3, <1>5 DEF OnlyOut
    <3>. QED  BY <1>3, <2>2, <3>1
  <2>3. CASE e = in
    <3>1. \A x \in Live : x[2] \in Node
      BY <1>5, EndParts
    <3>2. OnlyOut(in, Node \ {Searcher}, Live \cup {out, in})
      BY <1>3, <1>5, <3>1 DEF OnlyOut
    <3>. QED  BY <2>3, <3>2
  <2>4. CASE e \in Live
    <3>1. PICK old \in SUBSET Node : OnlyOut(e, old, Live)
      BY <2>4 DEF TreeInv, Bridges
    <3>2. PICK part \in SUBSET Node :
             part = IF Entry \in old THEN old \cup {Searcher} ELSE old \ {Searcher}
      BY <1>3
    <3>3. \A m : m # Searcher => (m \in part <=> m \in old)
      BY <3>2
    <3>4. Searcher \in part <=> Entry \in part
      BY <1>3, <3>2
    <3>5. OnlyOut(e, part, Live \cup {out, in})
      BY <1>3, <1>5, <2>4, <3>1, <3>3, <3>4 DEF OnlyOut
    <3>. QED  BY <3>5
  <2>. QED  BY <2>2, <2>3, <2>4
<1>11. OnePiece'
  <2>1. SUFFICES ASSUME NEW part \in SUBSET (alive \cup {Searcher}),
                        part \notin {{}, alive \cup {Searcher}}
                 PROVE  Broken(part)' \/ Leads(part)'
    BY <1>1 DEF OnePiece
  <2>2. PICK old \in SUBSET alive : old = part \ {Searcher}
    BY <2>1
  <2>3. out \in Live' /\ in \in Live'
    BY <1>6
  <2>4. CASE old = {}
    <3>1. out[1] \in part /\ out[2] \in alive' \ part
      BY <1>1, <1>2, <1>3, <2>1, <2>2, <2>4
    <3>. QED  BY <2>3, <3>1 DEF Leads
  <2>5. CASE old = alive
    <3>1. in[1] \in part /\ in[2] \in alive' \ part
      BY <1>1, <1>2, <1>3, <2>1, <2>2, <2>5
    <3>. QED  BY <2>3, <3>1 DEF Leads
  <2>6. CASE Broken(old)
    <3>1. PICK x \in End : Widowed(x) /\ x[1] \in old
      BY <2>6 DEF Broken
    <3>2. Widowed(x)'
      BY <1>1, <1>4, <3>1 DEF Widowed
    <3>. QED  BY <2>2, <3>1, <3>2 DEF Broken
  <2>7. CASE Leads(old)
    <3>1. PICK x \in Live : x[1] \in old /\ x[2] \in alive \ old
      BY <2>7 DEF Leads
    <3>2. x \in Live' /\ x[1] \in part /\ x[2] \in alive' \ part
      BY <1>1, <1>5, <1>6, <2>2, <3>1
    <3>. QED  BY <3>2 DEF Leads
  <2>. QED  BY <2>4, <2>5, <2>6, <2>7 DEF TreeInv, OnePiece
<1>12. HolderLeaf'
  <2>1. SUFFICES ASSUME NEW m \in Node, NEW n \in Node, m # n, Holds[m] \cap Holds[n] # {},
                        m # Searcher, NEW x \in Live', NEW y \in Live', x[1] = m, y[1] = m
                 PROVE  x = y
    BY DEF HolderLeaf
  <2>2. m # Entry
    BY <2>1 DEF TreeInv, HoldersApart
  <2>3. x \in Live /\ y \in Live
    BY <1>3, <1>6, <2>1, <2>2
  <2>. QED  BY <2>1, <2>3 DEF TreeInv, HolderLeaf
<1>13. HoldersApart'
  BY DEF TreeInv, HoldersApart
<1>. QED  BY <1>7, <1>8, <1>9, <1>10, <1>11, <1>12, <1>13 DEF TreeInv

LEMMA TreeStep == ConnInv /\ TreeInv /\ [Next]_vars => TreeInv'
<1>. SUFFICES ASSUME ConnInv, TreeInv, [Next]_vars PROVE TreeInv'
  OBVIOUS
<1>1. ASSUME NEW e \in End, Listener(e) PROVE TreeInv'
  BY <1>1, ReqProcessedTree, ReqAnsweredTree, ReqForwardTree, RespRelayedTree,
     RespToCreatorTree, HearDisconnectTree, HearResetTree,
     DyingSteps, DiesTree DEF Listener
<1>2. CASE UNCHANGED vars
  BY <1>2, TreeQuiet DEF vars, search, TreeInv, Lifeless
<1>. QED
  BY <1>1, <1>2, AttemptTree, WakeTree, RestartTree, MonitorFreesTree, LeaveTree,
     DyingSteps, DiesTree
     DEF Next

\* On a tree no connection is ever on a cycle, and the nodes that run stay connected, unless
\* one has a peer that died and, as its flag is still set, is never freed
\* (p2p-server.cpp:309).
THEOREM TreeHolds == Tree /\ HoldersApart /\ Spec => []TreeInv
BY TreeInit, TreeStep, ConnHolds, PTL DEF Spec

----------------------------------------------------------------------------
(* A search that every peer can answer, with an id that is new.            *)

Fresh(s) == created[s] # NoEntry /\ created[s].calm

\* Somebody has heard of s.
Heard(s) ==
    \/ \E n \in Node : fwd[n][s] # NoEntry
    \/ \E r \in End, w \in Word : On(chan[r], Request(s, w))
    \/ \E r \in End, hits \in SUBSET Hit : On(chan[r], Response(s, hits))

Spent(s) == s \in used \/ s <= counter

IdsKnown == \A s \in Sid : Heard(s) => Spent(s)

Undisturbed == \A s \in Sid : Fresh(s) => Calm

FreshInv == IdsKnown /\ Undisturbed

LEMMA FreshInit == Init => FreshInv
<1>. SUFFICES ASSUME Init PROVE FreshInv
  OBVIOUS
<1>1. \A r \in End : \A m : ~On(chan[r], m)
  BY DEF Init, On
<1>2. IdsKnown
  BY <1>1 DEF Init, NoSearches, IdsKnown, Heard
<1>. QED  BY <1>2 DEF Init, NoSearches, FreshInv, Undisturbed, Fresh

\* What a step of the search does to the list of searches.
SameSearch(s) ==
    /\ created'[s] = NoEntry <=> created[s] = NoEntry
    /\ created[s] # NoEntry => /\ created'[s].word = created[s].word
                               /\ created'[s].calm = created[s].calm
                               /\ created[s].hits \subseteq created'[s].hits
                               /\ created[s].status = "FAILED" => created'[s].status = "FAILED"

LEMMA WakeSearch == ASSUME ConnInv, Wake, NEW s \in Sid PROVE SameSearch(s)
<1>1. counter \in Sid /\ created[counter] \in Searches
  BY DEF ConnInv, TypeOK, Sleeping, Wake
<1>2. PICK found : found = [created[counter] EXCEPT !.status = IF @ = "ACTIVE" THEN "FAILED" ELSE @]
  OBVIOUS
<1>3. /\ found \in Searches /\ found.word = created[counter].word
      /\ found.calm = created[counter].calm /\ found.hits = created[counter].hits
      /\ created[counter].status = "FAILED" => found.status = "FAILED"
  BY <1>1, <1>2 DEF Searches
<1>4. found # NoEntry /\ created[counter] # NoEntry
  BY <1>1, <1>3, NoEntryAssumption
<1>5. created' = [created EXCEPT ![counter] = found] /\ created \in [Sid -> Searches \cup {NoEntry}]
  BY <1>1, <1>2 DEF Wake, ConnInv, TypeOK
<1>6. created'[s] = IF s = counter THEN found ELSE created[s]
  BY <1>1, <1>5
<1>. QED  BY <1>3, <1>4, <1>6 DEF SameSearch

\* A reply to the searching node.
LEMMA CreatorTakes ==
    ASSUME ConnInv, NEW e \in End, RespToCreator(e), NEW s \in Sid
    PROVE  /\ SameSearch(s)
           /\ /\ Head(chan[e]).sid = s /\ e[1] = Searcher
              /\ created[s] # NoEntry /\ created[s].status # "FAILED"
              => Head(chan[e]).hits \subseteq created'[s].hits
<1>1. PICK t \in Sid, more \in SUBSET Hit :
         t = Head(chan[e]).sid /\ more = Head(chan[e]).hits
  BY ReadMessage DEF RespToCreator
<1>2. \/ created' = created /\ ~(e[1] = Searcher /\ created[t] # NoEntry /\ created[t].status # "FAILED")
      \/ /\ created[t] # NoEntry /\ created[t].status # "FAILED"
         /\ created' = [created EXCEPT ![t].status = IF more # {} THEN "SUCCESS" ELSE @,
                                       ![t].hits = @ \cup more]
  BY <1>1 DEF RespToCreator
<1>3. CASE created' = created /\ ~(e[1] = Searcher /\ created[t] # NoEntry /\ created[t].status # "FAILED")
  BY <1>1, <1>3 DEF SameSearch
<1>4. CASE /\ created[t] # NoEntry /\ created[t].status # "FAILED"
           /\ created' = [created EXCEPT ![t].status = IF more # {} THEN "SUCCESS" ELSE @,
                                         ![t].hits = @ \cup more]
  <2>1. created \in [Sid -> Searches \cup {NoEntry}] /\ created[t] \in Searches
    BY <1>4 DEF ConnInv, TypeOK
  <2>2. PICK found : found = [created[t] EXCEPT !.status = IF more # {} THEN "SUCCESS" ELSE @,
                                                !.hits = @ \cup more]
    OBVIOUS
  <2>3. /\ found \in Searches /\ found.word = created[t].word /\ found.calm = created[t].calm
        /\ found.hits = created[t].hits \cup more
    BY <2>1, <2>2 DEF Searches
  <2>4. found # NoEntry
    BY <2>3, NoEntryAssumption
  <2>5. created' = [created EXCEPT ![t] = found]
    BY <1>4, <2>1, <2>2 DEF Searches
  <2>6. created'[s] = IF s = t THEN found ELSE created[s]
    BY <2>1, <2>5
  <2>. QED  BY <1>1, <1>4, <2>3, <2>4, <2>6 DEF SameSearch
<1>. QED  BY <1>2, <1>3, <1>4

\* An attempt has the next id.
LEMMA AttemptMakes ==
    ASSUME ConnInv, NEW w \in Word, Attempt(w)
    PROVE  \E s \in Sid : 
             /\ s = counter + 1 /\ counter' = s /\ s \in Nat /\ Searcher \in alive
             /\ w \notin Holds[Searcher]
             /\ created'[s] # NoEntry /\ created'[s].word = w /\ created'[s].hits = {}
             /\ created'[s].calm <=> Calm /\ s \notin used
             /\ \A t \in Sid \ {s} : created'[t] = created[t]
             /\ chan' = SendOn(chan, ConnectedPeers(Searcher), Request(s, w))
             /\ UNCHANGED <<alive, life, conns, fwd, used, reused>>
<1>1. PICK s \in Nat : s = counter + 1
  BY DEF ConnInv, TypeOK
<1>2. s \in Sid
  <2>1. life \in 1..MaxLives /\ MaxSid[life] \in Nat /\ counter \in Nat
    BY ChurnAssumption DEF ConnInv, TypeOK
  <2>2. s \in 1..MaxSid[life]
    BY <1>1, <2>1 DEF Attempt
  <2>. QED  BY <2>1, <2>2 DEF Sid
<1>3. PICK new : new = [status |-> "ACTIVE", hits |-> {}, word |-> w, calm |-> Calm /\ s \notin used]
  OBVIOUS
<1>4. new \in Searches /\ new.word = w /\ new.hits = {} /\ (new.calm <=> Calm /\ s \notin used)
  BY <1>3 DEF Searches
<1>5. new # NoEntry
  BY <1>4, NoEntryAssumption
<1>6. created' = [created EXCEPT ![s] = new] /\ created \in [Sid -> Searches \cup {NoEntry}]
  BY <1>1, <1>3 DEF Attempt, ConnInv, TypeOK
<1>7. created'[s] = new /\ \A t \in Sid \ {s} : created'[t] = created[t]
  BY <1>2, <1>6
<1>8. /\ counter' = s /\ Searcher \in alive /\ w \notin Holds[Searcher]
      /\ chan' = SendOn(chan, ConnectedPeers(Searcher), Request(s, w))
      /\ UNCHANGED <<alive, life, conns, fwd, used, reused>>
  BY <1>1 DEF Attempt
<1>. QED  BY <1>1, <1>2, <1>4, <1>5, <1>7, <1>8

\* Steps of a search.
SearchStep ==
    \/ \E w \in Word : Attempt(w)
    \/ Wake
    \/ \E e \in End : \/ ReqProcessed(e) \/ ReqAnswered(e) \/ ReqForward(e)
                      \/ RespRelayed(e) \/ RespToCreator(e)

LEMMA SearchStepKeeps == SearchStep => UNCHANGED <<alive, conns>>
BY DEF SearchStep, Attempt, Wake, ReqProcessed, ReqAnswered, ReqForward, RespRelayed,
       RespToCreator

\* While every peer can answer nothing else happens: no connection ends unless a process
\* does, and then no search goes undisturbed.
LEMMA FreshStep ==
    ASSUME ConnInv, TreeInv, FreshInv, Next, NEW s \in Sid, Fresh(s)'
    PROVE  SearchStep
<1>1. ASSUME NEW e \in End, HearDisconnect(e) \/ HearReset(e) \/ MonitorFrees(e)
      PROVE  ~Fresh(s)'
  <2>1. created' = created
    BY <1>1 DEF HearDisconnect, HearReset, MonitorFrees, search
  <2>2. ~Calm
    <3>1. CASE HearDisconnect(e)
      <4>1. e \in listens /\ On(chan[e], Disconnect)
        BY <3>1, ReadMessage DEF HearDisconnect
      <4>2. e \in listed /\ Other(e) \notin listens
        BY <4>1 DEF ConnInv, Listening, TreeInv, NoBye
      <4>. QED  BY <4>2 DEF Calm
    <3>2. CASE HearReset(e)
      BY <3>2 DEF HearReset, ConnInv, Listening, Calm
    <3>3. CASE MonitorFrees(e)
      BY <3>3 DEF MonitorFrees, Calm
    <3>. QED  BY <1>1, <3>1, <3>2, <3>3
  <2>3. ~Fresh(s)
    BY <2>2 DEF FreshInv, Undisturbed
  <2>. QED  BY <2>1, <2>3 DEF Fresh
<1>2. ASSUME NEW n \in Node, Leave(n) \/ Dies(n) PROVE ~Fresh(s)'
  <2>1. \E ch : Ends(n, ch)
    BY <1>2 DEF Leave, Dies
  <2>2. CASE n = Searcher
    BY <2>1, <2>2 DEF Ends, NoSearches, Fresh
  <2>3. CASE n # Searcher
    <3>1. created' = [t \in Sid |-> IF created[t] = NoEntry THEN NoEntry
                                    ELSE [created[t] EXCEPT !.calm = FALSE]]
      BY <2>1, <2>3 DEF Ends
    <3>2. created[s] # NoEntry => [created[s] EXCEPT !.calm = FALSE].calm = FALSE
      BY DEF ConnInv, TypeOK, Searches
    <3>. QED  BY <3>1, <3>2 DEF Fresh
  <2>. QED  BY <2>2, <2>3
<1>3. ASSUME Restart PROVE ~Fresh(s)'
  BY <1>3 DEF Restart, search, TreeInv, Lifeless, Fresh
<1>. QED  BY <1>1, <1>2, <1>3, DyingSteps DEF Next, Listener, SearchStep

LEMMA UndisturbedStep ==
    ASSUME ConnInv, TreeInv, FreshInv, [Next]_vars PROVE Undisturbed'
<1>. SUFFICES ASSUME NEW s \in Sid, Fresh(s)' PROVE Calm'
  BY DEF Undisturbed
<1>1. CASE UNCHANGED vars
  BY <1>1 DEF vars, conns, search, FreshInv, Undisturbed, Fresh, Calm
<1>2. CASE Next
  <2>1. SearchStep
    BY <1>2, FreshStep
  <2>2. UNCHANGED conns
    BY <2>1, SearchStepKeeps
  <2>3. Fresh(s) \/ Calm
    <3>1. ASSUME NEW w \in Word, Attempt(w) PROVE Fresh(s) \/ Calm
      BY <3>1, AttemptMakes DEF Fresh
    <3>2. CASE Wake
      BY <3>2, WakeSearch DEF SameSearch, Fresh
    <3>3. ASSUME NEW e \in End, RespToCreator(e) PROVE Fresh(s)
      BY <3>3, CreatorTakes DEF SameSearch, Fresh
    <3>4. ASSUME NEW e \in End,
                 ReqProcessed(e) \/ ReqAnswered(e) \/ ReqForward(e) \/ RespRelayed(e)
          PROVE  Fresh(s)
      BY <3>4 DEF ReqProcessed, ReqAnswered, ReqForward, RespRelayed, search, Fresh
    <3>. QED  BY <2>1, <3>1, <3>2, <3>3, <3>4 DEF SearchStep
  <2>4. Calm
    BY <2>3 DEF FreshInv, Undisturbed
  <2>. QED  BY <2>2, <2>4 DEF Calm, conns
<1>. QED  BY <1>1, <1>2

\* Nobody hears of an id that was not used.
LEMMA IdsStay ==
    ASSUME IdsKnown,
           \A s \in Sid : Spent(s) => Spent(s)',
           \A n \in Node, s \in Sid : fwd'[n][s] # NoEntry => Heard(s),
           \A r \in End, s \in Sid, w \in Word :
              On(chan'[r], Request(s, w)) => Heard(s) \/ Spent(s)',
           \A r \in End, s \in Sid, hits \in SUBSET Hit :
              On(chan'[r], Response(s, hits)) => Heard(s)
    PROVE  IdsKnown'
BY DEF IdsKnown, Heard

LEMMA HeardOn ==
    /\ \A r \in End, s \in Sid, w \in Word : On(chan[r], Request(s, w)) => Heard(s)
    /\ \A r \in End, s \in Sid, hits \in SUBSET Hit : On(chan[r], Response(s, hits)) => Heard(s)
    /\ \A n \in Node, s \in Sid : fwd[n][s] # NoEntry => Heard(s)
BY DEF Heard

\* What a listener sends is about the search it read about.
LEMMA IdsPassed ==
    ASSUME ConnInv, IdsKnown, NEW e \in End, chan[e] # <<>>, NEW E \in SUBSET End, NEW s \in Sid,
           NEW msg \in Message, Heard(s), chan' = SendOn(Consumed(e), E, msg),
           \A t \in Sid : /\ \A w \in Word : msg = Request(t, w) => t = s
                          /\ \A hits \in SUBSET Hit : msg = Response(t, hits) => t = s,
           \A n \in Node, t \in Sid : fwd'[n][t] # NoEntry => t = s \/ fwd[n][t] # NoEntry,
           UNCHANGED <<counter, used>>
    PROVE  IdsKnown'
<1>1. PassedOn(e, E, msg)
  BY OnAnswered DEF ConnInv, TypeOK
<1>2. \A r \in End : \A m : On(chan'[r], m) => On(chan[r], m) \/ m = msg
  BY <1>1 DEF PassedOn
<1>3. \A t \in Sid : Spent(t) => Spent(t)'
  BY DEF Spent
<1>4. \A n \in Node, t \in Sid : fwd'[n][t] # NoEntry => Heard(t)
  BY HeardOn
<1>5. \A r \in End, t \in Sid, w \in Word : On(chan'[r], Request(t, w)) => Heard(t)
  BY <1>2, HeardOn
<1>6. \A r \in End, t \in Sid, hits \in SUBSET Hit : On(chan'[r], Response(t, hits)) => Heard(t)
  BY <1>2, HeardOn
<1>. QED  BY <1>3, <1>4, <1>5, <1>6, IdsStay

\* Steps after which no more is on its way and nobody knows more.
LEMMA IdsLess ==
    ASSUME IdsKnown, \A s \in Sid : Spent(s) => Spent(s)',
           \A n \in Node, s \in Sid : fwd'[n][s] # NoEntry => fwd[n][s] # NoEntry,
           \A r \in End : \A m : m.type # "DISCONNECT" /\ On(chan'[r], m) => On(chan[r], m)
    PROVE  IdsKnown'
<1>1. \A n \in Node, s \in Sid : fwd'[n][s] # NoEntry => Heard(s)
  BY HeardOn
<1>2. \A r \in End, s \in Sid, w \in Word : On(chan'[r], Request(s, w)) => Heard(s)
  BY HeardOn, MessageNames
<1>3. \A r \in End, s \in Sid, hits \in SUBSET Hit : On(chan'[r], Response(s, hits)) => Heard(s)
  BY HeardOn, MessageNames
<1>. QED  BY <1>1, <1>2, <1>3, IdsStay

LEMMA EndsIds ==
    ASSUME ConnInv, IdsKnown, NEW n \in Node, NEW ch \in Queues, Ends(n, ch),
           \A r \in End : \A m : m.type # "DISCONNECT" => (On(ch[r], m) <=> On(chan[r], m))
    PROVE  IdsKnown'
<1>1. /\ chan' = [e \in End |-> IF e \in EndsOf(n) THEN <<>> ELSE ch[e]]
      /\ fwd' = [fwd EXCEPT ![n] = NoSearches]
  BY DEF Ends
<1>2. \A r \in End : \A m : m.type # "DISCONNECT" /\ On(chan'[r], m) => On(chan[r], m)
  <2>1. \A m : ~On(<<>>, m)
    BY DEF On
  <2>. QED  BY <1>1, <2>1
<1>3. \A m \in Node, s \in Sid : fwd'[m][s] # NoEntry => fwd[m][s] # NoEntry
  BY <1>1 DEF ConnInv, TypeOK, NoSearches
<1>4. \A s \in Sid : s \in Nat /\ s >= 1
  BY ChurnAssumption DEF Sid
<1>5. \A s \in Sid : Spent(s) => Spent(s)'
  <2>1. CASE n = Searcher
    BY <1>4, <2>1 DEF Ends, Spent, ConnInv, TypeOK
  <2>2. CASE n # Searcher
    BY <2>2 DEF Ends, Spent
  <2>. QED  BY <2>1, <2>2
<1>. QED  BY <1>2, <1>3, <1>5, IdsLess

LEMMA IdsStep ==
    ASSUME ConnInv, FreshInv, [Next]_vars PROVE IdsKnown'
<1>0. IdsKnown /\ chan \in Queues
  BY DEF FreshInv, ConnInv, TypeOK
<1>1. ASSUME NEW w \in Word, Attempt(w) PROVE IdsKnown'
  <2>1. PICK s \in Sid :
          /\ s = counter + 1 /\ counter' = s /\ s \in Nat /\ UNCHANGED <<fwd, used>>
          /\ chan' = SendOn(chan, ConnectedPeers(Searcher), Request(s, w))
    BY <1>1, AttemptMakes
  <2>2. PICK msg \in Message : msg = Request(s, w)
    BY MessageTypes
  <2>3. PICK P \in SUBSET End : P = ConnectedPeers(Searcher)
    BY DEF ConnInv, TypeOK, ConnectedPeers
  <2>4. PICK next : next = SendOn(chan, P, msg)
    OBVIOUS
  <2>5. \A r \in End : \A m : On(next[r], m) => On(chan[r], m) \/ m = msg
    <3>1. \A r \in End : \A m : On(SendOn(chan, P, msg)[r], m) <=>
             On(chan[r], m) \/ (Reaches(P, r) /\ m = msg)
      BY <1>0, OnSent
    <3>. QED  BY <2>4, <3>1
  <2>6. chan' = next
    BY <2>1, <2>2, <2>3, <2>4
  <2>7. \A t \in Sid : t \in Nat
    BY ChurnAssumption DEF Sid
  <2>8. \A t \in Sid : Spent(t) => Spent(t)'
    BY <2>1, <2>7 DEF Spent, ConnInv, TypeOK
  <2>9. Spent(s)'
    BY <2>1 DEF Spent
  <2>10. \A n \in Node, t \in Sid : fwd'[n][t] # NoEntry => Heard(t)
    BY <2>1, HeardOn
  <2>11. \A r \in End, t \in Sid, v \in Word :
            On(chan'[r], Request(t, v)) => Heard(t) \/ Spent(t)'
    BY <2>2, <2>5, <2>6, <2>9, HeardOn, RequestParts
  <2>12. \A r \in End, t \in Sid, hits \in SUBSET Hit :
            On(chan'[r], Response(t, hits)) => Heard(t)
    BY <2>2, <2>5, <2>6, HeardOn, RequestParts
  <2>. QED  BY <1>0, <2>8, <2>10, <2>11, <2>12, IdsStay
<1>2. ASSUME UNCHANGED <<fwd, counter, used>>,
             \A r \in End : \A m : On(chan'[r], m) => On(chan[r], m)
      PROVE  IdsKnown'
  <2>1. \A t \in Sid : Spent(t) => Spent(t)'
    BY <1>2 DEF Spent
  <2>. QED  BY <1>0, <1>2, <2>1, IdsLess
<1>3. ASSUME NEW e \in End, ReqProcessed(e) \/ ReqAnswered(e) PROVE IdsKnown'
  <2>1. PICK s \in Sid, w \in Word :
          chan[e] # <<>> /\ s = Head(chan[e]).sid /\ w = Head(chan[e]).word
          /\ On(chan[e], Request(s, w)) /\ e[1] \in Node
    BY <1>3, ReadMessage, EndParts DEF ReqProcessed, ReqAnswered
  <2>2. PICK hits \in SUBSET Hit :
          /\ chan' = SendOn(Consumed(e), {e}, Response(s, hits))
          /\ fwd' = fwd \/ fwd' = [fwd EXCEPT ![e[1]][s] = Relay(e, FALSE)]
          /\ UNCHANGED <<counter, used>>
    <3>1. CASE ReqProcessed(e)
      BY <2>1, <3>1 DEF ReqProcessed, search
    <3>2. CASE ReqAnswered(e)
      <4>1. {<<e[1], w>>} \cap (Node \X Holds[e[1]]) \in SUBSET Hit
        BY <2>1 DEF Hit
      <4>. QED  BY <2>1, <3>2, <4>1 DEF ReqAnswered, search
    <3>. QED  BY <1>3, <3>1, <3>2
  <2>3. PICK msg \in Message : msg = Response(s, hits)
    BY MessageTypes
  <2>4. Heard(s)
    BY <2>1, HeardOn
  <2>5. \A n \in Node, t \in Sid : fwd'[n][t] # NoEntry => t = s \/ fwd[n][t] # NoEntry
    BY <2>1, <2>2 DEF ConnInv, TypeOK
  <2>6. \A t \in Sid : /\ \A v \in Word : msg = Request(t, v) => t = s
                       /\ \A h \in SUBSET Hit : msg = Response(t, h) => t = s
    BY <2>3, RequestParts, ResponseParts
  <2>. QED  BY <1>0, <2>1, <2>2, <2>3, <2>4, <2>5, <2>6, IdsPassed
<1>4. ASSUME NEW e \in End, ReqForward(e) PROVE IdsKnown'
  <2>1. PICK s \in Sid, w \in Word, msg \in Message :
          chan[e] # <<>> /\ s = Head(chan[e]).sid /\ msg = Head(chan[e])
          /\ msg = Request(s, w) /\ On(chan[e], Request(s, w)) /\ e[1] \in Node
    BY <1>4, ReadMessage, EndParts DEF ReqForward
  <2>2. PICK E \in SUBSET End : E = ForwardTo(e)
    BY DEF ConnInv, TypeOK, ForwardTo, ConnectedPeers
  <2>3. /\ chan' = SendOn(Consumed(e), E, msg) /\ UNCHANGED <<counter, used>>
        /\ fwd' = [fwd EXCEPT ![e[1]][s] = Relay(e, TRUE)]
    BY <1>4, <2>1, <2>2 DEF ReqForward, search
  <2>4. Heard(s)
    BY <2>1, HeardOn
  <2>5. \A n \in Node, t \in Sid : fwd'[n][t] # NoEntry => t = s \/ fwd[n][t] # NoEntry
    BY <2>1, <2>3 DEF ConnInv, TypeOK
  <2>6. \A t \in Sid : /\ \A v \in Word : msg = Request(t, v) => t = s
                       /\ \A h \in SUBSET Hit : msg = Response(t, h) => t = s
    BY <2>1, RequestParts
  <2>. QED  BY <1>0, <2>1, <2>3, <2>4, <2>5, <2>6, IdsPassed
<1>5. ASSUME NEW e \in End, RespRelayed(e) PROVE IdsKnown'
  <2>1. PICK s \in Sid, n \in Node, more \in SUBSET Hit :
          /\ chan[e] # <<>> /\ On(chan[e], Response(s, more))
          /\ s = Head(chan[e]).sid /\ n = e[1] /\ fwd'[n][s] \in Relays
          /\ \A m \in Node, t \in Sid : ~(m = n /\ t = s) => fwd'[m][t] = fwd[m][t]
          /\ chan' = IF fwd'[n][s].received = fwd'[n][s].needed
                     THEN SendOn(Consumed(e), {fwd[n][s].upstream} \cap listed,
                                 Response(s, fwd'[n][s].hits))
                     ELSE Consumed(e)
    <3>1. Receives(e, "RESP")
      BY <1>5 DEF RespRelayed
    <3>2. PICK t \in Sid, more \in SUBSET Hit :
            chan[e] # <<>> /\ t = Head(chan[e]).sid /\ On(chan[e], Response(t, more))
      BY <3>1, ReadMessage
    <3>. QED  BY <1>5, <3>2, RelayedEntry
  <2>2. PICK hits \in SUBSET Hit : hits = fwd'[n][s].hits
    BY <2>1 DEF Relays
  <2>3. PICK E \in SUBSET End : E = {fwd[n][s].upstream} \cap listed
    BY DEF ConnInv, TypeOK
  <2>4. PICK msg \in Message : msg = Response(s, hits)
    BY MessageTypes
  <2>5. Heard(s) /\ UNCHANGED <<counter, used>>
    BY <1>5, <2>1, HeardOn DEF RespRelayed, search
  <2>6. \A m \in Node, t \in Sid : fwd'[m][t] # NoEntry => t = s \/ fwd[m][t] # NoEntry
    BY <2>1
  <2>7. CASE chan' = SendOn(Consumed(e), E, msg)
    <3>1. \A t \in Sid : /\ \A v \in Word : msg = Request(t, v) => t = s
                         /\ \A h \in SUBSET Hit : msg = Response(t, h) => t = s
      BY <2>4, RequestParts, ResponseParts
    <3>. QED  BY <1>0, <2>1, <2>5, <2>6, <2>7, <3>1, IdsPassed
  <2>8. CASE chan' = Consumed(e)
    <3>1. \A r \in End : \A m : On(chan'[r], m) => On(chan[r], m)
      BY <1>0, <2>1, <2>8, OnConsumed
    <3>2. \A t \in Sid : Spent(t) => Spent(t)'
      BY <2>5 DEF Spent
    <3>3. \A m \in Node, t \in Sid : fwd'[m][t] # NoEntry => Heard(t)
      BY <2>5, <2>6, HeardOn
    <3>. QED  BY <1>0, <3>1, <3>2, <3>3, HeardOn, IdsStay
  <2>. QED  BY <2>1, <2>2, <2>3, <2>4, <2>7, <2>8
<1>6. ASSUME NEW e \in End, RespToCreator(e) \/ HearDisconnect(e) PROVE IdsKnown'
  <2>1. chan[e] # <<>> /\ chan' = Consumed(e) /\ UNCHANGED <<fwd, counter, used>>
    BY <1>6 DEF RespToCreator, HearDisconnect, Receives, search
  <2>. QED  BY <1>0, <1>2, <2>1, OnConsumed
<1>7. ASSUME NEW e \in End, HearReset(e) \/ MonitorFrees(e) PROVE IdsKnown'
  BY <1>2, <1>7 DEF HearReset, MonitorFrees, search
<1>8. CASE Wake \/ UNCHANGED vars
  BY <1>2, <1>8 DEF Wake, vars, search
<1>9. CASE Restart
  <2>1. \A n \in Node, t \in Sid : fwd'[n][t] # NoEntry => fwd[n][t] # NoEntry
    <3>1. \E in : Taken(in)
      BY <1>9, RestartMakes DEF IdsKnown
    <3>. QED  BY <3>1 DEF Taken
  <2>2. UNCHANGED <<chan, counter, used>>
    BY <1>9 DEF Restart, search
  <2>. QED  BY <1>0, <2>1, <2>2, IdsLess DEF Spent
<1>10. ASSUME NEW n \in Node, Leave(n) PROVE IdsKnown'
  <2>1. PICK ch \in Queues : Ends(n, ch)
           /\ \A r \in End : \A m : m.type # "DISCONNECT" => (On(ch[r], m) <=> On(chan[r], m))
    BY <1>10, LeaveSends DEF Leave
  <2>. QED  BY <1>0, <2>1, EndsIds
<1>11. ASSUME NEW n \in Node, Dies(n) PROVE IdsKnown'
  BY <1>0, <1>11, EndsIds DEF Dies
<1>. QED
  BY <1>1, <1>3, <1>4, <1>5, <1>6, <1>7, <1>8, <1>9, <1>10, <1>11, DyingSteps
     DEF Next, Listener

LEMMA FreshInvStep == ConnInv /\ TreeInv /\ FreshInv /\ [Next]_vars => FreshInv'
BY IdsStep, UndisturbedStep DEF FreshInv

----------------------------------------------------------------------------
(* What is on its way, message by message.                                 *)

Is(msg, type, s) == msg.type = type /\ msg.sid = s
Has(q, type, s) == \E i \in 1..Len(q) : Is(q[i], type, s)
Once(q, type, s) == \A i, j \in 1..Len(q) : Is(q[i], type, s) /\ Is(q[j], type, s) => i = j

LEMMA HasTail ==
    ASSUME NEW q \in Seq(Message), q # <<>>, NEW type, NEW s
    PROVE  /\ Has(q, type, s) <=> Is(Head(q), type, s) \/ Has(Tail(q), type, s)
           /\ Once(q, type, s) => Once(Tail(q), type, s)
           /\ Once(q, type, s) /\ Is(Head(q), type, s) => ~Has(Tail(q), type, s)
<1>1. /\ Len(q) \in Nat \ {0} /\ Head(q) = q[1] /\ Len(Tail(q)) = Len(q) - 1
      /\ \A i \in 1..Len(Tail(q)) : Tail(q)[i] = q[i + 1]
  OBVIOUS
<1>2. \A i \in 1..Len(Tail(q)) : i + 1 \in 1..Len(q) /\ i + 1 # 1
  BY <1>1
<1>3. \A i \in 1..Len(q) : i # 1 => i - 1 \in 1..Len(Tail(q)) /\ (i - 1) + 1 = i
  BY <1>1
<1>4. 1 \in 1..Len(q)
  BY <1>1
<1>5. ASSUME Has(q, type, s), ~Is(Head(q), type, s) PROVE Has(Tail(q), type, s)
  <2>1. PICK i \in 1..Len(q) : Is(q[i], type, s)
    BY <1>5 DEF Has
  <2>2. i # 1
    BY <1>1, <1>5, <2>1
  <2>3. i - 1 \in 1..Len(Tail(q)) /\ Tail(q)[i - 1] = q[i]
    BY <1>1, <1>3, <2>2
  <2>. QED  BY <2>1, <2>3 DEF Has
<1>6. Has(Tail(q), type, s) => Has(q, type, s)
  BY <1>1, <1>2 DEF Has
<1>7. Is(Head(q), type, s) => Has(q, type, s)
  BY <1>1, <1>4 DEF Has
<1>8. ASSUME Once(q, type, s) PROVE Once(Tail(q), type, s)
  <2>1. ASSUME NEW i \in 1..Len(Tail(q)), NEW j \in 1..Len(Tail(q)),
               Is(Tail(q)[i], type, s), Is(Tail(q)[j], type, s)
        PROVE  i = j
    <3>1. i + 1 = j + 1
      BY <1>1, <1>2, <1>8, <2>1 DEF Once
    <3>. QED  BY <3>1
  <2>. QED  BY <2>1 DEF Once
<1>9. ASSUME Once(q, type, s), Is(Head(q), type, s), Has(Tail(q), type, s) PROVE FALSE
  <2>1. PICK i \in 1..Len(Tail(q)) : Is(Tail(q)[i], type, s)
    BY <1>9 DEF Has
  <2>2. i + 1 = 1
    BY <1>1, <1>2, <1>4, <1>9, <2>1 DEF Once
  <2>. QED  BY <1>2, <2>2
<1>. QED  BY <1>5, <1>6, <1>7, <1>8, <1>9

LEMMA HasAppend ==
    ASSUME NEW q \in Seq(Message), NEW msg \in Message, NEW type, NEW s
    PROVE  /\ Has(Append(q, msg), type, s) <=> Has(q, type, s) \/ Is(msg, type, s)
           /\ Once(q, type, s) /\ ~(Is(msg, type, s) /\ Has(q, type, s)) =>
                 Once(Append(q, msg), type, s)
<1>. DEFINE longer == Append(q, msg)
<1>1. /\ Len(q) \in Nat /\ Len(longer) = Len(q) + 1 /\ longer[Len(q) + 1] = msg
      /\ \A i \in 1..Len(q) : longer[i] = q[i]
  OBVIOUS
<1>. HIDE DEF longer
<1>2. \A i : i \in 1..Len(longer) <=> i \in 1..Len(q) \/ i = Len(q) + 1
  BY <1>1
<1>3. Has(longer, type, s) <=> Has(q, type, s) \/ Is(msg, type, s)
  BY <1>1, <1>2 DEF Has
<1>4. ASSUME Once(q, type, s), ~(Is(msg, type, s) /\ Has(q, type, s)) PROVE Once(longer, type, s)
  BY <1>1, <1>2, <1>4 DEF Has, Once
<1>. QED  BY <1>3, <1>4 DEF longer

LEMMA HasOn ==
    ASSUME NEW q \in Seq(Message), NEW s \in Sid
    PROVE  /\ Has(q, "REQ", s) <=> \E w \in Word : On(q, Request(s, w))
           /\ Has(q, "RESP", s) <=> \E hits \in SUBSET Hit : On(q, Response(s, hits))
<1>1. \A i \in 1..Len(q) : q[i] \in Message
  OBVIOUS
<1>2. \A m \in Message : Is(m, "REQ", s) <=> \E w \in Word : m = Request(s, w)
  <2>1. \A m \in Message : m.type = "REQ" => m \in [type : {"REQ"}, sid : Sid, word : Word]
    BY DEF Message, Disconnect
  <2>2. \A m \in [type : {"REQ"}, sid : Sid, word : Word] :
           m.sid = s => m.word \in Word /\ m = Request(s, m.word)
    BY DEF Request
  <2>3. \A w \in Word : Is(Request(s, w), "REQ", s)
    BY DEF Request, Is
  <2>. QED  BY <2>1, <2>2, <2>3 DEF Is
<1>3. \A m \in Message : Is(m, "RESP", s) <=> \E hits \in SUBSET Hit : m = Response(s, hits)
  <2>1. \A m \in Message : m.type = "RESP" => m \in [type : {"RESP"}, sid : Sid, hits : SUBSET Hit]
    BY DEF Message, Disconnect
  <2>2. \A m \in [type : {"RESP"}, sid : Sid, hits : SUBSET Hit] :
           m.sid = s => m.hits \in SUBSET Hit /\ m = Response(s, m.hits)
    BY DEF Response
  <2>3. \A hits \in SUBSET Hit : Is(Response(s, hits), "RESP", s)
    BY DEF Response, Is
  <2>. QED  BY <2>1, <2>2, <2>3 DEF Is
<1>. QED  BY <1>1, <1>2, <1>3 DEF Has, On

----------------------------------------------------------------------------
(* When every peer can answer.                                             *)

LEMMA CalmHears ==
    ASSUME ConnInv, Calm
    PROVE  /\ \A e \in listed : /\ e \in End /\ e \in listens /\ e \in connected /\ ~Lost(e)
                                /\ sock[e] = e /\ e # NoEntry
                                /\ Other(e) \in listed /\ Other(Other(e)) = e
                                /\ Other(e)[1] = e[2] /\ Other(e)[2] = e[1]
           /\ listens = listed /\ Live = listed
           /\ \A E \in SUBSET listed, r \in End : Reaches(E, r) <=> Other(r) \in E
<1>1. \A e \in listed : e \in connected /\ Other(e) \in listens
  BY DEF Calm
<1>2. listens \subseteq listed /\ listed \subseteq End /\ \A e \in listens : sock[e] = e
  BY DEF ConnInv, TypeOK, Listening
<1>3. \A e \in listed : Other(e) \in listed /\ Other(Other(e)) = e
                        /\ Other(e)[1] = e[2] /\ Other(e)[2] = e[1]
  BY <1>1, <1>2, EndParts
<1>4. \A e \in listed : e \in listens
  BY <1>1, <1>3
<1>5. listens = listed /\ Live = listed
  BY <1>1, <1>2, <1>4 DEF Live
<1>6. \A e \in listed : ~Lost(e) /\ e # NoEntry
  BY <1>1, <1>2, NoEntryAssumption DEF Lost
<1>7. ASSUME NEW E \in SUBSET listed, NEW r \in End PROVE Reaches(E, r) <=> Other(r) \in E
  <2>1. Other(r) \in E => r \in listens
    BY <1>1, EndParts
  <2>. QED  BY <1>1, <1>2, <1>5, <1>6, <2>1 DEF Reaches
<1>. QED  BY <1>1, <1>2, <1>3, <1>4, <1>5, <1>6, <1>7

LEMMA CalmSends ==
    ASSUME ConnInv, Calm, NEW ch \in Queues, NEW E \in SUBSET listed, NEW msg \in Message, NEW r \in End
    PROVE  SendOn(ch, E, msg)[r] = IF Other(r) \in E THEN Append(ch[r], msg) ELSE ch[r]
<1>. DEFINE from == {e \in E \cap connected :
                        sock[e] # NoEntry /\ r \in listens /\ sock[e] = Other(r)}
<1>1. \A e \in listed : e \in connected /\ sock[e] = e /\ e # NoEntry /\ Other(e) \in listens
  BY CalmHears DEF Calm
<1>2. Other(r) \in E => r \in listens
  BY <1>1, EndParts
<1>3. from = IF Other(r) \in E THEN {Other(r)} ELSE {}
  BY <1>1, <1>2
<1>4. SendOn(ch, E, msg)[r] = ch[r] \o [i \in 1..Cardinality(from) |-> msg]
  BY DEF SendOn
<1>5. ch[r] \in Seq(Message)
  BY DEF Queues
<1>. HIDE DEF from
<1>6. CASE Other(r) \in E
  <2>1. Cardinality(from) = 1
    BY <1>3, <1>6, FS_Singleton
  <2>2. [i \in 1..1 |-> msg] = <<msg>>
    OBVIOUS
  <2>. QED  BY <1>4, <1>5, <1>6, <2>1, <2>2
<1>7. CASE Other(r) \notin E
  <2>1. Cardinality(from) = 0
    BY <1>3, <1>7, FS_EmptySet
  <2>2. [i \in 1..0 |-> msg] = <<>>
    OBVIOUS
  <2>. QED  BY <1>4, <1>5, <1>7, <2>1, <2>2
<1>. QED  BY <1>6, <1>7

\* What is there of search s after a message was read at e and msg was sent on E.
Counted(e, E, msg, type, s) ==
    \A r \in End :
       /\ Has(chan'[r], type, s) <=>
             \/ Has(chan[r], type, s) /\ ~(r = e /\ Is(Head(chan[e]), type, s))
             \/ Other(r) \in E /\ Is(msg, type, s)
       /\ \/ Once(chan'[r], type, s)
          \/ Other(r) \in E /\ Is(msg, type, s) /\ Has(chan[r], type, s)
                /\ ~(r = e /\ Is(Head(chan[e]), type, s))

LEMMA PassedCounts ==
    ASSUME ConnInv, Calm, NEW e \in listens, chan[e] # <<>>, NEW E \in SUBSET listed,
           NEW msg \in Message, chan' = SendOn(Consumed(e), E, msg), NEW type, NEW s,
           \A r \in End : Once(chan[r], type, s)
    PROVE  Counted(e, E, msg, type, s)
<1>1. e \in End /\ chan \in Queues
  BY DEF ConnInv, TypeOK, Listening
<1>2. Consumed(e) \in Queues
  BY <1>1, OnConsumed
<1>3. \A r \in End : Consumed(e)[r] = IF r = e THEN Tail(chan[e]) ELSE chan[r]
  BY <1>1 DEF Consumed, Queues
<1>4. ASSUME NEW r \in End
      PROVE  /\ Has(chan'[r], type, s) <=>
                   \/ Has(chan[r], type, s) /\ ~(r = e /\ Is(Head(chan[e]), type, s))
                   \/ Other(r) \in E /\ Is(msg, type, s)
             /\ \/ Once(chan'[r], type, s)
                \/ Other(r) \in E /\ Is(msg, type, s) /\ Has(chan[r], type, s)
                      /\ ~(r = e /\ Is(Head(chan[e]), type, s))
  <2>1. PICK q \in Seq(Message) : q = Consumed(e)[r]
    BY <1>2 DEF Queues
  <2>2. /\ Has(q, type, s) <=> Has(chan[r], type, s) /\ ~(r = e /\ Is(Head(chan[e]), type, s))
        /\ Once(q, type, s)
    <3>1. CASE r = e
      <4>1. chan[e] \in Seq(Message) /\ q = Tail(chan[e])
        BY <1>1, <1>3, <2>1, <3>1 DEF Queues
      <4>2. /\ Has(chan[e], type, s) <=> Is(Head(chan[e]), type, s) \/ Has(Tail(chan[e]), type, s)
            /\ Once(chan[e], type, s) => Once(Tail(chan[e]), type, s)
            /\ Once(chan[e], type, s) /\ Is(Head(chan[e]), type, s) => ~Has(Tail(chan[e]), type, s)
        BY <4>1, HasTail
      <4>. QED  BY <3>1, <4>1, <4>2
    <3>2. CASE r # e
      BY <1>3, <2>1, <3>2
    <3>. QED  BY <3>1, <3>2
  <2>3. SendOn(Consumed(e), E, msg)[r] = IF Other(r) \in E THEN Append(Consumed(e)[r], msg)
                                         ELSE Consumed(e)[r]
    BY <1>2, CalmSends
  <2>4. chan'[r] = IF Other(r) \in E THEN Append(q, msg) ELSE q
    BY <2>1, <2>3
  <2>5. /\ Has(Append(q, msg), type, s) <=> Has(q, type, s) \/ Is(msg, type, s)
        /\ Once(q, type, s) /\ ~(Is(msg, type, s) /\ Has(q, type, s)) =>
              Once(Append(q, msg), type, s)
    BY HasAppend
  <2>. QED  BY <2>2, <2>4, <2>5
<1>. QED  BY <1>4 DEF Counted

----------------------------------------------------------------------------
(* A request moves away from the searching node.                           *)

\* Whoever is behind r, seen from its other side, the searching node is not.
Away(r) == \A part \in SUBSET Node : OnlyOut(r, part, listed) => Searcher \notin part

LEMMA AwayFirst == ASSUME ConnInv, NEW e \in listed, e[1] = Searcher PROVE Away(Other(e))
BY EndParts DEF ConnInv, TypeOK, Away, OnlyOut

LEMMA AwayNot ==
    ASSUME ConnInv, TreeInv, Calm, NEW e \in listed
    PROVE  e[1] # e[2] /\ (Away(e) => e[1] # Searcher)
<1>1. PICK part \in SUBSET Node : OnlyOut(e, part, listed)
  BY CalmHears DEF TreeInv, Bridges
<1>. QED  BY <1>1 DEF OnlyOut, Away

\* Else a part with the searching node would come apart.
LEMMA AwayNext ==
    ASSUME ConnInv, TreeInv, Calm, Searcher \in alive, NEW e \in listed, Away(e),
           NEW f \in ForwardTo(e)
    PROVE  Away(Other(f))
<1>1. /\ f \in listed /\ f # e /\ f[1] = e[1]
      /\ \A x \in listed : /\ x \in End /\ Other(x) \in listed /\ Other(Other(x)) = x
                           /\ Other(x)[1] = x[2] /\ Other(x)[2] = x[1]
                           /\ x[1] \in alive /\ x[1] \in Node
  BY CalmHears, EndParts DEF ForwardTo, ConnectedPeers, EndsOf, TreeInv, AliveListed
<1>2. PICK P \in SUBSET Node : OnlyOut(e, P, listed)
  BY CalmHears DEF TreeInv, Bridges
<1>3. SUFFICES ASSUME NEW Q \in SUBSET Node, OnlyOut(Other(f), Q, listed), Searcher \in Q
               PROVE  FALSE
  BY DEF Away
<1>4. Searcher \notin P
  BY <1>2 DEF Away
<1>5. PICK part \in SUBSET alive : part = (Q \ P) \cap alive
  OBVIOUS
<1>6. Searcher \in part /\ e[1] \in alive \ part
  BY <1>1, <1>2, <1>3, <1>4, <1>5 DEF OnlyOut
<1>7. ~Broken(part)
  BY CalmHears, <1>1 DEF Broken, Widowed
<1>8. PICK x \in listed : x[1] \in part /\ x[2] \in alive \ part
  BY <1>6, <1>7, CalmHears DEF TreeInv, OnePiece, Leads
<1>9. CASE x[2] \notin Q
  <2>1. x = Other(f)
    BY <1>3, <1>5, <1>8, <1>9 DEF OnlyOut
  <2>2. f[1] \in P /\ f[2] \notin P
    BY <1>1, <1>2, <1>5, <1>8, <2>1 DEF OnlyOut
  <2>. QED  BY <1>1, <1>2, <2>2 DEF OnlyOut
<1>10. CASE x[2] \in Q
  <2>1. x[2] \in P /\ x[1] \notin P
    BY <1>5, <1>8, <1>10
  <2>2. Other(x) = e
    BY <1>1, <1>2, <2>1 DEF OnlyOut
  <2>3. x[2] = f[1]
    BY <1>1, <2>2
  <2>. QED  BY <1>1, <1>3, <1>10, <2>3 DEF OnlyOut
<1>. QED  BY <1>9, <1>10

----------------------------------------------------------------------------
(* What is true of such a search.                                          *)

\* n has asked its peers.
Asks(n, s) == n = Searcher \/ (fwd[n][s] # NoEntry /\ created[s].word \notin Holds[n])

\* The node at the other side of e is about to answer there.
Pending(e, s) == Waiting(e[2], s) /\ fwd[e[2]][s].upstream = Other(e)

\* The request on e is not read, or not answered, or the answer is not read.
Debt(e, s) == Has(chan[Other(e)], "REQ", s) \/ Has(chan[e], "RESP", s) \/ Pending(e, s)
Debts(n, s) == {e \in EndsOf(n) : Debt(e, s)}

Missing(n, s) == IF Waiting(n, s) THEN fwd[n][s].needed - fwd[n][s].received ELSE 0

Asker(s) == created[s].word \in Word \ Holds[Searcher]

\* A request becomes one answer.
Single(s) == \A e \in End :
    /\ Once(chan[e], "REQ", s) /\ Once(chan[e], "RESP", s)
    /\ Has(chan[Other(e)], "REQ", s) => ~Has(chan[e], "RESP", s) /\ ~Pending(e, s)
    /\ Has(chan[e], "RESP", s) => ~Pending(e, s)

Requested(s) == \A r \in End, w \in Word : On(chan[r], Request(s, w)) =>
    w = created[s].word /\ r \in listed /\ Asks(r[2], s) /\ Away(r)

Replied(s) == \A r \in End : Has(chan[r], "RESP", s) => r \in listed

RelaysUp(s) == \A n \in Node : fwd[n][s] # NoEntry =>
    LET up == fwd[n][s].upstream IN
    up \in listed /\ Asks(up[2], s) /\ Away(up) /\ fwd[n][s].asked \subseteq listed

\* Whoever asks asks everybody.
Spreads(s) == \A e \in listed : Asks(e[1], s) =>
    e[2] = Searcher \/ fwd[e[2]][s] # NoEntry \/ Has(chan[Other(e)], "REQ", s)

\* No more replies come than a relay waits for.
Few(s) == \A n \in Node \ {Searcher} : Cardinality(Debts(n, s)) <= Missing(n, s)

\* No relays are upstream of each other.
Grounded(s) == \A R \in SUBSET {n \in Node : fwd[n][s] # NoEntry} :
    R # {} => \E n \in R : \A m \in R : fwd[m][s].upstream[2] # n

\* A hit is on its way until it is on the list.
OnWay(hit, s) ==
    \/ hit \in created[s].hits
    \/ \E m \in Node : Waiting(m, s) /\ hit \in fwd[m][s].hits
    \/ \E r \in End, hits \in SUBSET Hit : hit \in hits /\ On(chan[r], Response(s, hits))
Kept(s) == created[s].status # "FAILED" => \A n \in Node :
    fwd[n][s] # NoEntry /\ created[s].word \in Holds[n] => OnWay(<<n, created[s].word>>, s)

Good(s) ==
    /\ Asker(s) /\ Single(s) /\ Requested(s) /\ Replied(s) /\ RelaysUp(s) /\ Spreads(s)
    /\ Few(s) /\ Grounded(s) /\ Kept(s)

GoodInv == \A s \in Sid : Fresh(s) => Good(s)

LEMMA GoodInit == Init => GoodInv
BY DEF Init, NoSearches, GoodInv, Fresh

\* A step that is not about s.
LEMMA GoodStays ==
    ASSUME ConnInv, NEW s \in Sid, Good(s), created[s] # NoEntry, SameSearch(s), UNCHANGED listed,
           \A n \in Node : fwd'[n][s] = fwd[n][s],
           \A r \in End, type \in {"REQ", "RESP"} :
              /\ Has(chan'[r], type, s) <=> Has(chan[r], type, s)
              /\ Once(chan'[r], type, s),
           \A r \in End, w \in Word : On(chan'[r], Request(s, w)) => On(chan[r], Request(s, w)),
           \A r \in End, hits \in SUBSET Hit : On(chan[r], Response(s, hits)) => On(chan'[r], Response(s, hits))
    PROVE  Good(s)'
<1>1. /\ created'[s].word = created[s].word /\ created[s].hits \subseteq created'[s].hits
      /\ created[s].status = "FAILED" => created'[s].status = "FAILED"
  BY DEF SameSearch
<1>2. \A n \in Node : /\ Asks(n, s)' <=> Asks(n, s)
                      /\ Waiting(n, s)' <=> Waiting(n, s)
                      /\ Missing(n, s)' = Missing(n, s)
  BY <1>1 DEF Asks, Waiting, Missing
<1>3. \A e \in End : /\ Pending(e, s)' <=> Pending(e, s)
                     /\ Debt(e, s)' <=> Debt(e, s)
                     /\ Other(e) \in End /\ e[1] \in Node /\ e[2] \in Node
  <2>1. \A e \in End : Other(e) \in End /\ e[1] \in Node /\ e[2] \in Node
    BY EndParts
  <2>2. \A e \in End : Pending(e, s)' <=> Pending(e, s)
    BY <1>2, <2>1 DEF Pending
  <2>. QED  BY <2>1, <2>2 DEF Debt
<1>4. \A n \in Node : Debts(n, s)' = Debts(n, s)
  BY <1>3 DEF Debts, EndsOf
<1>5. \A r : Away(r)' <=> Away(r)
  BY DEF Away
<1>6. Asker(s)' /\ Single(s)' /\ Replied(s)'
  BY <1>1, <1>3 DEF Good, Asker, Single, Replied
<1>7. Requested(s)'
  BY <1>1, <1>2, <1>3, <1>5 DEF Good, Requested
<1>0. \A e \in listed : e \in End
  BY DEF ConnInv, TypeOK
<1>8. RelaysUp(s)'
  <2>1. ASSUME NEW n \in Node, fwd'[n][s] # NoEntry, NEW up, up = fwd[n][s].upstream
        PROVE  up \in listed' /\ Asks(up[2], s)' /\ Away(up)' /\ fwd'[n][s].asked \subseteq listed'
    <3>1. up \in listed /\ Asks(up[2], s) /\ Away(up) /\ fwd[n][s].asked \subseteq listed
      BY <2>1 DEF Good, RelaysUp
    <3>2. Asks(up[2], s)'
      BY <1>0, <1>2, <1>3, <3>1
    <3>. QED  BY <1>5, <3>1, <3>2
  <2>. QED  BY <2>1 DEF RelaysUp
<1>9. Spreads(s)'
  <2>1. ASSUME NEW e \in listed, Asks(e[1], s)'
        PROVE  e[2] = Searcher \/ fwd'[e[2]][s] # NoEntry \/ Has(chan'[Other(e)], "REQ", s)
    <3>1. e \in End /\ Asks(e[1], s) /\ fwd'[e[2]][s] = fwd[e[2]][s] /\ Other(e) \in End
      BY <1>0, <1>2, <1>3, <2>1
    <3>2. e[2] = Searcher \/ fwd[e[2]][s] # NoEntry \/ Has(chan[Other(e)], "REQ", s)
      BY <3>1 DEF Good, Spreads
    <3>. QED  BY <3>1, <3>2
  <2>. QED  BY <2>1 DEF Spreads
<1>10. Few(s)'
  BY <1>2, <1>4 DEF Good, Few
<1>11. Grounded(s)'
  <2>1. {n \in Node : fwd'[n][s] # NoEntry} = {n \in Node : fwd[n][s] # NoEntry}
    OBVIOUS
  <2>2. ASSUME NEW R \in SUBSET {n \in Node : fwd[n][s] # NoEntry}, R # {}
        PROVE  \E n \in R : \A m \in R : fwd'[m][s].upstream[2] # n
    BY <2>2 DEF Good, Grounded
  <2>. QED  BY <2>1, <2>2 DEF Grounded
<1>12. Kept(s)'
  <2>1. \A hit : OnWay(hit, s) => OnWay(hit, s)'
    BY <1>1, <1>2 DEF OnWay
  <2>. QED  BY <1>1, <2>1 DEF Good, Kept
<1>. QED  BY <1>6, <1>7, <1>8, <1>9, <1>10, <1>11, <1>12 DEF Good

LEMMA NothingSent ==
    ASSUME NEW ch \in Queues, NEW msg \in Message PROVE SendOn(ch, {}, msg) = ch
<1>1. \A r \in End : ~Reaches({}, r)
  BY DEF Reaches
<1>2. PICK next \in Queues : next = SendOn(ch, {}, msg)
  BY OnSent
<1>3. \A r \in End : next[r] = ch[r]
  BY <1>1, <1>2, OnSent
<1>. QED  BY <1>2, <1>3 DEF Queues

\* A listener's step that is about another search.
LEMMA PassedStays ==
    ASSUME ConnInv, Calm, NEW e \in listens, chan[e] # <<>>, NEW E \in SUBSET listed,
           NEW msg \in Message, chan' = SendOn(Consumed(e), E, msg),
           NEW s \in Sid, Good(s), created[s] # NoEntry, SameSearch(s), UNCHANGED listed,
           \A n \in Node : fwd'[n][s] = fwd[n][s],
           \A type \in {"REQ", "RESP"} : ~Is(Head(chan[e]), type, s) /\ ~Is(msg, type, s)
    PROVE  Good(s)'
<1>1. \A type \in {"REQ", "RESP"} : Counted(e, E, msg, type, s)
  <2>1. \A type \in {"REQ", "RESP"}, r \in End : Once(chan[r], type, s)
    BY DEF Good, Single
  <2>. QED  BY <2>1, PassedCounts
<1>2. \A r \in End, type \in {"REQ", "RESP"} :
         /\ Has(chan'[r], type, s) <=> Has(chan[r], type, s)
         /\ Once(chan'[r], type, s)
  BY <1>1 DEF Counted
<1>3. PassedOn(e, E, msg)
  <2>1. e \in End /\ E \in SUBSET End /\ chan \in Queues
    BY DEF ConnInv, TypeOK, Listening
  <2>. QED  BY <2>1, OnAnswered
<1>4. \A w, hits : Is(Request(s, w), "REQ", s) /\ Is(Response(s, hits), "RESP", s)
  BY DEF Is, Request, Response
<1>5. \A r \in End, w \in Word : On(chan'[r], Request(s, w)) => On(chan[r], Request(s, w))
  BY <1>3, <1>4 DEF PassedOn
<1>6. \A r \in End, hits \in SUBSET Hit :
         On(chan[r], Response(s, hits)) => On(chan'[r], Response(s, hits))
  BY <1>3, <1>4 DEF PassedOn
<1>. QED  BY <1>2, <1>5, <1>6, GoodStays

\* A new relay is nobody's upstream.
LEMMA NewGrounded ==
    ASSUME ConnInv, NEW s \in Sid, Grounded(s), RelaysUp(s), NEW n \in Node, n # Searcher,
           fwd[n][s] = NoEntry, \A m \in Node : m # n => fwd'[m][s] = fwd[m][s],
           fwd'[n][s].upstream[2] # n
    PROVE  Grounded(s)'
<1>1. SUFFICES ASSUME NEW R \in SUBSET {m \in Node : fwd'[m][s] # NoEntry}, R # {}
               PROVE  \E k \in R : \A m \in R : fwd'[m][s].upstream[2] # k
  BY DEF Grounded
<1>2. CASE n \notin R
  <2>1. R \in SUBSET {m \in Node : fwd[m][s] # NoEntry}
    BY <1>2
  <2>2. PICK k \in R : \A m \in R : fwd[m][s].upstream[2] # k
    BY <1>1, <2>1 DEF Grounded
  <2>. QED  BY <1>2, <2>1, <2>2
<1>3. CASE n \in R
  <2>1. ASSUME NEW m \in R, m # n PROVE fwd'[m][s].upstream[2] # n
    <3>1. fwd[m][s] # NoEntry /\ fwd'[m][s] = fwd[m][s] /\ m \in Node
      BY <2>1
    <3>2. Asks(fwd[m][s].upstream[2], s)
      BY <3>1 DEF RelaysUp
    <3>. QED  BY <3>1, <3>2 DEF Asks
  <2>. QED  BY <1>3, <2>1
<1>. QED  BY <1>2, <1>3

\* A request that is answered at once.  The node that sent it is owed the answer as it
\* was before.
LEMMA AnswerGood ==
    ASSUME ConnInv, TreeInv, Calm, NEW e \in listens, NEW s \in Sid, NEW w \in Word,
           NEW hits \in SUBSET Hit, chan[e] # <<>>, Head(chan[e]) = Request(s, w),
           chan' = SendOn(Consumed(e), {e}, Response(s, hits)),
           UNCHANGED <<listed, created>>, Good(s),
           \/ fwd' = fwd /\ fwd[e[1]][s] # NoEntry
           \/ /\ fwd[e[1]][s] = NoEntry
              /\ fwd' = [fwd EXCEPT ![e[1]][s] = Relay(e, FALSE)]
              /\ ForwardTo(e) = {} \/ w \in Holds[e[1]]
              /\ w \in Holds[e[1]] => <<e[1], w>> \in hits
    PROVE  Good(s)'
<1>1. PICK msg \in Message : msg = Response(s, hits)
  BY MessageTypes
<1>2. PICK n \in Node, d \in listed :
        /\ n = e[1] /\ d = Other(e) /\ e = Other(d) /\ e \in listed /\ e \in End /\ d \in End
        /\ d[1] = e[2] /\ d[2] = n /\ d[1] \in Node
  BY CalmHears, EndParts
<1>3. chan \in Queues /\ On(chan[e], Request(s, w)) /\ chan[e] \in Seq(Message)
  <2>1. chan \in Queues
    BY DEF ConnInv, TypeOK
  <2>. QED  BY <1>2, <2>1, OnConsumed DEF Queues
<1>4. w = created[s].word /\ Asks(e[2], s) /\ Away(e) /\ Has(chan[e], "REQ", s)
  BY <1>2, <1>3, HasOn DEF Good, Requested
<1>5. n # Searcher /\ n # e[2]
  BY <1>2, <1>4, AwayNot
<1>6. \A r \in End : Other(r) \in {e} <=> r = d
  BY <1>2, EndParts
<1>7. /\ Is(Head(chan[e]), "REQ", s) /\ ~Is(Head(chan[e]), "RESP", s)
      /\ Is(msg, "RESP", s) /\ ~Is(msg, "REQ", s)
  BY <1>1 DEF Is, Request, Response
<1>8. \A r \in End : /\ Has(chan'[r], "REQ", s) <=> Has(chan[r], "REQ", s) /\ r # e
                     /\ Has(chan'[r], "RESP", s) <=> Has(chan[r], "RESP", s) \/ r = d
                     /\ Once(chan'[r], "REQ", s) /\ Once(chan'[r], "RESP", s)
  <2>1. \A r \in End : Once(chan[r], "REQ", s) /\ Once(chan[r], "RESP", s)
    BY DEF Good, Single
  <2>2. chan' = SendOn(Consumed(e), {e}, msg) /\ {e} \in SUBSET listed
    BY <1>1, <1>2
  <2>3. Counted(e, {e}, msg, "REQ", s)
    BY <2>1, <2>2, PassedCounts
  <2>4. Counted(e, {e}, msg, "RESP", s)
    BY <2>1, <2>2, PassedCounts
  <2>5. ~Has(chan[d], "RESP", s)
    BY <1>2, <1>4 DEF Good, Single
  <2>. QED  BY <1>6, <1>7, <2>3, <2>4, <2>5 DEF Counted
<1>9. /\ \A r \in End : \A m : On(chan'[r], m) => On(chan[r], m) \/ m = msg
      /\ \A r \in End : \A m : On(chan[r], m) => On(chan'[r], m) \/ m = Head(chan[e])
      /\ On(chan'[d], msg)
  <2>1. PassedOn(e, {e}, msg)
    BY <1>1, <1>2, <1>3, OnAnswered
  <2>2. Reaches({e}, d)
    BY <1>2, CalmHears
  <2>. QED  BY <1>2, <2>1, <2>2 DEF PassedOn
<1>10. Relay(e, FALSE) # NoEntry /\ ~Relay(e, FALSE).waiting /\ Relay(e, FALSE).upstream = e
       /\ Relay(e, FALSE).asked = {}
  BY RelayType
<1>11. \A m \in Node : \/ fwd'[m][s] = fwd[m][s]
                       \/ m = n /\ fwd[n][s] = NoEntry /\ fwd'[n][s] = Relay(e, FALSE)
  <2>1. fwd' = fwd \/ (fwd' = [fwd EXCEPT ![n][s] = Relay(e, FALSE)] /\ fwd[n][s] = NoEntry)
    BY <1>2
  <2>2. CASE fwd' = fwd
    BY <2>2
  <2>3. CASE fwd' = [fwd EXCEPT ![n][s] = Relay(e, FALSE)] /\ fwd[n][s] = NoEntry
    <3>1. \A m \in Node : fwd'[m][s] = IF m = n THEN Relay(e, FALSE) ELSE fwd[m][s]
      BY <2>3 DEF ConnInv, TypeOK
    <3>. QED  BY <2>3, <3>1
  <2>. QED  BY <2>1, <2>2, <2>3
<1>12. fwd'[n][s] # NoEntry /\ \A m \in Node : m # n => fwd'[m][s] = fwd[m][s]
  <2>1. CASE fwd' = fwd /\ fwd[n][s] # NoEntry
    BY <2>1
  <2>2. CASE fwd' = [fwd EXCEPT ![n][s] = Relay(e, FALSE)]
    BY <1>10, <2>2 DEF ConnInv, TypeOK
  <2>. QED  BY <1>2, <2>1, <2>2
<1>13. \A m \in Node : /\ Waiting(m, s)' <=> Waiting(m, s)
                       /\ Waiting(m, s) => fwd'[m][s] = fwd[m][s]
                       /\ Missing(m, s)' = Missing(m, s)
                       /\ Asks(m, s) => Asks(m, s)'
  BY <1>10, <1>11 DEF Waiting, Missing, Asks
<1>14. \A x \in End : /\ x[1] \in Node /\ x[2] \in Node /\ Other(x) \in End /\ Other(Other(x)) = x
                      /\ Pending(x, s)' <=> Pending(x, s)
  BY <1>13, EndParts DEF Pending
<1>15. \A x \in End : Debt(x, s)' <=> Debt(x, s)
  BY <1>2, <1>4, <1>8, <1>14 DEF Debt
<1>16. \A x : Away(x)' <=> Away(x)
  BY DEF Away
<1>17. \A x \in listed : x \in End
  BY DEF ConnInv, TypeOK
<1>20. Asker(s)'
  BY DEF Good, Asker
<1>21. Single(s)'
  BY <1>2, <1>4, <1>8, <1>14 DEF Good, Single
<1>22. Requested(s)'
  <2>1. \A r \in End, v \in Word : On(chan'[r], Request(s, v)) => On(chan[r], Request(s, v))
    BY <1>1, <1>9, RequestParts
  <2>. QED  BY <1>13, <1>14, <1>16, <2>1 DEF Good, Requested
<1>23. Replied(s)'
  BY <1>8 DEF Good, Replied
<1>24. RelaysUp(s)'
  <2>1. ASSUME NEW m \in Node, fwd'[m][s] # NoEntry, NEW up, up = fwd'[m][s].upstream
        PROVE  up \in listed' /\ Asks(up[2], s)' /\ Away(up)' /\ fwd'[m][s].asked \subseteq listed'
    <3>1. CASE fwd'[m][s] = fwd[m][s]
      <4>1. up \in listed /\ Asks(up[2], s) /\ Away(up) /\ fwd[m][s].asked \subseteq listed
        BY <2>1, <3>1 DEF Good, RelaysUp
      <4>. QED  BY <1>13, <1>14, <1>16, <1>17, <3>1, <4>1
    <3>2. CASE fwd'[m][s] = Relay(e, FALSE)
      <4>1. up = e
        BY <1>10, <2>1, <3>2
      <4>2. Asks(e[2], s)'
        BY <1>2, <1>4, <1>13
      <4>. QED  BY <1>2, <1>4, <1>10, <1>16, <3>2, <4>1, <4>2
    <3>. QED  BY <1>11, <3>1, <3>2
  <2>. QED  BY <2>1 DEF RelaysUp
<1>25. Spreads(s)'
  <2>1. ASSUME NEW x \in listed, Asks(x[1], s)'
        PROVE  x[2] = Searcher \/ fwd'[x[2]][s] # NoEntry \/ Has(chan'[Other(x)], "REQ", s)
    <3>1. x \in End
      BY <1>17
    <3>2. CASE Asks(x[1], s)
      <4>1. x[2] = Searcher \/ fwd[x[2]][s] # NoEntry \/ Has(chan[Other(x)], "REQ", s)
        BY <3>2 DEF Good, Spreads
      <4>2. Other(x) = e => x[2] = n
        BY <1>2, <1>14, <3>1
      <4>. QED  BY <1>8, <1>11, <1>12, <1>14, <3>1, <4>1, <4>2
    <3>3. CASE ~Asks(x[1], s)
      <4>1. x[1] = n /\ fwd[n][s] = NoEntry /\ w \notin Holds[n]
        BY <1>4, <1>11, <1>14, <2>1, <3>1, <3>3 DEF Asks
      <4>2. x = e
        BY <1>2, <3>1, <4>1 DEF ForwardTo, ConnectedPeers, EndsOf
      <4>. QED  BY <1>2, <1>4, <1>12, <1>13, <4>2 DEF Asks
    <3>. QED  BY <3>2, <3>3
  <2>. QED  BY <2>1 DEF Spreads
<1>26. Few(s)'
  <2>1. \A m \in Node : Debts(m, s)' = Debts(m, s)
    BY <1>15 DEF Debts, EndsOf
  <2>. QED  BY <1>13, <2>1 DEF Good, Few
<1>27. Grounded(s)'
  <2>1. CASE fwd' = fwd
    BY <2>1 DEF Good, Grounded
  <2>2. CASE fwd[n][s] = NoEntry
    <3>1. CASE fwd' = fwd
      BY <2>1, <3>1
    <3>2. CASE fwd' # fwd
      <4>1. fwd' = [fwd EXCEPT ![n][s] = Relay(e, FALSE)]
        BY <1>2, <3>2
      <4>2. fwd'[n][s] = Relay(e, FALSE)
        BY <4>1 DEF ConnInv, TypeOK
      <4>3. fwd'[n][s].upstream[2] # n
        BY <1>5, <1>10, <4>2
      <4>. QED  BY <1>5, <1>12, <2>2, <4>3, NewGrounded DEF Good
    <3>. QED  BY <3>1, <3>2
  <2>. QED  BY <1>2, <2>1, <2>2
<1>28. Kept(s)'
  <2>1. ASSUME NEW hit, OnWay(hit, s) PROVE OnWay(hit, s)'
    <3>1. \A r \in End, h \in SUBSET Hit :
             On(chan[r], Response(s, h)) => On(chan'[r], Response(s, h))
      <4>1. \A h \in SUBSET Hit : Response(s, h) # Head(chan[e])
        BY RequestParts
      <4>. QED  BY <1>9, <4>1
    <3>. QED  BY <1>13, <2>1, <3>1 DEF OnWay
  <2>2. ASSUME fwd[n][s] = NoEntry, w \in Holds[n] PROVE OnWay(<<n, w>>, s)'
    <3>1. On(chan'[d], Response(s, hits))
      BY <1>1, <1>9
    <3>. QED  BY <1>2, <2>2, <3>1 DEF OnWay
  <2>. QED  BY <1>4, <1>11, <2>1, <2>2 DEF Good, Kept
<1>. QED
  BY <1>20, <1>21, <1>22, <1>23, <1>24, <1>25, <1>26, <1>27, <1>28 DEF Good

\* Who has no relay for the search is owed nothing.
LEMMA DebtsFinite ==
    ASSUME NEW n, NEW s PROVE IsFiniteSet(Debts(n, s)) /\ Cardinality(Debts(n, s)) \in Nat
<1>1. Debts(n, s) \in SUBSET End
  BY DEF Debts, EndsOf
<1>. QED  BY <1>1, EndFinite, FS_Subset, FS_CardinalityType

LEMMA OwedNothing ==
    ASSUME NEW s, Few(s), NEW n \in Node \ {Searcher}, ~Waiting(n, s),
           NEW x \in End, x[1] = n
    PROVE  ~Debt(x, s)
<1>1. Cardinality(Debts(n, s)) = 0
  BY DebtsFinite DEF Few, Missing
<1>2. Debts(n, s) = {}
  BY <1>1, DebtsFinite, FS_EmptySet
<1>. QED  BY <1>2 DEF Debts, EndsOf

LEMMA MissingSame ==
    ASSUME NEW n, NEW s, fwd'[n][s] = fwd[n][s] PROVE Missing(n, s)' = Missing(n, s)
BY DEF Missing, Waiting

\* A request that a relay passes on, away from the searching node, to nodes that have
\* not heard of the search.
LEMMA ForwardGood ==
    ASSUME ConnInv, TreeInv, Calm, Searcher \in alive, NEW e \in listens, NEW s \in Sid,
           NEW w \in Word, chan[e] # <<>>, Head(chan[e]) = Request(s, w),
           chan' = SendOn(Consumed(e), ForwardTo(e), Request(s, w)),
           fwd[e[1]][s] = NoEntry, fwd' = [fwd EXCEPT ![e[1]][s] = Relay(e, TRUE)],
           w \notin Holds[e[1]], UNCHANGED <<listed, created>>, Good(s)
    PROVE  Good(s)'
<1>1. PICK msg \in Message : msg = Request(s, w)
  BY MessageTypes
<1>2. PICK n \in Node, d \in listed :
        /\ n = e[1] /\ d = Other(e) /\ e = Other(d) /\ e \in listed /\ e \in End /\ d \in End
        /\ d[1] = e[2] /\ d[2] = n /\ d[1] \in Node
  BY CalmHears, EndParts
<1>3. chan \in Queues /\ On(chan[e], Request(s, w)) /\ chan[e] \in Seq(Message)
  <2>1. chan \in Queues
    BY DEF ConnInv, TypeOK
  <2>. QED  BY <1>2, <2>1, OnConsumed DEF Queues
<1>4. w = created[s].word /\ Asks(e[2], s) /\ Away(e) /\ Has(chan[e], "REQ", s)
  BY <1>2, <1>3, HasOn DEF Good, Requested
<1>5. n # Searcher /\ n # e[2]
  BY <1>2, <1>4, AwayNot
<1>6. PICK E \in SUBSET listed : E = ForwardTo(e)
  BY DEF ForwardTo, ConnectedPeers
<1>7. \A x \in End : /\ x[1] \in Node /\ x[2] \in Node /\ Other(x) \in End /\ Other(Other(x)) = x
                     /\ Other(x)[2] = x[1]
                     /\ x \in E <=> x \in listed /\ x[1] = n /\ x # e
  BY <1>2, <1>6, EndParts DEF ForwardTo, ConnectedPeers, EndsOf
<1>8. \A x \in End : x[1] = n => ~Debt(x, s)
  <2>1. ~Waiting(n, s)
    BY <1>2 DEF Waiting
  <2>. QED  BY <1>5, <2>1, OwedNothing DEF Good
<1>9. /\ Is(Head(chan[e]), "REQ", s) /\ ~Is(Head(chan[e]), "RESP", s)
      /\ Is(msg, "REQ", s) /\ ~Is(msg, "RESP", s)
  BY <1>1 DEF Is, Request
<1>10. \A r \in End : /\ Has(chan'[r], "REQ", s) <=> (Has(chan[r], "REQ", s) /\ r # e) \/ Other(r) \in E
                      /\ Has(chan'[r], "RESP", s) <=> Has(chan[r], "RESP", s)
                      /\ Once(chan'[r], "REQ", s) /\ Once(chan'[r], "RESP", s)
  <2>1. \A r \in End : Once(chan[r], "REQ", s) /\ Once(chan[r], "RESP", s)
    BY DEF Good, Single
  <2>2. chan' = SendOn(Consumed(e), E, msg)
    BY <1>1, <1>6
  <2>3. Counted(e, E, msg, "REQ", s)
    BY <2>1, <2>2, PassedCounts
  <2>4. Counted(e, E, msg, "RESP", s)
    BY <2>1, <2>2, PassedCounts
  <2>5. \A r \in End : Other(r) \in E => ~Has(chan[r], "REQ", s)
    BY <1>7, <1>8 DEF Debt
  <2>. QED  BY <1>9, <2>3, <2>4, <2>5 DEF Counted
<1>11. /\ \A r \in End : \A m : On(chan'[r], m) => On(chan[r], m) \/ (Other(r) \in E /\ m = msg)
       /\ \A r \in End : \A m : On(chan[r], m) => On(chan'[r], m) \/ m = Head(chan[e])
  <2>1. E \in SUBSET End
    BY DEF ConnInv, TypeOK
  <2>2. PassedOn(e, E, msg)
    BY <1>1, <1>2, <1>3, <1>6, <2>1, OnAnswered
  <2>3. \A r \in End : Reaches(E, r) <=> Other(r) \in E
    BY CalmHears
  <2>. QED  BY <2>2, <2>3 DEF PassedOn
<1>12. PICK new \in Relays : new = Relay(e, TRUE)
  BY RelayType
<1>13. /\ new # NoEntry /\ new.needed = Cardinality(E) /\ new.received = 0 /\ new.upstream = e
       /\ new.waiting /\ new.asked = E /\ new.hits = {}
  BY <1>6, <1>12, RelayType
<1>14. \A m \in Node : fwd'[m][s] = IF m = n THEN new ELSE fwd[m][s]
  BY <1>2, <1>12 DEF ConnInv, TypeOK
<1>15. \A m \in Node : /\ Waiting(m, s)' <=> Waiting(m, s) \/ m = n
                       /\ m # n => Missing(m, s)' = Missing(m, s)
                       /\ Asks(m, s)' <=> Asks(m, s) \/ m = n
  <2>1. fwd'[n][s] = new
    BY <1>14
  <2>2. Waiting(n, s)' /\ Asks(n, s)'
    BY <1>2, <1>4, <1>13, <2>1 DEF Waiting, Asks
  <2>3. ASSUME NEW m \in Node, m # n
        PROVE  /\ Waiting(m, s)' <=> Waiting(m, s)
               /\ Missing(m, s)' = Missing(m, s)
               /\ Asks(m, s)' <=> Asks(m, s)
    <3>1. fwd'[m][s] = fwd[m][s]
      BY <1>14, <2>3
    <3>2. Waiting(m, s)' <=> Waiting(m, s)
      BY <3>1 DEF Waiting
    <3>3. Asks(m, s)' <=> Asks(m, s)
      BY <3>1 DEF Asks
    <3>4. Missing(m, s)' = Missing(m, s)
      BY <3>1, MissingSame
    <3>. QED  BY <3>2, <3>3, <3>4
  <2>. QED  BY <2>2, <2>3
<1>16. ~Waiting(n, s) /\ ~Asks(n, s)
  BY <1>2, <1>5 DEF Waiting, Asks
<1>17. \A x \in End : Pending(x, s)' <=> Pending(x, s) \/ x = d
  <2>1. ASSUME NEW x \in End PROVE Pending(x, s)' <=> Pending(x, s) \/ x = d
    <3>1. Other(x) = e <=> x = d
      BY <1>2, <1>7
    <3>2. CASE x[2] = n
      <4>1. Waiting(n, s)' /\ fwd'[n][s].upstream = e
        BY <1>13, <1>14, <1>15
      <4>2. Pending(x, s)' <=> e = Other(x)
        BY <3>2, <4>1 DEF Pending
      <4>3. ~Pending(x, s)
        BY <1>16, <3>2 DEF Pending
      <4>. QED  BY <3>1, <4>2, <4>3
    <3>3. CASE x[2] # n
      BY <1>2, <1>7, <1>14, <1>15, <3>3 DEF Pending
    <3>. QED  BY <3>2, <3>3
  <2>. QED  BY <2>1
<1>18. \A x \in listed : x \in End
  BY DEF ConnInv, TypeOK
<1>19. \A x : Away(x)' <=> Away(x)
  BY DEF Away
<1>20. Asker(s)'
  BY DEF Good, Asker
<1>21. Single(s)'
  <2>1. ASSUME NEW x \in End, Has(chan'[Other(x)], "REQ", s)
        PROVE  ~Has(chan'[x], "RESP", s) /\ ~Pending(x, s)'
    <3>1. CASE x \in E
      <4>1. x[1] = n /\ x # d
        BY <1>2, <1>5, <1>7, <3>1
      <4>. QED  BY <1>8, <1>10, <1>17, <4>1 DEF Debt
    <3>2. CASE x \notin E
      <4>1. Has(chan[Other(x)], "REQ", s) /\ x # d
        BY <1>2, <1>7, <1>10, <2>1, <3>2
      <4>. QED  BY <1>10, <1>17, <4>1 DEF Good, Single
    <3>. QED  BY <3>1, <3>2
  <2>2. ASSUME NEW x \in End, Has(chan'[x], "RESP", s) PROVE ~Pending(x, s)'
    <3>1. Has(chan[x], "RESP", s)
      BY <1>10, <2>2
    <3>2. x # d
      BY <1>2, <1>4, <3>1 DEF Good, Single
    <3>. QED  BY <1>17, <3>1, <3>2 DEF Good, Single
  <2>. QED  BY <1>10, <2>1, <2>2 DEF Single
<1>22. Requested(s)'
  <2>1. ASSUME NEW r \in End, NEW v \in Word, On(chan'[r], Request(s, v))
        PROVE  v = created[s].word /\ r \in listed /\ Asks(r[2], s)' /\ Away(r)
    <3>1. CASE On(chan[r], Request(s, v))
      BY <1>7, <1>15, <3>1 DEF Good, Requested
    <3>2. CASE Other(r) \in E /\ Request(s, v) = msg
      <4>1. v = w
        BY <1>1, <3>2, RequestParts
      <4>2. Other(Other(r)) \in listed /\ r[2] = n
        BY <1>7, <1>18, <3>2, CalmHears
      <4>3. Away(Other(Other(r)))
        BY <1>2, <1>4, <1>6, <3>2, AwayNext
      <4>. QED  BY <1>4, <1>7, <1>15, <4>1, <4>2, <4>3
    <3>. QED  BY <1>11, <2>1, <3>1, <3>2
  <2>. QED  BY <1>19, <2>1 DEF Requested
<1>23. Replied(s)'
  BY <1>10 DEF Good, Replied
<1>24. RelaysUp(s)'
  <2>1. ASSUME NEW m \in Node, fwd'[m][s] # NoEntry, NEW up, up = fwd'[m][s].upstream
        PROVE  up \in listed' /\ Asks(up[2], s)' /\ Away(up)' /\ fwd'[m][s].asked \subseteq listed'
    <3>1. CASE m # n
      <4>1. up \in listed /\ Asks(up[2], s) /\ Away(up) /\ fwd[m][s].asked \subseteq listed
        BY <1>14, <2>1, <3>1 DEF Good, RelaysUp
      <4>. QED  BY <1>7, <1>14, <1>15, <1>18, <1>19, <3>1, <4>1
    <3>2. CASE m = n
      <4>1. up = e /\ fwd'[m][s].asked = E
        BY <1>13, <1>14, <2>1, <3>2
      <4>2. Asks(e[2], s)'
        BY <1>2, <1>4, <1>15
      <4>. QED  BY <1>2, <1>4, <1>19, <4>1, <4>2
    <3>. QED  BY <3>1, <3>2
  <2>. QED  BY <2>1 DEF RelaysUp
<1>25. Spreads(s)'
  <2>1. ASSUME NEW x \in listed, Asks(x[1], s)'
        PROVE  x[2] = Searcher \/ fwd'[x[2]][s] # NoEntry \/ Has(chan'[Other(x)], "REQ", s)
    <3>1. x \in End
      BY <1>18
    <3>2. CASE Asks(x[1], s)
      <4>1. x[2] = Searcher \/ fwd[x[2]][s] # NoEntry \/ Has(chan[Other(x)], "REQ", s)
        BY <3>2 DEF Good, Spreads
      <4>2. Other(x) = e => x[2] = n
        BY <1>2, <1>7, <3>1
      <4>3. x[2] = n \/ fwd[x[2]][s] # NoEntry => fwd'[x[2]][s] # NoEntry
        <5>1. x[2] \in Node
          BY <1>7, <3>1
        <5>2. fwd'[x[2]][s] = IF x[2] = n THEN new ELSE fwd[x[2]][s]
          BY <1>14, <5>1
        <5>. QED  BY <1>13, <5>2
      <4>4. Has(chan[Other(x)], "REQ", s) /\ Other(x) # e => Has(chan'[Other(x)], "REQ", s)
        BY <1>7, <1>10, <3>1
      <4>. QED  BY <4>1, <4>2, <4>3, <4>4
    <3>3. CASE ~Asks(x[1], s)
      <4>1. x[1] = n
        BY <1>7, <1>15, <2>1, <3>1, <3>3
      <4>2. CASE x = e
        <5>1. Asks(e[2], s)
          BY <1>4
        <5>. QED  BY <1>2, <1>5, <1>14, <4>2, <5>1 DEF Asks
      <4>3. CASE x # e
        BY <1>7, <1>10, <3>1, <4>1, <4>3
      <4>. QED  BY <4>2, <4>3
    <3>. QED  BY <3>2, <3>3
  <2>. QED  BY <2>1 DEF Spreads
<1>26. Few(s)'
  <2>1. \A x \in End : x[1] # n => (Debt(x, s)' <=> Debt(x, s))
    <3>1. \A x \in End : Other(x) = e <=> x = d
      BY <1>2, <1>7
    <3>2. Debt(d, s)' /\ Debt(d, s)
      BY <1>2, <1>4, <1>17 DEF Debt
    <3>. QED  BY <1>7, <1>10, <1>17, <3>1, <3>2 DEF Debt
  <2>2. \A m \in Node : m # n => Debts(m, s)' = Debts(m, s)
    BY <2>1 DEF Debts, EndsOf
  <2>3. \A x \in End : x[1] = n /\ Debt(x, s)' => x \in E
    BY <1>2, <1>5, <1>7, <1>8, <1>10, <1>17 DEF Debt
  <2>4. PICK D : D = Debts(n, s)'
    OBVIOUS
  <2>5. D \subseteq E
    BY <2>3, <2>4 DEF Debts, EndsOf
  <2>6. IsFiniteSet(E) /\ Cardinality(E) \in Nat
    <3>1. E \in SUBSET End
      BY <1>18
    <3>. QED  BY <3>1, EndFinite, FS_Subset, FS_CardinalityType
  <2>7. Cardinality(D) <= Cardinality(E)
    BY <2>5, <2>6, FS_Subset
  <2>8. Missing(n, s)' = Cardinality(E)
    <3>1. Waiting(n, s)' /\ fwd'[n][s] = new
      BY <1>14, <1>15
    <3>2. Missing(n, s)' = new.needed - new.received
      BY <3>1 DEF Missing
    <3>. QED  BY <1>13, <2>6, <3>2
  <2>9. Cardinality(Debts(n, s))' <= Missing(n, s)'
    BY <2>4, <2>7, <2>8
  <2>. QED  BY <1>15, <2>2, <2>9 DEF Good, Few
<1>27. Grounded(s)'
  <2>1. \A m \in Node : m # n => fwd'[m][s] = fwd[m][s]
    BY <1>14
  <2>2. fwd'[n][s].upstream[2] # n
    BY <1>5, <1>2, <1>13, <1>14
  <2>3. fwd[n][s] = NoEntry /\ Grounded(s) /\ RelaysUp(s)
    BY <1>2 DEF Good
  <2>. QED  BY <1>5, <2>1, <2>2, <2>3, NewGrounded
<1>28. Kept(s)'
  <2>1. ASSUME NEW hit, OnWay(hit, s) PROVE OnWay(hit, s)'
    <3>1. \A r \in End, h \in SUBSET Hit :
             On(chan[r], Response(s, h)) => On(chan'[r], Response(s, h))
      <4>1. \A h \in SUBSET Hit : Response(s, h) # Head(chan[e])
        BY RequestParts
      <4>. QED  BY <1>11, <4>1
    <3>2. \A m \in Node : Waiting(m, s) => Waiting(m, s)' /\ fwd'[m][s] = fwd[m][s]
      BY <1>14, <1>15, <1>16
    <3>. QED  BY <2>1, <3>1, <3>2 DEF OnWay
  <2>. QED  BY <1>2, <1>4, <1>14, <2>1 DEF Good, Kept
<1>. QED
  BY <1>20, <1>21, <1>22, <1>23, <1>24, <1>25, <1>26, <1>27, <1>28 DEF Good

\* A reply that a relay takes.  It waits: else nobody would owe it one.
LEMMA RelayedGood ==
    ASSUME ConnInv, TreeInv, WaitInv, Calm, NEW e \in End, RespRelayed(e), NEW s \in Sid,
           s = Head(chan[e]).sid, Good(s)
    PROVE  Good(s)'
<1>1. PICK n \in Node, old \in Relays, new \in Relays :
         n = e[1] /\ old = fwd[n][s] /\ new = fwd'[n][s]
  BY RelayedEntry
<1>2. /\ \A m \in Node : m # n => fwd'[m][s] = fwd[m][s]
      /\ new.received = old.received + 1 /\ new.needed = old.needed
      /\ new.upstream = old.upstream /\ new.asked = old.asked
      /\ new.waiting <=> old.waiting /\ new.received # new.needed
      /\ chan' = IF new.received = new.needed
                 THEN SendOn(Consumed(e), {old.upstream} \cap listed, Response(s, new.hits))
                 ELSE Consumed(e)
  BY <1>1, RelayedEntry
<1>3. old # NoEntry /\ new # NoEntry /\ new.hits \in SUBSET Hit
  BY NoEntryAssumption DEF Relays
<1>4. /\ e \in listens /\ chan[e] # <<>> /\ chan \in Queues /\ UNCHANGED <<listed, created>>
      /\ On(chan[e], Head(chan[e])) /\ chan[e] \in Seq(Message)
  BY ReadMessage DEF RespRelayed, ConnInv, TypeOK, conns, search, Queues
<1>5. PICK more \in SUBSET Hit : Head(chan[e]) = Response(s, more)
  BY ReadMessage DEF RespRelayed
<1>6. new.hits = old.hits \cup more
  <2>1. Head(chan[e]).hits = more
    BY <1>5 DEF Response
  <2>. QED  BY <1>1, <2>1, RelayedEntry
<1>7. PICK up \in listed, d \in listed :
        /\ up = old.upstream /\ d = Other(up) /\ up = Other(d) /\ up \in End /\ d \in End
        /\ up[1] = n /\ d[2] = n /\ d[1] = up[2] /\ Away(up)
  <2>1. old.upstream \in listed /\ Away(old.upstream)
    BY <1>1, <1>3 DEF Good, RelaysUp
  <2>2. old.upstream[1] = n
    BY <1>1, <1>3 DEF ConnInv, RelaysOwn
  <2>. QED  BY <2>1, <2>2, CalmHears
<1>8. n # Searcher /\ e # d
  BY <1>1, <1>7, AwayNot
<1>9. \A x \in End : /\ x[1] \in Node /\ x[2] \in Node /\ Other(x) \in End
                     /\ Other(x) = up <=> x = d
  BY <1>7, EndParts
<1>10. Has(chan[e], "RESP", s) /\ ~Has(chan[Other(e)], "REQ", s) /\ ~Pending(e, s)
  <2>1. Has(chan[e], "RESP", s)
    BY <1>4, <1>5, HasOn
  <2>. QED  BY <2>1 DEF Good, Single
<1>11. Waiting(n, s) /\ Debt(e, s)
  <2>1. Debt(e, s)
    BY <1>10 DEF Debt
  <2>2. n \in Node \ {Searcher} /\ Few(s) /\ e[1] = n
    BY <1>1, <1>8 DEF Good
  <2>. QED  BY <2>1, <2>2, OwedNothing
<1>12. Pending(d, s) /\ ~Has(chan[d], "RESP", s)
  <2>1. Pending(d, s)
    BY <1>1, <1>7, <1>11 DEF Pending
  <2>. QED  BY <1>7, <2>1 DEF Good, Single
<1>13. PICK E \in SUBSET listed : E = IF new.received = new.needed THEN {up} ELSE {}
  OBVIOUS
<1>14. PICK msg \in Message : msg = Response(s, new.hits)
  BY <1>3, MessageTypes
<1>15. chan' = SendOn(Consumed(e), E, msg)
  <2>1. CASE new.received = new.needed
    <3>1. {old.upstream} \cap listed = E
      BY <1>7, <1>13, <2>1
    <3>. QED  BY <1>2, <1>14, <2>1, <3>1
  <2>2. CASE new.received # new.needed
    <3>1. E = {} /\ Consumed(e) \in Queues
      BY <1>4, <1>13, <2>2, OnConsumed
    <3>. QED  BY <1>2, <2>2, <3>1, NothingSent
  <2>. QED  BY <2>1, <2>2
<1>16. \A x \in End : Other(x) \in E <=> new.received = new.needed /\ x = d
  BY <1>9, <1>13
<1>17. /\ ~Is(Head(chan[e]), "REQ", s) /\ Is(Head(chan[e]), "RESP", s)
       /\ Is(msg, "RESP", s) /\ ~Is(msg, "REQ", s)
  BY <1>5, <1>14 DEF Is, Response
<1>18. \A r \in End :
         /\ Has(chan'[r], "REQ", s) <=> Has(chan[r], "REQ", s)
         /\ Has(chan'[r], "RESP", s) <=>
              (Has(chan[r], "RESP", s) /\ r # e) \/ (new.received = new.needed /\ r = d)
         /\ Once(chan'[r], "REQ", s) /\ Once(chan'[r], "RESP", s)
  <2>1. \A r \in End : Once(chan[r], "REQ", s) /\ Once(chan[r], "RESP", s)
    BY DEF Good, Single
  <2>2. Counted(e, E, msg, "REQ", s)
    BY <1>4, <1>15, <2>1, PassedCounts
  <2>3. Counted(e, E, msg, "RESP", s)
    BY <1>4, <1>15, <2>1, PassedCounts
  <2>. QED  BY <1>12, <1>16, <1>17, <2>2, <2>3 DEF Counted
<1>19. /\ \A r \in End : \A m : On(chan'[r], m) => On(chan[r], m) \/ m = msg
       /\ \A r \in End : \A m : On(chan[r], m) => On(chan'[r], m) \/ m = Head(chan[e])
       /\ new.received = new.needed => On(chan'[d], msg)
  <2>1. E \in SUBSET End
    BY DEF ConnInv, TypeOK
  <2>2. PassedOn(e, E, msg)
    BY <1>4, <1>15, <2>1, OnAnswered
  <2>3. \A r \in End : Reaches(E, r) <=> Other(r) \in E
    BY CalmHears
  <2>4. Other(d) \in E <=> new.received = new.needed
    BY <1>7, <1>16
  <2>. QED  BY <1>7, <2>2, <2>3, <2>4 DEF PassedOn
<1>20. \A m \in Node :
         /\ fwd'[m][s] # NoEntry <=> fwd[m][s] # NoEntry
         /\ fwd[m][s] # NoEntry => /\ fwd'[m][s].upstream = fwd[m][s].upstream
                                   /\ fwd'[m][s].asked = fwd[m][s].asked
                                   /\ fwd[m][s].hits \subseteq fwd'[m][s].hits
         /\ Waiting(m, s)' <=> Waiting(m, s) /\ ~(m = n /\ new.received = new.needed)
         /\ Asks(m, s)' <=> Asks(m, s)
  <2>1. ASSUME NEW m \in Node, m # n
        PROVE  /\ fwd'[m][s] = fwd[m][s]
               /\ Waiting(m, s)' <=> Waiting(m, s)
               /\ Asks(m, s)' <=> Asks(m, s)
    <3>1. fwd'[m][s] = fwd[m][s]
      BY <1>2, <2>1
    <3>. QED  BY <1>4, <3>1 DEF Waiting, Asks
  <2>2. /\ fwd'[n][s] # NoEntry /\ fwd[n][s] # NoEntry
        /\ fwd'[n][s].upstream = fwd[n][s].upstream
        /\ fwd'[n][s].asked = fwd[n][s].asked
        /\ fwd[n][s].hits \subseteq fwd'[n][s].hits
    BY <1>1, <1>2, <1>3, <1>6
  <2>3. Waiting(n, s)' <=> Waiting(n, s) /\ ~(new.received = new.needed)
    BY <1>1, <1>2, <1>3 DEF Waiting
  <2>4. Asks(n, s)' <=> Asks(n, s)
    BY <1>4, <2>2 DEF Asks
  <2>. QED  BY <2>1, <2>2, <2>3, <2>4
<1>21. \A x \in End : Pending(x, s)' <=> Pending(x, s) /\ ~(new.received = new.needed /\ x = d)
  <2>1. ASSUME NEW x \in End
        PROVE  Pending(x, s)' <=> Pending(x, s) /\ ~(new.received = new.needed /\ x = d)
    <3>1. CASE x[2] = n
      <4>1. Pending(x, s) <=> x = d
        BY <1>1, <1>7, <1>9, <1>11, <3>1 DEF Pending
      <4>2. Pending(x, s)' <=> Waiting(n, s)' /\ up = Other(x)
        BY <1>1, <1>2, <1>7, <3>1 DEF Pending
      <4>. QED  BY <1>9, <1>11, <1>20, <4>1, <4>2
    <3>2. CASE x[2] # n
      <4>1. x[2] \in Node /\ fwd'[x[2]][s] = fwd[x[2]][s] /\ x # d
        BY <1>2, <1>7, <1>9, <3>2
      <4>. QED  BY <4>1 DEF Pending, Waiting
    <3>. QED  BY <3>1, <3>2
  <2>. QED  BY <2>1
<1>22. \A x \in End : Debt(x, s)' <=> Debt(x, s) /\ x # e
  BY <1>8, <1>9, <1>10, <1>12, <1>18, <1>21 DEF Debt
<1>23. \A x \in listed : x \in End
  BY DEF ConnInv, TypeOK
<1>24. \A x : Away(x)' <=> Away(x)
  BY <1>4 DEF Away
<1>30. Asker(s)'
  BY <1>4 DEF Good, Asker
<1>31. Single(s)'
  <2>1. ASSUME NEW x \in End, Has(chan'[Other(x)], "REQ", s)
        PROVE  ~Has(chan'[x], "RESP", s) /\ ~Pending(x, s)'
    <3>1. ~Has(chan[x], "RESP", s) /\ ~Pending(x, s)
      BY <1>9, <1>18, <2>1 DEF Good, Single
    <3>. QED  BY <1>12, <1>18, <1>21, <3>1
  <2>2. ASSUME NEW x \in End, Has(chan'[x], "RESP", s) PROVE ~Pending(x, s)'
    <3>1. Has(chan[x], "RESP", s) \/ (new.received = new.needed /\ x = d)
      BY <1>18, <2>2
    <3>. QED  BY <1>21, <3>1 DEF Good, Single
  <2>. QED  BY <1>18, <2>1, <2>2 DEF Single
<1>32. Requested(s)'
  <2>1. ASSUME NEW r \in End, NEW v \in Word, On(chan'[r], Request(s, v))
        PROVE  v = created[s].word /\ r \in listed /\ Asks(r[2], s)' /\ Away(r)
    <3>1. On(chan[r], Request(s, v))
      BY <1>14, <1>19, <2>1, RequestParts
    <3>. QED  BY <1>9, <1>20, <3>1 DEF Good, Requested
  <2>. QED  BY <1>4, <1>24, <2>1 DEF Requested
<1>33. Replied(s)'
  BY <1>4, <1>18 DEF Good, Replied
<1>34. RelaysUp(s)'
  <2>1. ASSUME NEW m \in Node, fwd'[m][s] # NoEntry, NEW to, to = fwd'[m][s].upstream
        PROVE  to \in listed' /\ Asks(to[2], s)' /\ Away(to)' /\ fwd'[m][s].asked \subseteq listed'
    <3>1. to \in listed /\ Asks(to[2], s) /\ Away(to) /\ fwd[m][s].asked \subseteq listed
      BY <1>20, <2>1 DEF Good, RelaysUp
    <3>2. fwd'[m][s].asked = fwd[m][s].asked
      BY <1>20, <2>1
    <3>3. Asks(to[2], s)'
      BY <1>9, <1>20, <1>23, <3>1
    <3>. QED  BY <1>4, <1>24, <3>1, <3>2, <3>3
  <2>. QED  BY <2>1 DEF RelaysUp
<1>35. Spreads(s)'
  <2>1. ASSUME NEW x \in listed, Asks(x[1], s)'
        PROVE  x[2] = Searcher \/ fwd'[x[2]][s] # NoEntry \/ Has(chan'[Other(x)], "REQ", s)
    <3>1. x \in End /\ x[1] \in Node /\ x[2] \in Node /\ Other(x) \in End
      BY <1>9, <1>23
    <3>2. Asks(x[1], s)
      BY <1>20, <2>1, <3>1
    <3>3. x[2] = Searcher \/ fwd[x[2]][s] # NoEntry \/ Has(chan[Other(x)], "REQ", s)
      BY <3>2 DEF Good, Spreads
    <3>. QED  BY <1>18, <1>20, <3>1, <3>3
  <2>. QED  BY <1>4, <2>1 DEF Spreads
<1>36. Few(s)'
  <2>1. ASSUME NEW m \in Node \ {Searcher}, m # n
        PROVE  Cardinality(Debts(m, s))' <= Missing(m, s)'
    <3>1. Debts(m, s)' = Debts(m, s)
      BY <1>1, <1>22, <2>1 DEF Debts, EndsOf
    <3>2. fwd'[m][s] = fwd[m][s]
      BY <1>2, <2>1
    <3>3. Missing(m, s)' = Missing(m, s)
      BY <3>2 DEF Missing, Waiting
    <3>4. Cardinality(Debts(m, s)) <= Missing(m, s)
      BY <2>1 DEF Good, Few
    <3>. QED  BY <3>1, <3>3, <3>4
  <2>2. Cardinality(Debts(n, s))' <= Missing(n, s)'
    <3>1. PICK D : D = Debts(n, s)
      OBVIOUS
    <3>2. Debts(n, s)' = D \ {e} /\ e \in D
      BY <1>1, <1>11, <1>22, <3>1 DEF Debts, EndsOf
    <3>3. IsFiniteSet(D) /\ Cardinality(D) \in Nat
      BY <3>1, DebtsFinite
    <3>4. Cardinality(D \ {e}) = Cardinality(D) - 1
      BY <3>2, <3>3, FS_RemoveElement
    <3>5. Cardinality(D) <= old.needed - old.received
      <4>1. Missing(n, s) = old.needed - old.received
        BY <1>1, <1>11 DEF Missing
      <4>. QED  BY <1>8, <3>1, <4>1 DEF Good, Few
    <3>6. old.received \in Nat /\ old.needed \in Nat
      BY DEF Relays
    <3>7. Missing(n, s)' = IF new.received = new.needed THEN 0 ELSE new.needed - new.received
      <4>1. Waiting(n, s)' <=> ~(new.received = new.needed)
        BY <1>11, <1>20
      <4>2. Missing(n, s)' = IF Waiting(n, s)' THEN new.needed - new.received ELSE 0
        BY <1>1 DEF Missing
      <4>. QED  BY <4>1, <4>2
    <3>8. Cardinality(D \ {e}) <= Missing(n, s)'
      BY <1>2, <3>3, <3>4, <3>5, <3>6, <3>7
    <3>. QED  BY <3>2, <3>8
  <2>. QED  BY <2>1, <2>2 DEF Few
<1>37. Grounded(s)'
  <2>1. {m \in Node : fwd'[m][s] # NoEntry} = {m \in Node : fwd[m][s] # NoEntry}
    BY <1>20
  <2>2. ASSUME NEW R \in SUBSET {m \in Node : fwd[m][s] # NoEntry}, R # {}
        PROVE  \E k \in R : \A m \in R : fwd'[m][s].upstream[2] # k
    <3>1. PICK k \in R : \A m \in R : fwd[m][s].upstream[2] # k
      BY <2>2 DEF Good, Grounded
    <3>. QED  BY <1>20, <3>1
  <2>. QED  BY <2>1, <2>2 DEF Grounded
<1>38. Kept(s)'
  <2>1. ASSUME NEW hit \in new.hits PROVE OnWay(hit, s)'
    <3>1. CASE new.received = new.needed
      <4>1. On(chan'[d], Response(s, new.hits))
        BY <1>14, <1>19, <3>1
      <4>. QED  BY <1>3, <1>7, <2>1, <4>1 DEF OnWay
    <3>2. CASE new.received # new.needed
      <4>1. Waiting(n, s)' /\ hit \in fwd'[n][s].hits
        BY <1>1, <1>11, <1>20, <2>1, <3>2
      <4>. QED  BY <4>1 DEF OnWay
    <3>. QED  BY <3>1, <3>2
  <2>2. ASSUME NEW hit, OnWay(hit, s) PROVE OnWay(hit, s)'
    <3>1. CASE hit \in created[s].hits
      BY <1>4, <3>1 DEF OnWay
    <3>2. ASSUME NEW m \in Node, Waiting(m, s), hit \in fwd[m][s].hits PROVE OnWay(hit, s)'
      <4>1. CASE m = n
        BY <1>1, <1>6, <2>1, <3>2, <4>1
      <4>2. CASE m # n
        <5>1. Waiting(m, s)' /\ hit \in fwd'[m][s].hits
          BY <1>2, <1>20, <3>2, <4>2
        <5>. QED  BY <5>1 DEF OnWay
      <4>. QED  BY <4>1, <4>2
    <3>3. ASSUME NEW r \in End, NEW h \in SUBSET Hit, hit \in h, On(chan[r], Response(s, h))
          PROVE  OnWay(hit, s)'
      <4>1. CASE On(chan'[r], Response(s, h))
        BY <3>3, <4>1 DEF OnWay
      <4>2. CASE Response(s, h) = Head(chan[e])
        <5>1. h = more
          BY <1>5, <4>2, ResponseParts
        <5>. QED  BY <1>6, <2>1, <3>3, <5>1
      <4>. QED  BY <1>19, <3>3, <4>1, <4>2
    <3>. QED  BY <2>2, <3>1, <3>2, <3>3 DEF OnWay
  <2>. QED  BY <1>4, <1>20, <2>2 DEF Good, Kept
<1>. QED
  BY <1>30, <1>31, <1>32, <1>33, <1>34, <1>35, <1>36, <1>37, <1>38 DEF Good

\* A reply to the searching node: nobody else is owed one without a relay.
LEMMA CreatorGood ==
    ASSUME ConnInv, TreeInv, Calm, NEW e \in End, RespToCreator(e), NEW s \in Sid,
           s = Head(chan[e]).sid, created[s] # NoEntry, Good(s)
    PROVE  Good(s)'
<1>1. /\ e \in listens /\ chan[e] # <<>> /\ chan \in Queues /\ chan[e] \in Seq(Message)
      /\ On(chan[e], Head(chan[e])) /\ chan' = Consumed(e) /\ UNCHANGED <<listed, fwd>>
      /\ fwd[e[1]][s] = NoEntry
  BY ReadMessage DEF RespToCreator, ConnInv, TypeOK, conns, Queues, Known
<1>2. PICK more \in SUBSET Hit : Head(chan[e]) = Response(s, more) /\ Head(chan[e]).hits = more
  BY ReadMessage DEF RespToCreator
<1>3. Has(chan[e], "RESP", s)
  BY <1>1, <1>2, HasOn
<1>4. \A x \in End : x[1] \in Node /\ x[2] \in Node /\ Other(x) \in End
  BY EndParts
<1>5. e[1] = Searcher
  <2>1. Debt(e, s)
    BY <1>3 DEF Debt
  <2>2. e[1] \in Node /\ ~Waiting(e[1], s) /\ Few(s)
    BY <1>1, <1>4 DEF Waiting, Good
  <2>. QED  BY <2>1, <2>2, OwedNothing
<1>6. /\ SameSearch(s)
      /\ created[s].status # "FAILED" => more \subseteq created'[s].hits
  BY <1>2, <1>5, CreatorTakes
<1>7. /\ created'[s].word = created[s].word /\ created[s].hits \subseteq created'[s].hits
      /\ created[s].status = "FAILED" => created'[s].status = "FAILED"
  BY <1>6 DEF SameSearch
<1>8. PICK msg \in Message : msg = Response(s, more)
  BY MessageTypes
<1>9. \A r \in End : /\ Has(chan'[r], "REQ", s) <=> Has(chan[r], "REQ", s)
                     /\ Has(chan'[r], "RESP", s) <=> Has(chan[r], "RESP", s) /\ r # e
                     /\ Once(chan'[r], "REQ", s) /\ Once(chan'[r], "RESP", s)
  <2>1. Consumed(e) \in Queues
    BY <1>1, OnConsumed
  <2>2. chan' = SendOn(Consumed(e), {}, msg)
    BY <1>1, <2>1, NothingSent
  <2>3. \A r \in End : Once(chan[r], "REQ", s) /\ Once(chan[r], "RESP", s)
    BY DEF Good, Single
  <2>4. {} \in SUBSET listed
    OBVIOUS
  <2>5. Counted(e, {}, msg, "REQ", s)
    BY <1>1, <2>2, <2>3, <2>4, PassedCounts
  <2>6. Counted(e, {}, msg, "RESP", s)
    BY <1>1, <2>2, <2>3, <2>4, PassedCounts
  <2>7. ~Is(Head(chan[e]), "REQ", s) /\ Is(Head(chan[e]), "RESP", s)
    BY <1>2 DEF Is, Response
  <2>. QED  BY <2>5, <2>6, <2>7 DEF Counted
<1>10. /\ \A r \in End : \A m : On(chan'[r], m) => On(chan[r], m)
       /\ \A r \in End : \A m : On(chan[r], m) => On(chan'[r], m) \/ m = Head(chan[e])
  BY <1>1, OnConsumed
<1>11. \A n \in Node : /\ Waiting(n, s)' <=> Waiting(n, s)
                       /\ Asks(n, s)' <=> Asks(n, s)
                       /\ Missing(n, s)' = Missing(n, s)
  BY <1>1, <1>7 DEF Waiting, Asks, Missing
<1>12. \A x \in End : /\ Pending(x, s)' <=> Pending(x, s)
                      /\ x[1] # Searcher => (Debt(x, s)' <=> Debt(x, s))
  <2>1. \A x \in End : Pending(x, s)' <=> Pending(x, s)
    BY <1>1, <1>4, <1>11 DEF Pending
  <2>. QED  BY <1>4, <1>5, <1>9, <2>1 DEF Debt
<1>13. \A x : Away(x)' <=> Away(x)
  BY <1>1 DEF Away
<1>14. \A x \in listed : x \in End
  BY DEF ConnInv, TypeOK
<1>20. Asker(s)'
  BY <1>7 DEF Good, Asker
<1>21. Single(s)'
  BY <1>4, <1>9, <1>12 DEF Good, Single
<1>22. Requested(s)'
  <2>1. ASSUME NEW r \in End, NEW v \in Word, On(chan'[r], Request(s, v))
        PROVE  v = created'[s].word /\ r \in listed' /\ Asks(r[2], s)' /\ Away(r)
    <3>1. On(chan[r], Request(s, v))
      BY <1>10, <2>1
    <3>. QED  BY <1>1, <1>4, <1>7, <1>11, <3>1 DEF Good, Requested
  <2>. QED  BY <1>13, <2>1 DEF Requested
<1>23. Replied(s)'
  BY <1>1, <1>9 DEF Good, Replied
<1>24. RelaysUp(s)'
  <2>1. ASSUME NEW m \in Node, fwd'[m][s] # NoEntry, NEW up, up = fwd'[m][s].upstream
        PROVE  up \in listed' /\ Asks(up[2], s)' /\ Away(up)' /\ fwd'[m][s].asked \subseteq listed'
    <3>1. up \in listed /\ Asks(up[2], s) /\ Away(up) /\ fwd[m][s].asked \subseteq listed
      BY <1>1, <2>1 DEF Good, RelaysUp
    <3>2. Asks(up[2], s)'
      BY <1>4, <1>11, <1>14, <3>1
    <3>. QED  BY <1>1, <1>13, <3>1, <3>2
  <2>. QED  BY <2>1 DEF RelaysUp
<1>25. Spreads(s)'
  <2>1. ASSUME NEW x \in listed, Asks(x[1], s)'
        PROVE  x[2] = Searcher \/ fwd'[x[2]][s] # NoEntry \/ Has(chan'[Other(x)], "REQ", s)
    <3>1. x \in End /\ Asks(x[1], s)
      BY <1>4, <1>11, <1>14, <2>1
    <3>2. x[2] = Searcher \/ fwd[x[2]][s] # NoEntry \/ Has(chan[Other(x)], "REQ", s)
      BY <3>1 DEF Good, Spreads
    <3>. QED  BY <1>1, <1>4, <1>9, <3>1, <3>2
  <2>. QED  BY <1>1, <2>1 DEF Spreads
<1>26. Few(s)'
  <2>1. \A n \in Node \ {Searcher} : Debts(n, s)' = Debts(n, s)
    BY <1>12 DEF Debts, EndsOf
  <2>. QED  BY <1>11, <2>1 DEF Good, Few
<1>27. Grounded(s)'
  BY <1>1 DEF Good, Grounded
<1>28. Kept(s)'
  <2>1. ASSUME NEW hit, OnWay(hit, s), created'[s].status # "FAILED" PROVE OnWay(hit, s)'
    <3>1. CASE hit \in created[s].hits
      BY <1>7, <3>1 DEF OnWay
    <3>2. ASSUME NEW m \in Node, Waiting(m, s), hit \in fwd[m][s].hits PROVE OnWay(hit, s)'
      <4>1. Waiting(m, s)' /\ hit \in fwd'[m][s].hits
        BY <1>1, <1>11, <3>2
      <4>. QED  BY <4>1 DEF OnWay
    <3>3. ASSUME NEW r \in End, NEW h \in SUBSET Hit, hit \in h, On(chan[r], Response(s, h))
          PROVE  OnWay(hit, s)'
      <4>1. CASE On(chan'[r], Response(s, h))
        BY <3>3, <4>1 DEF OnWay
      <4>2. CASE Response(s, h) = Head(chan[e])
        <5>1. h = more
          BY <1>2, <4>2, ResponseParts
        <5>2. hit \in created'[s].hits
          BY <1>6, <1>7, <2>1, <3>3, <5>1
        <5>. QED  BY <5>2 DEF OnWay
      <4>. QED  BY <1>10, <3>3, <4>1, <4>2
    <3>. QED  BY <2>1, <3>1, <3>2, <3>3 DEF OnWay
  <2>2. ASSUME NEW n \in Node, created'[s].status # "FAILED", fwd'[n][s] # NoEntry, NEW word,
               word = created'[s].word, word \in Holds[n]
        PROVE  OnWay(<<n, word>>, s)'
    <3>1. OnWay(<<n, word>>, s)
      BY <1>1, <1>7, <2>2 DEF Good, Kept
    <3>. QED  BY <2>1, <2>2, <3>1
  <2>. QED  BY <2>2 DEF Kept
<1>. QED
  BY <1>20, <1>21, <1>22, <1>23, <1>24, <1>25, <1>26, <1>27, <1>28 DEF Good

\* The queues after an attempt.
LEMMA AttemptCounts ==
    ASSUME ConnInv, Calm, NEW s \in Sid, NEW w \in Word,
           chan' = SendOn(chan, ConnectedPeers(Searcher), Request(s, w)),
           NEW type, NEW t, NEW r \in End, Once(chan[r], type, t),
           ~(Is(Request(s, w), type, t) /\ Has(chan[r], type, t))
    PROVE  /\ Has(chan'[r], type, t) <=>
                \/ Has(chan[r], type, t)
                \/ Other(r) \in ConnectedPeers(Searcher) /\ Is(Request(s, w), type, t)
           /\ Once(chan'[r], type, t)
<1>1. PICK msg \in Message : msg = Request(s, w)
  BY MessageTypes
<1>2. PICK E \in SUBSET listed : E = ConnectedPeers(Searcher)
  BY DEF ConnectedPeers
<1>3. chan \in Queues
  BY DEF ConnInv, TypeOK
<1>4. PICK q \in Seq(Message) : q = chan[r]
  BY <1>3 DEF Queues
<1>5. SendOn(chan, E, msg)[r] = IF Other(r) \in E THEN Append(chan[r], msg) ELSE chan[r]
  BY <1>3, CalmSends
<1>6. chan'[r] = IF Other(r) \in E THEN Append(q, msg) ELSE q
  BY <1>1, <1>2, <1>4, <1>5
<1>7. /\ Has(Append(q, msg), type, t) <=> Has(q, type, t) \/ Is(msg, type, t)
      /\ Once(q, type, t) /\ ~(Is(msg, type, t) /\ Has(q, type, t)) =>
            Once(Append(q, msg), type, t)
  BY HasAppend
<1>. QED  BY <1>1, <1>2, <1>4, <1>6, <1>7

\* An attempt with an id that nobody has heard of.
LEMMA AttemptGood ==
    ASSUME ConnInv, IdsKnown, Calm, NEW s \in Sid, NEW w \in Word,
           s \in Nat, s = counter + 1, s \notin used, w \notin Holds[Searcher],
           chan' = SendOn(chan, ConnectedPeers(Searcher), Request(s, w)),
           UNCHANGED <<listed, fwd>>, created'[s].word = w
    PROVE  Good(s)'
<1>1. ~Heard(s)
  BY DEF ConnInv, TypeOK, IdsKnown, Spent
<1>2. chan \in Queues
  BY DEF ConnInv, TypeOK
<1>3. \A r \in End : ~Has(chan[r], "REQ", s) /\ ~Has(chan[r], "RESP", s)
  BY <1>1, <1>2, HasOn DEF Heard, Queues
<1>4. \A n \in Node : fwd[n][s] = NoEntry /\ fwd'[n][s] = NoEntry
  BY <1>1 DEF Heard
<1>5. PICK P \in SUBSET listed : P = ConnectedPeers(Searcher)
  BY DEF ConnectedPeers
<1>6. \A x \in End : /\ x[1] \in Node /\ x[2] \in Node /\ Other(x) \in End /\ Other(Other(x)) = x
                     /\ Other(x)[1] = x[2]
                     /\ x \in P <=> x \in listed /\ x[1] = Searcher
  BY <1>5, EndParts DEF ConnectedPeers, EndsOf
<1>7. \A r \in End : /\ Has(chan'[r], "REQ", s) <=> Other(r) \in P
                     /\ ~Has(chan'[r], "RESP", s)
                     /\ Once(chan'[r], "REQ", s) /\ Once(chan'[r], "RESP", s)
  <2>1. ASSUME NEW r \in End
        PROVE  /\ Has(chan'[r], "REQ", s) <=> Other(r) \in P
               /\ ~Has(chan'[r], "RESP", s)
               /\ Once(chan'[r], "REQ", s) /\ Once(chan'[r], "RESP", s)
    <3>1. Once(chan[r], "REQ", s) /\ Once(chan[r], "RESP", s)
      BY <1>3 DEF Has, Once
    <3>2. Is(Request(s, w), "REQ", s) /\ ~Is(Request(s, w), "RESP", s)
      BY DEF Is, Request
    <3>3. /\ Has(chan'[r], "REQ", s) <=>
                \/ Has(chan[r], "REQ", s)
                \/ Other(r) \in ConnectedPeers(Searcher) /\ Is(Request(s, w), "REQ", s)
          /\ Once(chan'[r], "REQ", s)
      BY <1>3, <3>1, AttemptCounts
    <3>4. /\ Has(chan'[r], "RESP", s) <=>
                \/ Has(chan[r], "RESP", s)
                \/ Other(r) \in ConnectedPeers(Searcher) /\ Is(Request(s, w), "RESP", s)
          /\ Once(chan'[r], "RESP", s)
      BY <1>3, <3>1, AttemptCounts
    <3>. QED  BY <1>3, <1>5, <3>2, <3>3, <3>4
  <2>. QED  BY <2>1
<1>8. ASSUME NEW r \in End, NEW v \in Word, On(chan'[r], Request(s, v))
      PROVE  v = w /\ Other(r) \in P
  <2>1. PICK msg \in Message : msg = Request(s, w)
    BY MessageTypes
  <2>2. P \in SUBSET End
    BY DEF ConnInv, TypeOK
  <2>3. PICK next : next = SendOn(chan, P, msg)
    OBVIOUS
  <2>4. \A m : On(next[r], m) <=> On(chan[r], m) \/ (Reaches(P, r) /\ m = msg)
    BY <1>2, <2>2, <2>3, OnSent
  <2>5. chan' = next
    BY <1>5, <2>1, <2>3
  <2>6. ~On(chan[r], Request(s, v))
    BY <1>1 DEF Heard
  <2>7. Reaches(P, r) /\ Request(s, v) = msg
    BY <1>8, <2>4, <2>5, <2>6
  <2>8. Other(r) \in P
    BY <2>7, CalmHears
  <2>. QED  BY <2>1, <2>7, <2>8, RequestParts
<1>9. \A x \in End : ~Waiting(x[2], s)' /\ ~Pending(x, s)'
  BY <1>4, <1>6 DEF Waiting, Pending
<1>10. \A x \in listed : x \in End
  BY DEF ConnInv, TypeOK
<1>20. Asker(s)'
  BY DEF Asker
<1>21. Single(s)'
  BY <1>7, <1>9 DEF Single
<1>22. Requested(s)'
  <2>1. ASSUME NEW r \in End, NEW v \in Word, On(chan'[r], Request(s, v))
        PROVE  v = created'[s].word /\ r \in listed' /\ Asks(r[2], s)' /\ Away(r)'
    <3>1. v = w /\ Other(r) \in listed /\ Other(r)[1] = Searcher /\ Other(Other(r)) = r
      BY <1>6, <1>8, <2>1
    <3>2. Other(Other(r)) \in listed
      BY <3>1, CalmHears
    <3>3. Away(Other(Other(r)))
      BY <3>1, AwayFirst
    <3>4. Away(r)'
      BY <3>1, <3>3 DEF Away
    <3>5. r[2] = Searcher
      BY <1>6, <3>1
    <3>. QED  BY <3>1, <3>2, <3>4, <3>5 DEF Asks
  <2>. QED  BY <2>1 DEF Requested
<1>23. Replied(s)'
  BY <1>7 DEF Replied
<1>24. RelaysUp(s)'
  BY <1>4 DEF RelaysUp
<1>25. Spreads(s)'
  <2>1. ASSUME NEW x \in listed, Asks(x[1], s)'
        PROVE  Has(chan'[Other(x)], "REQ", s)
    <3>1. x \in End /\ x[1] = Searcher
      BY <1>4, <1>6, <1>10, <2>1 DEF Asks
    <3>. QED  BY <1>6, <1>7, <3>1
  <2>. QED  BY <2>1 DEF Spreads
<1>26. Few(s)'
  <2>1. ASSUME NEW n \in Node \ {Searcher} PROVE Cardinality(Debts(n, s))' <= Missing(n, s)'
    <3>1. \A x \in End : x[1] = n => ~Debt(x, s)'
      BY <1>6, <1>7, <1>9, <2>1 DEF Debt
    <3>2. Debts(n, s)' = {}
      BY <3>1 DEF Debts, EndsOf
    <3>3. Cardinality(Debts(n, s))' = 0
      BY <3>2, FS_EmptySet
    <3>4. Missing(n, s)' = 0
      BY <1>4 DEF Missing, Waiting
    <3>. QED  BY <3>3, <3>4
  <2>. QED  BY <2>1 DEF Few
<1>27. Grounded(s)'
  BY <1>4 DEF Grounded
<1>28. Kept(s)'
  BY <1>4 DEF Kept
<1>. QED
  BY <1>20, <1>21, <1>22, <1>23, <1>24, <1>25, <1>26, <1>27, <1>28 DEF Good

\* An attempt of another search.
LEMMA AttemptStays ==
    ASSUME ConnInv, Calm, NEW s \in Sid, NEW w \in Word, NEW t \in Sid, t # s,
           chan' = SendOn(chan, ConnectedPeers(Searcher), Request(s, w)),
           UNCHANGED <<listed, fwd>>, created'[t] = created[t], created[t] # NoEntry, Good(t)
    PROVE  Good(t)'
<1>1. SameSearch(t) /\ \A n \in Node : fwd'[n][t] = fwd[n][t]
  BY DEF SameSearch
<1>2. \A type : ~Is(Request(s, w), type, t)
  BY DEF Is, Request
<1>3. \A r \in End, type \in {"REQ", "RESP"} :
         /\ Has(chan'[r], type, t) <=> Has(chan[r], type, t)
         /\ Once(chan'[r], type, t)
  <2>1. \A r \in End, type \in {"REQ", "RESP"} : Once(chan[r], type, t)
    BY DEF Good, Single
  <2>2. ASSUME NEW r \in End, NEW type \in {"REQ", "RESP"}
        PROVE  /\ Has(chan'[r], type, t) <=> Has(chan[r], type, t)
               /\ Once(chan'[r], type, t)
    <3>1. Once(chan[r], type, t) /\ ~Is(Request(s, w), type, t)
      BY <1>2, <2>1
    <3>2. /\ Has(chan'[r], type, t) <=>
                \/ Has(chan[r], type, t)
                \/ Other(r) \in ConnectedPeers(Searcher) /\ Is(Request(s, w), type, t)
          /\ Once(chan'[r], type, t)
      BY <3>1, AttemptCounts
    <3>. QED  BY <3>1, <3>2
  <2>. QED  BY <2>2
<1>4. PICK msg \in Message : msg = Request(s, w)
  BY MessageTypes
<1>5. PICK P \in SUBSET End : P = ConnectedPeers(Searcher)
  BY DEF ConnectedPeers, ConnInv, TypeOK
<1>6. PICK next : next = SendOn(chan, P, msg)
  OBVIOUS
<1>7. \A r \in End : \A m : On(next[r], m) <=> On(chan[r], m) \/ (Reaches(P, r) /\ m = msg)
  <2>1. chan \in Queues
    BY DEF ConnInv, TypeOK
  <2>. QED  BY <1>6, <2>1, OnSent
<1>8. chan' = next
  BY <1>4, <1>5, <1>6
<1>9. \A r \in End, v \in Word : On(chan'[r], Request(t, v)) => On(chan[r], Request(t, v))
  BY <1>4, <1>7, <1>8, RequestParts
<1>10. \A r \in End, hits \in SUBSET Hit :
          On(chan[r], Response(t, hits)) => On(chan'[r], Response(t, hits))
  BY <1>7, <1>8
<1>. QED  BY <1>1, <1>3, <1>9, <1>10, GoodStays

----------------------------------------------------------------------------
(* Every step, and what is left when nothing is on its way.                *)

\* A relay that changed is of the search that the message is about.
LEMMA OtherRelays ==
    ASSUME ConnInv, NEW n \in Node, NEW s \in Sid, NEW new, fwd' = [fwd EXCEPT ![n][s] = new],
           NEW t \in Sid, t # s
    PROVE  \A m \in Node : fwd'[m][t] = fwd[m][t]
<1>1. fwd \in [Node -> [Sid -> Relays \cup {NoEntry}]]
  BY DEF ConnInv, TypeOK
<1>. QED  BY <1>1

LEMMA RequestRead ==
    ASSUME ConnInv, TreeInv, Calm, NEW e \in End, NEW s \in Sid, created[s] # NoEntry, Good(s),
           ReqProcessed(e) \/ ReqAnswered(e) \/ ReqForward(e)
    PROVE  Good(s)'
<1>1. Receives(e, "REQ") /\ UNCHANGED <<listed, created>>
  BY DEF ReqProcessed, ReqAnswered, ReqForward, conns, search
<1>2. PICK t \in Sid, w \in Word : Head(chan[e]) = Request(t, w)
  BY <1>1, ReadMessage
<1>3. /\ e \in listens /\ chan[e] # <<>> /\ e \in listed /\ e[1] \in Node
      /\ Head(chan[e]).sid = t /\ Head(chan[e]).word = w
      /\ ForwardTo(e) \in SUBSET listed
  BY <1>1, <1>2, EndParts DEF Receives, ConnInv, Listening, Request, ForwardTo, ConnectedPeers
<1>4. SameSearch(s)
  BY <1>1 DEF SameSearch
<1>5. CASE ReqProcessed(e)
  <2>1. /\ chan' = SendOn(Consumed(e), {e}, Response(t, {}))
        /\ fwd' = fwd /\ fwd[e[1]][t] # NoEntry
    BY <1>3, <1>5 DEF ReqProcessed, Known
  <2>2. CASE s = t
    <3>1. chan' = SendOn(Consumed(e), {e}, Response(s, {})) /\ {} \in SUBSET Hit
      BY <2>1, <2>2
    <3>. QED  BY <1>1, <1>2, <1>3, <2>1, <2>2, <3>1, AnswerGood
  <2>3. CASE s # t
    <3>1. PICK msg \in Message : msg = Response(t, {})
      BY MessageTypes
    <3>2. \A type \in {"REQ", "RESP"} : ~Is(Head(chan[e]), type, s) /\ ~Is(msg, type, s)
      BY <1>3, <2>3, <3>1 DEF Is, Response
    <3>3. chan' = SendOn(Consumed(e), {e}, msg) /\ {e} \in SUBSET listed
      BY <1>3, <2>1, <3>1
    <3>4. \A n \in Node : fwd'[n][s] = fwd[n][s]
      BY <2>1
    <3>. QED  BY <1>1, <1>3, <1>4, <3>2, <3>3, <3>4, PassedStays
  <2>. QED  BY <2>2, <2>3
<1>6. CASE ReqAnswered(e)
  <2>1. PICK hits : hits = {<<e[1], w>>} \cap (Node \X Holds[e[1]])
    OBVIOUS
  <2>2. /\ hits \in SUBSET Hit /\ (w \in Holds[e[1]] => <<e[1], w>> \in hits)
    <3>1. Holds[e[1]] \in SUBSET Word
      BY <1>3, ChurnAssumption
    <3>. QED  BY <1>3, <2>1, <3>1 DEF Hit
  <2>3. /\ chan' = SendOn(Consumed(e), {e}, Response(t, hits))
        /\ fwd[e[1]][t] = NoEntry /\ fwd' = [fwd EXCEPT ![e[1]][t] = Relay(e, FALSE)]
        /\ ForwardTo(e) = {} \/ w \in Holds[e[1]]
    BY <1>3, <1>6, <2>1 DEF ReqAnswered, Known
  <2>4. CASE s = t
    BY <1>1, <1>2, <1>3, <2>2, <2>3, <2>4, AnswerGood
  <2>5. CASE s # t
    <3>1. PICK msg \in Message : msg = Response(t, hits)
      BY <2>2, MessageTypes
    <3>2. \A type \in {"REQ", "RESP"} : ~Is(Head(chan[e]), type, s) /\ ~Is(msg, type, s)
      BY <1>3, <2>5, <3>1 DEF Is, Response
    <3>3. chan' = SendOn(Consumed(e), {e}, msg) /\ {e} \in SUBSET listed
      BY <1>3, <2>3, <3>1
    <3>4. \A n \in Node : fwd'[n][s] = fwd[n][s]
      BY <1>3, <2>3, <2>5, OtherRelays
    <3>. QED  BY <1>1, <1>3, <1>4, <3>2, <3>3, <3>4, PassedStays
  <2>. QED  BY <2>4, <2>5
<1>7. CASE ReqForward(e)
  <2>1. /\ chan' = SendOn(Consumed(e), ForwardTo(e), Request(t, w))
        /\ fwd[e[1]][t] = NoEntry /\ fwd' = [fwd EXCEPT ![e[1]][t] = Relay(e, TRUE)]
        /\ w \notin Holds[e[1]]
    BY <1>2, <1>3, <1>7 DEF ReqForward, Known
  <2>2. CASE s = t
    <3>1. Searcher \in alive
      BY DEF TreeInv, Lifeless
    <3>. QED  BY <1>1, <1>2, <1>3, <2>1, <2>2, <3>1, ForwardGood
  <2>3. CASE s # t
    <3>1. PICK msg \in Message : msg = Request(t, w)
      BY MessageTypes
    <3>2. \A type \in {"REQ", "RESP"} : ~Is(Head(chan[e]), type, s) /\ ~Is(msg, type, s)
      BY <1>3, <2>3, <3>1 DEF Is, Request
    <3>3. chan' = SendOn(Consumed(e), ForwardTo(e), msg)
      BY <2>1, <3>1
    <3>4. \A n \in Node : fwd'[n][s] = fwd[n][s]
      BY <1>3, <2>1, <2>3, OtherRelays
    <3>. QED  BY <1>1, <1>3, <1>4, <3>2, <3>3, <3>4, PassedStays
  <2>. QED  BY <2>2, <2>3
<1>. QED  BY <1>5, <1>6, <1>7

LEMMA ReplyRead ==
    ASSUME ConnInv, TreeInv, WaitInv, Calm, NEW e \in End, NEW s \in Sid, created[s] # NoEntry,
           Good(s), RespRelayed(e) \/ RespToCreator(e)
    PROVE  Good(s)'
<1>1. Receives(e, "RESP") /\ UNCHANGED listed
  BY DEF RespRelayed, RespToCreator, conns
<1>2. PICK t \in Sid : t = Head(chan[e]).sid
  BY <1>1, ReadMessage
<1>3. e \in listens /\ chan[e] # <<>> /\ e[1] \in Node /\ chan \in Queues
  BY <1>1, EndParts DEF Receives, ConnInv, TypeOK
<1>4. CASE s = t /\ RespRelayed(e)
  BY <1>2, <1>4, RelayedGood
<1>5. CASE s = t /\ RespToCreator(e)
  BY <1>2, <1>5, CreatorGood
<1>6. CASE s # t
  <2>1. SameSearch(s)
    <3>1. CASE RespRelayed(e)
      BY <3>1 DEF RespRelayed, search, SameSearch
    <3>2. CASE RespToCreator(e)
      BY <3>2, CreatorTakes
    <3>. QED  BY <3>1, <3>2
  <2>2. \A type : ~Is(Head(chan[e]), type, s)
    BY <1>2, <1>6 DEF Is
  <2>3. Consumed(e) \in Queues
    BY <1>3, OnConsumed
  <2>4. PICK E \in SUBSET listed, msg \in Message :
           chan' = SendOn(Consumed(e), E, msg) /\ \A type : ~Is(msg, type, s)
    <3>1. CASE chan' = Consumed(e)
      <4>1. PICK msg \in Message : msg = Response(t, {})
        BY MessageTypes
      <4>2. \A type : ~Is(msg, type, s)
        BY <1>6, <4>1 DEF Is, Response
      <4>3. chan' = SendOn(Consumed(e), {}, msg)
        BY <2>3, <3>1, NothingSent
      <4>. QED  BY <4>2, <4>3
    <3>2. CASE RespRelayed(e) /\ chan' # Consumed(e)
      <4>1. PICK hits \in SUBSET Hit, up \in End :
               chan' = SendOn(Consumed(e), {up} \cap listed, Response(t, hits))
        <5>1. PICK n \in Node, old \in Relays, new \in Relays :
                 n = e[1] /\ old = fwd[n][t] /\ new = fwd'[n][t]
          BY <1>2, <3>2, RelayedEntry
        <5>2. chan' = IF new.received = new.needed
                      THEN SendOn(Consumed(e), {old.upstream} \cap listed, Response(t, new.hits))
                      ELSE Consumed(e)
          BY <1>2, <3>2, <5>1, RelayedEntry
        <5>3. new.hits \in SUBSET Hit /\ old.upstream \in End
          BY DEF Relays
        <5>. QED  BY <3>2, <5>2, <5>3
      <4>2. PICK msg \in Message : msg = Response(t, hits)
        BY MessageTypes
      <4>3. \A type : ~Is(msg, type, s)
        BY <1>6, <4>2 DEF Is, Response
      <4>4. {up} \cap listed \in SUBSET listed
        OBVIOUS
      <4>. QED  BY <4>1, <4>2, <4>3, <4>4
    <3>3. CASE RespToCreator(e)
      BY <3>1, <3>3 DEF RespToCreator
    <3>. QED  BY <3>1, <3>2, <3>3
  <2>5. \A n \in Node : fwd'[n][s] = fwd[n][s]
    <3>1. CASE RespRelayed(e)
      BY <1>2, <1>6, <3>1, RelayedEntry
    <3>2. CASE RespToCreator(e)
      BY <3>2 DEF RespToCreator
    <3>. QED  BY <3>1, <3>2
  <2>. QED  BY <1>1, <1>3, <2>1, <2>2, <2>4, <2>5, PassedStays
<1>. QED  BY <1>4, <1>5, <1>6

LEMMA GoodStep ==
    ConnInv /\ TreeInv /\ WaitInv /\ FreshInv /\ GoodInv /\ [Next]_vars => GoodInv'
<1>. SUFFICES ASSUME ConnInv, TreeInv, WaitInv, FreshInv, GoodInv, [Next]_vars,
                     NEW s \in Sid, Fresh(s)'
              PROVE  Good(s)'
  BY DEF GoodInv
<1>1. Fresh(s) => created[s] # NoEntry /\ Calm /\ Good(s)
  BY DEF Fresh, FreshInv, Undisturbed, GoodInv
<1>2. ASSUME UNCHANGED <<listed, chan, fwd>>, SameSearch(s) PROVE Good(s)'
  <2>1. Fresh(s)
    BY <1>2 DEF SameSearch, Fresh
  <2>2. \A r \in End, type \in {"REQ", "RESP"} : Once(chan[r], type, s)
    BY <1>1, <2>1 DEF Good, Single
  <2>. QED  BY <1>1, <1>2, <2>1, <2>2, GoodStays
<1>3. CASE UNCHANGED vars
  <2>1. SameSearch(s) /\ UNCHANGED <<listed, chan, fwd>>
    BY <1>3 DEF vars, conns, search, SameSearch
  <2>. QED  BY <1>2, <2>1
<1>4. CASE Wake
  <2>1. SameSearch(s) /\ UNCHANGED <<listed, chan, fwd>>
    BY <1>4, WakeSearch DEF Wake, conns
  <2>. QED  BY <1>2, <2>1
<1>5. ASSUME NEW w \in Word, Attempt(w) PROVE Good(s)'
  <2>1. PICK t \in Sid :
             /\ t = counter + 1 /\ t \in Nat /\ w \notin Holds[Searcher]
             /\ created'[t] # NoEntry /\ created'[t].word = w
             /\ created'[t].calm <=> Calm /\ t \notin used
             /\ \A v \in Sid \ {t} : created'[v] = created[v]
             /\ chan' = SendOn(chan, ConnectedPeers(Searcher), Request(t, w))
             /\ UNCHANGED <<listed, fwd>>
    BY <1>5, AttemptMakes DEF conns
  <2>2. CASE s = t
    <3>1. Calm /\ s \notin used
      BY <2>1, <2>2 DEF Fresh
    <3>. QED  BY <2>1, <2>2, <3>1, AttemptGood DEF FreshInv
  <2>3. CASE s # t
    <3>1. created'[s] = created[s] /\ Fresh(s)
      BY <2>1, <2>3 DEF Fresh
    <3>. QED  BY <1>1, <2>1, <2>3, <3>1, AttemptStays
  <2>. QED  BY <2>2, <2>3
<1>6. ASSUME NEW e \in End, ReqProcessed(e) \/ ReqAnswered(e) \/ ReqForward(e) PROVE Good(s)'
  <2>1. Fresh(s)
    BY <1>6 DEF ReqProcessed, ReqAnswered, ReqForward, search, Fresh
  <2>. QED  BY <1>1, <1>6, <2>1, RequestRead
<1>7. ASSUME NEW e \in End, RespRelayed(e) \/ RespToCreator(e) PROVE Good(s)'
  <2>1. CASE RespRelayed(e)
    <3>1. Fresh(s)
      BY <2>1 DEF RespRelayed, search, Fresh
    <3>. QED  BY <1>1, <2>1, <3>1, ReplyRead
  <2>2. CASE RespToCreator(e)
    <3>1. Fresh(s)
      BY <2>2, CreatorTakes DEF SameSearch, Fresh
    <3>. QED  BY <1>1, <2>2, <3>1, ReplyRead
  <2>. QED  BY <1>7, <2>1, <2>2
<1>8. CASE Next
  <2>1. SearchStep
    BY <1>8, FreshStep
  <2>. QED  BY <1>4, <1>5, <1>6, <1>7, <2>1 DEF SearchStep
<1>. QED  BY <1>3, <1>8

\* No relay waits: the one that is nobody's upstream has nobody to wait for.
LEMMA NoneWaits ==
    ASSUME ConnInv, WaitInv, Calm, Quiet, NEW s \in Sid, Good(s)
    PROVE  \A n \in Node : ~Waiting(n, s)
<1>1. PICK R \in SUBSET {n \in Node : fwd[n][s] # NoEntry} : R = {n \in Node : Waiting(n, s)}
  <2>1. {n \in Node : Waiting(n, s)} \in SUBSET {n \in Node : fwd[n][s] # NoEntry}
    BY DEF Waiting
  <2>. QED  BY <2>1
<1>2. SUFFICES ASSUME R # {} PROVE FALSE
  BY <1>1
<1>3. PICK n \in R : \A m \in R : fwd[m][s].upstream[2] # n
  BY <1>2 DEF Good, Grounded
<1>4. n \in Node /\ Waiting(n, s) /\ fwd[n][s] # NoEntry
  BY <1>1 DEF Waiting
<1>5. PICK old \in Relays : old = fwd[n][s]
  BY <1>4, DebtorsFinite
<1>6. PICK D : D = Debtors(n, s)
  OBVIOUS
<1>7. old.received < old.needed /\ old.needed - old.received <= Cardinality(D)
  BY <1>4, <1>5, <1>6 DEF WaitInv, Counts
<1>8. D # {}
  <2>1. old.received \in Nat /\ old.needed \in Nat
    BY DEF Relays
  <2>2. Cardinality({}) = 0
    BY FS_EmptySet
  <2>3. Cardinality(D) # 0
    BY <1>7, <2>1
  <2>. QED  BY <2>2, <2>3
<1>9. PICK e \in fwd[n][s].asked : Owes(e, s)
  BY <1>6, <1>8 DEF Debtors
<1>10. e \in listed /\ e[1] = n
  BY <1>4 DEF Good, RelaysUp, ConnInv, RelaysOwn
<1>11. /\ e \in End /\ e \in listens /\ Other(e) \in listens /\ ~Lost(e)
       /\ Other(e)[2] = n /\ e[2] \in Node
  BY <1>10, CalmHears, EndParts
<1>12. chan[e] = <<>> /\ chan[Other(e)] = <<>>
  BY <1>11 DEF Quiet
<1>13. \A m : ~On(<<>>, m)
  BY DEF On
<1>14. Waiting(e[2], s) /\ fwd[e[2]][s].upstream = Other(e)
  BY <1>9, <1>11, <1>12, <1>13 DEF Owes
<1>. QED  BY <1>1, <1>3, <1>11, <1>14

\* Every holder has the request: it has come to all that do not hold a file, and from
\* there to the holders, each of which has one connection.
LEMMA HoldersHeard ==
    ASSUME ConnInv, TreeInv, Calm, Quiet, Searcher \in alive, NEW s \in Sid, Good(s),
           NEW n \in alive, created[s].word \in Holds[n]
    PROVE  fwd[n][s] # NoEntry
<1>. SUFFICES ASSUME fwd[n][s] = NoEntry PROVE FALSE
  OBVIOUS
<1>1. alive \in SUBSET Node /\ n \in Node
  BY DEF ConnInv, TypeOK
<1>2. PICK K \in SUBSET alive : K = {x \in alive : x = Searcher \/ fwd[x][s] # NoEntry}
  OBVIOUS
<1>3. n # Searcher
  BY DEF Good, Asker
<1>4. K \notin {{}, alive}
  BY <1>2, <1>3
<1>5. ~Broken(K)
  BY CalmHears DEF Broken, Widowed
<1>6. PICK x \in listed : x[1] \in K /\ x[2] \in alive \ K
  BY <1>4, <1>5, CalmHears DEF TreeInv, OnePiece, Leads
<1>7. x[2] # Searcher /\ fwd[x[2]][s] = NoEntry
  BY <1>2, <1>6
<1>8. ~Asks(x[1], s)
  <2>1. Other(x) \in listens
    BY CalmHears
  <2>2. chan[Other(x)] = <<>>
    BY <2>1 DEF Quiet
  <2>3. ~Has(<<>>, "REQ", s)
    BY DEF Has
  <2>. QED  BY <1>7, <2>2, <2>3 DEF Good, Spreads
<1>9. PICK m \in Node : m = x[1]
  BY <1>1, <1>6
<1>10. m # Searcher /\ fwd[m][s] # NoEntry /\ created[s].word \in Holds[m] /\ m # n
  BY <1>2, <1>6, <1>8, <1>9 DEF Asks
<1>11. \A y, z \in listed : y[1] = m /\ z[1] = m => y = z
  <2>1. Holds[m] \cap Holds[n] # {}
    BY <1>10
  <2>. QED  BY <1>1, <1>10, <2>1, CalmHears DEF TreeInv, HolderLeaf
<1>12. PICK up \in listed : up = fwd[m][s].upstream /\ up[1] = m /\ Asks(up[2], s)
  BY <1>10 DEF Good, RelaysUp, ConnInv, RelaysOwn
<1>13. up = x
  BY <1>9, <1>11, <1>12
<1>. QED  BY <1>7, <1>12, <1>13 DEF Asks

LEMMA QuietFinds == ConnInv /\ TreeInv /\ WaitInv /\ FreshInv /\ GoodInv => NewIdFinds
<1>. SUFFICES ASSUME ConnInv, TreeInv, WaitInv, FreshInv, GoodInv, NEW s \in Sid, Quiet,
                     created[s] # NoEntry, created[s].calm, created[s].status # "FAILED",
                     NEW n \in alive, created[s].word \in Holds[n]
              PROVE  <<n, created[s].word>> \in created[s].hits
  BY DEF NewIdFinds
<1>1. Calm /\ Good(s) /\ n \in Node /\ Searcher \in alive
  BY DEF Fresh, FreshInv, Undisturbed, GoodInv, ConnInv, TypeOK, TreeInv, Lifeless
<1>2. PICK hit : hit = <<n, created[s].word>>
  OBVIOUS
<1>3. OnWay(hit, s)
  <2>1. fwd[n][s] # NoEntry
    BY <1>1, HoldersHeard
  <2>. QED  BY <1>1, <1>2, <2>1 DEF Good, Kept
<1>4. \A m \in Node : ~Waiting(m, s)
  BY <1>1, NoneWaits
<1>5. ASSUME NEW r \in End, NEW hits \in SUBSET Hit, On(chan[r], Response(s, hits)) PROVE FALSE
  <2>1. chan[r] \in Seq(Message)
    BY DEF ConnInv, TypeOK, Queues
  <2>2. Has(chan[r], "RESP", s)
    BY <1>5, <2>1, HasOn
  <2>3. r \in listed
    BY <1>1, <2>2 DEF Good, Replied
  <2>4. chan[r] = <<>>
    BY <1>1, <2>3, CalmHears DEF Quiet
  <2>. QED  BY <1>5, <2>4 DEF On
<1>. QED  BY <1>2, <1>3, <1>4, <1>5 DEF OnWay

\* common.h:160: whatever happened to the overlay before, a search with an id that no
\* earlier life of the searching node used has found every file there is when nothing is
\* on its way, if all peers could answer and it was not given up: relays pass the request
\* on to everybody but the node it came from (simple-search.cpp:45) and answer when all
\* replies are there (206).  It takes a tree, and of several holders of a word none that has
\* more than one peer.
THEOREM NewIdsFind == Tree /\ HoldersApart /\ Spec => []NewIdFinds
<1>. DEFINE Inv == ConnInv /\ TreeInv /\ WaitInv /\ FreshInv /\ GoodInv
<1>1. Tree /\ HoldersApart /\ Init => Inv
  BY ConnInit, TreeInit, WaitInit, FreshInit, GoodInit
<1>2. Inv /\ [Next]_vars => Inv'
  BY ConnStep, TreeStep, WaitStep, FreshInvStep, GoodStep
<1>3. Inv => NewIdFinds
  BY QuietFinds
<1>. HIDE DEF Inv
<1>4. Tree /\ HoldersApart /\ Spec => []Inv
  BY <1>1, <1>2, PTL DEF Spec
<1>. QED  BY <1>3, <1>4, PTL

=============================================================================
