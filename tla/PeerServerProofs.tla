-------------------------- MODULE PeerServerProofs --------------------------
(***************************************************************************)
(* Proofs about PeerServer: for any number of connections and messages.    *)
(***************************************************************************)
EXTENDS PeerServer, SequenceTheorems, FiniteSetTheorems, TLAPS

LEMMA ThreadsDistinct ==
    /\ Main # Accept /\ Main # Monitor /\ Accept # Monitor
    /\ Nobody \notin {Main, Accept, Monitor}
    /\ {Main, Accept, Monitor, Nobody} \cap Peer = {}
<1>1. ASSUME NEW a, NEW b, NEW c PROVE Cardinality({a, b, c}) <= 3
  <2>1. IsFiniteSet({}) /\ Cardinality({}) = 0
    BY FS_EmptySet
  <2>2. IsFiniteSet({a}) /\ Cardinality({a}) = 1
    BY FS_Singleton
  <2>3. {a, b} = {a} \cup {b} /\ {a, b, c} = {a, b} \cup {c}
    OBVIOUS
  <2>4. IsFiniteSet({a, b}) /\ Cardinality({a, b}) \in {1, 2}
    BY <2>2, <2>3, FS_AddElement
  <2>5. Cardinality({a, b, c}) \in {1, 2, 3}
    BY <2>3, <2>4, FS_AddElement
  <2>. QED  BY <2>5
<1>2. ASSUME NEW a, NEW b, NEW c,
             {Main, Accept, Monitor, Nobody} = {a, b, c}
      PROVE  FALSE
  <2>1. Cardinality({a, b, c}) <= 3 /\ Cardinality({a, b, c}) = 4
    BY <1>1, <1>2, ThreadAssumption
  <2>. QED  BY <2>1
<1>3. Main # Accept
  BY <1>2, {Main, Accept, Monitor, Nobody} = {Accept, Monitor, Nobody} \/ Main # Accept
<1>4. Main # Monitor
  BY <1>2, {Main, Accept, Monitor, Nobody} = {Accept, Monitor, Nobody} \/ Main # Monitor
<1>5. Accept # Monitor
  BY <1>2, {Main, Accept, Monitor, Nobody} = {Main, Monitor, Nobody} \/ Accept # Monitor
<1>6. Nobody \notin {Main, Accept, Monitor}
  BY <1>2, {Main, Accept, Monitor, Nobody} = {Main, Accept, Monitor}
                \/ Nobody \notin {Main, Accept, Monitor}
<1>. QED  BY <1>3, <1>4, <1>5, <1>6, ThreadAssumption

----------------------------------------------------------------------------
(* Type correctness.  A thread that introduces an object has one, a listener *)
(* that connects has a name left, and a walk is at an element.               *)

Introducing == {"push", "spawn", "set", "pushing"}

NewTyped == \A t \in Thread : at[t] \in Introducing => new[t] \in Peer

NamesLeft ==
    \A p \in Peer : at[p] \in {"connect", "push", "spawn", "set"} => left[p] > 0

WalkInBounds ==
    /\ pos # 0
    /\ at[Main] \in {"disconnect", "join"} =>
           pos \in DOMAIN peers /\ at[Monitor] = "ended" /\ at[Accept] = "ended"

TypeInv == TypeOK /\ NewTyped /\ NamesLeft /\ WalkInBounds

LEMMA InitType == Init => TypeInv
<1>. SUFFICES ASSUME Init PROVE TypeInv
  OBVIOUS
<1>1. /\ at[Main] \in {"prompt", "loop"} /\ at[Accept] = "loop" /\ at[Monitor] = "loop"
      /\ \A p \in Peer : at[p] = "unborn"
  BY ThreadsDistinct DEF Init, Thread
<1>2. at \in [Thread -> Place]
  BY DEF Init, Thread, Place
<1>3. left \in [Peer -> 0..MaxNeighbors] /\ said \in [Peer -> 0..MaxMessages]
  BY BoundAssumption DEF Init
<1>4. message \in [Peer -> Message] /\ inbox \in [Peer -> Seq(Message)]
  BY DEF Init, None, Message
<1>5. TypeOK
  <2>1. peers \in Seq(Peer) /\ pos \in Nat
    BY DEF Init
  <2>2. new \in [Thread -> Peer \cup {Nobody}] /\ owed \in [Peer -> SUBSET Peer]
    BY DEF Init
  <2>3. /\ memory \in [Peer -> {"unborn", "live", "freed"}]
        /\ connected \in [Peer -> BOOLEAN] /\ thread \in [Peer -> BOOLEAN]
        /\ socket \in [Peer -> {"open", "eof", "reset", "shut"}]
    BY DEF Init
  <2>4. lock = Nobody /\ shut_down = FALSE /\ undefined = "none"
    BY DEF Init
  <2>. QED  BY <1>1, <1>2, <1>3, <1>4, <2>1, <2>2, <2>3, <2>4 DEF TypeOK
<1>6. NewTyped /\ NamesLeft /\ WalkInBounds
  BY <1>1 DEF Init, NewTyped, NamesLeft, WalkInBounds, Introducing, Thread
<1>. QED  BY <1>5, <1>6 DEF TypeInv

\* new PeerDetails() by thread t, which goes on to a place where it introduces it.
LEMMA CreateType ==
    ASSUME TypeInv, NEW p \in Peer,
           AcceptConnection(p) \/ MainConnects(p) \/ \E q \in Peer : Connect(q, p)
    PROVE  TypeInv'
<1>1. CASE AcceptConnection(p)
  BY <1>1, ThreadsDistinct
     DEF AcceptConnection, Create, Goes, network, TypeInv, TypeOK, Place, Thread, NewTyped,
         Introducing, NamesLeft, WalkInBounds
<1>2. CASE MainConnects(p)
  BY <1>2, ThreadsDistinct
     DEF MainConnects, Create, Goes, network, TypeInv, TypeOK, Place, Thread, NewTyped,
         Introducing, NamesLeft, WalkInBounds
<1>3. ASSUME NEW q \in Peer, Connect(q, p) PROVE TypeInv'
  BY <1>3, ThreadsDistinct
     DEF Connect, Create, Goes, network, TypeInv, TypeOK, Place, Thread, NewTyped,
         Introducing, NamesLeft, WalkInBounds
<1>. QED  BY <1>1, <1>2, <1>3

LEMMA PushType == ASSUME TypeInv, NEW t \in Peer \cup {Accept}, Push(t) PROVE TypeInv'
<1>1. new[t] \in Peer
  BY DEF Push, TypeInv, NewTyped, Introducing, Thread
<1>2. Append(peers, new[t]) \in Seq(Peer)
  <2>1. peers \in Seq(Peer)
    BY DEF TypeInv, TypeOK
  <2>. QED  BY <1>1, <2>1
<1>3. at[Main] \notin {"disconnect", "join"}
  BY ThreadsDistinct DEF Push, TypeInv, TypeOK
<1>. QED  BY <1>1, <1>2, <1>3, ThreadsDistinct
     DEF Push, Goes, objects, network, TypeInv, TypeOK, Place, Thread, NewTyped,
         Introducing, NamesLeft, WalkInBounds

LEMMA SpawnType ==
    ASSUME TypeInv, NEW t \in Peer \cup {Main, Accept}, Spawn(t) PROVE TypeInv'
<1>1. new[t] \in Peer
  BY DEF Spawn, TypeInv, NewTyped, Introducing, Thread
<1>. QED  BY <1>1, ThreadsDistinct
     DEF Spawn, objects, network, TypeInv, TypeOK, Place, Thread, NewTyped,
         Introducing, NamesLeft, WalkInBounds

LEMMA SetThreadType ==
    ASSUME TypeInv, NEW t \in Peer \cup {Main, Accept}, SetThread(t) PROVE TypeInv'
<1>1. new[t] \in Peer
  BY DEF SetThread, TypeInv, NewTyped, Introducing, Thread
<1>2. ASSUME t \in Peer PROVE left[t] - 1 \in 0..MaxNeighbors
  <2>1. left[t] \in 0..MaxNeighbors /\ left[t] > 0 /\ MaxNeighbors \in Nat
    BY <1>2, BoundAssumption DEF SetThread, TypeInv, TypeOK, NamesLeft
  <2>. QED  BY <2>1
<1>. QED  BY <1>1, <1>2, ThreadsDistinct
     DEF SetThread, AfterSet, Goes, Uses, network, TypeInv, TypeOK, Place, Thread, NewTyped,
         Introducing, NamesLeft, WalkInBounds

\* The steps of a listener that introduces nobody.
LEMMA ListenerType ==
    ASSUME TypeInv, NEW p \in Peer,
           \/ Check(p) \/ ReadNothing(p) \/ ReadError(p) \/ Read(p) \/ LastNeighbor(p)
           \/ ConnectFails(p) \/ SearchReq(p) \/ SearchResp(p) \/ NextNeighbor(p)
    PROVE  TypeInv'
<1>1. CASE Check(p) \/ ReadNothing(p) \/ ReadError(p) \/ LastNeighbor(p)
  <2>1. /\ UNCHANGED <<lock, shut_down, peers, pos, new, left, objects, network, message, owed>>
        /\ \E place \in {"loop", "read", "ended"} : at' = [at EXCEPT ![p] = place]
        /\ undefined' \in {"none", "use after free", "data race"}
    BY <1>1 DEF Check, ReadNothing, ReadError, LastNeighbor, Goes, Uses, TypeInv, TypeOK
  <2>2. PICK place \in {"loop", "read", "ended"} : at' = [at EXCEPT ![p] = place]
    BY <2>1
  <2>3. at' \in [Thread -> Place] /\ at'[p] \in {"loop", "read", "ended"}
        /\ \A t \in Thread : t # p => at'[t] = at[t]
    BY <2>2 DEF TypeInv, TypeOK, Place, Thread
  <2>4. TypeOK'
    BY <2>1, <2>3, ThreadsDistinct DEF objects, network, TypeInv, TypeOK, Thread
  <2>. QED  BY <2>1, <2>3, <2>4, ThreadsDistinct
       DEF TypeInv, Thread, NewTyped, Introducing, NamesLeft, WalkInBounds
<1>2. CASE Read(p)
  <2>. DEFINE msg == Head(inbox[p])
  <2>1. inbox[p] \in Seq(Message) /\ inbox[p] # <<>>
    BY <1>2 DEF Read, TypeInv, TypeOK
  <2>2. msg \in Message /\ Tail(inbox[p]) \in Seq(Message)
    BY <2>1
  <2>3. msg.type = "DISCONNECT" => msg.neighbors \in 0..MaxNeighbors
    BY <2>2 DEF Message
  <2>4. /\ inbox' \in [Peer -> Seq(Message)]
        /\ message' \in [Peer -> Message]
        /\ left' \in [Peer -> 0..MaxNeighbors]
        /\ connected' \in [Peer -> BOOLEAN]
    BY <1>2, <2>2, <2>3 DEF Read, Disconnected, TypeInv, TypeOK
  <2>. HIDE DEF msg
  <2>5. at' \in [Thread -> Place] /\ at'[p] \in {"loop", "add", "search"}
        /\ \A t \in Thread : t # p => at'[t] = at[t]
    <3>1. PICK place \in {"loop", "add", "search"} : at' = [at EXCEPT ![p] = place]
      BY <1>2 DEF Read, Goes
    <3>. QED  BY <3>1 DEF TypeInv, TypeOK, Place, Thread
  <2>6. /\ UNCHANGED <<lock, shut_down, peers, pos, new, memory, thread, socket, said, owed>>
        /\ undefined' \in {"none", "use after free", "data race"}
        /\ \A q \in Peer : q # p => left'[q] = left[q]
    BY <1>2 DEF Read, Uses, TypeInv, TypeOK
  <2>7. TypeOK'
    BY <2>4, <2>5, <2>6, ThreadsDistinct DEF TypeInv, TypeOK, Thread
  <2>. QED  BY <2>5, <2>6, <2>7, ThreadsDistinct
       DEF TypeInv, NewTyped, Introducing, NamesLeft, WalkInBounds, Thread
<1>3. CASE ConnectFails(p)
  <2>1. left[p] - 1 \in 0..MaxNeighbors
    <3>1. left[p] \in 0..MaxNeighbors /\ left[p] > 0 /\ MaxNeighbors \in Nat
      BY <1>3, BoundAssumption DEF ConnectFails, TypeInv, TypeOK, NamesLeft
    <3>. QED  BY <3>1
  <2>. QED  BY <1>3, <2>1, ThreadsDistinct
       DEF ConnectFails, Goes, objects, network, TypeInv, TypeOK, Place, Thread, NewTyped,
           Introducing, NamesLeft, WalkInBounds
<1>4. CASE NextNeighbor(p)
  <2>1. left[p] > 0 /\ left[p] - 1 \in 0..MaxNeighbors
    <3>1. left[p] \in 0..MaxNeighbors /\ left[p] > 0 /\ MaxNeighbors \in Nat
      BY <1>4, BoundAssumption DEF NextNeighbor, TypeInv, TypeOK
    <3>. QED  BY <3>1
  <2>2. CASE Goes(p, "connect") /\ UNCHANGED left
    BY <1>4, <2>1, <2>2, ThreadsDistinct
       DEF NextNeighbor, Goes, objects, network, TypeInv, TypeOK, Place, Thread, NewTyped,
           Introducing, NamesLeft, WalkInBounds
  <2>3. CASE left' = [left EXCEPT ![p] = @ - 1] /\ UNCHANGED at
    BY <1>4, <2>1, <2>3, ThreadsDistinct
       DEF NextNeighbor, objects, network, TypeInv, TypeOK, Place, Thread, NewTyped,
           Introducing, NamesLeft, WalkInBounds
  <2>. QED  BY <1>4, <2>2, <2>3 DEF NextNeighbor
<1>5. CASE SearchReq(p) \/ SearchResp(p)
  <2>1. None \in Message /\ Others(p) \in SUBSET Peer
    BY DEF None, Message, Others
  <2>2. message[p].type = "RESP" => message[p].upstream \in Peer
    BY DEF TypeInv, TypeOK, Message
  <2>3. message' \in [Peer -> Message] /\ owed' \in [Peer -> SUBSET Peer]
    <3>1. message' \in [Peer -> Message]
      BY <1>5, <2>1 DEF SearchReq, SearchResp, TypeInv, TypeOK
    <3>2. CASE SearchReq(p)
      BY <2>1, <3>1, <3>2 DEF SearchReq, TypeInv, TypeOK
    <3>3. CASE SearchResp(p)
      BY <2>2, <3>1, <3>3 DEF SearchResp, TypeInv, TypeOK
    <3>. QED  BY <1>5, <3>2, <3>3
  <2>4. at' = [at EXCEPT ![p] = "loop"]
        /\ undefined' \in {"none", "use after free", "data race"}
        /\ UNCHANGED <<lock, shut_down, peers, pos, new, left, objects, network>>
    BY <1>5 DEF SearchReq, SearchResp, Goes, Uses, TypeInv, TypeOK
  <2>. QED  BY <2>3, <2>4, ThreadsDistinct
       DEF objects, network, TypeInv, TypeOK, Place, Thread, NewTyped, Introducing,
           NamesLeft, WalkInBounds
<1>. QED  BY <1>1, <1>2, <1>3, <1>4, <1>5

\* Removing an element of connected_peers.
LEMMA UnlistedSeq ==
    ASSUME peers \in Seq(Peer), NEW i \in 1..Len(peers)
    PROVE  /\ Unlisted(i) \in Seq(Peer)
           /\ Len(Unlisted(i)) = Len(peers) - 1
           /\ \A j \in 1..Len(peers) - 1 :
                 Unlisted(i)[j] = IF j < i THEN peers[j] ELSE peers[j + 1]
<1>. DEFINE before == SubSeq(peers, 1, i - 1)
            after == SubSeq(peers, i + 1, Len(peers))
<1>1. /\ before \in Seq(Peer) /\ Len(before) = i - 1
      /\ \A j \in 1..i - 1 : before[j] = peers[j]
  BY SubSeqProperties
<1>2. /\ after \in Seq(Peer) /\ Len(after) = Len(peers) - i
      /\ \A j \in 1..Len(peers) - i : after[j] = peers[i + j]
  BY SubSeqProperties
<1>3. /\ before \o after \in Seq(Peer)
      /\ Len(before \o after) = Len(peers) - 1
      /\ \A j \in 1..Len(peers) - 1 :
            (before \o after)[j] = IF j <= i - 1 THEN before[j] ELSE after[j - (i - 1)]
  <2>. HIDE DEF before, after
  <2>1. /\ before \o after \in Seq(Peer)
        /\ Len(before \o after) = Len(before) + Len(after)
        /\ \A j \in 1..Len(before) + Len(after) :
              (before \o after)[j] =
                  IF j <= Len(before) THEN before[j] ELSE after[j - Len(before)]
    BY <1>1, <1>2, ConcatProperties
  <2>. QED  BY <1>1, <1>2, <2>1
<1>4. ASSUME NEW j \in 1..Len(peers) - 1
      PROVE  (before \o after)[j] = IF j < i THEN peers[j] ELSE peers[j + 1]
  <2>. HIDE DEF before, after
  <2>1. CASE j < i
    BY <1>1, <1>3, <2>1
  <2>2. CASE ~(j < i)
    <3>1. j - (i - 1) \in 1..Len(peers) - i /\ i + (j - (i - 1)) = j + 1
      BY <2>2
    <3>2. (before \o after)[j] = after[j - (i - 1)]
      BY <1>3, <2>2
    <3>. QED  BY <1>2, <2>2, <3>1, <3>2
  <2>. QED  BY <2>1, <2>2
<1>. QED  BY <1>3, <1>4 DEF Unlisted

LEMMA MonitorType == ASSUME TypeInv, MonitorThread \/ MonitorLocks PROVE TypeInv'
<1>0. /\ at[Monitor] \in {"loop", "scan"} => at[Main] \notin {"disconnect", "join"}
      /\ peers \in Seq(Peer) /\ pos \in Nat /\ pos # 0 /\ Len(peers) \in Nat
  <2>1. peers \in Seq(Peer)
    BY DEF TypeInv, TypeOK
  <2>2. Len(peers) \in Nat
    BY <2>1
  <2>3. at[Monitor] \in {"loop", "scan"} => at[Main] \notin {"disconnect", "join"}
    BY DEF TypeInv, WalkInBounds
  <2>. QED  BY <2>1, <2>2, <2>3 DEF TypeInv, TypeOK, WalkInBounds
<1>1. CASE MonitorLocks
  <2>1. /\ at[Monitor] = "loop" /\ lock' = Monitor /\ pos' = 1
        /\ at' = [at EXCEPT ![Monitor] = "scan"]
        /\ UNCHANGED <<shut_down, peers, new, left, objects, network, message, owed, undefined>>
    BY <1>1 DEF MonitorLocks, Goes, FirstPos
  <2>2. TypeOK'
    BY <1>0, <2>1, ThreadsDistinct DEF objects, network, TypeInv, TypeOK, Place, Thread
  <2>3. \A t \in Thread : t # Monitor => at'[t] = at[t]
    BY <2>1 DEF TypeInv, TypeOK
  <2>4. at'[Monitor] \in {"scan", "loop"} /\ at'[Main] = at[Main]
    BY <2>1, <2>3, ThreadsDistinct DEF TypeInv, TypeOK, Thread
  <2>5. WalkInBounds'
    BY <1>0, <2>1, <2>4 DEF WalkInBounds
  <2>. QED  BY <2>1, <2>2, <2>3, <2>4, <2>5, ThreadsDistinct
       DEF TypeInv, Thread, NewTyped, Introducing, NamesLeft
<1>3. CASE MonitorEnds
  BY <1>0, <1>3, ThreadsDistinct
     DEF MonitorEnds, Goes, objects, network, TypeInv, TypeOK, Place, Thread,
         NewTyped, Introducing, NamesLeft, WalkInBounds
<1>4. CASE MonitorUnlocks
  <2>1. /\ at[Monitor] = "scan" /\ lock' = Nobody /\ pos' = 1
        /\ at' = [at EXCEPT ![Monitor] = "loop"]
        /\ UNCHANGED <<shut_down, peers, new, left, objects, network, message, owed, undefined>>
    BY <1>4 DEF MonitorUnlocks, Goes, Released
  <2>2. TypeOK'
    BY <1>0, <2>1, ThreadsDistinct DEF objects, network, TypeInv, TypeOK, Place, Thread
  <2>3. \A t \in Thread : t # Monitor => at'[t] = at[t]
    BY <2>1 DEF TypeInv, TypeOK
  <2>4. at'[Monitor] \in {"scan", "loop"} /\ at'[Main] = at[Main]
    BY <2>1, <2>3, ThreadsDistinct DEF TypeInv, TypeOK, Thread
  <2>5. WalkInBounds'
    BY <1>0, <2>1, <2>4 DEF WalkInBounds
  <2>. QED  BY <2>1, <2>2, <2>3, <2>4, <2>5, ThreadsDistinct
       DEF TypeInv, Thread, NewTyped, Introducing, NamesLeft
<1>5. CASE MonitorPasses
  <2>1. /\ at[Monitor] = "scan" /\ pos' = pos + 1
        /\ UNCHANGED <<lock, shut_down, peers, at, new, left, objects, network, message,
                       owed, undefined>>
    BY <1>5 DEF MonitorPasses
  <2>2. pos' \in Nat /\ pos' # 0
    BY <1>0, <2>1
  <2>. QED  BY <1>0, <2>1, <2>2
       DEF objects, network, TypeInv, TypeOK, NewTyped, NamesLeft, WalkInBounds
<1>2. CASE MonitorFrees
  <2>1. pos \in 1..Len(peers)
    BY <1>0, <1>2 DEF MonitorFrees
  <2>2. peers[pos] \in Peer /\ Unlisted(pos) \in Seq(Peer)
    BY <1>0, <2>1, UnlistedSeq
  <2>. QED  BY <1>0, <1>2, <2>1, <2>2, ThreadsDistinct
       DEF MonitorFrees, Free, objects, network, TypeInv, TypeOK, Place, Thread, NewTyped,
           Introducing, NamesLeft, WalkInBounds
<1>. QED  BY <1>1, <1>2, <1>3, <1>4, <1>5 DEF MonitorThread

LEMMA MainType ==
    ASSUME TypeInv, MainPush \/ Terminate \/ Leave \/ Disconnect \/ DisconnectJoins
    PROVE  TypeInv'
<1>0. at[Main] \in {"disconnect", "join"} =>
          /\ at[Monitor] = "ended" /\ pos \in 1..Len(peers) /\ peers \in Seq(Peer)
          /\ peers[pos] \in Peer
  <2>1. peers \in Seq(Peer)
    BY DEF TypeInv, TypeOK
  <2>2. DOMAIN peers = 1..Len(peers) /\ \A i \in DOMAIN peers : peers[i] \in Peer
    BY <2>1
  <2>. QED  BY <2>1, <2>2 DEF TypeInv, WalkInBounds
<1>1. CASE MainPush
  <2>1. new[Main] \in Peer /\ peers \in Seq(Peer)
    BY <1>1 DEF MainPush, TypeInv, TypeOK, NewTyped, Introducing, Thread
  <2>2. Append(peers, new[Main]) \in Seq(Peer)
    BY <2>1
  <2>. QED  BY <1>1, <2>2, ThreadsDistinct
       DEF MainPush, Goes, objects, network, TypeInv, TypeOK, Place, Thread, NewTyped,
           Introducing, NamesLeft, WalkInBounds
<1>2. CASE Terminate
  BY <1>2, ThreadsDistinct
     DEF Terminate, Goes, objects, network, TypeInv, TypeOK, Place, Thread, NewTyped,
         Introducing, NamesLeft, WalkInBounds
<1>3. CASE Leave
  <2>1. CASE peers = <<>> /\ Goes(Main, "exited") /\ UNCHANGED <<lock, pos>>
    BY <1>3, <2>1, ThreadsDistinct
       DEF Leave, Goes, objects, network, TypeInv, TypeOK, Place, Thread, NewTyped,
           Introducing, NamesLeft, WalkInBounds
  <2>2. CASE pos' \in DOMAIN peers /\ lock' = Main /\ Goes(Main, "disconnect")
    <3>1. pos' \in Nat /\ pos' # 0
      <4>1. peers \in Seq(Peer)
        BY DEF TypeInv, TypeOK
      <4>2. pos' \in 1..Len(peers) /\ Len(peers) \in Nat
        BY <2>2, <4>1
      <4>. QED  BY <4>2
    <3>. QED  BY <1>3, <2>2, <3>1, ThreadsDistinct
         DEF Leave, Goes, objects, network, TypeInv, TypeOK, Place, Thread, NewTyped,
             Introducing, NamesLeft, WalkInBounds
  <2>. QED  BY <1>3, <2>1, <2>2 DEF Leave
<1>4. CASE Disconnect
  <2>1. /\ connected' \in [Peer -> BOOLEAN]
        /\ socket' \in [Peer -> {"open", "eof", "reset", "shut"}]
    BY <1>0, <1>4 DEF Disconnect, Disconnected, Shut, TypeInv, TypeOK
  <2>. QED  BY <1>4, <2>1, ThreadsDistinct
       DEF Disconnect, Goes, network, TypeInv, TypeOK, Place, Thread, NewTyped,
           Introducing, NamesLeft, WalkInBounds
<1>5. CASE DisconnectJoins
  <2>1. Unlisted(pos) \in Seq(Peer) /\ memory' \in [Peer -> {"unborn", "live", "freed"}]
    <3>1. Unlisted(pos) \in Seq(Peer)
      BY <1>0, <1>5, UnlistedSeq DEF DisconnectJoins
    <3>. QED  BY <1>0, <1>5, <3>1 DEF DisconnectJoins, Free, TypeInv, TypeOK
  <2>2. peers' \in Seq(Peer) /\ (peers' # <<>> => 1 \in DOMAIN peers')
    BY <1>5, <2>1 DEF DisconnectJoins, Free
  <2>3. \/ peers' = <<>> /\ at' = [at EXCEPT ![Main] = "exited"] /\ lock' = Nobody
        \/ peers' # <<>> /\ at' = [at EXCEPT ![Main] = "disconnect"] /\ UNCHANGED lock
    BY <1>5 DEF DisconnectJoins, Goes, Released
  <2>4. /\ at[Main] = "join" /\ pos' = 1
        /\ UNCHANGED <<shut_down, new, left, connected, thread, socket, network, message,
                       owed, undefined>>
    BY <1>5 DEF DisconnectJoins
  <2>5. at' \in [Thread -> Place] /\ at'[Main] \in {"exited", "disconnect"}
        /\ \A t \in Thread : t # Main => at'[t] = at[t]
    <3>1. PICK place \in {"exited", "disconnect"} : at' = [at EXCEPT ![Main] = place]
      BY <2>3
    <3>. QED  BY <3>1 DEF TypeInv, TypeOK, Place, Thread
  <2>6. TypeOK'
    <3>1. lock' = IF at'[Main] = "disconnect" THEN Main ELSE Nobody
      BY <1>0, <2>3, <2>4, <2>5, ThreadsDistinct DEF TypeInv, TypeOK, Thread
    <3>2. at'[Monitor] = "ended" /\ at'[Accept] = "ended"
      BY <2>4, <2>5, ThreadsDistinct DEF TypeInv, WalkInBounds, Thread
    <3>. QED  BY <2>1, <2>2, <2>4, <2>5, <3>1, <3>2, ThreadsDistinct
         DEF network, TypeInv, TypeOK, Thread
  <2>7. at'[Main] = "disconnect" => 1 \in DOMAIN peers'
    BY <2>2, <2>3, <2>5 DEF TypeInv, TypeOK, Thread
  <2>. QED  BY <2>4, <2>5, <2>6, <2>7, ThreadsDistinct
       DEF TypeInv, Thread, NewTyped, Introducing, NamesLeft, WalkInBounds
<1>. QED  BY <1>1, <1>2, <1>3, <1>4, <1>5

\* The accepting thread's end, the other peers, and undefined behaviour.
LEMMA OtherType ==
    ASSUME TypeInv, AcceptEnds \/ DataRace \/ \E p \in Peer : Says(p) \/ Closes(p)
    PROVE  TypeInv'
<1>1. CASE AcceptEnds
  BY <1>1, ThreadsDistinct
     DEF AcceptEnds, Goes, objects, network, TypeInv, TypeOK, Place, Thread, NewTyped,
         Introducing, NamesLeft, WalkInBounds
<1>2. CASE DataRace
  BY <1>2 DEF DataRace, objects, network, TypeInv, TypeOK, NewTyped, NamesLeft, WalkInBounds
<1>3. ASSUME NEW p \in Peer, Says(p) PROVE TypeInv'
  <2>1. PICK msg \in MaySay(p) :
            /\ inbox' = [inbox EXCEPT ![p] = Append(@, msg)]
            /\ said' = [said EXCEPT ![p] =
                            IF msg.type = "DISCONNECT" THEN MaxMessages ELSE @ + 1]
    BY <1>3 DEF Says
  <2>2. msg \in Message
    BY <2>1 DEF MaySay, Message
  <2>3. inbox[p] \in Seq(Message)
    BY DEF TypeInv, TypeOK
  <2>4. Append(inbox[p], msg) \in Seq(Message)
    BY <2>2, <2>3
  <2>5. said[p] + 1 \in 0..MaxMessages /\ MaxMessages \in 0..MaxMessages
    <3>1. said[p] \in 0..MaxMessages /\ said[p] < MaxMessages /\ MaxMessages \in Nat
      BY <1>3, BoundAssumption DEF Says, TypeInv, TypeOK
    <3>. QED  BY <3>1
  <2>6. /\ inbox' \in [Peer -> Seq(Message)] /\ said' \in [Peer -> 0..MaxMessages]
    BY <2>1, <2>4, <2>5 DEF TypeInv, TypeOK
  <2>. QED  BY <1>3, <2>6
       DEF Says, objects, TypeInv, TypeOK, NewTyped, NamesLeft, WalkInBounds
<1>4. ASSUME NEW p \in Peer, Closes(p) PROVE TypeInv'
  <2>0. PICK how \in {"eof", "reset"} : socket' = [socket EXCEPT ![p] = how]
    BY <1>4, BoundAssumption DEF Closes
  <2>1. socket' \in [Peer -> {"open", "eof", "reset", "shut"}]
    BY <2>0 DEF TypeInv, TypeOK
  <2>2. UNCHANGED <<lock, shut_down, peers, pos, at, new, left, memory, connected, thread,
                    inbox, said, message, owed, undefined>>
    BY <1>4 DEF Closes, network
  <2>. QED  BY <2>1, <2>2 DEF TypeInv, TypeOK, NewTyped, NamesLeft, WalkInBounds
<1>. QED  BY <1>1, <1>2, <1>3, <1>4

\* A step is one of these.
LEMMA Steps ==
    ASSUME Next
    PROVE  \/ \E p \in Peer : AcceptConnection(p) \/ MainConnects(p) \/ \E q \in Peer : Connect(q, p)
           \/ \E t \in Peer \cup {Accept} : Push(t)
           \/ \E t \in Peer \cup {Main, Accept} : Spawn(t) \/ SetThread(t)
           \/ \E p \in Peer : \/ Check(p) \/ ReadNothing(p) \/ ReadError(p) \/ Read(p)
                              \/ LastNeighbor(p) \/ ConnectFails(p) \/ SearchReq(p)
                              \/ SearchResp(p) \/ NextNeighbor(p)
           \/ MonitorThread \/ MonitorLocks
           \/ MainPush \/ Terminate \/ Leave \/ Disconnect \/ DisconnectJoins
           \/ AcceptEnds \/ DataRace \/ \E p \in Peer : Says(p) \/ Closes(p)
BY DEF Next, World, MainThread, Listener, ListenerLocks, Introduces

LEMMA TypeStep == TypeInv /\ [Next]_vars => TypeInv'
<1>1. ASSUME TypeInv, UNCHANGED vars PROVE TypeInv'
  BY <1>1 DEF vars, objects, network, TypeInv, TypeOK, NewTyped, NamesLeft, WalkInBounds
<1>2. ASSUME TypeInv, Next PROVE TypeInv'
  BY <1>2, Steps, CreateType, PushType, SpawnType, SetThreadType, ListenerType, MonitorType,
     MainType, OtherType
<1>. QED  BY <1>1, <1>2

\* The variables keep their types, a walk through connected_peers stays inside it,
\* and the lock is held in the two sections that join threads, and only there.
THEOREM ServerTypeCorrect == Spec => []TypeOK
<1>1. Spec => []TypeInv
  BY InitType, TypeStep, PTL DEF Spec
<1>2. TypeInv => TypeOK
  BY DEF TypeInv
<1>. QED  BY <1>1, <1>2, PTL


----------------------------------------------------------------------------
(* The objects.  PeersExact and FreedAfterJoin are not inductive: whether an *)
(* object is freed twice, or under a listener, depends on which threads hold *)
(* a pointer to it, and on how far the one that introduces it has come.      *)

\* The object new[t] is that of t alone.
NewExact ==
    /\ \A t \in Thread : new[t] # Nobody <=> at[t] \in Introducing
    /\ \A t, u \in Thread : new[t] # Nobody /\ new[t] = new[u] => t = u
    /\ \A t \in Thread : new[t] # Nobody => memory[new[t]] # "unborn"

Unspawned(p) ==
    memory[p] = "unborn" \/ \E t \in Thread : new[t] = p /\ at[t] \in {"push", "spawn"}

\* A listener begins when the thread that introduces its object spawns it.
BornBySpawn == \A p \in Peer : at[p] = "unborn" <=> Unspawned(p)

\* What is not yet in connected_peers is not freed.
IntroducedLive == \A p \in Peer : Introduced(p) => memory[p] = "live"

\* An object in connected_peers without listening_thread is about to get it.
Coming(p) == \E t \in Thread : new[t] = p /\ at[t] \in {"spawn", "set"}
ThreadComing ==
    /\ \A p \in Peer : Listed(p) /\ ~thread[p] => Coming(p)
    /\ at[Main] = "pushing" => thread[new[Main]]

ObjectsInv ==
    /\ TypeInv /\ NewExact /\ BornBySpawn /\ IntroducedLive /\ ThreadComing
    /\ PeersExact /\ FreedAfterJoin

LEMMA InitObjects == Init => ObjectsInv
<1>. SUFFICES ASSUME Init PROVE ObjectsInv
  OBVIOUS
<1>1. TypeInv
  BY InitType
<1>2. /\ \A t \in Thread : new[t] = Nobody /\ at[t] \in {"prompt", "loop", "unborn"}
      /\ \A p \in Peer : memory[p] = "unborn" /\ at[p] = "unborn" /\ ~Listed(p)
      /\ peers = <<>> /\ at[Main] # "pushing"
  BY ThreadsDistinct DEF Init, Thread, Listed
<1>3. NewExact /\ BornBySpawn /\ IntroducedLive /\ ThreadComing
  BY <1>2, ThreadsDistinct
     DEF NewExact, BornBySpawn, Unspawned, IntroducedLive, Introduced, ThreadComing,
         Introducing
<1>4. PeersExact /\ FreedAfterJoin
  BY <1>2 DEF PeersExact, FreedAfterJoin
<1>. QED  BY <1>1, <1>3, <1>4 DEF ObjectsInv

\* A step that leaves the objects alone: nobody begins or ends to introduce one, and
\* no listener is born or, once ended, goes on.
Moves ==
    \A t \in Thread : \/ at'[t] = at[t]
                      \/ /\ at[t] \notin Introducing \cup {"unborn", "ended"}
                         /\ at'[t] \notin Introducing \cup {"unborn"}

LEMMA QuietObjects ==
    ASSUME ObjectsInv, TypeInv', UNCHANGED <<memory, peers, new, thread>>, Moves,
           undefined' = "none" => undefined = "none"
    PROVE  ObjectsInv'
<1>1. \A t \in Thread : /\ at[t] \in Introducing \/ at'[t] \in Introducing => at'[t] = at[t]
                        /\ at'[t] = "unborn" <=> at[t] = "unborn"
                        /\ at[t] = "ended" => at'[t] = "ended"
  BY DEF Moves
<1>2. Main \in Thread /\ \A p \in Peer : p \in Thread
  BY DEF Thread
<1>3. NewExact' /\ BornBySpawn'
  BY <1>1, <1>2 DEF ObjectsInv, NewExact, BornBySpawn, Unspawned, Introducing
<1>4. \A p \in Peer : Introduced(p)' <=> Introduced(p)
  BY <1>1, <1>2 DEF Introduced, Introducing
<1>5. \A p \in Peer : Coming(p)' <=> Coming(p)
  BY <1>1 DEF Coming, Introducing
<1>6. IntroducedLive' /\ PeersExact'
  BY <1>4 DEF ObjectsInv, IntroducedLive, PeersExact, Listed
<1>7. ThreadComing'
  BY <1>1, <1>2, <1>5 DEF ObjectsInv, ThreadComing, Listed, Introducing
<1>8. FreedAfterJoin'
  BY <1>1, <1>2, <1>5 DEF ObjectsInv, FreedAfterJoin, Coming
<1>. QED  BY <1>3, <1>6, <1>7, <1>8 DEF ObjectsInv

LEMMA QuietSteps ==
    ASSUME ObjectsInv, TypeInv',
           \/ \E p \in Peer : \/ Check(p) \/ ReadNothing(p) \/ ReadError(p) \/ Read(p)
                              \/ LastNeighbor(p) \/ ConnectFails(p) \/ SearchReq(p)
                              \/ SearchResp(p) \/ NextNeighbor(p)
           \/ MonitorLocks \/ MonitorEnds \/ MonitorPasses \/ MonitorUnlocks
           \/ Terminate \/ Leave \/ Disconnect
           \/ AcceptEnds \/ DataRace \/ \E p \in Peer : Says(p) \/ Closes(p)
    PROVE  ObjectsInv'
<1>1. ASSUME NEW t \in Thread, at[t] \notin Introducing \cup {"unborn", "ended"},
             NEW place, place \notin Introducing \cup {"unborn"}, Goes(t, place)
      PROVE  Moves
  BY <1>1 DEF Moves, Goes, ObjectsInv, TypeInv, TypeOK
<1>2. UNCHANGED at => Moves
  BY DEF Moves
<1>3. Main \in Thread /\ Monitor \in Thread /\ Accept \in Thread
  BY DEF Thread
<1>4. ASSUME NEW p \in Peer,
             \/ Check(p) \/ ReadNothing(p) \/ ReadError(p) \/ Read(p) \/ LastNeighbor(p)
             \/ ConnectFails(p) \/ SearchReq(p) \/ SearchResp(p) \/ NextNeighbor(p)
      PROVE  ObjectsInv'
  <2>1. p \in Thread
    BY DEF Thread
  <2>2. Moves
    <3>1. \/ UNCHANGED at
          \/ /\ at[p] \in {"loop", "read", "search", "add", "connect"}
             /\ \E place \in {"loop", "read", "search", "add", "connect", "ended"} :
                   Goes(p, place)
      BY <1>4 DEF Check, ReadNothing, ReadError, Read, LastNeighbor, ConnectFails,
                  SearchReq, SearchResp, NextNeighbor, Goes
    <3>. QED  BY <1>1, <1>2, <2>1, <3>1 DEF Introducing
  <2>3. UNCHANGED <<memory, peers, new, thread>>
    BY <1>4 DEF Check, ReadNothing, ReadError, Read, LastNeighbor, ConnectFails,
                SearchReq, SearchResp, NextNeighbor, objects
  <2>4. undefined' = "none" => undefined = "none"
    BY <1>4 DEF Check, ReadNothing, ReadError, Read, LastNeighbor, ConnectFails,
                SearchReq, SearchResp, NextNeighbor, Uses
  <2>. QED  BY <2>2, <2>3, <2>4, QuietObjects
<1>5. CASE MonitorLocks \/ MonitorEnds \/ MonitorPasses \/ MonitorUnlocks
  <2>1. Moves
    <3>1. \/ UNCHANGED at
          \/ /\ at[Monitor] \in {"loop", "scan"}
             /\ \E place \in {"loop", "scan", "ended"} : Goes(Monitor, place)
      BY <1>5 DEF MonitorLocks, MonitorEnds, MonitorPasses, MonitorUnlocks
    <3>. QED  BY <1>1, <1>2, <1>3, <3>1 DEF Introducing
  <2>2. UNCHANGED <<memory, peers, new, thread, undefined>>
    BY <1>5 DEF MonitorLocks, MonitorEnds, MonitorPasses, MonitorUnlocks, objects
  <2>. QED  BY <2>1, <2>2, QuietObjects
<1>6. CASE Terminate \/ Leave \/ Disconnect
  <2>1. Moves
    <3>1. /\ at[Main] \in {"prompt", "join threads", "disconnect"}
          /\ \E place \in {"join threads", "exited", "disconnect", "join"} : Goes(Main, place)
      BY <1>6 DEF Terminate, Leave, Disconnect
    <3>. QED  BY <1>1, <1>3, <3>1 DEF Introducing
  <2>2. UNCHANGED <<memory, peers, new, thread, undefined>>
    BY <1>6 DEF Terminate, Leave, Disconnect, objects
  <2>. QED  BY <2>1, <2>2, QuietObjects
<1>7. CASE AcceptEnds
  <2>1. Moves
    BY <1>1, <1>3, <1>7 DEF AcceptEnds, Introducing
  <2>2. UNCHANGED <<memory, peers, new, thread, undefined>>
    BY <1>7 DEF AcceptEnds, objects
  <2>. QED  BY <2>1, <2>2, QuietObjects
<1>8. CASE DataRace
  <2>1. UNCHANGED <<memory, peers, new, thread, at>> /\ undefined' # "none"
    BY <1>8 DEF DataRace, objects
  <2>. QED  BY <1>2, <2>1, QuietObjects
<1>9. ASSUME NEW p \in Peer, Says(p) \/ Closes(p) PROVE ObjectsInv'
  <2>1. UNCHANGED <<memory, peers, new, thread, at, undefined>>
    BY <1>9 DEF Says, Closes, objects
  <2>. QED  BY <1>2, <2>1, QuietObjects
<1>. QED  BY <1>4, <1>5, <1>6, <1>7, <1>8, <1>9

\* A thread creates an object.
LEMMA CreateObjects ==
    ASSUME ObjectsInv, TypeInv', NEW t \in Thread, NEW p \in Peer,
           at[t] \in {"loop", "connect"}, Create(t, p),
           Goes(t, "push") \/ (t = Main /\ Goes(t, "spawn"))
    PROVE  ObjectsInv'
<1>1. /\ memory[p] = "unborn" /\ memory'[p] = "live"
      /\ \A q \in Peer : q # p => memory'[q] = memory[q]
      /\ new[t] = Nobody /\ new'[t] = p /\ \A u \in Thread : u # t => new'[u] = new[u]
      /\ UNCHANGED <<peers, thread, undefined>>
  <2>1. new[t] = Nobody
    BY DEF ObjectsInv, NewExact, Introducing
  <2>2. memory \in [Peer -> {"unborn", "live", "freed"}] /\ DOMAIN new = Thread
    BY DEF ObjectsInv, TypeInv, TypeOK
  <2>. QED  BY <2>1, <2>2 DEF Create
<1>2. /\ at'[t] = "push" \/ (t = Main /\ at'[t] = "spawn")
      /\ \A u \in Thread : u # t => at'[u] = at[u]
  <2>1. DOMAIN at = Thread /\ at = [u \in Thread |-> at[u]]
    BY DEF ObjectsInv, TypeInv, TypeOK
  <2>. QED  BY <2>1 DEF Goes
<1>3. /\ \A u \in Thread : new[u] # p
      /\ at[p] = "unborn" /\ t # p /\ ~Listed(p)
  BY <1>1, ThreadsDistinct DEF ObjectsInv, NewExact, BornBySpawn, Unspawned, PeersExact
<1>4. Main \in Thread /\ p # Nobody /\ \A q \in Peer : q \in Thread
  BY ThreadsDistinct DEF Thread
<1>5. NewExact'
  <2>1. \A u \in Thread : new'[u] # Nobody <=> at'[u] \in Introducing
    BY <1>1, <1>2, <1>4 DEF ObjectsInv, NewExact, Introducing
  <2>2. \A u, v \in Thread : new'[u] # Nobody /\ new'[u] = new'[v] => u = v
    BY <1>1, <1>3 DEF ObjectsInv, NewExact
  <2>3. \A u \in Thread : new'[u] # Nobody => memory'[new'[u]] # "unborn"
    <3>1. \A u \in Thread : new[u] # Nobody => new[u] \in Peer
      BY DEF ObjectsInv, TypeInv, TypeOK
    <3>. QED  BY <1>1, <1>3, <3>1 DEF ObjectsInv, NewExact
  <2>. QED  BY <2>1, <2>2, <2>3 DEF NewExact
<1>6. BornBySpawn'
  <2>1. ASSUME NEW q \in Peer, q # p PROVE Unspawned(q)' <=> Unspawned(q)
    BY <1>1, <1>2, <1>3, <1>4, <2>1, ThreadsDistinct DEF Unspawned
  <2>2. Unspawned(p)' /\ at'[p] = "unborn"
    BY <1>1, <1>2, <1>3, <1>4 DEF Unspawned
  <2>3. ASSUME NEW q \in Peer, q # p PROVE at'[q] = "unborn" <=> at[q] = "unborn"
    BY <1>2, <1>4
  <2>. QED  BY <2>1, <2>2, <2>3 DEF ObjectsInv, BornBySpawn
<1>7. Introduced(p)' /\ \A q \in Peer : q # p => (Introduced(q)' <=> Introduced(q))
  BY <1>1, <1>2, <1>3, <1>4, ThreadsDistinct DEF Introduced
<1>8. IntroducedLive' /\ PeersExact'
  BY <1>1, <1>3, <1>7 DEF ObjectsInv, IntroducedLive, PeersExact, Listed
<1>9. \A q \in Peer : Coming(q) => Coming(q)'
  BY <1>1, <1>2 DEF Coming
<1>10. ThreadComing'
  BY <1>1, <1>2, <1>4, <1>9 DEF ObjectsInv, ThreadComing, Listed
<1>11. FreedAfterJoin'
  <2>1. \A q \in Peer : memory'[q] = "freed" => memory[q] = "freed" /\ q # p
    BY <1>1
  <2>2. \A q \in Peer : at[q] = "ended" => at'[q] = "ended"
    BY <1>2, <1>4
  <2>. QED  BY <1>1, <1>9, <2>1, <2>2 DEF ObjectsInv, FreedAfterJoin, Coming
<1>. QED  BY <1>5, <1>6, <1>8, <1>10, <1>11 DEF ObjectsInv

\* The object that t introduces gets into connected_peers, at its end.
LEMMA Appended ==
    ASSUME peers \in Seq(Peer), NEW p \in Peer, ~Listed(p),
           \A i, j \in DOMAIN peers : peers[i] = peers[j] => i = j,
           peers' = Append(peers, p)
    PROVE  /\ \A q \in Peer : Listed(q)' <=> Listed(q) \/ q = p
           /\ \A i, j \in DOMAIN peers' : peers'[i] = peers'[j] => i = j
<1>1. /\ DOMAIN peers = 1..Len(peers) /\ Len(peers) \in Nat
      /\ DOMAIN peers' = 1..Len(peers) + 1
      /\ \A i \in 1..Len(peers) : peers'[i] = peers[i]
      /\ peers'[Len(peers) + 1] = p
  BY AppendProperties
<1>2. \A i \in DOMAIN peers' : i \in DOMAIN peers \/ i = Len(peers) + 1
  BY <1>1
<1>3. DOMAIN peers \subseteq DOMAIN peers' /\ Len(peers) + 1 \in DOMAIN peers'
  BY <1>1
<1>4. ASSUME NEW q \in Peer PROVE Listed(q)' <=> Listed(q) \/ q = p
  BY <1>1, <1>2, <1>3 DEF Listed
<1>5. ASSUME NEW i \in DOMAIN peers', NEW j \in DOMAIN peers', peers'[i] = peers'[j]
      PROVE  i = j
  BY <1>1, <1>2, <1>5 DEF Listed
<1>. QED  BY <1>4, <1>5

LEMMA PushObjects ==
    ASSUME ObjectsInv, TypeInv', NEW t \in Peer \cup {Accept}, Push(t)
    PROVE  ObjectsInv'
<1>. DEFINE p == new[t]
<1>1. t \in Thread /\ t # Main /\ Main \in Thread /\ \A q \in Peer : q \in Thread
  BY ThreadsDistinct DEF Thread
<1>2. /\ at[t] = "push" /\ at'[t] = "spawn"
      /\ \A u \in Thread : u # t => at'[u] = at[u]
      /\ UNCHANGED <<new, memory, thread, undefined>>
  BY <1>1 DEF Push, Goes, objects, ObjectsInv, TypeInv, TypeOK
<1>3. p \in Peer /\ p # Nobody /\ Introduced(p) /\ memory[p] = "live" /\ ~Listed(p)
  <2>1. p \in Peer
    BY <1>1, <1>2 DEF ObjectsInv, TypeInv, NewTyped, Introducing
  <2>2. Introduced(p)
    BY <1>1, <1>2 DEF Introduced
  <2>. QED  BY <2>1, <2>2, ThreadsDistinct DEF ObjectsInv, IntroducedLive, PeersExact
<1>4. \A u \in Thread : new[u] = p => u = t
  BY <1>1, <1>3 DEF ObjectsInv, NewExact
<1>5. /\ \A q \in Peer : Listed(q)' <=> Listed(q) \/ q = p
      /\ \A i, j \in DOMAIN peers' : peers'[i] = peers'[j] => i = j
  <2>1. /\ peers \in Seq(Peer) /\ peers' = Append(peers, p)
        /\ \A i, j \in DOMAIN peers : peers[i] = peers[j] => i = j
    BY DEF Push, ObjectsInv, TypeInv, TypeOK, PeersExact
  <2>. HIDE DEF p
  <2>. QED  BY <1>3, <2>1, Appended
<1>6. NewExact'
  BY <1>1, <1>2 DEF ObjectsInv, NewExact, Introducing
<1>7. BornBySpawn'
  <2>1. ASSUME NEW q \in Peer PROVE Unspawned(q)' <=> Unspawned(q)
    BY <1>2 DEF Unspawned
  <2>2. \A q \in Peer : at'[q] = "unborn" <=> at[q] = "unborn"
    BY <1>1, <1>2
  <2>. QED  BY <2>1, <2>2 DEF ObjectsInv, BornBySpawn
<1>8. ~Introduced(p)' /\ \A q \in Peer : q # p => (Introduced(q)' <=> Introduced(q))
  BY <1>1, <1>2, <1>3, <1>4 DEF Introduced
<1>9. IntroducedLive' /\ PeersExact'
  <2>1. IntroducedLive'
    BY <1>2, <1>8 DEF ObjectsInv, IntroducedLive
  <2>2. \A q \in Peer : Listed(q)' <=> memory'[q] = "live" /\ ~Introduced(q)'
    BY <1>2, <1>3, <1>5, <1>8 DEF ObjectsInv, PeersExact
  <2>. QED  BY <1>5, <2>1, <2>2 DEF PeersExact
<1>10. Coming(p)' /\ \A q \in Peer : Coming(q) => Coming(q)'
  BY <1>1, <1>2 DEF Coming
<1>11. ThreadComing'
  BY <1>1, <1>2, <1>5, <1>10 DEF ObjectsInv, ThreadComing
<1>12. FreedAfterJoin'
  BY <1>1, <1>2, <1>10 DEF ObjectsInv, FreedAfterJoin, Coming
<1>. QED  BY <1>6, <1>7, <1>9, <1>11, <1>12 DEF ObjectsInv

\* The listener of the object begins, and has not ended before.
LEMMA SpawnObjects ==
    ASSUME ObjectsInv, TypeInv', NEW t \in Peer \cup {Main, Accept}, Spawn(t)
    PROVE  ObjectsInv'
<1>. DEFINE p == new[t]
<1>1. t \in Thread /\ Main \in Thread /\ \A q \in Peer : q \in Thread
  BY DEF Thread
<1>2. at[t] = "spawn" /\ p \in Peer /\ p # Nobody
  BY <1>1, ThreadsDistinct DEF Spawn, ObjectsInv, TypeInv, NewTyped, Introducing
<1>3. at[p] = "unborn" /\ p # t
  BY <1>1, <1>2 DEF ObjectsInv, BornBySpawn, Unspawned
<1>4. /\ at'[t] = "set" /\ at'[p] = "loop"
      /\ \A u \in Thread : u # t /\ u # p => at'[u] = at[u]
      /\ UNCHANGED <<new, memory, thread, peers, undefined>>
  BY <1>1, <1>2, <1>3 DEF Spawn, objects, ObjectsInv, TypeInv, TypeOK
<1>5. \A u \in Thread : new[u] = p => u = t
  BY <1>1, <1>2 DEF ObjectsInv, NewExact
<1>6. new[p] = Nobody
  BY <1>1, <1>2, <1>3 DEF ObjectsInv, NewExact, Introducing
<1>7. NewExact'
  BY <1>1, <1>2, <1>4, <1>6 DEF ObjectsInv, NewExact, Introducing
<1>8. BornBySpawn'
  <2>1. memory[p] # "unborn"
    BY <1>1, <1>2 DEF ObjectsInv, NewExact
  <2>2. ~Unspawned(p)'
    BY <1>1, <1>2, <1>4, <1>5, <2>1 DEF Unspawned
  <2>3. ASSUME NEW q \in Peer, q # p PROVE Unspawned(q)' <=> Unspawned(q)
    BY <1>1, <1>2, <1>4, <1>6, <2>3, ThreadsDistinct DEF Unspawned
  <2>4. \A q \in Peer : q # p => (at'[q] = "unborn" <=> at[q] = "unborn")
    BY <1>1, <1>2, <1>4
  <2>. QED  BY <1>4, <2>2, <2>3, <2>4 DEF ObjectsInv, BornBySpawn
<1>9. p # Main
  BY <1>2, ThreadsDistinct
<1>10. \A q \in Peer : Introduced(q)' <=> Introduced(q)
  BY <1>1, <1>2, <1>4, <1>6, <1>9, ThreadsDistinct DEF Introduced
<1>11. IntroducedLive' /\ PeersExact'
  BY <1>4, <1>10 DEF ObjectsInv, IntroducedLive, PeersExact, Listed
<1>12. \A q \in Peer : Coming(q) => Coming(q)'
  BY <1>1, <1>2, <1>3, <1>4 DEF Coming
<1>13. ThreadComing'
  BY <1>1, <1>2, <1>4, <1>9, <1>12 DEF ObjectsInv, ThreadComing, Listed
<1>14. FreedAfterJoin'
  BY <1>1, <1>2, <1>3, <1>4, <1>12 DEF ObjectsInv, FreedAfterJoin, Coming
<1>. QED  BY <1>7, <1>8, <1>11, <1>13, <1>14 DEF ObjectsInv

\* listening_thread is set, or written into a freed object.
LEMMA SetThreadObjects ==
    ASSUME ObjectsInv, TypeInv', NEW t \in Peer \cup {Main, Accept}, SetThread(t)
    PROVE  ObjectsInv'
<1>. DEFINE p == new[t]
<1>1. t \in Thread /\ Main \in Thread /\ Accept # Main /\ Nobody \notin Peer
      /\ \A q \in Peer : q \in Thread /\ q # Main
  BY ThreadsDistinct DEF Thread
<1>2. at[t] = "set" /\ p \in Peer /\ p # Nobody
  BY <1>1 DEF SetThread, ObjectsInv, TypeInv, NewTyped, Introducing
<1>3. /\ IF t = Main THEN at'[t] = "pushing" /\ UNCHANGED new
         ELSE /\ at'[t] \in {"loop", "add"} /\ new'[t] = Nobody
              /\ \A u \in Thread : u # t => new'[u] = new[u]
      /\ \A u \in Thread : u # t => at'[u] = at[u]
      /\ thread'[p] = TRUE /\ \A q \in Peer : q # p => thread'[q] = thread[q]
      /\ UNCHANGED <<memory, peers>>
      /\ undefined' = "none" => undefined = "none" /\ memory[p] # "freed"
  <2>1. at'[t] = AfterSet(t) /\ \A u \in Thread : u # t => at'[u] = at[u]
    BY <1>1 DEF SetThread, Goes, ObjectsInv, TypeInv, TypeOK
  <2>2. IF t = Main THEN UNCHANGED new
        ELSE new'[t] = Nobody /\ \A u \in Thread : u # t => new'[u] = new[u]
    BY <1>1 DEF SetThread, ObjectsInv, TypeInv, TypeOK
  <2>3. thread'[p] = TRUE /\ \A q \in Peer : q # p => thread'[q] = thread[q]
    <3>1. thread \in [Peer -> BOOLEAN] /\ thread' = [thread EXCEPT ![p] = TRUE]
      BY DEF SetThread, ObjectsInv, TypeInv, TypeOK
    <3>. QED  BY <1>2, <3>1
  <2>4. UNCHANGED <<memory, peers>>
        /\ (undefined' = "none" => undefined = "none" /\ memory[p] # "freed")
    BY DEF SetThread, Uses
  <2>. QED  BY <2>1, <2>2, <2>3, <2>4 DEF AfterSet
<1>4. \A u \in Thread : new[u] = p => u = t
  BY <1>1, <1>2 DEF ObjectsInv, NewExact
<1>5. NewExact'
  BY <1>1, <1>2, <1>3 DEF ObjectsInv, NewExact, Introducing
<1>6. BornBySpawn'
  <2>1. ASSUME NEW q \in Peer PROVE Unspawned(q)' <=> Unspawned(q)
    BY <1>1, <1>2, <1>3 DEF Unspawned
  <2>2. \A q \in Peer : at'[q] = "unborn" <=> at[q] = "unborn"
    BY <1>1, <1>2, <1>3
  <2>. QED  BY <2>1, <2>2 DEF ObjectsInv, BornBySpawn
<1>7. \A q \in Peer : Introduced(q)' <=> Introduced(q)
  BY <1>1, <1>2, <1>3 DEF Introduced
<1>8. IntroducedLive' /\ PeersExact'
  BY <1>3, <1>7 DEF ObjectsInv, IntroducedLive, PeersExact, Listed
<1>9. \A q \in Peer : q # p /\ Coming(q) => Coming(q)'
  BY <1>1, <1>2, <1>3 DEF Coming
<1>10. ThreadComing'
  <2>1. \A q \in Peer : Listed(q)' /\ ~thread'[q] => Coming(q)'
    BY <1>3, <1>9 DEF ObjectsInv, ThreadComing, Listed
  <2>2. at'[Main] = "pushing" => thread'[new'[Main]]
    BY <1>1, <1>2, <1>3 DEF ObjectsInv, ThreadComing, TypeInv, NewTyped, Introducing
  <2>. QED  BY <2>1, <2>2 DEF ThreadComing
<1>11. FreedAfterJoin'
  <2>1. \A q \in Peer : at[q] = "ended" => at'[q] = "ended"
    BY <1>1, <1>2, <1>3
  <2>. QED  BY <1>3, <1>9, <2>1 DEF ObjectsInv, FreedAfterJoin, Coming
<1>. QED  BY <1>5, <1>6, <1>8, <1>10, <1>11 DEF ObjectsInv

LEMMA MainPushObjects == ASSUME ObjectsInv, TypeInv', MainPush PROVE ObjectsInv'
<1>1. Main \in Thread /\ \A q \in Peer : q \in Thread /\ q # Main /\ q # Nobody
  BY ThreadsDistinct DEF Thread
<1>2. /\ at[Main] = "pushing" /\ at'[Main] = "prompt"
      /\ \A u \in Thread : u # Main => at'[u] = at[u]
      /\ UNCHANGED <<memory, thread, undefined>>
  BY <1>1 DEF MainPush, Goes, objects, ObjectsInv, TypeInv, TypeOK
<1>3. new'[Main] = Nobody /\ \A u \in Thread : u # Main => new'[u] = new[u]
  BY <1>1 DEF MainPush, ObjectsInv, TypeInv, TypeOK
<1>0. PICK p \in Peer : p = new[Main]
  BY <1>1, <1>2 DEF ObjectsInv, TypeInv, NewTyped, Introducing
<1>4. Introduced(p) /\ memory[p] = "live" /\ ~Listed(p) /\ thread[p]
  <2>1. Introduced(p)
    BY <1>0, <1>1, <1>2 DEF Introduced
  <2>. QED  BY <1>0, <1>2, <2>1 DEF ObjectsInv, IntroducedLive, PeersExact, ThreadComing
<1>5. \A u \in Thread : new[u] = p => u = Main
  BY <1>0, <1>1 DEF ObjectsInv, NewExact
<1>6. /\ \A q \in Peer : Listed(q)' <=> Listed(q) \/ q = p
      /\ \A i, j \in DOMAIN peers' : peers'[i] = peers'[j] => i = j
  <2>1. /\ peers \in Seq(Peer) /\ peers' = Append(peers, p)
        /\ \A i, j \in DOMAIN peers : peers[i] = peers[j] => i = j
    BY <1>0 DEF MainPush, ObjectsInv, TypeInv, TypeOK, PeersExact
  <2>. QED  BY <1>4, <2>1, Appended
<1>7. NewExact'
  BY <1>1, <1>2, <1>3 DEF ObjectsInv, NewExact, Introducing
<1>8. BornBySpawn'
  <2>1. ASSUME NEW q \in Peer PROVE Unspawned(q)' <=> Unspawned(q)
    BY <1>1, <1>2, <1>3 DEF Unspawned
  <2>2. \A q \in Peer : at'[q] = "unborn" <=> at[q] = "unborn"
    BY <1>1, <1>2
  <2>. QED  BY <2>1, <2>2 DEF ObjectsInv, BornBySpawn
<1>9. ~Introduced(p)' /\ \A q \in Peer : q # p => (Introduced(q)' <=> Introduced(q))
  <2>1. \A u \in Thread : new'[u] # p
    BY <1>1, <1>3, <1>4, <1>5
  <2>2. ASSUME NEW q \in Peer, q # p PROVE Introduced(q)' <=> Introduced(q)
    <3>1. \A u \in Thread : new'[u] = q => u # Main /\ new[u] = q
      BY <1>1, <1>3
    <3>2. \A u \in Thread : new[u] = q => u # Main /\ new'[u] = q
      BY <1>0, <1>1, <1>3, <2>2
    <3>. QED  BY <1>2, <3>1, <3>2 DEF Introduced
  <2>. QED  BY <2>1, <2>2 DEF Introduced
<1>10. IntroducedLive' /\ PeersExact'
  <2>1. IntroducedLive'
    BY <1>2, <1>9 DEF ObjectsInv, IntroducedLive
  <2>2. \A q \in Peer : Listed(q)' <=> memory'[q] = "live" /\ ~Introduced(q)'
    BY <1>2, <1>4, <1>6, <1>9 DEF ObjectsInv, PeersExact
  <2>. QED  BY <1>6, <2>1, <2>2 DEF PeersExact
<1>11. \A q \in Peer : Coming(q) => Coming(q)'
  BY <1>1, <1>2, <1>3 DEF Coming
<1>12. ThreadComing'
  BY <1>1, <1>2, <1>4, <1>6, <1>11 DEF ObjectsInv, ThreadComing
<1>13. FreedAfterJoin'
  BY <1>1, <1>2, <1>11 DEF ObjectsInv, FreedAfterJoin, Coming
<1>. QED  BY <1>7, <1>8, <1>10, <1>12, <1>13 DEF ObjectsInv

\* An object is freed.  It was in connected_peers, so no thread is about to put it
\* there; if its listener may still run, SetThread is still to come.
LEMMA FreeObjects ==
    ASSUME ObjectsInv, TypeInv', NEW i \in 1..Len(peers), Free(i), Moves,
           UNCHANGED <<new, thread, undefined>>
    PROVE  ObjectsInv'
<1>. DEFINE p == peers[i]
<1>0. peers \in Seq(Peer)
  BY DEF ObjectsInv, TypeInv, TypeOK
<1>1. p \in Peer /\ Listed(p) /\ memory[p] = "live" /\ ~Introduced(p)
  <2>1. p \in Peer /\ Listed(p)
    BY <1>0 DEF Listed
  <2>. QED  BY <2>1 DEF ObjectsInv, PeersExact
<1>2. memory'[p] = "freed" /\ \A q \in Peer : q # p => memory'[q] = memory[q]
  <2>1. memory \in [Peer -> {"unborn", "live", "freed"}]
    BY DEF ObjectsInv, TypeInv, TypeOK
  <2>. QED  BY <1>1, <2>1 DEF Free
<1>3. /\ \A q \in Peer : Listed(q)' <=> Listed(q) /\ q # p
      /\ \A j, k \in DOMAIN peers' : peers'[j] = peers'[k] => j = k
  <2>1. /\ Len(peers) \in Nat /\ DOMAIN peers = 1..Len(peers)
        /\ DOMAIN peers' = 1..Len(peers) - 1
        /\ \A j \in 1..Len(peers) - 1 :
              peers'[j] = IF j < i THEN peers[j] ELSE peers[j + 1]
    <3>1. /\ Unlisted(i) \in Seq(Peer) /\ Len(Unlisted(i)) = Len(peers) - 1
          /\ \A j \in 1..Len(peers) - 1 :
                Unlisted(i)[j] = IF j < i THEN peers[j] ELSE peers[j + 1]
      BY <1>0, UnlistedSeq
    <3>2. peers' = Unlisted(i)
      BY DEF Free
    <3>3. Len(peers) \in Nat /\ DOMAIN peers = 1..Len(peers)
      BY <1>0
    <3>4. DOMAIN Unlisted(i) = 1..Len(Unlisted(i))
      BY <3>1
    <3>. QED  BY <3>1, <3>2, <3>3, <3>4
  <2>2. \A j, k \in 1..Len(peers) : peers[j] = peers[k] => j = k
    BY <2>1 DEF ObjectsInv, PeersExact
  <2>3. ASSUME NEW j \in DOMAIN peers', NEW k \in DOMAIN peers', peers'[j] = peers'[k]
        PROVE  j = k
    BY <2>1, <2>2, <2>3
  <2>4. ASSUME NEW q \in Peer, Listed(q), q # p PROVE Listed(q)'
    <3>1. PICK j \in 1..Len(peers) : peers[j] = q /\ j # i
      BY <2>1, <2>4 DEF Listed
    <3>2. CASE j < i
      <4>1. j \in 1..Len(peers) - 1 /\ peers'[j] = q
        BY <2>1, <3>1, <3>2
      <4>. QED  BY <2>1, <4>1 DEF Listed
    <3>3. CASE j > i
      <4>1. j - 1 \in 1..Len(peers) - 1 /\ peers'[j - 1] = q
        BY <2>1, <3>1, <3>3
      <4>. QED  BY <2>1, <4>1 DEF Listed
    <3>. QED  BY <3>1, <3>2, <3>3
  <2>5. ASSUME NEW q \in Peer, Listed(q)' PROVE Listed(q) /\ q # p
    <3>1. PICK j \in 1..Len(peers) - 1 : peers'[j] = q
      BY <2>1, <2>5 DEF Listed
    <3>2. PICK k \in 1..Len(peers) : peers[k] = q /\ k # i
      BY <2>1, <3>1
    <3>. QED  BY <2>1, <2>2, <3>2 DEF Listed
  <2>. QED  BY <2>3, <2>4, <2>5
<1>4. \A t \in Thread : /\ at[t] \in Introducing \/ at'[t] \in Introducing => at'[t] = at[t]
                        /\ at'[t] = "unborn" <=> at[t] = "unborn"
                        /\ at[t] = "ended" => at'[t] = "ended"
  BY DEF Moves
<1>5. Main \in Thread /\ \A q \in Peer : q \in Thread
  BY DEF Thread
<1>6. \A q \in Peer : memory'[q] = "unborn" <=> memory[q] = "unborn"
  BY <1>1, <1>2
<1>7. NewExact'
  <2>1. \A t \in Thread : new[t] # Nobody => new[t] \in Peer
    BY DEF ObjectsInv, TypeInv, TypeOK
  <2>. QED  BY <1>4, <1>6, <2>1 DEF ObjectsInv, NewExact
<1>8. BornBySpawn'
  BY <1>4, <1>5, <1>6 DEF ObjectsInv, BornBySpawn, Unspawned, Introducing
<1>9. \A q \in Peer : Introduced(q)' <=> Introduced(q)
  BY <1>4, <1>5 DEF Introduced, Introducing
<1>10. \A q \in Peer : Coming(q)' <=> Coming(q)
  BY <1>4 DEF Coming, Introducing
<1>11. IntroducedLive'
  BY <1>1, <1>2, <1>9 DEF ObjectsInv, IntroducedLive
<1>12. PeersExact'
  BY <1>1, <1>2, <1>3, <1>9 DEF ObjectsInv, PeersExact
<1>13. ThreadComing'
  BY <1>3, <1>4, <1>5, <1>10 DEF ObjectsInv, ThreadComing, Introducing
<1>14. FreedAfterJoin'
  <2>1. at[p] = "ended" \/ Coming(p)
    BY <1>1 DEF Free, Joined, ObjectsInv, ThreadComing
  <2>. QED  BY <1>2, <1>4, <1>5, <1>10, <2>1 DEF ObjectsInv, FreedAfterJoin, Coming
<1>. QED  BY <1>7, <1>8, <1>11, <1>12, <1>13, <1>14 DEF ObjectsInv

LEMMA FreeSteps ==
    ASSUME ObjectsInv, TypeInv', MonitorFrees \/ DisconnectJoins
    PROVE  ObjectsInv'
<1>0. peers \in Seq(Peer) /\ pos \in Nat /\ pos # 0 /\ Main \in Thread
  BY DEF ObjectsInv, TypeInv, TypeOK, WalkInBounds, Thread
<1>1. CASE MonitorFrees
  <2>1. pos \in 1..Len(peers)
    BY <1>0, <1>1 DEF MonitorFrees
  <2>2. Free(pos) /\ UNCHANGED <<at, new, thread, undefined>>
    BY <1>1 DEF MonitorFrees
  <2>. QED  BY <2>1, <2>2, FreeObjects DEF Moves
<1>2. CASE DisconnectJoins
  <2>1. pos \in 1..Len(peers)
    BY <1>0, <1>2 DEF DisconnectJoins, ObjectsInv, TypeInv, WalkInBounds
  <2>2. /\ Free(pos) /\ UNCHANGED <<new, thread, undefined>> /\ at[Main] = "join"
        /\ \E place \in {"exited", "disconnect"} : at' = [at EXCEPT ![Main] = place]
    BY <1>2 DEF DisconnectJoins, Goes
  <2>3. Moves
    <3>1. PICK place \in {"exited", "disconnect"} : at' = [at EXCEPT ![Main] = place]
      BY <2>2
    <3>2. DOMAIN at = Thread
      BY DEF ObjectsInv, TypeInv, TypeOK
    <3>. QED  BY <1>0, <2>2, <3>1, <3>2 DEF Moves, Introducing
  <2>. QED  BY <2>1, <2>2, <2>3, FreeObjects
<1>. QED  BY <1>1, <1>2

LEMMA ObjectsInvHolds == Spec => []ObjectsInv
<1>1. ASSUME ObjectsInv, UNCHANGED vars PROVE ObjectsInv'
  <2>1. TypeInv'
    BY <1>1, TypeStep DEF ObjectsInv
  <2>. QED  BY <1>1, <2>1, QuietObjects DEF vars, objects, Moves
<1>2. ASSUME ObjectsInv, Next PROVE ObjectsInv'
  <2>1. TypeInv'
    BY <1>2, TypeStep DEF ObjectsInv
  <2>2. Main \in Thread /\ Accept \in Thread /\ \A q \in Peer : q \in Thread
    BY DEF Thread
  <2>3. ASSUME NEW p \in Peer,
               AcceptConnection(p) \/ MainConnects(p) \/ \E q \in Peer : Connect(q, p)
        PROVE  ObjectsInv'
    <3>1. CASE AcceptConnection(p)
      <4>1. Create(Accept, p) /\ at[Accept] = "loop" /\ Goes(Accept, "push")
        BY <3>1 DEF AcceptConnection
      <4>. QED  BY <1>2, <2>1, <2>2, <4>1, CreateObjects
    <3>2. CASE MainConnects(p)
      <4>1. Create(Main, p) /\ at[Main] = "loop" /\ Goes(Main, "spawn")
        BY <3>2 DEF MainConnects
      <4>. QED  BY <1>2, <2>1, <2>2, <4>1, CreateObjects
    <3>3. ASSUME NEW q \in Peer, Connect(q, p) PROVE ObjectsInv'
      <4>1. Create(q, p) /\ at[q] = "connect" /\ Goes(q, "push")
        BY <3>3 DEF Connect
      <4>. QED  BY <1>2, <2>1, <2>2, <4>1, CreateObjects
    <3>. QED  BY <2>3, <3>1, <3>2, <3>3
  <2>. QED  BY <1>2, <2>1, <2>3, Steps, PushObjects, SpawnObjects, SetThreadObjects,
               MainPushObjects, FreeSteps, QuietSteps
            DEF MonitorThread
<1>. QED  BY <1>1, <1>2, InitObjects, PTL DEF Spec

\* For any number of connections, in any order: an allocated object is once in
\* connected_peers or on its way into it, a freed one never, so that nothing leaks
\* and nothing is freed twice.
THEOREM NoLeakNoDoubleFree == Spec => []PeersExact
<1>1. ObjectsInv => PeersExact
  BY DEF ObjectsInv
<1>. QED  BY <1>1, ObjectsInvHolds, PTL

\* And an object is freed under its running listener only in the gap between the
\* creation of the thread and the assignment of listening_thread.
THEOREM FreeWaitsForListener == Spec => []FreedAfterJoin
<1>1. ObjectsInv => FreedAfterJoin
  BY DEF ObjectsInv
<1>. QED  BY <1>1, ObjectsInvHolds, PTL

=============================================================================
