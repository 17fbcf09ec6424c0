------------------------- MODULE SimpleSearchProofs -------------------------
(***************************************************************************)
(* Proofs about SimpleSearch: for every overlay, every content of the      *)
(* indexes, every list of hop counts and every set of users who search.    *)
(***************************************************************************)
EXTENDS SimpleSearch, SequenceTheorems, FiniteSetTheorems, TLAPS

Channels == [End -> Seq(Message)]

\* What send_msg_to_peer leaves in the channels: well-typed queues, holding what
\* was there and the message.
LEMMA SendOnQueues ==
    ASSUME NEW ch \in Channels, NEW E \in SUBSET End, NEW msg \in Message
    PROVE  /\ SendOn(ch, E, msg) \in Channels
           /\ \A x \in End : \A i \in 1..Len(SendOn(ch, E, msg)[x]) :
                 \/ SendOn(ch, E, msg)[x][i] = msg
                 \/ i \in 1..Len(ch[x]) /\ SendOn(ch, E, msg)[x][i] = ch[x][i]
<1>1. ASSUME NEW x \in End
      PROVE  /\ Append(ch[x], msg) \in Seq(Message)
             /\ \A i \in 1..Len(Append(ch[x], msg)) :
                   \/ Append(ch[x], msg)[i] = msg
                   \/ i \in 1..Len(ch[x]) /\ Append(ch[x], msg)[i] = ch[x][i]
  BY <1>1 DEF Channels
<1>2. SendOn(ch, E, msg) \in Channels
  BY <1>1 DEF SendOn, Channels
<1>. QED  BY <1>1, <1>2 DEF SendOn, Channels

\* What reading one message leaves in the channels.
LEMMA ConsumedQueues ==
    ASSUME chan \in Channels, NEW e \in End, chan[e] # <<>>
    PROVE  /\ Head(chan[e]) \in Message
           /\ 1 \in 1..Len(chan[e]) /\ Head(chan[e]) = chan[e][1]
           /\ Consumed(e) \in Channels
           /\ \A x \in End : \A i \in 1..Len(Consumed(e)[x]) :
                 \E j \in 1..Len(chan[x]) : Consumed(e)[x][i] = chan[x][j]
<1>1. /\ Len(chan[e]) \in Nat \ {0} /\ Tail(chan[e]) \in Seq(Message)
      /\ Head(chan[e]) \in Message /\ Head(chan[e]) = chan[e][1]
      /\ Len(Tail(chan[e])) = Len(chan[e]) - 1
      /\ \A i \in 1..Len(Tail(chan[e])) : Tail(chan[e])[i] = chan[e][i + 1]
  BY DEF Channels
<1>2. Consumed(e) \in Channels
  BY <1>1 DEF Consumed, Channels
<1>3. ASSUME NEW x \in End, NEW i \in 1..Len(Consumed(e)[x])
      PROVE  \E j \in 1..Len(chan[x]) : Consumed(e)[x][i] = chan[x][j]
  <2>1. CASE x = e
    <3>1. Consumed(e)[x] = Tail(chan[e])
      BY <2>1 DEF Consumed, Channels
    <3>2. i + 1 \in 1..Len(chan[x]) /\ Consumed(e)[x][i] = chan[x][i + 1]
      BY <1>1, <3>1, <2>1
    <3>. QED  BY <3>2
  <2>2. CASE x # e
    <3>1. Consumed(e)[x] = chan[x]
      BY <2>2 DEF Consumed, Channels
    <3>. QED  BY <3>1
  <2>. QED  BY <2>1, <2>2
<1>. QED  BY <1>1, <1>2, <1>3

\* Reading a message at e and sending one on E.
LEMMA AnsweredQueues ==
    ASSUME chan \in Channels, NEW e \in End, chan[e] # <<>>,
           NEW E \in SUBSET End, NEW msg \in Message
    PROVE  /\ SendOn(Consumed(e), E, msg) \in Channels
           /\ \A x \in End : \A i \in 1..Len(SendOn(Consumed(e), E, msg)[x]) :
                 \/ SendOn(Consumed(e), E, msg)[x][i] = msg
                 \/ \E j \in 1..Len(chan[x]) :
                       SendOn(Consumed(e), E, msg)[x][i] = chan[x][j]
<1>1. /\ Consumed(e) \in Channels
      /\ \A x \in End : \A i \in 1..Len(Consumed(e)[x]) :
            \E j \in 1..Len(chan[x]) : Consumed(e)[x][i] = chan[x][j]
  BY ConsumedQueues
<1>2. /\ SendOn(Consumed(e), E, msg) \in Channels
      /\ \A x \in End : \A i \in 1..Len(SendOn(Consumed(e), E, msg)[x]) :
            \/ SendOn(Consumed(e), E, msg)[x][i] = msg
            \/ i \in 1..Len(Consumed(e)[x])
                  /\ SendOn(Consumed(e), E, msg)[x][i] = Consumed(e)[x][i]
  BY <1>1, SendOnQueues
<1>. QED  BY <1>1, <1>2

----------------------------------------------------------------------------
(* Type correctness.                                                       *)

LEMMA MessageTypes ==
    /\ \A s \in Sid, hop \in Nat \ {0}, w \in Word : Request(s, hop, w) \in Message
    /\ \A s \in Sid, hits \in SUBSET Hit : Response(s, hits) \in Message
BY DEF Request, Response, Message

LEMMA ReadMessage ==
    ASSUME TypeOK, NEW e \in End, chan[e] # <<>>
    PROVE  /\ Owner[e] \in Node /\ Other[e] \in End
           /\ Head(chan[e]) \in Message
           /\ Head(chan[e]).sid \in Sid
           /\ Head(chan[e]).type = "REQ" =>
                 Head(chan[e]).hop \in Nat \ {0} /\ Head(chan[e]).word \in Word
           /\ Head(chan[e]).type = "RESP" => Head(chan[e]).hits \in SUBSET Hit
<1>1. Head(chan[e]) \in Message
  BY ConsumedQueues DEF TypeOK, Channels
<1>. QED  BY <1>1, OverlayAssumption DEF Message

\* Every peer has at least the connection the request came by.
LEMMA RepliesNeededType ==
    ASSUME NEW e \in End
    PROVE  RepliesNeeded(Owner[e]) \in Nat
<1>. DEFINE P == ConnectedPeers(Owner[e])
<1>1. IsFiniteSet(P)
  BY OverlayAssumption, FS_Subset DEF ConnectedPeers
<1>2. e \in P
  BY DEF ConnectedPeers
<1>3. Cardinality(P) \in Nat /\ Cardinality(P) # 0
  BY <1>1, <1>2, FS_CardinalityType, FS_EmptySet
<1>. QED  BY <1>3 DEF RepliesNeeded

LEMMA RelayType ==
    ASSUME NEW e \in End, NEW b \in BOOLEAN
    PROVE  Relay(e, b) \in Relays /\ Relay(e, b) # NoEntry
BY RepliesNeededType, NoEntryAssumption DEF Relay, Relays

LEMMA InitType == Init => TypeOK
BY OverlayAssumption, IndexAssumption, SearchAssumption
   DEF Init, TypeOK, Places, Attempts, Sid

LEMMA MainType == ASSUME TypeOK, NEW n \in Node, Main(n) PROVE TypeOK'
<1>0. /\ Attempts \in Nat \ {0} /\ MaxSid \in Nat
      /\ \A k \in 1..Attempts : Hops[k] \in Nat \ {0}
  BY SearchAssumption DEF Attempts
<1>1. CASE Attempt(n)
  <2>1. CurrentSid(n) \in Sid
    BY <1>0, <1>1 DEF Attempt, TypeOK, Places, CurrentSid, Sid
  <2>2. /\ ActiveSearch(word[n], Hops[try[n]]) \in Searches
        /\ ActiveSearch(word[n], Hops[try[n]]) # NoEntry
    BY <1>0, <1>1, NoEntryAssumption DEF Attempt, TypeOK, Places, ActiveSearch, Searches
  <2>3. Request(CurrentSid(n), Hops[try[n]], word[n]) \in Message
    BY <1>0, <1>1, <2>1, MessageTypes DEF Attempt, TypeOK, Places
  <2>4. chan' \in Channels
    <3>1. ConnectedPeers(n) \in SUBSET End /\ chan \in Channels
      BY DEF ConnectedPeers, TypeOK, Channels
    <3>. QED  BY <1>1, <2>3, <3>1, SendOnQueues DEF Attempt
  <2>5. created' \in [Sid -> Searches \cup {NoEntry}]
    BY <1>1, <2>2 DEF Attempt, TypeOK, Places
  <2>6. Places'
    BY <1>1, <2>1, <2>2 DEF Attempt, TypeOK, Places, CurrentSid
  <2>. QED  BY <1>1, <2>4, <2>5, <2>6 DEF Attempt, TypeOK, Places, Channels
<1>2. CASE WakeSuccess(n)
  BY <1>2 DEF WakeSuccess, TypeOK, Places, CurrentSid
<1>3. CASE WakeFailed(n)
  <2>1. CurrentSid(n) \in Sid /\ created[CurrentSid(n)] \in Searches
    BY <1>3 DEF WakeFailed, TypeOK, Places
  <2>2. [created[CurrentSid(n)] EXCEPT !.status = "FAILED"] \in Searches
    BY <2>1 DEF Searches
  <2>3. created' \in [Sid -> Searches \cup {NoEntry}]
    BY <1>3, <2>1, <2>2 DEF WakeFailed, TimedOut, TypeOK
  <2>4. \A s \in Sid : created[s] # NoEntry => created'[s] # NoEntry
    BY <1>3, <2>1, <2>2, NoEntryAssumption DEF WakeFailed, TimedOut, TypeOK
  <2>5. counter[n] \in 1..MaxSid - (Attempts - try[n]) /\ try[n] \in 1..Attempts
    BY <1>3 DEF WakeFailed, TypeOK, Places
  <2>6. counter' \in [Node -> 0..MaxSid + 1] /\ try' \in [Node -> 1..Attempts]
    <3>1. counter[n] + 1 \in 0..MaxSid + 1
      BY <1>0, <2>5
    <3>2. counter' \in [Node -> 0..MaxSid + 1]
      BY <1>3, <3>1 DEF WakeFailed, TypeOK
    <3>3. Retries(n) => try[n] + 1 \in 1..Attempts
      BY <1>0, <2>5 DEF Retries
    <3>4. try' \in [Node -> 1..Attempts]
      BY <1>3, <3>3 DEF WakeFailed, TypeOK
    <3>. QED  BY <3>2, <3>4
  <2>7. Places'
    <3>. SUFFICES ASSUME NEW m \in Node
                  PROVE  /\ pc'[m] \in {"attempt", "sleep"} =>
                                /\ counter'[m] \in 1..MaxSid - (Attempts - try'[m])
                                /\ word'[m] \in Word
                         /\ pc'[m] \in {"sleep", "choose"} =>
                                /\ CurrentSid(m)' \in Sid
                                /\ created'[CurrentSid(m)'] # NoEntry
      BY DEF Places
    <3>1. CASE m = n
      <4>1. pc'[n] \in {"attempt", "idle"} /\ word'[n] \in Word
        BY <1>3 DEF WakeFailed, TypeOK, Places
      <4>2. pc'[n] = "attempt" => counter'[n] \in 1..MaxSid - (Attempts - try'[n])
        BY <1>0, <1>3, <2>5 DEF WakeFailed, TypeOK, Retries
      <4>. QED  BY <3>1, <4>1, <4>2
    <3>2. CASE m # n
      <4>1. /\ pc'[m] = pc[m] /\ counter'[m] = counter[m] /\ word'[m] = word[m]
            /\ try'[m] = try[m] /\ CurrentSid(m)' = CurrentSid(m)
        BY <1>3, <3>2 DEF WakeFailed, TypeOK, CurrentSid
      <4>. QED  BY <2>4, <4>1 DEF TypeOK, Places
    <3>. QED  BY <3>1, <3>2
  <2>. QED  BY <1>3, <2>3, <2>6, <2>7 DEF WakeFailed, TypeOK, Places
<1>. QED  BY <1>1, <1>2, <1>3 DEF Main

LEMMA UserType == ASSUME TypeOK, NEW n \in Node, User(n) PROVE TypeOK'
<1>0. Attempts \in Nat \ {0} /\ MaxSid \in Nat
  BY SearchAssumption DEF Attempts
<1>1. CASE \E w \in Word : SearchUnasked(n, w)
  BY <1>0, <1>1 DEF SearchUnasked, TypeOK, Places, CurrentSid
<1>2. CASE \E w \in Word : SearchStart(n, w)
  BY <1>0, <1>2 DEF SearchStart, TypeOK, Places, CurrentSid
<1>3. CASE Choose(n)
  <2>1. index' \in [Node -> [Word -> File \cup {NoFile}]]
    <3>1. created[CurrentSid(n)] \in Searches
      BY <1>3 DEF Choose, TypeOK, Places
    <3>2. \A hit \in created[CurrentSid(n)].hits : hit.file \in File
      BY <3>1 DEF Searches, Hit
    <3>3. ASSUME NEW f \in File, NEW K, Learn(n, f, K)
          PROVE  index' \in [Node -> [Word -> File \cup {NoFile}]]
      <4>1. index[n] \in [Word -> File \cup {NoFile}]
        BY DEF TypeOK
      <4>2. [w \in Word |-> IF w = Name[f] \/ w \in K THEN f ELSE index[n][w]]
               \in [Word -> File \cup {NoFile}]
        BY <4>1
      <4>. QED  BY <3>3, <4>2 DEF Learn, TypeOK
    <3>. QED  BY <1>3, <3>2, <3>3 DEF Choose, TypeOK
  <2>. QED  BY <1>3, <2>1 DEF Choose, TypeOK, Places, CurrentSid
<1>. QED  BY <1>1, <1>2, <1>3 DEF User

\* One message read at e, an answer sent, forwarded_searches updated.
LEMMA RequestType ==
    ASSUME TypeOK, NEW e \in End,
           ReqProcessed(e) \/ ReqFound(e) \/ ReqForward(e) \/ ReqDeadEnd(e)
    PROVE  TypeOK'
<1>. DEFINE n == Owner[e]
            req == Head(chan[e])
<1>1. /\ chan[e] # <<>> /\ chan \in Channels /\ n \in Node /\ req.sid \in Sid
      /\ req.hop \in Nat \ {0} /\ req.word \in Word
  BY ReadMessage DEF ReqProcessed, ReqFound, ReqForward, ReqDeadEnd, Fresh, Receives,
                     TypeOK, Channels
<1>2. Response(req.sid, {}) \in Message
  BY <1>1, MessageTypes
<1>3. ASSUME NEW b \in BOOLEAN, fwd' = [fwd EXCEPT ![n][req.sid] = Relay(e, b)]
      PROVE  fwd' \in [Node -> [Sid -> Relays \cup {NoEntry}]]
  BY <1>1, <1>3, RelayType DEF TypeOK
<1>0. ASSUME UNCHANGED <<counter, pc, word, try, created, index>>,
             chan' \in Channels, fwd' \in [Node -> [Sid -> Relays \cup {NoEntry}]]
      PROVE  TypeOK'
  BY <1>0 DEF TypeOK, Channels, Places, CurrentSid
<1>4. CASE ReqProcessed(e)
  <2>1. chan' \in Channels
    BY <1>1, <1>2, <1>4, AnsweredQueues DEF ReqProcessed
  <2>. QED  BY <1>4, <2>1 DEF ReqProcessed, TypeOK, Channels, Places, CurrentSid
<1>5. CASE ReqFound(e)
  <2>1. OwnHit(e, req.word) \in Hit
    BY <1>1, <1>5 DEF ReqFound, OwnHit, Hit, Holds, TypeOK
  <2>2. Response(req.sid, {OwnHit(e, req.word)}) \in Message
    BY <1>1, <2>1, MessageTypes
  <2>3. chan' \in Channels
    BY <1>1, <2>2, <1>5, AnsweredQueues DEF ReqFound
  <2>4. fwd' \in [Node -> [Sid -> Relays \cup {NoEntry}]]
    BY <1>3, <1>5 DEF ReqFound
  <2>. QED  BY <1>0, <1>5, <2>3, <2>4 DEF ReqFound
<1>6. CASE ReqForward(e)
  <2>1. HopsLeft(req) \in Nat \ {0}
    BY <1>1, <1>6 DEF ReqForward, LastHop, HopsLeft
  <2>2. Request(req.sid, HopsLeft(req), req.word) \in Message
    BY <1>1, <2>1, MessageTypes
  <2>3. chan' \in Channels
    <3>1. ForwardTo(e) \in SUBSET End
      BY DEF ForwardTo, ConnectedPeers
    <3>. QED  BY <1>1, <2>2, <1>6, <3>1, AnsweredQueues DEF ReqForward
  <2>4. fwd' \in [Node -> [Sid -> Relays \cup {NoEntry}]]
    BY <1>3, <1>6 DEF ReqForward
  <2>. QED  BY <1>0, <1>6, <2>3, <2>4 DEF ReqForward
<1>7. CASE ReqDeadEnd(e)
  <2>1. chan' \in Channels
    BY <1>1, <1>2, <1>7, AnsweredQueues DEF ReqDeadEnd
  <2>2. fwd' \in [Node -> [Sid -> Relays \cup {NoEntry}]]
    BY <1>3, <1>7 DEF ReqDeadEnd
  <2>. QED  BY <1>0, <1>7, <2>1, <2>2 DEF ReqDeadEnd
<1>. QED  BY <1>4, <1>5, <1>6, <1>7

LEMMA ResponseType ==
    ASSUME TypeOK, NEW e \in End,
           RespCollect(e) \/ RespComplete(e) \/ RespInTime(e) \/ RespLate(e)
    PROVE  TypeOK'
<1>. DEFINE n == Owner[e]
            resp == Head(chan[e])
            entry == Counted(fwd[n][resp.sid], resp)
<1>1. /\ chan[e] # <<>> /\ chan \in Channels /\ n \in Node /\ resp.sid \in Sid
      /\ resp.hits \in SUBSET Hit
  BY ReadMessage DEF RespCollect, RespComplete, RespInTime, RespLate, ForRelay,
                     ForCreator, Receives, TypeOK, Channels
<1>2. Consumed(e) \in Channels
  BY <1>1, ConsumedQueues
<1>3. ASSUME ForRelay(e)
      PROVE  entry \in Relays /\ [entry EXCEPT !.waiting = FALSE] \in Relays
  <2>1. fwd[n][resp.sid] \in Relays
    BY <1>1, <1>3 DEF ForRelay, TypeOK
  <2>2. ASSUME NEW r \in Relays, NEW hits \in SUBSET Hit
        PROVE  [r EXCEPT !.received = @ + 1, !.hits = @ \cup hits] \in Relays
    <3>1. r.received + 1 \in Nat /\ r.hits \cup hits \in SUBSET Hit
      BY <2>2 DEF Relays
    <3>. QED  BY <2>2, <3>1, Zenon DEF Relays
  <2>3. \A r \in Relays : [r EXCEPT !.waiting = FALSE] \in Relays
    BY Zenon DEF Relays
  <2>. QED  BY <1>1, <2>1, <2>2, <2>3 DEF Counted
<1>4. CASE RespCollect(e)
  <2>1. fwd' \in [Node -> [Sid -> Relays \cup {NoEntry}]]
    BY <1>1, <1>3, <1>4 DEF RespCollect, TypeOK
  <2>. QED  BY <1>2, <1>4, <2>1 DEF RespCollect, TypeOK, Channels, Places, CurrentSid
<1>5. CASE RespComplete(e)
  <2>1. entry \in Relays /\ [entry EXCEPT !.waiting = FALSE] \in Relays
    BY <1>3, <1>5 DEF RespComplete
  <2>2. fwd' \in [Node -> [Sid -> Relays \cup {NoEntry}]]
    BY <1>1, <1>5, <2>1 DEF RespComplete, TypeOK
  <2>3. entry.upstream \in End /\ entry.hits \in SUBSET Hit
    BY <2>1 DEF Relays
  <2>4. Response(resp.sid, entry.hits) \in Message
    BY <1>1, <2>3, MessageTypes
  <2>5. chan' \in Channels
    BY <1>1, <1>5, <2>3, <2>4, AnsweredQueues DEF RespComplete
  <2>. QED  BY <1>5, <2>2, <2>5 DEF RespComplete, TypeOK, Channels, Places, CurrentSid
<1>6. CASE RespInTime(e)
  <2>1. created[resp.sid] \in Searches
    BY <1>1, <1>6 DEF RespInTime, ForCreator, TypeOK
  <2>2. [created[resp.sid] EXCEPT
            !.status = IF resp.hits # {} THEN "SUCCESS" ELSE @,
            !.hits = @ \cup resp.hits] \in Searches
    BY <1>1, <2>1 DEF Searches
  <2>3. created' = [created EXCEPT ![resp.sid] = [created[resp.sid] EXCEPT
            !.status = IF resp.hits # {} THEN "SUCCESS" ELSE @,
            !.hits = @ \cup resp.hits]]
    BY <1>1, <1>6, <2>1 DEF RespInTime, TypeOK
  <2>4. created' \in [Sid -> Searches \cup {NoEntry}]
    BY <1>1, <2>2, <2>3 DEF TypeOK
  <2>5. \A s \in Sid : created[s] # NoEntry => created'[s] # NoEntry
    BY <1>1, <2>2, <2>3, NoEntryAssumption DEF TypeOK
  <2>6. Places'
    BY <1>6, <2>5 DEF RespInTime, TypeOK, Places, CurrentSid
  <2>. QED  BY <1>2, <1>6, <2>4, <2>6 DEF RespInTime, TypeOK, Channels
<1>7. CASE RespLate(e)
  BY <1>2, <1>7 DEF RespLate, TypeOK, Channels, Places, CurrentSid
<1>. QED  BY <1>4, <1>5, <1>6, <1>7

\* The variables keep their types, and the ids of the running searches stay inside
\* the bound.
THEOREM TypeCorrect == Spec => []TypeOK
<1>1. Init => TypeOK
  BY InitType
<1>2. TypeOK /\ [Next]_vars => TypeOK'
  <2>1. TypeOK /\ UNCHANGED vars => TypeOK'
    BY DEF vars, TypeOK, Places, CurrentSid
  <2>2. ASSUME TypeOK, NEW n \in Searchers, User(n) \/ Main(n) PROVE TypeOK'
    BY <2>2, SearchAssumption, UserType, MainType
  <2>3. ASSUME TypeOK, NEW e \in End, Listen(e) PROVE TypeOK'
    BY <2>3, RequestType, ResponseType DEF Listen
  <2>. QED  BY <2>1, <2>2, <2>3 DEF Next
<1>. QED  BY <1>1, <1>2, PTL DEF Spec

----------------------------------------------------------------------------
(* What the hits say is true.  HitsSound alone is not inductive: a response *)
(* is made from the word of the request and from the index, so the requests *)
(* must ask for the word of their search, a search id must not be used      *)
(* twice, and what an index offers must be indexed by its name too.         *)

OfferedBy(ix, hit, w) == ix[hit.peer][Name[hit.file]] = hit.file /\ Matches(w, hit.file)

HitsFor(hits, s, cr, ix) ==
    cr[s] # NoEntry /\ \A hit \in hits : OfferedBy(ix, hit, cr[s].word)

MsgSound(msg, cr, ix) ==
    /\ cr[msg.sid] # NoEntry
    /\ msg.type = "REQ" => msg.word = cr[msg.sid].word
    /\ msg.type = "RESP" => HitsFor(msg.hits, msg.sid, cr, ix)

MessagesSound == \A e \in End : \A i \in 1..Len(chan[e]) : MsgSound(chan[e][i], created, index)

RelaysSound == \A n \in Node, s \in Sid :
    fwd[n][s] # NoEntry => HitsFor(fwd[n][s].hits, s, created, index)

ListsSound == \A s \in Sid :
    created[s] # NoEntry => HitsFor(created[s].hits, s, created, index)

\* search_counter only names searches that are not in created_searches yet.
IdsInOrder == \A s \in Sid : created[s] # NoEntry =>
    s[2] <= counter[s[1]] /\ (pc[s[1]] = "attempt" => s[2] < counter[s[1]])

IndexSound == \A n \in Node, w \in Word, f \in File :
    index[n][w] = f => Matches(w, f) /\ index[n][Name[f]] = f

\* A node asks for what it has not got, and downloads when it has found something.
Asking == \A n \in Node :
    /\ pc[n] \in {"attempt", "sleep"} => index[n][word[n]] = NoFile
    /\ pc[n] = "sleep" => created[CurrentSid(n)].word = word[n]
    /\ pc[n] = "choose" => created[CurrentSid(n)].status = "SUCCESS"

SoundInv ==
    TypeOK /\ IdsInOrder /\ IndexSound /\ Asking /\ MessagesSound /\ RelaysSound /\ ListsSound

LEMMA SoundInvImpliesHitsSound == SoundInv => HitsSound
BY DEF SoundInv, TypeOK, MessagesSound, RelaysSound, ListsSound, MsgSound, HitsFor,
       OfferedBy, Offered, HitsSound, Indexes

\* Searches keep their words and nodes what they offer.
Grows(cr, ix, cr2, ix2) ==
    /\ \A s \in Sid : cr[s] # NoEntry => cr2[s] # NoEntry /\ cr2[s].word = cr[s].word
    /\ \A hit \in Hit, w \in Word : OfferedBy(ix, hit, w) => OfferedBy(ix2, hit, w)

LEMMA HitsGrow ==
    ASSUME NEW cr \in [Sid -> Searches \cup {NoEntry}], NEW ix, NEW cr2, NEW ix2,
           Grows(cr, ix, cr2, ix2), NEW s \in Sid, NEW hits \in SUBSET Hit,
           HitsFor(hits, s, cr, ix)
    PROVE  HitsFor(hits, s, cr2, ix2)
<1>1. cr[s].word \in Word
  BY DEF HitsFor, Searches
<1>. QED  BY <1>1 DEF HitsFor, Grows

LEMMA MsgGrows ==
    ASSUME NEW cr \in [Sid -> Searches \cup {NoEntry}], NEW ix, NEW cr2, NEW ix2,
           Grows(cr, ix, cr2, ix2), NEW msg \in Message, MsgSound(msg, cr, ix)
    PROVE  MsgSound(msg, cr2, ix2)
<1>1. msg.sid \in Sid /\ (msg.type = "RESP" => msg.hits \in SUBSET Hit)
  BY DEF Message
<1>2. cr2[msg.sid] # NoEntry /\ cr2[msg.sid].word = cr[msg.sid].word
  BY <1>1 DEF MsgSound, Grows
<1>3. msg.type = "RESP" => HitsFor(msg.hits, msg.sid, cr2, ix2)
  BY <1>1, HitsGrow DEF MsgSound
<1>. QED  BY <1>2, <1>3 DEF MsgSound

\* The messages after a step in which at most newMsg is sent.
LEMMA MessagesGrow ==
    ASSUME TypeOK, MessagesSound, Grows(created, index, created', index'),
           NEW newMsg, MsgSound(newMsg, created', index'),
           \A x \in End : \A i \in 1..Len(chan'[x]) :
               \/ chan'[x][i] = newMsg
               \/ \E j \in 1..Len(chan[x]) : chan'[x][i] = chan[x][j]
    PROVE  MessagesSound'
<1>. SUFFICES ASSUME NEW x \in End, NEW i \in 1..Len(chan'[x])
              PROVE  MsgSound(chan'[x][i], created', index')
  BY DEF MessagesSound
<1>1. CASE chan'[x][i] = newMsg
  BY <1>1
<1>2. ASSUME NEW j \in 1..Len(chan[x]), chan'[x][i] = chan[x][j]
      PROVE  MsgSound(chan'[x][i], created', index')
  <2>1. chan[x][j] \in Message /\ MsgSound(chan[x][j], created, index)
    BY DEF TypeOK, MessagesSound
  <2>. QED  BY <1>2, <2>1, MsgGrows DEF TypeOK
<1>. QED  BY <1>1, <1>2

LEMMA RelaysGrow ==
    ASSUME TypeOK, RelaysSound, Grows(created, index, created', index'), UNCHANGED fwd
    PROVE  RelaysSound'
<1>. SUFFICES ASSUME NEW n \in Node, NEW s \in Sid, fwd[n][s] # NoEntry
              PROVE  HitsFor(fwd[n][s].hits, s, created', index')
  BY DEF RelaysSound
<1>1. fwd[n][s].hits \in SUBSET Hit /\ HitsFor(fwd[n][s].hits, s, created, index)
  BY DEF TypeOK, RelaysSound, Relays
<1>2. created \in [Sid -> Searches \cup {NoEntry}]
  BY DEF TypeOK
<1>. QED  BY <1>1, <1>2, HitsGrow

LEMMA ListsGrow ==
    ASSUME TypeOK, ListsSound, Grows(created, index, created', index'),
           \A s \in Sid : \/ created'[s] = created[s]
                          \/ HitsFor(created'[s].hits, s, created', index')
    PROVE  ListsSound'
<1>1. ASSUME NEW s \in Sid, created'[s] # NoEntry
      PROVE  HitsFor(created'[s].hits, s, created', index')
  <2>1. CASE HitsFor(created'[s].hits, s, created', index')
    BY <2>1
  <2>2. CASE created'[s] = created[s]
    <3>1. created[s].hits \in SUBSET Hit /\ HitsFor(created[s].hits, s, created, index)
      BY <1>1, <2>2 DEF TypeOK, ListsSound, Searches
    <3>2. created \in [Sid -> Searches \cup {NoEntry}]
      BY DEF TypeOK
    <3>3. HitsFor(created[s].hits, s, created', index')
      BY <3>1, <3>2, HitsGrow
    <3>. QED  BY <2>2, <3>3
  <2>. QED  BY <2>1, <2>2
<1>. QED  BY <1>1 DEF ListsSound

\* A listener's step on a request: at most one new message, a new relay entry or
\* none, everything else as before.
LEMMA RequestSound ==
    ASSUME SoundInv, NEW e \in End,
           ReqProcessed(e) \/ ReqFound(e) \/ ReqForward(e) \/ ReqDeadEnd(e)
    PROVE  SoundInv'
<1>. DEFINE n == Owner[e]
            req == Head(chan[e])
<1>1. /\ chan[e] # <<>> /\ chan \in Channels /\ n \in Node /\ req.sid \in Sid
      /\ req \in Message /\ req.word \in Word /\ req.type = "REQ"
  BY ReadMessage DEF SoundInv, ReqProcessed, ReqFound, ReqForward, ReqDeadEnd, Fresh,
                     Receives, TypeOK, Channels
<1>2. MsgSound(req, created, index)
  BY <1>1, ConsumedQueues DEF SoundInv, MessagesSound
<1>3. UNCHANGED <<counter, pc, word, try, created, index>>
  BY DEF ReqProcessed, ReqFound, ReqForward, ReqDeadEnd
<1>4. Grows(created, index, created', index')
  BY <1>3 DEF Grows
<1>5. TypeOK' /\ IdsInOrder' /\ IndexSound' /\ Asking' /\ ListsSound'
  BY <1>3, RequestType DEF SoundInv, IdsInOrder, IndexSound, Asking, CurrentSid, ListsSound
<1>6. RelaysSound'
  <2>1. CASE ReqProcessed(e)
    BY <1>3, <2>1 DEF ReqProcessed, SoundInv, RelaysSound
  <2>2. ASSUME NEW b \in BOOLEAN, fwd' = [fwd EXCEPT ![n][req.sid] = Relay(e, b)]
        PROVE  RelaysSound'
    <3>1. HitsFor(Relay(e, b).hits, req.sid, created, index)
      BY <1>1, <1>2 DEF Relay, HitsFor, MsgSound
    <3>2. ASSUME NEW m \in Node, NEW s \in Sid, ~(m = n /\ s = req.sid)
          PROVE  fwd'[m][s] = fwd[m][s]
      BY <1>1, <2>2, <3>2 DEF SoundInv, TypeOK
    <3>3. fwd'[n][req.sid] = Relay(e, b)
      BY <1>1, <2>2 DEF SoundInv, TypeOK
    <3>. QED  BY <1>3, <3>1, <3>2, <3>3 DEF SoundInv, RelaysSound
  <2>. QED  BY <2>1, <2>2 DEF ReqFound, ReqForward, ReqDeadEnd
<1>7. MessagesSound'
  <2>1. ASSUME NEW E \in SUBSET End, NEW msg \in Message, MsgSound(msg, created, index),
               chan' = SendOn(Consumed(e), E, msg)
        PROVE  MessagesSound'
    <3>1. \A x \in End : \A i \in 1..Len(chan'[x]) :
               \/ chan'[x][i] = msg
               \/ \E j \in 1..Len(chan[x]) : chan'[x][i] = chan[x][j]
      BY <1>1, <2>1, AnsweredQueues
    <3>2. MsgSound(msg, created', index')
      BY <1>3, <2>1
    <3>. QED  BY <1>4, <3>1, <3>2, MessagesGrow DEF SoundInv
  <2>2. ASSUME NEW hits \in SUBSET Hit, HitsFor(hits, req.sid, created, index)
        PROVE  /\ Response(req.sid, hits) \in Message
               /\ MsgSound(Response(req.sid, hits), created, index)
    BY <1>1, <2>2, MessageTypes DEF Response, MsgSound, HitsFor
  <2>3. HitsFor({}, req.sid, created, index)
    BY <1>2 DEF HitsFor, MsgSound
  <2>4. CASE ReqProcessed(e)
    BY <2>1, <2>2, <2>3, <2>4 DEF ReqProcessed
  <2>5. CASE ReqDeadEnd(e)
    BY <2>1, <2>2, <2>3, <2>5 DEF ReqDeadEnd
  <2>6. CASE ReqFound(e)
    <3>. DEFINE hit == OwnHit(e, req.word)
    <3>1. hit \in Hit /\ hit.peer = n /\ hit.file = index[n][req.word]
      BY <1>1, <2>6 DEF ReqFound, OwnHit, Hit, Holds, SoundInv, TypeOK
    <3>2. hit.file \in File
      BY <3>1 DEF Hit
    <3>3. OfferedBy(index, hit, req.word)
      BY <1>1, <3>1, <3>2 DEF SoundInv, IndexSound, OfferedBy
    <3>4. HitsFor({hit}, req.sid, created, index)
      BY <1>1, <1>2, <3>3 DEF HitsFor, MsgSound
    <3>5. chan' = SendOn(Consumed(e), {e}, Response(req.sid, {hit}))
      BY <2>6 DEF ReqFound
    <3>. QED  BY <2>1, <2>2, <3>1, <3>4, <3>5
  <2>7. CASE ReqForward(e)
    <3>. DEFINE msg == Request(req.sid, HopsLeft(req), req.word)
    <3>1. HopsLeft(req) \in Nat \ {0}
      BY <1>1, <2>7, ReadMessage DEF ReqForward, LastHop, HopsLeft, SoundInv
    <3>2. msg \in Message
      BY <1>1, <3>1, MessageTypes
    <3>3. MsgSound(msg, created, index)
      BY <1>1, <1>2 DEF MsgSound, Request
    <3>4. ForwardTo(e) \in SUBSET End /\ chan' = SendOn(Consumed(e), ForwardTo(e), msg)
      BY <2>7 DEF ReqForward, ForwardTo, ConnectedPeers
    <3>. QED  BY <2>1, <3>2, <3>3, <3>4
  <2>. QED  BY <2>4, <2>5, <2>6, <2>7
<1>. QED  BY <1>5, <1>6, <1>7 DEF SoundInv

\* A listener's step on a response.
LEMMA ResponseSound ==
    ASSUME SoundInv, NEW e \in End,
           RespCollect(e) \/ RespComplete(e) \/ RespInTime(e) \/ RespLate(e)
    PROVE  SoundInv'
<1>. DEFINE n == Owner[e]
            resp == Head(chan[e])
            entry == Counted(fwd[n][resp.sid], resp)
<1>1. /\ chan[e] # <<>> /\ chan \in Channels /\ n \in Node /\ resp.sid \in Sid
      /\ resp \in Message /\ resp.hits \in SUBSET Hit /\ resp.type = "RESP"
  BY ReadMessage DEF SoundInv, RespCollect, RespComplete, RespInTime, RespLate, ForRelay,
                     ForCreator, Receives, TypeOK, Channels
<1>2. MsgSound(resp, created, index)
  BY <1>1, ConsumedQueues DEF SoundInv, MessagesSound
<1>3. HitsFor(resp.hits, resp.sid, created, index)
  BY <1>1, <1>2 DEF MsgSound
<1>4. UNCHANGED <<counter, pc, word, try, index>> /\ TypeOK' /\ IndexSound'
  <2>1. UNCHANGED <<counter, pc, word, try, index>>
    BY DEF RespCollect, RespComplete, RespInTime, RespLate
  <2>. QED  BY <2>1, ResponseType DEF SoundInv, IndexSound
<1>5. \A x \in End : \A i \in 1..Len(Consumed(e)[x]) :
          \E j \in 1..Len(chan[x]) : Consumed(e)[x][i] = chan[x][j]
  BY <1>1, ConsumedQueues
<1>6. ASSUME ForRelay(e)
      PROVE  /\ entry \in Relays /\ entry.upstream \in End
             /\ entry.hits \in SUBSET Hit
             /\ HitsFor(entry.hits, resp.sid, created, index)
             /\ [entry EXCEPT !.waiting = FALSE].hits = entry.hits
  <2>1. fwd[n][resp.sid] \in Relays /\ fwd[n][resp.sid] # NoEntry
    BY <1>1, <1>6 DEF SoundInv, ForRelay, TypeOK
  <2>2. HitsFor(fwd[n][resp.sid].hits, resp.sid, created, index)
    BY <1>1, <2>1 DEF SoundInv, RelaysSound
  <2>3. entry \in [received : Nat, needed : Nat, upstream : End, hits : SUBSET Hit,
                   waiting : BOOLEAN]
    <3>1. fwd[n][resp.sid].received + 1 \in Nat
      BY <2>1 DEF Relays
    <3>2. fwd[n][resp.sid].hits \cup resp.hits \in SUBSET Hit
      BY <1>1, <2>1 DEF Relays
    <3>. QED  BY <2>1, <3>1, <3>2, Zenon DEF Counted, Relays
  <2>4. entry.hits = fwd[n][resp.sid].hits \cup resp.hits
    BY <2>1 DEF Counted, Relays
  <2>5. [entry EXCEPT !.waiting = FALSE].hits = entry.hits
    BY <2>3
  <2>. QED  BY <1>3, <2>2, <2>3, <2>4, <2>5 DEF HitsFor, Relays
<1>7. ASSUME UNCHANGED created
      PROVE  /\ Grows(created, index, created', index')
             /\ IdsInOrder' /\ Asking' /\ ListsSound'
  BY <1>4, <1>7 DEF SoundInv, Grows, IdsInOrder, Asking, CurrentSid, ListsSound
<1>8. ASSUME UNCHANGED created, ForRelay(e), NEW ent, ent.hits = entry.hits,
             fwd' = [fwd EXCEPT ![n][resp.sid] = ent]
      PROVE  RelaysSound'
  <2>1. fwd'[n][resp.sid] = ent
    BY <1>1, <1>8 DEF SoundInv, TypeOK
  <2>2. ASSUME NEW m \in Node, NEW s \in Sid, ~(m = n /\ s = resp.sid)
        PROVE  fwd'[m][s] = fwd[m][s]
    BY <1>1, <1>8, <2>2 DEF SoundInv, TypeOK
  <2>3. HitsFor(ent.hits, resp.sid, created, index)
    BY <1>6, <1>8
  <2>. QED  BY <1>4, <1>8, <2>1, <2>2, <2>3 DEF SoundInv, RelaysSound
<1>9. ASSUME Grows(created, index, created', index'),
             NEW msg, MsgSound(msg, created', index'),
             \A x \in End : \A i \in 1..Len(chan'[x]) :
                 \/ chan'[x][i] = msg
                 \/ \E j \in 1..Len(chan[x]) : chan'[x][i] = chan[x][j]
      PROVE  MessagesSound'
  <2>1. TypeOK /\ MessagesSound /\ Grows(created, index, created', index')
    BY <1>9 DEF SoundInv
  <2>. HIDE DEF n, resp, entry
  <2>. QED  BY <1>9, <2>1, MessagesGrow
<1>10. ASSUME chan' = Consumed(e), Grows(created, index, created', index')
       PROVE  MessagesSound'
  <2>1. MsgSound(resp, created', index')
    BY <1>1, <1>2, <1>10, MsgGrows DEF SoundInv, TypeOK
  <2>2. \A x \in End : \A i \in 1..Len(chan'[x]) :
            \/ chan'[x][i] = resp
            \/ \E j \in 1..Len(chan[x]) : chan'[x][i] = chan[x][j]
    BY <1>5, <1>10
  <2>3. Grows(created, index, created', index')
    BY <1>10
  <2>. HIDE DEF n, resp, entry
  <2>. QED  BY <1>9, <2>1, <2>2, <2>3
<1>11. CASE RespCollect(e)
  <2>1. UNCHANGED created /\ ForRelay(e) /\ chan' = Consumed(e)
        /\ fwd' = [fwd EXCEPT ![n][resp.sid] = entry]
    BY <1>11 DEF RespCollect
  <2>2. RelaysSound'
    BY <1>8, <2>1
  <2>. QED  BY <1>4, <1>7, <1>10, <2>1, <2>2 DEF SoundInv
<1>12. CASE RespComplete(e)
  <2>. DEFINE msg == Response(resp.sid, entry.hits)
  <2>1. UNCHANGED created /\ ForRelay(e)
        /\ fwd' = [fwd EXCEPT ![n][resp.sid] = [entry EXCEPT !.waiting = FALSE]]
        /\ chan' = SendOn(Consumed(e), {entry.upstream}, msg)
    BY <1>12 DEF RespComplete
  <2>2. RelaysSound'
    BY <1>6, <1>8, <2>1
  <2>3. entry.upstream \in End /\ msg \in Message /\ MsgSound(msg, created, index)
    BY <1>1, <1>6, <2>1, MessageTypes DEF Response, MsgSound, HitsFor
  <2>4. \A x \in End : \A i \in 1..Len(chan'[x]) :
            \/ chan'[x][i] = msg
            \/ \E j \in 1..Len(chan[x]) : chan'[x][i] = chan[x][j]
    <3>1. {entry.upstream} \in SUBSET End
      BY <2>3
    <3>. HIDE DEF msg
    <3>. QED  BY <1>1, <2>1, <2>3, <3>1, AnsweredQueues
  <2>5. MsgSound(msg, created', index')
    BY <1>4, <2>1, <2>3
  <2>6. MessagesSound'
    <3>1. TypeOK /\ MessagesSound /\ Grows(created, index, created', index')
      BY <1>7, <2>1 DEF SoundInv
    <3>. HIDE DEF msg
    <3>. QED  BY <2>4, <2>5, <3>1, MessagesGrow
  <2>. QED  BY <1>4, <1>7, <2>1, <2>2, <2>6 DEF SoundInv
<1>13. CASE RespInTime(e)
  <2>. DEFINE old == created[resp.sid]
              new == [old EXCEPT !.status = IF resp.hits # {} THEN "SUCCESS" ELSE @,
                                 !.hits = @ \cup resp.hits]
  <2>1. old \in Searches /\ old # NoEntry
    BY <1>1, <1>13 DEF SoundInv, RespInTime, ForCreator, TypeOK
  <2>2. /\ created' = [created EXCEPT ![resp.sid] = new]
        /\ UNCHANGED fwd /\ chan' = Consumed(e)
    BY <1>1, <1>13, <2>1 DEF RespInTime, SoundInv, TypeOK
  <2>3. /\ new.word = old.word /\ new.hits = old.hits \cup resp.hits
        /\ new.status \in {old.status, "SUCCESS"} /\ new \in Searches /\ new # NoEntry
    BY <1>1, <2>1, NoEntryAssumption DEF Searches
  <2>4. created'[resp.sid] = new /\ \A s \in Sid : s # resp.sid => created'[s] = created[s]
    BY <1>1, <2>2 DEF SoundInv, TypeOK
  <2>5. Grows(created, index, created', index')
    BY <1>4, <2>3, <2>4 DEF Grows
  <2>6. MessagesSound'
    BY <1>10, <2>2, <2>5
  <2>7. RelaysSound'
    BY <2>2, <2>5, RelaysGrow DEF SoundInv
  <2>8. HitsFor(new.hits, resp.sid, created', index')
    BY <1>1, <1>3, <1>4, <2>1, <2>3, <2>4 DEF SoundInv, ListsSound, HitsFor
  <2>9. ListsSound'
    BY <2>4, <2>5, <2>8, ListsGrow DEF SoundInv
  <2>10. IdsInOrder'
    BY <1>4, <2>1, <2>4 DEF SoundInv, IdsInOrder
  <2>11. Asking'
    <3>1. ASSUME NEW m \in Node, pc[m] \in {"sleep", "choose"}
          PROVE  /\ CurrentSid(m)' = CurrentSid(m) /\ CurrentSid(m) \in Sid
                 /\ created'[CurrentSid(m)].word = created[CurrentSid(m)].word
                 /\ created[CurrentSid(m)].status = "SUCCESS" =>
                        created'[CurrentSid(m)].status = "SUCCESS"
      BY <1>4, <2>3, <2>4, <3>1 DEF SoundInv, CurrentSid, TypeOK, Places
    <3>. QED  BY <1>4, <3>1 DEF SoundInv, Asking
  <2>. QED  BY <1>4, <2>6, <2>7, <2>9, <2>10, <2>11 DEF SoundInv
<1>14. CASE RespLate(e)
  <2>1. UNCHANGED <<created, fwd>> /\ chan' = Consumed(e)
    BY <1>14 DEF RespLate
  <2>2. RelaysSound'
    BY <1>4, <2>1 DEF SoundInv, RelaysSound
  <2>. QED  BY <1>4, <1>7, <1>10, <2>1, <2>2 DEF SoundInv
<1>. QED  BY <1>11, <1>12, <1>13, <1>14

\* A step of the main thread without the user.
LEMMA MainSound == ASSUME SoundInv, NEW n \in Node, Main(n) PROVE SoundInv'
<1>1. TypeOK /\ TypeOK' /\ UNCHANGED <<fwd, index>>
  <2>1. UNCHANGED <<fwd, index>>
    BY DEF Main, Attempt, WakeSuccess, WakeFailed
  <2>. QED  BY <2>1, MainType DEF SoundInv
<1>2. IndexSound'
  BY <1>1 DEF SoundInv, IndexSound
<1>3. CASE Attempt(n)
  <2>. DEFINE sid == CurrentSid(n)
              new == ActiveSearch(word[n], Hops[try[n]])
              msg == Request(sid, Hops[try[n]], word[n])
  <2>1. /\ sid \in Sid /\ sid = <<n, counter[n]>> /\ word[n] \in Word
        /\ Hops[try[n]] \in Nat \ {0} /\ index[n][word[n]] = NoFile
    BY <1>3, SearchAssumption
       DEF Attempt, SoundInv, TypeOK, Places, CurrentSid, Sid, Attempts, Asking
  <2>2. created[sid] = NoEntry
    BY <1>3, <2>1 DEF SoundInv, IdsInOrder, Attempt, TypeOK
  <2>3. new \in Searches /\ new # NoEntry /\ new.hits = {} /\ new.word = word[n]
    BY <2>1, NoEntryAssumption DEF ActiveSearch, Searches
  <2>4. created'[sid] = new /\ \A s \in Sid : s # sid => created'[s] = created[s]
    BY <1>1, <1>3, <2>1 DEF Attempt, TypeOK
  <2>5. Grows(created, index, created', index')
    BY <1>1, <2>2, <2>4 DEF Grows
  <2>6. msg \in Message /\ ConnectedPeers(n) \in SUBSET End
    BY <2>1, MessageTypes DEF ConnectedPeers
  <2>7. MsgSound(msg, created', index')
    BY <2>1, <2>3, <2>4 DEF MsgSound, Request
  <2>8. MessagesSound'
    <3>1. chan \in Channels /\ chan' = SendOn(chan, ConnectedPeers(n), msg)
      BY <1>1, <1>3 DEF Attempt, TypeOK, Channels
    <3>. HIDE DEF msg
    <3>2. \A x \in End : \A i \in 1..Len(chan'[x]) :
              \/ chan'[x][i] = msg
              \/ \E j \in 1..Len(chan[x]) : chan'[x][i] = chan[x][j]
      BY <2>6, <3>1, SendOnQueues
    <3>. QED  BY <1>1, <2>5, <2>7, <3>2, MessagesGrow DEF SoundInv
  <2>9. RelaysSound'
    BY <1>1, <2>5, RelaysGrow DEF SoundInv
  <2>10. ListsSound'
    <3>1. HitsFor(created'[sid].hits, sid, created', index')
      BY <2>3, <2>4 DEF HitsFor
    <3>. QED  BY <1>1, <2>4, <2>5, <3>1, ListsGrow DEF SoundInv
  <2>11. IdsInOrder'
    <3>1. UNCHANGED counter /\ pc' = [pc EXCEPT ![n] = "sleep"]
      BY <1>3 DEF Attempt
    <3>2. counter[n] <= counter[n] /\ pc'[n] # "attempt"
      BY <1>1, <3>1 DEF TypeOK
    <3>3. \A m \in Node : m # n => pc'[m] = pc[m]
      BY <1>1, <3>1 DEF TypeOK
    <3>4. \A s \in Sid : s[1] \in Node
      BY DEF Sid
    <3>. QED  BY <2>1, <2>4, <3>1, <3>2, <3>3, <3>4 DEF SoundInv, IdsInOrder
  <2>12. Asking'
    <3>1. UNCHANGED <<counter, word>> /\ pc' = [pc EXCEPT ![n] = "sleep"]
      BY <1>3 DEF Attempt
    <3>2. pc'[n] = "sleep" /\ \A m \in Node : m # n => pc'[m] = pc[m]
      BY <1>1, <3>1 DEF TypeOK
    <3>3. CurrentSid(n)' = sid /\ created'[sid].word = word[n]
      BY <2>3, <2>4, <3>1 DEF CurrentSid
    <3>4. ASSUME NEW m \in Node, m # n
          PROVE  CurrentSid(m)' = CurrentSid(m) /\ CurrentSid(m) # sid
      BY <2>1, <3>1, <3>4 DEF CurrentSid
    <3>5. ASSUME NEW m \in Node, m # n, pc[m] \in {"sleep", "choose"}
          PROVE  created'[CurrentSid(m)'] = created[CurrentSid(m)]
      BY <1>1, <2>4, <3>4, <3>5 DEF TypeOK, Places
    <3>. QED  BY <1>1, <2>1, <3>1, <3>2, <3>3, <3>4, <3>5 DEF SoundInv, Asking
  <2>. QED  BY <1>1, <1>2, <2>8, <2>9, <2>10, <2>11, <2>12 DEF SoundInv
<1>4. CASE WakeSuccess(n)
  <2>1. UNCHANGED <<counter, word, created, chan>> /\ pc' = [pc EXCEPT ![n] = "choose"]
        /\ created[CurrentSid(n)].status = "SUCCESS" /\ pc[n] = "sleep"
    BY <1>4 DEF WakeSuccess
  <2>2. MessagesSound' /\ RelaysSound' /\ ListsSound'
    BY <1>1, <2>1 DEF SoundInv, MessagesSound, RelaysSound, ListsSound
  <2>3. \A m \in Node : pc'[m] = IF m = n THEN "choose" ELSE pc[m]
    BY <1>1, <2>1 DEF TypeOK
  <2>4. IdsInOrder'
    BY <2>1, <2>3 DEF SoundInv, IdsInOrder, Sid
  <2>5. Asking'
    BY <1>1, <2>1, <2>3 DEF SoundInv, Asking, CurrentSid
  <2>. QED  BY <1>1, <1>2, <2>2, <2>4, <2>5 DEF SoundInv
<1>5. CASE WakeFailed(n)
  <2>. DEFINE sid == CurrentSid(n)
              old == created[sid]
              new == [old EXCEPT !.status = "FAILED"]
  <2>1. /\ sid \in Sid /\ sid = <<n, counter[n]>> /\ old \in Searches
        /\ UNCHANGED <<word, chan>>
    BY <1>1, <1>5 DEF WakeFailed, TypeOK, Places, CurrentSid
  <2>2. /\ new \in Searches /\ new # NoEntry /\ new.word = old.word
        /\ new.hits = old.hits
    BY <2>1, NoEntryAssumption DEF Searches
  <2>3. created' = [created EXCEPT ![sid] = new]
    BY <1>1, <1>5, <2>1 DEF WakeFailed, TimedOut, TypeOK
  <2>4. created'[sid] = new /\ \A s \in Sid : s # sid => created'[s] = created[s]
    BY <1>1, <2>1, <2>3 DEF TypeOK
  <2>5. Grows(created, index, created', index')
    BY <1>1, <2>2, <2>4 DEF Grows
  <2>6. MessagesSound'
    <3>1. chan \in Channels
      BY <1>1 DEF TypeOK, Channels
    <3>2. ASSUME NEW x \in End, NEW i \in 1..Len(chan[x])
          PROVE  MsgSound(chan[x][i], created', index')
      <4>1. chan[x][i] \in Message /\ MsgSound(chan[x][i], created, index)
        BY <3>1 DEF SoundInv, MessagesSound, Channels
      <4>2. created \in [Sid -> Searches \cup {NoEntry}]
        BY <1>1 DEF TypeOK
      <4>. QED  BY <2>5, <4>1, <4>2, MsgGrows
    <3>. QED  BY <2>1, <3>2 DEF MessagesSound
  <2>7. RelaysSound'
    BY <1>1, <2>5, RelaysGrow DEF SoundInv
  <2>8. ListsSound'
    <3>1. HitsFor(new.hits, sid, created', index')
      <4>1. HitsFor(old.hits, sid, created, index) /\ old.hits \in SUBSET Hit
        BY <1>5, <2>1, NoEntryAssumption DEF SoundInv, ListsSound, Searches
      <4>2. created \in [Sid -> Searches \cup {NoEntry}]
        BY <1>1 DEF TypeOK
      <4>. QED  BY <2>1, <2>2, <2>5, <4>1, <4>2, HitsGrow
    <3>. QED  BY <1>1, <2>4, <2>5, <3>1, ListsGrow DEF SoundInv
  <2>9. /\ counter' = [counter EXCEPT ![n] = @ + 1]
        /\ pc'[n] \in {"attempt", "idle"} /\ \A m \in Node : m # n => pc'[m] = pc[m]
    BY <1>1, <1>5 DEF WakeFailed, TypeOK
  <2>10. /\ counter'[n] = counter[n] + 1 /\ counter[n] \in Nat
         /\ \A m \in Node : m # n => counter'[m] = counter[m]
    BY <1>1, <2>9 DEF TypeOK
  <2>11. IdsInOrder'
    <3>. SUFFICES ASSUME NEW s \in Sid, created'[s] # NoEntry
                  PROVE  /\ s[2] <= counter'[s[1]]
                         /\ pc'[s[1]] = "attempt" => s[2] < counter'[s[1]]
      BY DEF IdsInOrder
    <3>1. s[1] \in Node /\ s[2] \in Nat /\ s[2] <= counter[s[1]]
          /\ (pc[s[1]] = "attempt" => s[2] < counter[s[1]])
      BY <2>1, <2>4, NoEntryAssumption DEF SoundInv, IdsInOrder, Sid
    <3>2. CASE s[1] = n
      BY <2>10, <3>1, <3>2
    <3>3. CASE s[1] # n
      BY <2>9, <2>10, <3>1, <3>3
    <3>. QED  BY <3>2, <3>3
  <2>12. Asking'
    <3>1. pc[n] = "sleep" /\ index[n][word[n]] = NoFile
      BY <1>5 DEF WakeFailed, SoundInv, Asking
    <3>2. ASSUME NEW m \in Node, m # n, pc[m] \in {"sleep", "choose"}
          PROVE  CurrentSid(m)' = CurrentSid(m)
                 /\ created'[CurrentSid(m)] = created[CurrentSid(m)]
      <4>1. CurrentSid(m)' = CurrentSid(m) /\ CurrentSid(m) # sid /\ CurrentSid(m) \in Sid
        BY <1>1, <2>1, <2>10, <3>2 DEF CurrentSid, TypeOK, Places
      <4>. QED  BY <2>4, <4>1
    <3>. QED  BY <1>1, <2>1, <2>9, <3>1, <3>2 DEF SoundInv, Asking
  <2>. QED  BY <1>1, <1>2, <2>6, <2>7, <2>8, <2>11, <2>12 DEF SoundInv
<1>. QED  BY <1>3, <1>4, <1>5 DEF Main

\* A download adds to an index and overwrites no file's own name.
LEMMA LearnSound ==
    ASSUME SoundInv, NEW n \in Node, NEW f \in File, NEW K \in {{}, Keywords[f]},
           Learn(n, f, K)
    PROVE  IndexSound' /\ Grows(created, index, created, index')
<1>1. /\ index \in [Node -> [Word -> File \cup {NoFile}]]
      /\ \A m \in Node, w \in Word :
            index'[m][w] = IF m = n /\ (w = Name[f] \/ w \in K) THEN f ELSE index[m][w]
  BY DEF SoundInv, TypeOK, Learn
<1>2. K \in SUBSET Keywords[f] /\ Name[f] \in Word
  BY IndexAssumption
<1>3. ASSUME NEW m \in Node, NEW g \in File, index[m][Name[g]] = g
      PROVE  index'[m][Name[g]] = g
  BY <1>1, <1>2, <1>3, IndexAssumption
<1>4. IndexSound'
  <2>. SUFFICES ASSUME NEW m \in Node, NEW w \in Word, NEW g \in File, index'[m][w] = g
                PROVE  Matches(w, g) /\ index'[m][Name[g]] = g
    BY DEF IndexSound
  <2>1. CASE m = n /\ (w = Name[f] \/ w \in K)
    BY <1>1, <1>2, <2>1 DEF Matches
  <2>2. CASE ~(m = n /\ (w = Name[f] \/ w \in K))
    BY <1>1, <1>3, <2>2 DEF SoundInv, IndexSound
  <2>. QED  BY <2>1, <2>2
<1>5. Grows(created, index, created, index')
  BY <1>3 DEF Grows, OfferedBy, Hit
<1>. QED  BY <1>4, <1>5

\* A command or a choice of the user.
LEMMA UserSound == ASSUME SoundInv, NEW n \in Node, User(n) PROVE SoundInv'
<1>1. TypeOK /\ TypeOK' /\ UNCHANGED <<created, fwd, chan>>
  <2>1. UNCHANGED <<created, fwd, chan>>
    BY DEF User, SearchUnasked, SearchStart, Choose
  <2>. QED  BY <2>1, UserType DEF SoundInv
<1>2. ASSUME Grows(created, index, created', index')
      PROVE  MessagesSound' /\ RelaysSound' /\ ListsSound'
  <2>1. MessagesSound'
    <3>. SUFFICES ASSUME NEW x \in End, NEW i \in 1..Len(chan[x])
                  PROVE  MsgSound(chan[x][i], created', index')
      BY <1>1 DEF MessagesSound
    <3>1. chan[x][i] \in Message /\ MsgSound(chan[x][i], created, index)
      BY <1>1 DEF SoundInv, MessagesSound, TypeOK
    <3>2. created \in [Sid -> Searches \cup {NoEntry}]
      BY <1>1 DEF TypeOK
    <3>. QED  BY <1>2, <3>1, <3>2, MsgGrows
  <2>2. RelaysSound'
    BY <1>1, <1>2, RelaysGrow DEF SoundInv
  <2>3. ListsSound'
    BY <1>1, <1>2, ListsGrow DEF SoundInv
  <2>. QED  BY <2>1, <2>2, <2>3
<1>3. ASSUME UNCHANGED index
      PROVE  IndexSound' /\ Grows(created, index, created', index')
  BY <1>1, <1>3 DEF SoundInv, IndexSound, Grows
<1>4. CASE \E w \in Word : SearchUnasked(n, w)
  <2>1. /\ UNCHANGED <<pc, word, index>> /\ pc[n] = "idle"
        /\ counter' = [counter EXCEPT ![n] = @ + 1]
    BY <1>4 DEF SearchUnasked
  <2>2. \A m \in Node : counter'[m] = (IF m = n THEN counter[m] + 1 ELSE counter[m])
                            /\ counter[m] \in Nat
    BY <1>1, <2>1 DEF TypeOK
  <2>3. IdsInOrder'
    BY <1>1, <2>1, <2>2 DEF SoundInv, IdsInOrder, Sid
  <2>4. Asking'
    BY <1>1, <2>1, <2>2 DEF SoundInv, Asking, CurrentSid
  <2>. QED  BY <1>1, <1>2, <1>3, <2>1, <2>3, <2>4 DEF SoundInv
<1>5. ASSUME NEW w \in Word, SearchStart(n, w) PROVE SoundInv'
  <2>1. /\ UNCHANGED index /\ pc[n] = "idle" /\ index[n][w] = NoFile
        /\ counter' = [counter EXCEPT ![n] = @ + 1]
        /\ pc' = [pc EXCEPT ![n] = "attempt"] /\ word' = [word EXCEPT ![n] = w]
    BY <1>5 DEF SearchStart, Holds
  <2>2. /\ counter'[n] = counter[n] + 1 /\ pc'[n] = "attempt" /\ word'[n] = w
        /\ \A m \in Node : counter[m] \in Nat
        /\ \A m \in Node : m # n =>
              counter'[m] = counter[m] /\ pc'[m] = pc[m] /\ word'[m] = word[m]
    BY <1>1, <2>1 DEF TypeOK
  <2>3. IdsInOrder'
    <3>. SUFFICES ASSUME NEW s \in Sid, created[s] # NoEntry
                  PROVE  /\ s[2] <= counter'[s[1]]
                         /\ pc'[s[1]] = "attempt" => s[2] < counter'[s[1]]
      BY <1>1 DEF IdsInOrder
    <3>1. s[1] \in Node /\ s[2] \in Nat /\ s[2] <= counter[s[1]]
          /\ (pc[s[1]] = "attempt" => s[2] < counter[s[1]])
      BY DEF SoundInv, IdsInOrder, Sid
    <3>. QED  BY <2>2, <3>1
  <2>4. Asking'
    BY <1>1, <2>1, <2>2 DEF SoundInv, Asking, CurrentSid
  <2>. QED  BY <1>1, <1>2, <1>3, <2>1, <2>3, <2>4 DEF SoundInv
<1>6. CASE Choose(n)
  <2>1. UNCHANGED <<counter, word>> /\ pc[n] = "choose" /\ pc' = [pc EXCEPT ![n] = "idle"]
    BY <1>6 DEF Choose
  <2>2. /\ IndexSound' /\ Grows(created, index, created', index')
        /\ \A m \in Node : m # n => index'[m] = index[m]
    <3>1. CASE UNCHANGED index
      BY <1>3, <3>1
    <3>2. ASSUME NEW hit \in created[CurrentSid(n)].hits, NEW K \in {{}, Keywords[hit.file]},
                 Learn(n, hit.file, K)
          PROVE  /\ IndexSound' /\ Grows(created, index, created', index')
                 /\ \A m \in Node : m # n => index'[m] = index[m]
      <4>1. created[CurrentSid(n)] \in Searches
        BY <1>1, <2>1 DEF TypeOK, Places
      <4>2. hit.file \in File
        BY <4>1 DEF Searches, Hit
      <4>3. IndexSound' /\ Grows(created, index, created', index')
        BY <1>1, <3>2, <4>2, LearnSound
      <4>4. \A m \in Node : m # n => index'[m] = index[m]
        BY <1>1, <3>2 DEF Learn, TypeOK
      <4>. QED  BY <4>3, <4>4
    <3>. QED  BY <1>6, <3>1, <3>2 DEF Choose
  <2>3. \A m \in Node : pc'[m] = IF m = n THEN "idle" ELSE pc[m]
    BY <1>1, <2>1 DEF TypeOK
  <2>4. IdsInOrder'
    BY <1>1, <2>1, <2>3 DEF SoundInv, IdsInOrder, Sid
  <2>5. Asking'
    BY <1>1, <2>1, <2>2, <2>3 DEF SoundInv, Asking, CurrentSid
  <2>. QED  BY <1>1, <1>2, <2>2, <2>4, <2>5 DEF SoundInv
<1>. QED  BY <1>4, <1>5, <1>6 DEF User

LEMMA SoundInvHolds == Spec => []SoundInv
<1>1. Init => SoundInv
  <2>. SUFFICES ASSUME Init PROVE SoundInv
    OBVIOUS
  <2>1. TypeOK
    BY InitType
  <2>2. /\ \A s \in Sid : created[s] = NoEntry
        /\ \A n \in Node, s \in Sid : fwd[n][s] = NoEntry
        /\ \A e \in End : chan[e] = <<>>
        /\ \A n \in Node : pc[n] = "idle"
    BY DEF Init
  <2>3. IndexSound
    BY Index0Assumption DEF Init, IndexSound, Matches
  <2>4. MessagesSound /\ RelaysSound /\ ListsSound /\ IdsInOrder /\ Asking
    BY <2>2 DEF MessagesSound, RelaysSound, ListsSound, IdsInOrder, Asking
  <2>. QED  BY <2>1, <2>3, <2>4 DEF SoundInv
<1>2. SoundInv /\ [Next]_vars => SoundInv'
  <2>1. ASSUME SoundInv, UNCHANGED vars PROVE SoundInv'
    BY <2>1 DEF vars, SoundInv, TypeOK, Places, CurrentSid, IdsInOrder, IndexSound, Asking,
                MessagesSound, RelaysSound, ListsSound
  <2>2. ASSUME SoundInv, NEW n \in Searchers, User(n) \/ Main(n) PROVE SoundInv'
    BY <2>2, SearchAssumption, UserSound, MainSound
  <2>3. ASSUME SoundInv, NEW e \in End, Listen(e) PROVE SoundInv'
    BY <2>3, RequestSound, ResponseSound DEF Listen
  <2>. QED  BY <2>1, <2>2, <2>3 DEF Next
<1>. QED  BY <1>1, <1>2, PTL DEF Spec

\* Whatever the overlay and the interleaving, every hit that a response carries, a
\* relay has collected or the user is shown names a peer that has that file.
THEOREM HitsAreSound == Spec => []HitsSound
BY SoundInvHolds, SoundInvImpliesHitsSound, PTL

----------------------------------------------------------------------------
(* SimpleSearch implements SearchService: with the overlay, the messages    *)
(* and the relays out of sight, each step is one the service allows, or     *)
(* changes nothing the user sees.  The mapping is the identity on created   *)
(* and index; the step simulation rests on the invariant SoundInv.          *)

LEMMA InitRefines == Init => Service!Init
BY DEF Init, Service!Init, Service!Sid, Sid

\* The steps that leave created_searches and the indexes alone.
LEMMA InnerStepRefines ==
    ASSUME UNCHANGED <<created, index>>
    PROVE  [Service!Next]_<<created, index>>
OBVIOUS

LEMMA AttemptRefines ==
    ASSUME SoundInv, NEW n \in Node, Attempt(n) PROVE Service!Next
<1>. DEFINE sid == CurrentSid(n)
<1>1. /\ sid \in Sid /\ sid[1] = n /\ word[n] \in Word /\ try[n] \in DOMAIN Hops
      /\ index[n][word[n]] = NoFile
  BY SearchAssumption
     DEF Attempt, SoundInv, TypeOK, Places, CurrentSid, Sid, Attempts, Asking
<1>2. created[sid] = NoEntry
  BY <1>1 DEF Attempt, SoundInv, IdsInOrder, CurrentSid, TypeOK
<1>3. /\ UNCHANGED index
      /\ created' = [created EXCEPT ![sid] =
             [status |-> "ACTIVE", hits |-> {}, word |-> word[n], hop |-> Hops[try[n]]]]
  BY DEF Attempt, ActiveSearch
<1>4. Service!Open(sid)
  BY <1>1, <1>2, <1>3 DEF Service!Open
<1>. QED  BY <1>1, <1>4 DEF Service!Next, Service!Sid, Sid

LEMMA WakeFailedRefines ==
    ASSUME SoundInv, NEW n \in Node, WakeFailed(n) PROVE Service!Next
<1>1. CurrentSid(n) \in Sid /\ created[CurrentSid(n)] # NoEntry
  BY DEF WakeFailed, SoundInv, TypeOK, Places
<1>2. Service!TimeOut(CurrentSid(n))
  BY <1>1 DEF WakeFailed, TimedOut, Service!TimeOut
<1>. QED  BY <1>1, <1>2 DEF Service!Next, Service!Sid, Sid

LEMMA ChooseRefines ==
    ASSUME SoundInv, NEW n \in Node, Choose(n) PROVE [Service!Next]_<<created, index>>
<1>. DEFINE sid == CurrentSid(n)
<1>1. /\ sid \in Sid /\ sid[1] = n /\ created[sid] # NoEntry
      /\ created[sid].status = "SUCCESS" /\ UNCHANGED created
  BY DEF Choose, SoundInv, TypeOK, Places, Asking, CurrentSid
<1>2. ASSUME NEW hit \in created[sid].hits, NEW K \in {{}, Keywords[hit.file]},
             Learn(n, hit.file, K)
      PROVE  Service!Next
  <2>1. K \in SUBSET Keywords[hit.file]
    OBVIOUS
  <2>2. Service!Download(sid)
    BY <1>1, <1>2, <2>1 DEF Service!Download, Learn
  <2>. QED  BY <1>1, <2>2 DEF Service!Next, Service!Sid, Sid
<1>. QED  BY <1>1, <1>2 DEF Choose

LEMMA RespInTimeRefines ==
    ASSUME SoundInv, NEW e \in End, RespInTime(e)
    PROVE  [Service!Next]_<<created, index>>
<1>. DEFINE resp == Head(chan[e])
            old == created[resp.sid]
<1>1. /\ chan[e] # <<>> /\ resp \in Message /\ resp.sid \in Sid
      /\ resp.hits \in SUBSET Hit /\ resp.type = "RESP"
  BY ReadMessage DEF SoundInv, RespInTime, ForCreator, Receives, TypeOK
<1>2. old \in Searches /\ old # NoEntry /\ old.status # "FAILED"
  BY <1>1 DEF SoundInv, RespInTime, ForCreator, StillOpen, TypeOK
<1>3. HitsFor(resp.hits, resp.sid, created, index)
  <2>1. chan \in Channels /\ MessagesSound
    BY DEF SoundInv, TypeOK, Channels
  <2>2. MsgSound(resp, created, index)
    BY <1>1, <2>1, ConsumedQueues DEF MessagesSound
  <2>. QED  BY <1>1, <2>2 DEF MsgSound
<1>4. UNCHANGED index
  BY DEF RespInTime
<1>5. CASE resp.hits = {}
  <2>1. [old EXCEPT !.status = IF resp.hits # {} THEN "SUCCESS" ELSE @,
                    !.hits = @ \cup resp.hits] = old
    BY <1>2, <1>5 DEF Searches
  <2>2. created' = created
    BY <1>1, <2>1 DEF RespInTime, SoundInv, TypeOK
  <2>. QED  BY <1>4, <2>2
<1>6. CASE resp.hits # {}
  <2>1. resp.hits \in SUBSET {hit \in Service!Hit : Service!Sound(hit, old.word)}
    BY <1>1, <1>3 DEF HitsFor, OfferedBy, Matches, Service!Sound, Service!Hit, Hit
  <2>2. created' = [created EXCEPT ![resp.sid].status = "SUCCESS",
                                   ![resp.sid].hits = @ \cup resp.hits]
    BY <1>6 DEF RespInTime
  <2>3. Service!Find(resp.sid)
    BY <1>2, <1>4, <1>6, <2>1, <2>2 DEF Service!Find
  <2>. QED  BY <1>1, <2>3 DEF Service!Next, Service!Sid, Sid
<1>. QED  BY <1>5, <1>6

\* For every overlay, what the user of a node sees is a behaviour of SearchService:
\* ids are used once, hits are true, grow and are never taken back, and what timed
\* out finds nothing any more.
THEOREM ImplementsService == Spec => ServiceSpec
<1>1. SoundInv /\ [Next]_vars => [Service!Next]_<<created, index>>
  <2>. SUFFICES ASSUME SoundInv, [Next]_vars
                PROVE  [Service!Next]_<<created, index>>
    OBVIOUS
  <2>1. CASE UNCHANGED vars
    BY <2>1 DEF vars
  <2>2. ASSUME NEW n \in Searchers, User(n) \/ Main(n)
        PROVE  [Service!Next]_<<created, index>>
    <3>1. n \in Node
      BY SearchAssumption
    <3>2. CASE \E w \in Word : SearchUnasked(n, w) \/ SearchStart(n, w)
      BY <3>2 DEF SearchUnasked, SearchStart
    <3>3. CASE WakeSuccess(n)
      BY <3>3 DEF WakeSuccess
    <3>4. CASE Choose(n)
      BY <3>1, <3>4, ChooseRefines
    <3>5. CASE Attempt(n)
      BY <3>1, <3>5, AttemptRefines
    <3>6. CASE WakeFailed(n)
      BY <3>1, <3>6, WakeFailedRefines
    <3>. QED  BY <2>2, <3>2, <3>3, <3>4, <3>5, <3>6 DEF User, Main
  <2>3. ASSUME NEW e \in End, Listen(e)
        PROVE  [Service!Next]_<<created, index>>
    <3>1. CASE RespInTime(e)
      BY <3>1, RespInTimeRefines
    <3>2. CASE ~RespInTime(e)
      <4>1. UNCHANGED <<created, index>>
        BY <2>3, <3>2 DEF Listen, ReqProcessed, ReqFound, ReqForward, ReqDeadEnd,
                          RespCollect, RespComplete, RespLate
      <4>. QED  BY <4>1
    <3>. QED  BY <3>1, <3>2
  <2>. QED  BY <2>1, <2>2, <2>3 DEF Next
<1>. QED  BY <1>1, InitRefines, SoundInvHolds, PTL DEF Spec, ServiceSpec, Service!Spec

----------------------------------------------------------------------------
(* Where the messages of a flood go: a response only to who asked, a request *)
(* no further than its hops, a hit once.                                     *)

(* No response goes astray: it only reaches a node that asked, at the end  *)
(* by which it asked.  ResponsesSolicited alone is not inductive: a node   *)
(* answers the request it read or the upstream peer of its relay, so both  *)
(* must come from one who asked.                                           *)

\* The owner of y asked its peer there for s: it created s, or forwarded it, but
\* not to the peer it had it from.
Asked(y, s, cr, fw) ==
    \/ s[1] = Owner[y] /\ cr[s] # NoEntry
    \/ fw[Owner[y]][s] # NoEntry /\ fw[Owner[y]][s].upstream # y

\* A message that the listener of x has still to read.
MsgRouted(x, msg, cr, fw) ==
    /\ msg.type = "REQ" => Asked(Other[x], msg.sid, cr, fw)
    /\ msg.type = "RESP" => Asked(x, msg.sid, cr, fw)

MessagesRouted ==
    \A x \in End : \A i \in 1..Len(chan[x]) : MsgRouted(x, chan[x][i], created, fwd)

\* The upstream peer of a relay is one of its node's, and it asked.
RelaysRouted == \A n \in Node, s \in Sid : fwd[n][s] # NoEntry =>
    /\ Owner[fwd[n][s].upstream] = n
    /\ Asked(Other[fwd[n][s].upstream], s, created, fwd)

RoutingInv == TypeOK /\ MessagesRouted /\ RelaysRouted

LEMMA RoutingInvImpliesSolicited == RoutingInv => ResponsesSolicited
BY DEF RoutingInv, MessagesRouted, MsgRouted, Asked, ResponsesSolicited, Indexes

\* Which queues a sent message is put into.
LEMMA SentTo ==
    ASSUME NEW ch \in Channels, NEW E \in SUBSET End, NEW msg \in Message,
           NEW x \in End, NEW i \in 1..Len(SendOn(ch, E, msg)[x])
    PROVE  \/ SendOn(ch, E, msg)[x][i] = msg /\ Other[x] \in E
           \/ i \in 1..Len(ch[x]) /\ SendOn(ch, E, msg)[x][i] = ch[x][i]
<1>1. CASE Other[x] \in E
  BY <1>1, SendOnQueues
<1>2. CASE Other[x] \notin E
  BY <1>2 DEF SendOn
<1>. QED  BY <1>1, <1>2

\* The same after a message was read at e.
LEMMA AnsweredOn ==
    ASSUME chan \in Channels, NEW e \in End, chan[e] # <<>>,
           NEW E \in SUBSET End, NEW msg \in Message,
           NEW x \in End, NEW i \in 1..Len(SendOn(Consumed(e), E, msg)[x])
    PROVE  \/ SendOn(Consumed(e), E, msg)[x][i] = msg /\ Other[x] \in E
           \/ \E j \in 1..Len(chan[x]) : SendOn(Consumed(e), E, msg)[x][i] = chan[x][j]
<1>1. /\ Consumed(e) \in Channels
      /\ \A k \in 1..Len(Consumed(e)[x]) :
            \E j \in 1..Len(chan[x]) : Consumed(e)[x][k] = chan[x][j]
  BY ConsumedQueues
<1>2. \/ SendOn(Consumed(e), E, msg)[x][i] = msg /\ Other[x] \in E
      \/ i \in 1..Len(Consumed(e)[x])
            /\ SendOn(Consumed(e), E, msg)[x][i] = Consumed(e)[x][i]
  BY <1>1, SentTo
<1>. QED  BY <1>1, <1>2

\* Entries stay, and a relay keeps its upstream peer.
Keeps(cr, fw, cr2, fw2) ==
    /\ \A s \in Sid : cr[s] # NoEntry => cr2[s] # NoEntry
    /\ \A n \in Node, s \in Sid : fw[n][s] # NoEntry =>
           fw2[n][s] # NoEntry /\ fw2[n][s].upstream = fw[n][s].upstream

LEMMA AskedKept ==
    ASSUME NEW cr, NEW fw, NEW cr2, NEW fw2, Keeps(cr, fw, cr2, fw2),
           NEW y \in End, NEW s \in Sid, Asked(y, s, cr, fw)
    PROVE  Asked(y, s, cr2, fw2)
BY OverlayAssumption DEF Asked, Keeps

\* A step after which the queues hold what they held, and msg at the other ends
\* of E; msg is routed; and so are the relays that the step introduces.
Queued(E, msg) ==
    \A x \in End : \A i \in 1..Len(chan'[x]) :
        \/ chan'[x][i] = msg /\ Other[x] \in E
        \/ \E j \in 1..Len(chan[x]) : chan'[x][i] = chan[x][j]

RoutedOn(E, msg) == \A x \in End : Other[x] \in E => MsgRouted(x, msg, created', fwd')

NewRelaysRouted ==
    \A n \in Node, s \in Sid : fwd[n][s] = NoEntry /\ fwd'[n][s] # NoEntry =>
        /\ Owner[fwd'[n][s].upstream] = n
        /\ Asked(Other[fwd'[n][s].upstream], s, created', fwd')

LEMMA RoutingKept ==
    ASSUME RoutingInv, TypeOK', Keeps(created, fwd, created', fwd'), NewRelaysRouted,
           NEW E, NEW msg, Queued(E, msg), RoutedOn(E, msg)
    PROVE  RoutingInv'
<1>1. MessagesRouted'
  <2>. SUFFICES ASSUME NEW x \in End, NEW i \in 1..Len(chan'[x])
                PROVE  MsgRouted(x, chan'[x][i], created', fwd')
    BY DEF MessagesRouted
  <2>1. CASE chan'[x][i] = msg /\ Other[x] \in E
    BY <2>1 DEF RoutedOn
  <2>2. ASSUME NEW j \in 1..Len(chan[x]), chan'[x][i] = chan[x][j]
        PROVE  MsgRouted(x, chan'[x][i], created', fwd')
    <3>1. chan[x][j].sid \in Sid /\ Other[x] \in End
      BY OverlayAssumption DEF RoutingInv, TypeOK, Message
    <3>2. MsgRouted(x, chan[x][j], created, fwd)
      BY DEF RoutingInv, MessagesRouted
    <3>. QED  BY <2>2, <3>1, <3>2, AskedKept DEF MsgRouted
  <2>. QED  BY <2>1, <2>2 DEF Queued
<1>2. RelaysRouted'
  <2>. SUFFICES ASSUME NEW n \in Node, NEW s \in Sid, fwd'[n][s] # NoEntry
                PROVE  /\ Owner[fwd'[n][s].upstream] = n
                       /\ Asked(Other[fwd'[n][s].upstream], s, created', fwd')
    BY DEF RelaysRouted
  <2>1. CASE fwd[n][s] = NoEntry
    BY <2>1 DEF NewRelaysRouted
  <2>2. CASE fwd[n][s] # NoEntry
    <3>1. fwd'[n][s].upstream = fwd[n][s].upstream
      BY <2>2 DEF Keeps
    <3>2. fwd[n][s].upstream \in End /\ Other[fwd[n][s].upstream] \in End
      <4>1. fwd[n][s] \in Relays
        BY <2>2 DEF RoutingInv, TypeOK
      <4>. QED  BY <4>1, OverlayAssumption DEF Relays
    <3>3. /\ Owner[fwd[n][s].upstream] = n
          /\ Asked(Other[fwd[n][s].upstream], s, created, fwd)
      BY <2>2 DEF RoutingInv, RelaysRouted
    <3>. QED  BY <3>1, <3>2, <3>3, AskedKept
  <2>. QED  BY <2>1, <2>2
<1>. QED  BY <1>1, <1>2 DEF RoutingInv

\* A listener reads a request and answers it, or sends it on: whoever sent the
\* request asked, and whoever gets it from here is asked by the new relay.
LEMMA RequestRouted ==
    ASSUME RoutingInv, NEW e \in End,
           ReqProcessed(e) \/ ReqFound(e) \/ ReqForward(e) \/ ReqDeadEnd(e)
    PROVE  RoutingInv'
<1>. DEFINE n == Owner[e]
            req == Head(chan[e])
<1>1. /\ chan[e] # <<>> /\ chan \in Channels /\ n \in Node /\ req.sid \in Sid
      /\ req.hop \in Nat \ {0} /\ req.word \in Word /\ req.type = "REQ"
  BY ReadMessage DEF RoutingInv, ReqProcessed, ReqFound, ReqForward, ReqDeadEnd, Fresh,
                     Receives, TypeOK, Channels
<1>2. Asked(Other[e], req.sid, created, fwd)
  <2>1. 1 \in 1..Len(chan[e]) /\ req = chan[e][1]
    BY <1>1, ConsumedQueues
  <2>. QED  BY <1>1, <2>1 DEF RoutingInv, MessagesRouted, MsgRouted
<1>3. UNCHANGED created /\ TypeOK'
  BY RequestType DEF RoutingInv, ReqProcessed, ReqFound, ReqForward, ReqDeadEnd
<1>4. ASSUME NEW E \in SUBSET End, NEW msg \in Message,
             chan' = SendOn(Consumed(e), E, msg), RoutedOn(E, msg),
             fwd' = fwd \/ \E b \in BOOLEAN : /\ fwd[n][req.sid] = NoEntry
                                              /\ fwd' = [fwd EXCEPT ![n][req.sid] = Relay(e, b)]
      PROVE  RoutingInv'
  <2>1. Queued(E, msg)
    BY <1>1, <1>4, AnsweredOn DEF Queued
  <2>2. /\ Keeps(created, fwd, created', fwd')
        /\ \A m \in Node, s \in Sid : fwd[m][s] = NoEntry /\ fwd'[m][s] # NoEntry =>
               m = n /\ s = req.sid /\ fwd'[m][s].upstream = e
    <3>1. CASE fwd' = fwd
      BY <1>3, <3>1 DEF Keeps
    <3>2. ASSUME NEW b \in BOOLEAN, fwd[n][req.sid] = NoEntry,
                 fwd' = [fwd EXCEPT ![n][req.sid] = Relay(e, b)]
          PROVE  /\ Keeps(created, fwd, created', fwd')
                 /\ \A m \in Node, s \in Sid : fwd[m][s] = NoEntry /\ fwd'[m][s] # NoEntry =>
                        m = n /\ s = req.sid /\ fwd'[m][s].upstream = e
      <4>1. \A m \in Node, s \in Sid :
                fwd'[m][s] = IF m = n /\ s = req.sid THEN Relay(e, b) ELSE fwd[m][s]
        BY <1>1, <3>2 DEF RoutingInv, TypeOK
      <4>. QED  BY <1>3, <3>2, <4>1 DEF Keeps, Relay
    <3>. QED  BY <1>4, <3>1, <3>2
  <2>3. Asked(Other[e], req.sid, created', fwd')
    BY <1>1, <1>2, <2>2, AskedKept, OverlayAssumption
  <2>4. NewRelaysRouted
    BY <2>2, <2>3 DEF NewRelaysRouted
  <2>. QED  BY <1>3, <1>4, <2>1, <2>2, <2>4, RoutingKept
<1>5. ASSUME NEW hits \in SUBSET Hit, Keeps(created, fwd, created', fwd')
      PROVE  RoutedOn({e}, Response(req.sid, hits))
  <2>1. \A x \in End : Other[x] \in {e} => x = Other[e]
    BY OverlayAssumption
  <2>2. Other[e] \in End
    BY OverlayAssumption
  <2>3. Asked(Other[e], req.sid, created', fwd')
    BY <1>1, <1>2, <1>5, <2>2, AskedKept
  <2>. QED  BY <2>1, <2>3 DEF RoutedOn, MsgRouted, Response
<1>6. ASSUME NEW b \in BOOLEAN, fwd[n][req.sid] = NoEntry,
             fwd' = [fwd EXCEPT ![n][req.sid] = Relay(e, b)]
      PROVE  /\ fwd'[n][req.sid] # NoEntry /\ fwd'[n][req.sid].upstream = e
             /\ Keeps(created, fwd, created', fwd')
  <2>1. \A m \in Node, s \in Sid :
            fwd'[m][s] = IF m = n /\ s = req.sid THEN Relay(e, b) ELSE fwd[m][s]
    BY <1>1, <1>6 DEF RoutingInv, TypeOK
  <2>2. Relay(e, b) # NoEntry /\ Relay(e, b).upstream = e
    BY RelayType DEF Relay
  <2>. QED  BY <1>1, <1>3, <1>6, <2>1, <2>2 DEF Keeps
<1>7. CASE ReqProcessed(e)
  <2>1. fwd' = fwd /\ chan' = SendOn(Consumed(e), {e}, Response(req.sid, {}))
    BY <1>7 DEF ReqProcessed
  <2>2. Keeps(created, fwd, created', fwd')
    BY <1>3, <2>1 DEF Keeps
  <2>3. Response(req.sid, {}) \in Message
    BY <1>1, MessageTypes
  <2>. QED  BY <1>4, <1>5, <2>1, <2>2, <2>3
<1>8. CASE ReqDeadEnd(e)
  <2>1. /\ fwd[n][req.sid] = NoEntry
        /\ fwd' = [fwd EXCEPT ![n][req.sid] = Relay(e, FALSE)]
        /\ chan' = SendOn(Consumed(e), {e}, Response(req.sid, {}))
    BY <1>8 DEF ReqDeadEnd, Fresh
  <2>2. Response(req.sid, {}) \in Message
    BY <1>1, MessageTypes
  <2>. QED  BY <1>4, <1>5, <1>6, <2>1, <2>2
<1>9. CASE ReqFound(e)
  <2>. DEFINE hit == OwnHit(e, req.word)
  <2>1. /\ fwd[n][req.sid] = NoEntry
        /\ fwd' = [fwd EXCEPT ![n][req.sid] = Relay(e, FALSE)]
        /\ chan' = SendOn(Consumed(e), {e}, Response(req.sid, {hit}))
    BY <1>9 DEF ReqFound, Fresh
  <2>2. {hit} \in SUBSET Hit
    BY <1>1, <1>9 DEF ReqFound, OwnHit, Hit, Holds, RoutingInv, TypeOK
  <2>3. Response(req.sid, {hit}) \in Message
    BY <1>1, <2>2, MessageTypes
  <2>. HIDE DEF hit
  <2>. QED  BY <1>4, <1>5, <1>6, <2>1, <2>2, <2>3
<1>10. CASE ReqForward(e)
  <2>. DEFINE msg == Request(req.sid, HopsLeft(req), req.word)
  <2>1. /\ fwd[n][req.sid] = NoEntry
        /\ fwd' = [fwd EXCEPT ![n][req.sid] = Relay(e, TRUE)]
        /\ chan' = SendOn(Consumed(e), ForwardTo(e), msg)
    BY <1>10 DEF ReqForward, Fresh
  <2>2. msg \in Message
    <3>1. HopsLeft(req) \in Nat \ {0}
      BY <1>1, <1>10 DEF ReqForward, LastHop, HopsLeft
    <3>. QED  BY <1>1, <3>1, MessageTypes
  <2>3. RoutedOn(ForwardTo(e), msg)
    <3>1. \A x \in End : Other[x] \in ForwardTo(e) => Owner[Other[x]] = n /\ Other[x] # e
      BY DEF ForwardTo, ConnectedPeers
    <3>2. fwd'[n][req.sid] # NoEntry /\ fwd'[n][req.sid].upstream = e
      BY <1>6, <2>1
    <3>. QED  BY <3>1, <3>2 DEF RoutedOn, MsgRouted, Asked, Request
  <2>4. ForwardTo(e) \in SUBSET End
    BY DEF ForwardTo, ConnectedPeers
  <2>. HIDE DEF msg
  <2>. QED  BY <1>4, <2>1, <2>2, <2>3, <2>4
<1>. QED  BY <1>7, <1>8, <1>9, <1>10

\* A listener reads a response; the consolidated one goes to the upstream peer.
LEMMA ResponseRouted ==
    ASSUME RoutingInv, NEW e \in End,
           RespCollect(e) \/ RespComplete(e) \/ RespInTime(e) \/ RespLate(e)
    PROVE  RoutingInv'
<1>. DEFINE n == Owner[e]
            resp == Head(chan[e])
            entry == Counted(fwd[n][resp.sid], resp)
<1>1. /\ chan[e] # <<>> /\ chan \in Channels /\ n \in Node /\ resp.sid \in Sid
      /\ resp \in Message /\ resp.hits \in SUBSET Hit
  BY ReadMessage DEF RoutingInv, RespCollect, RespComplete, RespInTime, RespLate,
                     ForRelay, ForCreator, Receives, TypeOK, Channels
<1>2. TypeOK'
  BY ResponseType DEF RoutingInv
<1>3. /\ Consumed(e) \in Channels
      /\ \A x \in End : \A i \in 1..Len(Consumed(e)[x]) :
            \E j \in 1..Len(chan[x]) : Consumed(e)[x][i] = chan[x][j]
  BY <1>1, ConsumedQueues
<1>4. ASSUME ForRelay(e)
      PROVE  /\ fwd[n][resp.sid] # NoEntry /\ entry \in Relays
             /\ entry.upstream = fwd[n][resp.sid].upstream
             /\ [entry EXCEPT !.waiting = FALSE] \in Relays
             /\ [entry EXCEPT !.waiting = FALSE].upstream = entry.upstream
  <2>1. fwd[n][resp.sid] \in Relays /\ fwd[n][resp.sid] # NoEntry
    BY <1>1, <1>4 DEF RoutingInv, ForRelay, TypeOK
  <2>2. /\ fwd[n][resp.sid].received + 1 \in Nat
        /\ fwd[n][resp.sid].hits \cup resp.hits \in SUBSET Hit
    <3>1. fwd[n][resp.sid].received \in Nat /\ fwd[n][resp.sid].hits \in SUBSET Hit
      BY <2>1 DEF Relays
    <3>. QED  BY <1>1, <3>1
  <2>3. entry \in Relays
    BY <2>1, <2>2, Zenon DEF Counted, Relays
  <2>4. entry.upstream = fwd[n][resp.sid].upstream
    BY <2>1 DEF Counted, Relays
  <2>5. \A r \in Relays : /\ [r EXCEPT !.waiting = FALSE] \in Relays
                          /\ [r EXCEPT !.waiting = FALSE].upstream = r.upstream
    BY Zenon DEF Relays
  <2>. QED  BY <2>1, <2>3, <2>4, <2>5
<1>5. ASSUME ForRelay(e), UNCHANGED created, NEW ent \in Relays,
             ent.upstream = fwd[n][resp.sid].upstream,
             fwd' = [fwd EXCEPT ![n][resp.sid] = ent]
      PROVE  /\ Keeps(created, fwd, created', fwd')
             /\ NewRelaysRouted
  <2>1. \A m \in Node, s \in Sid :
            fwd'[m][s] = IF m = n /\ s = resp.sid THEN ent ELSE fwd[m][s]
    BY <1>1, <1>5 DEF RoutingInv, TypeOK
  <2>2. ent # NoEntry
    BY NoEntryAssumption
  <2>3. fwd[n][resp.sid] # NoEntry
    BY <1>4, <1>5
  <2>. HIDE DEF n, resp, entry
  <2>4. Keeps(created, fwd, created', fwd')
    BY <1>5, <2>1, <2>2 DEF Keeps
  <2>5. NewRelaysRouted
    BY <2>1, <2>3 DEF NewRelaysRouted
  <2>. QED  BY <2>4, <2>5
<1>6. ASSUME chan' = Consumed(e), Keeps(created, fwd, created', fwd'), NewRelaysRouted
      PROVE  RoutingInv'
  <2>1. Queued({}, resp) /\ RoutedOn({}, resp)
    BY <1>3, <1>6 DEF Queued, RoutedOn
  <2>. QED  BY <1>2, <1>6, <2>1, RoutingKept
<1>7. CASE RespCollect(e)
  BY <1>4, <1>5, <1>6, <1>7 DEF RespCollect
<1>8. CASE RespComplete(e)
  <2>. DEFINE msg == Response(resp.sid, entry.hits)
              up == entry.upstream
  <2>1. /\ ForRelay(e) /\ UNCHANGED created
        /\ fwd' = [fwd EXCEPT ![n][resp.sid] = [entry EXCEPT !.waiting = FALSE]]
        /\ chan' = SendOn(Consumed(e), {up}, msg)
    BY <1>8 DEF RespComplete
  <2>2. Keeps(created, fwd, created', fwd') /\ NewRelaysRouted
    BY <1>4, <1>5, <2>1
  <2>3. up \in End /\ msg \in Message
    BY <1>1, <1>4, <2>1, MessageTypes DEF Relays
  <2>4. Asked(Other[up], resp.sid, created', fwd')
    <3>1. Asked(Other[up], resp.sid, created, fwd)
      BY <1>1, <1>4, <2>1 DEF RoutingInv, RelaysRouted
    <3>2. Other[up] \in End
      BY <2>3, OverlayAssumption
    <3>. HIDE DEF up, resp
    <3>. QED  BY <1>1, <2>2, <3>1, <3>2, AskedKept
  <2>5. RoutedOn({up}, msg)
    <3>1. \A x \in End : Other[x] \in {up} => x = Other[up]
      BY OverlayAssumption
    <3>. QED  BY <2>4, <3>1 DEF RoutedOn, MsgRouted, Response
  <2>6. Queued({up}, msg)
    <3>. HIDE DEF msg, up
    <3>1. {up} \in SUBSET End
      BY <2>3
    <3>2. chan' = SendOn(Consumed(e), {up}, msg)
      BY <2>1
    <3>3. chan \in Channels /\ chan[e] # <<>> /\ msg \in Message
      BY <1>1, <2>3
    <3>. HIDE DEF n, resp, entry
    <3>4. \A x \in End : \A i \in 1..Len(SendOn(Consumed(e), {up}, msg)[x]) :
              \/ SendOn(Consumed(e), {up}, msg)[x][i] = msg /\ Other[x] \in {up}
              \/ \E j \in 1..Len(chan[x]) :
                    SendOn(Consumed(e), {up}, msg)[x][i] = chan[x][j]
      BY <3>1, <3>3, AnsweredOn
    <3>. QED  BY <3>2, <3>4 DEF Queued
  <2>. HIDE DEF msg, up
  <2>. QED  BY <1>2, <2>2, <2>5, <2>6, RoutingKept
<1>9. CASE RespInTime(e)
  <2>1. UNCHANGED fwd /\ chan' = Consumed(e)
    BY <1>9 DEF RespInTime
  <2>2. \A s \in Sid : created[s] # NoEntry => created'[s] # NoEntry
    <3>. DEFINE old == created[resp.sid]
                new == [old EXCEPT !.status = IF resp.hits # {} THEN "SUCCESS" ELSE @,
                                   !.hits = @ \cup resp.hits]
    <3>1. old \in Searches
      BY <1>1, <1>9 DEF RoutingInv, RespInTime, ForCreator, TypeOK
    <3>2. new # NoEntry
      BY <1>1, <3>1, NoEntryAssumption DEF Searches
    <3>3. created' = [created EXCEPT ![resp.sid] = new]
      BY <1>1, <1>9, <3>1 DEF RespInTime, RoutingInv, TypeOK
    <3>. QED  BY <1>1, <3>2, <3>3 DEF RoutingInv, TypeOK
  <2>. QED  BY <1>6, <2>1, <2>2 DEF Keeps, NewRelaysRouted
<1>10. CASE RespLate(e)
  BY <1>6, <1>10 DEF RespLate, Keeps, NewRelaysRouted
<1>. QED  BY <1>7, <1>8, <1>9, <1>10

\* The main thread: only a new attempt sends anything.
LEMMA MainRouted ==
    ASSUME RoutingInv, NEW n \in Node, User(n) \/ Main(n) PROVE RoutingInv'
<1>1. UNCHANGED fwd /\ TypeOK'
  BY UserType, MainType DEF RoutingInv, User, Main, SearchUnasked, SearchStart, Choose,
                            Attempt, WakeSuccess, WakeFailed
<1>2. ASSUME UNCHANGED chan, \A s \in Sid : created[s] # NoEntry => created'[s] # NoEntry
      PROVE  RoutingInv'
  <2>1. Queued({}, NoEntry) /\ RoutedOn({}, NoEntry)
    BY <1>2 DEF Queued, RoutedOn
  <2>2. Keeps(created, fwd, created', fwd') /\ NewRelaysRouted
    BY <1>1, <1>2 DEF Keeps, NewRelaysRouted
  <2>. QED  BY <1>1, <1>2, <2>1, <2>2, RoutingKept
<1>3. CASE Attempt(n)
  <2>. DEFINE sid == CurrentSid(n)
              msg == Request(sid, Hops[try[n]], word[n])
  <2>1. /\ sid \in Sid /\ sid[1] = n /\ word[n] \in Word /\ Hops[try[n]] \in Nat \ {0}
    BY <1>3, SearchAssumption
       DEF Attempt, RoutingInv, TypeOK, Places, CurrentSid, Sid, Attempts
  <2>2. \A s \in Sid : s = sid \/ created[s] # NoEntry => created'[s] # NoEntry
    <3>1. ActiveSearch(word[n], Hops[try[n]]) # NoEntry
      BY <2>1, NoEntryAssumption DEF ActiveSearch, Searches
    <3>. QED  BY <1>3, <2>1, <3>1 DEF Attempt, RoutingInv, TypeOK
  <2>3. Keeps(created, fwd, created', fwd') /\ NewRelaysRouted
    BY <1>1, <2>2 DEF Keeps, NewRelaysRouted
  <2>4. msg \in Message /\ ConnectedPeers(n) \in SUBSET End
    BY <2>1, MessageTypes DEF ConnectedPeers
  <2>5. RoutedOn(ConnectedPeers(n), msg)
    BY <2>1, <2>2 DEF RoutedOn, ConnectedPeers, MsgRouted, Asked, Request
  <2>6. chan \in Channels /\ chan' = SendOn(chan, ConnectedPeers(n), msg)
    BY <1>3 DEF Attempt, RoutingInv, TypeOK, Channels
  <2>. HIDE DEF msg
  <2>7. Queued(ConnectedPeers(n), msg)
    BY <2>4, <2>6, SentTo DEF Queued
  <2>. QED  BY <1>1, <2>3, <2>5, <2>7, RoutingKept
<1>4. CASE WakeFailed(n)
  <2>. DEFINE sid == CurrentSid(n)
              new == [created[sid] EXCEPT !.status = "FAILED"]
  <2>1. sid \in Sid /\ created[sid] \in Searches /\ created' = [created EXCEPT ![sid] = new]
    BY <1>4 DEF WakeFailed, TimedOut, RoutingInv, TypeOK, Places
  <2>2. new # NoEntry
    BY <2>1, NoEntryAssumption DEF Searches
  <2>3. \A s \in Sid : created[s] # NoEntry => created'[s] # NoEntry
    BY <2>1, <2>2 DEF RoutingInv, TypeOK
  <2>. QED  BY <1>2, <1>4, <2>3 DEF WakeFailed
<1>5. CASE UNCHANGED <<chan, created>>
  BY <1>2, <1>5
<1>. QED  BY <1>3, <1>4, <1>5 DEF User, Main, SearchUnasked, SearchStart, Choose, WakeSuccess

LEMMA RoutingInvHolds == Spec => []RoutingInv
<1>1. Init => RoutingInv
  <2>. SUFFICES ASSUME Init PROVE RoutingInv
    OBVIOUS
  <2>1. TypeOK
    BY InitType
  <2>2. MessagesRouted /\ RelaysRouted
    BY DEF Init, MessagesRouted, RelaysRouted
  <2>. QED  BY <2>1, <2>2 DEF RoutingInv
<1>2. RoutingInv /\ [Next]_vars => RoutingInv'
  <2>1. ASSUME RoutingInv, UNCHANGED vars PROVE RoutingInv'
    BY <2>1 DEF vars, RoutingInv, TypeOK, Places, CurrentSid, MessagesRouted, RelaysRouted
  <2>2. ASSUME RoutingInv, NEW n \in Searchers, User(n) \/ Main(n) PROVE RoutingInv'
    BY <2>2, SearchAssumption, MainRouted
  <2>3. ASSUME RoutingInv, NEW e \in End, Listen(e) PROVE RoutingInv'
    BY <2>3, RequestRouted, ResponseRouted DEF Listen
  <2>. QED  BY <2>1, <2>2, <2>3 DEF Next
<1>. QED  BY <1>1, <1>2, PTL DEF Spec

\* The branch "Invalid response message" of the SEARCH-RESP handler is dead code,
\* whatever the overlay, its cycles and double connections included.
THEOREM NoResponseAstray == Spec => []ResponsesSolicited
BY RoutingInvHolds, RoutingInvImpliesSolicited, PTL

----------------------------------------------------------------------------
(* How far a flood goes, and that a hit travels once.                      *)

\* What is at place i of the queue of x after a step that reads a message at e and
\* sends msg on E: the new message at the end, or what was there, one place further
\* at e.
Before(e, x, i) == IF x = e THEN i + 1 ELSE i

LEMMA PlacesInQueues ==
    ASSUME chan \in Channels, NEW e \in End, chan[e] # <<>>,
           NEW E \in SUBSET End, NEW msg \in Message,
           NEW x \in End, NEW i \in 1..Len(SendOn(Consumed(e), E, msg)[x])
    PROVE  \/ /\ Other[x] \in E /\ i = Len(SendOn(Consumed(e), E, msg)[x])
              /\ SendOn(Consumed(e), E, msg)[x][i] = msg
           \/ /\ Before(e, x, i) \in 1..Len(chan[x])
              /\ SendOn(Consumed(e), E, msg)[x][i] = chan[x][Before(e, x, i)]
<1>. DEFINE q == Consumed(e)[x]
<1>1. /\ q \in Seq(Message)
      /\ \A k \in 1..Len(q) : Before(e, x, k) \in 1..Len(chan[x])
                              /\ q[k] = chan[x][Before(e, x, k)]
  <2>1. CASE x = e
    <3>1. q = Tail(chan[e])
      BY <2>1 DEF Consumed, Channels
    <3>2. chan[e] \in Seq(Message) /\ chan[e] # <<>>
      BY DEF Channels
    <3>3. /\ Tail(chan[e]) \in Seq(Message) /\ Len(Tail(chan[e])) = Len(chan[e]) - 1
          /\ \A k \in 1..Len(Tail(chan[e])) : Tail(chan[e])[k] = chan[e][k + 1]
      BY <3>2
    <3>. QED  BY <2>1, <3>1, <3>2, <3>3 DEF Before
  <2>2. CASE x # e
    BY <2>2 DEF Consumed, Channels, Before
  <2>. QED  BY <2>1, <2>2
<1>2. CASE Other[x] \in E
  <2>1. SendOn(Consumed(e), E, msg)[x] = Append(q, msg)
    BY <1>2 DEF SendOn
  <2>. HIDE DEF q
  <2>2. /\ Len(Append(q, msg)) = Len(q) + 1 /\ Append(q, msg)[Len(q) + 1] = msg
        /\ \A k \in 1..Len(q) : Append(q, msg)[k] = q[k]
    BY <1>1
  <2>3. i \in 1..Len(q) \/ i = Len(q) + 1
    BY <1>1, <2>1, <2>2
  <2>. QED  BY <1>1, <1>2, <2>1, <2>2, <2>3
<1>3. CASE Other[x] \notin E
  BY <1>1, <1>3 DEF SendOn
<1>. QED  BY <1>2, <1>3

LEMMA SendNone ==
    ASSUME NEW ch \in Channels, NEW msg PROVE SendOn(ch, {}, msg) = ch
BY DEF SendOn, Channels

----------------------------------------------------------------------------
(* How far the flood goes.                                                 *)

\* A search keeps its hop count.
HopsStay == \A s \in Sid : created[s] # NoEntry =>
    created'[s] # NoEntry /\ created'[s].hop = created[s].hop

ReqNear(msg, n, cr) == msg.type = "REQ" =>
    /\ msg.hop \in 1..cr[msg.sid].hop
    /\ Walk(msg.sid[1], cr[msg.sid].hop - msg.hop + 1, n)

RelayNear(n, s, cr) == \E k \in 1..cr[s].hop : Walk(s[1], k, n)

LEMMA FloodByParts ==
    FloodWithinHops <=>
        /\ \A x \in End : \A i \in 1..Len(chan[x]) : ReqNear(chan[x][i], Owner[x], created)
        /\ \A n \in Node, s \in Sid : fwd[n][s] # NoEntry => RelayNear(n, s, created)
BY DEF FloodWithinHops, ReqNear, RelayNear, Indexes

\* One connection further.
LEMMA WalkOn ==
    ASSUME NEW n \in Node, NEW k \in Nat, NEW e \in End, Walk(n, k, Owner[e])
    PROVE  Walk(n, k + 1, Owner[Other[e]])
<1>1. PICK path \in [0..k -> Node] :
          /\ path[0] = n /\ path[k] = Owner[e]
          /\ \A i \in 1..k : \E d \in End : Owner[d] = path[i - 1] /\ Owner[Other[d]] = path[i]
  BY DEF Walk, Walks
<1>. DEFINE longer == [i \in 0..k + 1 |-> IF i = k + 1 THEN Owner[Other[e]] ELSE path[i]]
<1>2. longer \in [0..k + 1 -> Node]
  BY OverlayAssumption
<1>3. longer[0] = n /\ longer[k + 1] = Owner[Other[e]] /\ longer[k] = Owner[e]
  BY <1>1
<1>4. ASSUME NEW i \in 1..k + 1
      PROVE  \E d \in End : Owner[d] = longer[i - 1] /\ Owner[Other[d]] = longer[i]
  <2>1. CASE i = k + 1
    BY <1>3, <2>1
  <2>2. CASE i # k + 1
    <3>1. i \in 1..k /\ longer[i] = path[i] /\ longer[i - 1] = path[i - 1]
      BY <2>2
    <3>. QED  BY <1>1, <3>1
  <2>. QED  BY <2>1, <2>2
<1>. HIDE DEF longer
<1>. QED  BY <1>2, <1>3, <1>4 DEF Walk, Walks

LEMMA WalkOne ==
    ASSUME NEW e \in End PROVE Walk(Owner[e], 1, Owner[Other[e]])
<1>1. Owner[e] \in Node
  BY OverlayAssumption
<1>2. Walk(Owner[e], 0, Owner[e])
  <2>. DEFINE path == [i \in 0..0 |-> Owner[e]]
  <2>1. path \in [0..0 -> Node] /\ path[0] = Owner[e]
    BY <1>1
  <2>2. \A i \in 1..0 : FALSE
    OBVIOUS
  <2>. HIDE DEF path
  <2>. QED  BY <2>1, <2>2 DEF Walk, Walks
<1>3. Walk(Owner[e], 0 + 1, Owner[Other[e]])
  BY <1>1, <1>2, WalkOn
<1>. QED  BY <1>3

LEMMA FloodKept ==
    ASSUME SoundInv, FloodWithinHops, HopsStay, NEW E, NEW msg, Queued(E, msg),
           \A x \in End : Other[x] \in E => ReqNear(msg, Owner[x], created'),
           \A n \in Node, s \in Sid : fwd[n][s] = NoEntry /\ fwd'[n][s] # NoEntry =>
               RelayNear(n, s, created')
    PROVE  FloodWithinHops'
<1>1. ASSUME NEW x \in End, NEW i \in 1..Len(chan'[x])
      PROVE  ReqNear(chan'[x][i], Owner[x], created')
  <2>1. ASSUME NEW j \in 1..Len(chan[x]), chan'[x][i] = chan[x][j]
        PROVE  ReqNear(chan'[x][i], Owner[x], created')
    <3>1. ReqNear(chan[x][j], Owner[x], created)
      BY FloodByParts
    <3>2. chan[x][j].sid \in Sid
      BY DEF SoundInv, TypeOK, Message
    <3>3. created[chan[x][j].sid] # NoEntry
      BY DEF SoundInv, MessagesSound, MsgSound
    <3>. QED  BY <2>1, <3>1, <3>2, <3>3 DEF HopsStay, ReqNear
  <2>. QED  BY <2>1 DEF Queued
<1>2. ASSUME NEW n \in Node, NEW s \in Sid, fwd'[n][s] # NoEntry
      PROVE  RelayNear(n, s, created')
  <2>1. CASE fwd[n][s] = NoEntry
    BY <1>2, <2>1
  <2>2. CASE fwd[n][s] # NoEntry
    <3>1. RelayNear(n, s, created)
      BY <2>2, FloodByParts
    <3>2. created[s] # NoEntry
      BY <2>2 DEF SoundInv, RelaysSound, HitsFor
    <3>. QED  BY <3>1, <3>2 DEF HopsStay, RelayNear
  <2>. QED  BY <2>1, <2>2
<1>. HIDE DEF ReqNear, RelayNear
<1>3. (FloodWithinHops <=>
        /\ \A x \in End : \A i \in 1..Len(chan[x]) : ReqNear(chan[x][i], Owner[x], created)
        /\ \A n \in Node, s \in Sid : fwd[n][s] # NoEntry => RelayNear(n, s, created))'
  BY FloodByParts, PTL
<1>. QED  BY <1>1, <1>2, <1>3

\* A request that is forwarded goes one hop on, and every relay is where a request
\* has come.
LEMMA RequestNear ==
    ASSUME SoundInv, FloodWithinHops, NEW e \in End,
           ReqProcessed(e) \/ ReqFound(e) \/ ReqForward(e) \/ ReqDeadEnd(e)
    PROVE  FloodWithinHops'
<1>. DEFINE n == Owner[e]
            req == Head(chan[e])
<1>1. /\ TypeOK /\ chan[e] # <<>> /\ chan \in Channels /\ n \in Node /\ req.sid \in Sid
      /\ req.hop \in Nat \ {0} /\ req.word \in Word /\ req.type = "REQ"
      /\ created[req.sid] # NoEntry
  <2>1. TypeOK /\ chan[e] # <<>> /\ req.type = "REQ" /\ chan \in Channels
    BY DEF SoundInv, TypeOK, ReqProcessed, ReqFound, ReqForward, ReqDeadEnd, Fresh, Receives,
           Channels
  <2>2. 1 \in 1..Len(chan[e]) /\ req = chan[e][1]
    BY <2>1, ConsumedQueues
  <2>3. created[req.sid] # NoEntry
    BY <2>2 DEF SoundInv, MessagesSound, MsgSound
  <2>. QED  BY <2>1, <2>3, ReadMessage
<1>2. ReqNear(req, n, created)
  <2>1. 1 \in 1..Len(chan[e]) /\ req = chan[e][1]
    BY <1>1, ConsumedQueues
  <2>. QED  BY <2>1, FloodByParts
<1>3. UNCHANGED created /\ HopsStay
  BY DEF ReqProcessed, ReqFound, ReqForward, ReqDeadEnd, HopsStay
<1>4. RelayNear(n, req.sid, created')
  <2>. DEFINE hop == created[req.sid].hop
  <2>1. req.hop \in 1..hop /\ Walk(req.sid[1], hop - req.hop + 1, n)
    BY <1>1, <1>2 DEF ReqNear
  <2>2. hop \in Nat \ {0}
    BY <1>1 DEF TypeOK, Searches
  <2>3. hop - req.hop + 1 \in 1..hop
    BY <2>1, <2>2
  <2>. QED  BY <1>3, <2>1, <2>3 DEF RelayNear
<1>5. \A m \in Node, s \in Sid : fwd[m][s] = NoEntry /\ fwd'[m][s] # NoEntry =>
          RelayNear(m, s, created')
  <2>1. \A m \in Node, s \in Sid : fwd[m][s] = NoEntry /\ fwd'[m][s] # NoEntry =>
            m = n /\ s = req.sid
    BY <1>1 DEF ReqProcessed, ReqFound, ReqForward, ReqDeadEnd, TypeOK
  <2>. HIDE DEF n, req
  <2>. QED  BY <1>4, <2>1
<1>6. ASSUME NEW E \in SUBSET End, NEW msg \in Message, chan' = SendOn(Consumed(e), E, msg),
             \A x \in End : Other[x] \in E => ReqNear(msg, Owner[x], created')
      PROVE  FloodWithinHops'
  <2>1. Queued(E, msg)
    BY <1>1, <1>6, AnsweredOn DEF Queued
  <2>. QED  BY <1>3, <1>5, <1>6, <2>1, FloodKept
<1>7. ASSUME NEW hits \in SUBSET Hit, chan' = SendOn(Consumed(e), {e}, Response(req.sid, hits))
      PROVE  FloodWithinHops'
  <2>1. Response(req.sid, hits) \in Message
    BY <1>1, MessageTypes
  <2>2. \A x \in End : ReqNear(Response(req.sid, hits), Owner[x], created')
    BY DEF ReqNear, Response
  <2>. HIDE DEF n, req
  <2>. QED  BY <1>6, <1>7, <2>1, <2>2
<1>8. CASE ReqProcessed(e) \/ ReqDeadEnd(e)
  BY <1>7, <1>8 DEF ReqProcessed, ReqDeadEnd
<1>9. CASE ReqFound(e)
  <2>1. {OwnHit(e, req.word)} \in SUBSET Hit
    BY <1>1, <1>9 DEF ReqFound, OwnHit, Hit, Holds, TypeOK
  <2>2. chan' = SendOn(Consumed(e), {e}, Response(req.sid, {OwnHit(e, req.word)}))
    BY <1>9 DEF ReqFound
  <2>. QED  BY <1>7, <2>1, <2>2
<1>10. CASE ReqForward(e)
  <2>. DEFINE msg == Request(req.sid, HopsLeft(req), req.word)
              hop == created[req.sid].hop
  <2>1. chan' = SendOn(Consumed(e), ForwardTo(e), msg) /\ ForwardTo(e) \in SUBSET End
    BY <1>10 DEF ReqForward, ForwardTo, ConnectedPeers
  <2>2. HopsLeft(req) \in Nat \ {0} /\ HopsLeft(req) = req.hop - 1
    BY <1>1, <1>10 DEF ReqForward, LastHop, HopsLeft
  <2>3. msg \in Message
    BY <1>1, <2>2, MessageTypes
  <2>4. req.hop \in 1..hop /\ Walk(req.sid[1], hop - req.hop + 1, n) /\ hop \in Nat \ {0}
    BY <1>1, <1>2 DEF ReqNear, TypeOK, Searches
  <2>5. ASSUME NEW x \in End, Other[x] \in ForwardTo(e)
        PROVE  ReqNear(msg, Owner[x], created')
    <3>1. Other[x] \in End /\ Owner[Other[x]] = n /\ Other[Other[x]] = x
      BY <2>5, OverlayAssumption DEF ForwardTo, ConnectedPeers
    <3>2. req.sid[1] \in Node /\ hop - req.hop + 1 \in Nat
      BY <1>1, <2>4 DEF Sid
    <3>3. Walk(req.sid[1], (hop - req.hop + 1) + 1, Owner[x])
      <4>1. Walk(req.sid[1], hop - req.hop + 1, Owner[Other[x]])
        BY <2>4, <3>1
      <4>. HIDE DEF n, req, hop
      <4>. QED  BY <3>1, <3>2, <4>1, WalkOn
    <3>4. (hop - req.hop + 1) + 1 = hop - HopsLeft(req) + 1 /\ HopsLeft(req) \in 1..hop
      BY <1>1, <2>2, <2>4
    <3>5. msg.sid = req.sid /\ msg.hop = HopsLeft(req)
      BY DEF Request
    <3>. QED  BY <1>3, <3>3, <3>4, <3>5 DEF ReqNear
  <2>. HIDE DEF msg, n, req
  <2>. QED  BY <1>6, <2>1, <2>3, <2>5
<1>. QED  BY <1>8, <1>9, <1>10

LEMMA ResponseNear ==
    ASSUME SoundInv, FloodWithinHops, NEW e \in End,
           RespCollect(e) \/ RespComplete(e) \/ RespInTime(e) \/ RespLate(e)
    PROVE  FloodWithinHops'
<1>. DEFINE n == Owner[e]
            resp == Head(chan[e])
            entry == Counted(fwd[n][resp.sid], resp)
<1>1. /\ TypeOK /\ chan[e] # <<>> /\ chan \in Channels /\ n \in Node /\ resp.sid \in Sid
      /\ resp \in Message /\ resp.hits \in SUBSET Hit
  BY ReadMessage DEF SoundInv, RespCollect, RespComplete, RespInTime, RespLate,
                     ForRelay, ForCreator, Receives, TypeOK, Channels
<1>2. \A m \in Node, s \in Sid : ~(fwd[m][s] = NoEntry /\ fwd'[m][s] # NoEntry)
  <2>1. CASE RespCollect(e) \/ RespComplete(e)
    <3>1. fwd[n][resp.sid] # NoEntry
      BY <1>1, <2>1 DEF RespCollect, RespComplete, ForRelay
    <3>2. \E ent : fwd' = [fwd EXCEPT ![n][resp.sid] = ent]
      BY <2>1 DEF RespCollect, RespComplete
    <3>3. \A m \in Node, s \in Sid : m # n \/ s # resp.sid => fwd'[m][s] = fwd[m][s]
      BY <1>1, <3>2 DEF TypeOK
    <3>. HIDE DEF n, resp
    <3>. QED  BY <3>1, <3>3
  <2>2. CASE RespInTime(e) \/ RespLate(e)
    BY <2>2 DEF RespInTime, RespLate
  <2>. QED  BY <2>1, <2>2
<1>3. HopsStay
  <2>1. CASE RespInTime(e)
    <3>. DEFINE old == created[resp.sid]
                new == [old EXCEPT !.status = IF resp.hits # {} THEN "SUCCESS" ELSE @,
                                   !.hits = @ \cup resp.hits]
    <3>1. old \in Searches
      BY <1>1, <2>1 DEF RespInTime, ForCreator, TypeOK
    <3>2. new \in Searches /\ new # NoEntry /\ new.hop = old.hop
      BY <1>1, <3>1, NoEntryAssumption DEF Searches
    <3>3. created' = [created EXCEPT ![resp.sid] = new]
      BY <1>1, <2>1, <3>1 DEF RespInTime, TypeOK
    <3>4. \A s \in Sid : created'[s] = IF s = resp.sid THEN new ELSE created[s]
      BY <1>1, <3>3 DEF TypeOK
    <3>. HIDE DEF new, resp
    <3>. QED  BY <3>2, <3>4 DEF HopsStay
  <2>2. CASE UNCHANGED created
    BY <2>2 DEF HopsStay
  <2>. QED  BY <2>1, <2>2 DEF RespCollect, RespComplete, RespLate
<1>4. CASE chan' = Consumed(e)
  <2>1. Queued({}, resp)
    BY <1>1, <1>4, ConsumedQueues DEF Queued
  <2>. QED  BY <1>2, <1>3, <2>1, FloodKept
<1>5. CASE RespComplete(e)
  <2>. DEFINE msg == Response(resp.sid, entry.hits)
  <2>1. chan' = SendOn(Consumed(e), {entry.upstream}, msg)
    BY <1>5 DEF RespComplete
  <2>2. fwd[n][resp.sid] \in Relays
    <3>1. fwd[n][resp.sid] # NoEntry
      BY <1>5 DEF RespComplete, ForRelay
    <3>. QED  BY <1>1, <3>1 DEF TypeOK
  <2>3. entry.upstream \in End /\ entry.hits \in SUBSET Hit
    <3>1. fwd[n][resp.sid].hits \cup resp.hits \in SUBSET Hit /\ fwd[n][resp.sid].upstream \in End
      BY <1>1, <2>2 DEF Relays
    <3>. QED  BY <2>2, <3>1 DEF Counted, Relays
  <2>4. msg \in Message
    BY <1>1, <2>3, MessageTypes
  <2>5. \A x \in End : ReqNear(msg, Owner[x], created')
    BY DEF ReqNear, Response
  <2>. HIDE DEF msg, entry
  <2>6. Queued({entry.upstream}, msg)
    <3>1. {entry.upstream} \in SUBSET End
      BY <2>3
    <3>. HIDE DEF n, resp
    <3>2. \A x \in End : \A i \in 1..Len(SendOn(Consumed(e), {entry.upstream}, msg)[x]) :
              \/ SendOn(Consumed(e), {entry.upstream}, msg)[x][i] = msg
                 /\ Other[x] \in {entry.upstream}
              \/ \E j \in 1..Len(chan[x]) :
                    SendOn(Consumed(e), {entry.upstream}, msg)[x][i] = chan[x][j]
      BY <1>1, <2>4, <3>1, AnsweredOn
    <3>. QED  BY <2>1, <3>2 DEF Queued
  <2>. QED  BY <1>2, <1>3, <2>5, <2>6, FloodKept
<1>. QED  BY <1>4, <1>5 DEF RespCollect, RespInTime, RespLate

LEMMA MainNear ==
    ASSUME SoundInv, FloodWithinHops, NEW n \in Node, User(n) \/ Main(n)
    PROVE  FloodWithinHops'
<1>1. UNCHANGED fwd
  BY DEF User, Main, SearchUnasked, SearchStart, Choose, Attempt, WakeSuccess, WakeFailed
<1>2. CASE UNCHANGED chan /\ HopsStay
  <2>1. Queued({}, NoEntry)
    BY <1>2 DEF Queued
  <2>. QED  BY <1>1, <1>2, <2>1, FloodKept
<1>3. CASE Attempt(n)
  <2>. DEFINE sid == CurrentSid(n)
              hop == Hops[try[n]]
              msg == Request(sid, hop, word[n])
  <2>1. /\ sid \in Sid /\ sid[1] = n /\ word[n] \in Word /\ hop \in Nat \ {0}
    BY <1>3, SearchAssumption
       DEF Attempt, SoundInv, TypeOK, Places, CurrentSid, Sid, Attempts
  <2>2. created[sid] = NoEntry
    <3>1. pc[n] = "attempt" /\ sid[2] = counter[n] /\ counter[n] \in Nat
      BY <1>3 DEF Attempt, CurrentSid, SoundInv, TypeOK
    <3>. QED  BY <2>1, <3>1 DEF SoundInv, IdsInOrder
  <2>3. \A s \in Sid : created'[s] = IF s = sid THEN ActiveSearch(word[n], hop) ELSE created[s]
    BY <1>3, <2>1 DEF Attempt, SoundInv, TypeOK
  <2>4. HopsStay /\ created'[sid].hop = hop
    BY <2>1, <2>2, <2>3 DEF HopsStay, ActiveSearch
  <2>5. chan' = SendOn(chan, ConnectedPeers(n), msg) /\ ConnectedPeers(n) \in SUBSET End
    BY <1>3 DEF Attempt, ConnectedPeers
  <2>6. msg \in Message /\ chan \in Channels
    BY <2>1, MessageTypes DEF SoundInv, TypeOK, Channels
  <2>7. ASSUME NEW x \in End, Other[x] \in ConnectedPeers(n)
        PROVE  ReqNear(msg, Owner[x], created')
    <3>1. Owner[Other[x]] = n /\ Other[x] \in End /\ Other[Other[x]] = x
      BY <2>7, OverlayAssumption DEF ConnectedPeers
    <3>2. Walk(n, 1, Owner[x])
      BY <3>1, WalkOne
    <3>3. hop - hop + 1 = 1 /\ hop \in 1..hop
      BY <2>1
    <3>. QED  BY <2>1, <2>4, <3>2, <3>3 DEF ReqNear, Request
  <2>. HIDE DEF msg
  <2>8. Queued(ConnectedPeers(n), msg)
    BY <2>5, <2>6, SentTo DEF Queued
  <2>. QED  BY <1>1, <2>4, <2>7, <2>8, FloodKept
<1>4. CASE WakeFailed(n)
  <2>. DEFINE sid == CurrentSid(n)
              new == [created[sid] EXCEPT !.status = "FAILED"]
  <2>1. sid \in Sid /\ created[sid] \in Searches /\ created' = [created EXCEPT ![sid] = new]
    BY <1>4 DEF WakeFailed, TimedOut, SoundInv, TypeOK, Places
  <2>2. new # NoEntry /\ new.hop = created[sid].hop
    BY <2>1, NoEntryAssumption DEF Searches
  <2>3. HopsStay
    BY <2>1, <2>2 DEF HopsStay, SoundInv, TypeOK
  <2>. QED  BY <1>2, <1>4, <2>3 DEF WakeFailed
<1>5. CASE UNCHANGED <<chan, created>>
  BY <1>2, <1>5 DEF HopsStay
<1>. QED  BY <1>3, <1>4, <1>5 DEF User, Main, SearchUnasked, SearchStart, Choose, WakeSuccess

\* A request has hops left that it has not walked, and reaches nobody who is further
\* away than its search allows, on any overlay: the unsigned hop_count of line 171
\* never wraps around.
THEOREM FloodStaysWithinHops == Spec => []FloodWithinHops
<1>1. Init => FloodWithinHops
  BY DEF Init, FloodWithinHops, Indexes
<1>2. SoundInv /\ FloodWithinHops /\ [Next]_vars => FloodWithinHops'
  <2>1. ASSUME FloodWithinHops, UNCHANGED vars PROVE FloodWithinHops'
    BY <2>1 DEF vars, FloodWithinHops, Indexes
  <2>2. ASSUME SoundInv, FloodWithinHops, NEW n \in Searchers, User(n) \/ Main(n)
        PROVE  FloodWithinHops'
    BY <2>2, SearchAssumption, MainNear
  <2>3. ASSUME SoundInv, FloodWithinHops, NEW e \in End, Listen(e) PROVE FloodWithinHops'
    BY <2>3, RequestNear, ResponseNear DEF Listen
  <2>. QED  BY <2>1, <2>2, <2>3 DEF Next
<1>. QED  BY <1>1, <1>2, SoundInvHolds, PTL DEF Spec

----------------------------------------------------------------------------
(* A hit travels once.  NoHitTwice is not inductive: a relay of the creator *)
(* that its own request came back to is not waiting, but keeps hits and may *)
(* send them; and a hit is only new if its peer has not answered before.    *)

\* Where a hit may be: place i of the queue of e, a relay or a list.
Pile == ({"response"} \X End \X (Nat \ {0})) \cup ({"relay", "list"} \X Node \X {0})

Collecting(n, s) == fwd[n][s] # NoEntry /\ fwd[n][s].received < fwd[n][s].needed

InResponse(p, s, h) ==
    /\ p[1] = "response" /\ p[3] \in 1..Len(chan[p[2]])
    /\ LET msg == chan[p[2]][p[3]] IN msg.type = "RESP" /\ msg.sid = s /\ h \in msg.hits

InRelay(p, s, h) ==
    p[1] = "relay" /\ Collecting(p[2], s) /\ h \in fwd[p[2]][s].hits

InList(p, s, h) ==
    p[1] = "list" /\ p[2] = s[1] /\ created[s] # NoEntry /\ h \in created[s].hits

Carries(p, s, h) == InResponse(p, s, h) \/ InRelay(p, s, h) \/ InList(p, s, h)

\* Hit h of search s is in one place, and its peer has answered.
OnceFor(s, h) ==
    /\ \A p, q \in Pile : Carries(p, s, h) /\ Carries(q, s, h) => p = q
    /\ \A p \in Pile : Carries(p, s, h) => fwd[h.peer][s] # NoEntry

WaitingCollects == \A n \in Node, s \in Sid : Waiting(n, s) => Collecting(n, s)

OnceInv == TypeOK /\ WaitingCollects /\ \A s \in Sid, h \in Hit : OnceFor(s, h)

LEMMA OnceInvImpliesNoHitTwice == OnceInv => NoHitTwice
<1>. SUFFICES ASSUME OnceInv, NEW s \in Sid, NEW p \in Piles(s), NEW q \in Piles(s), p.at # q.at
              PROVE  p.hits \cap q.hits = {}
  BY DEF NoHitTwice
<1>1. ASSUME NEW r \in Piles(s)
      PROVE  r.at \in Pile /\ \A h \in r.hits : h \in Hit /\ Carries(r.at, s, h)
  <2>1. ASSUME NEW e \in End, NEW i \in 1..Len(chan[e]),
               chan[e][i].type = "RESP", chan[e][i].sid = s,
               r = [at |-> <<"response", e, i>>, hits |-> chan[e][i].hits]
        PROVE  r.at \in Pile /\ \A h \in r.hits : h \in Hit /\ Carries(r.at, s, h)
    <3>1. chan[e][i].hits \in SUBSET Hit /\ i \in Nat \ {0}
      <4>1. chan[e][i] \in Message
        BY DEF OnceInv, TypeOK
      <4>. QED  BY <2>1, <4>1 DEF Message
    <3>. QED  BY <2>1, <3>1 DEF Pile, Carries, InResponse
  <2>2. ASSUME NEW n \in Node, Waiting(n, s), r = [at |-> <<"relay", n, 0>>, hits |-> fwd[n][s].hits]
        PROVE  r.at \in Pile /\ \A h \in r.hits : h \in Hit /\ Carries(r.at, s, h)
    <3>1. Collecting(n, s) /\ fwd[n][s].hits \in SUBSET Hit
      BY <2>2 DEF OnceInv, WaitingCollects, Collecting, TypeOK, Relays
    <3>. QED  BY <2>2, <3>1 DEF Pile, Carries, InRelay
  <2>3. ASSUME created[s] # NoEntry, r = [at |-> <<"list", s[1], 0>>, hits |-> created[s].hits]
        PROVE  r.at \in Pile /\ \A h \in r.hits : h \in Hit /\ Carries(r.at, s, h)
    <3>1. created[s].hits \in SUBSET Hit /\ s[1] \in Node
      BY <2>3 DEF OnceInv, TypeOK, Searches, Sid
    <3>. QED  BY <2>3, <3>1 DEF Pile, Carries, InList
  <2>. DEFINE answers(e) == {i \in Indexes(e) : chan[e][i].type = "RESP" /\ chan[e][i].sid = s}
              responses(e) == {[at |-> <<"response", e, i>>, hits |-> chan[e][i].hits] :
                                  i \in answers(e)}
              allResponses == UNION {responses(e) : e \in End}
              relays == {[at |-> <<"relay", n, 0>>, hits |-> fwd[n][s].hits] :
                            n \in {n \in Node : Waiting(n, s)}}
              lists == {[at |-> <<"list", c, 0>>, hits |-> created[s].hits] :
                            c \in {c \in {s[1]} : created[s] # NoEntry}}
  <2>4. Piles(s) = allResponses \cup relays \cup lists
    BY DEF Piles
  <2>5. ASSUME NEW e \in End, r \in responses(e)
        PROVE  r.at \in Pile /\ \A h \in r.hits : h \in Hit /\ Carries(r.at, s, h)
    BY <2>1, <2>5 DEF Indexes
  <2>6. CASE r \in relays
    BY <2>2, <2>6
  <2>7. CASE r \in lists
    BY <2>3, <2>7
  <2>8. CASE r \in allResponses
    <3>. HIDE DEF responses
    <3>1. PICK e \in End : r \in responses(e)
      BY <2>8
    <3>. QED  BY <2>5, <3>1
  <2>. HIDE DEF allResponses, relays, lists
  <2>. QED  BY <2>4, <2>6, <2>7, <2>8
<1>. SUFFICES ASSUME NEW h \in p.hits, h \in q.hits PROVE FALSE
  OBVIOUS
<1>2. /\ p.at \in Pile /\ q.at \in Pile /\ h \in Hit
      /\ Carries(p.at, s, h) /\ Carries(q.at, s, h)
  BY <1>1
<1>. QED  BY <1>2 DEF OnceInv, OnceFor

\* Where the hit at p was before a message was read at e, unless it just came.
Shift(e) ==
    [p \in Pile |-> IF p[1] = "response" /\ p[2] = e THEN <<"response", e, p[3] + 1>> ELSE p]

FirstOf(e) == <<"response", e, 1>>

LEMMA ShiftType ==
    ASSUME NEW e \in End
    PROVE  /\ Shift(e) \in [Pile -> Pile] /\ FirstOf(e) \in Pile
           /\ \A p, q \in Pile : Shift(e)[p] = Shift(e)[q] => p = q
           /\ \A p \in Pile : Shift(e)[p] # FirstOf(e)
<1>1. ASSUME NEW p \in Pile
      PROVE  Shift(e)[p] \in Pile /\ Shift(e)[p] # FirstOf(e)
  BY DEF Shift, Pile, FirstOf
<1>2. ASSUME NEW p \in Pile, NEW q \in Pile, Shift(e)[p] = Shift(e)[q] PROVE p = q
  BY <1>2 DEF Shift, Pile
<1>3. FirstOf(e) \in Pile
  BY DEF FirstOf, Pile
<1>. QED  BY <1>1, <1>2, <1>3 DEF Shift

\* The hits in responses after a message was read at e and msg sent on E.
LEMMA ResponsesMoved ==
    ASSUME chan \in Channels, NEW e \in End, chan[e] # <<>>,
           NEW E \in SUBSET End, NEW msg \in Message, chan' = SendOn(Consumed(e), E, msg),
           NEW s, NEW h, NEW p \in Pile, InResponse(p, s, h)'
    PROVE  \/ /\ Other[p[2]] \in E /\ p[3] = Len(chan'[p[2]])
              /\ msg.type = "RESP" /\ msg.sid = s /\ h \in msg.hits
           \/ InResponse(Shift(e)[p], s, h)
<1>1. /\ p[1] = "response" /\ p[2] \in End /\ p[3] \in Nat \ {0} /\ p[3] \in 1..Len(chan'[p[2]])
      /\ chan'[p[2]][p[3]].type = "RESP" /\ chan'[p[2]][p[3]].sid = s
      /\ h \in chan'[p[2]][p[3]].hits
  BY DEF InResponse, Pile
<1>2. CASE /\ Other[p[2]] \in E /\ p[3] = Len(chan'[p[2]])
           /\ chan'[p[2]][p[3]] = msg
  BY <1>1, <1>2
<1>3. CASE /\ Before(e, p[2], p[3]) \in 1..Len(chan[p[2]])
           /\ chan'[p[2]][p[3]] = chan[p[2]][Before(e, p[2], p[3])]
  <2>1. /\ Shift(e)[p][1] = "response" /\ Shift(e)[p][2] = p[2]
        /\ Shift(e)[p][3] = Before(e, p[2], p[3])
    BY <1>1 DEF Shift, Before
  <2>. QED  BY <1>1, <1>3, <2>1 DEF InResponse
<1>4. \/ /\ Other[p[2]] \in E /\ p[3] = Len(SendOn(Consumed(e), E, msg)[p[2]])
         /\ SendOn(Consumed(e), E, msg)[p[2]][p[3]] = msg
      \/ /\ Before(e, p[2], p[3]) \in 1..Len(chan[p[2]])
         /\ SendOn(Consumed(e), E, msg)[p[2]][p[3]] = chan[p[2]][Before(e, p[2], p[3])]
  <2>1. p[2] \in End /\ p[3] \in 1..Len(SendOn(Consumed(e), E, msg)[p[2]])
    BY <1>1
  <2>. QED  BY <2>1, PlacesInQueues
<1>. QED  BY <1>2, <1>3, <1>4

\* Hit h stays where it is, but for the hits at src, which are now at dest.
LEMMA OnceMoved ==
    ASSUME NEW s \in Sid, NEW h \in Hit, OnceFor(s, h), NEW e \in End,
           \A n \in Node : fwd[n][s] # NoEntry => fwd'[n][s] # NoEntry,
           NEW dest, NEW src \in Pile, Carries(dest, s, h)' => Carries(src, s, h),
           \A p \in Pile : Carries(p, s, h)' /\ p # dest =>
               Carries(Shift(e)[p], s, h) /\ Shift(e)[p] # src
    PROVE  OnceFor(s, h)'
<1>. DEFINE old(p) == IF p = dest THEN src ELSE Shift(e)[p]
<1>1. ASSUME NEW p \in Pile, Carries(p, s, h)' PROVE old(p) \in Pile /\ Carries(old(p), s, h)
  BY <1>1, ShiftType
<1>2. ASSUME NEW p \in Pile, NEW q \in Pile, Carries(p, s, h)', Carries(q, s, h)' PROVE p = q
  <2>1. old(p) = old(q)
    <3>1. /\ old(p) \in Pile /\ Carries(old(p), s, h)
          /\ old(q) \in Pile /\ Carries(old(q), s, h)
      BY <1>1, <1>2
    <3>. HIDE DEF old
    <3>. QED  BY <3>1 DEF OnceFor
  <2>. QED  BY <1>2, <2>1, ShiftType
<1>3. ASSUME NEW p \in Pile, Carries(p, s, h)' PROVE fwd'[h.peer][s] # NoEntry
  <2>1. old(p) \in Pile /\ Carries(old(p), s, h)
    BY <1>1, <1>3
  <2>. HIDE DEF old
  <2>2. fwd[h.peer][s] # NoEntry /\ h.peer \in Node
    BY <2>1 DEF OnceFor, Hit
  <2>. QED  BY <2>2
<1>. QED  BY <1>2, <1>3 DEF OnceFor

\* Nothing but the queue moves.
LEMMA OnceShifted ==
    ASSUME NEW s \in Sid, NEW h \in Hit, OnceFor(s, h), NEW e \in End,
           \A n \in Node : fwd[n][s] # NoEntry => fwd'[n][s] # NoEntry,
           \A p \in Pile : Carries(p, s, h)' => Carries(Shift(e)[p], s, h)
    PROVE  OnceFor(s, h)'
<1>1. ASSUME NEW p \in Pile, NEW q \in Pile, Carries(p, s, h)', Carries(q, s, h)' PROVE p = q
  <2>1. Shift(e)[p] \in Pile /\ Shift(e)[q] \in Pile
    BY ShiftType
  <2>2. Shift(e)[p] = Shift(e)[q]
    BY <1>1, <2>1 DEF OnceFor
  <2>. QED  BY <2>2, ShiftType
<1>2. ASSUME NEW p \in Pile, Carries(p, s, h)' PROVE fwd'[h.peer][s] # NoEntry
  <2>1. Shift(e)[p] \in Pile /\ h.peer \in Node
    BY ShiftType DEF Hit
  <2>. QED  BY <1>2, <2>1 DEF OnceFor
<1>. QED  BY <1>1, <1>2 DEF OnceFor

\* A relay needs a reply from everyone it asks.
LEMMA RepliesFromAsked ==
    ASSUME NEW e \in End
    PROVE  /\ IsFiniteSet(ForwardTo(e)) /\ RepliesNeeded(Owner[e]) \in Nat
           /\ Cardinality(ForwardTo(e)) = RepliesNeeded(Owner[e])
           /\ ForwardTo(e) # {} => RepliesNeeded(Owner[e]) > 0
<1>. DEFINE P == ConnectedPeers(Owner[e])
            n == RepliesNeeded(Owner[e])
<1>1. IsFiniteSet(P) /\ e \in P
  BY OverlayAssumption, FS_Subset DEF ConnectedPeers
<1>2. IsFiniteSet(ForwardTo(e)) /\ Cardinality(ForwardTo(e)) = n
  BY <1>1, FS_RemoveElement DEF ForwardTo, RepliesNeeded
<1>3. n \in Nat
  BY RepliesNeededType
<1>4. Cardinality(ForwardTo(e)) = 0 <=> ForwardTo(e) = {}
  BY <1>2, FS_EmptySet
<1>. HIDE DEF n
<1>5. ForwardTo(e) # {} => n > 0
  BY <1>2, <1>3, <1>4
<1>. QED  BY <1>2, <1>3, <1>5 DEF n

LEMMA RequestOnce ==
    ASSUME OnceInv, NEW e \in End,
           ReqProcessed(e) \/ ReqFound(e) \/ ReqForward(e) \/ ReqDeadEnd(e)
    PROVE  OnceInv'
<1>. DEFINE n == Owner[e]
            req == Head(chan[e])
<1>1. /\ TypeOK /\ chan[e] # <<>> /\ chan \in Channels /\ n \in Node /\ req.sid \in Sid
      /\ req.hop \in Nat \ {0} /\ req.word \in Word
  BY ReadMessage DEF OnceInv, ReqProcessed, ReqFound, ReqForward, ReqDeadEnd, Fresh,
                     Receives, TypeOK, Channels
<1>2. UNCHANGED created /\ TypeOK'
  BY RequestType DEF OnceInv, ReqProcessed, ReqFound, ReqForward, ReqDeadEnd
\* The new relay of n, if any, has no hits, and waits only if it needs a reply.
<1>3. \/ fwd' = fwd
      \/ \E b \in BOOLEAN :
            /\ fwd[n][req.sid] = NoEntry
            /\ fwd' = [fwd EXCEPT ![n][req.sid] = Relay(e, b)]
            /\ b => RepliesNeeded(n) > 0
  BY RepliesFromAsked DEF ReqProcessed, ReqFound, ReqForward, ReqDeadEnd, Fresh
<1>4. \A m \in Node, s \in Sid :
          \/ fwd'[m][s] = fwd[m][s]
          \/ /\ fwd[m][s] = NoEntry /\ fwd'[m][s] # NoEntry /\ fwd'[m][s].hits = {}
             /\ fwd'[m][s].waiting => fwd'[m][s].received < fwd'[m][s].needed
  <2>1. ASSUME NEW b \in BOOLEAN, fwd[n][req.sid] = NoEntry,
               fwd' = [fwd EXCEPT ![n][req.sid] = Relay(e, b)], b => RepliesNeeded(n) > 0,
               NEW m \in Node, NEW s \in Sid
        PROVE  \/ fwd'[m][s] = fwd[m][s]
               \/ /\ fwd[m][s] = NoEntry /\ fwd'[m][s] # NoEntry /\ fwd'[m][s].hits = {}
                  /\ fwd'[m][s].waiting => fwd'[m][s].received < fwd'[m][s].needed
    <3>1. fwd'[m][s] = IF m = n /\ s = req.sid THEN Relay(e, b) ELSE fwd[m][s]
      BY <1>1, <2>1 DEF TypeOK
    <3>2. /\ Relay(e, b) # NoEntry /\ Relay(e, b).hits = {} /\ Relay(e, b).waiting = b
          /\ Relay(e, b).received = 0 /\ Relay(e, b).needed = RepliesNeeded(n)
      BY RelayType DEF Relay
    <3>. HIDE DEF n, req
    <3>. QED  BY <2>1, <3>1, <3>2
  <2>. HIDE DEF n, req
  <2>. QED  BY <1>3, <2>1
<1>5. WaitingCollects'
  BY <1>4 DEF OnceInv, WaitingCollects, Waiting, Collecting
<1>6. ASSUME NEW E \in SUBSET End, NEW msg \in Message, chan' = SendOn(Consumed(e), E, msg),
             NEW s \in Sid, NEW h \in Hit, msg.type = "RESP" /\ msg.sid = s => h \notin msg.hits
      PROVE  OnceFor(s, h)'
  <2>1. ASSUME NEW p \in Pile, Carries(p, s, h)' PROVE Carries(Shift(e)[p], s, h)
    <3>1. CASE InResponse(p, s, h)'
      BY <1>1, <1>6, <3>1, ResponsesMoved DEF Carries
    <3>2. CASE InRelay(p, s, h)'
      <4>1. p[1] = "relay" /\ p[2] \in Node /\ Shift(e)[p] = p
        BY <3>2 DEF InRelay, Pile, Shift
      <4>. QED  BY <1>4, <3>2, <4>1 DEF InRelay, Collecting, Carries
    <3>3. CASE InList(p, s, h)'
      <4>1. Shift(e)[p] = p
        BY <3>3 DEF InList, Shift
      <4>. QED  BY <1>2, <3>3, <4>1 DEF InList, Carries
    <3>. QED  BY <2>1, <3>1, <3>2, <3>3 DEF Carries
  <2>2. \A m \in Node : fwd[m][s] # NoEntry => fwd'[m][s] # NoEntry
    BY <1>4
  <2>. QED  BY <2>1, <2>2, OnceShifted DEF OnceInv
<1>7. CASE ~ReqFound(e)
  <2>1. \E E \in SUBSET End, msg \in Message :
            /\ chan' = SendOn(Consumed(e), E, msg)
            /\ msg.type = "RESP" => msg.hits = {}
    <3>1. CASE ReqForward(e)
      <4>1. chan' = SendOn(Consumed(e), ForwardTo(e), Request(req.sid, HopsLeft(req), req.word))
        BY <3>1 DEF ReqForward
      <4>2. ForwardTo(e) \in SUBSET End /\ HopsLeft(req) \in Nat \ {0}
        BY <1>1, <3>1 DEF ReqForward, LastHop, HopsLeft, ForwardTo, ConnectedPeers
      <4>3. /\ Request(req.sid, HopsLeft(req), req.word) \in Message
            /\ Request(req.sid, HopsLeft(req), req.word).type # "RESP"
        BY <1>1, <4>2, MessageTypes DEF Request
      <4>. HIDE DEF req
      <4>. QED  BY <4>1, <4>2, <4>3
    <3>2. CASE ReqProcessed(e) \/ ReqDeadEnd(e)
      <4>1. chan' = SendOn(Consumed(e), {e}, Response(req.sid, {}))
        BY <3>2 DEF ReqProcessed, ReqDeadEnd
      <4>2. Response(req.sid, {}) \in Message /\ Response(req.sid, {}).hits = {}
        BY <1>1, MessageTypes DEF Response
      <4>. HIDE DEF req
      <4>. QED  BY <4>1, <4>2
    <3>. QED  BY <1>7, <3>1, <3>2
  <2>2. \A s \in Sid, h \in Hit : OnceFor(s, h)'
    BY <1>6, <2>1
  <2>. QED  BY <1>2, <1>5, <2>2 DEF OnceInv
<1>8. CASE ReqFound(e)
  <2>. DEFINE hit == OwnHit(e, req.word)
              msg == Response(req.sid, {hit})
  <2>1. /\ fwd[n][req.sid] = NoEntry /\ fwd' = [fwd EXCEPT ![n][req.sid] = Relay(e, FALSE)]
        /\ chan' = SendOn(Consumed(e), {e}, msg)
    BY <1>8 DEF ReqFound, Fresh
  <2>2. hit \in Hit /\ hit.peer = n
    BY <1>1, <1>8 DEF ReqFound, OwnHit, Hit, Holds, TypeOK
  <2>3. msg \in Message /\ msg.type = "RESP" /\ msg.sid = req.sid /\ msg.hits = {hit}
    BY <1>1, <2>2, MessageTypes DEF Response
  <2>. HIDE DEF hit, msg
  <2>4. fwd'[n][req.sid] # NoEntry
    BY <1>1, <2>1, RelayType DEF TypeOK
  \* No hit of n was on its way, so the one in the answer is the only one.
  <2>5. ASSUME NEW s \in Sid, NEW h \in Hit, s = req.sid, h = hit
        PROVE  OnceFor(s, h)'
    <3>1. \A p \in Pile : ~Carries(p, s, h)
      BY <1>1, <2>1, <2>2, <2>5 DEF OnceInv, OnceFor
    <3>2. ASSUME NEW p \in Pile, Carries(p, s, h)'
          PROVE  p = <<"response", Other[e], Len(chan'[Other[e]])>>
      <4>1. ~InRelay(p, s, h)'
        <5>1. CASE p[1] = "relay"
          <6>1. p[2] \in Node /\ ~InRelay(p, s, h)
            BY <3>1, <5>1 DEF Pile, Carries
          <6>2. \/ fwd'[p[2]][s] = fwd[p[2]][s]
                \/ fwd'[p[2]][s].hits = {}
            BY <1>1, <1>4, <6>1
          <6>. HIDE DEF req
          <6>. QED  BY <5>1, <6>1, <6>2 DEF InRelay, Collecting
        <5>. QED  BY <5>1 DEF InRelay
      <4>2. ~InList(p, s, h)'
        <5>1. created' = created /\ ~InList(p, s, h)
          BY <1>2, <3>1 DEF Carries
        <5>. HIDE DEF req
        <5>. QED  BY <5>1 DEF InList
      <4>3. InResponse(p, s, h)'
        BY <3>2, <4>1, <4>2 DEF Carries
      <4>4. ~InResponse(Shift(e)[p], s, h)
        BY <3>1, ShiftType DEF Carries
      <4>5. Other[p[2]] \in {e} /\ p[3] = Len(chan'[p[2]])
        <5>1. {e} \in SUBSET End
          OBVIOUS
        <5>. HIDE DEF req, n
        <5>. QED  BY <1>1, <2>1, <2>3, <2>5, <4>3, <4>4, <5>1, ResponsesMoved
      <4>6. p[1] = "response" /\ p[2] \in End /\ p = <<p[1], p[2], p[3]>>
        BY <4>3 DEF InResponse, Pile
      <4>7. p[2] = Other[e]
        BY <4>5, <4>6, OverlayAssumption
      <4>. QED  BY <4>5, <4>6, <4>7
    <3>. HIDE DEF req, n
    <3>3. ASSUME NEW p \in Pile, NEW q \in Pile,
                 Carries(p, s, h)', Carries(q, s, h)'
          PROVE  p = q
      <4>. DEFINE new == <<"response", Other[e], Len(chan'[Other[e]])>>
      <4>1. p = new
        BY <3>2, <3>3
      <4>2. q = new
        BY <3>2, <3>3
      <4>. QED  BY <4>1, <4>2
    <3>4. fwd'[h.peer][s] # NoEntry
      BY <2>2, <2>4, <2>5
    <3>. QED  BY <3>3, <3>4 DEF OnceFor
  <2>6. ASSUME NEW s \in Sid, NEW h \in Hit, s # req.sid \/ h # hit
        PROVE  OnceFor(s, h)'
    <3>1. {e} \in SUBSET End
      OBVIOUS
    <3>2. msg.type = "RESP" /\ msg.sid = s => h \notin msg.hits
      BY <2>3, <2>6
    <3>. HIDE DEF req, n
    <3>. QED  BY <1>6, <2>1, <2>3, <3>1, <3>2
  <2>7. \A s \in Sid, h \in Hit : OnceFor(s, h)'
    <3>. HIDE DEF req
    <3>1. ASSUME NEW s \in Sid, NEW h \in Hit PROVE OnceFor(s, h)'
      <4>1. CASE s = req.sid /\ h = hit
        BY <2>5, <4>1
      <4>2. CASE s # req.sid \/ h # hit
        BY <2>6, <4>2
      <4>. QED  BY <4>1, <4>2
    <3>. QED  BY <3>1
  <2>. QED  BY <1>2, <1>5, <2>7 DEF OnceInv
<1>. QED  BY <1>7, <1>8

\* What a reply changes in the entry of a relay.
LEMMA RelayCounts ==
    ASSUME NEW old \in Relays, NEW resp, resp.hits \in SUBSET Hit
    PROVE  LET entry == Counted(old, resp)
               done == [entry EXCEPT !.waiting = FALSE]
           IN  /\ entry \in Relays /\ done \in Relays
               /\ entry.received = old.received + 1 /\ done.received = old.received + 1
               /\ entry.needed = old.needed /\ done.needed = old.needed
               /\ entry.hits = old.hits \cup resp.hits
               /\ entry.upstream = old.upstream /\ done.upstream = old.upstream
               /\ entry.waiting = old.waiting /\ done.waiting = FALSE
<1>1. old.received + 1 \in Nat /\ old.hits \cup resp.hits \in SUBSET Hit
  <2>1. old.received \in Nat /\ old.hits \in SUBSET Hit
    BY DEF Relays
  <2>. QED  BY <2>1
<1>2. LET entry == Counted(old, resp)
      IN  /\ entry \in Relays
          /\ entry.received = old.received + 1 /\ entry.needed = old.needed
          /\ entry.hits = old.hits \cup resp.hits /\ entry.upstream = old.upstream
          /\ entry.waiting = old.waiting
  BY <1>1, Zenon DEF Counted, Relays
<1>3. \A r \in Relays : LET done == [r EXCEPT !.waiting = FALSE]
                        IN  /\ done \in Relays /\ done.received = r.received
                            /\ done.needed = r.needed /\ done.upstream = r.upstream
                            /\ done.waiting = FALSE
  BY Zenon DEF Relays
<1>. QED  BY <1>2, <1>3

\* The hits of a response move into the relay, into the list or upstream.
LEMMA ResponseOnce ==
    ASSUME OnceInv, NEW e \in End,
           RespCollect(e) \/ RespComplete(e) \/ RespInTime(e) \/ RespLate(e)
    PROVE  OnceInv'
<1>. DEFINE n == Owner[e]
            resp == Head(chan[e])
            old == fwd[n][resp.sid]
            entry == Counted(old, resp)
<1>1. /\ TypeOK /\ chan[e] # <<>> /\ chan \in Channels /\ n \in Node /\ resp.sid \in Sid
      /\ resp \in Message /\ resp.type = "RESP" /\ resp.hits \in SUBSET Hit
  BY ReadMessage DEF OnceInv, RespCollect, RespComplete, RespInTime, RespLate,
                     ForRelay, ForCreator, Receives, TypeOK, Channels
<1>2. TypeOK'
  BY ResponseType DEF OnceInv
<1>3. ASSUME NEW s \in Sid, NEW h \in Hit, s = resp.sid, h \in resp.hits
      PROVE  Carries(FirstOf(e), s, h)
  <2>1. 1 \in 1..Len(chan[e]) /\ resp = chan[e][1]
    BY <1>1, ConsumedQueues
  <2>. QED  BY <1>1, <1>3, <2>1 DEF FirstOf, Carries, InResponse
<1>4. ASSUME chan' = Consumed(e), NEW s \in Sid, NEW h \in Hit,
             NEW p \in Pile, InResponse(p, s, h)'
      PROVE  Carries(Shift(e)[p], s, h)
  <2>1. {} \in SUBSET End /\ Consumed(e) \in Channels
    BY <1>1, ConsumedQueues
  <2>2. chan' = SendOn(Consumed(e), {}, resp)
    BY <1>4, <2>1, SendNone
  <2>. HIDE DEF resp
  <2>. QED  BY <1>1, <1>4, <2>1, <2>2, ResponsesMoved DEF Carries
<1>5. ASSUME ForRelay(e)
      PROVE  /\ old \in Relays /\ old # NoEntry /\ entry \in Relays
             /\ entry.received = old.received + 1 /\ entry.needed = old.needed
             /\ entry.hits = old.hits \cup resp.hits /\ entry.waiting = old.waiting
             /\ LET done == [entry EXCEPT !.waiting = FALSE]
                IN  /\ done \in Relays /\ done.received = entry.received
                    /\ done.needed = entry.needed /\ done.waiting = FALSE
  <2>1. old \in Relays /\ old # NoEntry
    BY <1>1, <1>5 DEF ForRelay, TypeOK
  <2>. HIDE DEF old, resp
  <2>. QED  BY <1>1, <2>1, RelayCounts
<1>6. ASSUME NEW ent \in Relays, ForRelay(e), fwd' = [fwd EXCEPT ![n][resp.sid] = ent]
      PROVE  /\ \A m \in Node, s \in Sid :
                   fwd'[m][s] = IF m = n /\ s = resp.sid THEN ent ELSE fwd[m][s]
             /\ \A m \in Node, s \in Sid : fwd[m][s] # NoEntry => fwd'[m][s] # NoEntry
  <2>1. ent # NoEntry
    BY NoEntryAssumption
  <2>. QED  BY <1>1, <1>6, <2>1 DEF TypeOK
<1>7. CASE RespCollect(e)
  <2>1. /\ ForRelay(e) /\ chan' = Consumed(e) /\ created' = created
        /\ fwd' = [fwd EXCEPT ![n][resp.sid] = entry] /\ entry.received # entry.needed
    BY <1>7 DEF RespCollect, HasAll
  <2>. HIDE DEF entry
  <2>2. entry.received < entry.needed <=> old.received < old.needed
    BY <1>5, <2>1 DEF Relays
  <2>. HIDE DEF n, resp, old
  <2>3. /\ \A m \in Node, s \in Sid :
              fwd'[m][s] = IF m = n /\ s = resp.sid THEN entry ELSE fwd[m][s]
        /\ \A m \in Node, s \in Sid : fwd[m][s] # NoEntry => fwd'[m][s] # NoEntry
    BY <1>5, <1>6, <2>1
  <2>4. \A m \in Node, s \in Sid : Collecting(m, s)' <=> Collecting(m, s)
    BY <1>5, <2>1, <2>2, <2>3, NoEntryAssumption DEF Collecting, old
  <2>5. WaitingCollects'
    BY <1>5, <2>1, <2>3, <2>4 DEF OnceInv, WaitingCollects, Waiting, old
  <2>6. ASSUME NEW s \in Sid, NEW h \in Hit, NEW p \in Pile, Carries(p, s, h)'
        PROVE  \/ Carries(Shift(e)[p], s, h)
               \/ s = resp.sid /\ h \in resp.hits /\ p = <<"relay", n, 0>>
    <3>1. CASE InResponse(p, s, h)'
      BY <1>4, <2>1, <3>1
    <3>2. CASE InRelay(p, s, h)'
      <4>1. p[1] = "relay" /\ p[2] \in Node /\ Shift(e)[p] = p /\ p = <<"relay", p[2], 0>>
        BY <3>2 DEF InRelay, Pile, Shift
      <4>2. Collecting(p[2], s) /\ h \in fwd'[p[2]][s].hits
        BY <2>4, <3>2, <4>1 DEF InRelay
      <4>3. CASE h \in fwd[p[2]][s].hits
        BY <4>1, <4>2, <4>3 DEF Carries, InRelay
      <4>4. CASE h \notin fwd[p[2]][s].hits
        BY <1>5, <2>1, <2>3, <4>1, <4>2, <4>4 DEF old
      <4>. QED  BY <4>3, <4>4
    <3>3. CASE InList(p, s, h)'
      <4>1. Shift(e)[p] = p
        BY <3>3 DEF InList, Shift
      <4>. QED  BY <2>1, <3>3, <4>1 DEF InList, Carries
    <3>. QED  BY <2>6, <3>1, <3>2, <3>3 DEF Carries
  <2>7. ASSUME NEW s \in Sid, NEW h \in Hit PROVE OnceFor(s, h)'
    <3>. DEFINE dest == <<"relay", n, 0>>
    <3>1. OnceFor(s, h) /\ \A m \in Node : fwd[m][s] # NoEntry => fwd'[m][s] # NoEntry
      BY <2>3 DEF OnceInv
    <3>2. CASE s = resp.sid /\ h \in resp.hits /\ ~Carries(dest, s, h)
      <4>1. FirstOf(e) \in Pile /\ Carries(FirstOf(e), s, h)
        BY <1>3, <3>2, ShiftType
      <4>2. \A p \in Pile : Carries(p, s, h)' /\ p # dest =>
                Carries(Shift(e)[p], s, h) /\ Shift(e)[p] # FirstOf(e)
        BY <2>6, ShiftType
      <4>. HIDE DEF dest
      <4>. QED  BY <3>1, <4>1, <4>2, OnceMoved
    <3>3. CASE ~(s = resp.sid /\ h \in resp.hits /\ ~Carries(dest, s, h))
      <4>1. Shift(e)[dest] = dest
        BY <1>1 DEF Shift, Pile
      <4>2. \A p \in Pile : Carries(p, s, h)' => Carries(Shift(e)[p], s, h)
        BY <2>6, <3>3, <4>1
      <4>. QED  BY <3>1, <4>2, OnceShifted
    <3>. QED  BY <3>2, <3>3
  <2>. QED  BY <1>2, <2>5, <2>7 DEF OnceInv
<1>8. CASE RespComplete(e)
  <2>. DEFINE up == entry.upstream
              msg == Response(resp.sid, entry.hits)
              done == [entry EXCEPT !.waiting = FALSE]
              dest == <<"response", Other[up], Len(chan'[Other[up]])>>
              relay == <<"relay", n, 0>>
  <2>1. /\ ForRelay(e) /\ chan' = SendOn(Consumed(e), {up}, msg) /\ created' = created
        /\ fwd' = [fwd EXCEPT ![n][resp.sid] = done] /\ entry.received = entry.needed
    BY <1>8 DEF RespComplete, HasAll
  <2>2. up \in End /\ {up} \in SUBSET End /\ entry.hits \in SUBSET Hit
    BY <1>5, <2>1 DEF Relays
  <2>3. msg \in Message /\ msg.type = "RESP" /\ msg.sid = resp.sid /\ msg.hits = entry.hits
    BY <1>1, <2>2, MessageTypes DEF Response
  <2>. HIDE DEF entry, msg
  <2>4. old.received < old.needed
    BY <1>5, <2>1 DEF Relays
  <2>5. done \in Relays /\ ~(done.received < done.needed) /\ done.waiting = FALSE
    <3>1. /\ done \in Relays /\ done.received = entry.received
          /\ done.needed = entry.needed /\ done.waiting = FALSE
      BY <1>5, <2>1
    <3>. HIDE DEF done
    <3>. QED  BY <2>1, <3>1 DEF Relays
  <2>. HIDE DEF done, n, resp, old, up
  <2>6. /\ \A m \in Node, s \in Sid :
              fwd'[m][s] = IF m = n /\ s = resp.sid THEN done ELSE fwd[m][s]
        /\ \A m \in Node, s \in Sid : fwd[m][s] # NoEntry => fwd'[m][s] # NoEntry
    BY <1>6, <2>1, <2>5
  <2>7. WaitingCollects'
    BY <2>5, <2>6 DEF OnceInv, WaitingCollects, Waiting, Collecting
  <2>8. ASSUME NEW s \in Sid, NEW h \in Hit, NEW p \in Pile, Carries(p, s, h)'
        PROVE  \/ Carries(Shift(e)[p], s, h) /\ (s = resp.sid => Shift(e)[p] # relay)
               \/ s = resp.sid /\ h \in entry.hits /\ p = dest
    <3>1. CASE InResponse(p, s, h)'
      <4>1. p[1] = "response" /\ p[2] \in End /\ p = <<"response", p[2], p[3]>>
        BY <3>1 DEF InResponse, Pile
      <4>2. \/ /\ Other[p[2]] \in {up} /\ p[3] = Len(chan'[p[2]])
               /\ msg.type = "RESP" /\ msg.sid = s /\ h \in msg.hits
            \/ InResponse(Shift(e)[p], s, h)
        BY <1>1, <2>1, <2>2, <2>3, <3>1, ResponsesMoved
      <4>3. Other[p[2]] = up => p[2] = Other[up]
        BY <4>1, OverlayAssumption
      <4>4. Shift(e)[p] # relay
        BY <4>1 DEF Shift
      <4>. QED  BY <2>3, <4>1, <4>2, <4>3, <4>4 DEF Carries
    <3>2. CASE InRelay(p, s, h)'
      <4>1. p[1] = "relay" /\ p[2] \in Node /\ Shift(e)[p] = p /\ p = <<"relay", p[2], 0>>
        BY <3>2 DEF InRelay, Pile, Shift
      <4>2. ~(p[2] = n /\ s = resp.sid)
        BY <2>5, <2>6, <3>2, <4>1 DEF InRelay, Collecting
      <4>3. fwd'[p[2]][s] = fwd[p[2]][s]
        BY <2>6, <4>1, <4>2
      <4>4. Carries(p, s, h)
        BY <3>2, <4>3 DEF InRelay, Collecting, Carries
      <4>. QED  BY <4>1, <4>2, <4>4
    <3>3. CASE InList(p, s, h)'
      <4>1. Shift(e)[p] = p /\ p[1] = "list"
        BY <3>3 DEF InList, Shift
      <4>. QED  BY <2>1, <3>3, <4>1 DEF InList, Carries
    <3>. QED  BY <2>8, <3>1, <3>2, <3>3 DEF Carries
  <2>9. ASSUME NEW s \in Sid, NEW h \in Hit PROVE OnceFor(s, h)'
    <3>1. OnceFor(s, h) /\ \A m \in Node : fwd[m][s] # NoEntry => fwd'[m][s] # NoEntry
      BY <2>6 DEF OnceInv
    <3>2. CASE s = resp.sid /\ h \in old.hits
      <4>1. relay \in Pile /\ Carries(relay, s, h)
        <5>1. Collecting(n, s) /\ h \in fwd[n][s].hits
          BY <1>5, <2>1, <2>4, <3>2 DEF Collecting, old
        <5>. QED  BY <1>1, <5>1 DEF Pile, Carries, InRelay
      <4>2. \A p \in Pile : Carries(p, s, h)' /\ p # dest =>
                Carries(Shift(e)[p], s, h) /\ Shift(e)[p] # relay
        BY <2>8, <3>2
      <4>. HIDE DEF dest, relay
      <4>. QED  BY <3>1, <4>1, <4>2, OnceMoved
    <3>3. CASE s = resp.sid /\ h \in resp.hits
      <4>1. FirstOf(e) \in Pile /\ Carries(FirstOf(e), s, h)
        BY <1>3, <3>3, ShiftType
      <4>2. \A p \in Pile : Carries(p, s, h)' /\ p # dest =>
                Carries(Shift(e)[p], s, h) /\ Shift(e)[p] # FirstOf(e)
        BY <2>8, ShiftType
      <4>. HIDE DEF dest
      <4>. QED  BY <3>1, <4>1, <4>2, OnceMoved
    <3>4. CASE s # resp.sid \/ (h \notin old.hits /\ h \notin resp.hits)
      <4>1. \A p \in Pile : Carries(p, s, h)' => Carries(Shift(e)[p], s, h)
        BY <1>5, <2>1, <2>8, <3>4
      <4>. QED  BY <3>1, <4>1, OnceShifted
    <3>. QED  BY <3>2, <3>3, <3>4
  <2>. QED  BY <1>2, <2>7, <2>9 DEF OnceInv
<1>9. CASE RespInTime(e)
  <2>. DEFINE open == created[resp.sid]
              new == [open EXCEPT !.status = IF resp.hits # {} THEN "SUCCESS" ELSE @,
                                  !.hits = @ \cup resp.hits]
  <2>1. chan' = Consumed(e) /\ fwd' = fwd /\ open \in Searches /\ open # NoEntry
    BY <1>1, <1>9 DEF RespInTime, ForCreator, TypeOK
  <2>2. new.hits = open.hits \cup resp.hits
    BY <2>1 DEF Searches
  <2>3. created' = [created EXCEPT ![resp.sid] = new]
    BY <1>1, <1>9, <2>1 DEF RespInTime, TypeOK
  <2>4. \A s \in Sid : created'[s] = IF s = resp.sid THEN new ELSE created[s]
    BY <1>1, <2>3 DEF TypeOK
  <2>. HIDE DEF new, resp
  <2>5. WaitingCollects'
    BY <2>1 DEF OnceInv, WaitingCollects, Waiting, Collecting
  <2>6. ASSUME NEW s \in Sid, NEW h \in Hit, NEW p \in Pile, Carries(p, s, h)'
        PROVE  \/ Carries(Shift(e)[p], s, h)
               \/ s = resp.sid /\ h \in resp.hits /\ p = <<"list", s[1], 0>>
    <3>1. CASE InResponse(p, s, h)'
      BY <1>4, <2>1, <3>1
    <3>2. CASE InRelay(p, s, h)'
      <4>1. Shift(e)[p] = p
        BY <3>2 DEF InRelay, Shift
      <4>. QED  BY <2>1, <3>2, <4>1 DEF InRelay, Collecting, Carries
    <3>3. CASE InList(p, s, h)'
      <4>1. Shift(e)[p] = p /\ p = <<"list", s[1], 0>> /\ p[1] = "list" /\ p[2] = s[1]
        BY <3>3 DEF InList, Shift, Pile
      <4>2. CASE created[s] # NoEntry /\ h \in created[s].hits
        BY <4>1, <4>2 DEF Carries, InList
      <4>3. CASE ~(created[s] # NoEntry /\ h \in created[s].hits)
        BY <2>1, <2>2, <2>4, <3>3, <4>1, <4>3 DEF InList
      <4>. QED  BY <4>2, <4>3
    <3>. QED  BY <2>6, <3>1, <3>2, <3>3 DEF Carries
  <2>7. ASSUME NEW s \in Sid, NEW h \in Hit PROVE OnceFor(s, h)'
    <3>. DEFINE dest == <<"list", s[1], 0>>
    <3>1. OnceFor(s, h) /\ \A m \in Node : fwd[m][s] # NoEntry => fwd'[m][s] # NoEntry
      BY <2>1 DEF OnceInv
    <3>2. CASE s = resp.sid /\ h \in resp.hits
      <4>1. FirstOf(e) \in Pile /\ Carries(FirstOf(e), s, h)
        BY <1>3, <3>2, ShiftType
      <4>2. \A p \in Pile : Carries(p, s, h)' /\ p # dest =>
                Carries(Shift(e)[p], s, h) /\ Shift(e)[p] # FirstOf(e)
        BY <2>6, ShiftType
      <4>. HIDE DEF dest
      <4>. QED  BY <3>1, <4>1, <4>2, OnceMoved
    <3>3. CASE ~(s = resp.sid /\ h \in resp.hits)
      <4>1. \A p \in Pile : Carries(p, s, h)' => Carries(Shift(e)[p], s, h)
        BY <2>6, <3>3
      <4>. QED  BY <3>1, <4>1, OnceShifted
    <3>. QED  BY <3>2, <3>3
  <2>. QED  BY <1>2, <2>5, <2>7 DEF OnceInv
<1>10. CASE RespLate(e)
  <2>1. chan' = Consumed(e) /\ fwd' = fwd /\ created' = created
    BY <1>10 DEF RespLate
  <2>2. WaitingCollects'
    BY <2>1 DEF OnceInv, WaitingCollects, Waiting, Collecting
  <2>3. ASSUME NEW s \in Sid, NEW h \in Hit, NEW p \in Pile, Carries(p, s, h)'
        PROVE  Carries(Shift(e)[p], s, h)
    <3>1. CASE InResponse(p, s, h)'
      BY <1>4, <2>1, <3>1
    <3>2. CASE (InRelay(p, s, h) \/ InList(p, s, h))'
      <4>1. Shift(e)[p] = p
        BY <3>2 DEF InRelay, InList, Shift
      <4>. QED  BY <2>1, <3>2, <4>1 DEF InRelay, InList, Collecting, Carries
    <3>. QED  BY <2>3, <3>1, <3>2 DEF Carries
  <2>4. ASSUME NEW s \in Sid, NEW h \in Hit PROVE OnceFor(s, h)'
    <3>1. OnceFor(s, h) /\ \A m \in Node : fwd[m][s] # NoEntry => fwd'[m][s] # NoEntry
      BY <2>1 DEF OnceInv
    <3>. QED  BY <2>3, <3>1, OnceShifted
  <2>. QED  BY <1>2, <2>2, <2>4 DEF OnceInv
<1>. QED  BY <1>7, <1>8, <1>9, <1>10

\* The main thread puts no hit anywhere.
LEMMA MainOnce ==
    ASSUME OnceInv, NEW n \in Node, User(n) \/ Main(n) PROVE OnceInv'
<1>1. fwd' = fwd /\ TypeOK'
  BY UserType, MainType DEF OnceInv, User, Main, SearchUnasked, SearchStart, Choose,
                            Attempt, WakeSuccess, WakeFailed
<1>2. WaitingCollects'
  BY <1>1 DEF OnceInv, WaitingCollects, Waiting, Collecting
<1>3. ASSUME \A p \in Pile, s \in Sid, h \in Hit : InResponse(p, s, h)' => InResponse(p, s, h),
             \A s \in Sid : \/ created'[s] = created[s] \/ created'[s].hits = {}
                            \/ (created[s] # NoEntry /\ created'[s].hits = created[s].hits)
      PROVE  OnceInv'
  <2>1. ASSUME NEW s \in Sid, NEW h \in Hit, NEW p \in Pile, Carries(p, s, h)'
        PROVE  Carries(p, s, h)
    <3>1. CASE InResponse(p, s, h)'
      BY <1>3, <3>1 DEF Carries
    <3>2. CASE InRelay(p, s, h)'
      BY <1>1, <3>2 DEF InRelay, Collecting, Carries
    <3>3. CASE InList(p, s, h)'
      BY <1>3, <3>3 DEF InList, Carries
    <3>. QED  BY <2>1, <3>1, <3>2, <3>3 DEF Carries
  <2>2. ASSUME NEW s \in Sid, NEW h \in Hit PROVE OnceFor(s, h)'
    BY <1>1, <2>1 DEF OnceInv, OnceFor
  <2>. QED  BY <1>1, <1>2, <2>2 DEF OnceInv
<1>4. CASE Attempt(n)
  <2>. DEFINE sid == CurrentSid(n)
              msg == Request(sid, Hops[try[n]], word[n])
              E == ConnectedPeers(n)
  <2>1. sid \in Sid /\ word[n] \in Word /\ Hops[try[n]] \in Nat \ {0}
    BY <1>4, SearchAssumption
       DEF Attempt, OnceInv, TypeOK, Places, CurrentSid, Sid, Attempts
  <2>2. msg \in Message /\ E \in SUBSET End /\ msg.type # "RESP"
    BY <2>1, MessageTypes DEF ConnectedPeers, Request
  <2>3. chan \in Channels /\ chan' = SendOn(chan, E, msg)
    BY <1>4 DEF Attempt, OnceInv, TypeOK, Channels
  <2>. HIDE DEF msg, E
  <2>4. ASSUME NEW p \in Pile, NEW s \in Sid, NEW h \in Hit, InResponse(p, s, h)'
        PROVE  InResponse(p, s, h)
    <3>1. /\ p[1] = "response" /\ p[2] \in End /\ p[3] \in 1..Len(chan'[p[2]])
          /\ chan'[p[2]][p[3]].type = "RESP"
      BY <2>4 DEF InResponse, Pile
    <3>2. p[3] \in 1..Len(chan[p[2]]) /\ chan'[p[2]][p[3]] = chan[p[2]][p[3]]
      BY <2>2, <2>3, <3>1, SentTo
    <3>. QED  BY <2>4, <3>2 DEF InResponse
  <2>5. \A s \in Sid : created'[s] = created[s] \/ created'[s].hits = {}
    BY <1>4, <2>1 DEF Attempt, OnceInv, TypeOK, ActiveSearch
  <2>. QED  BY <1>3, <2>4, <2>5
<1>5. CASE User(n) \/ WakeSuccess(n) \/ WakeFailed(n)
  <2>. UNCHANGED chan
    BY <1>5 DEF User, SearchUnasked, SearchStart, Choose, WakeSuccess, WakeFailed
  <2>1. \A p \in Pile, s \in Sid, h \in Hit : InResponse(p, s, h)' => InResponse(p, s, h)
    BY DEF InResponse
  <2>2. CASE WakeFailed(n)
    <3>. DEFINE sid == CurrentSid(n)
                new == [created[sid] EXCEPT !.status = "FAILED"]
    <3>1. /\ sid \in Sid /\ created[sid] \in Searches /\ created[sid] # NoEntry
          /\ created' = [created EXCEPT ![sid] = new]
      BY <2>2 DEF WakeFailed, TimedOut, OnceInv, TypeOK, Places
    <3>2. new.hits = created[sid].hits
      BY <3>1 DEF Searches
    <3>3. \A s \in Sid : \/ created'[s] = created[s]
                         \/ (created[s] # NoEntry /\ created'[s].hits = created[s].hits)
      BY <3>1, <3>2 DEF OnceInv, TypeOK
    <3>. QED  BY <1>3, <2>1, <3>3
  <2>3. CASE UNCHANGED created
    BY <1>3, <2>1, <2>3
  <2>. QED  BY <1>5, <2>2, <2>3
            DEF User, SearchUnasked, SearchStart, Choose, WakeSuccess
<1>. QED  BY <1>4, <1>5 DEF Main

\* On every overlay, its cycles and double connections included, a hit is never in two
\* places: the list that the user is shown has no duplicates though nobody removes them.
THEOREM HitsTravelOnce == Spec => []NoHitTwice
<1>1. Init => OnceInv
  <2>. SUFFICES ASSUME Init PROVE OnceInv
    OBVIOUS
  <2>1. TypeOK
    BY InitType
  <2>2. ASSUME NEW p \in Pile, NEW s \in Sid, NEW h \in Hit PROVE ~Carries(p, s, h)
    <3>1. ~InResponse(p, s, h)
      BY DEF Init, InResponse, Pile
    <3>2. ~InRelay(p, s, h)
      BY DEF Init, InRelay, Collecting, Pile
    <3>3. ~InList(p, s, h)
      BY DEF Init, InList
    <3>. QED  BY <3>1, <3>2, <3>3 DEF Carries
  <2>3. WaitingCollects
    BY DEF Init, WaitingCollects, Waiting
  <2>. QED  BY <2>1, <2>2, <2>3 DEF OnceInv, OnceFor
<1>2. OnceInv /\ [Next]_vars => OnceInv'
  <2>1. ASSUME OnceInv, UNCHANGED vars PROVE OnceInv'
    BY <2>1 DEF vars, OnceInv, TypeOK, Places, CurrentSid, WaitingCollects, Waiting,
                Collecting, OnceFor, Carries, InResponse, InRelay, InList
  <2>2. ASSUME OnceInv, NEW n \in Searchers, User(n) \/ Main(n) PROVE OnceInv'
    BY <2>2, SearchAssumption, MainOnce
  <2>3. ASSUME OnceInv, NEW e \in End, Listen(e) PROVE OnceInv'
    BY <2>3, RequestOnce, ResponseOnce DEF Listen
  <2>. QED  BY <2>1, <2>2, <2>3 DEF Next
<1>. QED  BY <1>1, <1>2, OnceInvImpliesNoHitTwice, PTL DEF Spec

=============================================================================
