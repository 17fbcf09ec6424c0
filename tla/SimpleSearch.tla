---------------------------- MODULE SimpleSearch ----------------------------
(***************************************************************************)
(* The flooding search of simple-search.cpp, on an overlay that does not   *)
(* change while the searches run.                                          *)
(*                                                                         *)
(* Each node is one process: its main thread runs simple_search, and one   *)
(* listener thread per connection runs handle_peer_msg.  All of them work  *)
(* under the node's mutex srv_dtls->mtx, so a critical section is a step.  *)
(*                                                                         *)
(* A connection is a pair of ends.  An end is one PeerDetails object: the  *)
(* node that holds it is Owner[e], the object at the other side Other[e].  *)
(* Two nodes may have several connections, as the code permits.            *)
(***************************************************************************)
EXTENDS Naturals, Sequences, FiniteSets

CONSTANTS
    Node,       \* the P2P servers
    End,        \* the ends of the established connections
    Owner,      \* Owner[e]: the node whose connected_peers holds e
    Other,      \* Other[e]: the opposite end of the same connection
    Word,       \* what one can search: the file names and the keywords
    File,       \* the files
    NoFile,     \* "not in the index"
    Name,       \* Name[f]: the file name of f, as a word
    Keywords,   \* Keywords[f]: the keywords of f, as words
    Index0,     \* Index0[n][w]: the file n offers for w when it starts
    Searchers,  \* the nodes whose user searches
    NoEntry,    \* "not in the map"
    Hops,       \* hop counts of the successive attempts; <<1,2,4,8,16>> in the code
    MaxSid      \* bound: how many search ids one node may use up

Attempts == Len(Hops)

ASSUME OverlayAssumption ==
    /\ IsFiniteSet(Node) /\ IsFiniteSet(End)
    /\ Owner \in [End -> Node]
    /\ Other \in [End -> End]
    /\ \A e \in End : Other[e] # e /\ Other[Other[e]] = e

ASSUME IndexAssumption ==
    /\ NoFile \notin File
    /\ Name \in [File -> Word]
    /\ \A f, g \in File : Name[f] = Name[g] => f = g
    /\ Keywords \in [File -> SUBSET Word]
    /\ \A f, g \in File : Name[f] \notin Keywords[g]
    /\ Index0 \in [Node -> [Word -> File \cup {NoFile}]]

\* create_f_kw_index fills both indexes from the same lines: what a node offers
\* for a word is a file of that name or with that keyword, indexed by its name.
ASSUME Index0Assumption ==
    \A n \in Node, w \in Word, f \in File : Index0[n][w] = f =>
        /\ w \in {Name[f]} \cup Keywords[f]
        /\ Index0[n][Name[f]] = f

ASSUME SearchAssumption ==
    /\ Searchers \subseteq Node
    /\ Hops \in Seq(Nat \ {0}) /\ Attempts > 0
    /\ \A i \in 1..Attempts, j \in 1..Attempts : i < j => Hops[i] < Hops[j]
    /\ MaxSid \in Nat

Sid == Node \X (1..MaxSid)

\* dcXY-fname, one item of a YES response.
Hit == [peer : Node, file : File]

\* SEARCH-REQ_<sid>_<hop>_F|KW_<word>
Request(s, hop, w) == [type |-> "REQ", sid |-> s, hop |-> hop, word |-> w]

\* SEARCH-RESP_<sid>_YES_<hits>, or NO and NO_PROCESSED, which receivers do
\* not tell apart: here a response is a NO exactly when it has no hits.
Response(s, hits) == [type |-> "RESP", sid |-> s, hits |-> hits]

\* A request always has hops left, so the unsigned hop_count never wraps around.
Message == [type : {"REQ"}, sid : Sid, hop : Nat \ {0}, word : Word]
           \cup [type : {"RESP"}, sid : Sid, hits : SUBSET Hit]

\* An entry of created_searches, with the word and the hop count asked for, and
\* an entry of forwarded_searches, a tuple, with the history flag "waiting".
Searches == [status : {"ACTIVE", "SUCCESS", "FAILED"}, hits : SUBSET Hit,
             word : Word, hop : Nat \ {0}]
Relays == [received : Nat, needed : Nat, upstream : End, hits : SUBSET Hit,
           waiting : BOOLEAN]

ASSUME NoEntryAssumption == NoEntry \notin Searches \cup Relays

VARIABLES
    counter,    \* counter[n]: search_counter
    pc,         \* pc[n]: where the main thread is in simple_search
    word,       \* word[n]: its parameter search_word
    try,        \* try[n]: its attempt; its hop_count is Hops[try[n]]
    created,    \* created[s]: entry s of created_searches of node s[1]
    fwd,        \* fwd[n][s]: entry s of forwarded_searches of node n
    chan,       \* chan[e]: what the listener of e has still to read
    index       \* index[n][w]: searchable_f_index and searchable_kw_index

vars == <<counter, pc, word, try, created, fwd, chan, index>>

----------------------------------------------------------------------------
ConnectedPeers(n) == {e \in End : Owner[e] = n}

\* downstream_replies_needed.  Faulty variant: the upstream peer counts as well.
RepliesNeededAll(n) == Cardinality(ConnectedPeers(n))
RepliesNeeded(n) == Cardinality(ConnectedPeers(n)) - 1

\* send_msg_to_peer on each of the ends E, all of them connected.
SendOn(ch, E, msg) ==
    [x \in End |-> IF Other[x] \in E THEN Append(ch[x], msg) ELSE ch[x]]

Consumed(e) == [chan EXCEPT ![e] = Tail(@)]

Receives(e, type) == chan[e] # <<>> /\ Head(chan[e]).type = type

Holds(n, w) == index[n][w] # NoFile

\* The tuple (0, downstream_replies_needed, pr_dtls, {}) of forwarded_searches.
\* "waiting" is a history flag: the request of upstream is not yet answered.
Relay(e, waiting) ==
    [received |-> 0, needed |-> RepliesNeeded(Owner[e]), upstream |-> e,
     hits |-> {}, waiting |-> waiting]

\* The pair (SEARCH_ACTIVE, {}) of created_searches; the word and the hop count
\* are the locals of simple_search from which search_msg is made.
ActiveSearch(w, hop) ==
    [status |-> "ACTIVE", hits |-> {}, word |-> w, hop |-> hop]

Init ==
    /\ counter = [n \in Node |-> 0]
    /\ pc = [n \in Node |-> "idle"]
    /\ word = [n \in Node |-> NoEntry]
    /\ try = [n \in Node |-> 1]
    /\ created = [s \in Sid |-> NoEntry]
    /\ fwd = [n \in Node |-> [s \in Sid |-> NoEntry]]
    /\ chan = [e \in End |-> <<>>]
    /\ index = Index0

----------------------------------------------------------------------------
(* simple_search, the main thread of node n.                               *)

\* The search that asks nobody: the word is on this node, or it has no peer.
SearchUnasked(n, w) ==
    /\ pc[n] = "idle"
    /\ counter[n] < MaxSid
    /\ Holds(n, w) \/ ConnectedPeers(n) = {}
    /\ counter' = [counter EXCEPT ![n] = @ + 1]
    /\ UNCHANGED <<pc, word, try, created, fwd, chan, index>>

SearchStart(n, w) ==
    /\ pc[n] = "idle"
    /\ counter[n] + Attempts <= MaxSid
    /\ ~Holds(n, w) /\ ConnectedPeers(n) # {}
    /\ counter' = [counter EXCEPT ![n] = @ + 1]
    /\ word' = [word EXCEPT ![n] = w]
    /\ try' = [try EXCEPT ![n] = 1]
    /\ pc' = [pc EXCEPT ![n] = "attempt"]
    /\ UNCHANGED <<created, fwd, chan, index>>

CurrentSid(n) == <<n, counter[n]>>

\* Five attempts.  Faulty variant: one more.
RetriesTooOften(n) == try[n] <= Attempts
Retries(n) == try[n] < Attempts

\* The timer expired.  Faulty variant: the search is not marked FAILED.
TimedOutUnmarked(s) == created
TimedOut(s) == [created EXCEPT ![s].status = "FAILED"]

\* get_search_id, a new entry of created_searches, the request to every peer.
Attempt(n) ==
    /\ pc[n] = "attempt"
    /\ created' = [created EXCEPT ![CurrentSid(n)] =
                       ActiveSearch(word[n], Hops[try[n]])]
    /\ chan' = SendOn(chan, ConnectedPeers(n),
                      Request(CurrentSid(n), Hops[try[n]], word[n]))
    /\ pc' = [pc EXCEPT ![n] = "sleep"]
    /\ UNCHANGED <<counter, word, try, fwd, index>>

\* sleep(hop_count) is over: the timer is not tied to the progress of the others.
WakeSuccess(n) ==
    /\ pc[n] = "sleep"
    /\ created[CurrentSid(n)].status = "SUCCESS"
    /\ pc' = [pc EXCEPT ![n] = "choose"]
    /\ UNCHANGED <<counter, word, try, created, fwd, chan, index>>

\* The attempt timed out, and there is a next one or not.
WakeFailed(n) ==
    /\ pc[n] = "sleep"
    /\ created[CurrentSid(n)].status = "ACTIVE"
    /\ created' = TimedOut(CurrentSid(n))
    /\ counter' = [counter EXCEPT ![n] = @ + 1]
    /\ \/ /\ Retries(n)
          /\ try' = [try EXCEPT ![n] = @ + 1]
          /\ pc' = [pc EXCEPT ![n] = "attempt"]
       \/ /\ ~Retries(n)
          /\ pc' = [pc EXCEPT ![n] = "idle"]
          /\ UNCHANGED try
    /\ UNCHANGED <<word, fwd, chan, index>>

\* request_file_download ended: n's indexes have the file's name, and those of
\* its keywords that the download brought.
Learn(n, f, K) ==
    index' = [index EXCEPT ![n] =
                 [w \in Word |-> IF w = Name[f] \/ w \in K THEN f ELSE @[w]]]

\* The user picks one of the hits or none.  The hits are read without the mutex:
\* the listeners may have added some since the thread woke up.
Choose(n) ==
    /\ pc[n] = "choose"
    /\ pc' = [pc EXCEPT ![n] = "idle"]
    /\ \/ UNCHANGED index
       \/ \E hit \in created[CurrentSid(n)].hits :
             \E K \in {{}, Keywords[hit.file]} : Learn(n, hit.file, K)
    /\ UNCHANGED <<counter, word, try, created, fwd, chan>>

----------------------------------------------------------------------------
(* handle_peer_msg, the listener of end e, on a SEARCH-REQ.                *)

\* Faulty variant of ReqProcessed: the copy of the request is not answered.
ReqProcessedSilently(e) ==
    /\ Receives(e, "REQ")
    /\ fwd[Owner[e]][Head(chan[e]).sid] # NoEntry
    /\ chan' = Consumed(e)
    /\ UNCHANGED <<counter, pc, word, try, created, fwd, index>>

\* This search is already in forwarded_searches: NO_PROCESSED.
ReqProcessed(e) ==
    /\ Receives(e, "REQ")
    /\ LET req == Head(chan[e]) IN
       /\ fwd[Owner[e]][req.sid] # NoEntry
       /\ chan' = SendOn(Consumed(e), {e}, Response(req.sid, {}))
    /\ UNCHANGED <<counter, pc, word, try, created, fwd, index>>

Fresh(e) ==
    /\ Receives(e, "REQ")
    /\ fwd[Owner[e]][Head(chan[e]).sid] = NoEntry

\* dcXY-fname of this node.  Faulty variant: of the node that asks.
AskersHit(e, w) == [peer |-> Owner[Other[e]], file |-> index[Owner[e]][w]]
OwnHit(e, w) == [peer |-> Owner[e], file |-> index[Owner[e]][w]]

\* The answer YES, and the search goes no further.
ReqFound(e) ==
    /\ Fresh(e)
    /\ LET n == Owner[e]
           req == Head(chan[e])
       IN
       /\ Holds(n, req.word)
       /\ fwd' = [fwd EXCEPT ![n][req.sid] = Relay(e, FALSE)]
       /\ chan' = SendOn(Consumed(e), {e},
                         Response(req.sid, {OwnHit(e, req.word)}))
    /\ UNCHANGED <<counter, pc, word, try, created, index>>

\* All peers but the one that asks.  Faulty variant: that one too.
ForwardToAll(e) == ConnectedPeers(Owner[e])
ForwardTo(e) == ConnectedPeers(Owner[e]) \ {e}

\* hop_count goes down by one, then it is compared with 0 and sent on.  Faulty
\* variants: it does not go down, and it is compared with 1.
HopsKept(req) == req.hop
HopsLeft(req) == req.hop - 1

LastHopEarly(req) == HopsLeft(req) <= 1
LastHop(req) == HopsLeft(req) = 0

\* The request goes on to every other peer.
ReqForward(e) ==
    /\ Fresh(e)
    /\ LET n == Owner[e]
           req == Head(chan[e])
       IN
       /\ ~Holds(n, req.word)
       /\ ~LastHop(req) /\ ForwardTo(e) # {}
       /\ fwd' = [fwd EXCEPT ![n][req.sid] = Relay(e, TRUE)]
       /\ chan' = SendOn(Consumed(e), ForwardTo(e),
                         Request(req.sid, HopsLeft(req), req.word))
    /\ UNCHANGED <<counter, pc, word, try, created, index>>

\* No hop left or nobody else to ask: NO.
ReqDeadEnd(e) ==
    /\ Fresh(e)
    /\ LET n == Owner[e]
           req == Head(chan[e])
       IN
       /\ ~Holds(n, req.word)
       /\ LastHop(req) \/ ForwardTo(e) = {}
       /\ fwd' = [fwd EXCEPT ![n][req.sid] = Relay(e, FALSE)]
       /\ chan' = SendOn(Consumed(e), {e}, Response(req.sid, {}))
    /\ UNCHANGED <<counter, pc, word, try, created, index>>

----------------------------------------------------------------------------
(* handle_peer_msg, the listener of end e, on a SEARCH-RESP.               *)

\* forwarded_searches is looked up first, at the node that created it too.
ForRelay(e) ==
    /\ Receives(e, "RESP")
    /\ fwd[Owner[e]][Head(chan[e]).sid] # NoEntry

\* The entry with one more reply, and whether that is the last one needed.  Faulty
\* variants: earlier hits are dropped, and every reply from the last one on counts.
CountedLast(entry, resp) ==
    [entry EXCEPT !.received = @ + 1, !.hits = resp.hits]
Counted(entry, resp) ==
    [entry EXCEPT !.received = @ + 1, !.hits = @ \cup resp.hits]

HasEnough(entry) == entry.received >= entry.needed
HasAll(entry) == entry.received = entry.needed

\* Not the last reply needed.  Replies after the last one end here as well.
RespCollect(e) ==
    /\ ForRelay(e)
    /\ LET n == Owner[e]
           resp == Head(chan[e])
           entry == Counted(fwd[n][resp.sid], resp)
       IN
       /\ ~HasAll(entry)
       /\ fwd' = [fwd EXCEPT ![n][resp.sid] = entry]
    /\ chan' = Consumed(e)
    /\ UNCHANGED <<counter, pc, word, try, created, index>>

\* The last reply needed: the consolidated response goes upstream.
RespComplete(e) ==
    /\ ForRelay(e)
    /\ LET n == Owner[e]
           resp == Head(chan[e])
           entry == Counted(fwd[n][resp.sid], resp)
       IN
       /\ HasAll(entry)
       /\ fwd' = [fwd EXCEPT ![n][resp.sid] = [entry EXCEPT !.waiting = FALSE]]
       /\ chan' = SendOn(Consumed(e), {entry.upstream},
                         Response(resp.sid, entry.hits))
    /\ UNCHANGED <<counter, pc, word, try, created, index>>

\* created_searches is each node's own: it has only entries with the node's name.
ForCreator(e) ==
    /\ Receives(e, "RESP")
    /\ fwd[Owner[e]][Head(chan[e]).sid] = NoEntry
    /\ Head(chan[e]).sid[1] = Owner[e]
    /\ created[Head(chan[e]).sid] # NoEntry

\* The search did not time out.  Faulty variant: nobody looks.
AlwaysOpen(s) == TRUE
StillOpen(s) == created[s].status \in {"ACTIVE", "SUCCESS"}

RespInTime(e) ==
    /\ ForCreator(e)
    /\ LET resp == Head(chan[e]) IN
       /\ StillOpen(resp.sid)
       /\ created' = [created EXCEPT
              ![resp.sid].status = IF resp.hits # {} THEN "SUCCESS" ELSE @,
              ![resp.sid].hits = @ \cup resp.hits]
    /\ chan' = Consumed(e)
    /\ UNCHANGED <<counter, pc, word, try, fwd, index>>

\* After the timer expired the response is dropped.
RespLate(e) ==
    /\ ForCreator(e)
    /\ ~StillOpen(Head(chan[e]).sid)
    /\ chan' = Consumed(e)
    /\ UNCHANGED <<counter, pc, word, try, created, fwd, index>>

----------------------------------------------------------------------------
User(n) == (\E w \in Word : SearchUnasked(n, w) \/ SearchStart(n, w)) \/ Choose(n)

Main(n) == Attempt(n) \/ WakeSuccess(n) \/ WakeFailed(n)

\* listen_to_peer: one message read and handled.
Listen(e) ==
    \/ ReqProcessed(e) \/ ReqFound(e) \/ ReqForward(e) \/ ReqDeadEnd(e)
    \/ RespCollect(e) \/ RespComplete(e) \/ RespInTime(e) \/ RespLate(e)

Next == (\E n \in Searchers : User(n) \/ Main(n)) \/ (\E e \in End : Listen(e))

Spec == Init /\ [][Next]_vars

\* The threads run and the timers expire; nobody makes a user type a command.  A
\* listener with a message to read stays able to read it, so fairness to the
\* listeners together is what the fairness of each gives.
FairSpec ==
    /\ Spec
    /\ \A n \in Searchers : WF_vars(Main(n))
    /\ WF_vars(\E e \in End : Listen(e))

----------------------------------------------------------------------------
(* Properties.                                                             *)

\* A running attempt has a search id inside the bound MaxSid, and an entry.
Places ==
    \A n \in Node :
        /\ pc[n] \in {"attempt", "sleep"} =>
               counter[n] \in 1..MaxSid - (Attempts - try[n]) /\ word[n] \in Word
        /\ pc[n] \in {"sleep", "choose"} =>
               CurrentSid(n) \in Sid /\ created[CurrentSid(n)] # NoEntry

\* The types of the variables, and what each place in simple_search relies on.
TypeOK ==
    /\ counter \in [Node -> 0..MaxSid + 1]
    /\ pc \in [Node -> {"idle", "attempt", "sleep", "choose"}]
    /\ word \in [Node -> Word \cup {NoEntry}]
    /\ try \in [Node -> 1..Attempts]
    /\ created \in [Sid -> Searches \cup {NoEntry}]
    /\ fwd \in [Node -> [Sid -> Relays \cup {NoEntry}]]
    /\ chan \in [End -> Seq(Message)]
    /\ index \in [Node -> [Word -> File \cup {NoFile}]]
    /\ Places

Indexes(e) == 1..Len(chan[e])

\* The request came back to the node that created the search.
LoopedBack(s) == fwd[s[1]][s] # NoEntry

Waiting(n, s) == fwd[n][s] # NoEntry /\ fwd[n][s].waiting

\* The search word s asks for matches f.
Matches(w, f) == w \in {Name[f]} \cup Keywords[f]

\* (m, f) may be offered for w: m has f in its searchable_f_index.
Offered(hit, w) == index[hit.peer][Name[hit.file]] = hit.file /\ Matches(w, hit.file)

\* Everything a YES says is true when it is said and remains so: each hit, in a
\* response on its way, collected by a relay or shown to the user (lines 411-447),
\* names a peer that has that file, and the file matches the word searched for.
HitsSound ==
    /\ \A e \in End : \A i \in Indexes(e) :
         LET msg == chan[e][i] IN msg.type = "RESP" =>
            \A hit \in msg.hits : Offered(hit, created[msg.sid].word)
    /\ \A n \in Node, s \in Sid :
         fwd[n][s] # NoEntry => \A hit \in fwd[n][s].hits : Offered(hit, created[s].word)
    /\ \A s \in Sid :
         created[s] # NoEntry => \A hit \in created[s].hits : Offered(hit, created[s].word)

\* The last branch of the SEARCH-RESP handler, "Invalid response message" (line
\* 268), is dead code: a response only reaches nodes that forwarded or created
\* the search, and by the connection on which they asked.
ResponsesSolicited ==
    \A e \in End : \A i \in Indexes(e) :
        LET msg == chan[e][i]
            n == Owner[e]
        IN msg.type = "RESP" =>
            \/ msg.sid[1] = n /\ created[msg.sid] # NoEntry
            \/ fwd[n][msg.sid] # NoEntry /\ fwd[n][msg.sid].upstream # e

\* How many messages of search s and this type are on their way to e.
InFlight(e, type, s) ==
    Cardinality({i \in Indexes(e) : chan[e][i].type = type /\ chan[e][i].sid = s})

\* What the owner of e is still owed at e for s: its request has not been read,
\* or the peer waits for others, or the answer has not been read.
Owed(e, s) ==
    LET x == Other[e] IN
    InFlight(x, "REQ", s) + InFlight(e, "RESP", s)
        + (IF Waiting(Owner[x], s) /\ fwd[Owner[x]][s].upstream = x THEN 1 ELSE 0)

\* Every request is answered exactly once, and a relay that still has to answer
\* misses exactly the replies that are still to come: it never answers before the
\* last one, and never waits for one nobody will send (lines 106, 114, 205-209).
\* Only a request that comes back to its creator breaks this.
EveryReplyCounted ==
    \A s \in Sid : ~LoopedBack(s) =>
        /\ \A e \in End : Owed(e, s) <= 1
        /\ \A n \in Node \ {s[1]} :
             Cardinality({e \in ConnectedPeers(n) : Owed(e, s) = 1}) =
                 IF Waiting(n, s) THEN fwd[n][s].needed - fwd[n][s].received ELSE 0


\* Where hits of s are kept on their way: a response, a relay that waits, or the
\* list that the creator shows to the user.
Piles(s) ==
    (UNION {{[at |-> <<"response", e, i>>, hits |-> chan[e][i].hits] :
                i \in {i \in Indexes(e) : /\ chan[e][i].type = "RESP"
                                          /\ chan[e][i].sid = s}} : e \in End})
    \cup {[at |-> <<"relay", n, 0>>, hits |-> fwd[n][s].hits] :
             n \in {n \in Node : Waiting(n, s)}}
    \cup {[at |-> <<"list", c, 0>>, hits |-> created[s].hits] :
             c \in {c \in {s[1]} : created[s] # NoEntry}}

\* No hit travels twice: a peer that has the file answers one request of the
\* search, and its hit goes up one path.  So the numbered list of lines 443-446,
\* which the code never rids of duplicates, has none.
NoHitTwice ==
    \A s \in Sid : \A p, q \in Piles(s) : p.at # q.at => p.hits \cap q.hits = {}

\* The walks of k connections from n.
Walks(n, k) ==
    {path \in [0..k -> Node] :
        /\ path[0] = n
        /\ \A i \in 1..k : \E e \in End : Owner[e] = path[i - 1] /\ Owner[Other[e]] = path[i]}

\* There is a walk of k connections from n to m.
Walk(n, k, m) == \E path \in Walks(n, k) : path[k] = m

\* The hop count limits the flood and never wraps around (it is unsigned, lines
\* 140 and 171): a request on its way has 1 to created.hop hops left, the others it
\* has used up on a walk to its receiver, and relays are within created.hop hops.
FloodWithinHops ==
    /\ \A e \in End : \A i \in Indexes(e) :
         LET msg == chan[e][i]
             hop == created[msg.sid].hop
         IN msg.type = "REQ" =>
            /\ msg.hop \in 1..hop
            /\ Walk(msg.sid[1], hop - msg.hop + 1, Owner[e])
    /\ \A n \in Node, s \in Sid :
         fwd[n][s] # NoEntry => \E k \in 1..created[s].hop : Walk(s[1], k, n)

\* Nothing of search s is on its way any more.
Quiet(s) ==
    /\ created[s] # NoEntry
    /\ \A e \in End : InFlight(e, "REQ", s) + InFlight(e, "RESP", s) = 0

\* When the flood is over every relay has answered, and unless the search timed
\* out each peer that it reached and that has had a file for the word all along is
\* on the list: no YES is lost on the way (README.md:5).  Only a request that
\* comes back to its creator breaks this.
EveryHolderReported ==
    \A s \in Sid : Quiet(s) =>
        /\ \A n \in Node : ~Waiting(n, s)
        /\ ~LoopedBack(s) /\ created[s].status # "FAILED" =>
             \A n \in Node :
                fwd[n][s] # NoEntry /\ Index0[n][created[s].word] # NoFile =>
                    \E hit \in created[s].hits : hit.peer = n

\* The connections by which one leaves a part of the overlay.
WaysOut(part) == {e \in End : Owner[e] \in part /\ Owner[Other[e]] \notin part}

\* No cycle: each connection is, at either end, the only one out of some part.
Forest == \A e \in End : \E part \in SUBSET Node : WaysOut(part) = {e}

\* README.md:5: "The search happens similar to a BFS traversal in a graph".  When
\* the flood is over it has reached every node that is within hop_count connections
\* of the creator, by a walk on which no node before it has the file.  True of an
\* overlay without cycles; on a cycle a copy that travels the long way can come first.
FloodCoversHops ==
    \A s \in Sid : Quiet(s) =>
        LET Asks(n) == n = s[1] \/ ~Holds(n, created[s].word) IN
        \A k \in 1..created[s].hop : \A path \in Walks(s[1], k) :
            (\A i \in 1..k - 1 : Asks(path[i])) => path[k] = s[1] \/ fwd[path[k]][s] # NoEntry

\* A holder the flood reached while the search was on is reported, without the
\* proviso of EveryHolderReported.  README.md:5: "If there are yes replies from
\* at least one peer, then the search initiator creates a direct connection".
NoYesSwallowed ==
    \A s \in Sid : Quiet(s) /\ created[s].status # "FAILED" =>
        \A n \in Node :
            fwd[n][s] # NoEntry /\ Index0[n][created[s].word] # NoFile =>
                \E hit \in created[s].hits : hit.peer = n

\* Every relay answers in the end, looped back or not: the replies it counts on
\* all come, as long as every peer stays connected and its threads run.  There are
\* MaxSid searches at most, so a relay that waits for ever is one after which there
\* is always some relay that waits.
RelaysAnswer == []<>(\A n \in Node, s \in Sid : ~Waiting(n, s))

\* What the user is promised: SearchService, of which this is an implementation.
Service == INSTANCE SearchService WITH created <- created, index <- index
ServiceSpec == Service!Spec

\* Under fairness, every attempt ends found or failed.
ServiceEnds == Service!EveryAttemptEnds

=============================================================================
