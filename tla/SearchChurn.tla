----------------------------- MODULE SearchChurn -----------------------------
(***************************************************************************)
(* The flooding search while peers leave, crash and come back.  SimpleSearch *)
(* has an overlay that does not change, Overlay has no searches; here the    *)
(* relays of simple-search.cpp meet peers that are no longer there.          *)
(*                                                                         *)
(* One node searches, with hop counts that are large enough for the overlay. *)
(* Only a node with one peer leaves: what a leaving node with several peers   *)
(* does is the matter of Overlay.  An end e = <<n, m, k>> is the PeerDetails  *)
(* of n for its connection to m; k is the life of the searching node in which *)
(* the connection was made, 1 for those that exist at first.                  *)
(***************************************************************************)
EXTENDS Naturals, Sequences, FiniteSets

CONSTANTS
    Node,       \* the servers
    Links,      \* the connections at first, pairs of nodes
    Searcher,   \* the node whose user searches
    Entry,      \* the peer on its command line when it starts again
    Word,       \* the words
    Holds,      \* Holds[n]: the words that n has a file for
    Leavers,    \* the nodes that may be shut down
    Crashers,   \* the nodes whose process may end without a word
    MaxLives,   \* bound: how often the searching node is started
    MaxSid,     \* bound: MaxSid[k], how many search ids it uses in its k-th life
    NoEntry     \* "not in the map", "no socket"

ASSUME ChurnAssumption ==
    /\ IsFiniteSet(Node) /\ Links \subseteq Node \X Node
    /\ {Searcher, Entry} \subseteq Node /\ Searcher # Entry
    /\ Holds \in [Node -> SUBSET Word]
    /\ Leavers \cup Crashers \subseteq Node
    /\ MaxLives \in Nat \ {0} /\ MaxSid \in [1..MaxLives -> Nat]

End == Node \X Node \X (1..MaxLives)
Other(e) == <<e[2], e[1], e[3]>>

Sid == UNION {1..MaxSid[k] : k \in 1..MaxLives}    \* dcXY-i, dcXY being the searching node
Hit == Node \X Word

\* An entry of created_searches, and one of forwarded_searches.
Searches == [status : {"ACTIVE", "SUCCESS", "FAILED"}, hits : SUBSET Hit, word : Word,
             calm : BOOLEAN]
Relays == [received : Nat, needed : Nat, upstream : End, hits : SUBSET Hit,
           waiting : BOOLEAN, asked : SUBSET End]

ASSUME NoEntryAssumption == NoEntry \notin End \cup Searches \cup Relays

Request(s, w) == [type |-> "REQ", sid |-> s, word |-> w]
Response(s, hits) == [type |-> "RESP", sid |-> s, hits |-> hits]
Disconnect == [type |-> "DISCONNECT"]

VARIABLES
    alive,      \* the nodes whose process runs
    life,       \* how often the searching node was started
    listed,     \* the ends in connected_peers of their node
    connected,  \* the ends whose flag is set
    listens,    \* the ends whose listener is in its loop
    sock,       \* sock[e]: the end whose socket sock_fd of e refers to
    chan,       \* chan[e]: what was sent to e and not read yet
    pc,         \* where the main thread of the searching node is
    counter,    \* its search_counter
    created,    \* its created_searches
    fwd,        \* fwd[n]: forwarded_searches of n
    used,       \* history: the ids used in earlier lives
    reused      \* history: whether a closed descriptor, or the memory of a freed
                \* PeerDetails to which a relay still points, was given out again

conns == <<listed, connected, listens, sock>>
search == <<pc, counter, created>>
vars == <<alive, life, conns, chan, search, fwd, used, reused>>

----------------------------------------------------------------------------
EndsOf(n) == {e \in End : e[1] = n}
ConnectedPeers(n) == listed \cap EndsOf(n)

\* send_msg_to_peer on each of the ends E.  A message goes to whoever is at the
\* other side of the socket, if its listener still reads it.
SendOn(ch, E, msg) ==
    [r \in End |->
        ch[r] \o [i \in 1..Cardinality({e \in E \cap connected :
                        sock[e] # NoEntry /\ r \in listens /\ sock[e] = Other(r)}) |-> msg]]

\* downstream_replies_needed.  Faulty variant: the upstream peer counts as well.
RepliesNeededAll(n) == Cardinality(ConnectedPeers(n))
RepliesNeeded(n) == Cardinality(ConnectedPeers(n)) - 1

ForwardTo(e) == ConnectedPeers(e[1]) \ {e}

\* An entry of forwarded_searches.  "waiting" and "asked" are history: upstream has
\* no answer yet; the peers the request was sent to.
Relay(e, waiting) ==
    [received |-> 0, needed |-> RepliesNeeded(e[1]), upstream |-> e, hits |-> {},
     waiting |-> waiting, asked |-> IF waiting THEN ForwardTo(e) ELSE {}]

NoSearches == [s \in Sid |-> NoEntry]

Links1 == {<<p[1], p[2], 1>> : p \in Links}

Init ==
    /\ alive = Node /\ life = 1
    /\ listed = Links1 \cup {Other(e) : e \in Links1}
    /\ connected = listed /\ listens = listed
    /\ sock = [e \in End |-> IF e \in listed THEN e ELSE NoEntry]
    /\ chan = [e \in End |-> <<>>]
    /\ pc = "idle" /\ counter = 0 /\ created = NoSearches
    /\ fwd = [n \in Node |-> NoSearches]
    /\ used = {} /\ reused = FALSE

\* The process of n is gone, with all it knew and had not read.
Ends(n, ch) ==
    /\ alive' = alive \ {n}
    /\ listed' = listed \ EndsOf(n) /\ connected' = connected \ EndsOf(n)
    /\ listens' = listens \ EndsOf(n)
    /\ sock' = [e \in End |-> IF e \in EndsOf(n) THEN NoEntry ELSE sock[e]]
    /\ chan' = [e \in End |-> IF e \in EndsOf(n) THEN <<>> ELSE ch[e]]
    /\ fwd' = [fwd EXCEPT ![n] = NoSearches]
    /\ IF n = Searcher THEN pc' = "idle" /\ counter' = 0 /\ created' = NoSearches
                            /\ used' = used \cup 1..counter
       ELSE /\ UNCHANGED <<pc, counter, used>>
            /\ created' = [s \in Sid |-> IF created[s] = NoEntry THEN NoEntry
                                         ELSE [created[s] EXCEPT !.calm = FALSE]]
    /\ UNCHANGED <<life, reused>>

Dies(n) == n \in alive /\ Ends(n, chan)

----------------------------------------------------------------------------
(* simple_search of the searching node.                                    *)

\* Every peer that any node lists is connected and can answer.
Calm == \A e \in listed : e \in connected /\ Other(e) \in listens

\* An attempt, the first one of a search or the next one.  "calm" is history: since
\* then every peer could answer, and the id is new to the relays.
Attempt(w) ==
    LET s == counter + 1 IN
    /\ Searcher \in alive /\ pc = "idle" /\ s <= MaxSid[life]
    /\ w \notin Holds[Searcher] /\ ConnectedPeers(Searcher) # {}
    /\ counter' = s
    /\ created' = [created EXCEPT ![s] =
           [status |-> "ACTIVE", hits |-> {}, word |-> w, calm |-> Calm /\ s \notin used]]
    /\ chan' = SendOn(chan, ConnectedPeers(Searcher), Request(s, w))
    /\ pc' = "sleep"
    /\ UNCHANGED <<alive, life, conns, fwd, used, reused>>

\* The sleep is over.
Wake ==
    /\ pc = "sleep" /\ pc' = "idle"
    /\ created' = [created EXCEPT ![counter].status =
                       IF @ = "ACTIVE" THEN "FAILED" ELSE @]
    /\ UNCHANGED <<alive, life, conns, counter, chan, fwd, used, reused>>

----------------------------------------------------------------------------
(* handle_peer_msg, the listener of e.                                     *)

Receives(e, type) ==
    e \in listens /\ chan[e] # <<>> /\ Head(chan[e]).type = type

Consumed(e) == [chan EXCEPT ![e] = Tail(@)]

\* NO_PROCESSED to a request whose id is known.
Known(n, s) == fwd[n][s] # NoEntry

ReqProcessed(e) ==
    /\ Receives(e, "REQ") /\ Known(e[1], Head(chan[e]).sid)
    /\ chan' = SendOn(Consumed(e), {e}, Response(Head(chan[e]).sid, {}))
    /\ UNCHANGED <<alive, life, conns, search, fwd, used, reused>>

\* YES from a holder, NO from a node that has nobody else to ask.
ReqAnswered(e) ==
    LET n == e[1]
        req == Head(chan[e])
    IN
    /\ Receives(e, "REQ") /\ ~Known(n, req.sid)
    /\ req.word \in Holds[n] \/ ForwardTo(e) = {}
    /\ fwd' = [fwd EXCEPT ![n][req.sid] = Relay(e, FALSE)]
    /\ chan' = SendOn(Consumed(e), {e}, Response(req.sid, {<<n, req.word>>} \cap (Node \X Holds[n])))
    /\ UNCHANGED <<alive, life, conns, search, used, reused>>

ReqForward(e) ==
    LET n == e[1]
        req == Head(chan[e])
    IN
    /\ Receives(e, "REQ") /\ ~Known(n, req.sid)
    /\ req.word \notin Holds[n] /\ ForwardTo(e) # {}
    /\ fwd' = [fwd EXCEPT ![n][req.sid] = Relay(e, TRUE)]
    /\ chan' = SendOn(Consumed(e), ForwardTo(e), req)
    /\ UNCHANGED <<alive, life, conns, search, used, reused>>

\* The peer a relay answers: the end it keeps a pointer to.  Faulty variant: the peer
\* is looked up by its name.
UpstreamByName(entry) ==
    {e \in listed : e[1] = entry.upstream[1] /\ e[2] = entry.upstream[2]}
Upstream(entry) == {entry.upstream} \cap listed

\* The hits of a relay so far.  Faulty variant: those of the last reply only.
LastOnly(hits, more) == more
Collected(hits, more) == hits \cup more

\* A reply that a relay waits for; the last one goes upstream with all the hits.  The
\* PeerDetails of upstream may have been freed meanwhile: what is read there reads as
\* a peer that is not connected, or see RelayDies and Restart.
RespRelayed(e) ==
    LET n == e[1]
        resp == Head(chan[e])
        entry == [fwd[n][resp.sid] EXCEPT !.received = @ + 1, !.hits = Collected(@, resp.hits)]
        last == entry.received = entry.needed
    IN
    /\ Receives(e, "RESP") /\ Known(n, resp.sid)
    /\ fwd' = [fwd EXCEPT ![n][resp.sid] = [entry EXCEPT !.waiting = @ /\ ~last]]
    /\ chan' = IF last THEN SendOn(Consumed(e), Upstream(entry),
                                   Response(resp.sid, entry.hits))
               ELSE Consumed(e)
    /\ UNCHANGED <<alive, life, conns, search, used, reused>>

\* Or what lies there now is no PeerDetails: the process ends.
RelayDies(e) ==
    LET entry == fwd[e[1]][Head(chan[e]).sid] IN
    /\ Receives(e, "RESP") /\ Known(e[1], Head(chan[e]).sid)
    /\ entry.received + 1 = entry.needed /\ entry.upstream \notin listed
    /\ Dies(e[1])

\* A reply to the searching node, dropped after the timer expired or if it does not
\* know the search.
RespToCreator(e) ==
    LET resp == Head(chan[e]) IN
    /\ Receives(e, "RESP") /\ ~Known(e[1], resp.sid)
    /\ chan' = Consumed(e)
    /\ created' =
         IF e[1] # Searcher \/ created[resp.sid] = NoEntry THEN created
         ELSE IF created[resp.sid].status = "FAILED" THEN created
         ELSE [created EXCEPT ![resp.sid].status = IF resp.hits # {} THEN "SUCCESS" ELSE @,
                              ![resp.sid].hits = @ \cup resp.hits]
    /\ UNCHANGED <<alive, life, conns, pc, counter, fwd, used, reused>>

----------------------------------------------------------------------------
(* Connections that end.                                                   *)

\* The listener of e leaves its loop and closes the socket.
ListenerEnds(e) ==
    /\ listens' = listens \ {e}
    /\ sock' = [x \in End |-> IF sock[x] = e THEN NoEntry ELSE sock[x]]

HearDisconnect(e) ==
    /\ Receives(e, "DISCONNECT")
    /\ chan' = Consumed(e)
    /\ connected' = connected \ {e}
    /\ ListenerEnds(e)
    /\ UNCHANGED <<alive, life, listed, search, fwd, used, reused>>

\* read() fails after a reset.  The flag remains.  Without a reset read() returns 0,
\* and the listener goes on.
HearReset(e) ==
    /\ e \in listens /\ chan[e] = <<>> /\ Other(e) \notin listens
    /\ ListenerEnds(e)
    /\ UNCHANGED <<alive, life, listed, connected, chan, search, fwd, used, reused>>

\* monitor_connected_peers.
MonitorFrees(e) ==
    /\ e \in listed \ connected /\ e \notin listens
    /\ listed' = listed \ {e}
    /\ UNCHANGED <<alive, life, connected, listens, sock, chan, search, fwd, used, reused>>

----------------------------------------------------------------------------
(* Processes that end and start.                                           *)

\* terminate_server, disconnect_all_peers.  The user cannot ask for it during a search.
Leave(n) ==
    /\ n \in alive \cap Leavers /\ Cardinality(ConnectedPeers(n)) <= 1
    /\ n = Searcher => pc = "idle"
    /\ Ends(n, SendOn(chan, ConnectedPeers(n), Disconnect))

\* The process is killed, or a send() on a broken connection raises SIGPIPE.
Crash(n) == n \in Crashers /\ Dies(n)

\* Some relay keeps a pointer to e.
PointedTo(e) == \E s \in Sid : fwd[e[1]][s] # NoEntry /\ fwd[e[1]][s].upstream = e

\* The pointers to the memory in place are pointers to the end in.
Occupied(relays, place, in) ==
    [s \in Sid |-> IF relays[s] # NoEntry /\ relays[s].upstream \in place
                   THEN [relays[s] EXCEPT !.upstream = in] ELSE relays[s]]

\* The searching node starts again under its old name and connects to Entry, whose
\* accept() returns the lowest free descriptor: perhaps one that was closed.  The new
\* PeerDetails may lie where a relay still looks for the one that was freed.
Restart ==
    /\ Searcher \notin alive /\ Entry \in alive /\ life < MaxLives
    /\ LET out == <<Searcher, Entry, life + 1>>
           in == Other(out)
           closed == {e \in ConnectedPeers(Entry) : sock[e] = NoEntry}
           freed == {e \in EndsOf(Entry) \ listed : PointedTo(e)}
       IN
       /\ listed' = listed \cup {out, in} /\ connected' = connected \cup {out, in}
       /\ listens' = listens \cup {out, in}
       /\ \E again \in {{}} \cup {{e} : e \in closed}, place \in {{}} \cup {{e} : e \in freed} :
            /\ sock' = [e \in End |-> IF e = out THEN out
                                      ELSE IF e \in again \cup {in} THEN in ELSE sock[e]]
            /\ fwd' = [fwd EXCEPT ![Entry] = Occupied(@, place, in)]
            /\ reused' = (reused \/ again # {} \/ place # {})
    /\ life' = life + 1
    /\ alive' = alive \cup {Searcher}
    /\ UNCHANGED <<chan, search, used>>

----------------------------------------------------------------------------
Listener(e) ==
    \/ ReqProcessed(e) \/ ReqAnswered(e) \/ ReqForward(e) \/ RespRelayed(e)
    \/ RelayDies(e) \/ RespToCreator(e) \/ HearDisconnect(e) \/ HearReset(e)

Next ==
    \/ (\E w \in Word : Attempt(w)) \/ Wake \/ Restart
    \/ \E e \in End : Listener(e) \/ MonitorFrees(e)
    \/ \E n \in Node : Leave(n) \/ Crash(n)

Spec == Init /\ [][Next]_vars

----------------------------------------------------------------------------
(* Properties.                                                             *)

Quiet == \A e \in listens : chan[e] = <<>>

Waiting(n, s) == fwd[n][s] # NoEntry /\ fwd[n][s].waiting

\* The peer of e has gone, or is to be freed: no reply comes from there.
Lost(e) == e \notin listed \cap connected \/ Other(e) \notin listens

\* Lines 106 and 205-209: a relay that waits when no message is on its way waits for
\* a peer that is gone, but was counted, or for a relay that does so.  No other
\* order of leaving, crashing and coming back makes it wait.
WaitsForLost ==
    Quiet => \A n \in alive, s \in Sid : Waiting(n, s) =>
        \E e \in fwd[n][s].asked : Lost(e) \/ Waiting(e[2], s)

\* common.h:160: although the ids start again after a restart, what a user is shown
\* are answers to this search: a relay sends what it still had to answer on the old
\* connection.  Only a descriptor, or the memory of the upstream PeerDetails, that was
\* given out again leads it to the new one.
AnswersOwn ==
    \A s \in Sid : created[s] # NoEntry /\ ~reused =>
        \A hit \in created[s].hits : hit[2] = created[s].word

\* The overlays for which NewIdFinds holds: connected, but no longer without any one of
\* their connections; on others an answer may come to the searching node as a relay.
Crosses(p, part) == p[1] \in part <=> p[2] \notin part

Tree ==
    /\ \A part \in SUBSET Node : part \in {{}, Node} \/ \E p \in Links : Crosses(p, part)
    /\ \A p \in Links : \E part \in SUBSET Node : {q \in Links : Crosses(q, part)} = {p}

\* Whoever has a file does not ask its other peers for it, so of several that have a
\* file for a word none is in between.
HoldersApart == \A m, n \in Node : m # n /\ Holds[m] \cap Holds[n] # {} =>
    m # Entry /\ \A p, q \in Links : m \in {p[1], p[2]} \cap {q[1], q[2]} => p = q

\* And a search with an id that no earlier life used finds the file, while every peer
\* can answer: what happened to the overlay before does not matter.  An id used
\* before finds nothing behind a relay that remembers it.
NewIdFinds ==
    \A s \in Sid : Quiet /\ created[s] # NoEntry =>
        (created[s].calm /\ created[s].status # "FAILED" =>
           \A n \in alive : created[s].word \in Holds[n] =>
               <<n, created[s].word>> \in created[s].hits)

=============================================================================
