------------------------------- MODULE Overlay -------------------------------
(***************************************************************************)
(* The overlay of several servers: who is connected to whom while peers     *)
(* join and leave (p2p-server.cpp, and the connection messages that         *)
(* simple-search.cpp reads).                                               *)
(*                                                                         *)
(* A connection, or link, has two ends; an end is one PeerDetails object.   *)
(* The end <<l, "out">> is at the node that called connect(), <<l, "in">>   *)
(* at the one that accepts.  PeerServer models the threads of one server;   *)
(* here a thread appears only where it can reorder what several servers do. *)
(***************************************************************************)
EXTENDS Naturals, Sequences, FiniteSets

CONSTANTS
    Node,       \* the servers; a node is also its dc_id
    NoName,     \* the empty dc_id
    NoEnd,      \* no PeerDetails
    Overlays,   \* the overlays to start with: the servers that are up, their
                \* connections, each <<from, to>>, and the nodes, up or not, whose
                \* users will shut them down
    Joins,      \* Joins[n]: the peers on the command line of n
    MaxLinks    \* bound: how many connections are ever made

ASSUME OverlayAssumption ==
    /\ IsFiniteSet(Node) /\ NoName \notin Node
    /\ \A o \in Overlays : o.links \in Seq(Node \X Node) /\ Len(o.links) <= MaxLinks
                           /\ o.up \subseteq Node /\ o.leavers \subseteq Node
    /\ Joins \in [Node -> SUBSET Node]
    /\ MaxLinks \in Nat

\* The servers of an overlay to start with are connected, no two of them twice.
ASSUME StartAssumption ==
    \A o \in Overlays :
        /\ \A l \in 1..Len(o.links) :
              /\ o.links[l][1] \in o.up /\ o.links[l][2] \in o.up
              /\ o.links[l][1] # o.links[l][2]
              /\ \A k \in 1..l - 1 : {o.links[k][1], o.links[k][2]} # {o.links[l][1], o.links[l][2]}
        /\ \A part \in SUBSET o.up :
              \/ part = {} \/ part = o.up
              \/ \E l \in 1..Len(o.links) : o.links[l][1] \in part <=> o.links[l][2] \notin part

End == (1..MaxLinks) \X {"out", "in"}

ASSUME NoEndAssumption == NoEnd \notin End

\* CONNECT_Ci_dcXY, DISCONNECT and DISCONNECT_ADDNBRS_dcXY,dcXY; Ci is unused.
Message == [type : {"CONNECT", "DISCONNECT", "ADDNBRS"}, names : SUBSET (Node \cup {NoName})]
Msg(type, names) == [type |-> type, names |-> names]

VARIABLES
    state,      \* state[n]: how far the server of n has got
    links,      \* the connections made so far
    peers,      \* peers[n]: connected_peers
    name,       \* name[e]: dc_id of e
    connected,  \* connected[e]: the flag of e
    thread,     \* thread[e]: what the listener of e does
    todo,       \* todo[e]: the names that add_neighbors, run by e, has not looked at
    now,        \* now[e]: the name it connects to, or the end it has made
    chan,       \* chan[e]: what the listener of e has still to read
    joining,    \* joining[n]: the end whose listener is joined under the mutex of n
    leavers,    \* the nodes whose users will shut them down
    events      \* history: what went wrong so far, see StaysConnected

vars == <<state, links, peers, name, connected, thread, todo, now, chan, joining,
          leavers, events>>

----------------------------------------------------------------------------
Ends == {e \in End : e[1] <= Len(links)}
Owner(e) == links[e[1]][IF e[2] = "out" THEN 1 ELSE 2]
Other(e) == <<e[1], IF e[2] = "out" THEN "in" ELSE "out">>

EndsOf(n) == {e \in Ends : Owner(e) = n}

Up == {n \in Node : state[n] = "up"}

\* The listener is in add_neighbors and has something left to do there.
Adding(e) ==
    \/ thread[e] \in {"connects", "pushes"}
    \/ thread[e] = "adds" /\ todo[e] # {}

\* join() returns, and nobody holds srv_dtls->mtx for good.  Faulty variant: after
\* DISCONNECT_ADDNBRS the listener goes on reading.
JoinableUnlessTold(e) == thread[e] \notin {"adds", "connects", "pushes"}
Joinable(e) == ~Adding(e)
MutexFree(n) == joining[n] = NoEnd

\* connected(): some peer of n has that name, whatever became of it.  Faulty
\* variant: no peer is found.
ConnectedToNobody(n, m) == FALSE
ConnectedTo(n, m) == \E e \in peers[n] : name[e] = m

\* get_connect_msg.  Faulty variant: with the name of the peer.
ConnectMsgOfPeer(n, m) == Msg("CONNECT", {m})
ConnectMsg(n, m) == Msg("CONNECT", {n})

\* connect() returns as soon as the kernel of m has the connection; the end at m
\* waits for the accept thread of m.  CONNECT is sent at once.
MakeLink(n, m, doing) ==
    LET out == <<Len(links) + 1, "out">>
        in == Other(out)
    IN
    /\ Len(links) < MaxLinks
    /\ links' = Append(links, <<n, m>>)
    /\ name' = [name EXCEPT ![out] = m]
    /\ connected' = [connected EXCEPT ![out] = TRUE]
    /\ chan' = [chan EXCEPT ![in] = <<ConnectMsg(n, m)>>]
    /\ thread' = [doing EXCEPT ![in] = "backlog"]

\* The process of n is gone, and with it its threads and what they did not read.
Unread(n) == \E e \in EndsOf(n) : \E i \in 1..Len(chan[e]) : chan[e][i].type = "ADDNBRS"

ProcessEnds(n, event) ==
    /\ state' = [state EXCEPT ![n] = "gone"]
    /\ peers' = [peers EXCEPT ![n] = {}]
    /\ joining' = [joining EXCEPT ![n] = NoEnd]
    /\ thread' = [e \in End |-> IF e \in EndsOf(n) THEN "ended" ELSE thread[e]]
    /\ chan' = [e \in End |-> IF e \in EndsOf(n) THEN <<>> ELSE chan[e]]
    /\ todo' = [e \in End |-> IF e \in EndsOf(n) THEN {} ELSE todo[e]]
    /\ now' = [e \in End |-> IF e \in EndsOf(n) THEN NoName ELSE now[e]]
    /\ events' = events \cup event \cup (IF Unread(n) THEN {"unread"} ELSE {})
    /\ UNCHANGED <<links, name, connected, leavers>>

Init ==
    /\ \E o \in Overlays :
          /\ links = o.links /\ leavers = o.leavers
          /\ state = [n \in Node |-> IF n \in o.up THEN "up" ELSE "down"]
    /\ peers = [n \in Node |-> EndsOf(n)]
    /\ name = [e \in End |-> IF e \in Ends THEN Owner(Other(e)) ELSE NoName]
    /\ connected = [e \in End |-> e \in Ends]
    /\ thread = [e \in End |-> IF e \in Ends THEN "reads" ELSE "none"]
    /\ todo = [e \in End |-> {}]
    /\ now = [e \in End |-> NoName]
    /\ chan = [e \in End |-> <<>>]
    /\ joining = [n \in Node |-> NoEnd]
    /\ events = {}

----------------------------------------------------------------------------
(* Joining: main, and the accept thread.                                   *)

\* The server starts and connects to one peer of its list.
Start(n, m) ==
    /\ state[n] = "down" /\ m \in Joins[n] /\ state[m] = "up"
    /\ state' = [state EXCEPT ![n] = "up"]
    /\ LET out == <<Len(links) + 1, "out">> IN
       /\ MakeLink(n, m, [thread EXCEPT ![out] = "reads"])
       /\ peers' = [peers EXCEPT ![n] = {out}]
    /\ UNCHANGED <<todo, now, joining, leavers, events>>

\* The peer of its list does not answer: exit(1).
StartRefused(n, m) ==
    /\ state[n] = "down" /\ m \in Joins[n] /\ state[m] # "up"
    /\ state' = [state EXCEPT ![n] = "gone"]
    /\ UNCHANGED <<links, peers, name, connected, thread, todo, now, chan, joining, leavers, events>>

\* The end enters connected_peers, without a name, and its listener starts; when
\* the server is shutting down the listener ends at once.
Accept(e) ==
    LET n == Owner(e) IN
    /\ thread[e] = "backlog" /\ state[n] \in {"up", "leaving"} /\ MutexFree(n)
    /\ peers' = [peers EXCEPT ![n] = @ \cup {e}]
    /\ connected' = [connected EXCEPT ![e] = TRUE]
    /\ thread' = [thread EXCEPT ![e] = IF state[n] = "up" THEN "reads" ELSE "ended"]
    /\ UNCHANGED <<state, links, name, todo, now, chan, joining, leavers, events>>

----------------------------------------------------------------------------
(* The listener of e: listen_to_peer and handle_peer_msg.                  *)

Hears(e, type) ==
    /\ thread[e] = "reads" /\ state[Owner(e)] \in {"up", "leaving", "closing"}
    /\ chan[e] # <<>> /\ Head(chan[e]).type = type
    /\ chan' = [chan EXCEPT ![e] = Tail(@)]

\* Back in the loop the listener looks at shut_down.
Loops(e) ==
    thread' = [thread EXCEPT ![e] = IF state[Owner(e)] = "up" THEN "reads" ELSE "ended"]

HearConnect(e) ==
    /\ Hears(e, "CONNECT")
    /\ \E m \in Head(chan[e]).names : name' = [name EXCEPT ![e] = m]
    /\ Loops(e)
    /\ UNCHANGED <<state, links, peers, connected, todo, now, joining, leavers, events>>

HearDisconnect(e) ==
    /\ Hears(e, "DISCONNECT")
    /\ connected' = [connected EXCEPT ![e] = FALSE]
    /\ thread' = [thread EXCEPT ![e] = "ended"]
    /\ UNCHANGED <<state, links, peers, name, todo, now, joining, leavers, events>>

HearAddNeighbors(e) ==
    /\ Hears(e, "ADDNBRS")
    /\ connected' = [connected EXCEPT ![e] = FALSE]
    /\ thread' = [thread EXCEPT ![e] = "adds"]
    /\ todo' = [todo EXCEPT ![e] = Head(chan[e]).names]
    /\ UNCHANGED <<state, links, peers, name, now, joining, leavers, events>>

\* A search message, which changes nothing here, reaches a server that is shutting
\* down: the listener handles it, leaves its loop and closes the socket.
HearSearch(e) ==
    /\ thread[e] = "reads" /\ chan[e] = <<>>
    /\ state[Owner(e)] = "leaving"
    /\ state[Owner(Other(e))] = "up" /\ Other(e) \in peers[Owner(Other(e))]
    /\ connected[Other(e)]
    /\ thread' = [thread EXCEPT ![e] = "ended"]
    /\ UNCHANGED <<state, links, peers, name, connected, todo, now, chan, joining, leavers, events>>

----------------------------------------------------------------------------
(* add_neighbors, run by the listener of e for the node n.                 *)

\* The next name of the list has a peer already.
KnownNeighbor(e, m) ==
    LET n == Owner(e) IN
    /\ thread[e] = "adds" /\ m \in todo[e] /\ state[n] # "gone" /\ MutexFree(n)
    /\ ConnectedTo(n, m)
    /\ todo' = [todo EXCEPT ![e] = @ \ {m}]
    /\ events' = IF m = NoName THEN events \cup {"nameless"} ELSE events
    /\ UNCHANGED <<state, links, peers, name, connected, thread, now, chan, joining, leavers>>

\* It has none: the mutex is released and the connection is tried without it.
NewNeighbor(e, m) ==
    LET n == Owner(e) IN
    /\ thread[e] = "adds" /\ m \in todo[e] /\ state[n] # "gone" /\ MutexFree(n)
    /\ ~ConnectedTo(n, m)
    /\ todo' = [todo EXCEPT ![e] = @ \ {m}]
    /\ now' = [now EXCEPT ![e] = m]
    /\ thread' = [thread EXCEPT ![e] = "connects"]
    /\ UNCHANGED <<state, links, peers, name, connected, chan, joining, leavers, events>>

NeighborAnswers(e) ==
    LET n == Owner(e)
        m == now[e]
    IN
    /\ thread[e] = "connects" /\ state[n] # "gone"
    /\ m # NoName /\ state[m] = "up"
    /\ MakeLink(n, m, [thread EXCEPT ![e] = "pushes"])
    /\ now' = [now EXCEPT ![e] = <<Len(links) + 1, "out">>]
    /\ UNCHANGED <<state, peers, todo, joining, leavers, events>>

\* The socket of m is closed: the neighbour is skipped.
NeighborRefuses(e) ==
    LET m == now[e] IN
    /\ thread[e] = "connects" /\ state[Owner(e)] # "gone"
    /\ m # NoName /\ state[m] # "up"
    /\ thread' = [thread EXCEPT ![e] = "adds"]
    /\ now' = [now EXCEPT ![e] = NoName]
    /\ events' = events \cup {"refused"}
    /\ UNCHANGED <<state, links, peers, name, connected, todo, chan, joining, leavers>>

\* ".utdallas.edu" has no address: exit(EXIT_FAILURE).
NeighborUnknown(e) ==
    /\ thread[e] = "connects" /\ state[Owner(e)] # "gone"
    /\ now[e] = NoName
    /\ ProcessEnds(Owner(e), {"exit"})

\* The new end enters connected_peers, and its listener starts.
NeighborPushed(e) ==
    LET n == Owner(e) IN
    /\ thread[e] = "pushes" /\ state[n] # "gone" /\ MutexFree(n)
    /\ peers' = [peers EXCEPT ![n] = @ \cup {now[e]}]
    /\ thread' = [thread EXCEPT ![e] = "adds",
                        ![now[e]] = IF state[n] = "up" THEN "reads" ELSE "ended"]
    /\ now' = [now EXCEPT ![e] = NoName]
    /\ UNCHANGED <<state, links, name, connected, todo, chan, joining, leavers, events>>

----------------------------------------------------------------------------
(* monitor_connected_peers.                                                *)

\* The peers the monitor frees.
Disconnected(n) == {e \in peers[n] : ~connected[e]}

\* The disconnected peers are freed; their listeners have ended.
MonitorFrees(n) ==
    /\ state[n] = "up" /\ Disconnected(n) # {}
    /\ \A e \in Disconnected(n) : Joinable(e)
    /\ peers' = [peers EXCEPT ![n] = @ \ Disconnected(n)]
    /\ joining' = [joining EXCEPT ![n] = NoEnd]
    /\ UNCHANGED <<state, links, name, connected, thread, todo, now, chan, leavers, events>>

\* One of them is in add_neighbors: the monitor waits for it with the mutex.
MonitorJoins(n) ==
    /\ state[n] = "up" /\ MutexFree(n)
    /\ \E e \in Disconnected(n) :
         ~Joinable(e) /\ joining' = [joining EXCEPT ![n] = e]
    /\ UNCHANGED <<state, links, peers, name, connected, thread, todo, now, chan, leavers, events>>

----------------------------------------------------------------------------
(* Leaving: terminate_server and disconnect_all_peers.                     *)

\* What waits for the accept thread.  Faulty variant: every connection.
EveryEnd(n) == EndsOf(n)
Backlog(n) == {e \in EndsOf(n) : thread[e] = "backlog"}

\* The listening socket is shut down.  Of the connections not yet pushed one may
\* be in the hands of the accept thread, the others are reset.
Terminate(n) ==
    /\ n \in leavers /\ leavers' = leavers \ {n}
    /\ state[n] = "up" /\ MutexFree(n)
    /\ state' = [state EXCEPT ![n] = "leaving"]
    /\ \E accepted \in {{}} \cup {{e} : e \in Backlog(n)} :
         LET reset == Backlog(n) \ accepted IN
         /\ thread' = [e \in End |-> IF e \in reset THEN "none" ELSE thread[e]]
         /\ events' = events \cup {"reset" : e \in reset}
    /\ UNCHANGED <<links, peers, name, connected, todo, now, chan, joining>>

\* send_msg_to_peer to e.  A listener that left its loop closed the socket, or is
\* about to; the flag does not show it.
Sent(e) ==
    IF ~connected[e] THEN {FALSE} ELSE IF thread[e] = "reads" THEN {TRUE} ELSE BOOLEAN

\* disconnect_peer: the message, the flag, the shutdown that ends the listener.
\* Then the listener is joined, with the mutex held.
Disconnect(n, e, msg) ==
    /\ \E sent \in Sent(e) :
         LET there == state[Owner(Other(e))] # "gone"
             missed == msg.type = "ADDNBRS" \/ (connected[e] /\ there)
         IN
         /\ chan' = IF sent /\ there THEN [chan EXCEPT ![Other(e)] = Append(@, msg)] ELSE chan
         /\ events' = IF ~(sent /\ there) /\ missed THEN events \cup {"untold"} ELSE events
    /\ connected' = [connected EXCEPT ![e] = FALSE]
    /\ thread' = [thread EXCEPT ![e] = IF @ = "reads" THEN "ended" ELSE @]
    /\ peers' = [peers EXCEPT ![n] = @ \ {e}]
    /\ joining' = [joining EXCEPT ![n] = e]
    /\ UNCHANGED <<links, name, todo, now, leavers>>

\* The names for the chosen peer.  Faulty variant: one of the others is forgotten.
NamesButOne(n, e) ==
    LET others == peers[n] \ {e} IN
    {name[x] : x \in others \ {CHOOSE x \in others : TRUE}}
NamesOfOthers(n, e) == {name[x] : x \in peers[n] \ {e}}

\* One peer, picked at random, is told the names of the others if there are any.
LeaveChoosing(n, e) ==
    /\ state[n] = "leaving" /\ Backlog(n) = {} /\ MutexFree(n)
    /\ e \in peers[n]
    /\ state' = [state EXCEPT ![n] = "closing"]
    /\ Disconnect(n, e, IF peers[n] = {e} THEN Msg("DISCONNECT", {})
                        ELSE Msg("ADDNBRS", NamesOfOthers(n, e)))

\* The others are told DISCONNECT, one after the other.
LeaveTelling(n, e) ==
    /\ state[n] = "closing" /\ Joinable(joining[n])
    /\ e \in peers[n]
    /\ Disconnect(n, e, Msg("DISCONNECT", {}))
    /\ UNCHANGED state

LeaveEnds(n) ==
    /\ \/ state[n] = "leaving" /\ Backlog(n) = {} /\ MutexFree(n)
       \/ state[n] = "closing" /\ Joinable(joining[n])
    /\ peers[n] = {}
    /\ ProcessEnds(n, {})

----------------------------------------------------------------------------
Listener(e) ==
    \/ HearConnect(e) \/ HearDisconnect(e) \/ HearAddNeighbors(e)
    \/ \E m \in todo[e] : KnownNeighbor(e, m) \/ NewNeighbor(e, m)
    \/ NeighborAnswers(e) \/ NeighborRefuses(e) \/ NeighborUnknown(e) \/ NeighborPushed(e)

Leave(n) ==
    \/ \E e \in peers[n] : LeaveChoosing(n, e) \/ LeaveTelling(n, e)
    \/ LeaveEnds(n)

\* What the threads do of themselves.
Threads ==
    \/ \E e \in Ends : Accept(e) \/ Listener(e)
    \/ \E n \in Node : MonitorFrees(n) \/ MonitorJoins(n) \/ Leave(n)

\* What the users do, and the searches, which this module leaves out.
World ==
    \/ \E n \in Node : \E m \in Joins[n] : Start(n, m) \/ StartRefused(n, m)
    \/ \E n \in leavers : Terminate(n)
    \/ \E e \in Ends : HearSearch(e)

Next == Threads \/ World

Spec == Init /\ [][Next]_vars

----------------------------------------------------------------------------
(* Properties.                                                             *)

\* The types of the variables; what connected_peers lists was accepted or made.
TypeOK ==
    /\ state \in [Node -> {"down", "up", "leaving", "closing", "gone"}]
    /\ links \in Seq(Node \X Node) /\ Len(links) <= MaxLinks
    /\ peers \in [Node -> SUBSET End]
    /\ \A n \in Node : \A e \in peers[n] :
         e \in EndsOf(n) /\ thread[e] \notin {"none", "backlog"}
    /\ name \in [End -> Node \cup {NoName}]
    /\ connected \in [End -> BOOLEAN]
    /\ thread \in [End -> {"none", "backlog", "reads", "adds", "connects", "pushes", "ended"}]
    /\ todo \in [End -> SUBSET (Node \cup {NoName})]
    /\ now \in [End -> Node \cup {NoName} \cup End]
    /\ chan \in [End -> Seq(Message)]
    /\ joining \in [Node -> End \cup {NoEnd}]
    /\ leavers \subseteq Node
    /\ events \subseteq {"reset", "untold", "unread", "refused", "exit", "nameless"}

\* Nobody is leaving, and whoever is up has accepted, read, connected and freed
\* all there is.
Quiet ==
    /\ \A n \in Node : state[n] \in {"down", "up", "gone"} /\ joining[n] = NoEnd
    /\ \A n \in Up : \A e \in EndsOf(n) :
         /\ ~Adding(e) /\ thread[e] # "backlog"
         /\ thread[e] = "reads" => chan[e] = <<>>
         /\ e \in peers[n] => connected[e]

Linked(n, m) == \E e \in peers[n] : Owner(Other(e)) = m /\ Other(e) \in peers[m]

\* No part of the servers that are up is cut off from the rest.
OnePart == \A part \in SUBSET Up :
    part # {} /\ (\A n \in part, m \in Up : Linked(n, m) => m \in part) => part = Up

\* What cuts a peer off, each seen by nobody but the process it happens to:
\*  reset    a peer that joins is in the backlog of a server that shuts down;
\*  untold   DISCONNECT or DISCONNECT_ADDNBRS was not sent: the listener had closed
\*           the socket, or the chosen peer had left already;
\*  unread   the chosen peer left before it read DISCONNECT_ADDNBRS;
\*  refused  a neighbour it should connect to was leaving or had left;
\*  exit     it was sent a name that was not known yet;
\*  nameless it was sent such a name, and has a peer of its own that it does not know
\*           by name yet: connected() takes one empty name for the other.
Clean == events = {}

\* Lines 187-204 and 402-437: peers may join and leave at the same time, and unless
\* one of these events happened, those that remain are one connected overlay.
StaysConnected == Quiet /\ Clean => OnePart

\* Then also both sides of each connection list it, under their true names, and
\* nobody lists a peer that has left (lines 304-324, simple-search.cpp:70-93).
ListsAgree ==
    Quiet /\ Clean => \A n \in Up : \A e \in peers[n] :
        /\ name[e] = Owner(Other(e))
        /\ name[e] \in Up /\ Other(e) \in peers[name[e]]

Left == {n \in Node : state[n] \in {"leaving", "closing", "gone"}}

\* Lines 408-414: as long as at most one peer leaves, add_neighbors connects no two
\* peers that are connected, and no peer to itself, while others join.  When
\* several leave it may: the check and the connection are not one critical section.
NoSpareLinks ==
    Cardinality(Left) <= 1 =>
        \A l \in 1..Len(links) :
            /\ links[l][1] # links[l][2]
            /\ \A k \in 1..l - 1 : {links[k][1], links[k][2]} # {links[l][1], links[l][2]}

\* A thread joins, with the mutex, a listener that needs the mutex.
Hung(n) == joining[n] # NoEnd /\ Adding(joining[n])

\* The threads stop only when everything is done: whoever joined was accepted,
\* whoever was told to connect did, whoever left ended and was freed by the others.
\* PeerServer is about the exception.
NothingStuck == ~ENABLED Threads => Quiet \/ \E n \in Node : Hung(n)

\* REPORT.md:28: "When the User chooses the 0 prompt to shut down any server, it will
\* ensure that Network partitioning doesn't happen."
NoPartition == Quiet => OnePart

=============================================================================
