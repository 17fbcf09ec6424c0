----------------------------- MODULE PeerServer -----------------------------
(***************************************************************************)
(* The threads of one P2P server and the PeerDetails objects they share:   *)
(* p2p-server.cpp, and listen_to_peer and handle_peer_msg of               *)
(* simple-search.cpp.  What the other peers send is the environment.       *)
(*                                                                         *)
(* srv_dtls->mtx is "lock".  A critical section in which its thread cannot *)
(* block is one step; the two that join threads, those of the monitor and  *)
(* of disconnect_all_peers, hold the lock over several steps.              *)
(***************************************************************************)
EXTENDS Naturals, Sequences, FiniteSets

CONSTANTS
    Peer,               \* the PeerDetails objects; each is created once
    Main,               \* the thread of main
    Accept,             \* accept_p2p_incoming_connections
    Monitor,            \* monitor_connected_peers
    Nobody,             \* no thread, no object
    FirstPeer,          \* first_peer: main does not connect to anyone
    Endings,            \* how a peer may end a connection: "eof", "reset"
    MaxNeighbors,       \* bound: names in one DISCONNECT_ADDNBRS
    MaxMessages         \* bound: messages one peer sends

\* The listener of object p, listen_to_peer, is the thread p.
Thread == {Main, Accept, Monitor} \cup Peer

ASSUME ThreadAssumption ==
    /\ IsFiniteSet(Peer)
    /\ Cardinality({Main, Accept, Monitor, Nobody}) = 4
    /\ {Main, Accept, Monitor, Nobody} \cap Peer = {}

ASSUME BoundAssumption ==
    /\ FirstPeer \in BOOLEAN /\ Endings \subseteq {"eof", "reset"}
    /\ MaxNeighbors \in Nat /\ MaxMessages \in Nat

\* DISCONNECT is a DISCONNECT_ADDNBRS that names nobody; "upstream" is the
\* listener whose search request the response is about.
Message == [type : {"REQ"}] \cup [type : {"RESP"}, upstream : Peer]
           \cup [type : {"DISCONNECT"}, neighbors : 0..MaxNeighbors]

VARIABLES
    lock,       \* who holds srv_dtls->mtx
    shut_down,  \* srv_dtls->shut_down
    peers,      \* srv_dtls->connected_peers
    pos,        \* the element at which the thread that walks through peers is
    at,         \* at[t]: where thread t is
    new,        \* new[t]: the object that t introduces
    left,       \* left[p]: the names that add_neighbors has still to handle
    memory,     \* memory[p]: whether the object p was allocated and freed
    connected,  \* connected[p]: its field of that name
    thread,     \* thread[p]: whether listening_thread is set
    socket,     \* socket[p]: "open", "eof" or "reset" by the peer, or "shut" by us
    inbox,      \* inbox[p]: what the peer sent and listener p has still to read
    said,       \* said[p]: how much the peer sent, for the bound
    message,    \* message[p]: what listener p handles
    owed,       \* owed[u]: who still owes a reply to the search that u asked for
    undefined   \* the undefined behaviour met; nothing is modelled after it

objects == <<memory, connected, thread, socket>>
network == <<inbox, said>>
vars == <<lock, shut_down, peers, pos, at, new, left, objects, network, message, owed, undefined>>

None == [type |-> "REQ"]

Init ==
    /\ lock = Nobody
    /\ shut_down = FALSE
    /\ peers = <<>>
    /\ pos = 1
    /\ at = [t \in Thread |-> IF t = Main /\ FirstPeer THEN "prompt"
                              ELSE IF t \in Peer THEN "unborn" ELSE "loop"]
    /\ new = [t \in Thread |-> Nobody]
    /\ left = [p \in Peer |-> 0]
    /\ memory = [p \in Peer |-> "unborn"]
    /\ connected = [p \in Peer |-> FALSE]
    /\ thread = [p \in Peer |-> FALSE]
    /\ socket = [p \in Peer |-> "open"]
    /\ inbox = [p \in Peer |-> <<>>]
    /\ said = [p \in Peer |-> 0]
    /\ message = [p \in Peer |-> None]
    /\ owed = [p \in Peer |-> {}]
    /\ undefined = "none"

Listed(p) == \E i \in DOMAIN peers : peers[i] = p

Goes(t, place) == at' = [at EXCEPT ![t] = place]

\* A thread that uses the object p: nothing is known of what follows if p is freed.
Uses(p) == undefined' = IF memory[p] = "freed" THEN "use after free" ELSE undefined

----------------------------------------------------------------------------
(* A new connection, by accept, by add_neighbors or by main.               *)

\* new PeerDetails(), connected.
Create(t, p) ==
    /\ memory[p] = "unborn"
    /\ memory' = [memory EXCEPT ![p] = "live"]
    /\ connected' = [connected EXCEPT ![p] = TRUE]
    /\ new' = [new EXCEPT ![t] = p]
    /\ UNCHANGED <<lock, shut_down, peers, pos, left, thread, socket, network, message,
                   owed, undefined>>

\* accept() returns a connection, or fails after terminate_server's shutdown().
AcceptConnection(p) ==
    /\ at[Accept] = "loop" /\ ~shut_down
    /\ Create(Accept, p) /\ Goes(Accept, "push")

AcceptEnds ==
    /\ at[Accept] = "loop" /\ shut_down /\ lock = Nobody
    /\ Goes(Accept, "ended")
    /\ UNCHANGED <<lock, shut_down, peers, pos, new, left, objects, network, message,
                   owed, undefined>>

\* The critical section that puts the object into connected_peers.
Push(t) ==
    /\ at[t] = "push" /\ lock = Nobody
    /\ peers' = Append(peers, new[t])
    /\ Goes(t, "spawn")
    /\ UNCHANGED <<lock, shut_down, pos, new, left, objects, network, message, owed, undefined>>

\* new std::thread(listen_to_peer, srv_dtls, pr_dtls)
Spawn(t) ==
    /\ at[t] = "spawn"
    /\ at' = [at EXCEPT ![new[t]] = "loop", ![t] = "set"]
    /\ UNCHANGED <<lock, shut_down, peers, pos, new, left, objects, network, message,
                   owed, undefined>>

AfterSet(t) ==
    IF t = Main THEN "pushing" ELSE IF t = Accept THEN "loop" ELSE "add"

\* pr_dtls->listening_thread = peer_listening_thread, without srv_dtls->mtx.
SetThread(t) ==
    /\ at[t] = "set"
    /\ thread' = [thread EXCEPT ![new[t]] = TRUE]
    /\ Uses(new[t])
    /\ left' = IF t \in Peer THEN [left EXCEPT ![t] = @ - 1] ELSE left
    /\ new' = IF t = Main THEN new ELSE [new EXCEPT ![t] = Nobody]
    /\ Goes(t, AfterSet(t))
    /\ UNCHANGED <<lock, shut_down, peers, pos, memory, connected, socket, network,
                   message, owed>>

----------------------------------------------------------------------------
(* listen_to_peer and handle_peer_msg on the thread of p.                  *)

\* The condition of the loop, then a read(); or the socket is closed.
Check(p) ==
    /\ at[p] = "loop"
    /\ Goes(p, IF ~shut_down /\ connected[p] THEN "read" ELSE "ended")
    /\ Uses(p)
    /\ UNCHANGED <<lock, shut_down, peers, pos, new, left, objects, network, message, owed>>

\* read() returns 0: the thread sleeps and checks again.
ReadNothing(p) ==
    /\ at[p] = "read" /\ inbox[p] = <<>> /\ socket[p] \in {"eof", "shut"}
    /\ Goes(p, "loop")
    /\ UNCHANGED <<lock, shut_down, peers, pos, new, left, objects, network, message,
                   owed, undefined>>

\* read() fails: the thread ends and leaves p connected.
ReadError(p) ==
    /\ at[p] = "read" /\ inbox[p] = <<>> /\ socket[p] = "reset"
    /\ Goes(p, "ended")
    /\ UNCHANGED <<lock, shut_down, peers, pos, new, left, objects, network, message,
                   owed, undefined>>

Disconnected(p) == [connected EXCEPT ![p] = FALSE]

\* A message is read.  DISCONNECT and DISCONNECT_ADDNBRS only take pr_dtls->mtx,
\* for their first part; the searches wait for srv_dtls->mtx.
Read(p) ==
    /\ at[p] = "read" /\ inbox[p] # <<>>
    /\ inbox' = [inbox EXCEPT ![p] = Tail(@)]
    /\ Uses(p)
    /\ IF Head(inbox[p]).type = "DISCONNECT"
       THEN /\ connected' = Disconnected(p)
            /\ left' = [left EXCEPT ![p] = Head(inbox[p]).neighbors]
            /\ Goes(p, IF Head(inbox[p]).neighbors = 0 THEN "loop" ELSE "add")
            /\ UNCHANGED message
       ELSE /\ message' = [message EXCEPT ![p] = Head(inbox[p])]
            /\ Goes(p, "search")
            /\ UNCHANGED <<connected, left>>
    /\ UNCHANGED <<lock, shut_down, peers, pos, new, memory, thread, socket, said, owed>>

\* The others in connected_peers, to whom a search is forwarded.
Others(p) == {q \in Peer : q # p /\ Listed(q)}

\* SEARCH-REQ: forwarded_searches keeps the pointer p and the number of replies
\* needed.  Of the searches that p asks for, the model follows one at a time.
SearchReq(p) ==
    /\ at[p] = "search" /\ lock = Nobody /\ message[p].type = "REQ"
    /\ owed' = IF owed[p] = {} THEN [owed EXCEPT ![p] = Others(p)] ELSE owed
    /\ Uses(p)
    /\ message' = [message EXCEPT ![p] = None]
    /\ Goes(p, "loop")
    /\ UNCHANGED <<lock, shut_down, peers, pos, new, left, objects, network>>

\* SEARCH-RESP: the last one needed goes to the upstream peer.
SearchResp(p) ==
    /\ at[p] = "search" /\ lock = Nobody /\ message[p].type = "RESP"
    /\ LET u == message[p].upstream IN
       /\ owed' = [owed EXCEPT ![u] = @ \ {p}]
       /\ IF owed[u] = {p} THEN Uses(u) ELSE UNCHANGED undefined
    /\ message' = [message EXCEPT ![p] = None]
    /\ Goes(p, "loop")
    /\ UNCHANGED <<lock, shut_down, peers, pos, new, left, objects, network>>

\* add_neighbors: the next name, if it is not that of a connected peer.
NextNeighbor(p) ==
    /\ at[p] = "add" /\ left[p] > 0 /\ lock = Nobody
    /\ \/ Goes(p, "connect") /\ UNCHANGED left
       \/ peers # <<>> /\ left' = [left EXCEPT ![p] = @ - 1] /\ UNCHANGED at
    /\ UNCHANGED <<lock, shut_down, peers, pos, new, objects, network, message, owed, undefined>>

LastNeighbor(p) ==
    /\ at[p] = "add" /\ left[p] = 0
    /\ Goes(p, "loop")
    /\ UNCHANGED <<lock, shut_down, peers, pos, new, left, objects, network, message,
                   owed, undefined>>

Connect(p, q) ==
    /\ at[p] = "connect"
    /\ Create(p, q) /\ Goes(p, "push")

ConnectFails(p) ==
    /\ at[p] = "connect"
    /\ left' = [left EXCEPT ![p] = @ - 1]
    /\ Goes(p, "add")
    /\ UNCHANGED <<lock, shut_down, peers, pos, new, objects, network, message, owed, undefined>>

----------------------------------------------------------------------------
(* The threads that walk through connected_peers and hold the lock.        *)

\* Only a thread whose pointer is set is joined.  Faulty variant: none is.
JoinsNobody(p) == TRUE
Joined(p) == thread[p] => at[p] = "ended"

\* The pointer is removed with the object.  Faulty variant: it stays.
KeepsPointer(i) == peers
Unlisted(i) == SubSeq(peers, 1, i - 1) \o SubSeq(peers, i + 1, Len(peers))

\* The object that peers[i] points to.
Free(i) ==
    /\ Joined(peers[i])
    /\ memory' = [memory EXCEPT ![peers[i]] = "freed"]
    /\ peers' = Unlisted(i)

\* The walk begins at the first element.  Faulty variant: at the second.
FirstPosToo == 2
FirstPos == 1

\* monitor_connected_peers
MonitorLocks ==
    /\ at[Monitor] = "loop" /\ ~shut_down /\ lock = Nobody
    /\ lock' = Monitor
    /\ pos' = FirstPos
    /\ Goes(Monitor, "scan")
    /\ UNCHANGED <<shut_down, peers, new, left, objects, network, message, owed, undefined>>

MonitorEnds ==
    /\ at[Monitor] = "loop" /\ shut_down
    /\ Goes(Monitor, "ended")
    /\ UNCHANGED <<lock, shut_down, peers, pos, new, left, objects, network, message,
                   owed, undefined>>

MonitorPasses ==
    /\ at[Monitor] = "scan" /\ pos <= Len(peers) /\ connected[peers[pos]]
    /\ pos' = pos + 1
    /\ UNCHANGED <<lock, shut_down, peers, at, new, left, objects, network, message,
                   owed, undefined>>

MonitorFrees ==
    /\ at[Monitor] = "scan" /\ pos <= Len(peers) /\ ~connected[peers[pos]]
    /\ Free(pos)
    /\ UNCHANGED <<lock, shut_down, pos, at, new, left, connected, thread, socket,
                   network, message, owed, undefined>>

\* The end of the scope of srv_lock.  Faulty variant: it is not the end.
KeepsLock == lock
Released == Nobody

MonitorUnlocks ==
    /\ at[Monitor] = "scan" /\ pos > Len(peers)
    /\ lock' = Released
    /\ pos' = 1
    /\ Goes(Monitor, "loop")
    /\ UNCHANGED <<shut_down, peers, new, left, objects, network, message, owed, undefined>>

----------------------------------------------------------------------------
(* main.                                                                   *)

\* The connection to one of the peers of the command line; main exits without it.
MainConnects(p) ==
    /\ at[Main] = "loop"
    /\ Create(Main, p) /\ Goes(Main, "spawn")

\* connected_peers.push_back without the lock.
MainPush ==
    /\ at[Main] = "pushing"
    /\ peers' = Append(peers, new[Main])
    /\ new' = [new EXCEPT ![Main] = Nobody]
    /\ Goes(Main, "prompt")
    /\ UNCHANGED <<lock, shut_down, pos, left, objects, network, message, owed, undefined>>

\* Where a thread uses connected_peers, or is about to and may.
UsesPeers(t) ==
    \/ t = lock
    \/ lock = Nobody /\ at[t] \in {"push", "search", "add"}

\* The same at the moment at which another thread uses the vector.
DataRace ==
    /\ at[Main] = "pushing"
    /\ \E t \in Thread : UsesPeers(t)
    /\ undefined' = "data race"
    /\ UNCHANGED <<lock, shut_down, peers, pos, at, new, left, objects, network,
                   message, owed>>

\* Command 0: terminate_server.
Terminate ==
    /\ at[Main] = "prompt" /\ lock = Nobody
    /\ shut_down' = TRUE
    /\ Goes(Main, "join threads")
    /\ UNCHANGED <<lock, peers, pos, new, left, objects, network, message, owed, undefined>>

\* The monitor and accept are joined; disconnect_all_peers takes the lock, and one
\* of the peers is chosen to be the first.
Leave ==
    /\ at[Main] = "join threads" /\ at[Monitor] = "ended" /\ at[Accept] = "ended"
    /\ lock = Nobody
    /\ \/ peers = <<>> /\ Goes(Main, "exited") /\ UNCHANGED <<lock, pos>>
       \/ pos' \in DOMAIN peers /\ lock' = Main /\ Goes(Main, "disconnect")
    /\ UNCHANGED <<shut_down, peers, new, left, objects, network, message, owed, undefined>>

\* shutdown(pr->sock_fd, SHUT_RDWR).  Faulty variant: it is forgotten.
LeavesOpen(p) == socket
Shut(p) == [socket EXCEPT ![p] = "shut"]

\* disconnect_peer: the message is sent, the socket shut down.
Disconnect ==
    /\ at[Main] = "disconnect"
    /\ LET p == peers[pos] IN
       IF connected[p] THEN connected' = Disconnected(p) /\ socket' = Shut(p)
       ELSE UNCHANGED <<connected, socket>>
    /\ Goes(Main, "join")
    /\ UNCHANGED <<lock, shut_down, peers, pos, new, left, memory, thread, network,
                   message, owed, undefined>>

\* The rest of disconnect_peer, and the next peer.
DisconnectJoins ==
    /\ at[Main] = "join"
    /\ Free(pos)
    /\ pos' = 1
    /\ IF peers' = <<>> THEN Goes(Main, "exited") /\ lock' = Released
       ELSE Goes(Main, "disconnect") /\ UNCHANGED lock
    /\ UNCHANGED <<shut_down, new, left, connected, thread, socket, network, message,
                   owed, undefined>>

----------------------------------------------------------------------------
(* The other peers.                                                        *)

\* What the peer of p may say.  After DISCONNECT it says nothing more.
MaySay(p) ==
    {[type |-> "REQ"]}
    \cup {[type |-> "RESP", upstream |-> u] : u \in {u \in Peer : p \in owed[u]}}
    \cup {[type |-> "DISCONNECT", neighbors |-> k] : k \in 0..MaxNeighbors}

\* A request is answered once.
Answers(p) == {inbox[p][i] : i \in DOMAIN inbox[p]} \cup {message[p]}

Says(p) ==
    /\ memory[p] # "unborn" /\ socket[p] = "open" /\ said[p] < MaxMessages
    /\ \E msg \in MaySay(p) :
         /\ msg.type = "RESP" => msg \notin Answers(p)
         /\ inbox' = [inbox EXCEPT ![p] = Append(@, msg)]
         /\ said' = [said EXCEPT ![p] =
                         IF msg.type = "DISCONNECT" THEN MaxMessages ELSE @ + 1]
    /\ UNCHANGED <<lock, shut_down, peers, pos, at, new, left, objects, message, owed,
                   undefined>>

Closes(p) ==
    /\ memory[p] # "unborn" /\ socket[p] = "open"
    /\ \E how \in Endings : socket' = [socket EXCEPT ![p] = how]
    /\ UNCHANGED <<lock, shut_down, peers, pos, at, new, left, memory, connected, thread,
                   network, message, owed, undefined>>

----------------------------------------------------------------------------
Introduces(t) == Spawn(t) \/ SetThread(t)

Listener(p) ==
    \/ Check(p) \/ ReadNothing(p) \/ ReadError(p) \/ Read(p) \/ LastNeighbor(p)
    \/ Introduces(p) \/ (\E q \in Peer : Connect(p, q)) \/ ConnectFails(p)

ListenerLocks(p) == SearchReq(p) \/ SearchResp(p) \/ NextNeighbor(p) \/ Push(p)

MonitorThread == MonitorEnds \/ MonitorPasses \/ MonitorFrees \/ MonitorUnlocks

MainThread == Introduces(Main) \/ MainPush \/ Disconnect \/ DisconnectJoins

World ==
    \/ \E p \in Peer : AcceptConnection(p) \/ MainConnects(p) \/ Says(p) \/ Closes(p)
    \/ Terminate \/ DataRace

Runs == at[Main] # "exited" /\ undefined = "none"

Next ==
    /\ Runs
    /\ \/ World \/ MainThread \/ Leave \/ MonitorThread \/ MonitorLocks
       \/ Introduces(Accept) \/ AcceptEnds \/ Push(Accept)
       \/ \E p \in Peer : Listener(p) \/ ListenerLocks(p)

Spec == Init /\ [][Next]_vars

\* Every thread runs.  One that waits for the mutex gets it in the end, if it is
\* free again and again: the other sections are short, and the monitor, the only
\* thread that takes it for ever, sleeps after each round (line 328).
FairSpec ==
    /\ Spec
    /\ WF_vars(Runs /\ MainThread) /\ SF_vars(Runs /\ Leave)
    /\ WF_vars(Runs /\ MonitorThread) /\ SF_vars(Runs /\ MonitorLocks)
    /\ WF_vars(Runs /\ Introduces(Accept)) /\ SF_vars(Runs /\ (AcceptEnds \/ Push(Accept)))
    /\ \A p \in Peer :
         WF_vars(Runs /\ Listener(p)) /\ SF_vars(Runs /\ ListenerLocks(p))

----------------------------------------------------------------------------
(* Properties.                                                             *)

\* Where a thread can be.
Place == {"unborn", "loop", "read", "search", "add", "connect", "push", "spawn", "set",
          "pushing", "prompt", "scan", "join threads", "disconnect", "join", "ended",
          "exited"}

\* The types of the variables, and who holds the lock where.
TypeOK ==
    /\ at \in [Thread -> Place]
    /\ lock = (IF at[Monitor] = "scan" THEN Monitor
               ELSE IF at[Main] \in {"disconnect", "join"} THEN Main ELSE Nobody)
    /\ shut_down \in BOOLEAN
    /\ peers \in Seq(Peer) /\ pos \in Nat
    /\ at[Main] \in {"loop", "spawn", "set", "pushing", "prompt", "join threads",
                     "disconnect", "join", "exited"}
    /\ at[Accept] \in {"loop", "push", "spawn", "set", "ended"}
    /\ at[Monitor] \in {"loop", "scan", "ended"}
    /\ \A p \in Peer : at[p] \in {"unborn", "loop", "read", "search", "add", "connect",
                                  "push", "spawn", "set", "ended"}
    /\ new \in [Thread -> Peer \cup {Nobody}]
    /\ left \in [Peer -> 0..MaxNeighbors]
    /\ memory \in [Peer -> {"unborn", "live", "freed"}]
    /\ connected \in [Peer -> BOOLEAN] /\ thread \in [Peer -> BOOLEAN]
    /\ socket \in [Peer -> {"open", "eof", "reset", "shut"}]
    /\ inbox \in [Peer -> Seq(Message)] /\ message \in [Peer -> Message]
    /\ said \in [Peer -> 0..MaxMessages]
    /\ owed \in [Peer -> SUBSET Peer]
    /\ undefined \in {"none", "use after free", "data race"}

\* Thread t is about to put p, which it created, into connected_peers.
Introduced(p) ==
    \E t \in Thread :
        /\ new[t] = p
        /\ \/ at[t] = "push"
           \/ t = Main /\ at[t] \in {"spawn", "set", "pushing"}

\* connected_peers has every allocated object once, but for those on their way
\* into it, and no freed one: nothing leaks, and nothing is freed twice.
PeersExact ==
    /\ \A p \in Peer : Listed(p) <=> memory[p] = "live" /\ ~Introduced(p)
    /\ \A i, j \in DOMAIN peers : peers[i] = peers[j] => i = j

\* An object is freed while its listener runs only if the thread that introduced
\* it has not yet set listening_thread (lines 424-430, 461-470).
FreedAfterJoin ==
    \A p \in Peer : memory[p] = "freed" /\ undefined = "none" =>
        \/ at[p] = "ended"
        \/ \E t \in Thread : new[t] = p /\ at[t] \in {"spawn", "set"}

\* Thread t holds the lock and joins the listener of p, which waits for the lock.
NeedsLock(p) ==
    \/ at[p] \in {"search", "push"}
    \/ at[p] = "add" /\ left[p] > 0

Joins(t, p) ==
    /\ lock = t /\ pos \in DOMAIN peers /\ peers[pos] = p /\ thread[p]
    /\ IF t = Monitor THEN ~connected[p] ELSE at[Main] = "join"

JoinDeadlock == \E t \in {Main, Monitor}, p \in Peer : Joins(t, p) /\ NeedsLock(p)

Over == JoinDeadlock \/ undefined # "none" \/ at[Main] = "exited"

\* A peer that sent DISCONNECT is cleaned up (README.md:21), or the server shuts
\* down: of the threads that could hinder it only a join under the lock does.
DisconnectedAreFreed ==
    \A p \in Peer : memory[p] = "live" /\ ~connected[p] ~> memory[p] = "freed" \/ Over

\* "Shut Down complete" (line 630): the join under the lock is the only deadlock of
\* the five kinds of threads, however long their peers are silent.
ShutDownCompletes == shut_down ~> Over

\* p2p-server.cpp:306: "No need to acquire pr_dtls lock. As we're only modifying
\* disconnected peers & they're not being accessed by any thread anyway".
NoUseAfterFree == undefined # "use after free"

=============================================================================
