# Verification of mini-p2p-file-sharing

TLA+ specifications of the P2P file-sharing server in `src/`, model-checked with
TLC and, in part, proved with TLAPS. Everything is translated from the C++ code;
where a document says something else, the code is modelled and the difference is
reported (see [Findings](#findings)). File names below are relative to `src/`.

## The system

Each peer is one process with these threads:

| thread | code | what it does |
|---|---|---|
| main | `p2p-server.cpp` `main` | reads commands; runs `simple_search` and `request_file_download`; shuts down |
| accept | `accept_p2p_incoming_connections` | a `PeerDetails` and a listener for each connection to port 5050 |
| listener, one per peer | `simple-search.cpp` `listen_to_peer`, `handle_peer_msg` | reads and handles DISCONNECT, CONNECT, SEARCH-REQ, SEARCH-RESP; runs `add_neighbors` |
| monitor | `monitor_connected_peers` | every 100 ms joins and frees peers that said DISCONNECT |
| file accept | `file-sharing.cpp` `accept_p2p_file_connections` | a handler thread for each connection to port 5051 |
| file handler, one per transfer | `handle_file_req`, `send_file` | serves one file |

They share one `P2PServerDetails` under `srv_dtls->mtx`.

### Components

| component | state | operations | interacts with |
|---|---|---|---|
| flooding search | `search_counter`, `created_searches`, `forwarded_searches` | `simple_search`; SEARCH-REQ and SEARCH-RESP handlers; `forward_search_req_messages` | other peers by messages; index maps; a hit leads to a download |
| file sharing | sockets, the rows received, files on disk, `searchable_f_index`, `searchable_kw_index` | `request_file_download`, `handle_file_req`, `send_file` | the index that searches read; other peers' file handlers |
| threads and connections | `connected_peers`, each `PeerDetails` (`connected`, `listening_thread`, `sock_fd`), `shut_down`, the mutex | accept, `add_neighbors`, main's first connection, monitor, `terminate_server`, `disconnect_all_peers` | listeners; pointers kept in `forwarded_searches` |
| overlay membership | who is connected to whom, `dc_id` names | CONNECT, DISCONNECT, DISCONNECT_ADDNBRS | several servers' threads |
| index file | `f<i>.dat` | `create_f_kw_index`; the line appended by a download | both index maps, restarts |
| message texts | none | `split_str`, `join_str`, `get_*_msg` | all messages |
| Project 1 (`project1/`) | one client's connection per server; the client's three thirds of a file | the client's `main`; a server's `main` and `handle_client_msg` | nothing of the above |
| arguments, prompts, scripts, data | | | |

### What is hard

* **Interleavings.** All threads of a peer, all peers, and the messages between
  them. Objects are freed by two threads and used by all.
* **Ordering.** On a cycle copies of a request overtake one another, cross, and
  come back to their creator; replies are counted, not matched to requests.
* **Timeouts and retries.** A search attempt fails after a sleep, not when its
  replies are in, and the next one starts while they travel.
* **Locks.** Two functions join threads with the mutex held.
* **Partial failure.** Refused and reset connections, peers that leave, files that
  cannot be written or that change while they are sent.
* **Crash and restart.** A killed server leaves zombies in the lists of its peers;
  a restarted one uses its old search ids again and reads an index file that its
  downloads have extended.
* **TCP.** One `read()` is taken for one message, and the return value 0 for
  "nothing yet".

`PROJECT.json` lists each hazard at its line with the properties aimed at it.

### What makes each component correct

* *Search*: what is listed is true; what the flood finds is listed; replies are
  answered exactly once; the flood is bounded by the hop count; every relay
  answers; an attempt ends.
* *File sharing*: a copy has the characters of the original, in order; what is
  announced is sent; what is recorded is intact; a download ends.
* *Threads*: the peer list is exact; nothing is freed twice or used after; peers
  that left are freed; the shut-down completes.
* *Overlay*: a leaving peer does not split the overlay; no duplicate connections.
* *Index file and messages*: what is written is read back; a message is understood
  as it was meant.
* *Project 1*: a copy is the whole file; a failure means that nobody has it; a client
  ends.

## Modules

| module | what it is |
|---|---|
| `SearchService` | abstract specification: what a search promises its user |
| `SimpleSearch` | the flooding search on a fixed overlay; implements `SearchService` |
| `MCSimpleSearch` | small overlays: a tree and a cycle |
| `SimpleSearchProofs` | types, soundness of the hits, the refinement of `SearchService`, where requests, responses and hits go, proved |
| `SimpleSearchDelivery` | relays miss what is to come, at the end nobody waits and every holder is listed; without cycles nobody is left out; proved |
| `SearchChurn`, `MCSearchChurn` | the search while peers leave, are killed and come back |
| `SearchChurnProofs` | answers belong to the search they are shown for, relays wait for lost peers only, a new id finds every file, proved |
| `SearchStream`, `MCSearchStream` | the texts of the messages in a TCP stream |
| `SearchStreamProofs` | parsing undoes formatting, and what becomes of a message however the stream is cut, proved |
| `Overlay`, `MCOverlay` | several servers that join and leave |
| `OverlayProofs` | types, agreement of the lists, no spare connections, the overlay stays connected, proved |
| `FileTransfer`, `MCFileTransfer` | downloads between several peers, with kills and restarts |
| `FileTransferProofs` | types, keywords, the permanence of the index, what copies hold, proved |
| `PeerServer`, `MCPeerServer` | threads and `PeerDetails` objects of one server |
| `PeerServerProofs` | type correctness, the exact peer list and the join before the free, proved |
| `Project1`, `MCProject1` | the first project |
| `Project1Proofs` | written files are right, failures are true, proved |

How they fit together: `PeerServer` opens one server up to its threads and closes
the others; `Overlay` composes several servers and keeps of the threads only what
reorders the messages between them; `SimpleSearch` composes the searches of all
nodes on an overlay that is given; `SearchChurn` puts the relays of `SimpleSearch`
on an overlay whose nodes come and go; `SearchStream` looks at one connection and
justifies, or refutes, what the others assume: that a message arrives whole and
alone. `FileTransfer` starts where `SimpleSearch` ends, with a hit the user chose.

Definitions keep the names of the source where there is one. A definition whose
comment says *faulty variant* (`RepliesNeededAll`, `KeepsPointer`, ...) is not
used by the specification: it is what the definition next to it would be with a
plausible bug, and serves to show that a property notices that bug.

### SimpleSearch

A connection is a pair of *ends*; an end is one `PeerDetails` object, so a node
may have several connections to another, as in the code. Each critical section
of `srv_dtls->mtx` is one action. A handler sends within its critical section, so
the messages it sends are part of its action. Connections deliver whole messages
in order.

| variable | code |
|---|---|
| `counter`, `pc`, `word`, `try` | `search_counter` and the locals of `simple_search` |
| `created[s]` | `created_searches`: status, hits, and (of the request sent) word and hop count |
| `fwd[n][s]` | `forwarded_searches`: replies received and needed, upstream peer, hits; `waiting` is a history flag |
| `chan[e]` | what the listener of `e` has still to read |
| `index[n][w]` | `searchable_f_index` and `searchable_kw_index` |

| action | code |
|---|---|
| `SearchUnasked`, `SearchStart` | `simple-search.cpp:316-361`: a hit at home or no peer; otherwise the search starts |
| `Attempt` | 362-385: new id, new entry, a request to every peer |
| `WakeSuccess`, `WakeFailed` | 387-407: after the sleep |
| `Choose` | 409-477 and the index update of `file-sharing.cpp:398-423` |
| `ReqProcessed` | 109-118: NO_PROCESSED |
| `ReqFound` | 125-135, 160-166: YES |
| `ReqForward`, `ReqDeadEnd` | 137-155, 167-185, 37-62: forwarded, or NO |
| `RespCollect`, `RespComplete` | 202-243: a relay counts a reply; the last one goes upstream |
| `RespInTime`, `RespLate` | 244-265: the creator takes a response, or ignores it |

The five attempts with 1, 2, 4, 8 and 16 hops are the constant `Hops`; `MaxSid`
bounds the ids a node uses up. A file name and a keyword are both words;
`Index0Assumption` states what `create_f_kw_index` guarantees of the index it
makes. A download started from a search is its effect on the index: the name,
and all, or none (a failed transfer), of the keywords.

### SearchChurn

One node searches, others relay and answer, with hop counts that are large enough.
An end has a third part: the life of the searching node in which the connection was
made, as a node that comes back is a new `PeerDetails` at its peer while the old one
may still be listed.

| variable | code |
|---|---|
| `listed`, `connected`, `listens` | `connected_peers`; the flag; whether `listen_to_peer` is in its loop |
| `sock[e]` | the connection that the descriptor in `e` refers to: none after `close()`, another when `accept()` returned it again |
| `fwd`, `created`, `counter` | as in `SimpleSearch`; lost when the process ends |
| `used`, `reused` | history: ids of earlier lives; whether a descriptor, or the memory of a freed upstream peer, came back |

`Leave` is `disconnect_all_peers` of a node with at most one peer
(`p2p-server.cpp:169-189`), `Crash` the end of a process without a word,
`HearReset` the failed `read()` after which the flag stays set
(`simple-search.cpp:297-310`), `Restart` the `main` of a node that connects to its
peer again. A node with several peers that leaves is the matter of `Overlay`.

A relay keeps a pointer to its upstream peer (`simple-search.cpp:211`) and uses it with
the last reply, when `monitor_connected_peers` may have freed it. What is then read
there is one of three things: what was left behind, a peer that is not connected
(`RespRelayed` sends nothing); the `PeerDetails` that `accept` made since
(`p2p-server.cpp:458`), to which the reply goes (`Restart` chooses whether the new
object lies there: `Occupied`); or something else, and the process ends (`RelayDies`).

### SearchStream

One connection, the listener at its end, and a peer that sends CONNECT, searches and
a DISCONNECT of either kind: requests for a file name or a keyword, and the answers NO,
NO_PROCESSED and YES with the hits of several peers. The node created some of the
searches it asked for (`Created`) and relays the others, and it knows some of those it is
asked for (`Seen`): `Forwarded` is what it has in `forwarded_searches`. A text is a sequence of atoms: keywords, delimiters,
ids, words, hits; `read()` returns what was sent by then, `MaxRead` atoms at most.
`Join` and `Split` are `join_str` and `split_str`, `Text` the `get_*_msg` functions,
`Handled` the tests of `handle_peer_msg` in their order, with what they take the
text for (`UB` where a token that is not there is used). A relay counts an answer before
it looks at its tokens, so a cut one counts too: it is `short`, and undefined when the
last answer comes. `Marks` are the two delimiters
and the keywords that the parser looks for. `StreamAssumption` says that dc_ids, words
and hits (`Given`) are none of them, and ids none of the other atoms: nothing in the
code sees to it, and a file name with `_` in it is cut.

### Overlay

| variable | code |
|---|---|
| `state[n]` | down, up, `shut_down` set (leaving), in `disconnect_all_peers` (closing), gone |
| `links`, ends `<<l, "out">>`, `<<l, "in">>` | connections; a `PeerDetails` at either side |
| `peers`, `name`, `connected` | `connected_peers`, `dc_id`, the flag |
| `thread`, `todo`, `now` | where the listener is in `listen_to_peer` and `add_neighbors` |
| `joining[n]` | the listener that is joined with the mutex of `n` held |
| `events` | history: what went wrong, see `StaysConnected` |

| action | code |
|---|---|
| `Start`, `StartRefused`, `Accept` | `p2p-server.cpp:560-582`, `444-471` |
| `HearConnect`, `HearDisconnect`, `HearAddNeighbors` | `simple-search.cpp:70-94` |
| `HearSearch` | a search message ends the listener of a server that is shutting down |
| `KnownNeighbor`, `NewNeighbor`, `NeighborAnswers`, `NeighborRefuses`, `NeighborUnknown`, `NeighborPushed` | `add_neighbors`, which gives the mutex up between its check and its push |
| `MonitorFrees`, `MonitorJoins` | 297-330 |
| `Terminate`, `LeaveChoosing`, `LeaveTelling`, `LeaveEnds` | 124-226, 626-631 |

`connect()` returns when the kernel of the other side has the connection, so an end
may wait in a backlog, unknown to its server. `Sent` is nondeterministic where the
listener has left its loop and is about to close the socket. The vector of
neighbours is a set: names are looked at in any order.

### FileTransfer

A connection `c` to port 5051 is used once. `pc[c]` is where the client is in
`request_file_download`, `handler[c]` where the thread of the peer is in
`handle_file_req`. Control messages are atoms, followed on the same connection by
the bytes of the parts: a sequence number and `MsgSize` characters each. The
clients in `AnyReads` read any number of these bytes, the others as many as the
buffer holds. `sent` is a history variable.

* `PartsOf` is what the handler announces (`file-sharing.cpp:150-157`), `RowsOf`
  what `send_file` sends (`47-63`): they differ for sizes that fill their parts.
* An empty file leaves `buf_i` uninitialized: `EmptySent` is the set of outcomes.
* `SendOverrun`: the file grew after it was counted and the rows do not fit in the
  buffer. The process crashes, or goes on.
* `ReadContentsCut`: FILE-CONTENTS-RESP is accepted as soon as it has three fields, so a
  read that ends inside the keywords, or a message longer than `MSG_SIZE` (`Long`, the
  read fills the buffer then), leaves a shorter list: `Truncated`, which stands for
  every such list as `Garbage` does for those to which bytes were glued. The atom
  `rest` is what the client then takes for a part and refuses (`file-sharing.cpp:356-360`).
* `Kill`, `Restart`: a process ends at any point, with its downloads and handlers;
  a new one reads the index file: `lines` is what the downloads appended to it,
  `IndexRead` what `create_f_kw_index` makes of it, `Readable` which lines it can.
* `Reset`: the kernel of a killed process may reset the connection or end the stream.
  After a reset what was received is still read, then one `read()` fails, and later
  ones return 0. `Refused`: the peer is down; the code goes on all the same.
* `Busy`: main downloads one file at a time; a file handler thread runs for each
  connection.

### Project1

`server[s]` and `pc[c]` are where the servers and the clients are in `main`. The
files are those of `project1/README.md`: they begin with `start`, end with `end` and
have no byte 0. A connection to a server that has accepted another client waits in
its backlog for ever, as `accept()` is called once, until the server ends.

A server only compares what it reads with the two requests for its own file, so `up`
holds what its reads of 32 bytes will give, as one of four texts: a longer name is read
in two pieces and answered twice, `FileOf[s]` with `_CONTENTS` after it is taken for the
contents request, and for the clients of `AnyReads` any cut is possible. `down` is a
stream of bytes; an answer counts as one.

| actions | code |
|---|---|
| `Accept`, `HandleRequest`, `HandleContents`, `SendPart`, `Terminate`, `ServerReadError` | `server.cpp:267-306`, 122-212 |
| `Kill` | ctrl + c (`project1/README.md`), at any point |
| `Connect`, `ConnectFails`, `Types` | `client.cpp:447-461` |
| `Ask`, `ReadNo`, `ReadUnexpected`, `ReadError` | 214-268, and what `main` does next |
| `ReadYes`, `OpenFails`, `ReadContents`, `ReceiveError` | 163-175, 270-380, and the file that `main` writes |

A server that ends resets the connections in its backlog, and that of its client if a
request of it is not read (`broken`); otherwise `read()` of the client returns 0 for
ever (`KilledUnder`). A read error ends `request_file_exists` as a NO would, and
`request_file_contents` with the file as far as it came: `reset` remembers both.

### PeerServer

One server; what its peers send is the environment (`Says`, `Closes`). `at[t]` is
where thread `t` is. A critical section in which its thread cannot block is one
action that needs `lock = Nobody`; the monitor and `disconnect_all_peers`, which
join threads inside, hold `lock` over several actions. Each `PeerDetails` is
created once and freed once (`memory`), so a stale pointer is seen as such.

| actions | code |
|---|---|
| `AcceptConnection`, `Push`, `Spawn`, `SetThread`, `AcceptEnds` | `p2p-server.cpp:444-480`; `Push` to `SetThread` also 425-430 and 574-575 |
| `Check`, `Read`, `ReadNothing`, `ReadError` | `simple-search.cpp:283-311` |
| `SearchReq`, `SearchResp` | 95-271, reduced to the mutex and the upstream pointer |
| `NextNeighbor`, `Connect`, `ConnectFails`, `LastNeighbor` | `p2p-server.cpp:400-437` |
| `MonitorLocks` ... `MonitorUnlocks` | 297-330 |
| `MainConnects`, `MainPush`, `DataRace` | 561-583; the push has no lock |
| `Terminate`, `Leave`, `Disconnect`, `DisconnectJoins` | 124-226, 626-629 |

A use of a freed object, or of the vector during the unlocked push of line 576, is
undefined behaviour: `undefined` records it and the model stops there, so
everything else is claimed of runs up to that point. CONNECT only sets names,
which this module abstracts away. The reuse of file descriptors is not modelled.

## Runs

| run | properties | shows |
|---|---|---|
| `search_tree` | `TypeOK`, `HitsSound`, `EveryHolderReported`, `FloodCoversHops`, `ServiceSpec` | a tree of four nodes and one alone, two users, two attempts, downloads |
| `search_cycle` | `ResponsesSolicited`, `EveryReplyCounted`, `NoHitTwice`, `FloodWithinHops`, `EveryHolderReported`, `RelaysAnswer`, `ServiceEnds` | a cycle of three with a tail: copies of a request meet; a retry overlaps the first attempt; relays that wait for each other are answered, attempts end |
| `search_loopback` | `NoYesSwallowed` | violated: finding 1 |
| `search_churn` | `WaitsForLost`, `AnswersOwn`, `NewIdFinds` | a star in which the searching node and another one leave, the first is also killed, and comes back with its old ids |
| `search_stream` | `AloneUnderstood`, `LeaveNoticed`, `AnswersCounted`, `FirstDecides` | up to six messages, glued and cut by every timing of their reads |
| `overlay` | `TypeOK`, `StaysConnected`, `ListsAgree`, `NoSpareLinks`, `NothingStuck` | a star whose middle and another node leave while a node joins; a triangle of which one leaves while a node joins; a pair of which one leaves while a node joins at each, perhaps before a name was read |
| `overlay_partition` | `NoPartition` | violated: finding 2 |
| `transfer` | `TypeOK`, `CompleteIsExact`, `CopiesArePrefixes`, `KeywordsTrue`, `IndexSurvives`, `DownloadEnds` | two downloads among three nodes, five files, one that is rewritten while it is offered, one with too many keywords, short and glued reads, a node that is killed and restarted, a file that cannot be written |
| `server_threads` | `TypeOK`, `PeersExact`, `FreedAfterJoin` | all interleavings of main, accept, monitor and two listeners |
| `server_liveness` | `DisconnectedAreFreed`, `ShutDownCompletes` | the same threads under fairness, one message a peer |
| `server_dangling` | `NoUseAfterFree` | violated: finding 3 |
| `project1` | `CopyExact`, `FailureTrue`, `ClientsEnd` | two clients, one of them with short reads and a file it cannot open; two servers, which may be killed; names that are too long, or are taken for a request for the contents |

Notes on what a property does and does not say:

* `FloodCoversHops` is checked on a tree and proved of every overlay without cycles
  (`Forest`). On a cycle it does not hold: a copy that travelled the long way may arrive
  first, with fewer hops left.
* `EveryReplyCounted` and `EveryHolderReported` exclude searches whose request came
  back to its creator; `NoYesSwallowed` is the second without that proviso.
* `WaitsForLost` says that a relay which never answers has lost a peer; `AnswersOwn`
  excludes runs in which a closed descriptor, or the memory of a relay's upstream peer,
  was given out again (finding 6), and
  `NewIdFinds` speaks of a search during which every peer can answer.
* `StaysConnected` and `ListsAgree` hold of runs in which none of the six events
  of `Clean` happened: by the proofs they are the complete list of what can split
  the overlay, for any number of peers that join and leave. `NoSpareLinks` speaks of
  one leaving node.
* `LeaveNoticed`, `AnswersCounted` and `FirstDecides` name what gluing and cutting
  do (finding 7), and say that they do nothing else.
* `CopyExact` allows a third that is missing, never a wrong one; and only where reads
  are short or a connection was reset. `FailureTrue` excludes clients whose requests
  may be cut, and servers that reset the connection.
* `ClientsEnd` names all that holds a client up for ever (`Stuck`): its user, a server
  that has accepted somebody else, a server that was killed, and the odd names. Each is
  needed: without any one of them TLC refutes it. Two clients that wait for each other
  are two cases of `BehindAnother`.
* `DownloadEnds` excludes what hangs a client for ever: a killed peer, the sizes for
  which `PartsOf` and `RowsOf` differ, a file that shrank, and a handler that gave
  up on a cut message without an answer. Its definition `Sound` names each.
* `IndexSurvives` takes an index file that did not end with a newline (finding 8).
* `KeywordsTrue` says which files may have wrong keywords, those of which a message with
  keywords may have been cut, glued or too long (finding 12), and that no others have.
* `CompleteIsExact` speaks of clients that read whole parts. In the run one of them
  downloads from a node that meanwhile downloads the same file again: the file is empty,
  shorter or longer when it is sent than when it was counted, the buffer is overrun, and
  its size is any from 0 to 4.
* `FreedAfterJoin` and the two server liveness properties name the cases of
  findings 3 and 9 and say that there are no others.
* `ClientsEnd` names the clients that wait behind another one.

### Bounds, and why they are enough

* *Search*: cycles are where requests meet; a cycle of three has two relays that
  forward to each other and a request that comes back, and its tail has a holder
  behind two paths. The tree has a relay with two downstream peers that both have
  hits, a word held in different files by two nodes, and a node without peers.
  Two attempts suffice for messages of one to meet the other; what an attempt
  leaves behind has its own id. `MaxSid` leaves room for one whole search and an
  unasked one.
* *Churn*: a relay with a holder, a peer that may vanish and a searching node is the
  smallest in which a reply is missing and another is not. One restart separates old
  ids from new; in the first life the node uses id 1, in the second 1 and 2, one that
  was used and one that was not. Two words tell the answers of two searches apart.
* *Stream*: six messages are a CONNECT, two searches asked and two answered, and a
  DISCONNECT; the buffer of 12 atoms is longer than each message and shorter than
  most pairs, so that a message is glued and cut in front and behind.
* *Overlay*: four nodes, two of which leave at once, are the fewest in which the
  chosen neighbour leaves too and somebody is left to be cut off; a pair with one that
  joins at each is the smallest in which the leaving node and the chosen one both have
  a neighbour without a name. `MaxLinks = 6` is never reached by these overlays.
* *Transfer*: parts of 2 characters and files of up to 5 (4 is `MAX_FILE_SIZE`) have
  every size that matters: inside a part, filling parts, the maximum, above it, and,
  once a copy was opened for writing, 0.
  Two downloads allow a copy of a copy, a holder rewritten while it sends, and a
  restart between; `Sought` bounds what each user may want.
* *Server*: two objects are what a thread that introduces one and another that frees
  one need; two messages a peer allow a search followed by a disconnect, and
  `MaxNeighbors = 1` an `add_neighbors` that connects. The liveness run has one
  message a peer and connections that end by EOF only, as its graph is costly.
* *Project 1*: two clients are enough to block each other; the parts have two
  characters, so that a message can be cut in front of, between and behind them. A
  request is cut once; a name has at most 58 characters (two reads).

Symmetry is used in `server_threads` and `server_dangling` (the objects), both of
which check invariants only. Deadlock is not checked: users may stop typing, the
bounds run out, downloads of the kinds named above do hang, and servers exit.

### Fairness

* `SimpleSearch`: weak fairness of each node's main thread between commands (its
  timer expires), and of the listeners taken together: as long as one has a message
  to read, some listener goes on. A user need not type anything.
* `FileTransfer`: weak fairness of each client and each handler; none of users,
  kills, restarts, resets and refusals.
* `PeerServer`: weak fairness of steps that need no mutex. Steps that wait for
  `srv_dtls->mtx` get strong fairness: the mutex is free again and again, the only
  thread that takes it for ever sleeps 100 ms after each round
  (`p2p-server.cpp:328`), and the other sections are short. The peers, the user and
  the network have none.
* `Project1`: weak fairness of each process; none of the users who type, of kills, and
  of the read error of a server whose client has left.

## Proofs

The theorems about `SimpleSearch` hold for every overlay, index, schedule of hop
counts and bound that satisfy its assumptions; those about `PeerServer` for any set of
connections, whether the server begins as the first or joins, and any bounds
(`ThreadAssumption`, `BoundAssumption`); those about `FileTransfer` for any servers,
files, sizes of files and parts, and any number of downloads (`SizeAssumption`,
`IndexAssumption`, `EnvironmentAssumption`); those about `Project1` for any number of
clients and any length of a part (`Project1Assumption`); those about `SearchChurn` for
every overlay, index, leavers, crashers, number of lives and of ids
(`ChurnAssumption`, and `NoEntryAssumption`, that "no entry" is not an entry); those
about `Overlay` for any servers, any of them joining at any others, any of them
leaving, any number of connections (`OverlayAssumption`) and any overlay to start with
that is connected and has no connection twice (`StartAssumption`); those about
`SearchStream` for any ids, words, hits and neighbors (`StreamAssumption`), any number
of messages and any size of the buffer. Every
invariant of the passing runs is proved, except `NothingStuck`,
and so is the refinement; their liveness properties are not. Two theorems ask more of an
overlay than the assumptions of their modules: `NewIdsFind` (`Tree`, `HoldersApart`) and
`FloodCovers` (`Forest`). `MCSearchChurn` and `MCSimpleSearch` state that their
instances are such overlays as assumptions, which TLC evaluates.

* `SimpleSearchProofs!TypeCorrect`: `Spec => []TypeOK`. `TypeOK` is inductive: with
  the types it says (`Places`) where a running attempt has a search id within the
  bound and an entry in `created`, which `CurrentSid` relies on.
* `SimpleSearchProofs!HitsAreSound`: `Spec => []HitsSound`. `HitsSound` alone is not
  inductive: a node answers for the word of the request, while the property speaks of
  the word in `created`; and a hit stays true only because an index never loses a
  name. The inductive invariant `SoundInv` adds to `TypeOK` and `HitsSound`: every
  request, response and relay is about a search that was created and a request
  carries its word (`MessagesSound`, `RelaysSound`, `ListsSound`); ids in use are at
  most the counter, so a new one is new (`IdsInOrder`); what an index offers for a
  word matches it and is indexed by its name (`IndexSound`); and a running search
  asks for a word its node does not have (`Asking`). `Grows` says that a step adds
  entries and names and removes none; one lemma per kind of state shows that what
  was sound stays sound then, and one per handler that what is new is sound.
* `SimpleSearchProofs!ImplementsService`: `Spec => ServiceSpec`. The refinement
  mapping is the identity on `created` and `index`. `Attempt` maps to `Open`
  (`IdsInOrder` and `Asking` give its guard), `RespInTime` to `Find` (the hits are
  sound by `SoundInv`) or a stutter, `WakeFailed` to `TimeOut`, `Choose` to
  `Download` or a stutter, every other action to a stutter.
* `SimpleSearchProofs!NoResponseAstray`: `Spec => []ResponsesSolicited`. That a
  response only reaches a node that asked is not inductive: a node answers the
  connection by which a request came, or the upstream peer in its relay, perhaps long
  after. `RoutingInv` adds that every request on its way, and the upstream peer of
  every relay, is one of a node that asked (`MessagesRouted`, `RelaysRouted`).
  `Keeps` says that a step removes no search and changes no upstream peer, so that who
  asked has asked for good.
* `SimpleSearchProofs!FloodStaysWithinHops`: `Spec => []FloodWithinHops`. A request
  that reached node `n` with `h` hops left has walked the others: `ReqNear` says that
  there is a walk of that many connections from the creator to `n`, `RelayNear` the
  same of a node that has the search. On top of `SoundInv`, which ties a request to
  its entry in `created`, a handler only makes the walk one connection longer while
  it takes one hop off.
* `SimpleSearchProofs!HitsTravelOnce`: `Spec => []NoHitTwice`. Two places may only come
  to hold a hit if one step put it there twice or its peer answered twice. `OnceInv`
  says of each hit that one place at most carries it (a response on its way, a relay
  that collects, the list) and that the peer it names has an entry for the search,
  so that it will not answer with the hit again. The proof follows the place of a hit through a step (`Shift`:
  the queue that is read moves up by one).
* `SimpleSearchDelivery!RepliesAreCounted`: `Spec => []EveryReplyCounted`. The property
  itself is nearly inductive (`Balanced`): a step takes one message from a queue and
  puts one on some others, and `OwedChange` says what that does to what is owed at
  each end. It needs `RoutingInv` (a response comes to an end where one is owed) and
  `SoundInv` (a new search has nothing on its way), and cardinalities of the sets
  of ends that owe, one more or one less.
* `SimpleSearchDelivery!HoldersAreReported`: `Spec => []EveryHolderReported`. Its first
  part speaks of searches that come back to their creator as well, where replies may
  be counted twice and `EveryReplyCounted` fails. `DeliveryInv` says less, but of all
  searches: a relay that waits has *at least* as many ends at which a reply is still
  to come as it misses (`Debtors`), and relays ask one another in no circle
  (`Grounded`: some relay of any set of them asked none of the others). So if nothing
  is on its way, nobody waits. `KeptInv` adds that each peer that answered with a
  hit is on the list, in a response or in a relay that waits, or the attempt failed.
* `SimpleSearchDelivery!FloodCovers`: `Forest /\ Spec => []FloodCoversHops`. Distances
  need no recursion: a peer is `Far` if no walk to it is shorter. `CoverInv` says of each
  request on its way that it goes away from its creator (`Behind`: the connection it
  comes by is the only one between the two), and that no walk to its receiver has fewer
  connections than it has used up, the other half of `FloodWithinHops`: with cycles this
  is what breaks. A walk that goes further must come by the connection that the request
  is forwarded on (`WalkCrosses`, `FartherOn`). So a relay that ends the flood for want
  of hops is at the full distance, and any other one tells each of its peers
  (`Spreads`); with nothing on its way, the first peer on a walk that was left out has
  one before it that told it.
* `SearchChurnProofs!AnswersAreOwn`: `Spec => []AnswersOwn`. `ConnInv` is what both
  theorems need of the connections: a listener in its loop reads its own socket, for a
  peer that is listed and connected (`Listening`); a listed, connected end listens if
  the other side does (`BothListen`); without reuse a descriptor refers to its own
  connection or to none (`OwnSocket`), and a relay keeps the upstream peer it had;
  connections of later lives have left no trace
  (`FutureFresh`, `RelaysOwn`). `OwnInv` then says that there is a set of *good*
  relays, those that were asked on a path which begins at the search that exists now:
  whoever asked such a relay and takes the answer as its own is good as well, and what
  good relays and the creator collect, or have unread, is about the word of this
  search. Relays of an earlier life with the same id are not good, and their answers
  go only to ends that died with that life. A new search has an id with no good relay
  (`AttemptOwn`), as ids go up within a life; when the searching node ends, no relay is
  good.
* `SearchChurnProofs!RelaysWaitForLost`: `Spec => []WaitsForLost`. A relay that waits
  has at least as many debtors as replies to come (`WaitInv`), where a debtor
  (`Owes`) is an end that was asked and is lost, has not read the request, has a reply
  unread, or waits itself with this relay as its upstream. Whoever is not lost hears
  and is heard (`NotLost`, from `BothListen`), so a step turns one kind of debt into
  another; only a reply that is read removes one, and it is counted. Lost ends stay
  lost, as a node that comes back has a new connection. When all is quiet a debtor can
  only be lost or waiting. This holds with descriptors given out again, too.
* `SearchChurnProofs!NewIdsFind`: `Tree /\ HoldersApart /\ Spec => []NewIdFinds`. It
  takes `Tree`, that the first overlay is connected and loses that with any of its
  connections: on a cycle the request may come back to the searching node, which then
  is a relay of its own search (finding 1). And it takes `HoldersApart`: a peer that
  has a file does not pass the request on, by design of the code, so who is only
  reached through it is not asked; of several peers with a file for one word each has
  one connection at most, and none is the `Entry` that gets another one when the
  searching node comes back. One holder of a word may be anywhere. Three invariants
  go before. `TreeInv` follows the overlay through leaving, killing and coming
  back: no connection is ever on a cycle (`Bridges`, said with a part of the nodes that
  only this connection leads out of, so that no paths are needed), and the nodes that
  run are in one piece or one of them has a peer that died and is never freed
  (`Broken`). `FreshInv`: an id that no life has used nobody has heard of, and while
  every peer can answer only steps of searches happen. `GoodInv` is about one such
  search: requests move away from the searching node (`Requested`, `Away`), who passes
  one on passes it to all (`Spreads`), an end owes one answer, as a request, a relay
  that waits, or a reply (`Single`), a relay is owed no more answers than it misses
  (`Few`), which with `WaitInv` makes the count exact and tells that no reply comes to
  a node that does not wait, and no hit is lost on its way to the list (`Kept`). A
  relay that waits when nothing is on its way waits for another one, and of any set of
  relays one is nobody's upstream (`Grounded`), so none waits (`NoneWaits`). And the
  request came to every holder (`HoldersHeard`): else the nodes that know it would be
  a part of one piece, and whoever leads out of it would be a holder with two
  connections.
* `OverlayProofs!OverlayTypes`: `Spec => []TypeOK`. `TypeInv` adds that a listed end
  was made and has a listener, one that is about to be pushed has none yet, and one
  that was not made has nothing.
* `OverlayProofs!OverlayListsAgree`: `Spec => []ListsAgree`. A server learns what the
  other side did from what it reads, so the invariant is about the messages. `Standing`
  says how far the listeners of a server can be, given how far the server is; `Talk`
  that a goodbye is sent by who leaves only (`GoodbyeSent`), that an end knows the true
  name or is about to read it (`Named`), and that of each connection the other side
  lists it, is about to, or has said goodbye (`OtherSide`). At rest nothing is left to
  read, which leaves the agreement.
* `OverlayProofs!OverlaySparesLinks`: `Spec => []NoSpareLinks`. While one server leaves,
  one listener at most runs `add_neighbors` (`OneAdder`), for neighbours of the one that
  leaves (`NewNames`). It looks names up, and a name may not be known yet; so the proof
  needs the order in which connections were made: who is connected but not known by name
  joined of late, and had no other connection (`Late`, `Acquainted`). `NotFound` is the
  argument: if `c` does not find `m`, and yet there is a connection between them, `m`
  joined at `c` after all that `c` knows, and the one by which the leaving server
  knows `m` came after that, and the one between that server and `c` later still; but
  then neither of the two can have made it.
* `OverlayProofs!OverlayStaysConnected`: `Spec => []StaysConnected`. `Joined` is what it
  adds: an alive server lists each of its connections or is about to (`Has`), names
  that were sent will be read (`WillRead`), and `ConnInv`: unless one of the six events
  has happened, no part of the alive servers is cut off from the rest, where an edge is
  a connection or a name that one of its ends is still to connect to (`Conn`), or one of
  the events is bound to happen (`Doomed`: a name that is nobody's is on its way, or
  one of a server that is leaving, or one that leaves has names to look up). What is
  doomed stays so until the event (`DoomedStays`), and at rest nothing is
  (`NothingWanted`). Edges stay (`EdgeStays`): a name that was looked up has become a
  connection. The step that matters is the one in which a server leaves and takes its
  edges along: all of its neighbours are handed over to the one that it has chosen
  (`HandsOver`), so a part that is cut off now was cut off before (`PartConn`).
  Written as a requirement on all parts, `OnePart` needs no paths and no recursion.
  The parts of these invariants were checked by TLC, on instances like those of `overlay`,
  before they were proved. Without the event `nameless` what is
  doomed could end with no event (finding 11).
* `FileTransferProofs!TypesAreRight`: `TypeInv` adds what a connection is before and
  after it is used (`Used`), and that a handler that has promised a file still finds
  it, as nothing removes files (`Found`): otherwise `Len(disk[n][f])` would be of a
  file that is not there.
* `FileTransferProofs!KeywordsAreTrue`: keywords pass from an index to a message, to a
  client, to an index and to a line of the file, and back after a restart;
  `KeywordsInv` says of each of these places that its list is `Said`. What is cut was too
  long from the start, was spoilt before, or is cut by a client in `AnyReads`.
* `FileTransferProofs!IndexIsPermanent`: `IndexInv` says that there is no empty line and
  that what `main` would read, the last line of each file, is the index but for
  entries that a failed look-up made. It relies on `KeywordsInv` for the lines that
  can be read.
* `FileTransferProofs!CopiesAreBeginnings` and `CompleteCopiesAreExact`. The invariant
  `CopyInv` says where each client is in the stream of its peer: it has read `i` whole
  parts and taken them (`Aligned`); or a read has cut a part, or the message with the
  keywords, and the next byte is a character, which is no number of a part, so that
  nothing more is taken (`Spoilt`);
  or nothing came. What it has taken is a `Beginning`: row `j` holds characters of the
  file from part `j` on, and nothing follows a row that is not full. `ReadAtPart` is
  the heart: a read of any length that starts with a part fills a row and leaves the
  client in one of these cases, whatever it glues or cuts. `CopyBegins` turns rows into
  the file that is written (`FlattenSeq` is a recursive function; its shape is proved
  by the least length at which it could fail), and what is sent is a beginning of the
  original, so that a copy of a copy is one.
* `Project1Proofs!CopiesAreExact` and `FailuresAreTrue`: `TransferInv` says where the
  client is in the stream of three messages that its server sends (`ReadUpTo`): only a
  read that begins and ends with a message has its length, so a third is taken whole or
  not at all; and that a question or its true answer is on its way until the client
  knows it (`OneAnswer`, `ToldTrue`). The rest of a message that was cut holds no
  sequence number that is not followed by its message (`MessagesWhole`).
* `PeerServerProofs!ServerTypeCorrect`: `Spec => []TypeOK`, with `NewTyped` (a thread
  that introduces an object has one), `NamesLeft` (a listener that connects has a name
  left) and `WalkInBounds` (the walks of the shut-down are at an element, and alone).
* `PeerServerProofs!NoLeakNoDoubleFree` and `FreeWaitsForListener`:
  `Spec => []PeersExact` and `Spec => []FreedAfterJoin`. Neither is inductive: both
  depend on who holds a pointer to the object. `ObjectsInv` adds that an object which
  is being introduced belongs to one thread (`NewExact`), which has not yet begun its
  listener (`BornBySpawn`); that it is live until it is in the list
  (`IntroducedLive`); and that an object in the list without `listening_thread` is
  about to get it (`ThreadComing`). Most steps change neither the objects nor who
  introduces them: one lemma (`QuietObjects`) covers those, and one each the steps
  that create, push, spawn, set and free.

* `SearchStreamProofs!SplitUndoesJoin`: a text joined of tokens without the delimiter is
  split into these tokens. `Join` and `Split` are no recursive definitions, so both are
  first described by their first token: `JoinCons` by the blocks that `Join` lays one
  after the other, `SplitCons` by the rank of a delimiter among those of the text
  (`Nth`), which a text put in front moves by one. The shortest sequence of tokens that
  came back different would then have a shorter one behind its first token.
* `SearchStreamProofs!ParserUndoesFormatter`: the text of each message is handled as what
  it means. The order of the tests in `handle_peer_msg` matters, so `Telling` says what
  the atoms of a text give away: a keyword is found in the texts of one type only, an id
  in those of one search only, and each at one place.
* `SearchStreamProofs!SpecAloneUnderstood`, `SpecLeaveNoticed`, `SpecFirstDecides` and
  `SpecAnswersCounted` have one inductive invariant, `StreamInv`: what was sent follows
  the rules of the sender (`Script`: CONNECT first, a leave last, each id once), the
  stream is the texts of the messages one after the other (`Laid`), the reads go through
  it from left to right, cover what was taken and led to what `Handled` makes of their
  text (`Readings`), and the listener ends when it must (`Listening`). A read is then a
  slice of the stream, wherever it was cut, and each property is about where in a slice
  an atom may be. Read alone: `ParserUndoesFormatter`. A leave that nobody noticed: the
  read that holds its first atom begins before it. What a search message is taken for:
  the first three tokens of a slice are those of the message it begins with
  (`SplitThree`). Counted once: the id of an answer is at one place of the stream
  (`PlaceOf`), and no two reads hold it.

Only model-checked: liveness (`RelaysAnswer`, `ServiceEnds`, `DownloadEnds`,
`ClientsEnd` and those of `server_liveness`), which the prover does not do,
and `NothingStuck`, which is about ENABLED. `OwnInv`,
`ConnInv` and `WaitInv` were checked by TLC on the instance of `search_churn` before
they were proved, `CoverInv` on that of `search_tree`.

## Findings

Shown by runs that expect a violation:

1. **A YES may be swallowed** (`simple-search.cpp:202`). Responses are looked up in
   `forwarded_searches` first. A request that returns to its creator over a cycle
   makes the creator a relay of its own search; later responses end there.
2. **Two leaving neighbours split the overlay** (`p2p-server.cpp:206`), against
   `REPORT.md:28`: the neighbour that was chosen to connect the others ends first.
3. **Freed while used** (`p2p-server.cpp:316`): a peer that disconnects before
   `listening_thread` is set is freed without a join; the upstream pointer of a
   relay (`simple-search.cpp:211`) is another way.

Named by the provisos of properties that hold, which fail without them:

4. **A refused download is recorded** (`file-sharing.cpp:236`, `403`). The file is
   emptied, reported as downloaded, indexed and offered to others: the shortest of
   the beginnings that `CopiesArePrefixes` allows.
5. **One part too many is announced** (`file-sharing.cpp:156`) for a file of 256, 512
   or 768 characters: the client waits for ever (`SentTooFew`).
6. **Restarts and zombies** (`simple-search.cpp:106`, `310`, `common.h:160`). A peer
   that was killed stays in `connected_peers`, connected, until shut-down: no search
   that a relay next to it forwards is ever completed. When its descriptor is given
   to a new connection, or a new `PeerDetails` lies where the freed one of a relay's
   upstream did, replies of old searches reach the restarted node, which has
   created new ones under the same ids. A relay that remembers an id answers
   NO_PROCESSED to the new search.
7. **Glued messages** (`simple-search.cpp:291`). A RESP with a REQ read behind it is
   taken for a REQ with the id of the answer: a relay answers NO_PROCESSED and does not
   count it, and a creator relays its own search with a hop count of `UINT_MAX`; a
   DISCONNECT behind another message is not noticed, and the peer never freed; a
   DISCONNECT_ADDNBRS behind another message makes the process exit, as the first
   name it looks up is none.
8. **The index file** (`p2p-server.cpp:50`). If it ends with a newline, the next
   download appends an empty line first, and the restart reads past the tokens of it.
9. **Join under the mutex** (`p2p-server.cpp:313`, `159`): the listener that runs
   `add_neighbors` needs the mutex that the joining thread holds. The comment at line
   294 says that the listener has exited by then.
10. **Project 1** (`client.cpp:272`, `client.cpp:365`, `server.cpp:268`, `server.cpp:287`):
   a part that is read in two pieces is dropped and the file reported as written with a
   third of zeros; after a read error a file of zeros is written; two clients may block
   each other; a name of more than 26 characters has two answers, which a client that
   reads them together takes for none and waits; a server whose client went elsewhere
   never ends.
11. **A name that is not known yet** (`p2p-server.cpp:202`, `validations.cpp:120`). A
   peer that leaves before it has read the CONNECT of a neighbour sends an empty name
   for it. The chosen peer exits when it looks that up (the event `exit`), or, if one
   of its own peers has no name yet either, takes it for connected: it stays up, and
   the neighbour is cut off (`nameless`).
12. **Keywords cut short** (`file-sharing.cpp:289`). A FILE-CONTENTS-RESP that was cut
   inside its keywords, or is longer than `MSG_SIZE`, is accepted: the rest is taken for a
   part and refused, so an empty file and the shorter list are recorded and offered.

Seen in the code that is not modelled: `p2p-server.cpp:500` assigns where it means to
compare, so any answer starts the first peer.

## Not modelled

* The command line, the prompts, printing, scripts and test data: sequential code
  whose results nothing else depends on.
* The setting up of the sockets and the resolution of names, but for the name that
  is empty (`NeighborUnknown`).
* Data races on the maps of a search (`simple-search.cpp:411`) and on the list of
  peers are undefined behaviour: `PeerServer` stops there, the other modules assume
  that they do no harm.
* Words with `_`, `,`, `-` or `:` in them: the parsers cut them off.
* In `SearchStream`, reads that end inside an atom of a message, and a request and an
  answer for the same search that cross on one connection.
* In `Project1`, names of more than 58 characters, names with a request in them (whose
  second piece would be one), clients that are killed, and SIGPIPE. The 32 bytes that a
  server has read are not ended by a 0 (`server.cpp:300`): what follows them in memory is
  taken for more of a name that nobody has.
* In `FileTransfer`, how two garbled or two shortened lists differ (`Garbage` and
  `Truncated` are one list each), and a message of exactly `MSG_SIZE` characters.
* The shut-down of a server in the middle of file transfers other than by its end
  (`Kill`), and SIGPIPE, which is such an end.
* Searches of several nodes while peers come and go, and searches on overlays that
  `add_neighbors` is changing: each is modelled without the other, as together they
  are out of TLC's reach.

## Plan

All components with behaviour of their own are modelled. What is left:

1. An abstract specification of `Overlay` (the graph of the remaining peers) and a
   refinement for a single leaving node.
2. Larger instances: a relay of three peers in `SearchChurn`, a chain of three
   downloads in `FileTransfer`.
