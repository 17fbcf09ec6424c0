------------------------------- MODULE Project1 -------------------------------
(***************************************************************************)
(* The first project, src/project1: two servers with one file each, that     *)
(* serve one client and end; a client connects to both, asks P1 for the      *)
(* file, then P2, and receives it in three messages.                         *)
(*                                                                         *)
(* The files are those of project1/README.md: FSIZE characters that begin    *)
(* with "start" and end with "end".  So message 1 and 3 pass the tests for   *)
(* these words if they are read whole, and no character is 0.                *)
(*                                                                         *)
(* A request is "REQ_F_" and a name, and for the contents "_CONTENTS" after  *)
(* it.  All a server does with a text it has read is to compare it with the  *)
(* two requests for its own file, so a request is the list of what its reads *)
(* give: 1 for the first of these two texts, 2 for the second, 3 for that    *)
(* with one more "_CONTENTS", 0 for any other.                               *)
(***************************************************************************)
EXTENDS Naturals, Sequences, FiniteSetsExt, SequencesExt

CONSTANTS
    Client,     \* the clients; more than one may connect to a server
    Fname,      \* what a user may ask for
    FileOf,     \* FileOf[s]: the file of server s, 1 or 2
    Suffixed,   \* Suffixed[s]: the name FileOf[s] with "_CONTENTS" after it
    Long,       \* the names of 27 to 58 characters: two reads of 32 bytes
    PartSize,   \* FSIZE/3, 100
    Unwritable, \* the pairs of a client and a file that it cannot write
    AnyReads,   \* the clients on whose connections read() may return any number of
                \* bytes, at both ends
    Killable,   \* the servers that may be killed
    Nobody      \* no client

Server == {1, 2}

ASSUME Project1Assumption ==
    /\ FileOf \in [Server -> Fname] /\ FileOf[1] # FileOf[2]
    /\ \A s, t \in Server : FileOf[s] # Suffixed[t] /\ {FileOf[s], Suffixed[s]} \cap Long = {}
    /\ PartSize \in Nat \ {0}
    /\ Unwritable \subseteq Client \X Fname /\ AnyReads \subseteq Client
    /\ Killable \subseteq Server
    /\ Nobody \notin Client

VARIABLES
    server,     \* server[s]: where the server s is
    served,     \* served[s]: the client it has accepted
    backlog,    \* backlog[s]: the clients that are connected but not accepted
    pc,         \* pc[c]: where the client is in main
    fname,      \* fname[c]: what its user asked for
    at,         \* at[c]: the server it deals with
    up,         \* up[c]: what the server's reads of its requests there will give
    down,       \* down[c]: what that server sent to it, not read yet
    contents,   \* contents[c][i]: the i-th third of f_contents, <<>> if all 0
    broken,     \* the clients whose connection to server at[c] was reset
    reset       \* history: the clients and servers whose read() failed for that

servers == <<server, served, backlog, broken>>
clients == <<pc, fname, at, contents, reset>>
vars == <<servers, clients, up, down>>

----------------------------------------------------------------------------
\* What a server sends is bytes: 0, the sequence numbers 1 to 3, the characters
\* 4j + i of part i of a file; and the two answers and the rest of a cut one, which
\* count as one byte each: all that matters is that they are no sequence number.
Third(i) == [j \in 1..PartSize |-> 4 * j + i]
Yes == 4
No == 8
RestOfAnswer == 12

\* copy_f_contents: the sequence number, a third of the file, 0.  Faulty variant:
\* without the 0.
MessageUnended(i) == <<i>> \o Third(i)
Message(i) == <<i>> \o Third(i) \o <<0>>
FMsgSize == PartSize + 2

Init ==
    /\ server = [s \in Server |-> "accepts"]
    /\ served = [s \in Server |-> Nobody]
    /\ backlog = [s \in Server |-> <<>>]
    /\ pc = [c \in Client |-> "start"]
    /\ fname \in [Client -> Fname]
    /\ at = [c \in Client |-> 1]
    /\ up = [c \in Client |-> <<>>]
    /\ down = [c \in Client |-> <<>>]
    /\ contents = [c \in Client |-> [i \in 1..3 |-> <<>>]]
    /\ broken = {} /\ reset = {}

----------------------------------------------------------------------------
(* server.cpp.                                                             *)

\* accept() is called once.
Accept(s) ==
    /\ server[s] = "accepts" /\ backlog[s] # <<>>
    /\ served' = [served EXCEPT ![s] = Head(backlog[s])]
    /\ backlog' = [backlog EXCEPT ![s] = Tail(@)]
    /\ server' = [server EXCEPT ![s] = "reads"]
    /\ UNCHANGED <<broken, clients, up, down>>

\* The next read of server s gives one of these texts.
Requests(s, texts) ==
    LET c == served[s] IN
    /\ server[s] = "reads" /\ at[c] = s
    /\ up[c] # <<>> /\ Head(up[c]) \in texts
    /\ up' = [up EXCEPT ![c] = Tail(@)]

\* REQ_F: YES if it is the name of the one file.
Answer(text) == IF text = 1 THEN Yes ELSE No

HandleRequest(s) ==
    /\ Requests(s, {0, 1, 3})
    /\ LET c == served[s] IN
       down' = [down EXCEPT ![c] = Append(@, Answer(Head(up[c])))]
    /\ UNCHANGED <<servers, clients>>

\* REQ_F_CONTENTS: three messages, then the server ends.
HandleContents(s) ==
    /\ Requests(s, {2})
    /\ server' = [server EXCEPT ![s] = "part1"]
    /\ UNCHANGED <<served, backlog, broken, clients, down>>

Sending == <<"part1", "part2", "part3", "ends">>

SendPart(s) ==
    \E i \in 1..3 :
        /\ server[s] = Sending[i]
        /\ down' = [down EXCEPT ![served[s]] = IF at[served[s]] = s THEN @ \o Message(i) ELSE @]
        /\ server' = [server EXCEPT ![s] = Sending[i + 1]]
        /\ UNCHANGED <<served, backlog, broken, clients, up>>

\* The end of the process.  Whoever waits in the backlog is reset, and so is the
\* client whose request has arrived but was not read; any other finds the end of
\* the stream, for which read() returns 0.
Ends(s, how) ==
    /\ server' = [server EXCEPT ![s] = how]
    /\ \E unread \in SUBSET {c \in Client : served[s] = c /\ at[c] = s /\ up[c] # <<>>} :
         broken' = broken \cup unread
    /\ UNCHANGED <<served, backlog, clients, up, down>>

\* terminate_server, and the end of main.
Terminate(s) == server[s] = "ends" /\ Ends(s, "ended")

\* read() fails and main ends: the client has left by exit(1) with an answer not
\* read, a second NO of P1 or what follows the YES in down, where it still is.
ServerReadError(s) ==
    /\ server[s] = "reads" /\ served[s] \in AnyReads
    /\ LET c == served[s] IN
       pc[c] = "exited" /\ (at[c] > s \/ (at[c] = s /\ Len(down[c]) > 1))
    /\ Ends(s, "ended")

\* ctrl + c, as project1/README.md says.
Kill(s) == s \in Killable /\ server[s] \notin {"ended", "killed"} /\ Ends(s, "killed")

Gone(s) == server[s] \in {"ended", "killed"}

----------------------------------------------------------------------------
(* client.cpp.                                                             *)

\* connect_server for P1, then for P2.  A connection in the backlog is one.
Connect(c, s) ==
    /\ pc[c] = IF s = 1 THEN "start" ELSE "second"
    /\ ~Gone(s)
    /\ backlog' = [backlog EXCEPT ![s] = Append(@, c)]
    /\ pc' = [pc EXCEPT ![c] = IF s = 1 THEN "second" ELSE "typing"]
    /\ UNCHANGED <<server, served, broken, fname, at, contents, reset, up, down>>

\* No server there: exit(1).
ConnectFails(c, s) ==
    /\ pc[c] = IF s = 1 THEN "start" ELSE "second"
    /\ Gone(s)
    /\ pc' = [pc EXCEPT ![c] = "exited"]
    /\ UNCHANGED <<servers, fname, at, contents, reset, up, down>>

\* The user types the name.
Types(c) ==
    /\ pc[c] = "typing"
    /\ pc' = [pc EXCEPT ![c] = "ask"]
    /\ UNCHANGED <<servers, fname, at, contents, reset, up, down>>

\* The text REQ_F_f for server s.
RequestFor(s, f) == IF f = FileOf[s] THEN 1 ELSE IF f = Suffixed[s] THEN 2 ELSE 0

\* The same with "_CONTENTS" after it.
ContentsOf(text) == IF text = 0 THEN 0 ELSE text + 1

\* The server's reads of a text that c sends.  A read may be short, and may also
\* hold the end of what was sent before.
Reads(c, text) ==
    IF fname[c] \in Long THEN {<<0, 0>>}
    ELSE {<<text>>} \cup
         {<<start, 0>> : start \in {b \in 0..2 : c \in AnyReads /\ (b = 0 \/ b < text)}}

Send(c, text) ==
    \E texts \in Reads(c, text) :
      \E glued \in IF c \in AnyReads /\ up[c] # <<>> THEN {0, 1} ELSE {0} :
        up' = [up EXCEPT ![c] = @ \o SubSeq(texts, 1 + glued, Len(texts))]

\* request_file_exists sends REQ_F to the server at[c].
Ask(c) ==
    /\ pc[c] = "ask"
    /\ Send(c, RequestFor(at[c], fname[c]))
    /\ pc' = [pc EXCEPT ![c] = "asked"]
    /\ UNCHANGED <<servers, fname, at, contents, reset, down>>

\* After a NO of P1 it is the turn of P2.  Faulty variant: P2 is forgotten.
GivesUp(c) == [pc EXCEPT ![c] = "failed"]
AfterNo(c) == [pc EXCEPT ![c] = IF at[c] = 1 THEN "ask" ELSE "failed"]

\* On the connection to P2 nothing was sent yet.
Refuses(c) ==
    /\ pc' = AfterNo(c)
    /\ at' = [at EXCEPT ![c] = 2]
    /\ up' = [up EXCEPT ![c] = <<>>]
    /\ down' = [down EXCEPT ![c] = <<>>]
    /\ broken' = broken \ {c}
    /\ UNCHANGED <<server, served, backlog, fname, contents>>

\* A read of request_file_exists returns everything there is, or any beginning of
\* it: this answer alone.
ReadsAlone(c, answer) ==
    /\ pc[c] = "asked" /\ down[c] # <<>> /\ Head(down[c]) = answer
    /\ c \in AnyReads \/ Len(down[c]) = 1

ReadNo(c) == ReadsAlone(c, No) /\ Refuses(c) /\ UNCHANGED reset

\* Anything else is dropped: two answers, a cut one, parts of a file.
ReadUnexpected(c) ==
    /\ pc[c] = "asked"
    /\ \E k \in 1..Len(down[c]) :
         \/ /\ c \in AnyReads \/ k = Len(down[c])
            /\ SubSeq(down[c], 1, k) \notin {<<Yes>>, <<No>>}
            /\ down' = [down EXCEPT ![c] = SubSeq(@, k + 1, Len(@))]
         \/ /\ c \in AnyReads /\ down[c][k] \in {Yes, No}
            /\ down' = [down EXCEPT ![c] = <<RestOfAnswer>> \o SubSeq(@, k + 1, Len(@))]
    /\ UNCHANGED <<servers, clients, up>>

\* The connection was reset: by a server that never accepted it, or with a request
\* not read.
ReadFails(c) ==
    /\ down[c] = <<>>
    /\ \/ c \in broken
       \/ Gone(at[c]) /\ served[at[c]] # c

\* A read error counts as NO.
ReadError(c) ==
    /\ pc[c] = "asked" /\ ReadFails(c)
    /\ reset' = reset \cup {<<c, at[c]>>}
    /\ Refuses(c)

\* YES: the file is opened, REQ_F_CONTENTS sent.
ReadYes(c) ==
    /\ ReadsAlone(c, Yes)
    /\ <<c, fname[c]>> \notin Unwritable
    /\ down' = [down EXCEPT ![c] = Tail(@)]
    /\ Send(c, ContentsOf(RequestFor(at[c], fname[c])))
    /\ pc' = [pc EXCEPT ![c] = "receive"]
    /\ UNCHANGED <<servers, fname, at, contents, reset>>

\* The file cannot be opened: exit(1), and the server waits for a request.
OpenFails(c) ==
    /\ ReadsAlone(c, Yes)
    /\ <<c, fname[c]>> \in Unwritable
    /\ pc' = [pc EXCEPT ![c] = "exited"]
    /\ UNCHANGED <<servers, fname, at, contents, reset, up, down>>

\* len_server_f_msg on the buffer of FMSGSIZE bytes, 0 after what was read: up to
\* the first 0, which counts.
LengthOf(bytes) ==
    LET zeros == {i \in 1..Len(bytes) : bytes[i] = 0}
    IN  Min(zeros \cup {Len(bytes) + 1})

\* The test of process_file_contents.  Faulty variant: none.
AnyLength(bytes) == TRUE
WholeMessage(bytes) == LengthOf(bytes) = FMsgSize

\* The characters of a message, up to its 0.
Characters(bytes) == SubSeq(bytes, 2, LengthOf(bytes) - 1)

\* request_file_contents and process_file_contents: what one read() returned is
\* a message or dropped; the third one completes the transfer and is written.
ReadContents(c) ==
    /\ pc[c] = "receive" /\ down[c] # <<>>
    /\ LET most == Min({FMsgSize, Len(down[c])}) IN
       \E k \in IF c \in AnyReads THEN 1..most ELSE {most} :
         LET bytes == SubSeq(down[c], 1, k)
             taken == WholeMessage(bytes) /\ bytes[1] \in 1..3
         IN
         /\ down' = [down EXCEPT ![c] = SubSeq(@, k + 1, Len(@))]
         /\ contents' = IF taken THEN [contents EXCEPT ![c][bytes[1]] = Characters(bytes)]
                        ELSE contents
         /\ pc' = [pc EXCEPT ![c] = IF taken /\ bytes[1] = 3 THEN "written" ELSE @]
    /\ UNCHANGED <<servers, fname, at, reset, up>>

\* A read error ends the transfer: main writes what has arrived.
ReceiveError(c) ==
    /\ pc[c] = "receive" /\ ReadFails(c)
    /\ reset' = reset \cup {<<c, at[c]>>}
    /\ pc' = [pc EXCEPT ![c] = "written"]
    /\ UNCHANGED <<servers, fname, at, contents, up, down>>

----------------------------------------------------------------------------
ServerStep(s) ==
    \/ Accept(s) \/ HandleRequest(s) \/ HandleContents(s) \/ SendPart(s) \/ Terminate(s)

ClientStep(c) ==
    \/ \E s \in Server : Connect(c, s) \/ ConnectFails(c, s)
    \/ Ask(c) \/ ReadNo(c) \/ ReadUnexpected(c) \/ ReadError(c) \/ ReadYes(c)
    \/ OpenFails(c) \/ ReadContents(c) \/ ReceiveError(c)

Next ==
    \/ \E s \in Server : ServerStep(s) \/ ServerReadError(s) \/ Kill(s)
    \/ \E c \in Client : ClientStep(c) \/ Types(c)

Spec == Init /\ [][Next]_vars

\* Every process runs.  No user has to type, and nobody has to kill a server.
FairSpec ==
    /\ Spec
    /\ \A s \in Server : WF_vars(ServerStep(s))
    /\ \A c \in Client : WF_vars(ClientStep(c))

----------------------------------------------------------------------------
(* Properties.                                                             *)

Ended(c) == pc[c] \in {"written", "failed", "exited"}

\* request_file_contents and process_file_contents, lines 270-380: the file written
\* is the whole file, unless read() returned parts of messages or failed.  However
\* the messages are cut, and whenever the server dies, each third of the file is
\* right or missing (all 0), although a third is all the code waits for.
CopyExact ==
    \A c \in Client : pc[c] = "written" =>
        \A i \in 1..3 :
            \/ contents[c][i] = Third(i)
            \/ contents[c][i] = <<>> /\ ((c \in AnyReads /\ i # 3) \/ <<c, at[c]>> \in reset)

\* project1/README.md:3: "If the file is not found at either of the servers then the
\* client outputs an error message", and only then: a server that has the file did
\* not answer, but reset the connection, or took a cut request for another one.
FailureTrue ==
    \A c \in Client \ AnyReads, s \in Server :
        pc[c] = "failed" /\ fname[c] = FileOf[s] => <<c, s>> \in reset

\* The client waits for a server that has accepted another one.
BehindAnother(c) == c \in ToSet(backlog[at[c]]) /\ ~Gone(at[c])

\* A server that was killed with nothing unread: read() returns 0, again and again.
KilledUnder(c) == server[at[c]] = "killed" /\ served[at[c]] = c /\ c \notin broken

\* Names whose one request has not one answer: read in two pieces, it has two, which
\* may arrive together; or it is that for the contents, and the file is sent at once.
OddName(c) == fname[c] \in Long \cup {Suffixed[at[c]]}

\* What a client may wait for for ever.
Stuck(c) ==
    \/ pc[c] = "typing"
    \/ pc[c] = "asked" /\ (BehindAnother(c) \/ OddName(c))
    \/ pc[c] \in {"asked", "receive"} /\ KilledUnder(c)

\* Every client ends, but one whose reads are short, which may wait for the rest of a
\* message, and those of Stuck.  Two clients may each be accepted by the server that
\* the other waits for, and a server whose client did not find its file goes on
\* reading from it for ever.
ClientsEnd ==
    \A c \in Client \ AnyReads : <>[](Ended(c) \/ Stuck(c))

=============================================================================
