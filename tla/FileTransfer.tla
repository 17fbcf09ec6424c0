---------------------------- MODULE FileTransfer ----------------------------
(***************************************************************************)
(* The file transfers of file-sharing.cpp.  A download is one TCP          *)
(* connection c: the main thread of req[c].node runs request_file_download *)
(* and a thread of req[c].peer runs handle_file_req.  A node downloads one *)
(* file at a time and serves any number of others meanwhile.               *)
(*                                                                         *)
(* The characters of a file all differ, and none of them is the byte 0 or  *)
(* a sequence number: the files contain English words (file-sharing.cpp:37 *)
(* says so).                                                               *)
(* A connection carries control messages, one atom each, and the bytes of  *)
(* the parts.                                                              *)
(*                                                                         *)
(* A process may be killed at any time and started again: it then reads its *)
(* index file, to which its downloads have appended lines.                 *)
(***************************************************************************)
EXTENDS Naturals, Sequences, FiniteSets, FiniteSetsExt, SequencesExt

CONSTANTS
    Node,           \* the P2P servers
    File,           \* the files
    Keywords,       \* the comma separated lists of keywords
    NoKeywords,     \* the empty list
    Conn,           \* the connections to port 5051, numbers; each is used once, in order
    Size,           \* Size[f]: the number of characters of the original of f
    Disk0,          \* Disk0[n]: the files whose original n has at first
    Index0,         \* Index0[n][f]: the keywords in searchable_f_index, or NoEntry
    NoEntry,        \* "not in the map", "no such file"
    Garbage,        \* a list to which bytes of a file, or of the stack, were glued
    Truncated,      \* what is left of a list that was cut
    Long,           \* the lists that make FILE-CONTENTS-RESP longer than MSG_SIZE
    MsgSize,        \* MSG_SIZE, 256
    MaxFileSize,    \* MAX_FILE_SIZE, 1024
    Sought,         \* Sought[n]: bound: the files that the user of n may want
    Unwritable,     \* the pairs of a node and a file that it cannot write
    FixedIndex,     \* the nodes that cannot write their index file
    NewlineEnded,   \* the nodes whose index file ends with a newline at first
    Restarting,     \* the nodes that may be killed
    AnyReads        \* the nodes where read() may return any number of bytes, as TCP may

ASSUME SizeAssumption ==
    /\ MsgSize \in Nat \ {0}
    /\ MaxFileSize \in Nat /\ MaxFileSize % MsgSize = 0
    /\ Size \in [File -> Nat]

ASSUME IndexAssumption ==
    /\ {NoKeywords, Garbage, Truncated} \subseteq Keywords /\ Long \subseteq Keywords
    /\ Garbage # NoKeywords /\ Truncated \notin {NoKeywords, Garbage}
    /\ NoEntry \notin Keywords \cup Seq(Nat) \cup [file : File, kws : Keywords]
    /\ Index0 \in [Node -> [File -> (Keywords \ {Garbage, Truncated}) \cup {NoEntry}]]
    /\ Disk0 \in [Node -> SUBSET File]

ASSUME EnvironmentAssumption ==
    /\ Sought \in [Node -> SUBSET File] /\ Unwritable \subseteq Node \X File
    /\ FixedIndex \cup NewlineEnded \cup Restarting \cup AnyReads \subseteq Node
    /\ Conn \subseteq Nat

VARIABLES
    req,        \* req[c]: who downloads which file from whom
    pc,         \* pc[c]: where the client is in request_file_download
    link,       \* link[c]: the state of the connection
    parts,      \* parts[c]: req_fparts of the client
    kws,        \* kws[c]: req_fkeywords of the client
    rows,       \* rows[c][i]: row i of file_contents_buf, up to its first 0
    handler,    \* handler[c]: where the peer's thread is in handle_file_req
    announced,  \* announced[c]: req_fparts of the handler
    sent,       \* sent[c]: history variable, what send_file read from the file
    up,         \* up[c]: what the client sent and the handler has still to read
    down,       \* down[c]: what the handler sent and the client has still to read
    disk,       \* disk[n][f]: the file f in the directory of n
    index,      \* index[n][f]: searchable_f_index
    lines,      \* lines[n]: what was appended to the index file of n
    running     \* running[n]: whether the process of n runs

client == <<req, pc, parts, kws, rows>>
server == <<handler, announced, sent>>
process == <<lines, running>>
vars == <<client, server, link, up, down, disk, index, process>>

----------------------------------------------------------------------------
\* Faulty variant: the row of the last character, not the number of rows.
PartsOfLast(size) == (size + MsgSize - 1) \div MsgSize - 1

\* The number of messages the handler announces for a file of this size.
PartsOf(size) ==
    IF size = MaxFileSize THEN size \div MsgSize ELSE size \div MsgSize + 1

\* The number of messages send_file sends: buf_i of the last character, plus 1.
RowsOf(size) == (size + MsgSize - 1) \div MsgSize

Control(kind, n, list) == [kind |-> kind, val |-> n, kws |-> list]
Signal(kind) == Control(kind, 0, NoKeywords)
Byte(b) == Control("byte", b, NoKeywords)

\* Row i of the file: its sequence number and MsgSize characters, filled up with 0.
Part(content, i) ==
    [j \in 1..MsgSize + 1 |->
        LET p == (i - 1) * MsgSize + j - 1 IN
        IF j = 1 THEN Byte(i)
        ELSE IF p <= Len(content) THEN Byte(content[p]) ELSE Byte(0)]

\* What send_file sends of a file that has characters.
PartsSent(content) ==
    FlattenSeq([i \in 1..RowsOf(Len(content)) |-> Part(content, i)])

\* An empty file leaves buf_i uninitialized.  Either no row is sent, or row 0
\* is, all bytes 0; what may follow is never read, as the client gives up there.
EmptySent == {<<>>, [j \in 1..MsgSize + 1 |-> Byte(0)]}

Original(f) == [i \in 1..Size[f] |-> MaxFileSize + i]

Init ==
    /\ req = [c \in Conn |-> NoEntry]
    /\ pc = [c \in Conn |-> "unused"]
    /\ link = [c \in Conn |-> "none"]
    /\ parts = [c \in Conn |-> 0]
    /\ kws = [c \in Conn |-> NoKeywords]
    /\ rows = [c \in Conn |-> <<>>]
    /\ handler = [c \in Conn |-> "none"]
    /\ announced = [c \in Conn |-> 0]
    /\ sent = [c \in Conn |-> <<>>]
    /\ up = [c \in Conn |-> <<>>]
    /\ down = [c \in Conn |-> <<>>]
    /\ disk = [n \in Node |-> [f \in File |->
                  IF f \in Disk0[n] THEN Original(f) ELSE NoEntry]]
    /\ index = Index0
    /\ lines = [n \in Node |-> <<>>]
    /\ running = [n \in Node |-> TRUE]

----------------------------------------------------------------------------
(* request_file_download, on the main thread of req[c].node.               *)

Busy(n) == \E c \in Conn : pc[c] \notin {"unused", "done", "killed"} /\ req[c].node = n

\* simple_search ends with a hit (m, f) and the user chooses it.  n does not have
\* the word it searched for in its index: the name f, or a keyword that m has.
Wants(n, m, f) ==
    /\ n # m /\ running[n] /\ ~Busy(n) /\ f \in Sought[n]
    /\ index[m][f] # NoEntry
    /\ \/ index[n][f] = NoEntry
       \/ index[m][f] # NoKeywords /\ index[n][f] # index[m][f]

Opens(c) == pc[c] = "unused" /\ \A d \in Conn : d < c => pc[d] # "unused"

\* connect_to_peer succeeds, FILE-REQ is sent.
Connect(c, n, m, f) ==
    /\ Opens(c) /\ Wants(n, m, f) /\ running[m]
    /\ req' = [req EXCEPT ![c] = [node |-> n, peer |-> m, file |-> f]]
    /\ pc' = [pc EXCEPT ![c] = "control"]
    /\ link' = [link EXCEPT ![c] = "up"]
    /\ up' = [up EXCEPT ![c] = <<"FILE-REQ">>]
    /\ UNCHANGED <<parts, kws, rows, server, down, disk, index, process>>

\* connect_to_peer fails and returns: both loops are skipped, not the rest.
Refused(c, n, m, f) ==
    /\ Opens(c) /\ Wants(n, m, f) /\ ~running[m]
    /\ req' = [req EXCEPT ![c] = [node |-> n, peer |-> m, file |-> f]]
    /\ pc' = [pc EXCEPT ![c] = "open"]
    /\ link' = [link EXCEPT ![c] = "refused"]
    /\ UNCHANGED <<parts, kws, rows, server, up, down, disk, index, process>>

Reads(c, kind) ==
    pc[c] = "control" /\ down[c] # <<>> /\ Head(down[c]).kind = kind

\* send() on a connection that was reset only prints an error.
SendUp(c, message) ==
    up' = IF link[c] = "up" THEN [up EXCEPT ![c] = Append(@, message)] ELSE up

SendDown(c, atoms) == IF link[c] = "up" THEN down[c] \o atoms ELSE down[c]

\* What was received is still read after a reset; then one read() fails, and the
\* next ones return 0 for ever.
ReadFails(c) == link[c] = "reset" /\ down[c] = <<>>

\* FILE-RESP_YES: ask for the contents.
ReadYes(c) ==
    /\ Reads(c, "YES")
    /\ down' = [down EXCEPT ![c] = Tail(@)]
    /\ SendUp(c, "FILE-CONTENTS-REQ")
    /\ UNCHANGED <<client, server, link, disk, index, process>>

\* Faulty variant: the handler does not sleep before it sends the first part.
GluedOne(c) == {1}

\* How many bytes of the parts one read() returns together with a control message.
Glued(c) == IF req[c].node \in AnyReads THEN 0..Min({MsgSize - 1, Len(down[c]) - 1}) ELSE {0}

\* FILE-CONTENTS-RESP.  The keywords end where the message read ends.
ReadContents(c) ==
    /\ Reads(c, "CONTENTS") /\ Head(down[c]).kws \notin Long
    /\ \E k \in Glued(c) :
         /\ kws' = [kws EXCEPT ![c] = IF k = 0 THEN Head(down[c]).kws ELSE Garbage]
         /\ down' = [down EXCEPT ![c] = SubSeq(@, k + 2, Len(@))]
    /\ parts' = [parts EXCEPT ![c] = Head(down[c]).val]
    /\ pc' = [pc EXCEPT ![c] = "open"]
    /\ UNCHANGED <<req, rows, server, link, up, disk, index, process>>

\* One that was garbled once may be too long by then.
TooLong(list) == list \in Long \cup {Garbage}

\* What a read() that ends inside a list leaves of it.  A read() that fills the
\* buffer leaves no room for the 0: get_str goes on into the stack.
Shortened(list) ==
    {NoKeywords, Truncated} \cup (IF TooLong(list) THEN {Garbage} ELSE {})

\* FILE-CONTENTS-RESP, cut inside its list, by read() or by the end of the buffer: it
\* has its three fields and is taken for the whole.  What follows is taken for a part.
ReadContentsCut(c) ==
    /\ Reads(c, "CONTENTS") /\ Head(down[c]).kws # NoKeywords
    /\ req[c].node \in AnyReads \/ TooLong(Head(down[c]).kws)
    /\ \E list \in Shortened(Head(down[c]).kws) : kws' = [kws EXCEPT ![c] = list]
    /\ down' = [down EXCEPT ![c] = <<Signal("rest")>> \o Tail(@)]
    /\ parts' = [parts EXCEPT ![c] = Head(down[c]).val]
    /\ pc' = [pc EXCEPT ![c] = "open"]
    /\ UNCHANGED <<req, rows, server, link, up, disk, index, process>>

\* FILE-RESP_NO or DISCONNECT: nothing is written, nothing recorded.
ReadRefusal(c) ==
    /\ Reads(c, "NO") \/ Reads(c, "DISCONNECT")
    /\ down' = [down EXCEPT ![c] = Tail(@)]
    /\ pc' = [pc EXCEPT ![c] = "done"]
    /\ UNCHANGED <<req, parts, kws, rows, server, link, up, disk, index, process>>

\* "Invalid message": a read() that returned only the beginning of a message, of
\* FILE-CONTENTS-RESP less than its first two fields.
ReadCut(c) ==
    /\ pc[c] = "control" /\ req[c].node \in AnyReads /\ down[c] # <<>>
    /\ pc' = [pc EXCEPT ![c] = "done"]
    /\ UNCHANGED <<req, parts, kws, rows, server, link, up, down, disk, index, process>>

\* A read error only leaves the loop.
ControlError(c) ==
    /\ pc[c] = "control" /\ ReadFails(c)
    /\ link' = [link EXCEPT ![c] = "dead"]
    /\ pc' = [pc EXCEPT ![c] = "open"]
    /\ UNCHANGED <<req, parts, kws, rows, server, up, down, disk, index, process>>

\* The local file is opened for writing, which empties it.
OpenCopy(c) ==
    /\ pc[c] = "open" /\ <<req[c].node, req[c].file>> \notin Unwritable
    /\ disk' = [disk EXCEPT ![req[c].node][req[c].file] = <<>>]
    /\ rows' = [rows EXCEPT ![c] = [i \in 1..parts[c] |-> <<>>]]
    /\ pc' = [pc EXCEPT ![c] = IF link[c] = "refused" THEN "write" ELSE "receive"]
    /\ UNCHANGED <<req, parts, kws, server, link, up, down, index, process>>

OpenFails(c) ==
    /\ pc[c] = "open" /\ <<req[c].node, req[c].file>> \in Unwritable
    /\ SendUp(c, "DISCONNECT")
    /\ pc' = [pc EXCEPT ![c] = "done"]
    /\ UNCHANGED <<req, parts, kws, rows, server, link, down, disk, index, process>>

\* How many bytes one read() into file_msg_buf returns.
ReadLengths(c) ==
    LET most == Min({MsgSize + 1, Len(down[c])}) IN
    IF req[c].node \in AnyReads THEN 1..most ELSE {most}

\* Faulty variant: the loop ends one character early.
CharsButLast(bytes) ==
    [i \in 1..Min({1, Len(bytes) - 1}) |-> bytes[i + 1].val]

\* The characters of a message: what follows its sequence number, up to a 0.
Chars(bytes) ==
    LET row == [i \in 1..Len(bytes) - 1 |-> bytes[i + 1].val]
        zeros == {i \in 1..Len(row) : row[i] = 0}
    IN  SubSeq(row, 1, Min({i - 1 : i \in zeros} \cup {Len(row)}))

\* They overwrite the first characters of the row.
Overwrite(row, s) == s \o SubSeq(row, Len(s) + 1, Len(row))

\* The row for a sequence number, and a faulty variant.
RowFirst(seq_no) == 1
RowOf(seq_no) == seq_no

\* Each row has a first character; a faulty variant looks one row too far.
AllFoundToo(R) == \A i \in 1..Len(R) + 1 : i \in DOMAIN R /\ R[i] # <<>>
AllFound(R) == \A i \in DOMAIN R : R[i] # <<>>

ReadPart(c) ==
    /\ pc[c] = "receive" /\ down[c] # <<>>
    /\ LET seq_no == Head(down[c]).val IN
       /\ seq_no \in 1..parts[c]
       /\ \E k \in ReadLengths(c) :
            /\ rows' = [rows EXCEPT ![c][RowOf(seq_no)] =
                            Overwrite(@, Chars(SubSeq(down[c], 1, k)))]
            /\ down' = [down EXCEPT ![c] = SubSeq(@, k + 1, Len(@))]
    /\ pc' = [pc EXCEPT ![c] = IF AllFound(rows'[c]) THEN "write" ELSE @]
    /\ UNCHANGED <<req, parts, kws, server, link, up, disk, index, process>>

\* "Invalid message" and read errors only leave the loop.
ReadInvalid(c) ==
    /\ pc[c] = "receive" /\ down[c] # <<>>
    /\ Head(down[c]).val \notin 1..parts[c]
    /\ \E k \in ReadLengths(c) : down' = [down EXCEPT ![c] = SubSeq(@, k + 1, Len(@))]
    /\ pc' = [pc EXCEPT ![c] = "write"]
    /\ UNCHANGED <<req, parts, kws, rows, server, link, up, disk, index, process>>

ReceiveError(c) ==
    /\ pc[c] = "receive" /\ ReadFails(c)
    /\ link' = [link EXCEPT ![c] = "dead"]
    /\ pc' = [pc EXCEPT ![c] = "write"]
    /\ UNCHANGED <<req, parts, kws, rows, server, up, down, disk, index, process>>

\* The rows are written one after the other and the file is closed.
WriteCopy(c) ==
    /\ pc[c] = "write"
    /\ disk' = [disk EXCEPT ![req[c].node][req[c].file] = FlattenSeq(rows[c])]
    /\ pc' = [pc EXCEPT ![c] = "record"]
    /\ UNCHANGED <<req, parts, kws, rows, server, link, up, down, index, process>>

\* The lines that a download appends: "\n", then the line without an end; an empty
\* line comes first if the file ended with a newline.  Faulty variant: the line,
\* then "\n", so that it is glued to a last line without an end.
Line(c) == [file |-> req[c].file, kws |-> kws[c]]
EmptyLine == NoEntry

EndsWithNewline(n) == n \in NewlineEnded /\ lines[n] = <<>>

AppendedLast(n, c) ==
    IF n \in NewlineEnded \/ lines[n] # <<>> THEN <<Line(c)>> ELSE <<EmptyLine>>
Appended(n, c) == IF EndsWithNewline(n) THEN <<EmptyLine, Line(c)>> ELSE <<Line(c)>>

\* "downloaded successfully": the indexes and the index file are updated, the
\* socket is shut down.
Record(c) ==
    LET n == req[c].node IN
    /\ pc[c] = "record"
    /\ index' = [index EXCEPT ![n][req[c].file] = kws[c]]
    /\ lines' = IF n \in FixedIndex THEN lines
                ELSE [lines EXCEPT ![n] = @ \o Appended(n, c)]
    /\ pc' = [pc EXCEPT ![c] = "done"]
    /\ UNCHANGED <<req, parts, kws, rows, server, link, up, down, disk, running>>

----------------------------------------------------------------------------
(* handle_file_req, on a thread of req[c].peer.                            *)

\* accept_p2p_file_connections: a thread for the connection.
Accept(c) ==
    /\ handler[c] = "none" /\ link[c] \in {"up", "reset", "dead"}
    /\ handler' = [handler EXCEPT ![c] = "reading"]
    /\ UNCHANGED <<client, announced, sent, link, up, down, disk, index, process>>

Handles(c, message) ==
    handler[c] = "reading" /\ up[c] # <<>> /\ Head(up[c]) = message

Requested(c) == disk[req[c].peer][req[c].file]

Answer(c, message) ==
    /\ up' = [up EXCEPT ![c] = Tail(@)]
    /\ down' = [down EXCEPT ![c] = SendDown(c, <<message>>)]

FileFound(c) ==
    /\ Handles(c, "FILE-REQ") /\ Requested(c) # NoEntry
    /\ Answer(c, Signal("YES"))
    /\ UNCHANGED <<client, server, link, disk, index, process>>

FileMissing(c) ==
    /\ Handles(c, "FILE-REQ") /\ Requested(c) = NoEntry
    /\ Answer(c, Signal("NO"))
    /\ handler' = [handler EXCEPT ![c] = "ended"]
    /\ UNCHANGED <<client, announced, sent, link, disk, index, process>>

\* The characters are counted; there are too many.
FileTooLarge(c) ==
    /\ Handles(c, "FILE-CONTENTS-REQ") /\ Len(Requested(c)) > MaxFileSize
    /\ Answer(c, Signal("DISCONNECT"))
    /\ handler' = [handler EXCEPT ![c] = "ended"]
    /\ UNCHANGED <<client, announced, sent, link, disk, index, process>>

\* searchable_f_index[req_fname] makes an empty entry when there is none.
KeywordsOf(c) == IF index[req[c].peer][req[c].file] = NoEntry
                 THEN NoKeywords ELSE index[req[c].peer][req[c].file]

\* FILE-CONTENTS-RESP with the number of parts and the keywords, then a sleep.
Announce(c) ==
    /\ Handles(c, "FILE-CONTENTS-REQ") /\ Len(Requested(c)) <= MaxFileSize
    /\ LET n == PartsOf(Len(Requested(c))) IN
       /\ Answer(c, Control("CONTENTS", n, KeywordsOf(c)))
       /\ announced' = [announced EXCEPT ![c] = n]
    /\ index' = [index EXCEPT ![req[c].peer][req[c].file] = KeywordsOf(c)]
    /\ handler' = [handler EXCEPT ![c] = "sending"]
    /\ UNCHANGED <<client, sent, link, disk, process>>

\* send_file reads the file again, into a buffer of announced[c] rows.
SendFile(c) ==
    /\ handler[c] = "sending" /\ RowsOf(Len(Requested(c))) <= announced[c]
    /\ \E bytes \in IF Requested(c) = <<>> THEN EmptySent
                    ELSE {PartsSent(Requested(c))} :
         down' = [down EXCEPT ![c] = SendDown(c, bytes)]
    /\ sent' = [sent EXCEPT ![c] = Requested(c)]
    /\ handler' = [handler EXCEPT ![c] = "reading"]
    /\ UNCHANGED <<client, announced, link, up, disk, index, process>>

\* The process of n ends, with its downloads and its handlers.
Dies(n) ==
    LET Of(c, end) == pc[c] # "unused" /\ req[c][end] = n IN
    /\ running' = [running EXCEPT ![n] = FALSE]
    /\ pc' = [c \in Conn |-> IF Of(c, "node") /\ pc[c] # "done" THEN "killed" ELSE pc[c]]
    /\ handler' = [c \in Conn |->
                     IF Of(c, "peer") /\ handler[c] # "ended" THEN "killed" ELSE handler[c]]
    /\ UNCHANGED <<req, parts, kws, rows, announced, sent, link, up, down, disk, index, lines>>

\* The file has grown since it was counted: the buffer is overrun.  The process
\* crashes, or the thread sends the rows that other objects of its stack now hold.
SendOverrun(c) ==
    /\ handler[c] = "sending" /\ RowsOf(Len(Requested(c))) > announced[c]
    /\ \/ Dies(req[c].peer)
       \/ /\ handler' = [handler EXCEPT ![c] = "reading"]
          /\ sent' = [sent EXCEPT ![c] = Requested(c)]
          /\ down' = [down EXCEPT ![c] = SendDown(c, PartsSent(Requested(c)))]
          /\ UNCHANGED <<client, announced, link, up, disk, index, process>>

\* DISCONNECT was read, or a read failed.  At the end of the stream read() returns
\* 0, taken for "nothing yet": the thread goes on.
HandlerEnds(c) ==
    /\ \/ Handles(c, "DISCONNECT")
       \/ handler[c] = "reading" /\ up[c] = <<>> /\ link[c] \in {"reset", "dead"}
    /\ handler' = [handler EXCEPT ![c] = "ended"]
    /\ UNCHANGED <<client, announced, sent, link, up, down, disk, index, process>>

\* A read() that returned only the beginning of a message.  Of a FILE-REQ it leaves
\* no file name or that of no file; anything else is "Invalid message".
CutAnswers(c) ==
    IF Head(up[c]) = "FILE-REQ" THEN {<<>>, <<Signal("DISCONNECT")>>, <<Signal("NO")>>}
    ELSE {<<>>}

HandlerReadCut(c) ==
    /\ handler[c] = "reading" /\ req[c].peer \in AnyReads /\ up[c] # <<>>
    /\ \E answer \in CutAnswers(c) : down' = [down EXCEPT ![c] = SendDown(c, answer)]
    /\ handler' = [handler EXCEPT ![c] = "ended"]
    /\ UNCHANGED <<client, announced, sent, link, up, disk, index, process>>

----------------------------------------------------------------------------
Kill(n) == n \in Restarting /\ running[n] /\ Dies(n)

\* main reads the index file: the last line of a file counts.
IndexRead(n) ==
    [f \in File |->
        LET own == {i \in DOMAIN lines[n] : lines[n][i] # EmptyLine /\ lines[n][i].file = f}
        IN  IF own = {} THEN Index0[n][f] ELSE lines[n][Max(own)].kws]

\* create_f_kw_index reads past the tokens of a line that has no ':', the empty line
\* or one of the glued bytes.  Either main crashes, that is, there is no restart, or
\* some string becomes the keywords of no file.
Readable(line) == line # EmptyLine /\ line.kws # Garbage

Restart(n) ==
    /\ n \in Restarting /\ ~running[n]
    /\ running' = [running EXCEPT ![n] = TRUE]
    /\ index' = [index EXCEPT ![n] = IndexRead(n)]
    /\ UNCHANGED <<client, server, link, up, down, disk, lines>>

\* The end of either process resets the connection: both ends get an error.  Or it
\* only ends the stream, as shutdown() does, and read() returns 0 for ever.
Reset(c) ==
    /\ link[c] = "up" /\ pc[c] # "done"
    /\ handler[c] = "killed" \/ pc[c] = "killed"
    /\ link' = [link EXCEPT ![c] = "reset"]
    /\ UNCHANGED <<client, server, up, down, disk, index, process>>

User(c) == \E n, m \in Node, f \in File : Connect(c, n, m, f) \/ Refused(c, n, m, f)

Client(c) ==
    \/ ReadYes(c) \/ ReadContents(c) \/ ReadContentsCut(c) \/ ReadRefusal(c)
    \/ ReadCut(c) \/ ControlError(c) \/ OpenCopy(c) \/ OpenFails(c) \/ ReadPart(c)
    \/ ReadInvalid(c) \/ ReceiveError(c) \/ WriteCopy(c) \/ Record(c)

Handler(c) ==
    \/ Accept(c) \/ FileFound(c) \/ FileMissing(c) \/ FileTooLarge(c)
    \/ Announce(c) \/ SendFile(c) \/ SendOverrun(c) \/ HandlerEnds(c)
    \/ HandlerReadCut(c)

Next ==
    \/ \E c \in Conn : User(c) \/ Client(c) \/ Handler(c) \/ Reset(c)
    \/ \E n \in Node : Kill(n) \/ Restart(n)

Spec == Init /\ [][Next]_vars

\* The threads run.  Nobody makes a user choose a file, or the network fail.
FairSpec ==
    Spec /\ \A c \in Conn : WF_vars(Client(c)) /\ WF_vars(Handler(c))

----------------------------------------------------------------------------
(* Properties.                                                             *)

\* The types of the variables.
TypeOK ==
    /\ req \in [Conn -> [node : Node, peer : Node, file : File] \cup {NoEntry}]
    /\ pc \in [Conn -> {"unused", "control", "open", "receive", "write", "record", "done",
                     "killed"}]
    /\ link \in [Conn -> {"none", "up", "refused", "reset", "dead"}]
    /\ parts \in [Conn -> Nat] /\ announced \in [Conn -> Nat]
    /\ kws \in [Conn -> Keywords]
    /\ rows \in [Conn -> Seq(Seq(Nat))]
    /\ \A c \in Conn : rows[c] # <<>> => DOMAIN rows[c] = 1..parts[c]
    /\ handler \in [Conn -> {"none", "reading", "sending", "ended", "killed"}]
    /\ sent \in [Conn -> Seq(Nat)]
    /\ up \in [Conn -> Seq({"FILE-REQ", "FILE-CONTENTS-REQ", "DISCONNECT"})]
    /\ down \in [Conn -> Seq([kind : {"YES", "NO", "DISCONNECT", "CONTENTS", "rest", "byte"},
                               val : Nat, kws : Keywords])]
    /\ disk \in [Node -> [File -> Seq(Nat) \cup {NoEntry}]]
    /\ index \in [Node -> [File -> Keywords \cup {NoEntry}]]
    /\ lines \in [Node -> Seq([file : File, kws : Keywords] \cup {EmptyLine})]
    /\ running \in [Node -> BOOLEAN]

\* A transfer that ended because all parts were found (lines 363-375) has exactly
\* the parts announced of what the peer's send_file read, even when the peer's file
\* changed after it was counted, or the parts come from a buffer it overran.  It
\* takes a read() that returns whole parts.
CompleteIsExact ==
    \A c \in Conn :
        /\ pc[c] \in {"write", "record"} /\ rows[c] # <<>> /\ AllFound(rows[c])
        /\ req[c].node \notin AnyReads
        => FlattenSeq(rows[c]) =
               SubSeq(sent[c], 1, Min({Len(sent[c]), announced[c] * MsgSize}))

\* However transfers end, also those of copies of copies, a copy is a beginning of
\* the original: nothing is lost in the middle, twice there or out of order.
CopiesArePrefixes ==
    \A n \in Node, f \in File :
        disk[n][f] # NoEntry => IsPrefix(disk[n][f], Original(f))

\* Some node asked for f where read() need not return the message with its keywords,
\* or a first holder has more keywords for it than the message has room for.
MayBeSpoilt(f) ==
    \/ \E c \in Conn : pc[c] # "unused" /\ req[c].file = f /\ req[c].node \in AnyReads
    \/ \E m \in Node : Index0[m][f] \in Long

\* Whatever a download records as the keywords of a file is nothing, or what the
\* first holders say of it (lines 292, 403-408), unless a message with its keywords
\* was cut or glued, perhaps at another node.  The search relies on it.
KeywordsTrue ==
    \A n \in Node, f \in File : index[n][f] # NoEntry =>
        \/ index[n][f] = NoKeywords
        \/ \E m \in Node : index[n][f] = Index0[m][f]
        \/ index[n][f] \in {Garbage, Truncated} /\ MayBeSpoilt(f)

\* REPORT.md:27: "This index update is permanent, so even if this peer is restarted,
\* it will read the updated F_i index".  Whenever the process is killed, it can read
\* every line that its downloads appended, whatever it has downloaded before and
\* however often, and the index it reads is the one it had, but for the entries
\* that handle_file_req made by looking for one (line 167).  It takes an index file
\* that did not end with a newline and can be written, and keywords that were not
\* spoilt.
IndexSurvives ==
    \A n \in Node \ (FixedIndex \cup NewlineEnded) :
        /\ \A i \in DOMAIN lines[n] : LET line == lines[n][i] IN
             line # EmptyLine /\ (Readable(line) \/ MayBeSpoilt(line.file))
        /\ \A f \in File :
             \/ index[n][f] = IndexRead(n)[f]
             \/ index[n][f] = NoKeywords /\ IndexRead(n)[f] = NoEntry

\* send_file sent fewer parts than handle_file_req had announced: the size of the
\* file is a multiple of MSG_SIZE below MAX_FILE_SIZE, or the file shrank meanwhile.
SentTooFew(c) ==
    handler[c] \in {"reading", "ended"} /\ announced[c] > RowsOf(Len(sent[c]))

\* A running download from a peer that lives, sent as many parts as announced, unless
\* the handler gave up without an answer, having read a part of a message.
Sound(c) ==
    /\ pc[c] \notin {"unused", "done", "killed"}
    /\ handler[c] # "killed" /\ ~SentTooFew(c)
    /\ ~(handler[c] = "ended" /\ up[c] # <<>> /\ down[c] = <<>>)

\* request_file_download returns: simple_search and the user get the main thread
\* back, but for what Sound excludes.  Each of that hangs it, as a client takes the
\* end of the stream for "nothing yet" (lines 251-255, 327-331).
DownloadEnds ==
    \A c \in Conn : Sound(c) ~> ~Sound(c)

=============================================================================
