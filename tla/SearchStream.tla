----------------------------- MODULE SearchStream -----------------------------
(***************************************************************************)
(* The texts of the messages on one connection: utils.cpp makes them, send() *)
(* puts them one after the other into a stream that keeps no boundaries, and *)
(* listen_to_peer takes what one read() returns for one message.  The other  *)
(* modules have whole messages; this one shows when that is so.              *)
(*                                                                         *)
(* A text is a sequence of atoms: a keyword, a delimiter, an id, a word, a   *)
(* hit.  A token is what is left between two delimiters, a sequence too:     *)
(* "NO" and "SEARCH-REQ" of two glued messages are one token.                *)
(***************************************************************************)
EXTENDS Naturals, Sequences, FiniteSets, FiniteSetsExt, SequencesExt

CONSTANTS
    Peer,       \* the dc_id of the peer that sends
    Neighbors,  \* the names of its other peers, a sequence
    Asked,      \* the ids of the searches this node asks the peer for
    Created,    \* those of them that it created; it relays the others
    Asks,       \* the ids of the searches the peer asks this node for
    Seen,       \* those of them that another peer asked it for before
    Word,       \* the words of these searches
    Hits,       \* the hits of an answer, a sequence of dcXY-fname
    MaxRead,    \* MSG_SIZE, in atoms
    MaxMessages \* bound: how many messages the peer sends

\* The two delimiters of join_str and split_str.
Underscore == "_"
Comma == ","

\* What the parser looks for, and the other atoms that are the same in every run.
Marks == {Underscore, Comma, "CONNECT_", "DISCONNECT_ADDNBRS_", "SEARCH-REQ", "SEARCH-RESP"}
Fixed == {"DISCONNECT", "C1", "1", "F", "KW", "YES", "NO", "PROCESSED"}

Given == {Peer} \cup ToSet(Neighbors) \cup Word \cup ToSet(Hits)

\* The dc_ids, words and hits have no delimiter and no keyword in them: nothing in the
\* code sees to it.  An id of a search is none of them.
ASSUME StreamAssumption ==
    /\ Neighbors \in Seq(Given) \ {<<>>} /\ Hits \in Seq(Given) \ {<<>>}
    /\ Given \cap Marks = {}
    /\ (Asked \cup Asks) \cap (Marks \cup Fixed \cup Given) = {}
    /\ Asked \cap Asks = {} /\ Created \subseteq Asked /\ Seen \subseteq Asks
    /\ MaxRead \in Nat \ {0} /\ MaxMessages \in Nat

VARIABLES
    sent,       \* the messages sent so far
    taken,      \* how many atoms of the stream were read
    effects,    \* history: what each read() led to, and the atoms it returned
    connected,  \* the flag of the PeerDetails
    listens     \* whether the listener is in its loop

vars == <<sent, taken, effects, connected, listens>>

----------------------------------------------------------------------------
(* utils.cpp.                                                              *)

\* join_str and split_str on tokens.  Faulty variant: the token after the last
\* delimiter is not pushed.
Join(tokens, delim) ==
    FlattenSeq([i \in 1..2 * Len(tokens) - 1 |->
        IF i % 2 = 1 THEN tokens[(i + 1) \div 2] ELSE <<delim>>])

SplitButLast(text, delim) ==
    LET at == {i \in 1..Len(text) : text[i] = delim}
        Start(i) == Max({0} \cup {j \in at : j < i}) + 1
    IN  [n \in 1..Cardinality(at) |->
            LET i == CHOOSE i \in at : Cardinality({j \in at : j <= i}) = n
            IN  SubSeq(text, Start(i), i - 1)]
Split(text, delim) ==
    LET last == Max({0} \cup {i \in 1..Len(text) : text[i] = delim})
    IN  Append(SplitButLast(text, delim), SubSeq(text, last + 1, Len(text)))

Atoms(s) == [i \in 1..Len(s) |-> <<s[i]>>]

Connect == [type |-> "CONNECT", name |-> Peer]
Disconnect == [type |-> "DISCONNECT"]
AddNeighbors == [type |-> "ADDNBRS", names |-> Neighbors]
Request(s, hop, kind, w) ==
    [type |-> "REQ", sid |-> s, hop |-> hop, kind |-> kind, word |-> w]
Response(s, says, arg) == [type |-> "RESP", sid |-> s, says |-> says, arg |-> arg]

\* Of a file name or a keyword; NO, NO_PROCESSED, or YES with the hits.
Requests == {Request(s, "1", kind, w) : s \in Asks, kind \in {"F", "KW"}, w \in Word}
Responses == {Response(s, "NO", <<>>) : s \in Asked}
                 \cup {Response(s, "NO", <<"PROCESSED">>) : s \in Asked}
                 \cup {Response(s, "YES", Hits) : s \in Asked}

\* get_connect_msg, get_search_req_msg, get_search_resp_msg and the two messages of
\* disconnect_peer.
Text(m) ==
    CASE m.type = "CONNECT" -> <<"CONNECT_", "C1", Underscore, m.name>>
      [] m.type = "DISCONNECT" -> <<"DISCONNECT">>
      [] m.type = "ADDNBRS" -> <<"DISCONNECT_ADDNBRS_">> \o Join(Atoms(m.names), Comma)
      [] m.type = "REQ" ->
            Join(Atoms(<<"SEARCH-REQ", m.sid, m.hop, m.kind, m.word>>), Underscore)
      [] m.type = "RESP" /\ m.arg = <<>> ->
            Join(Atoms(<<"SEARCH-RESP", m.sid, m.says>>), Underscore)
      [] OTHER -> Join(Atoms(<<"SEARCH-RESP", m.sid, m.says>>)
                           \o <<Join(Atoms(m.arg), Comma)>>, Underscore)

----------------------------------------------------------------------------
(* handle_peer_msg: what it takes a text for.                              *)

Effect(type) == [type |-> type]

Finds(text, atom) == \E i \in 1..Len(text) : text[i] = atom

\* The names are what follows the first 19 characters.  If another message is in
\* front the first of them is the name of no host: exit(EXIT_FAILURE).
TakesAddNeighbors(text) ==
    IF Head(text) = "DISCONNECT_ADDNBRS_"
    THEN [type |-> "ADDNBRS", names |-> Split(Tail(text), Comma)]
    ELSE Effect("EXIT")

TakesConnect(text) ==
    LET tokens == Split(Tail(text), Underscore) IN
    IF Len(tokens) < 2 THEN Effect("UB") ELSE [type |-> "CONNECT", name |-> tokens[2]]

\* forwarded_searches: what this node relays or another peer asked it for.
Forwarded == (Asked \ Created) \cup Seen

\* The tokens are taken by their number; a token that is missing is undefined.  A
\* request whose id is known is answered NO_PROCESSED, whatever else it says.
TakesRequest(text) ==
    LET t == Split(text, Underscore) IN
    IF Len(t) < 2 THEN Effect("UB")
    ELSE IF t[2] \in {<<s>> : s \in Forwarded} THEN [type |-> "REQ", sid |-> t[2]]
    ELSE IF Len(t) < 5 THEN Effect("UB")
    ELSE [type |-> "REQ", sid |-> t[2], hop |-> t[3], keyword |-> t[4] = <<"KW">>,
          word |-> t[5]]

\* A relay counts an answer, and looks at it with the last one: at the third token, and
\* the fourth after YES, which it passes on; "short" if one is missing.  The creator
\* looks at the third at once, and shows the fourth if there is no fifth.
TakesResponse(text) ==
    LET t == Split(text, Underscore) IN
    IF Len(t) < 2 THEN Effect("UB")
    ELSE IF t[2] \notin {<<s>> : s \in Forwarded \cup Created} THEN Effect("INVALID")
    ELSE IF Len(t) < 3 /\ t[2] \notin {<<s>> : s \in Forwarded} THEN Effect("UB")
    ELSE LET yes == Len(t) >= 3 /\ t[3] = <<"YES">>
             hits == IF yes /\ Len(t) >= 4 THEN Split(t[4], Comma) ELSE <<>>
         IN  [type |-> "RESP", sid |-> t[2], short |-> Len(t) < 3 \/ (yes /\ Len(t) < 4),
              relayed |-> hits, shown |-> IF Len(t) = 4 THEN hits ELSE <<>>]

\* The order of the tests, which matters when messages are glued.
Handled(text) ==
    IF text = <<"DISCONNECT">> THEN Effect("DISCONNECT")
    ELSE IF Finds(text, "DISCONNECT_ADDNBRS_") THEN TakesAddNeighbors(text)
    ELSE IF Finds(text, "CONNECT_") THEN TakesConnect(text)
    ELSE IF Finds(text, "SEARCH-REQ") THEN TakesRequest(text)
    ELSE IF Finds(text, "SEARCH-RESP") THEN TakesResponse(text)
    ELSE Effect("INVALID")

----------------------------------------------------------------------------
Stream == FlattenSeq([i \in 1..Len(sent) |-> Text(sent[i])])

\* How many atoms are before message i, and after it.
Before(i) == Len(FlattenSeq([j \in 1..i - 1 |-> Text(sent[j])]))
After(i) == Before(i + 1)

Left == sent # <<>> /\ Last(sent).type \in {"DISCONNECT", "ADDNBRS"}

Init ==
    /\ sent = <<>> /\ taken = 0 /\ effects = <<>>
    /\ connected = TRUE /\ listens = TRUE

\* connect_to_peer is followed by CONNECT; then searches, each asked and answered
\* once; then one DISCONNECT of either kind.
Sends(m) ==
    /\ ~Left /\ Len(sent) < MaxMessages
    /\ sent = <<>> <=> m.type = "CONNECT"
    /\ m.type \in {"REQ", "RESP"} => \A i \in 1..Len(sent) :
          sent[i].type \in {"REQ", "RESP"} => sent[i].sid # m.sid
    /\ sent' = Append(sent, m)
    /\ UNCHANGED <<taken, effects, connected, listens>>

\* The buffer is cleared before each read().  Faulty variant: it is not, and what a
\* longer message left there follows.
TextReadStale(k) ==
    LET text == SubSeq(Stream, taken + 1, taken + k)
        old == IF effects = <<>> THEN <<>> ELSE Last(effects).text
    IN  text \o SubSeq(old, k + 1, Len(old))
TextRead(k) == SubSeq(Stream, taken + 1, taken + k)

\* The flag after an effect, and a faulty variant.
ClearedByDisconnect(effect) == connected /\ effect.type # "DISCONNECT"
StaysUp(effect) == connected /\ effect.type \notin {"DISCONNECT", "ADDNBRS", "EXIT"}

\* listen_to_peer: all there is, MSG_SIZE at most.
Read ==
    LET k == Min({MaxRead, Len(Stream) - taken})
        effect == Handled(TextRead(k))
    IN
    /\ listens /\ k > 0
    /\ taken' = taken + k
    /\ effects' = Append(effects, [from |-> taken, upto |-> taken + k,
                                   text |-> TextRead(k), effect |-> effect])
    /\ connected' = StaysUp(effect)
    /\ listens' = (connected' /\ effect.type # "UB")
    /\ UNCHANGED sent

Next ==
    \/ \E m \in {Connect, Disconnect, AddNeighbors} \cup Requests \cup Responses : Sends(m)
    \/ Read

Spec == Init /\ [][Next]_vars

----------------------------------------------------------------------------
(* Properties.                                                             *)

\* What a message says.
Meaning(m) ==
    CASE m.type = "CONNECT" -> [type |-> "CONNECT", name |-> <<m.name>>]
      [] m.type = "DISCONNECT" -> Effect("DISCONNECT")
      [] m.type = "ADDNBRS" -> [type |-> "ADDNBRS", names |-> Atoms(m.names)]
      [] m.type = "REQ" ->
            IF m.sid \in Forwarded THEN [type |-> "REQ", sid |-> <<m.sid>>]
            ELSE [type |-> "REQ", sid |-> <<m.sid>>, hop |-> <<m.hop>>,
                  keyword |-> m.kind = "KW", word |-> <<m.word>>]
      [] OTHER -> LET hits == IF m.says = "YES" THEN Atoms(m.arg) ELSE <<>> IN
                  [type |-> "RESP", sid |-> <<m.sid>>, short |-> FALSE,
                   relayed |-> hits, shown |-> hits]

\* The reads that returned message i and nothing else.
Alone(i) == {e \in ToSet(effects) : e.from = Before(i) /\ e.upto = After(i)}

\* simple-search.cpp:67-276: the parser undoes the formatter.  A message that is
\* read alone, whatever was glued or cut before, is understood as it was meant.
AloneUnderstood ==
    \A i \in 1..Len(sent) : \A e \in Alone(i) : e.effect = Meaning(sent[i])

\* The last read began before message i and took some of it.
GluedBefore(i) == \E e \in ToSet(effects) : e.from < Before(i) /\ e.upto > Before(i)

\* Lines 70-83 and 283-311: a peer that left is noticed and can be freed, unless its
\* DISCONNECT was read together with an earlier message: then it stays in
\* connected_peers and is counted as one that answers.
LeaveNoticed ==
    Left /\ taken = Len(Stream) /\ listens =>
        Last(sent).type = "DISCONNECT" /\ GluedBefore(Len(sent))

\* The answers counted for a search, by a relay or by its creator.
Counted(s) == {k \in 1..Len(effects) : effects[k].effect.type = "RESP"
                                       /\ effects[k].effect.sid = <<s>>}

\* Lines 204-209: no answer counts twice, however the stream is cut; and one is lost, or
\* counted without the tokens that a relay looks at later, only if it was cut, was read
\* behind another message, or had a REQ or a DISCONNECT_ADDNBRS read behind it.
AnswersCounted ==
    \A i \in 1..Len(sent) : sent[i].type = "RESP" =>
        /\ Cardinality(Counted(sent[i].sid)) <= 1
        /\ (\E e \in ToSet(effects) :
              /\ e.from = Before(i) /\ e.upto >= After(i)
              /\ \A j \in i + 1..Len(sent) :
                   sent[j].type \in {"REQ", "ADDNBRS"} => Before(j) >= e.upto)
           => \E k \in Counted(sent[i].sid) : ~effects[k].effect.short

\* Lines 95-270: whatever follows message i in a read, the search it is taken for is
\* that of message i, one that was asked for.  But a REQ behind a RESP turns it into
\* a REQ with the id of the answer.  A search that this node relays is then answered
\* NO_PROCESSED; one that it created it relays itself, with the hop count that
\* parse_int_str makes of "NO" or of a hit, that is UINT_MAX.
FirstDecides ==
    \A i \in 1..Len(sent) : \A e \in ToSet(effects) :
        /\ sent[i].type \in {"REQ", "RESP"}
        /\ e.from = Before(i) /\ e.upto >= After(i) /\ e.effect.type \in {"REQ", "RESP"}
        => /\ e.effect.sid = <<sent[i].sid>>
           /\ e.effect.type # sent[i].type =>
                 \E j \in i + 1..Len(sent) : sent[j].type = "REQ" /\ Before(j) < e.upto

=============================================================================
