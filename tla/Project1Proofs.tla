--------------------------- MODULE Project1Proofs ---------------------------
(***************************************************************************)
(* Proofs about Project1: an error message is true, and a file that was     *)
(* written is right in each third that is there, and is all there unless a   *)
(* read was short or failed.  For any number of clients, names, lengths of   *)
(* the reads and servers killed.                                            *)
(***************************************************************************)
EXTENDS Project1, SequenceTheorems, TLAPS

Phases == {"accepts", "reads", "part1", "part2", "part3", "ends", "ended", "killed"}
Places == {"start", "second", "typing", "ask", "asked", "receive", "written", "failed", "exited"}

\* The types of the variables.
TypeOK ==
    /\ server \in [Server -> Phases]
    /\ served \in [Server -> Client \cup {Nobody}]
    /\ backlog \in [Server -> Seq(Client)]
    /\ pc \in [Client -> Places]
    /\ fname \in [Client -> Fname]
    /\ at \in [Client -> Server]
    /\ up \in [Client -> Seq(0..3)]
    /\ down \in [Client -> Seq(Nat)]
    /\ contents \in [Client -> [1..3 -> Seq(Nat)]]

\* A server that works has accepted a client.
ServerInv(s) ==
    /\ server[s] = "accepts" => served[s] = Nobody
    /\ server[s] \notin {"accepts", "killed"} => served[s] \in Client

\* Every sequence number that is on its way begins a whole message.
MessagesWhole(q) ==
    \A p \in 1..Len(q) : q[p] \in 1..3 =>
        /\ p + PartSize + 1 <= Len(q)
        /\ \A x \in 0..PartSize + 1 : q[p + x] = Message(q[p])[x + 1]

\* The rest of the invariant, but ThirdsRight, is about clients whose reads are whole,
\* at both ends.  One that has not asked yet has sent nothing and was sent nothing.
NothingSent(c) == pc[c] \in {"start", "second", "typing", "ask"} => up[c] = <<>> /\ down[c] = <<>>

\* A server sends a file to one that asks for it.
Asks(c) == RequestFor(at[c], fname[c])

Serving(c, s) ==
    served[s] = c /\ server[s] \notin {"reads", "killed"} =>
        \/ s = 1 /\ at[c] = 2
        \/ /\ s = at[c]
           /\ \/ pc[c] \in {"receive", "written", "failed", "exited"}
              \/ pc[c] = "asked" /\ Asks(c) = 2

\* The question for the server's file, or the YES to it, is on its way; a question for
\* any other is not answered by YES.
OneAnswer(c) ==
    pc[c] = "asked" =>
        /\ Asks(c) = 1 =>
             \/ up[c] = <<1>> /\ down[c] = <<>>
             \/ /\ up[c] = <<>> /\ down[c] = <<Yes>>
                /\ served[at[c]] = c /\ server[at[c]] \in {"reads", "killed"}
        /\ Asks(c) # 1 =>
             /\ \A x \in 1..Len(up[c]) : up[c][x] = Asks(c)
             /\ \A x \in 1..Len(down[c]) : down[c][x] # Yes

\* Who has turned to the second server was told the truth by the first, and who gave
\* up by both, unless a connection was reset.
ToldTrue(c) ==
    /\ at[c] = 2 /\ fname[c] = FileOf[1] => <<c, 1>> \in reset
    /\ pc[c] = "failed" => at[c] = 2 /\ (fname[c] = FileOf[2] => <<c, 2>> \in reset)

\* The three messages, one after the other; whether m of them may have been sent.
Stream(p) ==
    IF p <= FMsgSize THEN Message(1)[p]
    ELSE IF p <= 2 * FMsgSize THEN Message(2)[p - FMsgSize]
    ELSE Message(3)[p - 2 * FMsgSize]

SentBy(s, m) ==
    CASE server[s] \in {"reads", "part1"} -> m = 0
      [] server[s] = "part2" -> m = 1
      [] server[s] = "part3" -> m = 2
      [] server[s] \in {"ends", "ended"} -> m = 3
      [] OTHER -> TRUE

\* Of m messages, c has still to read what follows the first i, which it has taken.
TakenUpTo(c, i, m) ==
    /\ i <= m
    /\ Len(down[c]) = (m - i) * FMsgSize
    /\ \A x \in 1..Len(down[c]) : down[c][x] = Stream(i * FMsgSize + x)
    /\ \A j \in 1..i : contents[c][j] = Third(j)

Receiving(c) ==
    pc[c] = "receive" =>
        /\ served[at[c]] = c
        /\ up[c] # <<>> =>
             up[c] = <<2>> /\ down[c] = <<>> /\ server[at[c]] \in {"reads", "killed"}
        /\ \E i, m \in 0..3 : SentBy(at[c], m) /\ TakenUpTo(c, i, m)

\* Each third is right or missing; the last one is there once the file is written
\* after a read that did not fail, the others too unless reads may be short.
ThirdsRight(c) ==
    /\ \A i \in 1..3 : contents[c][i] \in {<<>>, Third(i)}
    /\ pc[c] = "written" /\ <<c, at[c]>> \notin reset =>
         /\ contents[c][3] = Third(3)
         /\ c \in AnyReads \/ \A i \in 1..3 : contents[c][i] = Third(i)

WholeReads(c) ==
    /\ \A s \in Server : Serving(c, s)
    /\ NothingSent(c) /\ OneAnswer(c) /\ ToldTrue(c) /\ Receiving(c)

ClientInv(c) ==
    /\ MessagesWhole(down[c]) /\ ThirdsRight(c)
    /\ c \notin AnyReads => WholeReads(c)

TransferInv ==
    /\ TypeOK
    /\ \A s \in Server : ServerInv(s)
    /\ \A c \in Client : ClientInv(c)

----------------------------------------------------------------------------
(* The messages and the stream they make.                                  *)

LEMMA PartSizeNat == PartSize \in Nat /\ PartSize > 0 /\ FMsgSize \in Nat /\ FMsgSize > 2
BY Project1Assumption DEF FMsgSize

LEMMA ThirdShape ==
    ASSUME NEW i \in 1..3
    PROVE  /\ Third(i) \in Seq(Nat)
           /\ Len(Third(i)) = PartSize
           /\ \A j \in 1..PartSize : Third(i)[j] = 4 * j + i
<1>1. \A j \in 1..PartSize : 4 * j + i \in Nat
  OBVIOUS
<1>. QED  BY <1>1, PartSizeNat DEF Third

LEMMA MessageShape ==
    ASSUME NEW i \in 1..3
    PROVE  /\ Message(i) \in Seq(Nat)
           /\ Len(Message(i)) = FMsgSize
           /\ Message(i)[1] = i
           /\ \A j \in 1..PartSize : Message(i)[j + 1] = Third(i)[j]
           /\ Message(i)[FMsgSize] = 0
<1>. DEFINE third == Third(i)
<1>1. third \in Seq(Nat) /\ Len(third) = PartSize
  BY ThirdShape
<1>2. Message(i) = (<<i>> \o third) \o <<0>>
  BY DEF Message
<1>. HIDE DEF third
<1>3. <<i>> \o third \in Seq(Nat) /\ Len(<<i>> \o third) = PartSize + 1
  BY <1>1, PartSizeNat
<1>4. \A x \in 1..PartSize + 1 : (<<i>> \o third)[x] = IF x = 1 THEN i ELSE third[x - 1]
  BY <1>1, PartSizeNat
<1>. DEFINE start == <<i>> \o third
<1>8. start \in Seq(Nat) /\ Len(start) = PartSize + 1
  BY <1>3
<1>. HIDE DEF start
<1>5. /\ start \o <<0>> \in Seq(Nat) /\ Len(start \o <<0>>) = PartSize + 2
      /\ \A x \in 1..PartSize + 1 : (start \o <<0>>)[x] = start[x]
      /\ (start \o <<0>>)[PartSize + 2] = 0
  BY <1>8, PartSizeNat
<1>6. \A j \in 1..PartSize : Message(i)[j + 1] = third[j]
  BY <1>2, <1>4, <1>5, PartSizeNat DEF start
<1>. QED  BY <1>2, <1>4, <1>5, <1>6, PartSizeNat DEF start, third, FMsgSize

LEMMA StreamShape ==
    ASSUME NEW i \in 1..3, NEW x \in 1..FMsgSize
    PROVE  Stream((i - 1) * FMsgSize + x) = Message(i)[x]
<1>1. CASE i = 1
  BY <1>1, PartSizeNat DEF Stream
<1>2. CASE i = 2
  <2>1. (i - 1) * FMsgSize + x = FMsgSize + x
    BY <1>2, PartSizeNat
  <2>. QED  BY <1>2, <2>1, PartSizeNat DEF Stream
<1>3. CASE i = 3
  <2>1. (i - 1) * FMsgSize + x = 2 * FMsgSize + x
    BY <1>3, PartSizeNat
  <2>. QED  BY <1>3, <2>1, PartSizeNat DEF Stream
<1>. QED  BY <1>1, <1>2, <1>3

\* A message has its sequence number first, then characters, and 0 last.
LEMMA MessageBytes ==
    ASSUME NEW i \in 1..3, NEW x \in 1..FMsgSize
    PROVE  /\ x = 1 => Message(i)[x] = i
           /\ x # 1 /\ x # FMsgSize =>
                Message(i)[x] = 4 * (x - 1) + i /\ x - 1 \in 1..PartSize
           /\ x = FMsgSize => Message(i)[x] = 0
<1>1. CASE x # 1 /\ x # FMsgSize
  <2>1. x - 1 \in 1..PartSize
    BY <1>1, PartSizeNat DEF FMsgSize
  <2>. DEFINE j == x - 1
  <2>2. /\ \A k \in 1..PartSize : Message(i)[k + 1] = Third(i)[k]
        /\ \A k \in 1..PartSize : Third(i)[k] = 4 * k + i
    BY MessageShape, ThirdShape
  <2>3. Message(i)[j + 1] = 4 * j + i
    BY <2>1, <2>2
  <2>4. j + 1 = x
    BY <2>1
  <2>5. Message(i)[x] = 4 * j + i
    BY <2>3, <2>4
  <2>. QED  BY <1>1, <2>1, <2>5, PartSizeNat
<1>2. CASE x = 1
  BY <1>2, MessageShape, PartSizeNat
<1>3. CASE x = FMsgSize
  BY <1>3, MessageShape, PartSizeNat
<1>. QED  BY <1>1, <1>2, <1>3

LEMMA MessageValues ==
    ASSUME NEW i \in 1..3, NEW x \in 1..FMsgSize
    PROVE  /\ Message(i)[x] \in Nat /\ Message(i)[x] # Yes
           /\ Message(i)[x] = 0 <=> x = FMsgSize
           /\ Message(i)[x] \in 1..3 <=> x = 1
<1>. DEFINE b == Message(i)[x]
<1>1. CASE x # 1 /\ x # FMsgSize
  <2>1. b = 4 * (x - 1) + i /\ x - 1 \in 1..PartSize
    BY <1>1, MessageBytes
  <2>. HIDE DEF b
  <2>2. b \in Nat /\ b # 4 /\ b # 0 /\ b \notin 1..3
    BY <2>1, PartSizeNat
  <2>. QED  BY <1>1, <2>2 DEF Yes, b
<1>2. CASE x = 1
  <2>1. b = i
    BY <1>2, MessageBytes
  <2>. HIDE DEF b
  <2>2. b \in Nat /\ b # 4 /\ b # 0 /\ b \in 1..3
    BY <2>1
  <2>. QED  BY <1>2, <2>2, PartSizeNat DEF Yes, b
<1>3. CASE x = FMsgSize
  <2>1. b = 0
    BY <1>3, MessageBytes
  <2>. HIDE DEF b
  <2>2. b \in Nat /\ b # 4 /\ b \notin 1..3
    BY <2>1
  <2>. QED  BY <1>3, <2>1, <2>2, PartSizeNat DEF Yes, b
<1>. QED  BY <1>1, <1>2, <1>3

LEMMA LeastOfTwo ==
    ASSUME NEW a \in Nat, NEW b \in Nat, a <= b
    PROVE  Min({a, b}) = a /\ Min({b}) = b
<1>1. /\ a \in {a, b} /\ \A y \in {a, b} : a <= y
      /\ \A x \in {a, b} : (\A y \in {a, b} : x <= y) => x = a
  OBVIOUS
<1>2. b \in {b} /\ \A y \in {b} : b <= y
  OBVIOUS
<1>3. Min({a, b}) = a
  BY <1>1 DEF Min
<1>. QED  BY <1>2, <1>3 DEF Min

\* One message after another: whole ones stay whole.
LEMMA WholeConcat ==
    ASSUME NEW q \in Seq(Nat), NEW r \in Seq(Nat), MessagesWhole(q), MessagesWhole(r)
    PROVE  MessagesWhole(q \o r) /\ q \o r \in Seq(Nat)
<1>. DEFINE t == q \o r
<1>1. /\ t \in Seq(Nat) /\ Len(t) = Len(q) + Len(r)
      /\ \A x \in 1..Len(q) : t[x] = q[x]
      /\ \A x \in 1..Len(r) : t[Len(q) + x] = r[x]
  OBVIOUS
<1>. HIDE DEF t
<1>2. ASSUME NEW p \in 1..Len(t), t[p] \in 1..3
      PROVE  /\ p + PartSize + 1 <= Len(t)
             /\ \A x \in 0..PartSize + 1 : t[p + x] = Message(t[p])[x + 1]
  <2>1. CASE p <= Len(q)
    <3>1. p \in 1..Len(q) /\ t[p] = q[p]
      BY <1>1, <2>1
    <3>2. /\ p + PartSize + 1 <= Len(q)
          /\ \A x \in 0..PartSize + 1 : q[p + x] = Message(q[p])[x + 1]
      BY <1>2, <3>1 DEF MessagesWhole
    <3>3. ASSUME NEW x \in 0..PartSize + 1 PROVE t[p + x] = q[p + x]
      <4>1. x \in Nat /\ x <= PartSize + 1 /\ p + x \in 1..Len(q)
        <5>1. p + PartSize + 1 <= Len(q) /\ p \in 1..Len(q) /\ Len(q) \in Nat
          BY <3>1, <3>2
        <5>. QED  BY <5>1, PartSizeNat
      <4>. QED  BY <1>1, <4>1
    <3>4. \A x \in 0..PartSize + 1 : t[p + x] = Message(t[p])[x + 1]
      BY <3>1, <3>2, <3>3
    <3>5. Len(q) \in Nat /\ Len(r) \in Nat /\ p \in Nat
      OBVIOUS
    <3>6. p + PartSize + 1 <= Len(t)
      BY <1>1, <3>2, <3>5, PartSizeNat
    <3>. QED  BY <3>4, <3>6
  <2>2. CASE p > Len(q)
    <3>. DEFINE n == p - Len(q)
    <3>1. n \in 1..Len(r) /\ Len(q) + n = p
      BY <1>1, <2>2
    <3>. HIDE DEF n
    <3>2. t[p] = r[n]
      BY <1>1, <3>1
    <3>3. /\ n + PartSize + 1 <= Len(r)
          /\ \A x \in 0..PartSize + 1 : r[n + x] = Message(r[n])[x + 1]
      BY <1>2, <3>1, <3>2 DEF MessagesWhole
    <3>4. ASSUME NEW x \in 0..PartSize + 1 PROVE t[p + x] = r[n + x]
      <4>0. n \in 1..Len(r) /\ Len(q) \in Nat /\ Len(r) \in Nat /\ x \in Nat
        BY <3>1, <3>4, PartSizeNat
      <4>1. n + x \in 1..Len(r) /\ Len(q) + (n + x) = p + x
        <5>1. n + x <= Len(r)
          BY <3>3, <3>4, <4>0, PartSizeNat
        <5>2. Len(q) + (n + x) = p + x
          BY <3>1, <4>0
        <5>. QED  BY <4>0, <5>1, <5>2
      <4>2. t[Len(q) + (n + x)] = r[n + x]
        BY <1>1, <4>1
      <4>. QED  BY <4>1, <4>2
    <3>5. \A x \in 0..PartSize + 1 : t[p + x] = Message(t[p])[x + 1]
      BY <3>2, <3>3, <3>4
    <3>6. n \in Nat /\ Len(r) \in Nat /\ Len(q) \in Nat
      BY <3>1
    <3>7. p + PartSize + 1 <= Len(t)
      BY <1>1, <3>1, <3>3, <3>6, PartSizeNat
    <3>. QED  BY <3>5, <3>7
  <2>. QED  BY <1>1, <2>1, <2>2
<1>. QED  BY <1>1, <1>2 DEF MessagesWhole, t

LEMMA WholeByte == ASSUME NEW b \in Nat, b \notin 1..3 PROVE MessagesWhole(<<b>>)
BY DEF MessagesWhole

LEMMA WholeMessageItself == ASSUME NEW i \in 1..3 PROVE MessagesWhole(Message(i))
<1>. DEFINE msg == Message(i)
<1>1. Len(msg) = FMsgSize /\ msg[1] = i
  BY MessageShape
<1>2. ASSUME NEW p \in 1..Len(msg), msg[p] \in 1..3 PROVE p = 1
  BY <1>1, <1>2, MessageValues
<1>3. 1 + PartSize + 1 <= Len(msg)
  BY <1>1, PartSizeNat DEF FMsgSize
<1>4. \A x \in 0..PartSize + 1 : msg[1 + x] = Message(msg[1])[x + 1]
  BY <1>1
<1>. HIDE DEF msg
<1>. QED  BY <1>2, <1>3, <1>4 DEF MessagesWhole, msg

\* What is left after a read.
LEMMA WholeRest ==
    ASSUME NEW q \in Seq(Nat), MessagesWhole(q), NEW k \in 0..Len(q)
    PROVE  LET rest == SubSeq(q, k + 1, Len(q)) IN
           /\ rest \in Seq(Nat) /\ Len(rest) = Len(q) - k
           /\ \A x \in 1..Len(rest) : rest[x] = q[k + x]
           /\ MessagesWhole(rest)
<1>. DEFINE rest == SubSeq(q, k + 1, Len(q))
<1>1. /\ rest \in Seq(Nat) /\ Len(rest) = Len(q) - k
      /\ \A x \in 1..Len(rest) : rest[x] = q[k + x]
  OBVIOUS
<1>. HIDE DEF rest
<1>2. ASSUME NEW p \in 1..Len(rest), rest[p] \in 1..3
      PROVE  /\ p + PartSize + 1 <= Len(rest)
             /\ \A x \in 0..PartSize + 1 : rest[p + x] = Message(rest[p])[x + 1]
  <2>. DEFINE n == k + p
  <2>1. n \in 1..Len(q) /\ rest[p] = q[n]
    BY <1>1
  <2>2. /\ n + PartSize + 1 <= Len(q)
        /\ \A x \in 0..PartSize + 1 : q[n + x] = Message(q[n])[x + 1]
    <3>. HIDE DEF n
    <3>. QED  BY <1>2, <2>1 DEF MessagesWhole
  <2>3. ASSUME NEW x \in 0..PartSize + 1 PROVE rest[p + x] = q[n + x]
    <3>1. p + x \in 1..Len(rest) /\ k + (p + x) = n + x
      BY <1>1, <2>2, PartSizeNat
    <3>2. rest[p + x] = q[k + (p + x)]
      BY <1>1, <3>1
    <3>. QED  BY <3>1, <3>2
  <2>4. p + PartSize + 1 <= Len(rest)
    BY <1>1, <2>2, PartSizeNat
  <2>. HIDE DEF n
  <2>. QED  BY <2>1, <2>2, <2>3, <2>4
<1>. QED  BY <1>1, <1>2 DEF MessagesWhole, rest

\* process_file_contents only takes what is a whole message, and takes it for what it
\* is, wherever the read began and however short it was.
LEMMA WholeRead ==
    ASSUME NEW q \in Seq(Nat), MessagesWhole(q), NEW k \in 1..Len(q), k <= FMsgSize,
           NEW bytes, bytes = SubSeq(q, 1, k), WholeMessage(bytes), bytes[1] \in 1..3
    PROVE  Characters(bytes) = Third(bytes[1])
<1>. DEFINE i == q[1]
<1>1. /\ bytes \in Seq(Nat) /\ Len(bytes) = k /\ \A x \in 1..k : bytes[x] = q[x]
  OBVIOUS
<1>2. bytes[1] = i /\ i \in 1..3
  BY <1>1
<1>3. /\ PartSize + 2 <= Len(q)
      /\ \A x \in 0..PartSize + 1 : q[1 + x] = Message(i)[x + 1]
  <2>1. 1 \in 1..Len(q)
    OBVIOUS
  <2>. QED  BY <1>2, <2>1, PartSizeNat DEF MessagesWhole
<1>. HIDE DEF i
<1>4. ASSUME NEW x \in 1..k PROVE bytes[x] = Message(i)[x]
  <2>. DEFINE y == x - 1
  <2>1. y \in 0..PartSize + 1 /\ 1 + y = x /\ y + 1 = x
    BY <1>4, PartSizeNat DEF FMsgSize
  <2>. HIDE DEF y
  <2>2. q[1 + y] = Message(i)[y + 1]
    BY <1>3, <2>1
  <2>. QED  BY <1>1, <2>1, <2>2
<1>5. {x \in 1..Len(bytes) : bytes[x] = 0} = IF k = FMsgSize THEN {FMsgSize} ELSE {}
  <2>1. ASSUME NEW x \in 1..k PROVE bytes[x] = 0 <=> x = FMsgSize
    <3>1. x \in 1..FMsgSize
      BY PartSizeNat
    <3>2. Message(i)[x] = 0 <=> x = FMsgSize
      BY <1>2, <3>1, MessageValues
    <3>. QED  BY <1>4, <3>2
  <2>. QED  BY <1>1, <2>1, PartSizeNat
<1>6. LengthOf(bytes) = FMsgSize /\ k >= FMsgSize - 1
  <2>1. LengthOf(bytes) = FMsgSize
    BY DEF WholeMessage
  <2>2. CASE k # FMsgSize
    <3>1. {x \in 1..Len(bytes) : bytes[x] = 0} \cup {Len(bytes) + 1} = {k + 1}
      BY <1>1, <1>5, <2>2
    <3>2. LengthOf(bytes) = Min({k + 1})
      BY <3>1 DEF LengthOf
    <3>3. Min({k + 1}) = k + 1
      BY LeastOfTwo
    <3>. QED  BY <2>1, <3>2, <3>3, PartSizeNat
  <2>. QED  BY <2>1, <2>2, PartSizeNat
<1>7. Characters(bytes) = SubSeq(bytes, 2, FMsgSize - 1)
  BY <1>6 DEF Characters
<1>8. SubSeq(bytes, 2, FMsgSize - 1) = [j \in 1..PartSize |-> bytes[j + 1]]
  BY <1>1, <1>6, PartSizeNat DEF FMsgSize
<1>9. ASSUME NEW j \in 1..PartSize PROVE bytes[j + 1] = 4 * j + i
  <2>. DEFINE x == j + 1
  <2>1. x \in 1..k /\ x \in 1..FMsgSize /\ x # 1 /\ x # FMsgSize /\ x - 1 = j
    BY <1>6, PartSizeNat DEF FMsgSize
  <2>. HIDE DEF x
  <2>2. Message(i)[x] = 4 * (x - 1) + i
    BY <1>2, <2>1, MessageBytes
  <2>3. bytes[x] = Message(i)[x]
    BY <1>4, <2>1
  <2>. QED  BY <2>1, <2>2, <2>3 DEF x
<1>. QED  BY <1>2, <1>7, <1>8, <1>9 DEF Third

\* And it takes every whole message.
LEMMA WholeMessageTaken ==
    ASSUME NEW i \in 1..3, NEW bytes \in Seq(Nat), Len(bytes) = FMsgSize,
           \A x \in 1..Len(bytes) : bytes[x] = Stream((i - 1) * FMsgSize + x)
    PROVE  WholeMessage(bytes) /\ bytes[1] = i
<1>1. \A x \in 1..FMsgSize : bytes[x] = Message(i)[x]
  BY StreamShape
<1>2. \A x \in 1..FMsgSize : bytes[x] = 0 <=> x = FMsgSize
  BY <1>1, MessageValues
<1>3. {x \in 1..Len(bytes) : bytes[x] = 0} = {FMsgSize}
  BY <1>2, PartSizeNat
<1>4. {x \in 1..Len(bytes) : bytes[x] = 0} \cup {Len(bytes) + 1} = {FMsgSize, FMsgSize + 1}
  BY <1>3
<1>5. Min({FMsgSize, FMsgSize + 1}) = FMsgSize
  <2>1. FMsgSize \in Nat /\ FMsgSize + 1 \in Nat /\ FMsgSize <= FMsgSize + 1
    BY PartSizeNat
  <2>. QED  BY <2>1, LeastOfTwo
<1>6. bytes[1] = i
  <2>1. 1 \in 1..FMsgSize
    BY PartSizeNat
  <2>. QED  BY <1>1, <2>1, MessageShape
<1>7. LengthOf(bytes) = FMsgSize
  BY <1>4, <1>5 DEF LengthOf
<1>. QED  BY <1>6, <1>7 DEF WholeMessage

\* Lengths in messages.
LEMMA InMessages ==
    ASSUME NEW i \in 0..3, NEW m \in 0..3, i <= m
    PROVE  /\ i * FMsgSize \in Nat /\ (m - i) * FMsgSize \in Nat
           /\ i * FMsgSize + (m - i) * FMsgSize = m * FMsgSize
           /\ (m - i) * FMsgSize + FMsgSize = ((m + 1) - i) * FMsgSize
           /\ i < m => (m - i) * FMsgSize = FMsgSize + (m - (i + 1)) * FMsgSize
           /\ i * FMsgSize + FMsgSize = (i + 1) * FMsgSize
           /\ i = m => (m - i) * FMsgSize = 0
<1>1. \A n \in {0, 1, 2, 3, 4} : n * FMsgSize \in {0, FMsgSize, 2 * FMsgSize, 3 * FMsgSize, 4 * FMsgSize}
  BY PartSizeNat
<1>2. i = 0 \/ i = 1 \/ i = 2 \/ i = 3
  OBVIOUS
<1>3. m = 0 \/ m = 1 \/ m = 2 \/ m = 3
  OBVIOUS
<1>. QED  BY <1>1, <1>2, <1>3, PartSizeNat

----------------------------------------------------------------------------
(* The invariant, step by step.                                            *)

LEMMA TransferInit == Init => TransferInv
<1>. SUFFICES ASSUME Init PROVE TransferInv
  OBVIOUS
<1>1. TypeOK
  BY Project1Assumption DEF Init, TypeOK, Phases, Places, Server
<1>2. ASSUME NEW s \in Server PROVE ServerInv(s)
  BY <1>2 DEF Init, ServerInv
<1>3. ASSUME NEW c \in Client PROVE ClientInv(c)
  <2>1. /\ pc[c] = "start" /\ at[c] = 1 /\ up[c] = <<>> /\ down[c] = <<>>
        /\ contents[c] = [i \in 1..3 |-> <<>>] /\ \A s \in Server : served[s] # c
    BY <1>3, Project1Assumption DEF Init
  <2>2. MessagesWhole(down[c])
    BY <2>1 DEF MessagesWhole
  <2>3. ThirdsRight(c)
    BY <2>1 DEF ThirdsRight
  <2>4. WholeReads(c)
    BY <2>1 DEF WholeReads, NothingSent, Serving, OneAnswer, ToldTrue, Receiving
  <2>. QED  BY <2>2, <2>3, <2>4 DEF ClientInv
<1>. QED  BY <1>1, <1>2, <1>3 DEF TransferInv

\* What the servers do, but to the client it is about: a server goes on serving the
\* client it serves, accepts another, is killed, or loses one whose reads are cut.
ServersKept(c) ==
    \A s \in Server :
        \/ served'[s] = served[s] /\ server'[s] = server[s]
        \/ served'[s] = served[s] /\ server'[s] = "killed"
        \/ served'[s] = served[s] /\ served[s] # c
        \/ served[s] = Nobody /\ server'[s] = "reads"
        \/ served'[s] = served[s] /\ server[s] = "ends" /\ server'[s] = "ended"

LEMMA SentByKept ==
    ASSUME NEW s \in Server, NEW m \in 0..3, SentBy(s, m),
           \/ server'[s] = server[s]
           \/ server'[s] = "killed"
           \/ server[s] = "ends" /\ server'[s] = "ended"
    PROVE  SentBy(s, m)'
BY DEF SentBy

\* What a step leaves to a client that it does not deal with.
LEMMA ClientKept ==
    ASSUME TransferInv, NEW c \in Client,
           /\ pc'[c] = pc[c] /\ fname'[c] = fname[c] /\ at'[c] = at[c]
           /\ up'[c] = up[c] /\ down'[c] = down[c] /\ contents'[c] = contents[c],
           \A s \in Server : <<c, s>> \in reset' <=> <<c, s>> \in reset,
           c \notin AnyReads => ServersKept(c)
    PROVE  ClientInv(c)'
<1>1. ClientInv(c) /\ at[c] \in Server /\ c # Nobody
  BY Project1Assumption DEF TransferInv, TypeOK
<1>2. MessagesWhole(down[c])'
  <2>1. MessagesWhole(down[c])
    BY <1>1 DEF ClientInv
  <2>. QED  BY <2>1 DEF MessagesWhole
<1>3. ThirdsRight(c)'
  BY <1>1 DEF ClientInv, ThirdsRight
<1>4. ASSUME c \notin AnyReads PROVE WholeReads(c)'
  <2>. WholeReads(c) /\ ServersKept(c)
    BY <1>1, <1>4 DEF ClientInv
  <2>1. NothingSent(c)'
    BY DEF WholeReads, NothingSent
  <2>2. ASSUME NEW s \in Server PROVE Serving(c, s)'
    <3>1. Serving(c, s)
      BY <2>2 DEF WholeReads
    <3>. QED  BY <1>1, <2>2, <3>1 DEF Serving, ServersKept, Asks
  <2>3. served[at[c]] = c => served'[at[c]] = c
    BY <1>1 DEF ServersKept
  <2>4. OneAnswer(c)'
    <3>1. served[at[c]] = c /\ server[at[c]] \in {"reads", "killed"} =>
            server'[at[c]] \in {"reads", "killed"}
      BY <1>1 DEF ServersKept
    <3>. QED  BY <2>3, <3>1 DEF WholeReads, OneAnswer, Asks
  <2>5. ToldTrue(c)'
    BY DEF WholeReads, ToldTrue, Server
  <2>6. Receiving(c)'
    <3>. SUFFICES ASSUME pc[c] = "receive" PROVE Receiving(c)'
      BY DEF Receiving
    <3>1. /\ served[at[c]] = c
          /\ up[c] # <<>> =>
               up[c] = <<2>> /\ down[c] = <<>> /\ server[at[c]] \in {"reads", "killed"}
      BY DEF WholeReads, Receiving
    <3>2. PICK i \in 0..3, m \in 0..3 : SentBy(at[c], m) /\ TakenUpTo(c, i, m)
      BY DEF WholeReads, Receiving
    <3>3. \/ server'[at[c]] = server[at[c]]
          \/ server'[at[c]] = "killed"
          \/ server[at[c]] = "ends" /\ server'[at[c]] = "ended"
      BY <1>1, <3>1 DEF ServersKept
    <3>4. SentBy(at[c], m)'
      <4>2. ASSUME NEW s \in Server, s = at[c] PROVE SentBy(s, m)'
        BY <3>2, <3>3, <4>2, SentByKept
      <4>3. at'[c] = at[c]
        OBVIOUS
      <4>. QED  BY <1>1, <4>2, <4>3 DEF SentBy
    <3>5. TakenUpTo(c, i, m)'
      BY <3>2 DEF TakenUpTo
    <3>6. /\ served'[at'[c]] = c
          /\ up'[c] # <<>> =>
               up'[c] = <<2>> /\ down'[c] = <<>> /\ server'[at'[c]] \in {"reads", "killed"}
      BY <2>3, <3>1, <3>3
    <3>. QED  BY <3>4, <3>5, <3>6 DEF Receiving
  <2>. QED  BY <2>1, <2>2, <2>4, <2>5, <2>6 DEF WholeReads
<1>. QED  BY <1>2, <1>3, <1>4 DEF ClientInv

----------------------------------------------------------------------------
(* The servers' steps.                                                     *)

LEMMA AcceptKeeps == ASSUME TransferInv, NEW s \in Server, Accept(s) PROVE TransferInv'
<1>. DEFINE q == backlog[s]
<1>1. q \in Seq(Client) /\ q # <<>>
  BY DEF TransferInv, TypeOK, Accept
<1>. HIDE DEF q
<1>2. Head(q) \in Client /\ Tail(q) \in Seq(Client)
  BY <1>1
<1>3. /\ served' = [served EXCEPT ![s] = Head(q)]
      /\ backlog' = [backlog EXCEPT ![s] = Tail(q)]
      /\ server' = [server EXCEPT ![s] = "reads"]
      /\ server[s] = "accepts"
      /\ UNCHANGED <<pc, fname, at, contents, reset, up, down>>
  BY DEF Accept, clients, q
<1>4. TypeOK'
  BY <1>2, <1>3 DEF TransferInv, TypeOK, Phases
<1>5. ASSUME NEW t \in Server PROVE ServerInv(t)'
  BY <1>2, <1>3, Project1Assumption DEF TransferInv, TypeOK, ServerInv
<1>6. ASSUME NEW c \in Client PROVE ClientInv(c)'
  <2>1. ServersKept(c)
    BY <1>3 DEF ServersKept, TransferInv, TypeOK, ServerInv
  <2>. QED  BY <1>3, <2>1, ClientKept
<1>. QED  BY <1>4, <1>5, <1>6 DEF TransferInv

\* A step by which server s deals with the client c that it has accepted: what remains
\* to be shown is the part of c.
LEMMA ServiceStep ==
    ASSUME TransferInv, NEW s \in Server, NEW c \in Client, c = served[s],
           server[s] \notin {"accepts", "killed"},
           NEW phase \in Phases \ {"accepts", "killed"}, server' = [server EXCEPT ![s] = phase],
           UNCHANGED <<served, backlog, pc, fname, at, contents, reset>>,
           NEW p \in Seq(0..3), up' = [up EXCEPT ![c] = p],
           NEW q \in Seq(Nat), down' = [down EXCEPT ![c] = q],
           MessagesWhole(q),
           c \notin AnyReads => WholeReads(c)'
    PROVE  TransferInv'
<1>1. TypeOK'
  BY DEF TransferInv, TypeOK
<1>2. ASSUME NEW t \in Server PROVE ServerInv(t)'
  BY <1>2 DEF TransferInv, TypeOK, ServerInv
<1>3. ASSUME NEW d \in Client, d # c PROVE ClientInv(d)'
  <2>1. ServersKept(d)
    BY <1>3 DEF ServersKept, TransferInv, TypeOK
  <2>2. up'[d] = up[d] /\ down'[d] = down[d]
    BY <1>3 DEF TransferInv, TypeOK
  <2>. QED  BY <2>1, <2>2, ClientKept
<1>4. ClientInv(c)'
  <2>1. ThirdsRight(c)'
    BY DEF TransferInv, ClientInv, ThirdsRight
  <2>2. down'[c] = q
    BY DEF TransferInv, TypeOK
  <2>3. MessagesWhole(down[c])'
    BY <2>2 DEF MessagesWhole
  <2>. QED  BY <2>1, <2>3 DEF ClientInv
<1>. QED  BY <1>1, <1>2, <1>3, <1>4 DEF TransferInv

LEMMA HandleRequestKeeps ==
    ASSUME TransferInv, NEW s \in Server, HandleRequest(s) PROVE TransferInv'
<1>1. PICK c \in Client : c = served[s]
  BY DEF HandleRequest, Requests, TransferInv, ServerInv
<1>. DEFINE text == Head(up[c])
            q == Append(down[c], Answer(text))
<1>2. /\ server[s] = "reads" /\ at[c] = s /\ up[c] # <<>> /\ text \in {0, 1, 3}
      /\ up' = [up EXCEPT ![c] = Tail(up[c])]
      /\ down' = [down EXCEPT ![c] = q]
      /\ UNCHANGED <<server, served, backlog, pc, fname, at, contents, reset>>
  BY <1>1 DEF HandleRequest, Requests, servers, clients
<1>3. /\ up[c] \in Seq(0..3) /\ Tail(up[c]) \in Seq(0..3)
      /\ down[c] \in Seq(Nat) /\ Answer(text) \in Nat /\ Answer(text) \notin 1..3
  BY <1>2 DEF TransferInv, TypeOK, Answer, Yes, No
<1>4. q \in Seq(Nat) /\ MessagesWhole(q)
  <2>1. <<Answer(text)>> \in Seq(Nat) /\ MessagesWhole(<<Answer(text)>>)
    BY <1>3, WholeByte
  <2>2. MessagesWhole(down[c])
    BY DEF TransferInv, ClientInv
  <2>3. q = down[c] \o <<Answer(text)>>
    BY <1>3
  <2>. QED  BY <1>3, <2>1, <2>2, <2>3, WholeConcat
<1>5. server' = [server EXCEPT ![s] = "reads"]
  BY <1>2 DEF TransferInv, TypeOK
<1>6. up'[c] = Tail(up[c]) /\ down'[c] = q
  BY <1>2 DEF TransferInv, TypeOK
<1>7. ASSUME c \notin AnyReads PROVE WholeReads(c)'
  <2>. WholeReads(c)
    BY <1>7 DEF TransferInv, ClientInv
  <2>1. NothingSent(c)'
    BY <1>2 DEF WholeReads, NothingSent
  <2>2. ASSUME NEW t \in Server PROVE Serving(c, t)'
    BY <1>2, <2>2 DEF WholeReads, Serving, Asks
  <2>3. OneAnswer(c)'
    <3>. SUFFICES ASSUME pc[c] = "asked" PROVE OneAnswer(c)'
      BY <1>2 DEF OneAnswer
    <3>1. Asks(c)' = Asks(c)
      BY <1>2 DEF Asks
    <3>2. CASE Asks(c) = 1
      <4>1. up[c] = <<1>> /\ down[c] = <<>>
        BY <1>2, <3>2 DEF WholeReads, OneAnswer
      <4>2. text = 1
        BY <4>1
      <4>3. up'[c] = <<>> /\ down'[c] = <<Yes>>
        BY <1>6, <4>1, <4>2 DEF Answer
      <4>. QED  BY <1>1, <1>2, <3>1, <3>2, <4>3 DEF OneAnswer
    <3>3. CASE Asks(c) # 1
      <4>1. /\ \A x \in 1..Len(up[c]) : up[c][x] = Asks(c)
            /\ \A x \in 1..Len(down[c]) : down[c][x] # Yes
        BY <3>3 DEF WholeReads, OneAnswer
      <4>2. Answer(text) # Yes
        <5>1. text = Asks(c)
          BY <1>2, <1>3, <4>1
        <5>. QED  BY <3>3, <5>1 DEF Answer, Yes, No
      <4>3. \A x \in 1..Len(q) : q[x] # Yes
        BY <1>3, <4>1, <4>2
      <4>. HIDE DEF q
      <4>4. \A x \in 1..Len(up'[c]) : up'[c][x] = Asks(c)
        <5>. DEFINE u == up[c]
        <5>1. u \in Seq(0..3) /\ u # <<>> /\ \A x \in 1..Len(u) : u[x] = Asks(c)
          BY <1>2, <1>3, <4>1
        <5>2. up'[c] = Tail(u)
          BY <1>6
        <5>. HIDE DEF u
        <5>. QED  BY <5>1, <5>2
      <4>. QED  BY <1>6, <3>1, <3>3, <4>3, <4>4 DEF OneAnswer
    <3>. QED  BY <3>2, <3>3
  <2>4. ToldTrue(c)'
    BY <1>2 DEF WholeReads, ToldTrue
  <2>5. Receiving(c)'
    <3>1. CASE pc[c] = "receive"
      <4>1. up[c] = <<2>>
        BY <1>2, <3>1 DEF WholeReads, Receiving
      <4>. QED  BY <1>2, <4>1
    <3>2. CASE pc[c] # "receive"
      BY <1>2, <3>2 DEF Receiving
    <3>. QED  BY <3>1, <3>2
  <2>. QED  BY <2>1, <2>2, <2>3, <2>4, <2>5 DEF WholeReads
<1>. HIDE DEF q, text
<1>. QED  BY <1>1, <1>2, <1>3, <1>4, <1>5, <1>7, ServiceStep DEF Phases

LEMMA HandleContentsKeeps ==
    ASSUME TransferInv, NEW s \in Server, HandleContents(s) PROVE TransferInv'
<1>1. PICK c \in Client : c = served[s]
  BY DEF HandleContents, Requests, TransferInv, ServerInv
<1>2. /\ server[s] = "reads" /\ at[c] = s /\ up[c] # <<>> /\ Head(up[c]) = 2
      /\ up' = [up EXCEPT ![c] = Tail(up[c])]
      /\ server' = [server EXCEPT ![s] = "part1"]
      /\ UNCHANGED <<served, backlog, pc, fname, at, contents, reset, down>>
  BY <1>1 DEF HandleContents, Requests, clients
<1>3. /\ up[c] \in Seq(0..3) /\ Tail(up[c]) \in Seq(0..3)
      /\ down[c] \in Seq(Nat) /\ MessagesWhole(down[c]) /\ down' = [down EXCEPT ![c] = down[c]]
  BY <1>2 DEF TransferInv, TypeOK, ClientInv
<1>4. up'[c] = Tail(up[c]) /\ server'[s] = "part1" /\ \A t \in Server : t # s => server'[t] = server[t]
  BY <1>2 DEF TransferInv, TypeOK
<1>5. ASSUME c \notin AnyReads PROVE WholeReads(c)'
  <2>. WholeReads(c)
    BY <1>5 DEF TransferInv, ClientInv
  <2>1. NothingSent(c)'
    BY <1>2 DEF WholeReads, NothingSent
  <2>2. pc[c] = "asked" => Asks(c) = 2
    <3>. SUFFICES ASSUME pc[c] = "asked" PROVE Asks(c) = 2
      OBVIOUS
    <3>1. Asks(c) # 1
      BY <1>2 DEF WholeReads, OneAnswer
    <3>2. up[c][1] = Asks(c)
      BY <1>2, <1>3, <3>1 DEF WholeReads, OneAnswer
    <3>. QED  BY <1>2, <1>3, <3>2
  <2>3. pc[c] \notin {"start", "second", "typing", "ask"} /\ pc[c] \in Places
    BY <1>2 DEF WholeReads, NothingSent, TransferInv, TypeOK
  <2>4. ASSUME NEW t \in Server PROVE Serving(c, t)'
    BY <1>1, <1>2, <1>4, <2>2, <2>3, <2>4 DEF WholeReads, Serving, Asks, Places
  <2>5. OneAnswer(c)'
    <3>. SUFFICES ASSUME pc[c] = "asked" PROVE OneAnswer(c)'
      BY <1>2 DEF OneAnswer
    <3>1. Asks(c)' = 2 /\ Asks(c) = 2
      BY <1>2, <2>2 DEF Asks
    <3>2. /\ \A x \in 1..Len(up[c]) : up[c][x] = 2
          /\ \A x \in 1..Len(down[c]) : down[c][x] # Yes
      BY <3>1 DEF WholeReads, OneAnswer
    <3>3. \A x \in 1..Len(up'[c]) : up'[c][x] = 2
      BY <1>2, <1>3, <1>4, <3>2
    <3>. QED  BY <1>2, <3>1, <3>2, <3>3 DEF OneAnswer
  <2>6. ToldTrue(c)'
    BY <1>2 DEF WholeReads, ToldTrue
  <2>7. Receiving(c)'
    <3>. SUFFICES ASSUME pc[c] = "receive" PROVE Receiving(c)'
      BY <1>2 DEF Receiving
    <3>1. up[c] = <<2>> /\ served[at[c]] = c
      BY <1>2 DEF WholeReads, Receiving
    <3>2. PICK i \in 0..3, m \in 0..3 : SentBy(at[c], m) /\ TakenUpTo(c, i, m)
      BY DEF WholeReads, Receiving
    <3>3. up'[c] = <<>>
      BY <1>4, <3>1
    <3>4. m = 0
      BY <1>2, <3>2 DEF SentBy
    <3>5. SentBy(at[c], m)'
      BY <1>2, <1>4, <3>4 DEF SentBy
    <3>6. TakenUpTo(c, i, m)'
      BY <1>2, <3>2 DEF TakenUpTo
    <3>. QED  BY <1>2, <3>1, <3>3, <3>5, <3>6 DEF Receiving
  <2>. QED  BY <2>1, <2>4, <2>5, <2>6, <2>7 DEF WholeReads
<1>. QED  BY <1>1, <1>2, <1>3, <1>5, ServiceStep DEF Phases

LEMMA ConcatShape ==
    ASSUME NEW q \in Seq(Nat), NEW r \in Seq(Nat)
    PROVE  /\ q \o r \in Seq(Nat) /\ Len(q \o r) = Len(q) + Len(r)
           /\ \A x \in 1..Len(q) : (q \o r)[x] = q[x]
           /\ \A x \in 1..Len(r) : (q \o r)[Len(q) + x] = r[x]
OBVIOUS

\* Sending message m + 1 after the first m, of which c has taken i.
LEMMA StreamGoesOn ==
    ASSUME NEW i \in 0..3, NEW m \in 0..2, i <= m, NEW q \in Seq(Nat),
           Len(q) = (m - i) * FMsgSize,
           \A x \in 1..Len(q) : q[x] = Stream(i * FMsgSize + x)
    PROVE  LET t == q \o Message(m + 1) IN
           /\ Len(t) = ((m + 1) - i) * FMsgSize
           /\ \A x \in 1..Len(t) : t[x] = Stream(i * FMsgSize + x)
<1>. DEFINE msg == Message(m + 1)
            t == q \o msg
<1>1. m + 1 \in 1..3 /\ (m + 1) - 1 = m
  OBVIOUS
<1>2. msg \in Seq(Nat) /\ Len(msg) = FMsgSize
  BY <1>1, MessageShape
<1>3. \A x \in 1..FMsgSize : Stream(m * FMsgSize + x) = msg[x]
  <2>1. \A x \in 1..FMsgSize : Stream(((m + 1) - 1) * FMsgSize + x) = Message(m + 1)[x]
    BY <1>1, StreamShape
  <2>. QED  BY <1>1, <2>1
<1>. HIDE DEF msg
<1>4. /\ Len(t) = Len(q) + FMsgSize
      /\ \A x \in 1..Len(q) : t[x] = q[x]
      /\ \A x \in 1..FMsgSize : t[Len(q) + x] = msg[x]
  <2>1. /\ Len(q \o msg) = Len(q) + Len(msg)
        /\ \A x \in 1..Len(q) : (q \o msg)[x] = q[x]
        /\ \A x \in 1..Len(msg) : (q \o msg)[Len(q) + x] = msg[x]
    BY <1>2, ConcatShape
  <2>. QED  BY <1>2, <2>1
<1>9. /\ (m - i) * FMsgSize + FMsgSize = ((m + 1) - i) * FMsgSize
      /\ i * FMsgSize + (m - i) * FMsgSize = m * FMsgSize
      /\ i * FMsgSize \in Nat /\ (m - i) * FMsgSize \in Nat
  <2>1. m \in 0..3
    OBVIOUS
  <2>. QED  BY <2>1, InMessages
<1>5. Len(t) = ((m + 1) - i) * FMsgSize
  BY <1>4, <1>9
<1>. DEFINE before == i * FMsgSize
            all == m * FMsgSize
<1>6. before \in Nat /\ all \in Nat /\ before + Len(q) = all
  BY <1>9
<1>7. /\ \A x \in 1..Len(q) : q[x] = Stream(before + x)
      /\ \A x \in 1..FMsgSize : Stream(all + x) = msg[x]
  BY <1>3
<1>. HIDE DEF before, all, t
<1>8. ASSUME NEW x \in 1..Len(t) PROVE t[x] = Stream(before + x)
  <2>1. CASE x <= Len(q)
    BY <1>4, <1>7, <2>1
  <2>2. CASE x > Len(q)
    <3>. DEFINE y == x - Len(q)
    <3>1. y \in 1..FMsgSize /\ Len(q) + y = x /\ before + x = all + y
      BY <1>4, <1>6, <2>2, PartSizeNat
    <3>. HIDE DEF y
    <3>2. t[x] = msg[y] /\ Stream(all + y) = msg[y]
      BY <1>4, <1>7, <3>1
    <3>. QED  BY <3>1, <3>2
  <2>. QED  BY <2>1, <2>2
<1>. QED  BY <1>5, <1>8 DEF t, msg, before

LEMMA SendPartKeeps ==
    ASSUME TransferInv, NEW s \in Server, SendPart(s) PROVE TransferInv'
<1>1. server[s] \notin {"accepts", "killed", "reads"}
  BY DEF SendPart, Sending
<1>2. PICK c \in Client : c = served[s]
  BY <1>1 DEF TransferInv, ServerInv
<1>3. PICK n \in 1..3 :
      /\ server[s] = Sending[n]
      /\ down' = [down EXCEPT ![c] = IF at[c] = s THEN down[c] \o Message(n) ELSE down[c]]
      /\ server' = [server EXCEPT ![s] = Sending[n + 1]]
      /\ UNCHANGED <<served, backlog, pc, fname, at, contents, reset, up>>
  BY <1>2 DEF SendPart, clients
<1>. DEFINE q == IF at[c] = s THEN down[c] \o Message(n) ELSE down[c]
<1>4. /\ Sending[n + 1] \in Phases \ {"accepts", "killed"}
      /\ server'[s] = Sending[n + 1] /\ \A t \in Server : t # s => server'[t] = server[t]
      /\ n = 1 => server[s] = "part1" /\ server'[s] = "part2"
      /\ n = 2 => server[s] = "part2" /\ server'[s] = "part3"
      /\ n = 3 => server[s] = "part3" /\ server'[s] = "ends"
  <2>1. n = 1 \/ n = 2 \/ n = 3
    OBVIOUS
  <2>2. server'[s] = Sending[n + 1] /\ \A t \in Server : t # s => server'[t] = server[t]
    BY <1>3 DEF TransferInv, TypeOK
  <2>. QED  BY <1>3, <2>1, <2>2 DEF Sending, Phases
<1>5. down[c] \in Seq(Nat) /\ MessagesWhole(down[c])
  BY DEF TransferInv, TypeOK, ClientInv
<1>6. q \in Seq(Nat) /\ MessagesWhole(q)
  <2>1. Message(n) \in Seq(Nat) /\ MessagesWhole(Message(n))
    BY MessageShape, WholeMessageItself
  <2>2. down[c] \o Message(n) \in Seq(Nat) /\ MessagesWhole(down[c] \o Message(n))
    BY <1>5, <2>1, WholeConcat
  <2>. QED  BY <1>5, <2>2
<1>7. down'[c] = q /\ up' = [up EXCEPT ![c] = up[c]] /\ up[c] \in Seq(0..3)
  BY <1>3 DEF TransferInv, TypeOK
<1>8. ASSUME c \notin AnyReads PROVE WholeReads(c)'
  <2>. WholeReads(c)
    BY <1>8 DEF TransferInv, ClientInv
  <2>1. /\ s = at[c] \/ (s = 1 /\ at[c] = 2 /\ q = down[c])
        /\ s = at[c] =>
             \/ pc[c] \in {"receive", "written", "failed", "exited"}
             \/ pc[c] = "asked" /\ Asks(c) = 2
    <3>1. Serving(c, s)
      BY DEF WholeReads
    <3>. QED  BY <1>1, <1>2, <3>1 DEF Serving
  <2>2. NothingSent(c)'
    BY <1>3, <1>7, <2>1 DEF WholeReads, NothingSent
  <2>3. ASSUME NEW t \in Server PROVE Serving(c, t)'
    <3>1. Serving(c, t)
      BY <2>3 DEF WholeReads
    <3>. QED  BY <1>1, <1>3, <1>4, <2>3, <3>1 DEF Serving, Asks
  <2>4. OneAnswer(c)'
    <3>. SUFFICES ASSUME pc[c] = "asked" PROVE OneAnswer(c)'
      BY <1>3 DEF OneAnswer
    <3>1. CASE s = at[c]
      <4>1. Asks(c) = 2 /\ Asks(c)' = 2
        BY <1>3, <2>1, <3>1 DEF Asks
      <4>2. /\ \A x \in 1..Len(up[c]) : up[c][x] = 2
            /\ \A x \in 1..Len(down[c]) : down[c][x] # Yes
        BY <4>1 DEF WholeReads, OneAnswer
      <4>. DEFINE d == down[c]
                  msg == Message(n)
      <4>3. /\ msg \in Seq(Nat) /\ \A x \in 1..Len(msg) : msg[x] # Yes
        BY MessageShape, MessageValues
      <4>4. d \in Seq(Nat) /\ \A x \in 1..Len(d) : d[x] # Yes
        BY <1>5, <4>2
      <4>5. down'[c] = d \o msg
        BY <1>7, <3>1
      <4>. HIDE DEF d, msg
      <4>6. \A x \in 1..Len(d \o msg) : (d \o msg)[x] # Yes
        BY <4>3, <4>4
      <4>7. \A x \in 1..Len(down'[c]) : down'[c][x] # Yes
        BY <4>5, <4>6
      <4>8. \A x \in 1..Len(up'[c]) : up'[c][x] = 2
        BY <1>3, <4>2
      <4>. QED  BY <4>1, <4>7, <4>8 DEF OneAnswer
    <3>2. CASE s # at[c]
      <4>1. down'[c] = down[c] /\ server'[at[c]] = server[at[c]]
        BY <1>4, <1>7, <2>1, <3>2 DEF TransferInv, TypeOK
      <4>. QED  BY <1>3, <4>1 DEF WholeReads, OneAnswer, Asks
    <3>. QED  BY <3>1, <3>2
  <2>5. ToldTrue(c)'
    BY <1>3 DEF WholeReads, ToldTrue
  <2>6. Receiving(c)'
    <3>. SUFFICES ASSUME pc[c] = "receive" PROVE Receiving(c)'
      BY <1>3 DEF Receiving
    <3>1. PICK i \in 0..3, m \in 0..3 : SentBy(at[c], m) /\ TakenUpTo(c, i, m)
      BY DEF WholeReads, Receiving
    <3>2. served[at[c]] = c
      BY DEF WholeReads, Receiving
    <3>3. CASE s = at[c]
      <4>1. up[c] = <<>>
        BY <1>1, <3>3 DEF WholeReads, Receiving
      <4>2. m = n - 1 /\ m \in 0..2 /\ m + 1 = n
        BY <1>3, <1>4, <3>1, <3>3 DEF SentBy
      <4>3. SentBy(at[c], m + 1)'
        BY <1>3, <1>4, <3>3, <4>2 DEF SentBy
      <4>4. TakenUpTo(c, i, m + 1)'
        <5>1. /\ i <= m /\ Len(down[c]) = (m - i) * FMsgSize
              /\ \A x \in 1..Len(down[c]) : down[c][x] = Stream(i * FMsgSize + x)
              /\ \A j \in 1..i : contents[c][j] = Third(j)
          BY <3>1 DEF TakenUpTo
        <5>2. q = down[c] \o Message(m + 1)
          BY <3>3, <4>2
        <5>. HIDE DEF q
        <5>3. /\ Len(q) = ((m + 1) - i) * FMsgSize
              /\ \A x \in 1..Len(q) : q[x] = Stream(i * FMsgSize + x)
          BY <1>5, <4>2, <5>1, <5>2, StreamGoesOn
        <5>4. i <= m + 1
          BY <5>1
        <5>. QED  BY <1>3, <1>7, <5>1, <5>3, <5>4 DEF TakenUpTo
      <4>5. m + 1 \in 0..3
        BY <4>2
      <4>. QED  BY <1>3, <3>2, <4>1, <4>3, <4>4, <4>5 DEF Receiving
    <3>4. CASE s # at[c]
      <4>1. down'[c] = down[c] /\ server'[at[c]] = server[at[c]]
        BY <1>4, <1>7, <2>1, <3>4 DEF TransferInv, TypeOK
      <4>2. SentBy(at[c], m)' /\ TakenUpTo(c, i, m)'
        BY <1>3, <3>1, <4>1 DEF SentBy, TakenUpTo
      <4>. QED  BY <1>3, <3>2, <4>1, <4>2 DEF WholeReads, Receiving
    <3>. QED  BY <3>3, <3>4
  <2>. QED  BY <2>2, <2>3, <2>4, <2>5, <2>6 DEF WholeReads
<1>. DEFINE phase == Sending[n + 1]
<1>9. /\ down' = [down EXCEPT ![c] = q] /\ server' = [server EXCEPT ![s] = phase]
      /\ UNCHANGED <<served, backlog, pc, fname, at, contents, reset>>
      /\ phase \in Phases \ {"accepts", "killed"}
  BY <1>3, <1>4
<1>. HIDE DEF q, phase
<1>. QED  BY <1>1, <1>2, <1>6, <1>7, <1>8, <1>9, ServiceStep

LEMMA EndsKeeps ==
    ASSUME TransferInv, NEW s \in Server, NEW how \in {"ended", "killed"}, Ends(s, how),
           \/ how = "killed"
           \/ server[s] = "ends"
           \/ server[s] = "reads" /\ served[s] \in AnyReads
    PROVE  TransferInv'
<1>1. /\ server' = [server EXCEPT ![s] = how]
      /\ UNCHANGED <<served, backlog, pc, fname, at, contents, reset, up, down>>
  BY DEF Ends, clients
<1>2. TypeOK'
  BY <1>1 DEF TransferInv, TypeOK, Phases
<1>3. ASSUME NEW t \in Server PROVE ServerInv(t)'
  BY <1>1 DEF TransferInv, TypeOK, ServerInv
<1>4. ASSUME NEW c \in Client PROVE ClientInv(c)'
  <2>1. c \notin AnyReads => ServersKept(c)
    BY <1>1 DEF ServersKept, TransferInv, TypeOK
  <2>. QED  BY <1>1, <2>1, ClientKept
<1>. QED  BY <1>2, <1>3, <1>4 DEF TransferInv

LEMMA ServerEndKeeps ==
    ASSUME TransferInv, NEW s \in Server, Terminate(s) \/ ServerReadError(s) \/ Kill(s)
    PROVE  TransferInv'
BY EndsKeeps DEF Terminate, ServerReadError, Kill

----------------------------------------------------------------------------
(* The clients' steps.                                                     *)

\* A step of one client that no server takes part in: what remains to be shown is
\* its own part of the invariant.
LEMMA OwnStep ==
    ASSUME TransferInv, NEW c \in Client,
           UNCHANGED <<server, served, fname>>,
           backlog' \in [Server -> Seq(Client)],
           NEW place \in Places, pc' = [pc EXCEPT ![c] = place],
           at' = at \/ at' = [at EXCEPT ![c] = 2],
           NEW p \in Seq(0..3), up' = [up EXCEPT ![c] = p],
           NEW q \in Seq(Nat), down' = [down EXCEPT ![c] = q],
           contents' = contents
             \/ \E i \in 1..3 : contents' = [contents EXCEPT ![c][i] = Third(i)],
           reset' = reset \/ reset' = reset \cup {<<c, at[c]>>},
           ClientInv(c)'
    PROVE  TransferInv'
<1>1. TypeOK'
  <2>1. contents' \in [Client -> [1..3 -> Seq(Nat)]]
    <3>1. CASE \E i \in 1..3 : contents' = [contents EXCEPT ![c][i] = Third(i)]
      <4>1. PICK i \in 1..3 : contents' = [contents EXCEPT ![c][i] = Third(i)]
        BY <3>1
      <4>. DEFINE third == Third(i)
      <4>2. third \in Seq(Nat) /\ contents' = [contents EXCEPT ![c][i] = third]
        BY <4>1, ThirdShape
      <4>. HIDE DEF third
      <4>. QED  BY <4>2 DEF TransferInv, TypeOK
    <3>2. CASE contents' = contents
      BY <3>2 DEF TransferInv, TypeOK
    <3>. QED  BY <3>1, <3>2
  <2>2. pc' \in [Client -> Places]
    BY DEF TransferInv, TypeOK
  <2>3. at' \in [Client -> Server]
    BY DEF TransferInv, TypeOK, Server
  <2>4. up' \in [Client -> Seq(0..3)] /\ down' \in [Client -> Seq(Nat)]
    BY DEF TransferInv, TypeOK
  <2>. QED  BY <2>1, <2>2, <2>3, <2>4 DEF TransferInv, TypeOK
<1>2. ASSUME NEW s \in Server PROVE ServerInv(s)'
  BY <1>2 DEF TransferInv, ServerInv
<1>3. ASSUME NEW d \in Client, d # c PROVE ClientInv(d)'
  <2>1. /\ pc'[d] = pc[d] /\ fname'[d] = fname[d] /\ at'[d] = at[d]
        /\ up'[d] = up[d] /\ down'[d] = down[d] /\ contents'[d] = contents[d]
    BY <1>3 DEF TransferInv, TypeOK
  <2>2. \A s \in Server : <<d, s>> \in reset' <=> <<d, s>> \in reset
    BY <1>3
  <2>3. ServersKept(d)
    BY DEF ServersKept
  <2>. QED  BY <2>1, <2>2, <2>3, ClientKept
<1>. QED  BY <1>1, <1>2, <1>3 DEF TransferInv

\* The parts of the invariant that a change of place alone does not touch.
LEMMA PlaceChange ==
    ASSUME TransferInv, NEW c \in Client,
           UNCHANGED <<server, served, fname, at, contents, reset>>,
           backlog' \in [Server -> Seq(Client)],
           NEW place \in {"second", "typing", "ask", "exited"}, pc' = [pc EXCEPT ![c] = place],
           UNCHANGED <<up, down>>,
           \/ pc[c] \in {"start", "second", "typing"}
           \/ pc[c] = "asked" /\ place = "exited"
    PROVE  TransferInv'
<1>1. /\ pc'[c] = place /\ ClientInv(c)
      /\ up' = [up EXCEPT ![c] = up[c]] /\ up[c] \in Seq(0..3)
      /\ down' = [down EXCEPT ![c] = down[c]] /\ down[c] \in Seq(Nat)
  BY DEF TransferInv, TypeOK
<1>2. MessagesWhole(down[c])'
  <2>1. MessagesWhole(down[c])
    BY <1>1 DEF ClientInv
  <2>. QED  BY <2>1 DEF MessagesWhole
<1>3. ThirdsRight(c)'
  BY <1>1 DEF ClientInv, ThirdsRight
<1>4. ASSUME c \notin AnyReads PROVE WholeReads(c)'
  <2>. WholeReads(c)
    BY <1>1, <1>4 DEF ClientInv
  <2>1. NothingSent(c)'
    BY <1>1 DEF WholeReads, NothingSent
  <2>2. ASSUME NEW s \in Server PROVE Serving(c, s)'
    BY <1>1, <2>2 DEF WholeReads, Serving, Asks
  <2>3. OneAnswer(c)' /\ Receiving(c)'
    BY <1>1 DEF OneAnswer, Receiving
  <2>4. ToldTrue(c)'
    BY <1>1 DEF WholeReads, ToldTrue
  <2>. QED  BY <2>1, <2>2, <2>3, <2>4 DEF WholeReads
<1>5. ClientInv(c)' /\ place \in Places
  BY <1>2, <1>3, <1>4 DEF ClientInv, Places
<1>. QED  BY <1>1, <1>5, OwnStep

LEMMA ConnectKeeps ==
    ASSUME TransferInv, NEW c \in Client, NEW s \in Server, Connect(c, s) \/ ConnectFails(c, s)
    PROVE  TransferInv'
<1>1. PICK place \in {"second", "typing", "exited"} :
      /\ pc[c] \in {"start", "second"} /\ pc' = [pc EXCEPT ![c] = place]
      /\ UNCHANGED <<server, served, fname, at, contents, reset, up, down>>
  BY DEF Connect, ConnectFails, servers
<1>2. backlog' \in [Server -> Seq(Client)]
  <2>1. Append(backlog[s], c) \in Seq(Client)
    BY DEF TransferInv, TypeOK
  <2>. QED  BY <2>1 DEF TransferInv, TypeOK, Connect, ConnectFails, servers
<1>. QED  BY <1>1, <1>2, PlaceChange

LEMMA TypesKeeps == ASSUME TransferInv, NEW c \in Client, Types(c) PROVE TransferInv'
<1>1. /\ pc[c] = "typing" /\ pc' = [pc EXCEPT ![c] = "ask"]
      /\ UNCHANGED <<server, served, backlog, fname, at, contents, reset, up, down>>
  BY DEF Types, servers
<1>2. backlog' \in [Server -> Seq(Client)]
  BY <1>1 DEF TransferInv, TypeOK
<1>. QED  BY <1>1, <1>2, PlaceChange

LEMMA OpenFailsKeeps == ASSUME TransferInv, NEW c \in Client, OpenFails(c) PROVE TransferInv'
<1>1. /\ pc[c] = "asked" /\ pc' = [pc EXCEPT ![c] = "exited"]
      /\ UNCHANGED <<server, served, backlog, fname, at, contents, reset, up, down>>
  BY DEF OpenFails, ReadsAlone, servers
<1>2. backlog' \in [Server -> Seq(Client)]
  BY <1>1 DEF TransferInv, TypeOK
<1>. QED  BY <1>1, <1>2, PlaceChange

\* What a client sends: one text, unless its name is long or reads may be short.
LEMMA SentTexts ==
    ASSUME TransferInv, NEW c \in Client, NEW text \in 0..3, Send(c, text)
    PROVE  \E p \in Seq(0..3) :
             /\ up' = [up EXCEPT ![c] = p]
             /\ c \notin AnyReads /\ up[c] = <<>> =>
                  p = IF fname[c] \in Long THEN <<0, 0>> ELSE <<text>>
<1>. DEFINE u == up[c]
<1>1. PICK texts \in Reads(c, text) :
        \E glued \in IF c \in AnyReads /\ u # <<>> THEN {0, 1} ELSE {0} :
          up' = [up EXCEPT ![c] = @ \o SubSeq(texts, 1 + glued, Len(texts))]
  BY DEF Send
<1>2. PICK glued \in IF c \in AnyReads /\ u # <<>> THEN {0, 1} ELSE {0} :
        up' = [up EXCEPT ![c] = @ \o SubSeq(texts, 1 + glued, Len(texts))]
  BY <1>1
<1>3. /\ u \in Seq(0..3) /\ glued \in {0, 1} /\ (c \notin AnyReads => glued = 0)
      /\ up' = [up EXCEPT ![c] = u \o SubSeq(texts, 1 + glued, Len(texts))]
  BY <1>2 DEF TransferInv, TypeOK
<1>4. /\ texts \in Seq(0..3) /\ Len(texts) \in {1, 2}
      /\ c \notin AnyReads => texts = IF fname[c] \in Long THEN <<0, 0>> ELSE <<text>>
  <2>1. CASE fname[c] \in Long
    <3>1. texts = <<0, 0>>
      BY <2>1 DEF Reads
    <3>2. <<0, 0>> \in Seq(0..3) /\ Len(<<0, 0>>) = 2
      OBVIOUS
    <3>. QED  BY <2>1, <3>1, <3>2
  <2>2. CASE fname[c] \notin Long /\ texts = <<text>>
    <3>1. <<text>> \in Seq(0..3) /\ Len(<<text>>) = 1
      OBVIOUS
    <3>. QED  BY <2>2, <3>1
  <2>3. CASE fname[c] \notin Long /\ texts # <<text>>
    <3>1. PICK start \in 0..2 : texts = <<start, 0>> /\ c \in AnyReads
      BY <2>3 DEF Reads
    <3>2. <<start, 0>> \in Seq(0..3) /\ Len(<<start, 0>>) = 2
      OBVIOUS
    <3>. QED  BY <3>1, <3>2
  <2>. QED  BY <2>1, <2>2, <2>3
<1>. DEFINE sent == SubSeq(texts, 1 + glued, Len(texts))
<1>5. sent \in Seq(0..3) /\ (glued = 0 => sent = texts)
  <2>1. CASE glued = 0
    <3>1. SubSeq(texts, 1, Len(texts)) = texts
      BY <1>4
    <3>. QED  BY <1>4, <2>1, <3>1
  <2>2. CASE glued = 1
    BY <1>4, <2>2
  <2>. QED  BY <1>3, <2>1, <2>2
<1>. HIDE DEF u, sent
<1>6. u \o sent \in Seq(0..3) /\ (u = <<>> => u \o sent = sent)
  BY <1>3, <1>5
<1>. QED  BY <1>3, <1>4, <1>5, <1>6 DEF u, sent

LEMMA TextTypes ==
    ASSUME NEW s \in Server, NEW f \in Fname
    PROVE  /\ RequestFor(s, f) \in 0..2 /\ ContentsOf(RequestFor(s, f)) \in 0..3
           /\ RequestFor(s, f) = 1 <=> f = FileOf[s]
           /\ f \in Long => RequestFor(s, f) = 0
<1>1. f \in Long => f # FileOf[s] /\ f # Suffixed[s]
  BY Project1Assumption
<1>2. RequestFor(s, f) = 1 <=> f = FileOf[s]
  BY DEF RequestFor
<1>. QED  BY <1>1, <1>2 DEF RequestFor, ContentsOf

LEMMA AskKeeps == ASSUME TransferInv, NEW c \in Client, Ask(c) PROVE TransferInv'
<1>. DEFINE text == RequestFor(at[c], fname[c])
<1>1. /\ pc[c] = "ask" /\ pc' = [pc EXCEPT ![c] = "asked"]
      /\ Send(c, text)
      /\ UNCHANGED <<server, served, backlog, fname, at, contents, reset, down>>
  BY DEF Ask, servers
<1>2. at[c] \in Server /\ fname[c] \in Fname /\ ClientInv(c)
  BY DEF TransferInv, TypeOK
<1>3. text \in 0..3 /\ (fname[c] \in Long => text = 0)
  BY <1>2, TextTypes
<1>4. PICK p \in Seq(0..3) :
        /\ up' = [up EXCEPT ![c] = p]
        /\ c \notin AnyReads /\ up[c] = <<>> =>
             p = IF fname[c] \in Long THEN <<0, 0>> ELSE <<text>>
  BY <1>1, <1>3, SentTexts
<1>5. /\ pc'[c] = "asked" /\ up'[c] = p /\ backlog' \in [Server -> Seq(Client)]
      /\ down' = [down EXCEPT ![c] = down[c]] /\ down[c] \in Seq(Nat)
  BY <1>1, <1>4 DEF TransferInv, TypeOK
<1>6. MessagesWhole(down[c])'
  <2>1. MessagesWhole(down[c])
    BY <1>2 DEF ClientInv
  <2>. QED  BY <1>1, <2>1 DEF MessagesWhole
<1>7. ThirdsRight(c)'
  BY <1>1, <1>2, <1>5 DEF ClientInv, ThirdsRight
<1>8. ASSUME c \notin AnyReads PROVE WholeReads(c)'
  <2>. WholeReads(c)
    BY <1>2, <1>8 DEF ClientInv
  <2>1. up[c] = <<>> /\ down[c] = <<>>
    BY <1>1 DEF WholeReads, NothingSent
  <2>2. Asks(c)' = text
    BY <1>1 DEF Asks
  <2>3. OneAnswer(c)'
    <3>1. p = IF fname[c] \in Long THEN <<0, 0>> ELSE <<text>>
      BY <1>4, <1>8, <2>1
    <3>. HIDE DEF text
    <3>2. CASE fname[c] \in Long
      BY <1>1, <1>3, <1>5, <2>1, <2>2, <3>1, <3>2 DEF OneAnswer
    <3>3. CASE fname[c] \notin Long
      BY <1>1, <1>3, <1>5, <2>1, <2>2, <3>1, <3>3 DEF OneAnswer
    <3>. QED  BY <3>2, <3>3
  <2>4. NothingSent(c)' /\ Receiving(c)'
    BY <1>5 DEF NothingSent, Receiving
  <2>5. ASSUME NEW s \in Server PROVE Serving(c, s)'
    BY <1>1, <1>5, <2>5 DEF WholeReads, Serving
  <2>6. ToldTrue(c)'
    BY <1>1, <1>5 DEF WholeReads, ToldTrue
  <2>. QED  BY <2>3, <2>4, <2>5, <2>6 DEF WholeReads
<1>9. ClientInv(c)'
  BY <1>6, <1>7, <1>8 DEF ClientInv
<1>. HIDE DEF text
<1>. QED  BY <1>1, <1>4, <1>5, <1>9, OwnStep DEF Places

\* A refusal is true: the file is not the one of the server that was asked, or the
\* connection was reset.
LEMMA RefusalKeeps ==
    ASSUME TransferInv, NEW c \in Client, ReadNo(c) \/ ReadError(c) PROVE TransferInv'
<1>1. /\ pc[c] = "asked" /\ ClientInv(c) /\ at[c] \in {1, 2} /\ fname[c] \in Fname
      /\ pc' = AfterNo(c) /\ at' = [at EXCEPT ![c] = 2]
      /\ up' = [up EXCEPT ![c] = <<>>] /\ down' = [down EXCEPT ![c] = <<>>]
      /\ UNCHANGED <<server, served, backlog, fname, contents>>
      /\ reset' = reset \/ reset' = reset \cup {<<c, at[c]>>}
  BY DEF ReadNo, ReadsAlone, ReadError, Refuses, TransferInv, TypeOK, Server
<1>. DEFINE place == IF at[c] = 1 THEN "ask" ELSE "failed"
<1>2. pc' = [pc EXCEPT ![c] = place] /\ place \in Places
  BY <1>1 DEF AfterNo, Places
<1>3. /\ at'[c] = 2 /\ up'[c] = <<>> /\ down'[c] = <<>> /\ pc'[c] = place
      /\ <<>> \in Seq(0..3) /\ <<>> \in Seq(Nat) /\ backlog' \in [Server -> Seq(Client)]
  BY <1>1, <1>2 DEF TransferInv, TypeOK
<1>4. MessagesWhole(down[c])'
  BY <1>3 DEF MessagesWhole
<1>5. ThirdsRight(c)'
  BY <1>1, <1>3 DEF ClientInv, ThirdsRight
<1>6. ASSUME c \notin AnyReads PROVE WholeReads(c)'
  <2>. WholeReads(c)
    BY <1>1, <1>6 DEF ClientInv
  <2>1. fname[c] = FileOf[at[c]] => <<c, at[c]>> \in reset'
    <3>1. CASE ReadError(c)
      BY <3>1 DEF ReadError
    <3>2. CASE ReadNo(c)
      <4>1. Head(down[c]) = No /\ down[c] # <<>>
        BY <3>2 DEF ReadNo, ReadsAlone
      <4>2. Asks(c) # 1
        <5>1. Asks(c) = 1 => down[c] = <<>> \/ down[c] = <<Yes>>
          BY <1>1 DEF WholeReads, OneAnswer
        <5>2. Head(<<Yes>>) = Yes /\ Yes # No
          BY DEF Yes, No
        <5>. QED  BY <4>1, <5>1, <5>2
      <4>3. at[c] \in Server
        BY <1>1 DEF Server
      <4>. QED  BY <1>1, <4>2, <4>3, TextTypes DEF Asks
    <3>. QED  BY <3>1, <3>2
  <2>2. ToldTrue(c)'
    <3>1. reset \subseteq reset'
      BY <1>1
    <3>. QED  BY <1>1, <1>3, <2>1, <3>1 DEF WholeReads, ToldTrue
  <2>3. NothingSent(c)' /\ OneAnswer(c)' /\ Receiving(c)'
    BY <1>1, <1>3 DEF NothingSent, OneAnswer, Receiving
  <2>4. ASSUME NEW s \in Server PROVE Serving(c, s)'
    <3>1. Serving(c, s) /\ s \in {1, 2}
      BY <2>4 DEF WholeReads, Server
    <3>. QED  BY <1>1, <1>3, <3>1 DEF Serving
  <2>. QED  BY <2>2, <2>3, <2>4 DEF WholeReads
<1>7. ClientInv(c)'
  BY <1>4, <1>5, <1>6 DEF ClientInv
<1>. HIDE DEF place
<1>. QED  BY <1>1, <1>2, <1>3, <1>7, OwnStep

LEMMA ReadUnexpectedKeeps ==
    ASSUME TransferInv, NEW c \in Client, ReadUnexpected(c) PROVE TransferInv'
<1>. DEFINE d == down[c]
<1>1. /\ pc[c] = "asked" /\ ClientInv(c) /\ d \in Seq(Nat) /\ MessagesWhole(d)
      /\ UNCHANGED <<server, served, backlog, pc, fname, at, contents, reset, up>>
  BY DEF ReadUnexpected, servers, clients, TransferInv, TypeOK, ClientInv
<1>2. PICK k \in 1..Len(d) :
        \/ /\ c \in AnyReads \/ k = Len(d)
           /\ SubSeq(d, 1, k) \notin {<<Yes>>, <<No>>}
           /\ down' = [down EXCEPT ![c] = SubSeq(@, k + 1, Len(@))]
        \/ /\ c \in AnyReads
           /\ down' = [down EXCEPT ![c] = <<RestOfAnswer>> \o SubSeq(@, k + 1, Len(@))]
  BY DEF ReadUnexpected
<1>. DEFINE rest == SubSeq(d, k + 1, Len(d))
            q == down'[c]
<1>3. rest \in Seq(Nat) /\ Len(rest) = Len(d) - k /\ MessagesWhole(rest)
  <2>1. k \in 0..Len(d)
    BY <1>1
  <2>. HIDE DEF d
  <2>. QED  BY <1>1, <2>1, WholeRest
<1>4. /\ down' = [down EXCEPT ![c] = q]
      /\ q = rest \/ (q = <<RestOfAnswer>> \o rest /\ c \in AnyReads)
  BY <1>2 DEF TransferInv, TypeOK
<1>5. q \in Seq(Nat) /\ MessagesWhole(q)
  <2>1. <<RestOfAnswer>> \in Seq(Nat) /\ MessagesWhole(<<RestOfAnswer>>)
    BY WholeByte DEF RestOfAnswer
  <2>. HIDE DEF rest, q
  <2>2. <<RestOfAnswer>> \o rest \in Seq(Nat) /\ MessagesWhole(<<RestOfAnswer>> \o rest)
    BY <1>3, <2>1, WholeConcat
  <2>. QED  BY <1>3, <1>4, <2>2
<1>6. ThirdsRight(c)'
  BY <1>1 DEF ClientInv, ThirdsRight
<1>7. MessagesWhole(down[c])'
  BY <1>5 DEF MessagesWhole
<1>8. ASSUME c \notin AnyReads PROVE WholeReads(c)'
  <2>. WholeReads(c)
    BY <1>1, <1>8 DEF ClientInv
  <2>1. q = <<>>
    <3>1. k = Len(d)
      BY <1>2, <1>8
    <3>2. Len(rest) = 0
      BY <1>1, <1>3, <3>1
    <3>. HIDE DEF rest, q
    <3>. QED  BY <1>3, <1>4, <1>8, <3>2
  <2>2. OneAnswer(c)'
    <3>1. Asks(c) # 1
      <4>. SUFFICES ASSUME Asks(c) = 1 PROVE FALSE
        OBVIOUS
      <4>1. d = <<Yes>>
        BY <1>1, <1>2 DEF WholeReads, OneAnswer
      <4>2. k = 1
        BY <4>1
      <4>3. SubSeq(d, 1, k) = <<Yes>>
        <5>. HIDE DEF d
        <5>1. d \in Seq(Nat) /\ k = Len(d)
          BY <1>1, <4>1, <4>2
        <5>2. SubSeq(d, 1, Len(d)) = d
          BY <5>1, SubSeqFull
        <5>. QED  BY <4>1, <5>1, <5>2
      <4>. QED  BY <1>2, <1>8, <4>3
    <3>2. \A x \in 1..Len(down'[c]) : down'[c][x] # Yes
      BY <2>1
    <3>. QED  BY <1>1, <3>1, <3>2 DEF WholeReads, OneAnswer, Asks
  <2>3. NothingSent(c)' /\ Receiving(c)' /\ ToldTrue(c)'
    BY <1>1 DEF WholeReads, NothingSent, Receiving, ToldTrue
  <2>4. ASSUME NEW s \in Server PROVE Serving(c, s)'
    BY <1>1, <2>4 DEF WholeReads, Serving, Asks
  <2>. QED  BY <2>2, <2>3, <2>4 DEF WholeReads
<1>9. ClientInv(c)'
  BY <1>6, <1>7, <1>8 DEF ClientInv
<1>10. /\ pc' = [pc EXCEPT ![c] = pc[c]] /\ pc[c] \in Places
       /\ up' = [up EXCEPT ![c] = up[c]] /\ up[c] \in Seq(0..3)
       /\ backlog' \in [Server -> Seq(Client)]
  BY <1>1 DEF TransferInv, TypeOK
<1>. HIDE DEF q
<1>. QED  BY <1>1, <1>4, <1>5, <1>9, <1>10, OwnStep

LEMMA ReadYesKeeps == ASSUME TransferInv, NEW c \in Client, ReadYes(c) PROVE TransferInv'
<1>. DEFINE d == down[c]
            text == ContentsOf(RequestFor(at[c], fname[c]))
<1>1. /\ pc[c] = "asked" /\ ClientInv(c) /\ at[c] \in Server /\ fname[c] \in Fname
      /\ d \in Seq(Nat) /\ MessagesWhole(d)
      /\ d # <<>> /\ Head(d) = Yes /\ (c \in AnyReads \/ Len(d) = 1)
      /\ down' = [down EXCEPT ![c] = Tail(d)]
      /\ Send(c, text)
      /\ pc' = [pc EXCEPT ![c] = "receive"]
      /\ UNCHANGED <<server, served, backlog, fname, at, contents, reset>>
  BY DEF ReadYes, ReadsAlone, servers, TransferInv, TypeOK, ClientInv
<1>2. text \in 0..3
  BY <1>1, TextTypes
<1>3. PICK p \in Seq(0..3) :
        /\ up' = [up EXCEPT ![c] = p]
        /\ c \notin AnyReads /\ up[c] = <<>> =>
             p = IF fname[c] \in Long THEN <<0, 0>> ELSE <<text>>
  BY <1>1, <1>2, SentTexts
<1>4. Tail(d) \in Seq(Nat) /\ MessagesWhole(Tail(d))
  <2>. HIDE DEF d
  <2>1. Tail(d) = SubSeq(d, 2, Len(d)) /\ 1 \in 0..Len(d)
    BY <1>1
  <2>2. SubSeq(d, 1 + 1, Len(d)) \in Seq(Nat) /\ MessagesWhole(SubSeq(d, 1 + 1, Len(d)))
    BY <1>1, <2>1, WholeRest
  <2>3. 1 + 1 = 2
    OBVIOUS
  <2>4. SubSeq(d, 1 + 1, Len(d)) = Tail(d)
    BY <2>1, <2>3
  <2>. QED  BY <2>2, <2>4
<1>5. /\ pc'[c] = "receive" /\ up'[c] = p /\ down'[c] = Tail(d)
      /\ backlog' \in [Server -> Seq(Client)]
  BY <1>1, <1>3 DEF TransferInv, TypeOK
<1>6. MessagesWhole(down[c])'
  BY <1>4, <1>5 DEF MessagesWhole
<1>7. ThirdsRight(c)'
  BY <1>1, <1>5 DEF ClientInv, ThirdsRight
<1>8. ASSUME c \notin AnyReads PROVE WholeReads(c)'
  <2>. WholeReads(c)
    BY <1>1, <1>8 DEF ClientInv
  <2>1. Asks(c) = 1
    <3>1. d[1] = Yes /\ 1 \in 1..Len(d)
      BY <1>1
    <3>. QED  BY <1>1, <3>1 DEF WholeReads, OneAnswer
  <2>2. /\ up[c] = <<>> /\ d = <<Yes>>
        /\ served[at[c]] = c /\ server[at[c]] \in {"reads", "killed"}
    BY <1>1, <2>1 DEF WholeReads, OneAnswer
  <2>3. p = <<2>>
    <3>1. fname[c] \notin Long
      BY <1>1, <2>1, TextTypes DEF Asks
    <3>2. text = 2
      BY <2>1 DEF Asks, ContentsOf
    <3>. HIDE DEF text
    <3>. QED  BY <1>3, <1>8, <2>2, <3>1, <3>2
  <2>4. down'[c] = <<>>
    BY <1>5, <2>2
  <2>5. Receiving(c)'
    <3>1. SentBy(at[c], 0)'
      BY <1>1, <2>2 DEF SentBy
    <3>2. TakenUpTo(c, 0, 0)'
      BY <2>4, PartSizeNat DEF TakenUpTo
    <3>. QED  BY <1>1, <1>5, <2>2, <2>3, <2>4, <3>1, <3>2 DEF Receiving
  <2>6. NothingSent(c)' /\ OneAnswer(c)'
    BY <1>5 DEF NothingSent, OneAnswer
  <2>7. ASSUME NEW s \in Server PROVE Serving(c, s)'
    BY <1>1, <1>5, <2>7 DEF WholeReads, Serving
  <2>8. ToldTrue(c)'
    BY <1>1, <1>5 DEF WholeReads, ToldTrue
  <2>. QED  BY <2>5, <2>6, <2>7, <2>8 DEF WholeReads
<1>9. ClientInv(c)' /\ "receive" \in Places
  BY <1>6, <1>7, <1>8 DEF ClientInv, Places
<1>. HIDE DEF d, text
<1>. QED  BY <1>1, <1>3, <1>4, <1>5, <1>9, OwnStep

LEMMA ReceiveErrorKeeps ==
    ASSUME TransferInv, NEW c \in Client, ReceiveError(c) PROVE TransferInv'
<1>1. /\ pc[c] = "receive" /\ ClientInv(c)
      /\ reset' = reset \cup {<<c, at[c]>>}
      /\ pc' = [pc EXCEPT ![c] = "written"]
      /\ UNCHANGED <<server, served, backlog, fname, at, contents, up, down>>
  BY DEF ReceiveError, servers, TransferInv
<1>2. /\ pc'[c] = "written" /\ backlog' \in [Server -> Seq(Client)]
      /\ up' = [up EXCEPT ![c] = up[c]] /\ up[c] \in Seq(0..3)
      /\ down' = [down EXCEPT ![c] = down[c]] /\ down[c] \in Seq(Nat)
  BY <1>1 DEF TransferInv, TypeOK
<1>3. MessagesWhole(down[c])'
  <2>1. MessagesWhole(down[c])
    BY <1>1 DEF ClientInv
  <2>. QED  BY <1>1, <2>1 DEF MessagesWhole
<1>4. ThirdsRight(c)'
  BY <1>1 DEF ClientInv, ThirdsRight
<1>5. ASSUME c \notin AnyReads PROVE WholeReads(c)'
  <2>. WholeReads(c)
    BY <1>1, <1>5 DEF ClientInv
  <2>1. ASSUME NEW s \in Server PROVE Serving(c, s)'
    BY <1>1, <1>2, <2>1 DEF WholeReads, Serving
  <2>2. NothingSent(c)' /\ OneAnswer(c)' /\ Receiving(c)'
    BY <1>2 DEF NothingSent, OneAnswer, Receiving
  <2>3. ToldTrue(c)'
    BY <1>1, <1>2 DEF WholeReads, ToldTrue
  <2>. QED  BY <2>1, <2>2, <2>3 DEF WholeReads
<1>6. ClientInv(c)' /\ "written" \in Places
  BY <1>3, <1>4, <1>5 DEF ClientInv, Places
<1>. QED  BY <1>1, <1>2, <1>6, OwnStep

LEMMA ReadContentsKeeps ==
    ASSUME TransferInv, NEW c \in Client, ReadContents(c) PROVE TransferInv'
<1>. DEFINE q == down[c]
            most == Min({FMsgSize, Len(q)})
<1>1. /\ pc[c] = "receive" /\ q # <<>> /\ ClientInv(c) /\ at[c] \in Server
      /\ q \in Seq(Nat) /\ MessagesWhole(q)
      /\ UNCHANGED <<server, served, backlog, fname, at, reset, up>>
  BY DEF ReadContents, servers, TransferInv, TypeOK, ClientInv
<1>2. PICK k \in IF c \in AnyReads THEN 1..most ELSE {most} :
        LET bytes == SubSeq(q, 1, k)
            taken == WholeMessage(bytes) /\ bytes[1] \in 1..3
        IN /\ down' = [down EXCEPT ![c] = SubSeq(@, k + 1, Len(@))]
           /\ contents' = IF taken THEN [contents EXCEPT ![c][bytes[1]] = Characters(bytes)]
                          ELSE contents
           /\ pc' = [pc EXCEPT ![c] = IF taken /\ bytes[1] = 3 THEN "written" ELSE @]
  BY DEF ReadContents
<1>3. /\ Len(q) \in Nat /\ Len(q) > 0 /\ most \in Nat
      /\ \/ most = FMsgSize /\ FMsgSize <= Len(q)
         \/ most = Len(q) /\ Len(q) <= FMsgSize
  <2>1. Len(q) \in Nat /\ Len(q) > 0
    BY <1>1
  <2>2. CASE FMsgSize <= Len(q)
    <3>1. most = FMsgSize
      BY <2>1, <2>2, LeastOfTwo, PartSizeNat
    <3>. QED  BY <2>1, <2>2, <3>1, PartSizeNat
  <2>3. CASE Len(q) <= FMsgSize
    <3>1. most = Min({Len(q), FMsgSize})
      OBVIOUS
    <3>2. Min({Len(q), FMsgSize}) = Len(q)
      BY <2>1, <2>3, LeastOfTwo, PartSizeNat
    <3>. QED  BY <2>1, <2>3, <3>1, <3>2
  <2>. QED  BY <2>1, <2>2, <2>3, PartSizeNat
<1>4. k \in 1..Len(q) /\ k <= FMsgSize /\ (c \notin AnyReads => k = most)
  <2>. HIDE DEF most
  <2>. QED  BY <1>2, <1>3, PartSizeNat
<1>. DEFINE bytes == SubSeq(q, 1, k)
            rest == SubSeq(q, k + 1, Len(q))
            taken == WholeMessage(bytes) /\ bytes[1] \in 1..3
<1>5. /\ down' = [down EXCEPT ![c] = rest] /\ down'[c] = rest
      /\ taken => /\ contents' = [contents EXCEPT ![c][bytes[1]] = Characters(bytes)]
                  /\ pc' = [pc EXCEPT ![c] = IF bytes[1] = 3 THEN "written" ELSE "receive"]
      /\ ~taken => contents' = contents /\ pc' = [pc EXCEPT ![c] = "receive"]
  BY <1>1, <1>2 DEF TransferInv, TypeOK
<1>6. /\ bytes \in Seq(Nat) /\ Len(bytes) = k /\ \A x \in 1..k : bytes[x] = q[x]
  <2>. HIDE DEF q
  <2>. QED  BY <1>1, <1>4
<1>7. /\ rest \in Seq(Nat) /\ Len(rest) = Len(q) - k /\ MessagesWhole(rest)
      /\ \A x \in 1..Len(rest) : rest[x] = q[k + x]
  <2>1. k \in 0..Len(q)
    BY <1>4
  <2>. HIDE DEF q
  <2>. QED  BY <1>1, <2>1, WholeRest
<1>8. taken => Characters(bytes) = Third(bytes[1])
  <2>. HIDE DEF q
  <2>1. SUFFICES ASSUME taken PROVE Characters(bytes) = Third(bytes[1])
    OBVIOUS
  <2>2. WholeMessage(bytes) /\ bytes[1] \in 1..3 /\ bytes = SubSeq(q, 1, k)
    BY <2>1
  <2>. HIDE DEF bytes
  <2>. QED  BY <1>1, <1>4, <2>2, WholeRead
<1>. DEFINE third == Third(bytes[1])
<1>9. /\ taken => /\ contents' = [contents EXCEPT ![c][bytes[1]] = third]
                  /\ contents'[c][bytes[1]] = third
                  /\ \A j \in 1..3 : j # bytes[1] => contents'[c][j] = contents[c][j]
                  /\ pc'[c] = IF bytes[1] = 3 THEN "written" ELSE "receive"
      /\ ~taken => contents'[c] = contents[c] /\ pc'[c] = "receive"
  <2>. HIDE DEF bytes
  <2>1. taken => contents' = [contents EXCEPT ![c][bytes[1]] = third]
    BY <1>5, <1>8
  <2>2. taken => bytes[1] \in 1..3
    OBVIOUS
  <2>. HIDE DEF third, taken
  <2>. QED  BY <1>5, <2>1, <2>2 DEF TransferInv, TypeOK
\* When reads are whole, the next message is taken.
<1>10. ASSUME c \notin AnyReads
       PROVE  /\ served[at[c]] = c /\ up[c] = <<>> /\ taken
              /\ \E i \in 0..2, m \in 0..3 :
                   /\ SentBy(at[c], m) /\ bytes[1] = i + 1 /\ TakenUpTo(c, i, m)
                   /\ i < m /\ k = FMsgSize
  <2>1. WholeReads(c)
    BY <1>1, <1>10 DEF ClientInv
  <2>2. served[at[c]] = c /\ up[c] = <<>>
    BY <1>1, <2>1 DEF WholeReads, Receiving
  <2>3. PICK i \in 0..3, m \in 0..3 : SentBy(at[c], m) /\ TakenUpTo(c, i, m)
    BY <1>1, <2>1 DEF WholeReads, Receiving
  <2>4. /\ i <= m /\ Len(q) = (m - i) * FMsgSize
        /\ \A x \in 1..Len(q) : q[x] = Stream(i * FMsgSize + x)
    BY <2>3 DEF TakenUpTo
  <2>5. i < m /\ Len(q) >= FMsgSize
    <3>. HIDE DEF q
    <3>1. i # m
      BY <1>3, <2>4, InMessages
    <3>a. i \in 0..3 /\ m \in 0..3 /\ i < m
      BY <2>4, <3>1
    <3>b. i <= m
      BY <3>a
    <3>2. (m - i) * FMsgSize = FMsgSize + (m - (i + 1)) * FMsgSize
      BY ONLY <3>a, <3>b, InMessages
    <3>3. i + 1 \in 0..3 /\ i + 1 <= m
      BY <2>4, <3>1
    <3>4. (m - (i + 1)) * FMsgSize \in Nat
      BY <3>3, InMessages
    <3>. QED  BY <2>4, <3>1, <3>2, <3>4, PartSizeNat
  <2>6. k = FMsgSize
    BY <1>3, <1>4, <1>10, <2>5, PartSizeNat
  <2>7. i + 1 \in 1..3 /\ (i + 1) - 1 = i /\ i \in 0..2
    BY <2>5
  <2>8. \A x \in 1..Len(bytes) : bytes[x] = Stream(((i + 1) - 1) * FMsgSize + x)
    <3>. HIDE DEF q, bytes
    <3>1. \A x \in 1..k : x \in 1..Len(q)
      BY <1>4
    <3>. QED  BY <1>6, <2>4, <2>7, <3>1
  <2>9. WholeMessage(bytes) /\ bytes[1] = i + 1
    <3>. HIDE DEF bytes
    <3>. QED  BY <1>6, <2>6, <2>7, <2>8, WholeMessageTaken
  <2>. HIDE DEF bytes
  <2>. QED  BY <2>2, <2>3, <2>5, <2>6, <2>7, <2>9
<1>. HIDE DEF q, most, bytes, rest
<1>11. MessagesWhole(down[c])'
  <2>1. down'[c] = rest /\ MessagesWhole(rest)
    BY <1>5, <1>7
  <2>. HIDE DEF taken, third
  <2>. QED  BY ONLY <2>1 DEF MessagesWhole
<1>12. ThirdsRight(c)'
  <2>1. \A j \in 1..3 : contents[c][j] \in {<<>>, Third(j)}
    BY <1>1 DEF ClientInv, ThirdsRight
  <2>2. CASE taken
    <3>1. \A j \in 1..3 : contents'[c][j] \in {<<>>, Third(j)}
      BY <1>9, <2>1, <2>2
    <3>2. pc'[c] = "written" => contents'[c][3] = Third(3)
      BY <1>9, <2>2
    <3>3. ASSUME pc'[c] = "written", c \notin AnyReads
          PROVE  \A j \in 1..3 : contents'[c][j] = Third(j)
      <4>1. PICK i \in 0..2, m \in 0..3 : bytes[1] = i + 1 /\ TakenUpTo(c, i, m)
        BY <1>10, <3>3
      <4>2. bytes[1] = 3 /\ i = 2
        BY <1>9, <2>2, <3>3, <4>1
      <4>3. \A j \in 1..2 : contents[c][j] = Third(j)
        BY <4>1, <4>2 DEF TakenUpTo
      <4>. QED  BY <1>9, <2>2, <4>2, <4>3
    <3>. QED  BY <3>1, <3>2, <3>3 DEF ThirdsRight
  <2>3. CASE ~taken
    BY <1>9, <2>1, <2>3 DEF ThirdsRight
  <2>. QED  BY <2>2, <2>3
<1>13. ASSUME c \notin AnyReads PROVE WholeReads(c)'
  <2>1. WholeReads(c)
    BY <1>1, <1>13 DEF ClientInv
  <2>2. /\ served[at[c]] = c /\ up[c] = <<>> /\ taken
        /\ pc'[c] \in {"receive", "written"}
    BY <1>9, <1>10, <1>13
  <2>3. PICK i \in 0..2, m \in 0..3 :
          /\ SentBy(at[c], m) /\ bytes[1] = i + 1 /\ TakenUpTo(c, i, m)
          /\ i < m /\ k = FMsgSize
    BY <1>10, <1>13
  <2>4. TakenUpTo(c, i + 1, m)'
    <3>1. /\ Len(q) = (m - i) * FMsgSize
          /\ \A x \in 1..Len(q) : q[x] = Stream(i * FMsgSize + x)
          /\ \A j \in 1..i : contents[c][j] = Third(j)
      BY <2>3 DEF TakenUpTo, q
    <3>2. /\ (m - i) * FMsgSize = FMsgSize + (m - (i + 1)) * FMsgSize
          /\ i * FMsgSize + FMsgSize = (i + 1) * FMsgSize
          /\ i * FMsgSize \in Nat
      <4>1. i \in 0..3 /\ i <= m /\ i < m
        BY <2>3
      <4>. QED  BY <4>1, InMessages
    <3>. DEFINE after == (m - (i + 1)) * FMsgSize
                before == i * FMsgSize
    <3>6. after \in Nat
      <4>1. i + 1 \in 0..3 /\ i + 1 <= m
        BY <2>3
      <4>. QED  BY <4>1, InMessages
    <3>3. Len(rest) = after
      <4>1. Len(q) = FMsgSize + after
        BY <3>1, <3>2
      <4>. HIDE DEF after
      <4>. QED  BY <1>7, <2>3, <3>6, <4>1, PartSizeNat
    <3>4. \A x \in 1..Len(rest) : rest[x] = Stream((i + 1) * FMsgSize + x)
      <4>1. ASSUME NEW x \in 1..Len(rest) PROVE rest[x] = Stream((i + 1) * FMsgSize + x)
        <5>1. before \in Nat /\ before + FMsgSize = (i + 1) * FMsgSize
          BY <3>2
        <5>. HIDE DEF before, after
        <5>2. k + x \in 1..Len(q) /\ before + (k + x) = (before + FMsgSize) + x
          BY <1>3, <1>7, <2>3, <5>1, PartSizeNat
        <5>3. q[k + x] = Stream(before + (k + x))
          BY <3>1, <5>2 DEF before
        <5>. QED  BY <1>7, <5>1, <5>2, <5>3
      <4>. QED  BY <4>1
    <3>5. \A j \in 1..i + 1 : contents'[c][j] = Third(j)
      BY <1>9, <2>2, <2>3, <3>1
    <3>7. i + 1 <= m
      BY <2>3
    <3>. HIDE DEF before
    <3>. QED  BY <1>5, <3>3, <3>4, <3>5, <3>7 DEF TakenUpTo
  <2>5. SentBy(at[c], m)'
    BY <1>1, <2>3 DEF SentBy
  <2>6. Receiving(c)'
    <3>1. i + 1 \in 0..3
      OBVIOUS
    <3>. QED  BY <1>1, <2>2, <2>4, <2>5, <3>1 DEF Receiving
  <2>7. NothingSent(c)' /\ OneAnswer(c)'
    BY <2>2 DEF NothingSent, OneAnswer
  <2>8. ASSUME NEW s \in Server PROVE Serving(c, s)'
    BY <1>1, <2>1, <2>2, <2>8 DEF WholeReads, Serving
  <2>9. ToldTrue(c)'
    BY <1>1, <2>1, <2>2 DEF WholeReads, ToldTrue
  <2>. QED  BY <2>6, <2>7, <2>8, <2>9 DEF WholeReads
<1>14. ClientInv(c)'
  BY <1>11, <1>12, <1>13 DEF ClientInv
<1>. DEFINE place == IF taken /\ bytes[1] = 3 THEN "written" ELSE "receive"
<1>15. /\ pc' = [pc EXCEPT ![c] = place] /\ place \in Places
       /\ up' = [up EXCEPT ![c] = up[c]] /\ up[c] \in Seq(0..3)
       /\ backlog' \in [Server -> Seq(Client)]
       /\ \/ contents' = contents
          \/ \E j \in 1..3 : contents' = [contents EXCEPT ![c][j] = Third(j)]
  BY <1>1, <1>5, <1>9 DEF TransferInv, TypeOK, Places
<1>. HIDE DEF place, taken, third
<1>. QED  BY <1>1, <1>5, <1>7, <1>14, <1>15, OwnStep

----------------------------------------------------------------------------
LEMMA TransferNext == TransferInv /\ [Next]_vars => TransferInv'
<1>. SUFFICES ASSUME TransferInv, [Next]_vars PROVE TransferInv'
  OBVIOUS
<1>1. ASSUME NEW s \in Server, ServerStep(s) \/ ServerReadError(s) \/ Kill(s) PROVE TransferInv'
  BY <1>1, AcceptKeeps, HandleRequestKeeps, HandleContentsKeeps, SendPartKeeps, ServerEndKeeps
     DEF ServerStep
<1>2. ASSUME NEW c \in Client, ClientStep(c) \/ Types(c) PROVE TransferInv'
  BY <1>2, ConnectKeeps, TypesKeeps, AskKeeps, RefusalKeeps, ReadUnexpectedKeeps, ReadYesKeeps,
     OpenFailsKeeps, ReadContentsKeeps, ReceiveErrorKeeps
     DEF ClientStep
<1>3. CASE UNCHANGED vars
  <2>1. UNCHANGED <<server, served, backlog, pc, fname, at, contents, reset, up, down>>
    BY <1>3 DEF vars, servers, clients
  <2>2. TypeOK'
    BY <2>1 DEF TransferInv, TypeOK
  <2>3. ASSUME NEW s \in Server PROVE ServerInv(s)'
    BY <2>1 DEF TransferInv, ServerInv
  <2>4. ASSUME NEW c \in Client PROVE ClientInv(c)'
    <3>1. ServersKept(c)
      BY <2>1 DEF ServersKept
    <3>. QED  BY <2>1, <3>1, ClientKept
  <2>. QED  BY <2>2, <2>3, <2>4 DEF TransferInv
<1>. QED  BY <1>1, <1>2, <1>3 DEF Next

LEMMA TransferInvHolds == Spec => []TransferInv
BY TransferInit, TransferNext, PTL DEF Spec

\* request_file_contents and process_file_contents, client.cpp:270-380: each third of a
\* file that was written is right or missing, and none is missing when reads, at both
\* ends, return whole messages and none fails.
THEOREM CopiesAreExact == Spec => []CopyExact
<1>1. TransferInv => CopyExact
  BY DEF TransferInv, ClientInv, ThirdsRight, CopyExact
<1>. QED  BY <1>1, TransferInvHolds, PTL

\* The error message of the client is true, unless a server that has the file reset
\* the connection.
THEOREM FailuresAreTrue == Spec => []FailureTrue
<1>1. TransferInv => FailureTrue
  <2>. SUFFICES ASSUME TransferInv, NEW c \in Client \ AnyReads, NEW s \in Server,
                       pc[c] = "failed", fname[c] = FileOf[s]
                PROVE  <<c, s>> \in reset
    BY DEF FailureTrue
  <2>1. ToldTrue(c) /\ s \in {1, 2}
    BY DEF TransferInv, ClientInv, WholeReads, Server
  <2>. QED  BY <2>1 DEF ToldTrue
<1>. QED  BY <1>1, TransferInvHolds, PTL

=============================================================================
