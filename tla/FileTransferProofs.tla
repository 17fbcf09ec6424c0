------------------------- MODULE FileTransferProofs -------------------------
(***************************************************************************)
(* Proofs about FileTransfer: for any number of nodes, files and downloads, *)
(* any sizes, and whoever is killed or cuts messages where.                 *)
(***************************************************************************)
EXTENDS FileTransfer, SequenceTheorems, FiniteSetTheorems, WellFoundedInduction, TLAPS

(* Numbers and sequences.                                                  *)

LEMMA LeastNat ==
    ASSUME NEW S, S \subseteq Nat, S # {}
    PROVE  Min(S) \in S /\ \A y \in S : Min(S) <= y
<1>. DEFINE R == OpToRel(<, Nat)
<1>1. PICK x \in S : \A y \in S : ~ (<<y, x>> \in R)
  BY NatLessThanWellFounded, WFMin
<1>2. ASSUME NEW y \in S PROVE x <= y
  <2>1. x \in Nat /\ y \in Nat /\ <<y, x>> \in Nat \X Nat
    OBVIOUS
  <2>2. y < x => <<y, x>> \in R
    BY <2>1 DEF OpToRel
  <2>. HIDE DEF R
  <2>. QED  BY <1>1, <2>1, <2>2
<1>. QED  BY <1>2 DEF Min

LEMMA GreatestBelow ==
    ASSUME NEW n \in Nat, NEW S, S \subseteq 1..n, S # {}
    PROVE  Max(S) \in S /\ \A y \in S : Max(S) >= y
<1>. DEFINE T == {n - y : y \in S}
<1>1. T \subseteq Nat /\ T # {}
  <2>1. \A y \in S : y \in Nat /\ y <= n
    OBVIOUS
  <2>2. \A y \in S : n - y \in Nat
    BY <2>1
  <2>. QED  BY <2>2
<1>2. PICK x \in S : Min(T) = n - x
  BY <1>1, LeastNat
<1>3. ASSUME NEW y \in S PROVE x >= y
  <2>1. n - y \in T /\ x \in Int /\ y \in Int
    OBVIOUS
  <2>2. n - x <= n - y
    BY <1>1, <1>2, <2>1, LeastNat
  <2>. QED  BY <2>1, <2>2
<1>4. \E m \in S : \A y \in S : m >= y
  BY <1>3
<1>. QED  BY <1>4 DEF Max

LEMMA MinIs ==
    ASSUME NEW S, S \subseteq Nat, NEW m \in S, \A y \in S : m <= y
    PROVE  Min(S) = m
<1>1. \A x \in S : (\A y \in S : x <= y) => x = m
  OBVIOUS
<1>. QED  BY <1>1 DEF Min

LEMMA MaxIs ==
    ASSUME NEW S, S \subseteq Nat, NEW m \in S, \A y \in S : m >= y
    PROVE  Max(S) = m
<1>1. \A x \in S : (\A y \in S : x >= y) => x = m
  OBVIOUS
<1>. QED  BY <1>1 DEF Max

\* A product grows with its factors.
LEMMA ProductsGrow ==
    ASSUME NEW a \in Nat, NEW b \in Nat, a <= b, NEW k \in Nat
    PROVE  a * k \in Nat /\ b * k \in Nat /\ a * k <= b * k
<1>1. (b - a) * k \in Nat /\ b * k = a * k + (b - a) * k /\ a * k \in Nat /\ b * k \in Nat
  OBVIOUS
<1>. QED  BY <1>1

\* FlattenSeq puts the sequences of s together one after the other.
Flattens(flat, s) ==
    flat = [i \in 1..Len(s) |-> IF i = 1 THEN s[i] ELSE flat[i - 1] \o s[i]]

FlattensUpTo(flat, s, n) ==
    \A i \in 1..n : flat[i] = IF i = 1 THEN s[i] ELSE flat[i - 1] \o s[i]

LEMMA FlattenExists ==
    ASSUME NEW T, NEW s \in Seq(Seq(T))
    PROVE  \A n \in 0..Len(s) : \E flat \in [1..n -> Seq(T)] : FlattensUpTo(flat, s, n)
<1>. DEFINE Holds(n) == \E flat \in [1..n -> Seq(T)] : FlattensUpTo(flat, s, n)
            Bad == {n \in 0..Len(s) : ~Holds(n)}
<1>. SUFFICES ASSUME Bad # {} PROVE FALSE
  OBVIOUS
<1>1. Bad \subseteq Nat
  OBVIOUS
<1>. DEFINE n == Min(Bad)
<1>2. n \in Bad /\ \A y \in Bad : n <= y
  BY <1>1, LeastNat
<1>. HIDE DEF n
<1>3. n \in 0..Len(s) /\ ~Holds(n)
  BY <1>2
<1>4. Holds(0)
  <2>1. [i \in 1..0 |-> <<>>] \in [1..0 -> Seq(T)]
    OBVIOUS
  <2>2. \A i \in 1..0 : FALSE
    OBVIOUS
  <2>. QED  BY <2>1, <2>2 DEF FlattensUpTo
<1>5. n # 0 /\ n - 1 \in 0..Len(s) /\ n - 1 \notin Bad
  <2>1. n # 0
    BY <1>3, <1>4
  <2>2. n \in Nat /\ n - 1 \in 0..Len(s) /\ ~(n <= n - 1)
    BY <1>3, <2>1
  <2>. QED  BY <1>2, <2>1, <2>2
<1>6. PICK flat \in [1..n - 1 -> Seq(T)] : FlattensUpTo(flat, s, n - 1)
  BY <1>5
<1>. DEFINE last == IF n = 1 THEN s[n] ELSE flat[n - 1] \o s[n]
            longer == [i \in 1..n |-> IF i = n THEN last ELSE flat[i]]
<1>7. last \in Seq(T)
  <2>1. n \in 1..Len(s) /\ s[n] \in Seq(T)
    BY <1>3, <1>5
  <2>2. n # 1 => flat[n - 1] \in Seq(T)
    BY <1>6, <2>1
  <2>. QED  BY <2>1, <2>2
<1>8. longer \in [1..n -> Seq(T)]
  <2>. HIDE DEF last
  <2>. QED  BY <1>3, <1>6, <1>7
<1>9. ASSUME NEW i \in 1..n
      PROVE  longer[i] = IF i = 1 THEN s[i] ELSE longer[i - 1] \o s[i]
  <2>1. CASE i = n
    <3>1. longer[i] = last /\ (i # 1 => longer[i - 1] = flat[n - 1])
      BY <1>3, <2>1
    <3>. QED  BY <2>1, <3>1
  <2>2. CASE i # n
    <3>1. /\ i \in 1..n - 1 /\ longer[i] = flat[i]
          /\ i # 1 => longer[i - 1] = flat[i - 1]
      <4>. HIDE DEF last
      <4>. QED  BY <1>3, <2>2
    <3>. QED  BY <1>6, <3>1 DEF FlattensUpTo
  <2>. QED  BY <2>1, <2>2
<1>10. Holds(n)
  <2>. HIDE DEF longer
  <2>. QED  BY <1>8, <1>9 DEF FlattensUpTo
<1>. QED  BY <1>3, <1>10

LEMMA FlattenShape ==
    ASSUME NEW T, NEW s \in Seq(Seq(T)), s # <<>>
    PROVE  \E flat \in [1..Len(s) -> Seq(T)] :
             /\ FlattenSeq(s) = flat[Len(s)]
             /\ FlattensUpTo(flat, s, Len(s))
<1>1. Len(s) \in Nat /\ Len(s) # 0
  OBVIOUS
<1>2. \E flat : Flattens(flat, s)
  <2>1. PICK flat \in [1..Len(s) -> Seq(T)] : FlattensUpTo(flat, s, Len(s))
    <3>1. Len(s) \in 0..Len(s)
      BY <1>1
    <3>. QED  BY <3>1, FlattenExists
  <2>2. flat = [i \in 1..Len(s) |-> IF i = 1 THEN s[i] ELSE flat[i - 1] \o s[i]]
    BY <2>1 DEF FlattensUpTo
  <2>. QED  BY <2>2 DEF Flattens
<1>. DEFINE flatten == CHOOSE flat : Flattens(flat, s)
<1>3. FlattenSeq(s) = flatten[Len(s)]
  BY <1>1 DEF FlattenSeq, Flattens
<1>4. Flattens(flatten, s)
  BY <1>2
<1>. HIDE DEF flatten
<1>5. /\ FlattensUpTo(flatten, s, Len(s))
      /\ flatten = [i \in 1..Len(s) |-> flatten[i]]
  BY <1>4 DEF Flattens, FlattensUpTo
<1>6. \A i \in 1..Len(s) : flatten[i] \in Seq(T)
  <2>. DEFINE Bad == {i \in 1..Len(s) : flatten[i] \notin Seq(T)}
  <2>. SUFFICES ASSUME Bad # {} PROVE FALSE
    OBVIOUS
  <2>. DEFINE i == Min(Bad)
  <2>1. Bad \subseteq Nat
    OBVIOUS
  <2>2. i \in Bad /\ \A y \in Bad : i <= y
    BY <2>1, LeastNat
  <2>. HIDE DEF i
  <2>3. i \in 1..Len(s) /\ flatten[i] \notin Seq(T) /\ s[i] \in Seq(T)
    BY <2>2
  <2>4. flatten[i] = IF i = 1 THEN s[i] ELSE flatten[i - 1] \o s[i]
    BY <1>5, <2>3 DEF FlattensUpTo
  <2>5. i # 1
    BY <2>3, <2>4
  <2>6. i - 1 \in 1..Len(s) /\ ~(i <= i - 1)
    BY <2>3, <2>5
  <2>7. flatten[i - 1] \in Seq(T)
    BY <2>2, <2>6
  <2>8. flatten[i - 1] \o s[i] \in Seq(T)
    BY <2>3, <2>7
  <2>. QED  BY <2>3, <2>4, <2>5, <2>8
<1>7. flatten \in [1..Len(s) -> Seq(T)]
  BY <1>5, <1>6
<1>. QED  BY <1>3, <1>5, <1>7

LEMMA FlattenType == ASSUME NEW T, NEW s \in Seq(Seq(T)) PROVE FlattenSeq(s) \in Seq(T)
<1>1. CASE s = <<>>
  BY <1>1 DEF FlattenSeq
<1>2. CASE s # <<>>
  <2>1. PICK flat \in [1..Len(s) -> Seq(T)] : FlattenSeq(s) = flat[Len(s)]
    BY <1>2, FlattenShape
  <2>2. Len(s) \in 1..Len(s)
    BY <1>2
  <2>. QED  BY <2>1, <2>2
<1>. QED  BY <1>1, <1>2

----------------------------------------------------------------------------
(* What travels on a connection.                                           *)

Kinds == {"YES", "NO", "DISCONNECT", "CONTENTS", "rest", "byte"}
Atom == [kind : Kinds, val : Nat, kws : Keywords]
RowSize == MsgSize + 1

LEMMA SizesNat ==
    /\ MsgSize \in Nat /\ MsgSize > 0 /\ RowSize \in Nat /\ RowSize > 1
    /\ MaxFileSize \in Nat
BY SizeAssumption DEF RowSize

LEMMA AtomTypes ==
    /\ \A b \in Nat : Byte(b) \in Atom /\ Byte(b).kind = "byte" /\ Byte(b).val = b
    /\ \A kind \in Kinds : Signal(kind) \in Atom /\ Signal(kind).kind = kind
    /\ \A n \in Nat, list \in Keywords :
         /\ Control("CONTENTS", n, list) \in Atom
         /\ Control("CONTENTS", n, list).kind = "CONTENTS"
         /\ Control("CONTENTS", n, list).val = n /\ Control("CONTENTS", n, list).kws = list
BY IndexAssumption DEF Byte, Signal, Control, Atom, Kinds

\* Part p of a file exists if the parts before it do not hold all its characters.
LEMMA RowsOfShape ==
    ASSUME NEW size \in Nat
    PROVE  /\ RowsOf(size) \in Nat
           /\ \A p \in Nat : p > 0 => (p <= RowsOf(size) <=> (p - 1) * MsgSize < size)
           /\ RowsOf(0) = 0
<1>. DEFINE R == RowsOf(size)
<1>1. R \in Nat /\ R * MsgSize <= size + MsgSize - 1 /\ size + MsgSize - 1 < (R + 1) * MsgSize
  BY SizesNat DEF RowsOf
<1>2. ASSUME NEW p \in Nat, p > 0
      PROVE  p <= R <=> (p - 1) * MsgSize < size
  <2>. HIDE DEF R
  <2>1. (R + 1) * MsgSize = R * MsgSize + MsgSize /\ R * MsgSize \in Nat
    BY <1>1, SizesNat
  <2>2. p * MsgSize = (p - 1) * MsgSize + MsgSize /\ (p - 1) * MsgSize \in Nat
    <3>1. p - 1 \in Nat /\ p = (p - 1) + 1
      BY <1>2
    <3>. QED  BY <3>1, SizesNat
  <2>3. CASE p <= R
    <3>1. p * MsgSize <= R * MsgSize
      BY <1>1, <2>3, ProductsGrow, SizesNat
    <3>. QED  BY <1>1, <2>1, <2>2, <2>3, <3>1, SizesNat
  <2>4. CASE ~(p <= R)
    <3>1. R \in Nat /\ p - 1 \in Nat /\ R <= p - 1
      BY <1>1, <1>2, <2>4
    <3>2. R * MsgSize <= (p - 1) * MsgSize
      BY <3>1, ProductsGrow, SizesNat
    <3>. QED  BY <1>1, <2>1, <2>2, <2>4, <3>2, SizesNat
  <2>. QED  BY <2>3, <2>4
<1>3. RowsOf(0) = 0
  BY SizesNat DEF RowsOf
<1>. QED  BY <1>1, <1>2, <1>3

LEMMA PartsOfBound ==
    ASSUME NEW size \in Nat, size <= MaxFileSize
    PROVE  PartsOf(size) \in Nat /\ PartsOf(size) <= MaxFileSize
<1>1. size \div MsgSize \in Nat /\ size \div MsgSize <= size
  BY SizesNat
<1>. QED  BY <1>1, SizesNat DEF PartsOf

Bytes == {Byte(b) : b \in Nat}

LEMMA BytesAre == Bytes \subseteq Atom /\ \A b \in Bytes : b.kind = "byte"
BY AtomTypes DEF Bytes

LEMMA PartType ==
    ASSUME NEW content \in Seq(Nat), NEW i \in Nat, i > 0
    PROVE  Part(content, i) \in Seq(Bytes) /\ Len(Part(content, i)) = RowSize
<1>. DEFINE at(j) == LET p == (i - 1) * MsgSize + j - 1 IN
                     IF j = 1 THEN Byte(i)
                     ELSE IF p <= Len(content) THEN Byte(content[p]) ELSE Byte(0)
<1>1. ASSUME NEW j \in 1..RowSize PROVE at(j) \in Bytes
  <2>. DEFINE p == (i - 1) * MsgSize + j - 1
  <2>1. (i - 1) * MsgSize \in Nat
    <3>1. i - 1 \in Nat
      OBVIOUS
    <3>. QED  BY <3>1, SizesNat
  <2>2. j # 1 => p \in Nat /\ p > 0
    BY <2>1, SizesNat
  <2>. HIDE DEF p
  <2>3. j # 1 /\ p <= Len(content) => content[p] \in Nat
    BY <2>2
  <2>4. at(j) = IF j = 1 THEN Byte(i)
                ELSE IF p <= Len(content) THEN Byte(content[p]) ELSE Byte(0)
    BY DEF p
  <2>. QED  BY <2>3, <2>4 DEF Bytes
<1>2. Part(content, i) = [j \in 1..RowSize |-> at(j)]
  BY DEF Part, RowSize
<1>. HIDE DEF at
<1>. QED  BY <1>1, <1>2, SizesNat

LEMMA SentTypes ==
    /\ \A content \in Seq(Nat) : PartsSent(content) \in Seq(Bytes)
    /\ EmptySent \subseteq Seq(Bytes)
<1>1. ASSUME NEW content \in Seq(Nat) PROVE PartsSent(content) \in Seq(Bytes)
  <2>. DEFINE R == RowsOf(Len(content))
  <2>1. R \in Nat
    BY RowsOfShape
  <2>. HIDE DEF R
  <2>2. [i \in 1..R |-> Part(content, i)] \in Seq(Seq(Bytes))
    BY <2>1, PartType
  <2>3. PartsSent(content) = FlattenSeq([i \in 1..R |-> Part(content, i)])
    BY DEF PartsSent, R
  <2>. QED  BY <2>2, <2>3, FlattenType
<1>2. Byte(0) \in Bytes
  BY DEF Bytes
<1>3. [j \in 1..RowSize |-> Byte(0)] \in Seq(Bytes)
  BY <1>2, SizesNat
<1>. QED  BY <1>1, <1>3 DEF EmptySent, RowSize

\* Chars yields the characters of a message up to its first 0.
LEMMA CharsShape ==
    ASSUME NEW bytes \in Seq(Atom), Len(bytes) > 0
    PROVE  /\ Chars(bytes) \in Seq(Nat) /\ Len(Chars(bytes)) <= Len(bytes) - 1
           /\ \A j \in 1..Len(Chars(bytes)) :
                Chars(bytes)[j] = bytes[j + 1].val /\ Chars(bytes)[j] # 0
           /\ Len(Chars(bytes)) < Len(bytes) - 1 => bytes[Len(Chars(bytes)) + 2].val = 0
<1>. DEFINE row == [i \in 1..Len(bytes) - 1 |-> bytes[i + 1].val]
            zeros == {i \in 1..Len(row) : row[i] = 0}
            ends == {i - 1 : i \in zeros} \cup {Len(row)}
            n == Min(ends)
<1>1. row \in Seq(Nat) /\ Len(row) = Len(bytes) - 1 /\ Len(row) \in Nat
  <2>1. ASSUME NEW i \in 1..Len(bytes) - 1 PROVE bytes[i + 1].val \in Nat
    <3>1. i + 1 \in 1..Len(bytes)
      OBVIOUS
    <3>2. bytes[i + 1] \in Atom
      BY <3>1
    <3>. QED  BY <3>2 DEF Atom
  <2>. QED  BY <2>1
<1>2. \A i \in 1..Len(row) : row[i] = bytes[i + 1].val
  BY <1>1
<1>3. Chars(bytes) = SubSeq(row, 1, n)
  BY DEF Chars
<1>. HIDE DEF row
<1>4. zeros \subseteq 1..Len(row) /\ \A i \in 1..Len(row) : row[i] = 0 => i \in zeros
  OBVIOUS
<1>4a. \A i \in zeros : row[i] = 0
  OBVIOUS
<1>. HIDE DEF zeros
<1>5. ends \subseteq Nat /\ ends # {} /\ \A e \in ends : e <= Len(row)
  BY <1>1, <1>4
<1>6. n \in ends /\ \A e \in ends : n <= e
  BY <1>5, LeastNat
<1>7. \A i \in zeros : n <= i - 1
  BY <1>6
<1>8. n < Len(row) => n + 1 \in zeros
  <2>1. n = Len(row) \/ \E i \in zeros : n = i - 1
    BY <1>6
  <2>. QED  BY <1>1, <1>4, <2>1
<1>. HIDE DEF n, ends
<1>9. n \in Nat /\ n <= Len(row)
  BY <1>5, <1>6
<1>10. SubSeq(row, 1, n) \in Seq(Nat) /\ Len(SubSeq(row, 1, n)) = n
       /\ \A j \in 1..n : SubSeq(row, 1, n)[j] = row[j]
  BY <1>1, <1>9
<1>11. ASSUME NEW j \in 1..n PROVE row[j] = bytes[j + 1].val /\ row[j] # 0
  <2>1. j \in 1..Len(row)
    BY <1>1, <1>9
  <2>2. row[j] # 0
    <3>1. j \in zeros => n <= j - 1
      BY <1>7
    <3>. QED  BY <1>4, <1>9, <2>1, <3>1
  <2>. QED  BY <1>2, <2>1, <2>2
<1>12. n < Len(row) => bytes[n + 2].val = 0
  <2>1. n < Len(row) => n + 1 \in 1..Len(row) /\ row[n + 1] = 0 /\ n + 1 + 1 = n + 2
    BY <1>1, <1>4a, <1>8, <1>9
  <2>. QED  BY <1>2, <2>1
<1>. QED  BY <1>1, <1>3, <1>9, <1>10, <1>11, <1>12

----------------------------------------------------------------------------
(* Types.  A connection is described by one record; what it asks for does not *)
(* disappear from the peer's disk.                                          *)

Download == [node : Node, peer : Node, file : File]

\* What a connection and its two ends may be before and after it is used.
Used(c) ==
    /\ pc[c] # "unused" => req[c] \in Download
    /\ pc[c] = "unused" =>
         /\ handler[c] = "none" /\ link[c] = "none"
         /\ up[c] = <<>> /\ down[c] = <<>> /\ parts[c] = 0
    /\ pc[c] \in {"unused", "control", "open"} => rows[c] = <<>>
    /\ rows[c] # <<>> => DOMAIN rows[c] = 1..parts[c]
    /\ pc[c] \in {"receive", "write", "record"} => DOMAIN rows[c] = 1..parts[c]

\* The handler says that it has the file before it reads it.
Promised(c) ==
    \/ handler[c] = "sending"
    \/ \E i \in 1..Len(up[c]) : up[c][i] = "FILE-CONTENTS-REQ"
    \/ \E i \in 1..Len(down[c]) : down[c][i].kind = "YES"

Found(c) == Promised(c) => Requested(c) # NoEntry

TypeInv == TypeOK /\ \A c \in Conn : Used(c) /\ Found(c)

(* Keywords.                                                               *)

\* The first holders, or reads that cut it or glued bytes to it, say the list of f.
Said(f, list) ==
    \/ list = NoKeywords
    \/ \E m \in Node : list = Index0[m][f]
    \/ list \in {Garbage, Truncated} /\ MayBeSpoilt(f)

Entered(n) == \A f \in File : index[n][f] # NoEntry => Said(f, index[n][f])

Carried(c) ==
    /\ pc[c] = "unused" => kws[c] = NoKeywords
    /\ pc[c] # "unused" => Said(req[c].file, kws[c])
    /\ \A i \in 1..Len(down[c]) :
         down[c][i].kind = "CONTENTS" => Said(req[c].file, down[c][i].kws)

Written(n) == \A i \in DOMAIN lines[n] :
                 lines[n][i] # EmptyLine => Said(lines[n][i].file, lines[n][i].kws)

KeywordsInv ==
    /\ \A n \in Node : Entered(n) /\ Written(n)
    /\ \A c \in Conn : Carried(c)

(* Types hold.                                                             *)

Request == {"FILE-REQ", "FILE-CONTENTS-REQ", "DISCONNECT"}
Place == {"unused", "control", "open", "receive", "write", "record", "done", "killed"}
Link == {"none", "up", "refused", "reset", "dead"}
Stage == {"none", "reading", "sending", "ended", "killed"}
IndexLine == [file : File, kws : Keywords] \cup {EmptyLine}

\* TypeOK, by the names of these sets.
Typed ==
    /\ req \in [Conn -> Download \cup {NoEntry}]
    /\ pc \in [Conn -> Place] /\ link \in [Conn -> Link]
    /\ parts \in [Conn -> Nat] /\ announced \in [Conn -> Nat]
    /\ kws \in [Conn -> Keywords] /\ rows \in [Conn -> Seq(Seq(Nat))]
    /\ handler \in [Conn -> Stage] /\ sent \in [Conn -> Seq(Nat)]
    /\ up \in [Conn -> Seq(Request)] /\ down \in [Conn -> Seq(Atom)]
    /\ disk \in [Node -> [File -> Seq(Nat) \cup {NoEntry}]]
    /\ index \in [Node -> [File -> Keywords \cup {NoEntry}]]
    /\ lines \in [Node -> Seq(IndexLine)]
    /\ running \in [Node -> BOOLEAN]

Same(c) ==
    /\ req'[c] = req[c] /\ pc'[c] = pc[c] /\ link'[c] = link[c] /\ parts'[c] = parts[c]
    /\ kws'[c] = kws[c] /\ rows'[c] = rows[c] /\ handler'[c] = handler[c]
    /\ announced'[c] = announced[c] /\ sent'[c] = sent[c]
    /\ up'[c] = up[c] /\ down'[c] = down[c]

KeepsFiles == \A n \in Node, f \in File : disk[n][f] # NoEntry => disk'[n][f] # NoEntry

Alone(c) == \A d \in Conn \ {c} : Same(d)

\* What a step of connection c does to the types.
KeepsTypes(c) == Typed' /\ Alone(c) /\ KeepsFiles /\ Used(c)' /\ Found(c)'

LEMMA TailShape ==
    ASSUME NEW T, NEW s \in Seq(T), s # <<>>
    PROVE  /\ Head(s) \in T /\ Tail(s) \in Seq(T) /\ 1 \in 1..Len(s) /\ Head(s) = s[1]
           /\ Len(Tail(s)) = Len(s) - 1
           /\ \A i \in 1..Len(Tail(s)) : i + 1 \in 1..Len(s) /\ Tail(s)[i] = s[i + 1]
OBVIOUS

\* What is left when k elements were read.
LEMMA RestShape ==
    ASSUME NEW T, NEW s \in Seq(T), NEW k \in 0..Len(s)
    PROVE  /\ SubSeq(s, k + 1, Len(s)) \in Seq(T)
           /\ Len(SubSeq(s, k + 1, Len(s))) = Len(s) - k
           /\ \A i \in 1..Len(s) - k :
                i + k \in 1..Len(s) /\ SubSeq(s, k + 1, Len(s))[i] = s[i + k]
<1>1. \A i \in k + 1..Len(s) : s[i] \in T
  OBVIOUS
<1>. QED  BY <1>1

SentUp(c, message) == IF link[c] = "up" THEN Append(up[c], message) ELSE up[c]

LEMMA SentUpType ==
    ASSUME Typed, NEW c \in Conn, NEW message \in Request
    PROVE  SentUp(c, message) \in Seq(Request)
BY DEF Typed, SentUp

LEMMA SendDownType ==
    ASSUME Typed, NEW c \in Conn, NEW atoms \in Seq(Atom)
    PROVE  /\ SendDown(c, atoms) \in Seq(Atom)
           /\ \A i \in 1..Len(SendDown(c, atoms)) :
                \/ i \in 1..Len(down[c]) /\ SendDown(c, atoms)[i] = down[c][i]
                \/ /\ i - Len(down[c]) \in 1..Len(atoms)
                   /\ SendDown(c, atoms)[i] = atoms[i - Len(down[c])]
BY DEF Typed, SendDown

LEMMA TypedIs ==
    TypeOK <=> Typed /\ \A c \in Conn : rows[c] # <<>> => DOMAIN rows[c] = 1..parts[c]
BY DEF TypeOK, Typed, Download, Place, Link, Stage, Request, Atom, Kinds, IndexLine

LEMMA GluedShape ==
    ASSUME Typed, NEW c \in Conn, down[c] # <<>>, NEW k \in Glued(c)
    PROVE  k \in 0..Len(down[c]) - 1 /\ k < MsgSize /\ (req[c].node \notin AnyReads => k = 0)
<1>. DEFINE two == {MsgSize - 1, Len(down[c]) - 1}
<1>1. two \subseteq Nat /\ two # {}
  BY SizesNat DEF Typed
<1>2. Min(two) \in two /\ \A y \in two : Min(two) <= y
  BY <1>1, LeastNat
<1>3. Min(two) \in Nat /\ Min(two) <= MsgSize - 1 /\ Min(two) <= Len(down[c]) - 1
  BY <1>1, <1>2
<1>4. k \in 0..Min(two) /\ (req[c].node \notin AnyReads => k = 0)
  BY <1>3 DEF Glued
<1>. HIDE DEF two
<1>. QED  BY <1>3, <1>4, SizesNat DEF Typed

LEMMA LengthsShape ==
    ASSUME Typed, NEW c \in Conn, down[c] # <<>>, NEW k \in ReadLengths(c)
    PROVE  /\ k \in 1..Len(down[c]) /\ k <= RowSize
           /\ req[c].node \notin AnyReads => k = RowSize \/ k = Len(down[c])
<1>. DEFINE two == {MsgSize + 1, Len(down[c])}
            most == Min(two)
<1>1. two \subseteq Nat /\ two # {}
  BY SizesNat DEF Typed
<1>2. most \in two /\ \A y \in two : most <= y
  BY <1>1, LeastNat
<1>3. most \in Nat /\ most <= RowSize /\ most <= Len(down[c])
  BY <1>1, <1>2 DEF RowSize
<1>4. most = RowSize \/ most = Len(down[c])
  BY <1>2 DEF RowSize
<1>5. Len(down[c]) \in Nat /\ Len(down[c]) > 0
  BY DEF Typed
<1>6. most > 0
  BY <1>4, <1>5, SizesNat
<1>7. k \in IF req[c].node \in AnyReads THEN 1..most ELSE {most}
  BY DEF ReadLengths
<1>. HIDE DEF most
<1>8. CASE req[c].node \in AnyReads
  BY <1>3, <1>5, <1>6, <1>7, <1>8, SizesNat
<1>9. CASE req[c].node \notin AnyReads
  BY <1>3, <1>4, <1>5, <1>6, <1>7, <1>9, SizesNat
<1>. QED  BY <1>8, <1>9

LEMMA SingleShape ==
    ASSUME NEW T, NEW x \in T
    PROVE  <<x>> \in Seq(T) /\ Len(<<x>>) = 1 /\ \A i \in 1..Len(<<x>>) : <<x>>[i] = x
OBVIOUS

LEMMA AtomFields ==
    \A atom \in Atom : atom.val \in Nat /\ atom.kws \in Keywords /\ atom.kind \in Kinds
BY DEF Atom

LEMMA SignalShape ==
    ASSUME NEW kind \in Kinds
    PROVE  /\ <<Signal(kind)>> \in Seq(Atom) /\ Len(<<Signal(kind)>>) = 1
           /\ \A i \in 1..Len(<<Signal(kind)>>) : <<Signal(kind)>>[i].kind = kind
<1>1. Signal(kind) \in Atom /\ Signal(kind).kind = kind
  BY AtomTypes
<1>. HIDE DEF Signal
<1>. QED  BY <1>1, SingleShape

\* What Overwrite leaves of a row, and how long it is then.
LEMMA OverwriteShape ==
    ASSUME NEW T, NEW row \in Seq(T), NEW s \in Seq(T)
    PROVE  /\ Overwrite(row, s) \in Seq(T)
           /\ Len(s) >= Len(row) => Overwrite(row, s) = s
           /\ Len(s) < Len(row) => Len(Overwrite(row, s)) = Len(row)
           /\ \A j \in 1..Len(s) : Overwrite(row, s)[j] = s[j]
           /\ \A j \in Len(s) + 1..Len(row) : Overwrite(row, s)[j] = row[j]
<1>. DEFINE old == SubSeq(row, Len(s) + 1, Len(row))
<1>1. CASE Len(s) >= Len(row)
  <2>1. old = <<>>
    BY <1>1
  <2>. HIDE DEF old
  <2>2. s \o old = s
    BY <2>1
  <2>. QED  BY <1>1, <2>2 DEF Overwrite, old
<1>2. CASE Len(s) < Len(row)
  <2>1. Len(s) \in 0..Len(row)
    BY <1>2
  <2>2. /\ old \in Seq(T) /\ Len(old) = Len(row) - Len(s)
        /\ \A i \in 1..Len(row) - Len(s) : old[i] = row[i + Len(s)]
    BY <2>1, RestShape
  <2>. HIDE DEF old
  <2>3. /\ s \o old \in Seq(T) /\ Len(s \o old) = Len(row)
        /\ \A j \in 1..Len(s) : (s \o old)[j] = s[j]
    BY <1>2, <2>2
  <2>4. ASSUME NEW j \in Len(s) + 1..Len(row) PROVE (s \o old)[j] = row[j]
    <3>1. j - Len(s) \in 1..Len(row) - Len(s) /\ (j - Len(s)) + Len(s) = j
      OBVIOUS
    <3>2. (s \o old)[j] = old[j - Len(s)]
      BY <1>2, <2>2, <3>1
    <3>. QED  BY <2>2, <3>1, <3>2
  <2>. QED  BY <1>2, <2>3, <2>4 DEF Overwrite, old
<1>. QED  BY <1>1, <1>2

LEMMA FoundKept ==
    ASSUME NEW c \in Conn, Used(c), Found(c), req'[c] = req[c], KeepsFiles,
           Promised(c)' => Promised(c)
    PROVE  Found(c)'
<1>1. Promised(c) => req[c] \in Download
  BY DEF Promised, Used
<1>. QED  BY <1>1 DEF Found, Requested, KeepsFiles, Download

LEMMA TypeFrame ==
    ASSUME TypeInv, NEW c \in Conn, KeepsTypes(c)
    PROVE  TypeInv'
<1>1. ASSUME NEW d \in Conn, d # c PROVE Used(d)' /\ Found(d)'
  <2>1. Used(d) /\ Found(d) /\ Same(d) /\ KeepsFiles
    BY <1>1 DEF TypeInv, KeepsTypes, Alone
  <2>2. Used(d)'
    BY <2>1 DEF Used, Same
  <2>3. Promised(d)' => Promised(d)
    BY <2>1 DEF Promised, Same
  <2>4. Found(d)'
    BY <2>1, <2>3, FoundKept DEF Same
  <2>. QED  BY <2>2, <2>4
<1>2. Used(c)' /\ Found(c)' /\ Typed'
  BY DEF KeepsTypes
<1>3. TypeOK'
  <2>1. (\A d \in Conn : rows[d] # <<>> => DOMAIN rows[d] = 1..parts[d])'
    BY <1>1, <1>2 DEF Used
  <2>. QED  BY <1>2, <2>1
            DEF TypeOK, Typed, Download, Place, Link, Stage, Request, Atom, Kinds, IndexLine
<1>4. \A d \in Conn : (Used(d) /\ Found(d))'
  BY <1>1, <1>2
<1>. QED  BY <1>3, <1>4 DEF TypeInv

LEMMA ConnectTypes ==
    ASSUME Typed, NEW c \in Conn, NEW n \in Node, NEW m \in Node, NEW f \in File, Used(c), Found(c), Connect(c, n, m, f)
    PROVE  KeepsTypes(c)
<1>1. /\ pc[c] = "unused"
      /\ req' = [req EXCEPT ![c] = [node |-> n, peer |-> m, file |-> f]]
      /\ pc' = [pc EXCEPT ![c] = "control"]
      /\ link' = [link EXCEPT ![c] = "up"]
      /\ up' = [up EXCEPT ![c] = <<"FILE-REQ">>]
      /\ UNCHANGED <<parts, announced, kws, rows, handler, sent, down, disk, index, lines, running>>
  BY DEF Opens, Connect, client, server, process
<1>2. [node |-> n, peer |-> m, file |-> f] \in Download \cup {NoEntry}
  BY <1>1 DEF Typed, Download
<1>3. "control" \in Place
  BY <1>1 DEF Typed, Place
<1>4. "up" \in Link
  BY <1>1 DEF Typed, Link
<1>5. <<"FILE-REQ">> \in Seq(Request)
  BY <1>1 DEF Typed, Request
<1>6. Typed'
  <2>1. req' \in [Conn -> Download \cup {NoEntry}]
    BY <1>1, <1>2 DEF Typed
  <2>2. pc' \in [Conn -> Place]
    BY <1>1, <1>3 DEF Typed
  <2>3. link' \in [Conn -> Link]
    BY <1>1, <1>4 DEF Typed
  <2>4. up' \in [Conn -> Seq(Request)]
    BY <1>1, <1>5 DEF Typed
  <2>. QED  BY <1>1, <2>1, <2>2, <2>3, <2>4, Zenon DEF Typed
<1>7. /\ req'[c] = [node |-> n, peer |-> m, file |-> f]
      /\ pc'[c] = "control"
      /\ link'[c] = "up"
      /\ up'[c] = <<"FILE-REQ">>
  BY <1>1 DEF Typed
<1>8. Alone(c)
  BY <1>1 DEF Typed, Alone, Same
<1>9. KeepsFiles
  BY <1>1 DEF KeepsFiles
<1>10. Used(c)'
  <2>1. [node |-> n, peer |-> m, file |-> f] \in Download
    BY DEF Download
  <2>. QED  BY <1>1, <1>7, <2>1 DEF Used
<1>11. Found(c)'
  <2>1. handler[c] # "sending" /\ down[c] = <<>> /\ Len(down[c]) = 0
    BY <1>1 DEF Used
  <2>2. \A i \in 1..Len(<<"FILE-REQ">>) : <<"FILE-REQ">>[i] = "FILE-REQ"
    OBVIOUS
  <2>. QED  BY <1>1, <1>7, <2>1, <2>2 DEF Found, Promised
<1>. QED  BY <1>6, <1>8, <1>9, <1>10, <1>11 DEF KeepsTypes

LEMMA RefusedTypes ==
    ASSUME Typed, NEW c \in Conn, NEW n \in Node, NEW m \in Node, NEW f \in File, Used(c), Found(c), Refused(c, n, m, f)
    PROVE  KeepsTypes(c)
<1>1. /\ pc[c] = "unused"
      /\ req' = [req EXCEPT ![c] = [node |-> n, peer |-> m, file |-> f]]
      /\ pc' = [pc EXCEPT ![c] = "open"]
      /\ link' = [link EXCEPT ![c] = "refused"]
      /\ UNCHANGED <<parts, announced, kws, rows, handler, sent, up, down, disk, index, lines, running>>
  BY DEF Opens, Refused, client, server, process
<1>2. [node |-> n, peer |-> m, file |-> f] \in Download \cup {NoEntry}
  BY <1>1 DEF Typed, Download
<1>3. "open" \in Place
  BY <1>1 DEF Typed, Place
<1>4. "refused" \in Link
  BY <1>1 DEF Typed, Link
<1>5. Typed'
  <2>1. req' \in [Conn -> Download \cup {NoEntry}]
    BY <1>1, <1>2 DEF Typed
  <2>2. pc' \in [Conn -> Place]
    BY <1>1, <1>3 DEF Typed
  <2>3. link' \in [Conn -> Link]
    BY <1>1, <1>4 DEF Typed
  <2>. QED  BY <1>1, <2>1, <2>2, <2>3, Zenon DEF Typed
<1>6. /\ req'[c] = [node |-> n, peer |-> m, file |-> f]
      /\ pc'[c] = "open"
      /\ link'[c] = "refused"
  BY <1>1 DEF Typed
<1>7. Alone(c)
  BY <1>1 DEF Typed, Alone, Same
<1>8. KeepsFiles
  BY <1>1 DEF KeepsFiles
<1>9. Used(c)'
  <2>1. [node |-> n, peer |-> m, file |-> f] \in Download
    BY DEF Download
  <2>. QED  BY <1>1, <1>6, <2>1 DEF Used
<1>10. Found(c)'
  <2>1. handler[c] # "sending" /\ Len(down[c]) = 0 /\ Len(up[c]) = 0
    BY <1>1 DEF Used
  <2>. QED  BY <1>1, <1>6, <2>1 DEF Found, Promised
<1>. QED  BY <1>5, <1>7, <1>8, <1>9, <1>10 DEF KeepsTypes

LEMMA ReadYesTypes ==
    ASSUME Typed, NEW c \in Conn, Used(c), Found(c), ReadYes(c)
    PROVE  KeepsTypes(c)
<1>1. /\ pc[c] = "control"
      /\ down[c] # <<>>
      /\ Head(down[c]).kind = "YES"
      /\ down' = [down EXCEPT ![c] = Tail(down[c])]
      /\ up' = [up EXCEPT ![c] = SentUp(c, "FILE-CONTENTS-REQ")]
      /\ UNCHANGED <<req, pc, link, parts, announced, kws, rows, handler, sent, disk, index, lines, running>>
  BY DEF Reads, SendUp, SentUp, Typed, ReadYes, client, server, process
<1>2. Tail(down[c]) \in Seq(Atom)
  BY <1>1, TailShape DEF Typed
<1>3. SentUp(c, "FILE-CONTENTS-REQ") \in Seq(Request)
  BY SentUpType DEF Request
<1>4. Typed'
  <2>1. down' \in [Conn -> Seq(Atom)]
    BY <1>1, <1>2 DEF Typed
  <2>2. up' \in [Conn -> Seq(Request)]
    BY <1>1, <1>3 DEF Typed
  <2>. QED  BY <1>1, <2>1, <2>2, Zenon DEF Typed
<1>5. /\ down'[c] = Tail(down[c])
      /\ up'[c] = SentUp(c, "FILE-CONTENTS-REQ")
  BY <1>1 DEF Typed
<1>6. Alone(c)
  BY <1>1 DEF Typed, Alone, Same
<1>7. KeepsFiles
  BY <1>1 DEF KeepsFiles
<1>8. Used(c)'
  BY <1>1, <1>5 DEF Used
<1>9. Found(c)'
  <2>1. down[c][1].kind = "YES" /\ 1 \in 1..Len(down[c]) /\ req[c] \in Download
    BY <1>1, TailShape DEF Typed, Used
  <2>2. Requested(c) # NoEntry
    BY <2>1 DEF Found, Promised
  <2>. QED  BY <1>1, <2>2 DEF Found, Requested
<1>. QED  BY <1>4, <1>6, <1>7, <1>8, <1>9 DEF KeepsTypes

LEMMA ReadContentsTypes ==
    ASSUME Typed, NEW c \in Conn, Used(c), Found(c), ReadContents(c)
    PROVE  KeepsTypes(c)
<1>. PICK k \in Glued(c) :
       /\ kws' = [kws EXCEPT ![c] = IF k = 0 THEN Head(down[c]).kws ELSE Garbage]
       /\ down' = [down EXCEPT ![c] = SubSeq(@, k + 2, Len(@))]
  BY DEF ReadContents
<1>. DEFINE list == IF k = 0 THEN Head(down[c]).kws ELSE Garbage
<1>0. k \in 0..Len(down[c]) - 1 /\ k + 1 \in 0..Len(down[c]) /\ (k + 1) + 1 = k + 2
  <2>1. down[c] # <<>> /\ Len(down[c]) \in Nat
    BY DEF ReadContents, Reads, Typed
  <2>2. k \in 0..Len(down[c]) - 1
    BY <2>1, GluedShape
  <2>. QED  BY <2>1, <2>2
<1>1. /\ pc[c] = "control"
      /\ down[c] # <<>>
      /\ kws' = [kws EXCEPT ![c] = list]
      /\ down' = [down EXCEPT ![c] = SubSeq(down[c], k + 2, Len(down[c]))]
      /\ parts' = [parts EXCEPT ![c] = Head(down[c]).val]
      /\ pc' = [pc EXCEPT ![c] = "open"]
      /\ UNCHANGED <<req, link, announced, rows, handler, sent, up, disk, index, lines, running>>
  BY DEF Reads, ReadContents, client, server, process
<1>2. list \in Keywords
  <2>1. Head(down[c]) \in Atom
    BY <1>1, TailShape DEF Typed
  <2>2. Head(down[c]).kws \in Keywords /\ Garbage \in Keywords
    BY <2>1, AtomFields, IndexAssumption
  <2>. QED  BY <2>2
<1>3. SubSeq(down[c], k + 2, Len(down[c])) \in Seq(Atom)
  BY <1>0, RestShape DEF Typed
<1>4. Head(down[c]).val \in Nat
  <2>1. Head(down[c]) \in Atom
    BY <1>1, TailShape DEF Typed
  <2>. QED  BY <2>1, AtomFields
<1>5. "open" \in Place
  BY <1>1 DEF Typed, Place
<1>6. Typed'
  <2>1. kws' \in [Conn -> Keywords]
    BY <1>1, <1>2 DEF Typed
  <2>2. down' \in [Conn -> Seq(Atom)]
    BY <1>1, <1>3 DEF Typed
  <2>3. parts' \in [Conn -> Nat]
    BY <1>1, <1>4 DEF Typed
  <2>4. pc' \in [Conn -> Place]
    BY <1>1, <1>5 DEF Typed
  <2>. QED  BY <1>1, <2>1, <2>2, <2>3, <2>4, Zenon DEF Typed
<1>7. /\ kws'[c] = list
      /\ down'[c] = SubSeq(down[c], k + 2, Len(down[c]))
      /\ parts'[c] = Head(down[c]).val
      /\ pc'[c] = "open"
  BY <1>1 DEF Typed
<1>8. Alone(c)
  BY <1>1 DEF Typed, Alone, Same
<1>9. KeepsFiles
  BY <1>1 DEF KeepsFiles
<1>10. Used(c)'
  BY <1>1, <1>7 DEF Used
<1>11. Promised(c)' => Promised(c)
  <2>1. \A i \in 1..Len(down'[c]) : \E j \in 1..Len(down[c]) : down'[c][i] = down[c][j]
    BY <1>0, <1>7, RestShape DEF Typed
  <2>. QED  BY <1>1, <1>7, <2>1 DEF Promised
<1>12. Found(c)'
  BY <1>1, <1>9, <1>11, FoundKept
<1>. QED  BY <1>6, <1>8, <1>9, <1>10, <1>12 DEF KeepsTypes

LEMMA ConcatShape ==
    ASSUME NEW T, NEW s \in Seq(T), NEW t \in Seq(T)
    PROVE  /\ s \o t \in Seq(T) /\ Len(s \o t) = Len(s) + Len(t)
           /\ \A i \in 1..Len(s) : (s \o t)[i] = s[i] /\ i \in 1..Len(s \o t)
           /\ \A j \in 1..Len(t) :
                (s \o t)[Len(s) + j] = t[j] /\ Len(s) + j \in 1..Len(s \o t)
OBVIOUS

LEMMA CutReads ==
    ASSUME Typed, NEW c \in Conn, ReadContentsCut(c)
    PROVE  /\ pc[c] = "control" /\ pc'[c] = "open"
           /\ down[c] # <<>> /\ Head(down[c]).kind = "CONTENTS"
           /\ Head(down[c]).kws \in Keywords /\ Head(down[c]).kws # NoKeywords
           /\ req[c].node \in AnyReads \/ TooLong(Head(down[c]).kws)
           /\ kws'[c] \in {NoKeywords, Garbage, Truncated}
           /\ parts'[c] = Head(down[c]).val
           /\ down'[c] # <<>> /\ Head(down'[c]).val = 0
           /\ Len(down'[c]) = Len(down[c])
           /\ down'[c][1].kind = "rest"
           /\ \A i \in 1..Len(down'[c]) :
                i # 1 => i \in 1..Len(down[c]) /\ down'[c][i] = down[c][i]
           /\ UNCHANGED <<req, rows, handler, announced, sent, up, link, disk, index, lines>>
           /\ Typed' /\ Alone(c)
<1>. DEFINE h == Head(down[c])
            t == Tail(down[c])
            first == <<Signal("rest")>>
            left == first \o t
<1>1. PICK list \in Shortened(h.kws) : kws' = [kws EXCEPT ![c] = list]
  BY DEF ReadContentsCut
<1>2. /\ pc[c] = "control" /\ down[c] # <<>> /\ h.kind = "CONTENTS" /\ h.kws # NoKeywords
      /\ req[c].node \in AnyReads \/ TooLong(h.kws)
      /\ down' = [down EXCEPT ![c] = left]
      /\ parts' = [parts EXCEPT ![c] = h.val]
      /\ pc' = [pc EXCEPT ![c] = "open"]
      /\ UNCHANGED <<req, link, announced, rows, handler, sent, up, disk, index, lines, running>>
  BY DEF Reads, ReadContentsCut, client, server, process
<1>3. h \in Atom /\ t \in Seq(Atom) /\ Len(t) = Len(down[c]) - 1 /\ Len(down[c]) \in Nat
      /\ \A i \in 1..Len(t) : i + 1 \in 1..Len(down[c]) /\ t[i] = down[c][i + 1]
  BY <1>2, TailShape DEF Typed
<1>4. h.val \in Nat /\ h.kws \in Keywords
  BY <1>3, AtomFields
<1>5. list \in {NoKeywords, Garbage, Truncated} /\ list \in Keywords
  BY IndexAssumption DEF Shortened
<1>6. Signal("rest") \in Atom /\ Signal("rest").kind = "rest" /\ Signal("rest").val = 0
  <2>1. "rest" \in Kinds
    BY DEF Kinds
  <2>2. Signal("rest").val = 0
    BY DEF Signal, Control
  <2>. QED  BY <2>1, <2>2, AtomTypes
<1>7. first \in Seq(Atom) /\ Len(first) = 1 /\ first[1] = Signal("rest")
  <2>. HIDE DEF Signal
  <2>. QED  BY <1>6
<1>. HIDE DEF first, t, h
<1>8. /\ left \in Seq(Atom) /\ Len(left) = Len(first) + Len(t)
      /\ \A i \in 1..Len(first) : left[i] = first[i]
      /\ \A j \in 1..Len(t) : left[Len(first) + j] = t[j]
  <2>1. first \in Seq(Atom) /\ t \in Seq(Atom)
    BY <1>3, <1>7
  <2>2. \A s1, s2 \in Seq(Atom) :
          /\ s1 \o s2 \in Seq(Atom) /\ Len(s1 \o s2) = Len(s1) + Len(s2)
          /\ \A i \in 1..Len(s1) : (s1 \o s2)[i] = s1[i]
          /\ \A j \in 1..Len(s2) : (s1 \o s2)[Len(s1) + j] = s2[j]
    BY ConcatShape
  <2>. QED  BY <2>1, <2>2, Zenon
<1>. HIDE DEF left
<1>9. Len(left) = Len(down[c]) /\ Len(left) \in Nat
  BY <1>3, <1>7, <1>8
<1>10. left[1] = Signal("rest")
  BY <1>7, <1>8
<1>11. ASSUME NEW i \in 1..Len(left), i # 1 PROVE i \in 1..Len(down[c]) /\ left[i] = down[c][i]
  <2>1. i - 1 \in 1..Len(t) /\ 1 + (i - 1) = i /\ (i - 1) + 1 = i
    BY <1>3, <1>9, <1>11
  <2>2. left[i] = t[i - 1]
    BY <1>7, <1>8, <2>1
  <2>. QED  BY <1>3, <2>1, <2>2
<1>12. left # <<>> /\ Head(left) = left[1]
  <2>1. 1 \in 1..Len(down[c])
    BY <1>2, TailShape DEF Typed
  <2>2. left # <<>>
    BY <1>9, <2>1
  <2>. QED  BY <1>8, <2>2, TailShape
<1>13. "open" \in Place
  BY <1>2 DEF Typed, Place
<1>14. Typed'
  <2>1. kws' \in [Conn -> Keywords]
    BY <1>1, <1>5 DEF Typed
  <2>2. down' \in [Conn -> Seq(Atom)]
    BY <1>2, <1>8 DEF Typed
  <2>3. parts' \in [Conn -> Nat]
    BY <1>2, <1>4 DEF Typed
  <2>4. pc' \in [Conn -> Place]
    BY <1>2, <1>13 DEF Typed
  <2>. QED  BY <1>2, <2>1, <2>2, <2>3, <2>4, Zenon DEF Typed
<1>15. kws'[c] = list /\ down'[c] = left /\ parts'[c] = h.val /\ pc'[c] = "open"
  BY <1>1, <1>2 DEF Typed
<1>16. Alone(c)
  BY <1>1, <1>2 DEF Typed, Alone, Same
<1>17. Head(down'[c]).val = 0 /\ down'[c][1].kind = "rest"
  BY <1>6, <1>10, <1>12, <1>15
<1>. QED  BY <1>2, <1>4, <1>5, <1>9, <1>11, <1>12, <1>14, <1>15, <1>16, <1>17 DEF h

LEMMA ReadContentsCutTypes ==
    ASSUME Typed, NEW c \in Conn, Used(c), Found(c), ReadContentsCut(c)
    PROVE  KeepsTypes(c)
<1>1. /\ pc[c] = "control" /\ pc'[c] = "open" /\ Len(down'[c]) = Len(down[c])
      /\ down'[c] # <<>> /\ down'[c][1].kind = "rest"
      /\ \A i \in 1..Len(down'[c]) :
           i # 1 => i \in 1..Len(down[c]) /\ down'[c][i] = down[c][i]
      /\ UNCHANGED <<req, rows, handler, announced, sent, up, link, disk, index, lines>>
      /\ Typed' /\ Alone(c)
  BY CutReads
<1>2. KeepsFiles
  BY <1>1 DEF KeepsFiles
<1>3. Used(c)'
  BY <1>1 DEF Used
<1>4. Promised(c)' => Promised(c)
  <2>1. ASSUME NEW i \in 1..Len(down'[c]), down'[c][i].kind = "YES"
        PROVE  i \in 1..Len(down[c]) /\ down[c][i].kind = "YES"
    <3>1. i # 1
      BY <1>1, <2>1
    <3>. QED  BY <1>1, <2>1, <3>1
  <2>. QED  BY <1>1, <2>1 DEF Promised
<1>5. Found(c)'
  BY <1>1, <1>2, <1>4, FoundKept
<1>. QED  BY <1>1, <1>2, <1>3, <1>5 DEF KeepsTypes

LEMMA ReadRefusalTypes ==
    ASSUME Typed, NEW c \in Conn, Used(c), Found(c), ReadRefusal(c)
    PROVE  KeepsTypes(c)
<1>1. /\ pc[c] = "control"
      /\ down[c] # <<>>
      /\ down' = [down EXCEPT ![c] = Tail(down[c])]
      /\ pc' = [pc EXCEPT ![c] = "done"]
      /\ UNCHANGED <<req, link, parts, announced, kws, rows, handler, sent, up, disk, index, lines, running>>
  BY DEF Reads, Typed, ReadRefusal, client, server, process
<1>2. Tail(down[c]) \in Seq(Atom)
  BY <1>1, TailShape DEF Typed
<1>3. "done" \in Place
  BY <1>1 DEF Typed, Place
<1>4. Typed'
  <2>1. down' \in [Conn -> Seq(Atom)]
    BY <1>1, <1>2 DEF Typed
  <2>2. pc' \in [Conn -> Place]
    BY <1>1, <1>3 DEF Typed
  <2>. QED  BY <1>1, <2>1, <2>2, Zenon DEF Typed
<1>5. /\ down'[c] = Tail(down[c])
      /\ pc'[c] = "done"
  BY <1>1 DEF Typed
<1>6. Alone(c)
  BY <1>1 DEF Typed, Alone, Same
<1>7. KeepsFiles
  BY <1>1 DEF KeepsFiles
<1>8. Used(c)'
  BY <1>1, <1>5 DEF Used
<1>9. Promised(c)' => Promised(c)
  <2>1. \A i \in 1..Len(down'[c]) : \E j \in 1..Len(down[c]) : down'[c][i] = down[c][j]
    BY <1>1, <1>5, TailShape DEF Typed
  <2>. QED  BY <1>1, <1>5, <2>1 DEF Promised
<1>10. Found(c)'
  BY <1>1, <1>7, <1>9, FoundKept
<1>. QED  BY <1>4, <1>6, <1>7, <1>8, <1>10 DEF KeepsTypes

LEMMA ReadCutTypes ==
    ASSUME Typed, NEW c \in Conn, Used(c), Found(c), ReadCut(c)
    PROVE  KeepsTypes(c)
<1>1. /\ pc[c] = "control"
      /\ pc' = [pc EXCEPT ![c] = "done"]
      /\ UNCHANGED <<req, link, parts, announced, kws, rows, handler, sent, up, down, disk, index, lines, running>>
  BY DEF ReadCut, client, server, process
<1>2. "done" \in Place
  BY <1>1 DEF Typed, Place
<1>3. Typed'
  <2>1. pc' \in [Conn -> Place]
    BY <1>1, <1>2 DEF Typed
  <2>. QED  BY <1>1, <2>1, Zenon DEF Typed
<1>4. /\ pc'[c] = "done"
  BY <1>1 DEF Typed
<1>5. Alone(c)
  BY <1>1 DEF Typed, Alone, Same
<1>6. KeepsFiles
  BY <1>1 DEF KeepsFiles
<1>7. Used(c)'
  BY <1>1, <1>4 DEF Used
<1>8. Promised(c)' => Promised(c)
  BY <1>1, <1>4 DEF Promised
<1>9. Found(c)'
  BY <1>1, <1>6, <1>8, FoundKept
<1>. QED  BY <1>3, <1>5, <1>6, <1>7, <1>9 DEF KeepsTypes

LEMMA ControlErrorTypes ==
    ASSUME Typed, NEW c \in Conn, Used(c), Found(c), ControlError(c)
    PROVE  KeepsTypes(c)
<1>1. /\ pc[c] = "control"
      /\ link' = [link EXCEPT ![c] = "dead"]
      /\ pc' = [pc EXCEPT ![c] = "open"]
      /\ UNCHANGED <<req, parts, announced, kws, rows, handler, sent, up, down, disk, index, lines, running>>
  BY DEF ControlError, client, server, process
<1>2. "dead" \in Link
  BY <1>1 DEF Typed, Link
<1>3. "open" \in Place
  BY <1>1 DEF Typed, Place
<1>4. Typed'
  <2>1. link' \in [Conn -> Link]
    BY <1>1, <1>2 DEF Typed
  <2>2. pc' \in [Conn -> Place]
    BY <1>1, <1>3 DEF Typed
  <2>. QED  BY <1>1, <2>1, <2>2, Zenon DEF Typed
<1>5. /\ link'[c] = "dead"
      /\ pc'[c] = "open"
  BY <1>1 DEF Typed
<1>6. Alone(c)
  BY <1>1 DEF Typed, Alone, Same
<1>7. KeepsFiles
  BY <1>1 DEF KeepsFiles
<1>8. Used(c)'
  BY <1>1, <1>5 DEF Used
<1>9. Promised(c)' => Promised(c)
  BY <1>1, <1>5 DEF Promised
<1>10. Found(c)'
  BY <1>1, <1>7, <1>9, FoundKept
<1>. QED  BY <1>4, <1>6, <1>7, <1>8, <1>10 DEF KeepsTypes

LEMMA OpenCopyTypes ==
    ASSUME Typed, NEW c \in Conn, Used(c), Found(c), OpenCopy(c)
    PROVE  KeepsTypes(c)
<1>. DEFINE empty == [i \in 1..parts[c] |-> <<>>]
            next == IF link[c] = "refused" THEN "write" ELSE "receive"
<1>1. /\ pc[c] = "open"
      /\ req[c] \in Download
      /\ rows' = [rows EXCEPT ![c] = empty]
      /\ pc' = [pc EXCEPT ![c] = next]
      /\ disk' = [disk EXCEPT ![req[c].node][req[c].file] = <<>>]
      /\ UNCHANGED <<req, link, parts, announced, kws, handler, sent, up, down, index, lines, running>>
  BY DEF Used, OpenCopy, client, server, process
<1>2. empty \in Seq(Seq(Nat))
  <2>1. parts[c] \in Nat /\ \A i \in 1..parts[c] : empty[i] \in Seq(Nat)
    BY DEF Typed
  <2>2. empty \in [1..parts[c] -> Seq(Nat)]
    BY <2>1
  <2>. HIDE DEF empty
  <2>. QED  BY <2>1, <2>2
<1>3. next \in Place
  BY <1>1 DEF Typed, Place
<1>4. disk' \in [Node -> [File -> Seq(Nat) \cup {NoEntry}]]
  BY <1>1 DEF Typed, Download
<1>5. Typed'
  <2>1. rows' \in [Conn -> Seq(Seq(Nat))]
    BY <1>1, <1>2 DEF Typed
  <2>2. pc' \in [Conn -> Place]
    BY <1>1, <1>3 DEF Typed
  <2>. QED  BY <1>1, <2>1, <2>2, <1>4, Zenon DEF Typed
<1>6. /\ rows'[c] = empty
      /\ pc'[c] = next
  BY <1>1 DEF Typed
<1>7. Alone(c)
  BY <1>1 DEF Typed, Alone, Same
<1>8. KeepsFiles
  <2>0. <<>> \in Seq(Nat)
    OBVIOUS
  <2>1. <<>> # NoEntry
    BY <2>0, IndexAssumption
  <2>. QED  BY <1>1, <2>1 DEF KeepsFiles, Typed
<1>9. Used(c)'
  <2>1. DOMAIN empty = 1..parts[c]
    OBVIOUS
  <2>. QED  BY <1>1, <1>6, <2>1 DEF Used
<1>10. Promised(c)' => Promised(c)
  BY <1>1, <1>6 DEF Promised
<1>11. Found(c)'
  BY <1>1, <1>8, <1>10, FoundKept
<1>. QED  BY <1>5, <1>7, <1>8, <1>9, <1>11 DEF KeepsTypes

LEMMA OpenFailsTypes ==
    ASSUME Typed, NEW c \in Conn, Used(c), Found(c), OpenFails(c)
    PROVE  KeepsTypes(c)
<1>1. /\ pc[c] = "open"
      /\ up' = [up EXCEPT ![c] = SentUp(c, "DISCONNECT")]
      /\ pc' = [pc EXCEPT ![c] = "done"]
      /\ UNCHANGED <<req, link, parts, announced, kws, rows, handler, sent, down, disk, index, lines, running>>
  BY DEF SendUp, SentUp, Typed, OpenFails, client, server, process
<1>2. SentUp(c, "DISCONNECT") \in Seq(Request)
  BY SentUpType DEF Request
<1>3. "done" \in Place
  BY <1>1 DEF Typed, Place
<1>4. Typed'
  <2>1. up' \in [Conn -> Seq(Request)]
    BY <1>1, <1>2 DEF Typed
  <2>2. pc' \in [Conn -> Place]
    BY <1>1, <1>3 DEF Typed
  <2>. QED  BY <1>1, <2>1, <2>2, Zenon DEF Typed
<1>5. /\ up'[c] = SentUp(c, "DISCONNECT")
      /\ pc'[c] = "done"
  BY <1>1 DEF Typed
<1>6. Alone(c)
  BY <1>1 DEF Typed, Alone, Same
<1>7. KeepsFiles
  BY <1>1 DEF KeepsFiles
<1>8. Used(c)'
  BY <1>1, <1>5 DEF Used
<1>9. Promised(c)' => Promised(c)
  <2>1. \A i \in 1..Len(up'[c]) :
           up'[c][i] = "FILE-CONTENTS-REQ" => i \in 1..Len(up[c]) /\ up[c][i] = up'[c][i]
    BY <1>5 DEF Typed, SentUp
  <2>. QED  BY <1>1, <1>5, <2>1 DEF Promised
<1>10. Found(c)'
  BY <1>1, <1>7, <1>9, FoundKept
<1>. QED  BY <1>4, <1>6, <1>7, <1>8, <1>10 DEF KeepsTypes

LEMMA ReadPartTypes ==
    ASSUME Typed, NEW c \in Conn, Used(c), Found(c), ReadPart(c)
    PROVE  KeepsTypes(c)
<1>. DEFINE seq_no == Head(down[c]).val
<1>. PICK k \in ReadLengths(c) :
       /\ rows' = [rows EXCEPT ![c][RowOf(seq_no)] =
                       Overwrite(@, Chars(SubSeq(down[c], 1, k)))]
       /\ down' = [down EXCEPT ![c] = SubSeq(@, k + 1, Len(@))]
  BY DEF ReadPart
<1>0. down[c] # <<>> /\ k \in 1..Len(down[c]) /\ k \in 0..Len(down[c])
  BY LengthsShape DEF ReadPart
<1>. DEFINE chars == Chars(SubSeq(down[c], 1, k))
            filled == [rows[c] EXCEPT ![seq_no] = Overwrite(@, chars)]
            next == IF AllFound(rows'[c]) THEN "write" ELSE pc[c]
<1>1. /\ pc[c] = "receive"
      /\ seq_no \in 1..parts[c]
      /\ rows' = [rows EXCEPT ![c] = filled]
      /\ down' = [down EXCEPT ![c] = SubSeq(down[c], k + 1, Len(down[c]))]
      /\ pc' = [pc EXCEPT ![c] = next]
      /\ UNCHANGED <<req, link, parts, announced, kws, handler, sent, up, disk, index, lines, running>>
  BY DEF RowOf, ReadPart, client, server, process
<1>2. filled \in Seq(Seq(Nat))
  <2>1. SubSeq(down[c], 1, k) \in Seq(Atom) /\ Len(SubSeq(down[c], 1, k)) = k /\ k > 0
    BY <1>0 DEF Typed
  <2>2. chars \in Seq(Nat)
    BY <1>0, <2>1, CharsShape
  <2>. HIDE DEF chars
  <2>3. DOMAIN rows[c] = 1..parts[c] /\ rows[c] \in Seq(Seq(Nat))
    BY <1>1 DEF Used, Typed
  <2>. HIDE DEF seq_no
  <2>4. seq_no \in 1..Len(rows[c])
    <3>1. seq_no \in DOMAIN rows[c] /\ DOMAIN rows[c] = 1..Len(rows[c])
      BY <1>1, <2>3
    <3>. QED  BY <3>1
  <2>5. rows[c][seq_no] \in Seq(Nat)
    BY <2>3, <2>4
  <2>6. Overwrite(rows[c][seq_no], chars) \in Seq(Nat)
    BY <2>2, <2>5, OverwriteShape
  <2>. QED  BY <2>3, <2>4, <2>6, ExceptSeq
<1>3. SubSeq(down[c], k + 1, Len(down[c])) \in Seq(Atom)
  BY <1>0, RestShape DEF Typed
<1>4. next \in Place
  BY <1>1 DEF Place
<1>5. Typed'
  <2>1. rows' \in [Conn -> Seq(Seq(Nat))]
    BY <1>1, <1>2 DEF Typed
  <2>2. down' \in [Conn -> Seq(Atom)]
    BY <1>1, <1>3 DEF Typed
  <2>3. pc' \in [Conn -> Place]
    BY <1>1, <1>4 DEF Typed
  <2>. QED  BY <1>1, <2>1, <2>2, <2>3, Zenon DEF Typed
<1>6. /\ rows'[c] = filled
      /\ down'[c] = SubSeq(down[c], k + 1, Len(down[c]))
      /\ pc'[c] = next
  BY <1>1 DEF Typed
<1>7. Alone(c)
  BY <1>1 DEF Typed, Alone, Same
<1>8. KeepsFiles
  BY <1>1 DEF KeepsFiles
<1>9. Used(c)'
  <2>1. DOMAIN filled = DOMAIN rows[c]
    OBVIOUS
  <2>2. pc'[c] = "receive" \/ pc'[c] = "write"
    BY <1>1, <1>6
  <2>. HIDE DEF filled, next
  <2>. QED  BY <1>1, <1>6, <2>1, <2>2 DEF Used
<1>10. Promised(c)' => Promised(c)
  <2>1. \A i \in 1..Len(down'[c]) : \E j \in 1..Len(down[c]) : down'[c][i] = down[c][j]
    BY <1>0, <1>6, RestShape DEF Typed
  <2>2. handler'[c] = handler[c] /\ up'[c] = up[c]
    BY <1>1
  <2>. QED  BY <2>1, <2>2 DEF Promised
<1>11. Found(c)'
  BY <1>1, <1>8, <1>10, FoundKept
<1>. QED  BY <1>5, <1>7, <1>8, <1>9, <1>11 DEF KeepsTypes

LEMMA ReadInvalidTypes ==
    ASSUME Typed, NEW c \in Conn, Used(c), Found(c), ReadInvalid(c)
    PROVE  KeepsTypes(c)
<1>. DEFINE seq_no == Head(down[c]).val
<1>. PICK k \in ReadLengths(c) :
       down' = [down EXCEPT ![c] = SubSeq(@, k + 1, Len(@))]
  BY DEF ReadInvalid
<1>0. down[c] # <<>> /\ k \in 1..Len(down[c]) /\ k \in 0..Len(down[c])
  BY LengthsShape DEF ReadInvalid
<1>1. /\ pc[c] = "receive"
      /\ down' = [down EXCEPT ![c] = SubSeq(down[c], k + 1, Len(down[c]))]
      /\ pc' = [pc EXCEPT ![c] = "write"]
      /\ UNCHANGED <<req, link, parts, announced, kws, rows, handler, sent, up, disk, index, lines, running>>
  BY DEF ReadInvalid, client, server, process
<1>2. SubSeq(down[c], k + 1, Len(down[c])) \in Seq(Atom)
  BY <1>0, RestShape DEF Typed
<1>3. "write" \in Place
  BY <1>1 DEF Typed, Place
<1>4. Typed'
  <2>1. down' \in [Conn -> Seq(Atom)]
    BY <1>1, <1>2 DEF Typed
  <2>2. pc' \in [Conn -> Place]
    BY <1>1, <1>3 DEF Typed
  <2>. QED  BY <1>1, <2>1, <2>2, Zenon DEF Typed
<1>5. /\ down'[c] = SubSeq(down[c], k + 1, Len(down[c]))
      /\ pc'[c] = "write"
  BY <1>1 DEF Typed
<1>6. Alone(c)
  BY <1>1 DEF Typed, Alone, Same
<1>7. KeepsFiles
  BY <1>1 DEF KeepsFiles
<1>8. Used(c)'
  BY <1>1, <1>5 DEF Used
<1>9. Promised(c)' => Promised(c)
  <2>1. \A i \in 1..Len(down'[c]) : \E j \in 1..Len(down[c]) : down'[c][i] = down[c][j]
    BY <1>0, <1>5, RestShape DEF Typed
  <2>. QED  BY <1>1, <1>5, <2>1 DEF Promised
<1>10. Found(c)'
  BY <1>1, <1>7, <1>9, FoundKept
<1>. QED  BY <1>4, <1>6, <1>7, <1>8, <1>10 DEF KeepsTypes

LEMMA ReceiveErrorTypes ==
    ASSUME Typed, NEW c \in Conn, Used(c), Found(c), ReceiveError(c)
    PROVE  KeepsTypes(c)
<1>1. /\ pc[c] = "receive"
      /\ link' = [link EXCEPT ![c] = "dead"]
      /\ pc' = [pc EXCEPT ![c] = "write"]
      /\ UNCHANGED <<req, parts, announced, kws, rows, handler, sent, up, down, disk, index, lines, running>>
  BY DEF ReceiveError, client, server, process
<1>2. "dead" \in Link
  BY <1>1 DEF Typed, Link
<1>3. "write" \in Place
  BY <1>1 DEF Typed, Place
<1>4. Typed'
  <2>1. link' \in [Conn -> Link]
    BY <1>1, <1>2 DEF Typed
  <2>2. pc' \in [Conn -> Place]
    BY <1>1, <1>3 DEF Typed
  <2>. QED  BY <1>1, <2>1, <2>2, Zenon DEF Typed
<1>5. /\ link'[c] = "dead"
      /\ pc'[c] = "write"
  BY <1>1 DEF Typed
<1>6. Alone(c)
  BY <1>1 DEF Typed, Alone, Same
<1>7. KeepsFiles
  BY <1>1 DEF KeepsFiles
<1>8. Used(c)'
  BY <1>1, <1>5 DEF Used
<1>9. Promised(c)' => Promised(c)
  BY <1>1, <1>5 DEF Promised
<1>10. Found(c)'
  BY <1>1, <1>7, <1>9, FoundKept
<1>. QED  BY <1>4, <1>6, <1>7, <1>8, <1>10 DEF KeepsTypes

LEMMA WriteCopyTypes ==
    ASSUME Typed, NEW c \in Conn, Used(c), Found(c), WriteCopy(c)
    PROVE  KeepsTypes(c)
<1>1. /\ pc[c] = "write"
      /\ req[c] \in Download
      /\ pc' = [pc EXCEPT ![c] = "record"]
      /\ disk' = [disk EXCEPT ![req[c].node][req[c].file] = FlattenSeq(rows[c])]
      /\ UNCHANGED <<req, link, parts, announced, kws, rows, handler, sent, up, down, index, lines, running>>
  BY DEF Used, WriteCopy, client, server, process
<1>2. "record" \in Place
  BY <1>1 DEF Typed, Place
<1>3. disk' \in [Node -> [File -> Seq(Nat) \cup {NoEntry}]]
  <2>1. FlattenSeq(rows[c]) \in Seq(Nat)
    BY FlattenType DEF Typed
  <2>. QED  BY <1>1, <2>1 DEF Typed, Download
<1>4. Typed'
  <2>1. pc' \in [Conn -> Place]
    BY <1>1, <1>2 DEF Typed
  <2>. QED  BY <1>1, <2>1, <1>3, Zenon DEF Typed
<1>5. /\ pc'[c] = "record"
  BY <1>1 DEF Typed
<1>6. Alone(c)
  BY <1>1 DEF Typed, Alone, Same
<1>7. KeepsFiles
  <2>1. FlattenSeq(rows[c]) \in Seq(Nat)
    BY FlattenType DEF Typed
  <2>2. FlattenSeq(rows[c]) # NoEntry
    BY <2>1, IndexAssumption
  <2>. QED  BY <1>1, <2>2 DEF KeepsFiles, Typed
<1>8. Used(c)'
  BY <1>1, <1>5 DEF Used
<1>9. Promised(c)' => Promised(c)
  BY <1>1, <1>5 DEF Promised
<1>10. Found(c)'
  BY <1>1, <1>7, <1>9, FoundKept
<1>. QED  BY <1>4, <1>6, <1>7, <1>8, <1>10 DEF KeepsTypes

LEMMA RecordTypes ==
    ASSUME Typed, NEW c \in Conn, Used(c), Found(c), Record(c)
    PROVE  KeepsTypes(c)
<1>1. /\ pc[c] = "record"
      /\ req[c] \in Download
      /\ pc' = [pc EXCEPT ![c] = "done"]
      /\ index' = [index EXCEPT ![req[c].node][req[c].file] = kws[c]]
      /\ UNCHANGED <<req, link, parts, announced, kws, rows, handler, sent, up, down, disk, running>>
  BY DEF Used, Record, client, server, process
<1>2. "done" \in Place
  BY <1>1 DEF Typed, Place
<1>3. index' \in [Node -> [File -> Keywords \cup {NoEntry}]]
  BY <1>1 DEF Typed, Download
<1>2a. lines' \in [Node -> Seq(IndexLine)]
  <2>1. req[c].node \in Node /\ Line(c) \in IndexLine /\ EmptyLine \in IndexLine
    BY <1>1 DEF Typed, Download, Line, IndexLine
  <2>2. Appended(req[c].node, c) \in Seq(IndexLine)
    BY <2>1 DEF Appended
  <2>3. lines[req[c].node] \o Appended(req[c].node, c) \in Seq(IndexLine)
    BY <2>1, <2>2 DEF Typed
  <2>. QED  BY <2>1, <2>3 DEF Record, Typed
<1>4. Typed'
  <2>1. pc' \in [Conn -> Place]
    BY <1>1, <1>2 DEF Typed
  <2>. QED  BY <1>1, <2>1, <1>3, <1>2a, Zenon DEF Typed
<1>5. /\ pc'[c] = "done"
  BY <1>1 DEF Typed
<1>6. Alone(c)
  BY <1>1 DEF Typed, Alone, Same
<1>7. KeepsFiles
  BY <1>1 DEF KeepsFiles
<1>8. Used(c)'
  BY <1>1, <1>5 DEF Used
<1>9. Promised(c)' => Promised(c)
  BY <1>1, <1>5 DEF Promised
<1>10. Found(c)'
  BY <1>1, <1>7, <1>9, FoundKept
<1>. QED  BY <1>4, <1>6, <1>7, <1>8, <1>10 DEF KeepsTypes

LEMMA AcceptTypes ==
    ASSUME Typed, NEW c \in Conn, Used(c), Found(c), Accept(c)
    PROVE  KeepsTypes(c)
<1>1. /\ link[c] # "none"
      /\ handler' = [handler EXCEPT ![c] = "reading"]
      /\ UNCHANGED <<req, pc, link, parts, announced, kws, rows, sent, up, down, disk, index, lines, running>>
  BY DEF Accept, client, server, process
<1>2. "reading" \in Stage
  BY <1>1 DEF Typed, Stage
<1>3. Typed'
  <2>1. handler' \in [Conn -> Stage]
    BY <1>1, <1>2 DEF Typed
  <2>. QED  BY <1>1, <2>1, Zenon DEF Typed
<1>4. /\ handler'[c] = "reading"
  BY <1>1 DEF Typed
<1>5. Alone(c)
  BY <1>1 DEF Typed, Alone, Same
<1>6. KeepsFiles
  BY <1>1 DEF KeepsFiles
<1>7. Used(c)'
  BY <1>1, <1>4 DEF Used
<1>8. Promised(c)' => Promised(c)
  BY <1>1, <1>4 DEF Promised
<1>9. Found(c)'
  BY <1>1, <1>6, <1>8, FoundKept
<1>. QED  BY <1>3, <1>5, <1>6, <1>7, <1>9 DEF KeepsTypes

LEMMA FileFoundTypes ==
    ASSUME Typed, NEW c \in Conn, Used(c), Found(c), FileFound(c)
    PROVE  KeepsTypes(c)
<1>1. /\ handler[c] = "reading"
      /\ up[c] # <<>>
      /\ Requested(c) # NoEntry
      /\ up' = [up EXCEPT ![c] = Tail(up[c])]
      /\ down' = [down EXCEPT ![c] = SendDown(c, <<Signal("YES")>>)]
      /\ UNCHANGED <<req, pc, link, parts, announced, kws, rows, handler, sent, disk, index, lines, running>>
  BY DEF Handles, Answer, Typed, FileFound, client, server, process
<1>2. Tail(up[c]) \in Seq(Request)
  BY <1>1, TailShape DEF Typed
<1>3. SendDown(c, <<Signal("YES")>>) \in Seq(Atom)
  <2>1. <<Signal("YES")>> \in Seq(Atom)
    BY SignalShape DEF Kinds
  <2>. QED  BY <2>1, SendDownType
<1>4. Typed'
  <2>1. up' \in [Conn -> Seq(Request)]
    BY <1>1, <1>2 DEF Typed
  <2>2. down' \in [Conn -> Seq(Atom)]
    BY <1>1, <1>3 DEF Typed
  <2>. QED  BY <1>1, <2>1, <2>2, Zenon DEF Typed
<1>5. /\ up'[c] = Tail(up[c])
      /\ down'[c] = SendDown(c, <<Signal("YES")>>)
  BY <1>1 DEF Typed
<1>6. Alone(c)
  BY <1>1 DEF Typed, Alone, Same
<1>7. KeepsFiles
  BY <1>1 DEF KeepsFiles
<1>8. Used(c)'
  <2>1. pc[c] # "unused"
    BY <1>1 DEF Used
  <2>. QED  BY <1>1, <1>5, <2>1 DEF Used
<1>9. Found(c)'
  BY <1>1 DEF Found, Requested
<1>. QED  BY <1>4, <1>6, <1>7, <1>8, <1>9 DEF KeepsTypes

LEMMA FileMissingTypes ==
    ASSUME Typed, NEW c \in Conn, Used(c), Found(c), FileMissing(c)
    PROVE  KeepsTypes(c)
<1>1. /\ handler[c] = "reading"
      /\ up[c] # <<>>
      /\ up' = [up EXCEPT ![c] = Tail(up[c])]
      /\ down' = [down EXCEPT ![c] = SendDown(c, <<Signal("NO")>>)]
      /\ handler' = [handler EXCEPT ![c] = "ended"]
      /\ UNCHANGED <<req, pc, link, parts, announced, kws, rows, sent, disk, index, lines, running>>
  BY DEF Handles, Answer, Typed, FileMissing, client, server, process
<1>2. Tail(up[c]) \in Seq(Request)
  BY <1>1, TailShape DEF Typed
<1>3. SendDown(c, <<Signal("NO")>>) \in Seq(Atom)
  <2>1. <<Signal("NO")>> \in Seq(Atom)
    BY SignalShape DEF Kinds
  <2>. QED  BY <2>1, SendDownType
<1>4. "ended" \in Stage
  BY <1>1 DEF Typed, Stage
<1>5. Typed'
  <2>1. up' \in [Conn -> Seq(Request)]
    BY <1>1, <1>2 DEF Typed
  <2>2. down' \in [Conn -> Seq(Atom)]
    BY <1>1, <1>3 DEF Typed
  <2>3. handler' \in [Conn -> Stage]
    BY <1>1, <1>4 DEF Typed
  <2>. QED  BY <1>1, <2>1, <2>2, <2>3, Zenon DEF Typed
<1>6. /\ up'[c] = Tail(up[c])
      /\ down'[c] = SendDown(c, <<Signal("NO")>>)
      /\ handler'[c] = "ended"
  BY <1>1 DEF Typed
<1>7. Alone(c)
  BY <1>1 DEF Typed, Alone, Same
<1>8. KeepsFiles
  BY <1>1 DEF KeepsFiles
<1>9. Used(c)'
  <2>1. pc[c] # "unused"
    BY <1>1 DEF Used
  <2>. QED  BY <1>1, <1>6, <2>1 DEF Used
<1>10. Promised(c)' => Promised(c)
  <2>1. \A i \in 1..Len(up'[c]) : \E j \in 1..Len(up[c]) : up'[c][i] = up[c][j]
    BY <1>1, <1>6, TailShape DEF Typed
  <2>2. \A i \in 1..Len(down'[c]) :
           down'[c][i].kind = "YES" => \E j \in 1..Len(down[c]) : down[c][j].kind = "YES"
    <3>. DEFINE answer == <<Signal("NO")>>
    <3>1. answer \in Seq(Atom) /\ \A i \in 1..Len(answer) : answer[i].kind # "YES"
      BY SignalShape DEF Kinds
    <3>2. down'[c] = SendDown(c, answer)
      BY <1>6
    <3>. HIDE DEF answer
    <3>. QED  BY <3>1, <3>2, SendDownType
  <2>. QED  BY <1>1, <1>6, <2>1, <2>2 DEF Promised
<1>11. Found(c)'
  BY <1>1, <1>8, <1>10, FoundKept
<1>. QED  BY <1>5, <1>7, <1>8, <1>9, <1>11 DEF KeepsTypes

LEMMA FileTooLargeTypes ==
    ASSUME Typed, NEW c \in Conn, Used(c), Found(c), FileTooLarge(c)
    PROVE  KeepsTypes(c)
<1>1. /\ handler[c] = "reading"
      /\ up[c] # <<>>
      /\ up' = [up EXCEPT ![c] = Tail(up[c])]
      /\ down' = [down EXCEPT ![c] = SendDown(c, <<Signal("DISCONNECT")>>)]
      /\ handler' = [handler EXCEPT ![c] = "ended"]
      /\ UNCHANGED <<req, pc, link, parts, announced, kws, rows, sent, disk, index, lines, running>>
  BY DEF Handles, Answer, Typed, FileTooLarge, client, server, process
<1>2. Tail(up[c]) \in Seq(Request)
  BY <1>1, TailShape DEF Typed
<1>3. SendDown(c, <<Signal("DISCONNECT")>>) \in Seq(Atom)
  <2>1. <<Signal("DISCONNECT")>> \in Seq(Atom)
    BY SignalShape DEF Kinds
  <2>. QED  BY <2>1, SendDownType
<1>4. "ended" \in Stage
  BY <1>1 DEF Typed, Stage
<1>5. Typed'
  <2>1. up' \in [Conn -> Seq(Request)]
    BY <1>1, <1>2 DEF Typed
  <2>2. down' \in [Conn -> Seq(Atom)]
    BY <1>1, <1>3 DEF Typed
  <2>3. handler' \in [Conn -> Stage]
    BY <1>1, <1>4 DEF Typed
  <2>. QED  BY <1>1, <2>1, <2>2, <2>3, Zenon DEF Typed
<1>6. /\ up'[c] = Tail(up[c])
      /\ down'[c] = SendDown(c, <<Signal("DISCONNECT")>>)
      /\ handler'[c] = "ended"
  BY <1>1 DEF Typed
<1>7. Alone(c)
  BY <1>1 DEF Typed, Alone, Same
<1>8. KeepsFiles
  BY <1>1 DEF KeepsFiles
<1>9. Used(c)'
  <2>1. pc[c] # "unused"
    BY <1>1 DEF Used
  <2>. QED  BY <1>1, <1>6, <2>1 DEF Used
<1>10. Promised(c)' => Promised(c)
  <2>1. \A i \in 1..Len(up'[c]) : \E j \in 1..Len(up[c]) : up'[c][i] = up[c][j]
    BY <1>1, <1>6, TailShape DEF Typed
  <2>2. \A i \in 1..Len(down'[c]) :
           down'[c][i].kind = "YES" => \E j \in 1..Len(down[c]) : down[c][j].kind = "YES"
    <3>. DEFINE answer == <<Signal("DISCONNECT")>>
    <3>1. answer \in Seq(Atom) /\ \A i \in 1..Len(answer) : answer[i].kind # "YES"
      BY SignalShape DEF Kinds
    <3>2. down'[c] = SendDown(c, answer)
      BY <1>6
    <3>. HIDE DEF answer
    <3>. QED  BY <3>1, <3>2, SendDownType
  <2>. QED  BY <1>1, <1>6, <2>1, <2>2 DEF Promised
<1>11. Found(c)'
  BY <1>1, <1>8, <1>10, FoundKept
<1>. QED  BY <1>5, <1>7, <1>8, <1>9, <1>11 DEF KeepsTypes

LEMMA AnnounceTypes ==
    ASSUME Typed, NEW c \in Conn, Used(c), Found(c), Announce(c)
    PROVE  KeepsTypes(c)
<1>. DEFINE n == PartsOf(Len(Requested(c)))
<1>0. /\ up[c] # <<>> /\ req[c] \in Download /\ Requested(c) \in Seq(Nat)
      /\ Requested(c) # NoEntry /\ n \in Nat
  <2>1. up[c] # <<>> /\ up[c][1] = "FILE-CONTENTS-REQ" /\ 1 \in 1..Len(up[c])
    BY TailShape DEF Announce, Handles, Typed
  <2>2. Requested(c) # NoEntry /\ req[c] \in Download
    BY <2>1 DEF Found, Promised, Used
  <2>3. Requested(c) \in Seq(Nat)
    BY <2>2 DEF Requested, Typed, Download
  <2>4. Len(Requested(c)) \in Nat /\ Len(Requested(c)) <= MaxFileSize
    BY <2>3 DEF Announce
  <2>. QED  BY <2>1, <2>2, <2>3, <2>4, PartsOfBound
<1>. HIDE DEF n
<1>1. /\ handler[c] = "reading"
      /\ up[c] # <<>>
      /\ Requested(c) # NoEntry
      /\ up' = [up EXCEPT ![c] = Tail(up[c])]
      /\ down' = [down EXCEPT ![c] = SendDown(c, <<Control("CONTENTS", n, KeywordsOf(c))>>)]
      /\ announced' = [announced EXCEPT ![c] = n]
      /\ handler' = [handler EXCEPT ![c] = "sending"]
      /\ index' = [index EXCEPT ![req[c].peer][req[c].file] = KeywordsOf(c)]
      /\ UNCHANGED <<req, pc, link, parts, kws, rows, sent, disk, lines, running>>
  BY <1>0 DEF Handles, Answer, Typed, n, Announce, client, server, process
<1>2. Tail(up[c]) \in Seq(Request)
  BY <1>1, TailShape DEF Typed
<1>3. SendDown(c, <<Control("CONTENTS", n, KeywordsOf(c))>>) \in Seq(Atom)
  <2>1. KeywordsOf(c) \in Keywords
    BY <1>0, IndexAssumption DEF KeywordsOf, Typed, Download
  <2>2. Control("CONTENTS", n, KeywordsOf(c)) \in Atom
    BY <1>0, <2>1, AtomTypes
  <2>3. <<Control("CONTENTS", n, KeywordsOf(c))>> \in Seq(Atom)
    BY <2>2, SingleShape
  <2>. QED  BY <2>3, SendDownType
<1>4. n \in Nat
  BY <1>0
<1>5. "sending" \in Stage
  BY <1>1 DEF Typed, Stage
<1>6. index' \in [Node -> [File -> Keywords \cup {NoEntry}]]
  <2>1. KeywordsOf(c) \in Keywords
    BY <1>0, IndexAssumption DEF KeywordsOf, Typed, Download
  <2>. QED  BY <1>0, <1>1, <2>1 DEF Typed, Download
<1>7. Typed'
  <2>1. up' \in [Conn -> Seq(Request)]
    BY <1>1, <1>2 DEF Typed
  <2>2. down' \in [Conn -> Seq(Atom)]
    BY <1>1, <1>3 DEF Typed
  <2>3. announced' \in [Conn -> Nat]
    BY <1>1, <1>4 DEF Typed
  <2>4. handler' \in [Conn -> Stage]
    BY <1>1, <1>5 DEF Typed
  <2>. QED  BY <1>1, <2>1, <2>2, <2>3, <2>4, <1>6, Zenon DEF Typed
<1>8. /\ up'[c] = Tail(up[c])
      /\ down'[c] = SendDown(c, <<Control("CONTENTS", n, KeywordsOf(c))>>)
      /\ announced'[c] = n
      /\ handler'[c] = "sending"
  BY <1>1 DEF Typed
<1>9. Alone(c)
  BY <1>1 DEF Typed, Alone, Same
<1>10. KeepsFiles
  BY <1>1 DEF KeepsFiles
<1>11. Used(c)'
  <2>1. pc[c] # "unused"
    BY <1>1 DEF Used
  <2>. QED  BY <1>1, <1>8, <2>1 DEF Used
<1>12. Found(c)'
  BY <1>1 DEF Found, Requested
<1>. QED  BY <1>7, <1>9, <1>10, <1>11, <1>12 DEF KeepsTypes

\* The step of SendFile and of a SendOverrun that does not crash.
SendsBytes(c, bytes) ==
    /\ handler[c] = "sending"
    /\ handler' = [handler EXCEPT ![c] = "reading"]
    /\ sent' = [sent EXCEPT ![c] = Requested(c)]
    /\ down' = [down EXCEPT ![c] = SendDown(c, bytes)]
    /\ UNCHANGED <<client, announced, link, up, disk, index, process>>

LEMMA Sending ==
    ASSUME Typed, NEW c \in Conn, Used(c), Found(c), handler[c] = "sending"
    PROVE  req[c] \in Download /\ Requested(c) \in Seq(Nat)
<1>1. Requested(c) # NoEntry /\ req[c] \in Download
  BY DEF Found, Promised, Used
<1>. QED  BY <1>1 DEF Typed, Requested, Download

LEMMA SendFileSends ==
    ASSUME Typed, NEW c \in Conn, Used(c), Found(c), SendFile(c)
    PROVE  \E bytes \in Seq(Bytes) : SendsBytes(c, bytes)
<1>1. PICK bytes \in IF Requested(c) = <<>> THEN EmptySent ELSE {PartsSent(Requested(c))} :
         down' = [down EXCEPT ![c] = SendDown(c, bytes)]
  BY DEF SendFile
<1>2. bytes \in Seq(Bytes)
  BY <1>1, Sending, SentTypes DEF SendFile
<1>. QED  BY <1>1, <1>2 DEF SendsBytes, SendFile

LEMMA SendsBytesTypes ==
    ASSUME Typed, NEW c \in Conn, NEW bytes \in Seq(Bytes), Used(c), Found(c), SendsBytes(c, bytes)
    PROVE  KeepsTypes(c)
<1>1. /\ handler[c] = "sending"
      /\ handler' = [handler EXCEPT ![c] = "reading"]
      /\ sent' = [sent EXCEPT ![c] = Requested(c)]
      /\ down' = [down EXCEPT ![c] = SendDown(c, bytes)]
      /\ UNCHANGED <<req, pc, link, parts, announced, kws, rows, up, disk, index, lines, running>>
  BY DEF SendsBytes, client, server, process
<1>2. "reading" \in Stage
  BY <1>1 DEF Typed, Stage
<1>3. Requested(c) \in Seq(Nat)
  BY <1>1, Sending
<1>4. SendDown(c, bytes) \in Seq(Atom)
  <2>1. bytes \in Seq(Atom)
    BY BytesAre
  <2>. QED  BY <2>1, SendDownType
<1>5. Typed'
  <2>1. handler' \in [Conn -> Stage]
    BY <1>1, <1>2 DEF Typed
  <2>2. sent' \in [Conn -> Seq(Nat)]
    BY <1>1, <1>3 DEF Typed
  <2>3. down' \in [Conn -> Seq(Atom)]
    BY <1>1, <1>4 DEF Typed
  <2>. QED  BY <1>1, <2>1, <2>2, <2>3, Zenon DEF Typed
<1>6. /\ handler'[c] = "reading"
      /\ sent'[c] = Requested(c)
      /\ down'[c] = SendDown(c, bytes)
  BY <1>1 DEF Typed
<1>7. Alone(c)
  BY <1>1 DEF Typed, Alone, Same
<1>8. KeepsFiles
  BY <1>1 DEF KeepsFiles
<1>9. Used(c)'
  <2>1. pc[c] # "unused"
    BY <1>1 DEF Used
  <2>. QED  BY <1>1, <1>6, <2>1 DEF Used
<1>10. Promised(c)' => Promised(c)
  BY <1>1 DEF Promised
<1>11. Found(c)'
  BY <1>1, <1>8, <1>10, FoundKept
<1>. QED  BY <1>5, <1>7, <1>8, <1>9, <1>11 DEF KeepsTypes

LEMMA HandlerEndsTypes ==
    ASSUME Typed, NEW c \in Conn, Used(c), Found(c), HandlerEnds(c)
    PROVE  KeepsTypes(c)
<1>1. /\ handler[c] = "reading"
      /\ handler' = [handler EXCEPT ![c] = "ended"]
      /\ UNCHANGED <<req, pc, link, parts, announced, kws, rows, sent, up, down, disk, index, lines, running>>
  BY DEF Handles, HandlerEnds, client, server, process
<1>2. "ended" \in Stage
  BY <1>1 DEF Typed, Stage
<1>3. Typed'
  <2>1. handler' \in [Conn -> Stage]
    BY <1>1, <1>2 DEF Typed
  <2>. QED  BY <1>1, <2>1, Zenon DEF Typed
<1>4. /\ handler'[c] = "ended"
  BY <1>1 DEF Typed
<1>5. Alone(c)
  BY <1>1 DEF Typed, Alone, Same
<1>6. KeepsFiles
  BY <1>1 DEF KeepsFiles
<1>7. Used(c)'
  <2>1. pc[c] # "unused"
    BY <1>1 DEF Used
  <2>. QED  BY <1>1, <1>4, <2>1 DEF Used
<1>8. Promised(c)' => Promised(c)
  BY <1>1, <1>4 DEF Promised
<1>9. Found(c)'
  BY <1>1, <1>6, <1>8, FoundKept
<1>. QED  BY <1>3, <1>5, <1>6, <1>7, <1>9 DEF KeepsTypes

LEMMA HandlerReadCutTypes ==
    ASSUME Typed, NEW c \in Conn, Used(c), Found(c), HandlerReadCut(c)
    PROVE  KeepsTypes(c)
<1>. PICK answer \in CutAnswers(c) : down' = [down EXCEPT ![c] = SendDown(c, answer)]
  BY DEF HandlerReadCut
<1>0. answer \in Seq(Atom) /\ \A i \in 1..Len(answer) : answer[i].kind # "YES"
  <2>1. answer \in {<<>>, <<Signal("DISCONNECT")>>, <<Signal("NO")>>}
    BY DEF CutAnswers
  <2>2. ASSUME NEW kind \in {"DISCONNECT", "NO"}, answer = <<Signal(kind)>>
        PROVE  answer \in Seq(Atom) /\ \A i \in 1..Len(answer) : answer[i].kind # "YES"
    <3>1. kind \in Kinds /\ kind # "YES"
      BY DEF Kinds
    <3>. QED  BY <2>2, <3>1, SignalShape
  <2>3. CASE answer = <<>>
    BY <2>3
  <2>. QED  BY <2>1, <2>2, <2>3
<1>1. /\ handler[c] = "reading"
      /\ handler' = [handler EXCEPT ![c] = "ended"]
      /\ down' = [down EXCEPT ![c] = SendDown(c, answer)]
      /\ UNCHANGED <<req, pc, link, parts, announced, kws, rows, sent, up, disk, index, lines, running>>
  BY DEF HandlerReadCut, client, server, process
<1>2. "ended" \in Stage
  BY <1>1 DEF Typed, Stage
<1>3. SendDown(c, answer) \in Seq(Atom)
  BY <1>0, SendDownType
<1>4. Typed'
  <2>1. handler' \in [Conn -> Stage]
    BY <1>1, <1>2 DEF Typed
  <2>2. down' \in [Conn -> Seq(Atom)]
    BY <1>1, <1>3 DEF Typed
  <2>. QED  BY <1>1, <2>1, <2>2, Zenon DEF Typed
<1>5. /\ handler'[c] = "ended"
      /\ down'[c] = SendDown(c, answer)
  BY <1>1 DEF Typed
<1>6. Alone(c)
  BY <1>1 DEF Typed, Alone, Same
<1>7. KeepsFiles
  BY <1>1 DEF KeepsFiles
<1>8. Used(c)'
  <2>1. pc[c] # "unused"
    BY <1>1 DEF Used
  <2>. QED  BY <1>1, <1>5, <2>1 DEF Used
<1>9. Promised(c)' => Promised(c)
  <2>1. \A i \in 1..Len(down'[c]) :
           down'[c][i].kind = "YES" => \E j \in 1..Len(down[c]) : down[c][j].kind = "YES"
    BY <1>5, <1>0, SendDownType
  <2>. QED  BY <1>1, <1>5, <2>1 DEF Promised
<1>10. Found(c)'
  BY <1>1, <1>7, <1>9, FoundKept
<1>. QED  BY <1>4, <1>6, <1>7, <1>8, <1>10 DEF KeepsTypes

LEMMA ResetTypes ==
    ASSUME Typed, NEW c \in Conn, Used(c), Found(c), Reset(c)
    PROVE  KeepsTypes(c)
<1>1. /\ link[c] = "up"
      /\ link' = [link EXCEPT ![c] = "reset"]
      /\ UNCHANGED <<req, pc, parts, announced, kws, rows, handler, sent, up, down, disk, index, lines, running>>
  BY DEF Reset, client, server, process
<1>2. "reset" \in Link
  BY <1>1 DEF Typed, Link
<1>3. Typed'
  <2>1. link' \in [Conn -> Link]
    BY <1>1, <1>2 DEF Typed
  <2>. QED  BY <1>1, <2>1, Zenon DEF Typed
<1>4. /\ link'[c] = "reset"
  BY <1>1 DEF Typed
<1>5. Alone(c)
  BY <1>1 DEF Typed, Alone, Same
<1>6. KeepsFiles
  BY <1>1 DEF KeepsFiles
<1>7. Used(c)'
  BY <1>1, <1>4 DEF Used
<1>8. Promised(c)' => Promised(c)
  BY <1>1, <1>4 DEF Promised
<1>9. Found(c)'
  BY <1>1, <1>6, <1>8, FoundKept
<1>. QED  BY <1>3, <1>5, <1>6, <1>7, <1>9 DEF KeepsTypes

LEMMA OverrunSends ==
    ASSUME Typed, NEW c \in Conn, Used(c), Found(c), SendOverrun(c)
    PROVE  Dies(req[c].peer) \/ \E bytes \in Seq(Bytes) : SendsBytes(c, bytes)
<1>1. PartsSent(Requested(c)) \in Seq(Bytes)
  BY Sending, SentTypes DEF SendOverrun
<1>. QED  BY <1>1 DEF SendOverrun, SendsBytes

LEMMA DiesTypes == ASSUME TypeInv, NEW n \in Node, Dies(n) PROVE TypeInv'
<1>1. /\ running' = [running EXCEPT ![n] = FALSE]
      /\ UNCHANGED <<req, link, parts, announced, kws, rows, sent, up, down, disk, index,
                     lines>>
  BY DEF Dies
<1>2. Typed
  BY TypedIs DEF TypeInv
<1>3. ASSUME NEW c \in Conn
      PROVE  /\ pc'[c] = pc[c] \/ (pc'[c] = "killed" /\ pc[c] # "unused")
             /\ handler'[c] = handler[c] \/ (handler'[c] = "killed" /\ pc[c] # "unused")
  BY DEF Dies
<1>4. Typed'
  <2>1. pc' \in [Conn -> Place]
    <3>1. \A c \in Conn : pc'[c] \in Place
      BY <1>2, <1>3 DEF Typed, Place
    <3>2. pc' = [c \in Conn |-> pc'[c]]
      BY DEF Dies
    <3>. QED  BY <3>1, <3>2
  <2>2. handler' \in [Conn -> Stage]
    <3>1. \A c \in Conn : handler'[c] \in Stage
      BY <1>2, <1>3 DEF Typed, Stage
    <3>2. handler' = [c \in Conn |-> handler'[c]]
      BY DEF Dies
    <3>. QED  BY <3>1, <3>2
  <2>3. running' \in [Node -> BOOLEAN]
    BY <1>1, <1>2 DEF Typed
  <2>. QED  BY <1>1, <1>2, <2>1, <2>2, <2>3, Zenon DEF Typed
<1>5. ASSUME NEW c \in Conn PROVE (Used(c) /\ Found(c))'
  <2>1. Used(c) /\ Found(c) /\ KeepsFiles
    BY <1>1 DEF TypeInv, KeepsFiles
  <2>2. Used(c)'
    BY <1>1, <1>3, <2>1 DEF Used
  <2>3. Promised(c)' => Promised(c)
    BY <1>1, <1>3 DEF Promised
  <2>4. Found(c)'
    BY <1>1, <2>1, <2>3, FoundKept
  <2>. QED  BY <2>2, <2>4
<1>6. TypeOK'
  <2>1. (\A d \in Conn : rows[d] # <<>> => DOMAIN rows[d] = 1..parts[d])'
    BY <1>5 DEF Used
  <2>. QED  BY <1>4, <2>1
            DEF TypeOK, Typed, Download, Place, Link, Stage, Request, Atom, Kinds, IndexLine
<1>. QED  BY <1>5, <1>6 DEF TypeInv

\* main reads a list of keywords, or nothing, for each file: the last line decides.
LastSays(n, f) ==
    \/ /\ IndexRead(n)[f] = Index0[n][f]
       /\ \A i \in 1..Len(lines[n]) : lines[n][i] # EmptyLine => lines[n][i].file # f
    \/ \E i \in 1..Len(lines[n]) :
         /\ lines[n][i] # EmptyLine /\ lines[n][i].file = f
         /\ IndexRead(n)[f] = lines[n][i].kws
         /\ \A j \in 1..Len(lines[n]) :
              lines[n][j] # EmptyLine /\ lines[n][j].file = f => j <= i

LEMMA IndexReadShape == ASSUME Typed, NEW n \in Node, NEW f \in File PROVE LastSays(n, f)
<1>. DEFINE own == {i \in DOMAIN lines[n] : lines[n][i] # EmptyLine /\ lines[n][i].file = f}
<1>1. Len(lines[n]) \in Nat /\ DOMAIN lines[n] = 1..Len(lines[n])
  BY DEF Typed
<1>2. own \subseteq 1..Len(lines[n])
  BY <1>1
<1>3. /\ own = {} => IndexRead(n)[f] = Index0[n][f]
      /\ own # {} => IndexRead(n)[f] = lines[n][Max(own)].kws
  BY DEF IndexRead
<1>4. CASE own = {}
  BY <1>1, <1>3, <1>4 DEF LastSays
<1>5. CASE own # {}
  <2>1. Max(own) \in own /\ \A y \in own : Max(own) >= y
    BY <1>1, <1>2, <1>5, GreatestBelow
  <2>2. \A j \in 1..Len(lines[n]) :
          lines[n][j] # EmptyLine /\ lines[n][j].file = f => j \in own
    BY <1>1
  <2>3. Max(own) \in 1..Len(lines[n]) /\ lines[n][Max(own)] # EmptyLine
        /\ lines[n][Max(own)].file = f
    BY <1>2, <2>1
  <2>. HIDE DEF own
  <2>4. \A j \in 1..Len(lines[n]) :
          lines[n][j] # EmptyLine /\ lines[n][j].file = f => j <= Max(own)
    BY <1>1, <2>1, <2>2, <2>3
  <2>. QED  BY <1>3, <1>5, <2>3, <2>4 DEF LastSays
<1>. QED  BY <1>4, <1>5

LEMMA RestartTypes == ASSUME TypeInv, NEW n \in Node, Restart(n) PROVE TypeInv'
<1>1. /\ running' = [running EXCEPT ![n] = TRUE]
      /\ index' = [index EXCEPT ![n] = IndexRead(n)]
      /\ UNCHANGED <<req, pc, link, parts, announced, kws, rows, handler, sent, up, down,
                     disk, lines>>
  BY DEF Restart, client, server
<1>2. Typed
  BY TypedIs DEF TypeInv
<1>3. IndexRead(n) \in [File -> Keywords \cup {NoEntry}]
  <2>1. ASSUME NEW f \in File PROVE IndexRead(n)[f] \in Keywords \cup {NoEntry}
    <3>1. CASE IndexRead(n)[f] = Index0[n][f]
      BY <3>1, IndexAssumption
    <3>2. ASSUME NEW i \in 1..Len(lines[n]), lines[n][i] # EmptyLine,
                 IndexRead(n)[f] = lines[n][i].kws
          PROVE  IndexRead(n)[f] \in Keywords \cup {NoEntry}
      <4>1. lines[n] \in Seq(IndexLine)
        BY <1>2 DEF Typed
      <4>2. lines[n][i] \in IndexLine
        BY <4>1
      <4>. QED  BY <3>2, <4>2 DEF IndexLine
    <3>3. LastSays(n, f)
      BY <1>2, IndexReadShape
    <3>. QED  BY <3>1, <3>2, <3>3 DEF LastSays
  <2>2. IndexRead(n) = [f \in File |-> IndexRead(n)[f]]
    BY DEF IndexRead
  <2>. QED  BY <2>1, <2>2
<1>4. Typed'
  <2>1. running' \in [Node -> BOOLEAN] /\ index' \in [Node -> [File -> Keywords \cup {NoEntry}]]
    BY <1>1, <1>2, <1>3 DEF Typed
  <2>. QED  BY <1>1, <1>2, <2>1, Zenon DEF Typed
<1>5. ASSUME NEW c \in Conn PROVE (Used(c) /\ Found(c))'
  BY <1>1 DEF TypeInv, Used, Found, Promised, Requested
<1>6. TypeOK'
  <2>1. (\A d \in Conn : rows[d] # <<>> => DOMAIN rows[d] = 1..parts[d])'
    BY <1>5 DEF Used
  <2>. QED  BY <1>4, <2>1
            DEF TypeOK, Typed, Download, Place, Link, Stage, Request, Atom, Kinds, IndexLine
<1>. QED  BY <1>5, <1>6 DEF TypeInv

LEMMA TypeInit == Init => TypeInv
<1>. SUFFICES ASSUME Init PROVE TypeInv
  OBVIOUS
<1>1. Typed
  <2>1. req \in [Conn -> Download \cup {NoEntry}] /\ parts \in [Conn -> Nat]
        /\ announced \in [Conn -> Nat] /\ running \in [Node -> BOOLEAN]
    BY DEF Init
  <2>2. pc \in [Conn -> Place] /\ link \in [Conn -> Link] /\ handler \in [Conn -> Stage]
    BY DEF Init, Place, Link, Stage
  <2>3. kws \in [Conn -> Keywords]
    BY IndexAssumption DEF Init
  <2>4. /\ rows \in [Conn -> Seq(Seq(Nat))] /\ sent \in [Conn -> Seq(Nat)]
        /\ up \in [Conn -> Seq(Request)] /\ down \in [Conn -> Seq(Atom)]
        /\ lines \in [Node -> Seq(IndexLine)]
    BY DEF Init
  <2>5. disk \in [Node -> [File -> Seq(Nat) \cup {NoEntry}]]
    <3>1. \A f \in File : Original(f) \in Seq(Nat)
      BY SizeAssumption DEF Original
    <3>. QED  BY <3>1 DEF Init
  <2>6. index \in [Node -> [File -> Keywords \cup {NoEntry}]]
    BY IndexAssumption DEF Init
  <2>. QED  BY <2>1, <2>2, <2>3, <2>4, <2>5, <2>6 DEF Typed
<1>2. ASSUME NEW c \in Conn PROVE Used(c) /\ Found(c)
  <2>1. /\ pc[c] = "unused" /\ handler[c] = "none" /\ link[c] = "none" /\ parts[c] = 0
        /\ up[c] = <<>> /\ down[c] = <<>> /\ rows[c] = <<>>
    BY DEF Init
  <2>2. Len(up[c]) = 0 /\ Len(down[c]) = 0
    BY <2>1
  <2>. QED  BY <2>1, <2>2 DEF Used, Found, Promised
<1>3. TypeOK
  BY <1>1, <1>2, TypedIs DEF Used
<1>. QED  BY <1>2, <1>3 DEF TypeInv

\* Every step of one connection.
LEMMA ConnTypes ==
    ASSUME TypeInv, NEW c \in Conn, User(c) \/ Client(c) \/ Handler(c) \/ Reset(c)
    PROVE  KeepsTypes(c) \/ (Dies(req[c].peer) /\ req[c] \in Download)
<1>1. Typed /\ Used(c) /\ Found(c)
  BY TypedIs DEF TypeInv
<1>2. CASE User(c)
  BY <1>1, <1>2, ConnectTypes, RefusedTypes DEF User
<1>3. CASE Client(c)
  BY <1>1, <1>3, ReadYesTypes, ReadContentsTypes, ReadContentsCutTypes, ReadRefusalTypes,
     ReadCutTypes,
     ControlErrorTypes, OpenCopyTypes, OpenFailsTypes, ReadPartTypes, ReadInvalidTypes,
     ReceiveErrorTypes, WriteCopyTypes, RecordTypes DEF Client
<1>4. CASE Handler(c)
  <2>1. CASE SendFile(c)
    BY <1>1, <2>1, SendFileSends, SendsBytesTypes
  <2>2. CASE SendOverrun(c)
    <3>1. req[c] \in Download
      BY <1>1, <2>2, Sending DEF SendOverrun
    <3>. QED  BY <1>1, <2>2, <3>1, OverrunSends, SendsBytesTypes
  <2>. QED  BY <1>1, <1>4, <2>1, <2>2, AcceptTypes, FileFoundTypes, FileMissingTypes,
               FileTooLargeTypes, AnnounceTypes, HandlerEndsTypes, HandlerReadCutTypes
            DEF Handler
<1>5. CASE Reset(c)
  BY <1>1, <1>5, ResetTypes
<1>. QED  BY <1>2, <1>3, <1>4, <1>5

LEMMA TypeStep == TypeInv /\ [Next]_vars => TypeInv'
<1>. SUFFICES ASSUME TypeInv, [Next]_vars PROVE TypeInv'
  OBVIOUS
<1>1. ASSUME NEW c \in Conn, User(c) \/ Client(c) \/ Handler(c) \/ Reset(c) PROVE TypeInv'
  BY <1>1, ConnTypes, TypeFrame, DiesTypes DEF Download
<1>2. ASSUME NEW n \in Node, Kill(n) \/ Restart(n) PROVE TypeInv'
  BY <1>2, DiesTypes, RestartTypes DEF Kill
<1>3. CASE UNCHANGED vars
  BY <1>3 DEF vars, client, server, process, TypeInv, TypeOK, Used, Found, Promised, Requested
<1>. QED  BY <1>1, <1>2, <1>3 DEF Next

THEOREM TypesHold == Spec => []TypeInv
BY TypeInit, TypeStep, PTL DEF Spec

\* The variables of FileTransfer keep their types, whatever a process or the network
\* does, and whatever lengths the reads have.
THEOREM TypesAreRight == Spec => []TypeOK
<1>1. TypeInv => TypeOK
  BY DEF TypeInv
<1>. QED  BY <1>1, TypesHold, PTL

----------------------------------------------------------------------------
(* Keywords and the index file.                                            *)

\* A download that runs, or ran, stays the same.
Stays(c) == pc[c] # "unused" => pc'[c] # "unused" /\ req'[c] = req[c]

\* A step of c that neither learns keywords nor passes some on.
Quiet(c) ==
    /\ UNCHANGED <<index, lines, kws>>
    /\ Stays(c)
    /\ \A i \in 1..Len(down'[c]) : down'[c][i].kind = "CONTENTS" =>
         \E j \in 1..Len(down[c]) : down'[c][i] = down[c][j]

LEMMA SendsQuietly ==
    ASSUME Typed, NEW c \in Conn, NEW atoms \in Seq(Atom),
           \A i \in 1..Len(atoms) : atoms[i].kind # "CONTENTS",
           down'[c] = SendDown(c, atoms)
    PROVE  \A i \in 1..Len(down'[c]) : down'[c][i].kind = "CONTENTS" =>
             \E j \in 1..Len(down[c]) : down'[c][i] = down[c][j]
BY SendDownType

LEMMA ReadsQuietly ==
    ASSUME Typed, NEW c \in Conn, NEW k \in 0..Len(down[c]),
           down'[c] = SubSeq(down[c], k + 1, Len(down[c])) \/ (down[c] # <<>> /\ down'[c] = Tail(down[c]))
    PROVE  \A i \in 1..Len(down'[c]) : \E j \in 1..Len(down[c]) : down'[c][i] = down[c][j]
<1>1. CASE down'[c] = SubSeq(down[c], k + 1, Len(down[c]))
  <2>1. /\ Len(down'[c]) = Len(down[c]) - k
        /\ \A i \in 1..Len(down[c]) - k : i + k \in 1..Len(down[c]) /\ down'[c][i] = down[c][i + k]
    BY <1>1, RestShape DEF Typed
  <2>. QED  BY <2>1
<1>2. CASE down[c] # <<>> /\ down'[c] = Tail(down[c])
  BY <1>2, TailShape DEF Typed
<1>. QED  BY <1>1, <1>2

LEMMA UserQuiet == ASSUME Typed, NEW c \in Conn, User(c) PROVE Quiet(c)
<1>1. PICK n \in Node, m \in Node, f \in File : Connect(c, n, m, f) \/ Refused(c, n, m, f)
  BY DEF User
<1>2. pc[c] = "unused" /\ down'[c] = down[c] /\ UNCHANGED <<index, lines, kws>>
  BY <1>1 DEF Connect, Refused, Opens, process
<1>. QED  BY <1>2 DEF Quiet, Stays

LEMMA ClientQuiet ==
    ASSUME Typed, NEW c \in Conn, Client(c),
           ~ReadContents(c), ~ReadContentsCut(c), ~Record(c)
    PROVE  Quiet(c)
<1>1. UNCHANGED <<index, lines, kws, req>>
  BY DEF Client, ReadYes, ReadRefusal, ReadCut, ControlError, OpenCopy, OpenFails, ReadPart,
         ReadInvalid, ReceiveError, WriteCopy, process, client
<1>2. pc'[c] # "unused"
  <2>1. CASE ReadYes(c) \/ ReadRefusal(c) \/ ReadCut(c) \/ ControlError(c)
    BY <2>1 DEF Typed, ReadYes, Reads, ReadRefusal, ReadCut, ControlError, client
  <2>2. CASE OpenCopy(c) \/ OpenFails(c)
    BY <2>2 DEF Typed, OpenCopy, OpenFails
  <2>3. CASE ReadPart(c)
    BY <2>3 DEF Typed, ReadPart
  <2>4. CASE ReadInvalid(c) \/ ReceiveError(c) \/ WriteCopy(c)
    BY <2>4 DEF Typed, ReadInvalid, ReceiveError, WriteCopy
  <2>. QED  BY <2>1, <2>2, <2>3, <2>4 DEF Client
<1>3. \A i \in 1..Len(down'[c]) : \E j \in 1..Len(down[c]) : down'[c][i] = down[c][j]
  <2>1. CASE ReadYes(c) \/ ReadRefusal(c)
    <3>1. down[c] # <<>> /\ down'[c] = Tail(down[c]) /\ 0 \in 0..Len(down[c])
      BY <2>1 DEF Typed, ReadYes, ReadRefusal, Reads
    <3>. QED  BY <3>1, ReadsQuietly
  <2>2. CASE ReadPart(c) \/ ReadInvalid(c)
    <3>1. PICK k \in ReadLengths(c) : down' = [down EXCEPT ![c] = SubSeq(@, k + 1, Len(@))]
      BY <2>2 DEF ReadPart, ReadInvalid
    <3>2. down[c] # <<>>
      BY <2>2 DEF ReadPart, ReadInvalid
    <3>3. k \in 1..Len(down[c])
      BY <3>2, LengthsShape
    <3>4. k \in 0..Len(down[c]) /\ down'[c] = SubSeq(down[c], k + 1, Len(down[c]))
      BY <3>1, <3>3 DEF Typed
    <3>. QED  BY <3>4, ReadsQuietly
  <2>3. CASE ~(ReadYes(c) \/ ReadRefusal(c) \/ ReadPart(c) \/ ReadInvalid(c))
    <3>1. down' = down
      BY <2>3 DEF Client, ReadCut, ControlError, OpenCopy, OpenFails, ReceiveError, WriteCopy
    <3>. QED  BY <3>1
  <2>. QED  BY <2>1, <2>2, <2>3
<1>. QED  BY <1>1, <1>2, <1>3 DEF Quiet, Stays

LEMMA BytesQuiet ==
    ASSUME Typed, NEW c \in Conn, NEW bytes \in Seq(Bytes), SendsBytes(c, bytes)
    PROVE  Quiet(c)
<1>1. UNCHANGED <<index, lines, kws, req, pc>> /\ down'[c] = SendDown(c, bytes)
  BY DEF SendsBytes, client, process, Typed
<1>2. bytes \in Seq(Atom) /\ \A i \in 1..Len(bytes) : bytes[i].kind # "CONTENTS"
  BY BytesAre
<1>. QED  BY <1>1, <1>2, SendsQuietly DEF Quiet, Stays

LEMMA HandlerQuiet ==
    ASSUME Typed, NEW c \in Conn, Handler(c),
           ~Announce(c), ~SendFile(c), ~SendOverrun(c)
    PROVE  Quiet(c)
<1>1. UNCHANGED <<index, lines, kws, req, pc>>
  BY DEF Handler, Accept, FileFound, FileMissing, FileTooLarge, HandlerEnds, HandlerReadCut,
         client, process
<1>2. \A i \in 1..Len(down'[c]) : down'[c][i].kind = "CONTENTS" =>
        \E j \in 1..Len(down[c]) : down'[c][i] = down[c][j]
  <2>1. ASSUME NEW kind \in {"YES", "NO", "DISCONNECT"}, Answer(c, Signal(kind))
        PROVE  \A i \in 1..Len(down'[c]) : down'[c][i].kind = "CONTENTS" =>
                 \E j \in 1..Len(down[c]) : down'[c][i] = down[c][j]
    <3>1. kind \in Kinds /\ kind # "CONTENTS"
      BY DEF Kinds
    <3>. DEFINE atoms == <<Signal(kind)>>
    <3>2. atoms \in Seq(Atom) /\ \A i \in 1..Len(atoms) : atoms[i].kind # "CONTENTS"
      BY <3>1, SignalShape
    <3>3. down'[c] = SendDown(c, atoms)
      BY <2>1 DEF Answer, Typed
    <3>. HIDE DEF atoms
    <3>. QED  BY <3>2, <3>3, SendsQuietly
  <2>2. CASE FileFound(c) \/ FileMissing(c) \/ FileTooLarge(c)
    BY <2>1, <2>2 DEF FileFound, FileMissing, FileTooLarge
  <2>3. CASE HandlerReadCut(c)
    <3>1. PICK answer \in CutAnswers(c) : down' = [down EXCEPT ![c] = SendDown(c, answer)]
      BY <2>3 DEF HandlerReadCut
    <3>2. ASSUME NEW kind \in {"DISCONNECT", "NO"}, answer = <<Signal(kind)>>
          PROVE  answer \in Seq(Atom) /\ \A i \in 1..Len(answer) : answer[i].kind # "CONTENTS"
      <4>1. kind \in Kinds /\ kind # "CONTENTS"
        BY DEF Kinds
      <4>. QED  BY <3>2, <4>1, SignalShape
    <3>3. ASSUME answer = <<>>
          PROVE  answer \in Seq(Atom) /\ \A i \in 1..Len(answer) : answer[i].kind # "CONTENTS"
      BY <3>3
    <3>3a. answer \in {<<>>, <<Signal("DISCONNECT")>>, <<Signal("NO")>>}
      BY DEF CutAnswers
    <3>4. answer \in Seq(Atom) /\ \A i \in 1..Len(answer) : answer[i].kind # "CONTENTS"
      <4>1. CASE answer = <<Signal("DISCONNECT")>>
        BY <3>2, <4>1
      <4>2. CASE answer = <<Signal("NO")>>
        BY <3>2, <4>2
      <4>. QED  BY <3>3, <3>3a, <4>1, <4>2
    <3>5. down'[c] = SendDown(c, answer)
      BY <3>1 DEF Typed
    <3>. QED  BY <3>4, <3>5, SendsQuietly
  <2>4. CASE Accept(c) \/ HandlerEnds(c)
    <3>1. down' = down
      BY <2>4 DEF Accept, HandlerEnds
    <3>. QED  BY <3>1
  <2>. QED  BY <2>2, <2>3, <2>4 DEF Handler
<1>. QED  BY <1>1, <1>2 DEF Quiet, Stays

SpoiltFiles ==
    {req[c].file : c \in {d \in Conn : pc[d] # "unused" /\ req[d].node \in AnyReads}}

\* A first holder has too many keywords for f.
HasTooMany(f) == \E m \in Node : Index0[m][f] \in Long

\* Said, after a step, of a list that it does not change.
SaidNext(f, list) ==
    \/ list = NoKeywords
    \/ \E m \in Node : list = Index0[m][f]
    \/ list \in {Garbage, Truncated} /\ (f \in SpoiltFiles' \/ HasTooMany(f))

\* What was said of a file stays said.
LEMMA SaidStays ==
    ASSUME \A c \in Conn : Stays(c), NEW f, NEW list, Said(f, list)
    PROVE  SaidNext(f, list)
<1>1. MayBeSpoilt(f) => f \in SpoiltFiles' \/ HasTooMany(f)
  BY DEF MayBeSpoilt, SpoiltFiles, Stays, HasTooMany
<1>. QED  BY <1>1 DEF Said, SaidNext

LEMMA CarriedNext ==
    ASSUME NEW c \in Conn,
           pc'[c] = "unused" => kws'[c] = NoKeywords,
           pc'[c] # "unused" => SaidNext(req'[c].file, kws'[c]),
           \A i \in 1..Len(down'[c]) :
             down'[c][i].kind = "CONTENTS" => SaidNext(req'[c].file, down'[c][i].kws)
    PROVE  Carried(c)'
BY DEF Carried, Said, SaidNext, MayBeSpoilt, SpoiltFiles, HasTooMany

LEMMA StaysFrame ==
    ASSUME NEW c \in Conn, Stays(c), Alone(c) PROVE \A d \in Conn : Stays(d)
BY DEF Stays, Alone, Same

\* Nothing changes for the other connections.
LEMMA CarriedFrame ==
    ASSUME KeywordsInv, NEW c \in Conn, Stays(c), Alone(c), Carried(c)'
    PROVE  \A d \in Conn : Carried(d)'
<1>. SUFFICES ASSUME NEW d \in Conn, d # c PROVE Carried(d)'
  OBVIOUS
<1>1. Carried(d) /\ Same(d)
  BY DEF KeywordsInv, Alone
<1>2. \A list : Said(req[d].file, list) => SaidNext(req[d].file, list)
  BY StaysFrame, SaidStays
<1>3. \A i \in 1..Len(down'[d]) :
        down'[d][i].kind = "CONTENTS" => SaidNext(req[d].file, down'[d][i].kws)
  BY <1>1, <1>2 DEF Carried, Same
<1>4. /\ pc'[d] = "unused" => kws'[d] = NoKeywords
      /\ pc'[d] # "unused" => SaidNext(req[d].file, kws'[d])
  BY <1>1, <1>2 DEF Carried, Same
<1>5. req'[d] = req[d]
  BY <1>1 DEF Same
<1>. QED  BY <1>3, <1>4, <1>5, CarriedNext

LEMMA NodeNext ==
    ASSUME NEW n \in Node
    PROVE  /\ (\A f \in File : index'[n][f] # NoEntry => SaidNext(f, index'[n][f]))
                => Entered(n)'
           /\ (\A i \in DOMAIN lines'[n] : lines'[n][i] # EmptyLine =>
                 \E f : f = lines'[n][i].file /\ SaidNext(f, lines'[n][i].kws))
                => Written(n)'
<1>1. \A f, list : SaidNext(f, list) <=>
        \/ list = NoKeywords
        \/ \E m \in Node : list = Index0[m][f]
        \/ /\ list \in {Garbage, Truncated}
           /\ \/ \E c \in Conn :
                   pc'[c] # "unused" /\ req'[c].file = f /\ req'[c].node \in AnyReads
              \/ \E m \in Node : Index0[m][f] \in Long
  BY DEF SaidNext, SpoiltFiles, HasTooMany
<1>. HIDE DEF SaidNext
<1>. QED  BY <1>1 DEF Entered, Written, Said, MayBeSpoilt

LEMMA EnteredFrame ==
    ASSUME KeywordsInv, \A c \in Conn : Stays(c), NEW n \in Node,
           \A f \in File : \/ index'[n][f] = index[n][f]
                           \/ index'[n][f] # NoEntry => SaidNext(f, index'[n][f])
    PROVE  Entered(n)'
<1>1. \A f, list : Said(f, list) => SaidNext(f, list)
  BY SaidStays
<1>. HIDE DEF SaidNext
<1>2. \A f \in File : index'[n][f] # NoEntry => SaidNext(f, index'[n][f])
  BY <1>1 DEF KeywordsInv, Entered
<1>. QED  BY <1>2, NodeNext

LEMMA WrittenFrame ==
    ASSUME KeywordsInv, \A c \in Conn : Stays(c), NEW n \in Node, lines'[n] = lines[n]
    PROVE  Written(n)'
<1>1. \A f, list : Said(f, list) => SaidNext(f, list)
  BY SaidStays
<1>. HIDE DEF SaidNext
<1>2. \A i \in DOMAIN lines'[n] : lines'[n][i] # EmptyLine =>
        \E f : f = lines'[n][i].file /\ SaidNext(f, lines'[n][i].kws)
  BY <1>1 DEF KeywordsInv, Written
<1>. QED  BY <1>2, NodeNext

LEMMA NodesFrame ==
    ASSUME KeywordsInv, UNCHANGED <<index, lines>>, \A c \in Conn : Stays(c)
    PROVE  \A n \in Node : Entered(n)' /\ Written(n)'
BY EnteredFrame, WrittenFrame

LEMMA QuietKeywords ==
    ASSUME TypeInv, KeywordsInv, NEW c \in Conn, Quiet(c), Alone(c)
    PROVE  KeywordsInv' /\ \A d \in Conn : Stays(d)
<1>1. \A d \in Conn : Stays(d)
  BY StaysFrame DEF Quiet
<1>2. Carried(c)'
  <2>1. kws'[c] = kws[c] /\ Carried(c) /\ Used(c)
    BY DEF Quiet, KeywordsInv, TypeInv
  <2>2. \A f, list : Said(f, list) => SaidNext(f, list)
    BY <1>1, SaidStays
  <2>3. CASE pc[c] = "unused"
    <3>1. kws'[c] = NoKeywords /\ Len(down[c]) = 0
      BY <2>1, <2>3 DEF Carried, Used
    <3>2. \A i \in 1..Len(down'[c]) : down'[c][i].kind # "CONTENTS"
      BY <3>1 DEF Quiet
    <3>. QED  BY <3>1, <3>2, CarriedNext DEF SaidNext
  <2>4. CASE pc[c] # "unused"
    <3>1. pc'[c] # "unused" /\ req'[c] = req[c]
      BY <2>4 DEF Quiet, Stays
    <3>2. \A i \in 1..Len(down'[c]) :
            down'[c][i].kind = "CONTENTS" => SaidNext(req[c].file, down'[c][i].kws)
      BY <2>1, <2>2 DEF Quiet, Carried
    <3>3. SaidNext(req[c].file, kws'[c])
      BY <2>1, <2>2, <2>4 DEF Carried
    <3>. QED  BY <3>1, <3>2, <3>3, CarriedNext
  <2>. QED  BY <2>3, <2>4
<1>3. \A d \in Conn : Carried(d)'
  BY <1>2, CarriedFrame DEF Quiet
<1>4. \A n \in Node : Entered(n)' /\ Written(n)'
  BY <1>1, NodesFrame DEF Quiet
<1>. QED  BY <1>1, <1>3, <1>4 DEF KeywordsInv

LEMMA ReadContentsKeywords ==
    ASSUME TypeInv, KeywordsInv, NEW c \in Conn, ReadContents(c), Alone(c)
    PROVE  KeywordsInv' /\ \A d \in Conn : Stays(d)
<1>1. PICK k \in Glued(c) :
        /\ kws' = [kws EXCEPT ![c] = IF k = 0 THEN Head(down[c]).kws ELSE Garbage]
        /\ down' = [down EXCEPT ![c] = SubSeq(@, k + 2, Len(@))]
  BY DEF ReadContents
<1>2. /\ Typed /\ Carried(c) /\ pc[c] = "control" /\ down[c] # <<>>
      /\ Head(down[c]).kind = "CONTENTS"
      /\ UNCHANGED <<index, lines, req>>
  BY TypedIs DEF TypeInv, KeywordsInv, ReadContents, Reads, process
<1>3. pc'[c] = "open" /\ req'[c] = req[c]
  BY <1>2 DEF ReadContents, Typed
<1>4. k \in 0..Len(down[c]) - 1 /\ (req[c].node \notin AnyReads => k = 0)
  BY <1>2, GluedShape
<1>5. \A d \in Conn : Stays(d)
  BY <1>3, StaysFrame DEF Stays
<1>6. SaidNext(req[c].file, kws'[c])
  <2>1. CASE k = 0
    <3>1. 1 \in 1..Len(down[c]) /\ Head(down[c]) = down[c][1]
      BY <1>2, TailShape DEF Typed
    <3>2. Said(req[c].file, Head(down[c]).kws) /\ kws'[c] = Head(down[c]).kws
      BY <1>1, <1>2, <2>1, <3>1 DEF Carried, Typed
    <3>. QED  BY <1>5, <3>2, SaidStays
  <2>2. CASE k # 0
    <3>1. kws'[c] = Garbage /\ MayBeSpoilt(req[c].file)
      BY <1>1, <1>2, <1>4, <2>2 DEF MayBeSpoilt, Typed
    <3>2. Said(req[c].file, Garbage)
      BY <3>1 DEF Said
    <3>. QED  BY <1>5, <3>1, <3>2, SaidStays
  <2>. QED  BY <2>1, <2>2
<1>7. \A i \in 1..Len(down'[c]) :
        down'[c][i].kind = "CONTENTS" => SaidNext(req[c].file, down'[c][i].kws)
  <2>1. k + 1 \in 0..Len(down[c]) /\ (k + 1) + 1 = k + 2
    BY <1>2, <1>4 DEF Typed
  <2>2. down'[c] = SubSeq(down[c], k + 2, Len(down[c]))
    BY <1>1, <1>2 DEF Typed
  <2>3. \A i \in 1..Len(down'[c]) : \E j \in 1..Len(down[c]) : down'[c][i] = down[c][j]
    <3>. DEFINE p == k + 1
    <3>1. p \in 0..Len(down[c]) /\ down'[c] = SubSeq(down[c], p + 1, Len(down[c]))
      BY <2>1, <2>2
    <3>. HIDE DEF p
    <3>. QED  BY <1>2, <3>1, ReadsQuietly
  <2>4. \A list : Said(req[c].file, list) => SaidNext(req[c].file, list)
    BY <1>5, SaidStays
  <2>. QED  BY <1>2, <2>3, <2>4 DEF Carried
<1>8. Carried(c)'
  BY <1>3, <1>6, <1>7, CarriedNext
<1>9. \A d \in Conn : Carried(d)'
  BY <1>5, <1>8, CarriedFrame
<1>10. \A n \in Node : Entered(n)' /\ Written(n)'
  BY <1>2, <1>5, NodesFrame
<1>. QED  BY <1>5, <1>9, <1>10 DEF KeywordsInv

\* What is cut was too long from the start, was spoilt before, or is cut by a read.
LEMMA ReadContentsCutKeywords ==
    ASSUME TypeInv, KeywordsInv, NEW c \in Conn, ReadContentsCut(c), Alone(c)
    PROVE  KeywordsInv' /\ \A d \in Conn : Stays(d)
<1>1. Typed /\ Carried(c)
  BY TypedIs DEF TypeInv, KeywordsInv
<1>2. /\ pc[c] = "control" /\ pc'[c] = "open" /\ down[c] # <<>>
      /\ Head(down[c]).kind = "CONTENTS" /\ Head(down[c]).kws # NoKeywords
      /\ req[c].node \in AnyReads \/ TooLong(Head(down[c]).kws)
      /\ kws'[c] \in {NoKeywords, Garbage, Truncated}
      /\ down'[c] # <<>> /\ down'[c][1].kind = "rest"
      /\ \A i \in 1..Len(down'[c]) :
           i # 1 => i \in 1..Len(down[c]) /\ down'[c][i] = down[c][i]
      /\ UNCHANGED <<index, lines, req>>
  BY <1>1, CutReads
<1>3. \A d \in Conn : Stays(d)
  BY <1>2, StaysFrame DEF Stays
<1>4. MayBeSpoilt(req[c].file)
  <2>1. CASE req[c].node \in AnyReads
    BY <1>2, <2>1 DEF MayBeSpoilt
  <2>2. CASE TooLong(Head(down[c]).kws)
    <3>1. Said(req[c].file, Head(down[c]).kws)
      <4>1. 1 \in 1..Len(down[c]) /\ Head(down[c]) = down[c][1]
        BY <1>1, <1>2, TailShape DEF Typed
      <4>. QED  BY <1>1, <1>2, <4>1 DEF Carried
    <3>. DEFINE list == Head(down[c]).kws
    <3>2. list # NoKeywords /\ (list \in Long \/ list = Garbage)
      BY <1>2, <2>2 DEF TooLong
    <3>3. \/ \E m \in Node : list = Index0[m][req[c].file]
          \/ MayBeSpoilt(req[c].file)
      BY <3>1, <3>2 DEF Said
    <3>4. req[c] \in Download
      BY <1>2 DEF TypeInv, Used
    <3>5. \A m \in Node : Index0[m][req[c].file] # Garbage
      BY <3>4, IndexAssumption DEF Download
    <3>. HIDE DEF list
    <3>. QED  BY <3>2, <3>3, <3>5 DEF MayBeSpoilt
  <2>. QED  BY <1>2, <2>1, <2>2
<1>5. Said(req[c].file, kws'[c])
  BY <1>2, <1>4 DEF Said
<1>6. \A list : Said(req[c].file, list) => SaidNext(req[c].file, list)
  BY <1>3, SaidStays
<1>7. ASSUME NEW i \in 1..Len(down'[c]), down'[c][i].kind = "CONTENTS"
      PROVE  SaidNext(req'[c].file, down'[c][i].kws)
  <2>1. i # 1
    BY <1>2, <1>7
  <2>2. i \in 1..Len(down[c]) /\ down'[c][i] = down[c][i] /\ req'[c] = req[c]
    BY <1>2, <2>1
  <2>3. Said(req[c].file, down[c][i].kws)
    BY <1>1, <1>7, <2>2 DEF Carried
  <2>. QED  BY <1>6, <2>2, <2>3
<1>8. Carried(c)'
  <2>1. SaidNext(req'[c].file, kws'[c])
    BY <1>2, <1>5, <1>6
  <2>. QED  BY <1>2, <1>7, <2>1, CarriedNext
<1>9. \A d \in Conn : Carried(d)'
  BY <1>3, <1>8, CarriedFrame
<1>10. \A n \in Node : Entered(n)' /\ Written(n)'
  BY <1>2, <1>3, NodesFrame
<1>. QED  BY <1>3, <1>9, <1>10 DEF KeywordsInv

LEMMA AnnounceKeywords ==
    ASSUME TypeInv, KeywordsInv, NEW c \in Conn, Announce(c), Alone(c)
    PROVE  KeywordsInv' /\ \A d \in Conn : Stays(d)
<1>. DEFINE n == PartsOf(Len(Requested(c)))
            p == req[c].peer
            f == req[c].file
            list == KeywordsOf(c)
            atom == Control("CONTENTS", n, list)
<1>1. /\ Typed /\ Used(c) /\ Found(c) /\ Carried(c) /\ \A m \in Node : Entered(m)
      /\ Handles(c, "FILE-CONTENTS-REQ") /\ UNCHANGED <<req, pc, kws, lines>>
      /\ index' = [index EXCEPT ![p][f] = list]
      /\ down'[c] = SendDown(c, <<atom>>)
  BY TypedIs DEF TypeInv, KeywordsInv, Announce, Answer, Typed, client, process
<1>2. /\ req[c] \in Download /\ p \in Node /\ f \in File /\ pc[c] # "unused" /\ n \in Nat
  <2>1. handler[c] = "reading" /\ up[c] # <<>> /\ up[c][1] = "FILE-CONTENTS-REQ"
        /\ 1 \in 1..Len(up[c])
    BY <1>1, TailShape DEF Handles, Typed
  <2>2. Requested(c) # NoEntry /\ pc[c] # "unused" /\ req[c] \in Download
    BY <1>1, <2>1 DEF Found, Promised, Used
  <2>3. Requested(c) \in Seq(Nat)
    BY <1>1, <2>2 DEF Requested, Typed, Download
  <2>4. Len(Requested(c)) \in Nat /\ Len(Requested(c)) <= MaxFileSize
    BY <2>3 DEF Announce
  <2>. QED  BY <2>2, <2>4, PartsOfBound DEF Download
<1>3. list \in Keywords /\ Said(f, list)
  <2>1. index[p][f] \in Keywords \cup {NoEntry} /\ NoKeywords \in Keywords
    BY <1>1, <1>2, IndexAssumption DEF Typed
  <2>2. index[p][f] # NoEntry => Said(f, index[p][f])
    BY <1>1, <1>2 DEF Entered
  <2>. QED  BY <2>1, <2>2 DEF KeywordsOf, Said
<1>. HIDE DEF n, list, f, p
<1>4. \A d \in Conn : Stays(d)
  BY <1>1, StaysFrame DEF Stays
<1>5. SaidNext(f, list)
  BY <1>3, <1>4, SaidStays
<1>6. Carried(c)'
  <2>1. \A k : Said(f, k) => SaidNext(f, k)
    BY <1>4, SaidStays
  <2>2. SaidNext(f, kws'[c])
    BY <1>1, <1>2, <2>1 DEF Carried, f
  <2>3. \A i \in 1..Len(down'[c]) :
          down'[c][i].kind = "CONTENTS" => SaidNext(f, down'[c][i].kws)
    <3>1. atom \in Atom /\ atom.kws = list
      BY <1>2, <1>3, AtomTypes
    <3>. HIDE DEF atom
    <3>2. /\ <<atom>> \in Seq(Atom) /\ Len(<<atom>>) = 1
          /\ \A i \in 1..Len(<<atom>>) : <<atom>>[i] = atom
      BY <3>1, SingleShape
    <3>. DEFINE atoms == <<atom>>
    <3>3. atoms \in Seq(Atom) /\ \A i \in 1..Len(atoms) : atoms[i].kws = list
      BY <3>1, <3>2
    <3>4. down'[c] = SendDown(c, atoms)
      BY <1>1
    <3>. HIDE DEF atoms
    <3>5. ASSUME NEW i \in 1..Len(down'[c]), down'[c][i].kind = "CONTENTS"
          PROVE  SaidNext(f, down'[c][i].kws)
      <4>1. \/ i \in 1..Len(down[c]) /\ down'[c][i] = down[c][i]
            \/ /\ i - Len(down[c]) \in 1..Len(atoms)
               /\ down'[c][i] = atoms[i - Len(down[c])]
        BY <1>1, <3>3, <3>4, SendDownType
      <4>2. down'[c][i] = down[c][i] /\ i \in 1..Len(down[c]) => Said(f, down'[c][i].kws)
        BY <1>1, <3>5 DEF Carried, f
      <4>. QED  BY <1>5, <2>1, <3>3, <4>1, <4>2
    <3>. QED  BY <3>5
  <2>. QED  BY <1>1, <1>2, <2>2, <2>3, CarriedNext DEF f
<1>7. \A d \in Conn : Carried(d)'
  BY <1>4, <1>6, CarriedFrame
<1>8. \A m \in Node : Entered(m)' /\ Written(m)'
  <2>1. \A m \in Node, g \in File :
          index'[m][g] = index[m][g] \/ (g = f /\ index'[m][g] = list)
    BY <1>1, <1>2 DEF Typed
  <2>2. ASSUME NEW m \in Node PROVE Entered(m)'
    <3>1. \A g \in File : \/ index'[m][g] = index[m][g]
                          \/ index'[m][g] # NoEntry => SaidNext(g, index'[m][g])
      BY <1>5, <2>1
    <3>. QED  BY <1>4, <3>1, EnteredFrame
  <2>. QED  BY <1>1, <1>4, <2>2, WrittenFrame
<1>. QED  BY <1>4, <1>7, <1>8 DEF KeywordsInv

LEMMA AppendedShape ==
    ASSUME Typed, NEW c \in Conn, req[c] \in Download, NEW n \in Node
    PROVE  /\ lines[n] \in Seq(IndexLine) /\ Line(c) \in IndexLine /\ Line(c) # EmptyLine
           /\ Line(c).file = req[c].file /\ Line(c).kws = kws[c]
           /\ lines[n] \o Appended(n, c) = Append(lines[n], Line(c))
                \/ lines[n] \o Appended(n, c) = Append(Append(lines[n], EmptyLine), Line(c))
           /\ n \notin NewlineEnded =>
                lines[n] \o Appended(n, c) = Append(lines[n], Line(c))
<1>1. lines[n] \in Seq(IndexLine) /\ EmptyLine \in IndexLine
  BY DEF Typed, IndexLine
<1>2. Line(c) \in [file : File, kws : Keywords]
  BY DEF Line, Download, Typed
<1>3. Line(c) \in IndexLine /\ Line(c) # EmptyLine
  BY <1>2, IndexAssumption DEF IndexLine, EmptyLine
<1>4. Line(c).file = req[c].file /\ Line(c).kws = kws[c]
  BY DEF Line
<1>5. \A s \in Seq(IndexLine), x \in IndexLine, y \in IndexLine :
        s \o <<x>> = Append(s, x) /\ s \o <<x, y>> = Append(Append(s, x), y)
  OBVIOUS
<1>6. Appended(n, c) = <<Line(c)>> \/ Appended(n, c) = <<EmptyLine, Line(c)>>
  BY DEF Appended
<1>7. n \notin NewlineEnded => Appended(n, c) = <<Line(c)>>
  BY DEF Appended, EndsWithNewline
<1>. HIDE DEF Line, EmptyLine
<1>8. /\ lines[n] \o <<Line(c)>> = Append(lines[n], Line(c))
      /\ lines[n] \o <<EmptyLine, Line(c)>> = Append(Append(lines[n], EmptyLine), Line(c))
  BY <1>1, <1>3, <1>5
<1>. QED  BY <1>1, <1>3, <1>4, <1>6, <1>7, <1>8

LEMMA RecordKeywords ==
    ASSUME TypeInv, KeywordsInv, NEW c \in Conn, Record(c), Alone(c)
    PROVE  KeywordsInv' /\ \A d \in Conn : Stays(d)
<1>. DEFINE n == req[c].node
            f == req[c].file
<1>1. /\ Typed /\ Used(c) /\ Carried(c) /\ UNCHANGED <<req, kws, down>>
      /\ index' = [index EXCEPT ![n][f] = kws[c]]
      /\ pc[c] = "record" /\ pc'[c] = "done"
      /\ lines' = lines \/ lines' = [lines EXCEPT ![n] = @ \o Appended(n, c)]
  BY TypedIs DEF TypeInv, KeywordsInv, Record, Typed
<1>2. req[c] \in Download /\ n \in Node /\ f \in File
  BY <1>1 DEF Used, Download
<1>. HIDE DEF n, f
<1>3. \A d \in Conn : Stays(d)
  BY <1>1, StaysFrame DEF Stays
<1>4. \A g, k : Said(g, k) => SaidNext(g, k)
  BY <1>3, SaidStays
<1>5. SaidNext(f, kws[c])
  BY <1>1, <1>4 DEF Carried, f
<1>6. Carried(c)'
  <2>1. \A i \in 1..Len(down'[c]) :
          down'[c][i].kind = "CONTENTS" => SaidNext(f, down'[c][i].kws)
    BY <1>1, <1>4 DEF Carried, f
  <2>. QED  BY <1>1, <1>5, <2>1, CarriedNext DEF f
<1>7. \A d \in Conn : Carried(d)'
  BY <1>3, <1>6, CarriedFrame
<1>8. ASSUME NEW m \in Node PROVE Entered(m)'
  <2>1. \A g \in File : index'[m][g] = index[m][g] \/ (g = f /\ index'[m][g] = kws[c])
    BY <1>1, <1>2 DEF Typed
  <2>2. \A g \in File : \/ index'[m][g] = index[m][g]
                        \/ index'[m][g] # NoEntry => SaidNext(g, index'[m][g])
    BY <1>5, <2>1
  <2>. QED  BY <1>3, <2>2, EnteredFrame
<1>9. ASSUME NEW m \in Node PROVE Written(m)'
  <2>1. CASE lines'[m] = lines[m]
    BY <1>3, <2>1, WrittenFrame
  <2>2. CASE lines'[m] # lines[m]
    <3>1. m = n /\ lines'[n] = lines[n] \o Appended(n, c)
      BY <1>1, <1>2, <2>2 DEF Typed
    <3>2. \A i \in DOMAIN lines'[n] :
            \/ i \in DOMAIN lines[n] /\ lines'[n][i] = lines[n][i]
            \/ lines'[n][i] = EmptyLine \/ lines'[n][i] = Line(c)
      <4>1. ASSUME NEW s \in Seq(IndexLine), NEW x \in IndexLine, NEW i \in DOMAIN Append(s, x)
            PROVE  (i \in DOMAIN s /\ Append(s, x)[i] = s[i]) \/ Append(s, x)[i] = x
        BY <4>1
      <4>2. Append(lines[n], EmptyLine) \in Seq(IndexLine) /\ EmptyLine \in IndexLine
        BY <1>1, <1>2, AppendedShape DEF IndexLine
      <4>3. lines[n] \in Seq(IndexLine) /\ Line(c) \in IndexLine
        BY <1>1, <1>2, AppendedShape
      <4>4. CASE lines'[n] = Append(lines[n], Line(c))
        BY <4>1, <4>3, <4>4
      <4>5. CASE lines'[n] = Append(Append(lines[n], EmptyLine), Line(c))
        <5>1. ASSUME NEW i \in DOMAIN lines'[n]
              PROVE  \/ /\ i \in DOMAIN Append(lines[n], EmptyLine)
                        /\ lines'[n][i] = Append(lines[n], EmptyLine)[i]
                     \/ lines'[n][i] = Line(c)
          BY <4>1, <4>2, <4>3, <4>5
        <5>. QED  BY <4>1, <4>2, <4>3, <5>1
      <4>. QED  BY <1>1, <1>2, <3>1, <4>4, <4>5, AppendedShape
    <3>3. Line(c).file = f /\ Line(c).kws = kws[c]
      BY <1>1, <1>2, AppendedShape DEF f
    <3>4. ASSUME NEW i \in DOMAIN lines'[n], lines'[n][i] # EmptyLine
          PROVE  \E g : g = lines'[n][i].file /\ SaidNext(g, lines'[n][i].kws)
      <4>1. CASE i \in DOMAIN lines[n] /\ lines'[n][i] = lines[n][i]
        <5>1. Said(lines[n][i].file, lines[n][i].kws)
          BY <1>2, <3>4, <4>1 DEF KeywordsInv, Written
        <5>. QED  BY <1>4, <4>1, <5>1
      <4>2. CASE lines'[n][i] = Line(c)
        BY <1>5, <3>3, <4>2
      <4>. QED  BY <3>2, <3>4, <4>1, <4>2
    <3>. QED  BY <1>2, <3>1, <3>4, NodeNext
  <2>. QED  BY <2>1, <2>2
<1>. QED  BY <1>3, <1>7, <1>8, <1>9 DEF KeywordsInv

LEMMA StaysNode ==
    ASSUME TypeInv, KeywordsInv, \A c \in Conn : Stays(c),
           UNCHANGED <<req, kws, down, lines>>, \A c \in Conn : pc'[c] = "unused" => pc[c] = "unused",
           \A n \in Node, f \in File :
             \/ index'[n][f] = index[n][f]
             \/ index'[n][f] # NoEntry => SaidNext(f, index'[n][f])
    PROVE  KeywordsInv'
<1>. HIDE DEF SaidNext
<1>1. ASSUME NEW c \in Conn PROVE Carried(c)'
  <2>1. \A f, list : Said(f, list) => SaidNext(f, list)
    BY SaidStays
  <2>2. Carried(c)
    BY DEF KeywordsInv
  <2>3. pc'[c] = "unused" => kws'[c] = NoKeywords
    BY <2>2 DEF Carried
  <2>4. pc'[c] # "unused" => SaidNext(req'[c].file, kws'[c])
    <3>1. pc[c] # "unused" => SaidNext(req[c].file, kws[c])
      BY <2>1, <2>2 DEF Carried
    <3>2. pc[c] = "unused" => kws[c] = NoKeywords
      BY <2>2 DEF Carried
    <3>3. SaidNext(req[c].file, kws[c])
      BY <3>1, <3>2 DEF SaidNext
    <3>. QED  BY <3>3
  <2>5. \A i \in 1..Len(down'[c]) :
          down'[c][i].kind = "CONTENTS" => SaidNext(req'[c].file, down'[c][i].kws)
    BY <2>1, <2>2 DEF Carried
  <2>. QED  BY <2>3, <2>4, <2>5, CarriedNext
<1>2. ASSUME NEW n \in Node PROVE Entered(n)' /\ Written(n)'
  BY EnteredFrame, WrittenFrame
<1>. QED  BY <1>1, <1>2 DEF KeywordsInv

LEMMA DiesKeywords ==
    ASSUME TypeInv, KeywordsInv, NEW n \in Node, Dies(n)
    PROVE  KeywordsInv' /\ \A d \in Conn : Stays(d)
<1>1. /\ UNCHANGED <<req, kws, down, lines, index>>
      /\ \A c \in Conn : pc'[c] = "unused" <=> pc[c] = "unused"
  BY DEF Dies
<1>2. \A c \in Conn : Stays(c)
  BY <1>1 DEF Stays
<1>. QED  BY <1>1, <1>2, StaysNode

LEMMA RestartKeywords ==
    ASSUME TypeInv, KeywordsInv, NEW n \in Node, Restart(n)
    PROVE  KeywordsInv' /\ \A d \in Conn : Stays(d)
<1>1. /\ UNCHANGED <<req, pc, kws, down, lines>>
      /\ index' = [index EXCEPT ![n] = IndexRead(n)] /\ Typed
  BY TypedIs DEF TypeInv, Restart, client
<1>2. \A c \in Conn : Stays(c)
  BY <1>1 DEF Stays
<1>3. ASSUME NEW m \in Node, NEW f \in File
      PROVE  \/ index'[m][f] = index[m][f]
             \/ index'[m][f] # NoEntry => SaidNext(f, index'[m][f])
  <2>1. CASE m # n
    BY <1>1, <2>1 DEF Typed
  <2>2. CASE m = n
    <3>1. index'[n][f] = IndexRead(n)[f]
      BY <1>1, <2>2 DEF Typed
    <3>2. CASE IndexRead(n)[f] = Index0[n][f]
      BY <2>2, <3>1, <3>2 DEF SaidNext
    <3>3. ASSUME NEW i \in 1..Len(lines[n]), lines[n][i] # EmptyLine, lines[n][i].file = f,
                 IndexRead(n)[f] = lines[n][i].kws
          PROVE  SaidNext(f, index'[m][f])
      <4>1. i \in DOMAIN lines[n]
        BY <1>1 DEF Typed
      <4>2. Said(f, lines[n][i].kws)
        BY <3>3, <4>1 DEF KeywordsInv, Written
      <4>. QED  BY <1>2, <2>2, <3>1, <3>3, <4>2, SaidStays
    <3>4. LastSays(n, f)
      BY <1>1, IndexReadShape
    <3>. QED  BY <3>2, <3>3, <3>4, <2>2 DEF LastSays
  <2>. QED  BY <2>1, <2>2
<1>. QED  BY <1>1, <1>2, <1>3, StaysNode

\* What one step of a connection may be.
LEMMA ConnSteps ==
    ASSUME TypeInv, NEW c \in Conn, User(c) \/ Client(c) \/ Handler(c) \/ Reset(c)
    PROVE  \/ /\ Alone(c)
              /\ \/ Quiet(c) \/ ReadContents(c) \/ ReadContentsCut(c)
                 \/ Record(c) \/ Announce(c)
           \/ req[c].peer \in Node /\ Dies(req[c].peer)
<1>1. KeepsTypes(c) \/ (Dies(req[c].peer) /\ req[c] \in Download)
  BY ConnTypes
<1>2. CASE Dies(req[c].peer) /\ req[c] \in Download
  BY <1>2 DEF Download
<1>3. CASE KeepsTypes(c)
  <2>1. Typed /\ Used(c) /\ Found(c) /\ Alone(c)
    BY <1>3, TypedIs DEF TypeInv, KeepsTypes
  <2>2. CASE SendFile(c)
    BY <2>1, <2>2, SendFileSends, BytesQuiet
  <2>3. CASE SendOverrun(c)
    <3>1. handler[c] = "sending"
      BY <2>3 DEF SendOverrun
    <3>2. req[c].peer \in Node
      BY <2>1, <3>1, Sending DEF Download
    <3>. QED  BY <2>1, <2>3, <3>2, OverrunSends, BytesQuiet
  <2>4. CASE Reset(c)
    BY <2>1, <2>4 DEF Reset, Quiet, Stays, client, process
  <2>. QED  BY <2>1, <2>2, <2>3, <2>4, UserQuiet, ClientQuiet, HandlerQuiet
<1>. QED  BY <1>1, <1>2, <1>3

LEMMA KeywordsStep ==
    ASSUME TypeInv, KeywordsInv, [Next]_vars
    PROVE  KeywordsInv' /\ \A d \in Conn : Stays(d)
<1>1. ASSUME NEW c \in Conn, User(c) \/ Client(c) \/ Handler(c) \/ Reset(c)
      PROVE  KeywordsInv' /\ \A d \in Conn : Stays(d)
  BY <1>1, ConnSteps, QuietKeywords, ReadContentsKeywords, ReadContentsCutKeywords,
     RecordKeywords, AnnounceKeywords, DiesKeywords
<1>2. ASSUME NEW n \in Node, Kill(n) \/ Restart(n)
      PROVE  KeywordsInv' /\ \A d \in Conn : Stays(d)
  BY <1>2, DiesKeywords, RestartKeywords DEF Kill
<1>3. CASE UNCHANGED vars
  BY <1>3 DEF vars, client, server, process, KeywordsInv, Entered, Written, Carried, Said,
              MayBeSpoilt, Stays
<1>. QED  BY <1>1, <1>2, <1>3 DEF Next

LEMMA KeywordsInit == Init => KeywordsInv
<1>. SUFFICES ASSUME Init PROVE KeywordsInv
  OBVIOUS
<1>1. ASSUME NEW n \in Node PROVE Entered(n) /\ Written(n)
  BY DEF Init, Entered, Written, Said
<1>2. ASSUME NEW c \in Conn PROVE Carried(c)
  <2>1. pc[c] = "unused" /\ kws[c] = NoKeywords /\ Len(down[c]) = 0
    BY DEF Init
  <2>. QED  BY <2>1 DEF Carried
<1>. QED  BY <1>1, <1>2 DEF KeywordsInv

THEOREM KeywordsHold == Spec => []KeywordsInv
<1>1. TypeInv /\ KeywordsInv /\ [Next]_vars => KeywordsInv'
  BY KeywordsStep
<1>. QED  BY <1>1, KeywordsInit, TypesHold, PTL DEF Spec

\* What a node records as the keywords of a file it downloaded is nothing or what a
\* first holder says (lines 292, 403-408), however often it was passed on, killed and
\* read again; only a read that cuts the message, or glues bytes of the file to it, and a
\* message too long for the buffer spoil it.
THEOREM KeywordsAreTrue == Spec => []KeywordsTrue
<1>1. KeywordsInv => KeywordsTrue
  BY DEF KeywordsInv, Entered, Said, KeywordsTrue
<1>. QED  BY <1>1, KeywordsHold, PTL

(* The index file holds what the index held.                               *)

Rewritten == Node \ (FixedIndex \cup NewlineEnded)

\* No empty line makes main read past the end, and what main would read of n's file
\* is what n's index says; a failed look-up leaves an empty list.
Recorded(n) ==
    /\ \A i \in DOMAIN lines[n] : lines[n][i] # EmptyLine
    /\ \A f \in File :
         \/ index[n][f] = IndexRead(n)[f]
         \/ index[n][f] = NoKeywords /\ IndexRead(n)[f] = NoEntry

IndexInv == \A n \in Rewritten : Recorded(n)

LEMMA SameRecorded ==
    ASSUME NEW n, Recorded(n), lines'[n] = lines[n], index'[n] = index[n]
    PROVE  Recorded(n)'
<1>1. IndexRead(n)' = IndexRead(n)
  BY DEF IndexRead
<1>. QED  BY <1>1 DEF Recorded

LEMMA AllLastSay == TypeInv => \A n \in Node, f \in File : LastSays(n, f)
BY IndexReadShape, TypedIs DEF TypeInv

LEMMA AllLastSayNext == TypeInv' => \A n \in Node, f \in File : LastSays(n, f)'
<1>1. TypeInv' => (\A n \in Node, f \in File : LastSays(n, f))'
  BY AllLastSay, PTL
<1>. QED  BY <1>1

LEMMA RecordRecorded ==
    ASSUME TypeInv, TypeInv', IndexInv, NEW c \in Conn, Record(c)
    PROVE  IndexInv'
<1>. req[c] \in Download
  BY DEF TypeInv, Used, Record
<1>. PICK n \in Node, f \in File : n = req[c].node /\ f = req[c].file
  BY DEF Download
<1>1. /\ Typed /\ Used(c)
      /\ index' = [index EXCEPT ![n][f] = kws[c]]
      /\ n \notin FixedIndex =>
           lines' = [lines EXCEPT ![n] = @ \o Appended(n, c)]
      /\ n \in FixedIndex => lines' = lines
  BY TypedIs DEF TypeInv, Record, Typed
<1>2. req[c] \in Download /\ n \in Node /\ f \in File
  BY <1>1 DEF Used, Download, Record
<1>4. \A m \in Node, g \in File : LastSays(m, g)
  BY AllLastSay
<1>5. \A m \in Node, g \in File : LastSays(m, g)'
  BY AllLastSayNext
<1>6. ASSUME NEW m \in Rewritten PROVE Recorded(m)'
  <2>1. m \in Node /\ m \notin FixedIndex /\ m \notin NewlineEnded /\ Recorded(m)
    BY <1>6 DEF Rewritten, IndexInv
  <2>2. CASE m # n
    <3>1. lines'[m] = lines[m] /\ index'[m] = index[m]
      BY <1>1, <1>2, <2>1, <2>2 DEF Typed, Record
    <3>. QED  BY <2>1, <3>1, SameRecorded
  <2>3. CASE m = n
    <3>1. lines'[n] = Append(lines[n], Line(c))
      <4>1. lines'[n] = lines[n] \o Appended(n, c)
        BY <1>1, <1>2, <2>1, <2>3 DEF Typed, Record
      <4>. QED  BY <1>1, <1>2, <2>1, <2>3, <4>1, AppendedShape
    <3>. DEFINE last == Len(lines[n]) + 1
    <3>2. /\ Len(lines'[n]) = last /\ last \in 1..Len(lines'[n])
          /\ lines'[n][last] = Line(c) /\ DOMAIN lines'[n] = 1..last
          /\ \A i \in 1..Len(lines[n]) : i # last /\ i < last /\ lines'[n][i] = lines[n][i]
          /\ \A i \in 1..last : i = last \/ i \in 1..Len(lines[n])
          /\ DOMAIN lines[n] = 1..Len(lines[n]) /\ last \in Nat
      BY <1>1, <1>2, <3>1, AppendedShape
    <3>3. Line(c) # EmptyLine /\ Line(c).file = f /\ Line(c).kws = kws[c]
      BY <1>1, <1>2, AppendedShape
    <3>. HIDE DEF last
    <3>4. \A i \in DOMAIN lines'[n] : lines'[n][i] # EmptyLine
      BY <2>1, <2>3, <3>2, <3>3 DEF Recorded
    <3>5. ASSUME NEW g \in File
          PROVE  \/ index'[n][g] = IndexRead(n)'[g]
                 \/ index'[n][g] = NoKeywords /\ IndexRead(n)'[g] = NoEntry
      <4>1. CASE g = f
        <5>1. index'[n][f] = kws[c]
          BY <1>1, <1>2 DEF Typed
        <5>2. PICK i \in 1..Len(lines'[n]) :
                /\ lines'[n][i].file = f /\ IndexRead(n)'[f] = lines'[n][i].kws
                /\ \A j \in 1..Len(lines'[n]) :
                     lines'[n][j] # EmptyLine /\ lines'[n][j].file = f => j <= i
          BY <1>2, <1>5, <3>2, <3>3, <4>1 DEF LastSays
        <5>3. last <= i
          BY <3>2, <3>3, <5>2
        <5>4. i = last
          BY <3>2, <5>3
        <5>. QED  BY <3>2, <3>3, <4>1, <5>1, <5>2, <5>4
      <4>2. CASE g # f
        <5>1. index'[n][g] = index[n][g]
          BY <1>1, <1>2, <4>2 DEF Typed
        <5>2. IndexRead(n)'[g] = IndexRead(n)[g]
          <6>1. CASE \A i \in 1..Len(lines[n]) : lines[n][i] # EmptyLine => lines[n][i].file # g
            <7>1. \A i \in 1..Len(lines'[n]) :
                    lines'[n][i] # EmptyLine => lines'[n][i].file # g
              BY <3>2, <3>3, <4>2, <6>1
            <7>2. IndexRead(n)'[g] = Index0[n][g]
              BY <1>2, <1>5, <7>1 DEF LastSays
            <7>3. IndexRead(n)[g] = Index0[n][g]
              BY <1>2, <1>4, <6>1 DEF LastSays
            <7>. QED  BY <7>2, <7>3
          <6>2. CASE \E i \in 1..Len(lines[n]) : lines[n][i] # EmptyLine /\ lines[n][i].file = g
            <7>1. PICK i \in 1..Len(lines[n]) :
                    /\ lines[n][i] # EmptyLine /\ lines[n][i].file = g
                    /\ IndexRead(n)[g] = lines[n][i].kws
                    /\ \A j \in 1..Len(lines[n]) :
                         lines[n][j] # EmptyLine /\ lines[n][j].file = g => j <= i
              BY <1>2, <1>4, <6>2 DEF LastSays
            <7>2. i \in 1..Len(lines'[n]) /\ lines'[n][i] # EmptyLine /\ lines'[n][i].file = g
              BY <3>2, <7>1
            <7>3. PICK k \in 1..Len(lines'[n]) :
                    /\ lines'[n][k] # EmptyLine /\ lines'[n][k].file = g
                    /\ IndexRead(n)'[g] = lines'[n][k].kws
                    /\ \A j \in 1..Len(lines'[n]) :
                         lines'[n][j] # EmptyLine /\ lines'[n][j].file = g => j <= k
              BY <1>2, <1>5, <7>2 DEF LastSays
            <7>4. k \in 1..Len(lines[n])
              BY <3>2, <3>3, <4>2, <7>3
            <7>5. i <= k /\ k <= i
              BY <3>2, <7>1, <7>2, <7>3, <7>4
            <7>6. i = k
              BY <7>4, <7>5
            <7>. QED  BY <3>2, <7>1, <7>3, <7>6
          <6>. QED  BY <6>1, <6>2
        <5>. QED  BY <2>1, <2>3, <5>1, <5>2 DEF Recorded
      <4>. QED  BY <4>1, <4>2
    <3>. QED  BY <2>3, <3>4, <3>5 DEF Recorded
  <2>. QED  BY <2>2, <2>3
<1>. QED  BY <1>6 DEF IndexInv

LEMMA AnnounceRecorded ==
    ASSUME TypeInv, IndexInv, NEW c \in Conn, Announce(c)
    PROVE  IndexInv'
<1>1. index' = [index EXCEPT ![req[c].peer][req[c].file] = KeywordsOf(c)] /\ lines' = lines
  BY DEF Announce, process
<1>2. Typed
  BY TypedIs DEF TypeInv
<1>3. ASSUME NEW m \in Rewritten PROVE Recorded(m)'
  <2>1. m \in Node /\ Recorded(m)
    BY <1>3 DEF Rewritten, IndexInv
  <2>2. IndexRead(m)' = IndexRead(m)
    BY <1>1 DEF IndexRead
  <2>3. ASSUME NEW f \in File
        PROVE  index'[m][f] = index[m][f] \/ (index[m][f] = NoEntry /\ index'[m][f] = NoKeywords)
    BY <1>1, <1>2, <2>1 DEF Typed, KeywordsOf
  <2>4. NoEntry # NoKeywords
    BY IndexAssumption
  <2>. QED  BY <1>1, <2>1, <2>2, <2>3, <2>4 DEF Recorded
<1>. QED  BY <1>3 DEF IndexInv

LEMMA RestartRecorded ==
    ASSUME TypeInv, IndexInv, NEW n \in Node, Restart(n)
    PROVE  IndexInv'
<1>1. index' = [index EXCEPT ![n] = IndexRead(n)] /\ lines' = lines
  BY DEF Restart
<1>2. Typed
  BY TypedIs DEF TypeInv
<1>3. ASSUME NEW m \in Rewritten PROVE Recorded(m)'
  <2>1. m \in Node /\ Recorded(m)
    BY <1>3 DEF Rewritten, IndexInv
  <2>2. IndexRead(m)' = IndexRead(m)
    BY <1>1 DEF IndexRead
  <2>3. index'[m] = index[m] \/ index'[m] = IndexRead(m)
    BY <1>1, <1>2, <2>1 DEF Typed
  <2>. QED  BY <1>1, <2>1, <2>2, <2>3 DEF Recorded
<1>. QED  BY <1>3 DEF IndexInv

LEMMA IndexStep ==
    ASSUME TypeInv, TypeInv', IndexInv, [Next]_vars
    PROVE  IndexInv'
<1>1. ASSUME UNCHANGED <<index, lines>> PROVE IndexInv'
  BY <1>1, SameRecorded DEF IndexInv
<1>2. ASSUME NEW c \in Conn, User(c) \/ Client(c) \/ Handler(c) \/ Reset(c) PROVE IndexInv'
  <2>1. CASE Quiet(c)
    BY <1>1, <2>1 DEF Quiet
  <2>2. CASE ReadContents(c) \/ ReadContentsCut(c)
    BY <1>1, <2>2 DEF ReadContents, ReadContentsCut, process
  <2>3. ASSUME NEW n \in Node, Dies(n) PROVE IndexInv'
    BY <1>1, <2>3 DEF Dies
  <2>. QED  BY <1>2, <2>1, <2>2, <2>3, ConnSteps, RecordRecorded, AnnounceRecorded
<1>3. ASSUME NEW n \in Node, Kill(n) \/ Restart(n) PROVE IndexInv'
  <2>1. CASE Kill(n)
    BY <1>1, <2>1 DEF Kill, Dies
  <2>. QED  BY <1>3, <2>1, RestartRecorded
<1>4. CASE UNCHANGED vars
  BY <1>1, <1>4 DEF vars, process
<1>. QED  BY <1>2, <1>3, <1>4 DEF Next

LEMMA IndexInit == Init => IndexInv
<1>. SUFFICES ASSUME Init, NEW n \in Node PROVE Recorded(n)
  BY DEF IndexInv, Rewritten
<1>1. lines[n] = <<>> /\ index[n] = Index0[n]
  BY DEF Init
<1>2. DOMAIN lines[n] = {} /\ IndexRead(n) = [f \in File |-> Index0[n][f]]
  BY <1>1 DEF IndexRead
<1>. QED  BY <1>1, <1>2 DEF Recorded

LEMMA SurvivesBecause ==
    ASSUME TypeInv, KeywordsInv, IndexInv PROVE IndexSurvives
<1>1. ASSUME NEW n \in Rewritten, NEW i \in DOMAIN lines[n]
      PROVE  /\ lines[n][i] # EmptyLine
             /\ Readable(lines[n][i]) \/ MayBeSpoilt(lines[n][i].file)
  <2>1. Typed /\ n \in Node /\ Recorded(n) /\ Written(n)
    BY <1>1, TypedIs DEF TypeInv, KeywordsInv, IndexInv, Rewritten
  <2>2. lines[n][i] # EmptyLine /\ lines[n][i] \in IndexLine
    BY <2>1 DEF Recorded, Typed
  <2>3. ASSUME lines[n][i].kws = Garbage PROVE MayBeSpoilt(lines[n][i].file)
    <3>1. Said(lines[n][i].file, Garbage) /\ lines[n][i].file \in File
      BY <2>1, <2>2, <2>3 DEF Written, IndexLine
    <3>2. \A m \in Node : Index0[m][lines[n][i].file] # Garbage
      BY <3>1, IndexAssumption
    <3>. QED  BY <3>1, <3>2, IndexAssumption DEF Said
  <2>. QED  BY <2>2, <2>3 DEF Readable
<1>2. ASSUME NEW n \in Rewritten, NEW f \in File
      PROVE  \/ index[n][f] = IndexRead(n)[f]
             \/ index[n][f] = NoKeywords /\ IndexRead(n)[f] = NoEntry
  BY <1>2 DEF IndexInv, Recorded
<1>. QED  BY <1>1, <1>2, Zenon DEF IndexSurvives, Rewritten

\* REPORT.md:27: after a restart main reads the index that the process had when it was
\* killed, and every line it had appended: for any number of downloads and restarts,
\* if the file did not end with a newline and can be written, and but for the lines of
\* files whose keywords may have been spoilt.
THEOREM IndexIsPermanent == Spec => []IndexSurvives
<1>1. TypeInv /\ TypeInv' /\ IndexInv /\ [Next]_vars => IndexInv'
  BY IndexStep
<1>2. Spec => []IndexInv
  BY <1>1, IndexInit, TypesHold, PTL DEF Spec
<1>3. TypeInv /\ KeywordsInv /\ IndexInv => IndexSurvives
  BY SurvivesBecause
<1>. QED  BY <1>2, <1>3, TypesHold, KeywordsHold, PTL

----------------------------------------------------------------------------
(* Copies.  Where the client of a connection is in the stream of its peer.  *)

\* Row j of a copy holds characters of the content from the start of part j on.
Holds(R, content, j) ==
    /\ Len(R[j]) <= MsgSize
    /\ \A x \in 1..Len(R[j]) :
         (j - 1) * MsgSize + x <= Len(content) /\ R[j][x] = content[(j - 1) * MsgSize + x]

\* It holds all of them.
Whole(R, content, j) ==
    Len(R[j]) = MsgSize \/ (j - 1) * MsgSize + Len(R[j]) = Len(content)

\* Nothing follows a row that is not full.
NoGap(R, j) == Len(R[j]) < MsgSize => \A i \in DOMAIN R : i > j => R[i] = <<>>

Beginning(R, content) == \A j \in DOMAIN R : Holds(R, content, j) /\ NoGap(R, j)

AllEmpty(R) == \A j \in DOMAIN R : R[j] = <<>>

\* What is left of a stream after p bytes.
After(stream, p) == SubSeq(stream, p + 1, Len(stream))

Begins(s, t) == Len(s) <= Len(t) /\ \A i \in 1..Len(s) : s[i] = t[i]

Exact(c) == IF pc[c] = "unused" THEN sent[c] = <<>> ELSE Begins(sent[c], Original(req[c].file))

\* What send_file may send of a content.
Streams(content) == IF content = <<>> THEN EmptySent ELSE {PartsSent(content)}

Stream(c) == PartsSent(sent[c])

Replies(c) ==
    \/ down[c] = <<>>
    \/ Len(down[c]) = 1 /\ down[c][1].kind \in {"YES", "NO", "DISCONNECT"}

Announces(c) ==
    /\ down[c] # <<>> /\ Head(down[c]).kind = "CONTENTS" /\ Head(down[c]).val = announced[c]
    /\ announced[c] <= MaxFileSize /\ up[c] = <<>>
    /\ \/ Tail(down[c]) = <<>>
       \/ handler[c] # "sending" /\ Tail(down[c]) \in Streams(sent[c])

\* The client reads control messages.
Controls(c) == pc[c] = "control" =>
    /\ parts[c] = 0 /\ Len(up[c]) <= 1
    /\ up[c] # <<>> => handler[c] # "sending" /\ (handler[c] = "ended" \/ down[c] = <<>>)
    /\ Replies(c) \/ Announces(c)
    /\ down[c] # <<>> /\ Head(down[c]).kind = "YES" => up[c] = <<>> /\ handler[c] # "sending"
    /\ handler[c] = "sending" => IF down[c] = <<>> THEN link[c] # "up" ELSE Announces(c)

\* Nothing was announced and nothing will come.
Zero(c) == parts[c] = 0 /\ rows[c] = <<>> /\ down[c] = <<>> /\ link[c] # "up"

Waits(c) == down[c] = <<>> /\ AllEmpty(rows[c])

\* The client has read i whole parts.
Aligned(c, i) ==
    /\ handler[c] # "sending"
    /\ i * RowSize <= Len(Stream(c)) /\ down[c] = After(Stream(c), i * RowSize)
    /\ \A j \in DOMAIN rows[c] :
         IF j <= i THEN Whole(rows[c], sent[c], j) ELSE rows[c][j] = <<>>

\* The next byte is not the number of a part.
Spoilt(c) ==
    /\ handler[c] = "sending" => AllEmpty(rows[c]) /\ down[c] # <<>>
    /\ req[c].node \in AnyReads \/ AllEmpty(rows[c])
    /\ down[c] = <<>> \/ Head(down[c]).val \notin 1..parts[c]

Announced(c) == up[c] = <<>> /\ parts[c] = announced[c] /\ announced[c] <= MaxFileSize

\* The client reads parts.
Receives(c) == pc[c] \in {"open", "receive"} =>
    \/ Zero(c)
    \/ /\ Announced(c) /\ Beginning(rows[c], sent[c])
       /\ Waits(c) \/ Spoilt(c)
          \/ \E i \in 0..Len(Stream(c)) : Aligned(c, i) /\ (pc[c] = "open" => i = 0)

\* The client has what it writes.
Writes(c) == pc[c] \in {"write", "record"} =>
    \/ rows[c] = <<>>
    \/ /\ Announced(c) /\ Beginning(rows[c], sent[c])
       /\ handler[c] = "sending" => AllEmpty(rows[c])
       /\ \/ req[c].node \in AnyReads \/ ~AllFound(rows[c])
          \/ \A j \in DOMAIN rows[c] : Whole(rows[c], sent[c], j)

Copying(c) == Exact(c) /\ Controls(c) /\ Receives(c) /\ Writes(c)

Copies == \A n \in Node, f \in File : disk[n][f] # NoEntry => Begins(disk[n][f], Original(f))

CopyInv == Copies /\ \A c \in Conn : Copying(c)

(* The stream.                                                             *)

LEMMA AfterShape ==
    ASSUME NEW T, NEW s \in Seq(T), NEW p \in 0..Len(s)
    PROVE  /\ After(s, p) \in Seq(T) /\ Len(After(s, p)) = Len(s) - p
           /\ \A i \in 1..Len(s) - p : i + p \in 1..Len(s) /\ After(s, p)[i] = s[i + p]
           /\ After(s, p) # <<>> =>
                p + 1 \in 1..Len(s) /\ 1 \in 1..Len(s) - p /\ Head(After(s, p)) = s[p + 1]
<1>1. /\ After(s, p) \in Seq(T) /\ Len(After(s, p)) = Len(s) - p
      /\ \A i \in 1..Len(s) - p : i + p \in 1..Len(s) /\ After(s, p)[i] = s[i + p]
  BY RestShape DEF After
<1>2. ASSUME After(s, p) # <<>>
      PROVE  p + 1 \in 1..Len(s) /\ 1 \in 1..Len(s) - p /\ Head(After(s, p)) = s[p + 1]
  <2>1. Len(After(s, p)) # 0
    BY <1>1, <1>2
  <2>2. 1 \in 1..Len(s) - p /\ p + 1 = 1 + p
    BY <1>1, <2>1
  <2>3. Head(After(s, p)) = After(s, p)[1]
    BY <1>1, <2>1
  <2>4. After(s, p)[1] = s[1 + p] /\ 1 + p \in 1..Len(s)
    BY <1>1, <2>2
  <2>. QED  BY <2>2, <2>3, <2>4
<1>. QED  BY <1>1, <1>2

LEMMA AfterAfter ==
    ASSUME NEW T, NEW s \in Seq(T), NEW p \in 0..Len(s), NEW k \in 0..Len(s) - p
    PROVE  /\ p + k \in 0..Len(s)
           /\ SubSeq(After(s, p), k + 1, Len(After(s, p))) = After(s, p + k)
<1>1. p + k \in 0..Len(s) /\ k \in 0..Len(After(s, p)) /\ After(s, p) \in Seq(T)
      /\ Len(After(s, p)) = Len(s) - p
  <2>1. After(s, p) \in Seq(T) /\ Len(After(s, p)) = Len(s) - p
    BY AfterShape
  <2>. QED  BY <2>1
<1>. DEFINE u == After(s, p)
            a == After(u, k)
            b == After(s, p + k)
<1>2. a \in Seq(T) /\ Len(a) = Len(s) - p - k
      /\ \A i \in 1..Len(s) - p - k : i + k \in 1..Len(s) - p /\ a[i] = After(s, p)[i + k]
  <2>1. u \in Seq(T) /\ k \in 0..Len(u) /\ Len(u) = Len(s) - p
    BY <1>1
  <2>. HIDE DEF u
  <2>2. a \in Seq(T) /\ Len(a) = Len(u) - k
        /\ \A i \in 1..Len(u) - k : i + k \in 1..Len(u) /\ a[i] = u[i + k]
    BY <2>1, AfterShape
  <2>. QED  BY <2>1, <2>2 DEF u
<1>3. b \in Seq(T) /\ Len(b) = Len(s) - (p + k)
      /\ \A i \in 1..Len(s) - (p + k) : b[i] = s[i + (p + k)]
  BY <1>1, AfterShape
<1>4. \A i \in 1..Len(s) - p : After(s, p)[i] = s[i + p]
  BY AfterShape
<1>. HIDE DEF a, b
<1>5. Len(a) = Len(b) /\ Len(a) \in Nat
  BY <1>1, <1>2, <1>3
<1>6. ASSUME NEW i \in 1..Len(a) PROVE a[i] = b[i]
  <2>1. i \in 1..Len(s) - p - k /\ i \in 1..Len(s) - (p + k)
    BY <1>1, <1>2
  <2>2. a[i] = After(s, p)[i + k] /\ i + k \in 1..Len(s) - p
    BY <1>2, <2>1
  <2>3. After(s, p)[i + k] = s[(i + k) + p]
    BY <1>4, <2>2
  <2>4. b[i] = s[i + (p + k)] /\ (i + k) + p = i + (p + k)
    BY <1>3, <2>1
  <2>. QED  BY <2>2, <2>3, <2>4
<1>7. a = b
  BY <1>2, <1>3, <1>5, <1>6, SeqEqual
<1>. QED  BY <1>1, <1>7 DEF a, b, After

\* A stream is made of parts of RowSize bytes each.
InParts(stream, content, n) ==
    /\ Len(stream) = n * RowSize
    /\ \A r \in 1..n, j \in 1..RowSize :
         (r - 1) * RowSize + j \in 1..Len(stream)
         /\ stream[(r - 1) * RowSize + j] = Part(content, r)[j]

LEMMA OnePartMore ==
    ASSUME NEW content \in Seq(Nat), NEW n \in Nat, NEW s \in Seq(Bytes), InParts(s, content, n)
    PROVE  InParts(s \o Part(content, n + 1), content, n + 1)
<1>. DEFINE part == Part(content, n + 1)
            t == s \o part
            K == RowSize
<1>1. part \in Seq(Bytes) /\ Len(part) = K /\ K \in Nat
  BY PartType, SizesNat
<1>. HIDE DEF part, K
<1>2. Len(s) = n * K /\ n * K \in Nat /\ (n + 1) * K = n * K + K
  BY <1>1 DEF InParts, K
<1>3. /\ t \in Seq(Bytes) /\ Len(t) = n * K + K
      /\ \A i \in 1..Len(s) : t[i] = s[i] /\ i \in 1..Len(t)
      /\ \A j \in 1..K : t[n * K + j] = part[j] /\ n * K + j \in 1..Len(t)
  <2>1. /\ t \in Seq(Bytes) /\ Len(t) = Len(s) + Len(part)
        /\ \A i \in 1..Len(s) : t[i] = s[i] /\ i \in 1..Len(t)
        /\ \A j \in 1..Len(part) : t[Len(s) + j] = part[j] /\ Len(s) + j \in 1..Len(t)
    BY <1>1, ConcatShape
  <2>. HIDE DEF t
  <2>. QED  BY <1>1, <1>2, <2>1
<1>. HIDE DEF t
<1>4. ASSUME NEW r \in 1..n + 1, NEW j \in 1..K
      PROVE  (r - 1) * K + j \in 1..Len(t) /\ t[(r - 1) * K + j] = Part(content, r)[j]
  <2>1. CASE r = n + 1
    BY <1>3, <2>1 DEF part
  <2>2. CASE r # n + 1
    <3>1. r \in 1..n
      BY <2>2
    <3>2. (r - 1) * K + j \in 1..Len(s) /\ s[(r - 1) * K + j] = Part(content, r)[j]
      BY <3>1 DEF InParts, K
    <3>. QED  BY <1>3, <3>2
  <2>. QED  BY <2>1, <2>2
<1>5. Len(t) = (n + 1) * K
  BY <1>2, <1>3
<1>. QED  BY <1>4, <1>5 DEF InParts, K, t, part

LEMMA StreamShape ==
    ASSUME NEW content \in Seq(Nat)
    PROVE  InParts(PartsSent(content), content, RowsOf(Len(content)))
<1>. DEFINE R == RowsOf(Len(content))
            s == [i \in 1..R |-> Part(content, i)]
<1>1. R \in Nat
  BY RowsOfShape
<1>. HIDE DEF R
<1>2. s \in Seq(Seq(Bytes)) /\ Len(s) = R /\ \A i \in 1..R : s[i] = Part(content, i)
  BY <1>1, PartType
<1>3. PartsSent(content) = FlattenSeq(s)
  BY DEF PartsSent, R
<1>. HIDE DEF s
<1>4. CASE R = 0
  <2>1. s = <<>>
    BY <1>2, <1>4
  <2>2. FlattenSeq(s) = <<>>
    BY <2>1 DEF FlattenSeq
  <2>3. 0 * RowSize = 0 /\ Len(<<>>) = 0
    BY SizesNat
  <2>. QED  BY <1>3, <1>4, <2>2, <2>3 DEF InParts, R
<1>5. CASE R # 0
  <2>1. s # <<>>
    BY <1>1, <1>2, <1>5
  <2>2. PICK flat \in [1..R -> Seq(Bytes)] :
          FlattenSeq(s) = flat[R] /\ FlattensUpTo(flat, s, R)
    BY <1>2, <2>1, FlattenShape
  <2>. DEFINE Bad == {n \in 1..R : ~InParts(flat[n], content, n)}
  <2>3. Bad = {}
    <3>. SUFFICES ASSUME Bad # {} PROVE FALSE
      OBVIOUS
    <3>1. Bad \subseteq Nat
      BY <1>1
    <3>2. PICK n \in Bad : \A y \in Bad : n <= y
      BY <3>1, LeastNat
    <3>3. n \in 1..R /\ ~InParts(flat[n], content, n)
      BY <3>2
    <3>4. flat[n] = IF n = 1 THEN s[n] ELSE flat[n - 1] \o s[n]
      BY <2>2, <3>3 DEF FlattensUpTo
    <3>5. CASE n = 1
      <4>1. InParts(<<>>, content, 0)
        BY SizesNat DEF InParts
      <4>2. InParts(<<>> \o Part(content, 0 + 1), content, 0 + 1)
        <5>1. <<>> \in Seq(Bytes) /\ 0 \in Nat
          OBVIOUS
        <5>. QED  BY <4>1, <5>1, OnePartMore
      <4>3. Part(content, 1) \in Seq(Bytes)
        BY PartType
      <4>4. <<>> \o Part(content, 1) = Part(content, 1)
        BY <4>3
      <4>. QED  BY <1>2, <3>3, <3>4, <3>5, <4>2, <4>4
    <3>6. CASE n # 1
      <4>1. n - 1 \in 1..R /\ ~(n <= n - 1) /\ n = (n - 1) + 1 /\ n - 1 \in Nat
        BY <1>1, <3>3, <3>6
      <4>2. InParts(flat[n - 1], content, n - 1) /\ flat[n - 1] \in Seq(Bytes)
        BY <2>2, <3>2, <4>1
      <4>. DEFINE m == n - 1
      <4>3. InParts(flat[m] \o Part(content, m + 1), content, m + 1)
        BY <4>1, <4>2, OnePartMore
      <4>. QED  BY <1>2, <3>3, <3>4, <3>6, <4>1, <4>3
    <3>. QED  BY <3>5, <3>6
  <2>4. InParts(flat[R], content, R)
    BY <1>1, <1>5, <2>3
  <2>. QED  BY <1>3, <2>2, <2>4 DEF R
<1>. QED  BY <1>4, <1>5

(* One read at the start of part i + 1.                                    *)

\* No character is 0 or the number of a part.
Text(content) == \A p \in 1..Len(content) : content[p] > MaxFileSize

\* The j-th byte of part i + 1: a character, or 0 after the last one.
LEMMA PartBytes ==
    ASSUME NEW content \in Seq(Nat), Text(content), NEW i \in Nat, NEW j \in 1..MsgSize
    PROVE  /\ Part(content, i + 1)[1].val = i + 1
           /\ i * MsgSize + j \in Nat
           /\ i * MsgSize + j <= Len(content) =>
                /\ Part(content, i + 1)[j + 1].val = content[i * MsgSize + j]
                /\ Part(content, i + 1)[j + 1].val > MaxFileSize
           /\ i * MsgSize + j > Len(content) => Part(content, i + 1)[j + 1].val = 0
<1>. DEFINE p == i * MsgSize + j
<1>1. i * MsgSize \in Nat /\ p \in Nat /\ p > 0 /\ MsgSize \in Nat
  BY SizesNat
<1>2. ((i + 1) - 1) * MsgSize + (j + 1) - 1 = p
  BY <1>1
<1>3. j + 1 \in 1..MsgSize + 1 /\ 1 \in 1..MsgSize + 1 /\ j + 1 # 1
  BY <1>1
<1>4. /\ Part(content, i + 1)[1] = Byte(i + 1)
      /\ Part(content, i + 1)[j + 1] =
           IF ((i + 1) - 1) * MsgSize + (j + 1) - 1 <= Len(content)
           THEN Byte(content[((i + 1) - 1) * MsgSize + (j + 1) - 1]) ELSE Byte(0)
  BY <1>3 DEF Part
<1>5. Part(content, i + 1)[j + 1] = IF p <= Len(content) THEN Byte(content[p]) ELSE Byte(0)
  BY <1>2, <1>4
<1>. HIDE DEF p
<1>6. CASE p <= Len(content)
  <2>1. p \in 1..Len(content) /\ content[p] \in Nat /\ content[p] > MaxFileSize
    BY <1>1, <1>6 DEF Text
  <2>. QED  BY <1>1, <1>4, <1>5, <1>6, <2>1, AtomTypes DEF p
<1>7. CASE p > Len(content)
  <2>1. ~(p <= Len(content))
    BY <1>1, <1>7
  <2>. QED  BY <1>1, <1>4, <1>5, <1>7, <2>1, AtomTypes DEF p
<1>. QED  BY <1>1, <1>6, <1>7

LEMMA ReadAtPart ==
    ASSUME NEW content \in Seq(Nat), Text(content), NEW i \in Nat,
           i * RowSize <= Len(PartsSent(content)),
           NEW d, d = After(PartsSent(content), i * RowSize), d # <<>>,
           NEW k \in 1..Len(d), k <= RowSize
    PROVE  /\ Head(d).val = i + 1
           /\ i * MsgSize \in Nat /\ i * MsgSize < Len(content)
           /\ (i + 1) * RowSize <= Len(PartsSent(content))
           /\ Chars(SubSeq(d, 1, k)) \in Seq(Nat) /\ Len(Chars(SubSeq(d, 1, k))) <= MsgSize
           /\ \A x \in 1..Len(Chars(SubSeq(d, 1, k))) :
                /\ i * MsgSize + x <= Len(content)
                /\ Chars(SubSeq(d, 1, k))[x] = content[i * MsgSize + x]
           /\ k = RowSize =>
                \/ Len(Chars(SubSeq(d, 1, k))) = MsgSize
                \/ i * MsgSize + Len(Chars(SubSeq(d, 1, k))) = Len(content)
           /\ k = RowSize =>
                SubSeq(d, k + 1, Len(d)) = After(PartsSent(content), (i + 1) * RowSize)
           /\ k < RowSize /\ SubSeq(d, k + 1, Len(d)) # <<>> =>
                \/ Head(SubSeq(d, k + 1, Len(d))).val = 0
                \/ Head(SubSeq(d, k + 1, Len(d))).val > MaxFileSize
<1>. DEFINE W == PartsSent(content)
            R == RowsOf(Len(content))
            K == RowSize
            part == Part(content, i + 1)
            b == SubSeq(d, 1, k)
            chars == Chars(b)
            left == SubSeq(d, k + 1, Len(d))
<1>1. W \in Seq(Bytes) /\ R \in Nat /\ K \in Nat /\ K > 1 /\ K = MsgSize + 1 /\ MsgSize \in Nat
  BY SentTypes, RowsOfShape, SizesNat DEF RowSize
<1>2. /\ Len(W) = R * K
      /\ \A r \in 1..R, j \in 1..K :
           (r - 1) * K + j \in 1..Len(W) /\ W[(r - 1) * K + j] = Part(content, r)[j]
  BY StreamShape DEF InParts
<1>3. R > i => i * MsgSize < Len(content)
  <2>1. i + 1 \in Nat /\ i + 1 > 0 /\ (i + 1) - 1 = i
    OBVIOUS
  <2>2. i + 1 <= R <=> ((i + 1) - 1) * MsgSize < Len(content)
    BY <2>1, RowsOfShape
  <2>3. R > i => i + 1 <= R
    BY <1>1
  <2>. QED  BY <2>1, <2>2, <2>3
<1>4. part \in Seq(Bytes) /\ Len(part) = K
  BY PartType
<1>. HIDE DEF W, R, K, part
<1>5. i * K \in 0..Len(W) /\ i * K \in Nat /\ d = After(W, i * K)
  BY <1>1 DEF W, K
<1>6. /\ d \in Seq(Bytes) /\ Len(d) = Len(W) - i * K
      /\ \A x \in 1..Len(W) - i * K : x + i * K \in 1..Len(W) /\ d[x] = W[x + i * K]
      /\ Head(d) = W[i * K + 1] /\ 1 \in 1..Len(W) - i * K
  <2>. DEFINE at == i * K
  <2>1. at \in 0..Len(W) /\ d = After(W, at) /\ After(W, at) # <<>>
    BY <1>5
  <2>. HIDE DEF at
  <2>2. /\ d \in Seq(Bytes) /\ Len(d) = Len(W) - at
        /\ \A x \in 1..Len(W) - at : x + at \in 1..Len(W) /\ d[x] = W[x + at]
        /\ Head(d) = W[at + 1] /\ 1 \in 1..Len(W) - at
    <3>1. /\ After(W, at) \in Seq(Bytes) /\ Len(After(W, at)) = Len(W) - at
          /\ \A x \in 1..Len(W) - at : x + at \in 1..Len(W) /\ After(W, at)[x] = W[x + at]
      BY <1>1, <2>1, AfterShape
    <3>2. Head(After(W, at)) = W[at + 1] /\ 1 \in 1..Len(W) - at
      BY <1>1, <2>1, AfterShape
    <3>. QED  BY <2>1, <3>1, <3>2
  <2>. QED  BY <2>2 DEF at
<1>7. i < R
  <2>1. CASE R <= i
    <3>1. R * K <= i * K
      BY <1>1, <2>1, ProductsGrow
    <3>. QED  BY <1>1, <1>2, <1>5, <1>6, <3>1
  <2>. QED  BY <1>1, <2>1
<1>8. (i + 1) * K <= Len(W) /\ (i + 1) * K = i * K + K /\ K <= Len(d)
  <2>1. (i + 1) * K <= R * K
    <3>1. i + 1 <= R /\ i + 1 \in Nat
      BY <1>1, <1>7
    <3>. QED  BY <1>1, <3>1, ProductsGrow
  <2>2. (i + 1) * K = i * K + K
    BY <1>1
  <2>. QED  BY <1>1, <1>2, <1>5, <1>6, <2>1, <2>2
<1>9. ASSUME NEW j \in 1..K PROVE j \in 1..Len(d) /\ d[j] = part[j]
  <2>1. i + 1 \in 1..R /\ ((i + 1) - 1) * K + j = i * K + j
    BY <1>1, <1>7
  <2>2. W[((i + 1) - 1) * K + j] = part[j]
    BY <1>2, <2>1 DEF part
  <2>3. j \in 1..Len(W) - i * K /\ j \in 1..Len(d) /\ j + i * K = i * K + j
    BY <1>1, <1>5, <1>6, <1>8
  <2>4. d[j] = W[j + i * K]
    BY <1>6, <2>3
  <2>. QED  BY <2>1, <2>2, <2>3, <2>4
<1>10. /\ b \in Seq(Bytes) /\ Len(b) = k /\ \A j \in 1..k : b[j] = part[j]
       /\ k \in Nat /\ k > 0 /\ k <= K
  <2>1. k \in Nat /\ k > 0 /\ k <= K /\ k \in 1..Len(d)
    BY <1>6 DEF K
  <2>2. b \in Seq(Bytes) /\ Len(b) = k /\ \A j \in 1..k : b[j] = d[j]
    BY <1>6, <2>1
  <2>3. \A j \in 1..k : j \in 1..K
    BY <1>1, <2>1
  <2>. QED  BY <1>9, <2>1, <2>2, <2>3
<1>. HIDE DEF b
<1>11. /\ chars \in Seq(Nat) /\ Len(chars) <= k - 1 /\ Len(chars) \in Nat
       /\ \A j \in 1..Len(chars) : chars[j] = b[j + 1].val /\ chars[j] # 0
       /\ Len(chars) < k - 1 => b[Len(chars) + 2].val = 0
  <2>1. b \in Seq(Atom) /\ Len(b) > 0
    BY <1>10, BytesAre
  <2>2. /\ chars \in Seq(Nat) /\ Len(chars) <= Len(b) - 1
        /\ \A j \in 1..Len(chars) : chars[j] = b[j + 1].val /\ chars[j] # 0
        /\ Len(chars) < Len(b) - 1 => b[Len(chars) + 2].val = 0
    BY <2>1, CharsShape
  <2>. HIDE DEF chars
  <2>. QED  BY <1>10, <2>2
<1>. HIDE DEF chars
<1>12. \A j \in 1..MsgSize :
         /\ i * MsgSize + j \in Nat
         /\ i * MsgSize + j <= Len(content) =>
              /\ part[j + 1].val = content[i * MsgSize + j] /\ part[j + 1].val > MaxFileSize
         /\ i * MsgSize + j > Len(content) => part[j + 1].val = 0
  BY PartBytes DEF part
<1>13. ASSUME NEW x \in 1..Len(chars)
       PROVE  i * MsgSize + x <= Len(content) /\ chars[x] = content[i * MsgSize + x]
  <2>1. x \in 1..MsgSize /\ x + 1 \in 1..k
    BY <1>1, <1>10, <1>11
  <2>2. chars[x] = part[x + 1].val /\ chars[x] # 0
    BY <1>10, <1>11, <2>1
  <2>3. i * MsgSize + x \in Nat /\ Len(content) \in Nat
    BY <1>12, <2>1
  <2>4. ~(i * MsgSize + x > Len(content))
    BY <1>12, <2>1, <2>2
  <2>5. i * MsgSize + x <= Len(content)
    BY <2>3, <2>4
  <2>. QED  BY <1>12, <2>1, <2>2, <2>5
<1>14. i * MsgSize \in Nat /\ i * MsgSize < Len(content)
  BY <1>1, <1>3, <1>7
<1>15. ASSUME k = K PROVE Len(chars) = MsgSize \/ i * MsgSize + Len(chars) = Len(content)
  <2>. SUFFICES ASSUME Len(chars) # MsgSize PROVE i * MsgSize + Len(chars) = Len(content)
    OBVIOUS
  <2>. DEFINE n == Len(chars) + 1
  <2>1. n \in 1..MsgSize /\ n + 1 = Len(chars) + 2 /\ n + 1 \in 1..k /\ Len(chars) < k - 1
    BY <1>1, <1>10, <1>11, <1>15
  <2>2. part[n + 1].val = 0
    BY <1>10, <1>11, <2>1
  <2>3. i * MsgSize + n \in Nat /\ ~(i * MsgSize + n <= Len(content))
    <3>1. /\ i * MsgSize + n \in Nat
          /\ i * MsgSize + n <= Len(content) => part[n + 1].val > MaxFileSize
      BY <1>12, <2>1
    <3>2. ~(0 > MaxFileSize)
      BY SizesNat
    <3>. QED  BY <2>2, <3>1, <3>2
  <2>4. Len(chars) # 0 => i * MsgSize + Len(chars) <= Len(content)
    <3>1. Len(chars) # 0 => Len(chars) \in 1..Len(chars)
      BY <1>11
    <3>. QED  BY <1>13, <3>1
  <2>. DEFINE base == i * MsgSize
  <2>5. base \in Nat /\ base < Len(content) /\ base + n \in Nat /\ ~(base + n <= Len(content))
        /\ (Len(chars) # 0 => base + Len(chars) <= Len(content))
    BY <1>14, <2>3, <2>4
  <2>. HIDE DEF base
  <2>6. base + Len(chars) = Len(content)
    BY <1>11, <2>5
  <2>. QED  BY <2>6 DEF base
<1>16. ASSUME k = K PROVE left = After(W, (i + 1) * K)
  <2>1. K \in 0..Len(W) - i * K
    BY <1>1, <1>6, <1>8
  <2>2. SubSeq(After(W, i * K), K + 1, Len(After(W, i * K))) = After(W, i * K + K)
    BY <1>1, <1>5, <2>1, AfterAfter
  <2>. QED  BY <1>5, <1>8, <1>16, <2>2
<1>17. ASSUME k < K, left # <<>>
       PROVE  Head(left).val = 0 \/ Head(left).val > MaxFileSize
  <2>1. k \in 0..Len(d) /\ left = After(d, k) /\ k \in 1..MsgSize
    BY <1>1, <1>6, <1>10, <1>17 DEF After
  <2>. HIDE DEF left
  <2>2. Head(left) = d[k + 1]
    BY <1>6, <1>17, <2>1, AfterShape
  <2>3. k + 1 \in 1..K
    BY <1>1, <2>1
  <2>4. Head(left) = part[k + 1]
    BY <1>9, <2>2, <2>3
  <2>5. i * MsgSize + k \in Nat /\ Len(content) \in Nat
    BY <1>12, <2>1
  <2>6. i * MsgSize + k <= Len(content) \/ i * MsgSize + k > Len(content)
    BY <2>5
  <2>. QED  BY <1>12, <2>1, <2>4, <2>6
<1>18. Head(d).val = i + 1
  <2>1. 1 \in 1..K /\ 1 \in 1..MsgSize /\ Head(d) = d[1]
    BY <1>1, <1>6
  <2>2. Head(d) = part[1]
    BY <1>9, <2>1
  <2>. QED  BY <2>1, <2>2, PartBytes DEF part
<1>19. Len(chars) <= MsgSize
  BY <1>1, <1>10, <1>11
<1>. QED  BY <1>8, <1>11, <1>13, <1>14, <1>15, <1>16, <1>17, <1>18, <1>19 DEF W, K, chars, b, left

(* The rows, one after the other.                                          *)

AllWhole(R, content) == \A j \in DOMAIN R : Whole(R, content, j)

\* s is what the first j rows of R hold.
UpToRow(R, content, j, s) ==
    /\ s \in Seq(Nat) /\ Begins(s, content) /\ Len(s) <= j * MsgSize
    /\ \/ Len(s) = j * MsgSize
       \/ /\ \A i \in DOMAIN R : i > j => R[i] = <<>>
          /\ AllWhole(R, content) => Len(s) = Len(content)

LEMMA EmptyConcat == ASSUME NEW T, NEW s \in Seq(T) PROVE s \o <<>> = s
OBVIOUS

LEMMA OneRowMore ==
    ASSUME NEW content \in Seq(Nat), NEW R \in Seq(Seq(Nat)), Beginning(R, content),
           NEW n \in Nat, n + 1 \in 1..Len(R), NEW s, UpToRow(R, content, n, s)
    PROVE  UpToRow(R, content, n + 1, s \o R[n + 1])
<1>. DEFINE base == n * MsgSize
            row == R[n + 1]
            t == s \o row
<1>1. base \in Nat /\ (n + 1) * MsgSize = base + MsgSize /\ MsgSize \in Nat /\ MsgSize > 0
  BY SizesNat
<1>2. /\ Len(row) <= MsgSize
      /\ \A x \in 1..Len(row) : base + x <= Len(content) /\ row[x] = content[base + x]
      /\ Len(row) < MsgSize => \A i \in DOMAIN R : i > n + 1 => R[i] = <<>>
      /\ AllWhole(R, content) => Len(row) = MsgSize \/ base + Len(row) = Len(content)
  <2>1. n + 1 \in DOMAIN R /\ (n + 1) - 1 = n
    OBVIOUS
  <2>2. Holds(R, content, n + 1) /\ NoGap(R, n + 1)
        /\ (AllWhole(R, content) => Whole(R, content, n + 1))
    BY <2>1 DEF Beginning, AllWhole
  <2>. QED  BY <2>1, <2>2 DEF Holds, NoGap, Whole
<1>3. row \in Seq(Nat) /\ Len(row) \in Nat
  OBVIOUS
<1>4. /\ s \in Seq(Nat) /\ Len(s) \in Nat /\ Len(s) <= base /\ Len(s) <= Len(content)
      /\ \A i \in 1..Len(s) : s[i] = content[i]
      /\ \/ Len(s) = base
         \/ /\ \A i \in DOMAIN R : i > n => R[i] = <<>>
            /\ AllWhole(R, content) => Len(s) = Len(content)
  BY DEF UpToRow, Begins
<1>5. Len(content) \in Nat
  OBVIOUS
<1>. HIDE DEF base, row
<1>6. CASE Len(s) = base
  <2>1. /\ t \in Seq(Nat) /\ Len(t) = base + Len(row)
        /\ \A i \in 1..Len(s) : t[i] = s[i]
        /\ \A j \in 1..Len(row) : t[Len(s) + j] = row[j]
    <3>1. /\ t \in Seq(Nat) /\ Len(t) = Len(s) + Len(row)
          /\ \A i \in 1..Len(s) : t[i] = s[i]
          /\ \A j \in 1..Len(row) : t[Len(s) + j] = row[j]
      BY <1>3, <1>4, ConcatShape
    <3>. QED  BY <1>6, <3>1
  <2>. HIDE DEF t
  <2>2. Len(t) <= Len(content)
    <3>1. Len(row) # 0 => Len(row) \in 1..Len(row)
      BY <1>3
    <3>. QED  BY <1>1, <1>2, <1>3, <1>4, <1>5, <1>6, <2>1, <3>1
  <2>3. ASSUME NEW i \in 1..Len(t) PROVE t[i] = content[i]
    <3>1. CASE i <= base
      <4>1. i \in 1..Len(s)
        BY <1>1, <1>6, <3>1
      <4>. QED  BY <1>4, <2>1, <4>1
    <3>2. CASE i > base
      <4>1. i - base \in 1..Len(row) /\ base + (i - base) = i
        BY <1>1, <1>3, <2>1, <3>2
      <4>. QED  BY <1>2, <1>6, <2>1, <4>1
    <3>. QED  BY <1>1, <3>1, <3>2
  <2>4. Len(t) <= (n + 1) * MsgSize
    BY <1>1, <1>2, <1>3, <2>1
  <2>5. CASE Len(row) = MsgSize
    BY <1>1, <2>1, <2>2, <2>3, <2>4, <2>5 DEF UpToRow, Begins, t, row
  <2>6. CASE Len(row) # MsgSize
    <3>1. /\ \A i \in DOMAIN R : i > n + 1 => R[i] = <<>>
          /\ AllWhole(R, content) => Len(t) = Len(content)
      BY <1>1, <1>2, <1>3, <2>1, <2>6
    <3>. QED  BY <2>1, <2>2, <2>3, <2>4, <3>1 DEF UpToRow, Begins, t, row
  <2>. QED  BY <2>5, <2>6
<1>7. CASE Len(s) # base
  <2>1. /\ \A i \in DOMAIN R : i > n => R[i] = <<>>
        /\ AllWhole(R, content) => Len(s) = Len(content)
    BY <1>4, <1>7
  <2>2. row = <<>>
    BY <2>1 DEF row
  <2>3. t = s
    BY <1>4, <2>2, EmptyConcat
  <2>4. Len(s) <= (n + 1) * MsgSize
    BY <1>1, <1>4
  <2>5. \A i \in DOMAIN R : i > n + 1 => R[i] = <<>>
    BY <2>1
  <2>. QED  BY <1>4, <2>1, <2>3, <2>4, <2>5 DEF UpToRow, Begins, t, row
<1>. QED  BY <1>6, <1>7

LEMMA RowsUpTo ==
    ASSUME NEW content \in Seq(Nat), NEW R \in Seq(Seq(Nat)), Beginning(R, content)
    PROVE  UpToRow(R, content, Len(R), FlattenSeq(R))
<1>1. UpToRow(R, content, 0, <<>>)
  <2>1. 0 * MsgSize = 0
    BY SizesNat
  <2>2. <<>> \in Seq(Nat) /\ Len(<<>>) = 0
    OBVIOUS
  <2>. QED  BY <2>1, <2>2 DEF UpToRow, Begins
<1>2. CASE R = <<>>
  <2>1. FlattenSeq(R) = <<>> /\ Len(R) = 0
    BY <1>2 DEF FlattenSeq
  <2>. QED  BY <1>1, <2>1
<1>3. CASE R # <<>>
  <2>. DEFINE N == Len(R)
  <2>0. N \in Nat /\ N # 0
    BY <1>3
  <2>1. PICK flat \in [1..N -> Seq(Nat)] : FlattenSeq(R) = flat[N] /\ FlattensUpTo(flat, R, N)
    BY <1>3, FlattenShape
  <2>. DEFINE Bad == {n \in 1..N : ~UpToRow(R, content, n, flat[n])}
  <2>2. Bad = {}
    <3>. SUFFICES ASSUME Bad # {} PROVE FALSE
      OBVIOUS
    <3>1. Bad \subseteq Nat
      BY <2>0
    <3>2. PICK n \in Bad : \A y \in Bad : n <= y
      BY <3>1, LeastNat
    <3>3. n \in 1..N /\ ~UpToRow(R, content, n, flat[n])
      BY <3>2
    <3>4. flat[n] = IF n = 1 THEN R[n] ELSE flat[n - 1] \o R[n]
      BY <2>1, <3>3 DEF FlattensUpTo
    <3>. DEFINE m == n - 1
    <3>5. m \in Nat /\ m + 1 = n /\ m + 1 \in 1..Len(R) /\ ~(n <= m)
      BY <3>3
    <3>6. PICK s : UpToRow(R, content, m, s) /\ flat[n] = s \o R[n]
      <4>1. CASE n = 1
        <5>1. R[1] \in Seq(Nat) /\ m = 0
          BY <3>3, <4>1
        <5>2. <<>> \o R[1] = R[1]
          BY <5>1
        <5>. QED  BY <1>1, <3>4, <4>1, <5>1, <5>2
      <4>2. CASE n # 1
        <5>1. m \in 1..N /\ m \notin Bad
          BY <2>0, <3>2, <3>3, <3>5, <4>2
        <5>. QED  BY <3>4, <4>2, <5>1
      <4>. QED  BY <4>1, <4>2
    <3>. HIDE DEF m
    <3>7. UpToRow(R, content, m + 1, s \o R[m + 1])
      BY <3>5, <3>6, OneRowMore
    <3>. QED  BY <3>3, <3>5, <3>6, <3>7
  <2>3. N \in 1..N
    BY <2>0
  <2>. QED  BY <2>1, <2>2, <2>3
<1>. QED  BY <1>2, <1>3

LEMMA CopyBegins ==
    ASSUME NEW content \in Seq(Nat), NEW R \in Seq(Seq(Nat)), Beginning(R, content)
    PROVE  /\ FlattenSeq(R) \in Seq(Nat) /\ Begins(FlattenSeq(R), content)
           /\ AllWhole(R, content) =>
                FlattenSeq(R) = SubSeq(content, 1, Min({Len(content), Len(R) * MsgSize}))
<1>. DEFINE s == FlattenSeq(R)
            n == Len(R) * MsgSize
<1>1. /\ s \in Seq(Nat) /\ Len(s) <= Len(content) /\ \A i \in 1..Len(s) : s[i] = content[i]
      /\ Len(s) <= n
      /\ Len(s) = n \/ (AllWhole(R, content) => Len(s) = Len(content))
  BY RowsUpTo DEF UpToRow, Begins
<1>2. n \in Nat /\ Len(content) \in Nat
  BY SizesNat
<1>. HIDE DEF s, n
<1>3. Len(s) \in Nat
  BY <1>1
<1>4. ASSUME AllWhole(R, content) PROVE s = SubSeq(content, 1, Min({Len(content), n}))
  <2>1. Len(s) \in {Len(content), n} /\ \A y \in {Len(content), n} : Len(s) <= y
    BY <1>1, <1>2, <1>3, <1>4
  <2>2. Min({Len(content), n}) = Len(s)
    <3>. DEFINE S == {Len(content), n}
    <3>1. S \subseteq Nat /\ Len(s) \in S /\ \A y \in S : Len(s) <= y
      BY <1>2, <2>1
    <3>. HIDE DEF S
    <3>2. Min(S) = Len(s)
      BY <3>1, MinIs
    <3>. QED  BY <3>2 DEF S
  <2>3. /\ SubSeq(content, 1, Len(s)) \in Seq(Nat)
        /\ Len(SubSeq(content, 1, Len(s))) = Len(s)
        /\ \A i \in 1..Len(s) : SubSeq(content, 1, Len(s))[i] = content[i]
    BY <1>1, <1>2, <1>3
  <2>. DEFINE t == SubSeq(content, 1, Len(s))
  <2>4. t \in Seq(Nat) /\ Len(t) = Len(s) /\ \A i \in 1..Len(s) : t[i] = content[i]
    BY <2>3
  <2>. HIDE DEF t
  <2>5. s = t
    BY <1>1, <2>4, SeqEqual
  <2>. QED  BY <2>2, <2>5 DEF t
<1>. QED  BY <1>1, <1>4 DEF Begins, s, n

(* The copies stay exact.                                                  *)

LEMMA OriginalShape ==
    ASSUME NEW f \in File
    PROVE  /\ Original(f) \in Seq(Nat) /\ Text(Original(f))
           /\ Begins(Original(f), Original(f)) /\ Begins(<<>>, Original(f))
<1>1. Size[f] \in Nat /\ MaxFileSize \in Nat
  BY SizeAssumption
<1>2. /\ Original(f) \in Seq(Nat) /\ Len(Original(f)) = Size[f]
      /\ \A i \in 1..Size[f] : Original(f)[i] = MaxFileSize + i
  BY <1>1 DEF Original
<1>. QED  BY <1>1, <1>2 DEF Text, Begins

LEMMA SentText ==
    ASSUME TypeInv, NEW c \in Conn, Exact(c)
    PROVE  sent[c] \in Seq(Nat) /\ Text(sent[c])
<1>1. Typed /\ Used(c)
  BY TypedIs DEF TypeInv
<1>2. sent[c] \in Seq(Nat)
  BY <1>1 DEF Typed
<1>3. CASE pc[c] = "unused"
  <2>1. sent[c] = <<>> /\ 1..Len(<<>>) = {}
    BY <1>3 DEF Exact
  <2>. QED  BY <1>2, <2>1 DEF Text
<1>4. CASE pc[c] # "unused"
  <2>1. req[c].file \in File
    BY <1>1, <1>4 DEF Used, Download
  <2>. DEFINE content == Original(req[c].file)
  <2>2. content \in Seq(Nat) /\ Text(content)
    BY <2>1, OriginalShape
  <2>3. Len(sent[c]) <= Len(content) /\ \A i \in 1..Len(sent[c]) : sent[c][i] = content[i]
    BY <1>4 DEF Exact, Begins
  <2>. HIDE DEF content
  <2>4. \A i \in 1..Len(sent[c]) : i \in 1..Len(content)
    BY <1>2, <2>2, <2>3
  <2>. QED  BY <1>2, <2>2, <2>3, <2>4 DEF Text
<1>. QED  BY <1>2, <1>3, <1>4

LEMMA BeginsTrans ==
    ASSUME NEW s \in Seq(Nat), NEW t \in Seq(Nat), NEW u \in Seq(Nat), Begins(s, t), Begins(t, u)
    PROVE  Begins(s, u)
BY DEF Begins

LEMMA EmptyBeginning ==
    ASSUME NEW R, AllEmpty(R), NEW content PROVE Beginning(R, content)
<1>1. Len(<<>>) = 0 /\ 0 <= MsgSize /\ 1..0 = {}
  BY SizesNat
<1>. QED  BY <1>1 DEF AllEmpty, Beginning, Holds, NoGap

LEMMA SomeEmpty ==
    ASSUME NEW R \in Seq(Seq(Nat)), AllEmpty(R), R # <<>> PROVE ~AllFound(R)
<1>1. 1 \in DOMAIN R
  OBVIOUS
<1>. QED  BY <1>1 DEF AllEmpty, AllFound

LEMMA SameCopying ==
    ASSUME NEW c \in Conn, Copying(c), Same(c) PROVE Copying(c)'
BY DEF Same, Copying, Exact, Controls, Replies, Announces, Receives, Zero, Announced, Waits,
       Spoilt, Aligned, Stream, Writes

\* A step of c after which the client has ended, or that at most ends the connection or
\* the handler, unless that is sending and goes on.
Fades(c) ==
    /\ req'[c] = req[c] /\ sent'[c] = sent[c] /\ (pc'[c] = "unused" <=> pc[c] = "unused")
    /\ \/ pc'[c] \in {"done", "killed"}
       \/ /\ pc'[c] = pc[c] /\ parts'[c] = parts[c] /\ rows'[c] = rows[c]
          /\ announced'[c] = announced[c] /\ up'[c] = up[c] /\ down'[c] = down[c]
          /\ link'[c] = link[c] \/ link'[c] # "up"
          /\ handler'[c] = handler[c] \/ (handler'[c] # "sending" /\ handler[c] # "ended")

LEMMA FadesCopying ==
    ASSUME NEW c \in Conn, Copying(c), Fades(c) PROVE Copying(c)'
<1>1. Exact(c)'
  BY DEF Copying, Exact, Fades
<1>2. CASE pc'[c] \in {"done", "killed"}
  BY <1>1, <1>2 DEF Copying, Controls, Receives, Writes
<1>3. CASE pc'[c] \notin {"done", "killed"}
  <2>1. /\ req'[c] = req[c] /\ sent'[c] = sent[c] /\ pc'[c] = pc[c]
        /\ parts'[c] = parts[c] /\ rows'[c] = rows[c]
        /\ announced'[c] = announced[c] /\ up'[c] = up[c] /\ down'[c] = down[c]
        /\ link'[c] = link[c] \/ link'[c] # "up"
        /\ handler'[c] = handler[c] \/ (handler'[c] # "sending" /\ handler[c] # "ended")
    BY <1>3 DEF Fades
  <2>2. (Replies(c) => Replies(c)') /\ (Announces(c) => Announces(c)')
    BY <2>1 DEF Replies, Announces
  <2>3. Controls(c)'
    BY <2>1, <2>2 DEF Copying, Controls
  <2>4. /\ Zero(c) => Zero(c)'
        /\ Announced(c) => Announced(c)'
        /\ Waits(c) => Waits(c)'
        /\ Spoilt(c) => Spoilt(c)'
        /\ \A i \in 0..Len(Stream(c)) : Aligned(c, i) => Aligned(c, i)'
        /\ Stream(c)' = Stream(c)
    BY <2>1 DEF Zero, Announced, Waits, Spoilt, Aligned, Stream
  <2>5. Receives(c)'
    BY <2>1, <2>4 DEF Copying, Receives
  <2>6. Writes(c)'
    BY <2>1, <2>4 DEF Copying, Writes
  <2>. QED  BY <1>1, <2>3, <2>5, <2>6 DEF Copying
<1>. QED  BY <1>2, <1>3

LEMMA DiesFades ==
    ASSUME Typed, NEW n \in Node, Dies(n), NEW c \in Conn PROVE Fades(c)
BY DEF Typed, Dies, Fades

LEMMA ActionsFade ==
    ASSUME TypeInv, NEW c \in Conn,
           \/ ReadRefusal(c) \/ ReadCut(c) \/ OpenFails(c) \/ Record(c)
           \/ Accept(c) \/ HandlerEnds(c) \/ Reset(c)
    PROVE  Fades(c) /\ disk' = disk
<1>1. Typed
  BY TypedIs DEF TypeInv
<1>2. CASE ReadRefusal(c) \/ ReadCut(c)
  BY <1>1, <1>2 DEF Typed, ReadRefusal, ReadCut, Reads, Fades, server
<1>3. CASE OpenFails(c) \/ Record(c)
  BY <1>1, <1>3 DEF Typed, OpenFails, Record, Fades, server
<1>4. CASE Accept(c)
  BY <1>1, <1>4 DEF Typed, Accept, Fades, client
<1>5. CASE HandlerEnds(c)
  <2>1. handler[c] = "reading"
    BY <1>5 DEF HandlerEnds, Handles
  <2>. QED  BY <1>1, <1>5, <2>1 DEF Typed, HandlerEnds, Fades, client
<1>6. CASE Reset(c)
  BY <1>1, <1>6 DEF Typed, Reset, Fades, client, server
<1>. QED  BY <1>2, <1>3, <1>4, <1>5, <1>6

LEMMA SendNothing ==
    ASSUME Typed, NEW c \in Conn, NEW atoms \in Seq(Atom)
    PROVE  /\ link[c] # "up" => SendDown(c, atoms) = down[c]
           /\ atoms = <<>> => SendDown(c, atoms) = down[c]
           /\ down[c] = <<>> /\ link[c] = "up" => SendDown(c, atoms) = atoms
<1>1. down[c] \o <<>> = down[c]
  BY EmptyConcat DEF Typed
<1>2. <<>> \o atoms = atoms
  OBVIOUS
<1>. QED  BY <1>1, <1>2 DEF SendDown

LEMMA OneLeft ==
    ASSUME NEW T, NEW s \in Seq(T), s # <<>>, Len(s) <= 1
    PROVE  Len(s) = 1 /\ Tail(s) = <<>>
<1>1. Len(s) = 1
  <2>1. Len(s) \in Nat \ {0}
    BY EmptySeq
  <2>. QED  BY <2>1
<1>2. Tail(s) \in Seq(T) /\ Len(Tail(s)) = 0
  BY <1>1, TailShape
<1>. QED  BY <1>1, <1>2, EmptySeq

\* The handler reads one message, and answers with at most one.
Replied(c) ==
    /\ handler[c] = "reading" /\ up[c] # <<>>
    /\ req'[c] = req[c] /\ pc'[c] = pc[c] /\ link'[c] = link[c] /\ parts'[c] = parts[c]
    /\ rows'[c] = rows[c] /\ announced'[c] = announced[c] /\ sent'[c] = sent[c]
    /\ \/ up'[c] = Tail(up[c]) /\ handler'[c] \in {"reading", "ended"}
       \/ up'[c] = up[c] /\ handler'[c] = "ended"
    /\ \/ down'[c] = down[c]
       \/ \E m \in Atom :
            /\ m.kind \in {"YES", "NO", "DISCONNECT"} /\ down'[c] = SendDown(c, <<m>>)
            /\ m.kind = "YES" => up'[c] = Tail(up[c]) /\ handler'[c] = "reading"

LEMMA RepliedCopying ==
    ASSUME TypeInv, NEW c \in Conn, Copying(c), Replied(c) PROVE Copying(c)'
<1>1. Typed
  BY TypedIs DEF TypeInv
<1>2. Exact(c)'
  BY DEF Copying, Exact, Replied
<1>3. CASE pc[c] = "control"
  <2>1. down[c] = <<>> /\ Len(up[c]) <= 1 /\ up[c] # <<>> /\ parts[c] = 0
    BY <1>3 DEF Copying, Controls, Replied
  <2>2. Tail(up[c]) = <<>> /\ Len(up[c]) = 1 /\ Len(<<>>) = 0
    BY <1>1, <2>1, OneLeft DEF Typed
  <2>3. \/ down'[c] = <<>>
        \/ \E m \in Atom :
             /\ m.kind \in {"YES", "NO", "DISCONNECT"} /\ down'[c] = <<m>>
             /\ m.kind = "YES" => up'[c] = <<>> /\ handler'[c] = "reading"
    <3>1. CASE down'[c] = down[c]
      BY <2>1, <3>1
    <3>2. ASSUME NEW m \in Atom, down'[c] = SendDown(c, <<m>>)
          PROVE  down'[c] = <<>> \/ down'[c] = <<m>>
      <4>1. <<m>> \in Seq(Atom)
        BY SingleShape
      <4>2. /\ link[c] # "up" => SendDown(c, <<m>>) = down[c]
            /\ down[c] = <<>> /\ link[c] = "up" => SendDown(c, <<m>>) = <<m>>
        BY <1>1, <4>1, SendNothing
      <4>. QED  BY <2>1, <3>2, <4>2
    <3>. QED  BY <2>2, <3>1, <3>2 DEF Replied
  <2>4. Replies(c)' /\ (down'[c] # <<>> /\ Head(down'[c]).kind = "YES" =>
                          up'[c] = <<>> /\ handler'[c] # "sending")
    <3>1. CASE down'[c] = <<>>
      BY <3>1 DEF Replies
    <3>2. ASSUME NEW m \in Atom,
                 m.kind \in {"YES", "NO", "DISCONNECT"}, down'[c] = <<m>>,
                 m.kind = "YES" => up'[c] = <<>> /\ handler'[c] = "reading"
          PROVE  Replies(c)' /\ (down'[c] # <<>> /\ Head(down'[c]).kind = "YES" =>
                                   up'[c] = <<>> /\ handler'[c] # "sending")
      <4>1. Len(<<m>>) = 1 /\ <<m>>[1] = m /\ Head(<<m>>) = m
        OBVIOUS
      <4>. QED  BY <3>2, <4>1 DEF Replies
    <3>. QED  BY <2>3, <3>1, <3>2
  <2>5. /\ handler'[c] # "sending" /\ Len(up'[c]) <= 1 /\ parts'[c] = 0
        /\ up'[c] # <<>> => handler'[c] = "ended"
    <3>1. CASE up'[c] = Tail(up[c]) /\ handler'[c] \in {"reading", "ended"}
      <4>1. up'[c] = <<>> /\ Len(up'[c]) = 0
        BY <2>2, <3>1, Zenon
      <4>. QED  BY <2>1, <3>1, <4>1 DEF Replied
    <3>2. CASE up'[c] = up[c] /\ handler'[c] = "ended"
      BY <2>1, <3>2 DEF Replied
    <3>. QED  BY <3>1, <3>2 DEF Replied
  <2>6. Controls(c)'
    BY <2>4, <2>5 DEF Controls
  <2>. QED  BY <1>2, <1>3, <2>6 DEF Copying, Receives, Writes, Replied
<1>4. CASE pc[c] \in {"open", "receive"}
  <2>1. Zero(c)
    BY <1>4 DEF Copying, Receives, Announced, Replied
  <2>2. down'[c] = <<>>
    <3>1. \A m \in Atom : <<m>> \in Seq(Atom) /\ link[c] # "up"
      BY <2>1, SingleShape DEF Zero
    <3>2. \A m \in Atom : SendDown(c, <<m>>) = down[c]
      BY <1>1, <3>1, SendNothing
    <3>. QED  BY <2>1, <3>2 DEF Zero, Replied
  <2>3. Zero(c)'
    BY <2>1, <2>2 DEF Zero, Replied
  <2>. QED  BY <1>2, <1>4, <2>3 DEF Copying, Controls, Receives, Writes, Replied
<1>5. CASE pc[c] \in {"write", "record"}
  <2>1. rows[c] = <<>>
    BY <1>5 DEF Copying, Writes, Announced, Replied
  <2>. QED  BY <1>2, <1>5, <2>1 DEF Copying, Controls, Receives, Writes, Replied
<1>6. CASE pc[c] \notin {"control", "open", "receive", "write", "record"}
  BY <1>2, <1>6 DEF Copying, Controls, Receives, Writes, Replied
<1>. QED  BY <1>3, <1>4, <1>5, <1>6

LEMMA ActionsReply ==
    ASSUME TypeInv, NEW c \in Conn,
           FileFound(c) \/ FileMissing(c) \/ FileTooLarge(c) \/ HandlerReadCut(c)
    PROVE  Replied(c) /\ disk' = disk
<1>1. Typed
  BY TypedIs DEF TypeInv
<1>2. ASSUME NEW kind \in {"YES", "NO", "DISCONNECT"}
      PROVE  Signal(kind) \in Atom /\ Signal(kind).kind = kind
  <2>1. kind \in Kinds
    BY DEF Kinds
  <2>. QED  BY <2>1, AtomTypes
<1>3. CASE FileFound(c)
  <2>1. /\ handler[c] = "reading" /\ up[c] # <<>>
        /\ up'[c] = Tail(up[c]) /\ down'[c] = SendDown(c, <<Signal("YES")>>)
        /\ UNCHANGED <<client, server, link, disk>>
    BY <1>1, <1>3 DEF FileFound, Handles, Answer, Typed
  <2>. HIDE DEF Signal
  <2>. QED  BY <1>2, <2>1 DEF Replied, client, server
<1>4. CASE FileMissing(c)
  <2>1. /\ handler[c] = "reading" /\ up[c] # <<>> /\ handler'[c] = "ended"
        /\ up'[c] = Tail(up[c]) /\ down'[c] = SendDown(c, <<Signal("NO")>>)
        /\ UNCHANGED <<client, announced, sent, link, disk>>
    BY <1>1, <1>4 DEF FileMissing, Handles, Answer, Typed
  <2>. QED  BY <1>2, <2>1 DEF Replied, client
<1>5. CASE FileTooLarge(c)
  <2>1. /\ handler[c] = "reading" /\ up[c] # <<>> /\ handler'[c] = "ended"
        /\ up'[c] = Tail(up[c]) /\ down'[c] = SendDown(c, <<Signal("DISCONNECT")>>)
        /\ UNCHANGED <<client, announced, sent, link, disk>>
    BY <1>1, <1>5 DEF FileTooLarge, Handles, Answer, Typed
  <2>. QED  BY <1>2, <2>1 DEF Replied, client
<1>6. CASE HandlerReadCut(c)
  <2>1. PICK answer \in CutAnswers(c) : down' = [down EXCEPT ![c] = SendDown(c, answer)]
    BY <1>6 DEF HandlerReadCut
  <2>2. /\ handler[c] = "reading" /\ up[c] # <<>> /\ handler'[c] = "ended" /\ up' = up
        /\ down'[c] = SendDown(c, answer)
        /\ UNCHANGED <<client, announced, sent, link, disk>>
    BY <1>1, <1>6, <2>1 DEF HandlerReadCut, Typed
  <2>3. answer \in {<<>>, <<Signal("DISCONNECT")>>, <<Signal("NO")>>}
    BY DEF CutAnswers
  <2>4. CASE answer = <<>>
    <3>1. answer \in Seq(Atom)
      BY <2>4
    <3>2. down'[c] = down[c]
      BY <1>1, <2>2, <2>4, <3>1, SendNothing
    <3>. QED  BY <2>2, <3>2 DEF Replied, client
  <2>5. ASSUME NEW kind \in {"DISCONNECT", "NO"}, answer = <<Signal(kind)>>
        PROVE  Replied(c)
    <3>1. Signal(kind) \in Atom /\ Signal(kind).kind = kind
      BY <1>2
    <3>2. down'[c] = SendDown(c, <<Signal(kind)>>)
      BY <2>2, <2>5
    <3>. QED  BY <2>2, <3>1, <3>2 DEF Replied, client
  <2>. QED  BY <2>2, <2>3, <2>4, <2>5
<1>. QED  BY <1>3, <1>4, <1>5, <1>6

LEMMA AnnounceCopying ==
    ASSUME TypeInv, NEW c \in Conn, Copying(c), Announce(c) PROVE Copying(c)' /\ disk' = disk
<1>1. Typed /\ Used(c) /\ Found(c)
  BY TypedIs DEF TypeInv
<1>. DEFINE n == PartsOf(Len(Requested(c)))
            m == Control("CONTENTS", n, KeywordsOf(c))
<1>2. /\ handler[c] = "reading" /\ up[c] # <<>> /\ Head(up[c]) = "FILE-CONTENTS-REQ"
      /\ Len(Requested(c)) <= MaxFileSize
      /\ up'[c] = Tail(up[c]) /\ down'[c] = SendDown(c, <<m>>)
      /\ announced'[c] = n /\ handler'[c] = "sending"
      /\ UNCHANGED <<req, pc, parts, rows, sent, link, disk>>
  BY <1>1 DEF Announce, Handles, Answer, Typed, client
<1>3. pc[c] # "unused" /\ req[c] \in Download
  BY <1>1, <1>2 DEF Used
<1>4. n \in Nat /\ n <= MaxFileSize
  <2>1. 1 \in 1..Len(up[c]) /\ up[c][1] = "FILE-CONTENTS-REQ"
    BY <1>1, <1>2, TailShape DEF Typed
  <2>2. Requested(c) # NoEntry
    BY <1>1, <2>1 DEF Found, Promised
  <2>3. Requested(c) \in Seq(Nat)
    BY <1>1, <1>3, <2>2 DEF Requested, Typed, Download
  <2>. QED  BY <1>2, <2>3, PartsOfBound
<1>5. KeywordsOf(c) \in Keywords
  BY <1>1, <1>3, IndexAssumption DEF KeywordsOf, Typed, Download
<1>6. m \in Atom /\ m.kind = "CONTENTS" /\ m.val = n
  BY <1>4, <1>5, AtomTypes
<1>. HIDE DEF m, n
<1>7. Exact(c)'
  BY <1>2 DEF Copying, Exact
<1>8. <<m>> \in Seq(Atom) /\ Head(<<m>>) = m /\ Tail(<<m>>) = <<>> /\ <<m>> # <<>>
  BY <1>6
<1>9. /\ link[c] # "up" => down'[c] = down[c]
      /\ down[c] = <<>> /\ link[c] = "up" => down'[c] = <<m>>
  BY <1>1, <1>2, <1>8, SendNothing
<1>10. CASE pc[c] = "control"
  <2>1. down[c] = <<>> /\ Len(up[c]) <= 1 /\ up[c] # <<>> /\ parts[c] = 0
    BY <1>2, <1>10 DEF Copying, Controls
  <2>2. up'[c] = <<>> /\ Len(up'[c]) <= 1
    <3>1. Tail(up[c]) = <<>> /\ Len(<<>>) = 0
      BY <1>1, <2>1, OneLeft DEF Typed
    <3>2. up'[c] = <<>> /\ Len(up'[c]) = 0
      BY <1>2, <3>1, Zenon
    <3>. QED  BY <3>2
  <2>3. CASE link[c] = "up"
    <3>1. down'[c] = <<m>>
      BY <1>9, <2>1, <2>3
    <3>2. Announces(c)' /\ Head(down'[c]).kind = "CONTENTS" /\ down'[c] # <<>>
      BY <1>2, <1>4, <1>6, <1>8, <2>2, <3>1 DEF Announces
    <3>3. Controls(c)'
      <4>1. parts'[c] = 0 /\ "CONTENTS" # "YES"
        BY <1>2, <2>1
      <4>. QED  BY <2>2, <3>2, <4>1 DEF Controls
    <3>. QED  BY <1>2, <1>7, <1>10, <3>3 DEF Copying, Receives, Writes
  <2>4. CASE link[c] # "up"
    <3>1. down'[c] = <<>>
      BY <1>9, <2>1, <2>4
    <3>2. Controls(c)'
      <4>1. parts'[c] = 0 /\ link'[c] # "up"
        BY <1>2, <2>1, <2>4
      <4>. QED  BY <2>2, <3>1, <4>1 DEF Controls, Replies
    <3>. QED  BY <1>2, <1>7, <1>10, <3>2 DEF Copying, Receives, Writes
  <2>. QED  BY <2>3, <2>4
<1>11. CASE pc[c] \in {"open", "receive"}
  <2>1. Zero(c)
    BY <1>2, <1>11 DEF Copying, Receives, Announced
  <2>2. Zero(c)'
    BY <1>2, <1>9, <2>1 DEF Zero
  <2>. QED  BY <1>2, <1>7, <1>11, <2>2 DEF Copying, Controls, Receives, Writes
<1>12. CASE pc[c] \in {"write", "record"}
  <2>1. rows[c] = <<>>
    BY <1>2, <1>12 DEF Copying, Writes, Announced
  <2>. QED  BY <1>2, <1>7, <1>12, <2>1 DEF Copying, Controls, Receives, Writes
<1>13. CASE pc[c] \notin {"control", "open", "receive", "write", "record"}
  BY <1>2, <1>7, <1>13 DEF Copying, Controls, Receives, Writes
<1>. QED  BY <1>2, <1>10, <1>11, <1>12, <1>13

LEMMA SendsStream ==
    ASSUME TypeInv, NEW c \in Conn, SendFile(c) \/ SendOverrun(c)
    PROVE  \/ Dies(req[c].peer) /\ req[c].peer \in Node
           \/ \E bytes \in Streams(Requested(c)) : SendsBytes(c, bytes)
<1>1. Typed /\ Used(c) /\ Found(c) /\ handler[c] = "sending"
  BY TypedIs DEF TypeInv, SendFile, SendOverrun
<1>2. req[c] \in Download /\ Requested(c) \in Seq(Nat)
  BY <1>1, Sending
<1>3. CASE SendFile(c)
  BY <1>3 DEF SendFile, SendsBytes, Streams
<1>4. CASE SendOverrun(c)
  <2>1. Requested(c) # <<>>
    <3>1. announced[c] \in Nat /\ RowsOf(0) = 0 /\ Len(<<>>) = 0
      BY <1>1, RowsOfShape DEF Typed
    <3>2. RowsOf(Len(Requested(c))) > announced[c]
      BY <1>4 DEF SendOverrun
    <3>. QED  BY <3>1, <3>2
  <2>2. Streams(Requested(c)) = {PartsSent(Requested(c))}
    BY <2>1 DEF Streams
  <2>. QED  BY <1>2, <1>4, <2>2 DEF SendOverrun, SendsBytes, Download
<1>. QED  BY <1>3, <1>4

\* What the handler sends is the stream of the file, or nothing, or a byte 0.
LEMMA StreamsShape ==
    ASSUME NEW content \in Seq(Nat), NEW bytes \in Streams(content)
    PROVE  /\ bytes \in Seq(Bytes)
           /\ \/ bytes = PartsSent(content)
              \/ content = <<>> /\ bytes = <<>>
              \/ content = <<>> /\ bytes # <<>> /\ \A i \in 1..Len(bytes) : bytes[i].val = 0
<1>1. bytes \in Seq(Bytes)
  BY SentTypes DEF Streams
<1>2. CASE content # <<>>
  BY <1>1, <1>2 DEF Streams
<1>3. CASE content = <<>>
  <2>1. bytes \in EmptySent
    BY <1>3 DEF Streams
  <2>2. CASE bytes = [j \in 1..MsgSize + 1 |-> Byte(0)]
    <3>1. MsgSize + 1 \in Nat /\ 1 \in 1..MsgSize + 1
      BY SizesNat
    <3>2. Len(bytes) = MsgSize + 1
      BY <2>2, <3>1
    <3>3. \A i \in 1..Len(bytes) : bytes[i] = Byte(0)
      BY <2>2, <3>2
    <3>4. bytes # <<>>
      BY <3>1, <3>2
    <3>. QED  BY <1>1, <1>3, <3>3, <3>4, AtomTypes
  <2>. QED  BY <1>1, <1>3, <2>1, <2>2 DEF EmptySent
<1>. QED  BY <1>2, <1>3

\* What was to be read next is still read next.
LEMMA SendsBehind ==
    ASSUME Typed, NEW c \in Conn, NEW bytes \in Seq(Atom), down[c] # <<>>,
           down'[c] = SendDown(c, bytes)
    PROVE  down'[c] # <<>> /\ Head(down'[c]) = Head(down[c])
<1>1. down[c] \in Seq(Atom)
  BY DEF Typed
<1>2. CASE down'[c] = down[c]
  BY <1>2
<1>3. CASE down'[c] = down[c] \o bytes
  <2>. DEFINE both == down[c] \o bytes
  <2>1. /\ both \in Seq(Atom) /\ 1 \in 1..Len(down[c]) /\ Head(down[c]) = down[c][1]
        /\ both[1] = down[c][1] /\ 1 \in 1..Len(both)
    BY <1>1, ConcatShape, TailShape
  <2>. HIDE DEF both
  <2>2. both # <<>>
    BY <2>1
  <2>3. Head(both) = both[1]
    BY <2>1, <2>2, TailShape
  <2>. QED  BY <1>3, <2>1, <2>2, <2>3 DEF both
<1>. QED  BY <1>2, <1>3 DEF SendDown

LEMMA SendsCopying ==
    ASSUME TypeInv, Copies, NEW c \in Conn, Copying(c),
           NEW bytes \in Streams(Requested(c)), SendsBytes(c, bytes)
    PROVE  Copying(c)' /\ disk' = disk
<1>1. Typed /\ Used(c) /\ Found(c)
  BY TypedIs DEF TypeInv
<1>2. /\ handler[c] = "sending" /\ handler'[c] = "reading"
      /\ sent'[c] = Requested(c) /\ down'[c] = SendDown(c, bytes)
      /\ UNCHANGED <<req, pc, parts, rows, announced, link, up, disk>>
  BY <1>1 DEF SendsBytes, Typed, client
<1>3. req[c] \in Download /\ Requested(c) \in Seq(Nat) /\ pc[c] # "unused"
  BY <1>1, <1>2, Sending DEF Used
<1>4. /\ bytes \in Seq(Bytes) /\ bytes \in Seq(Atom)
      /\ \/ bytes = PartsSent(Requested(c))
         \/ bytes = <<>>
         \/ bytes # <<>> /\ \A i \in 1..Len(bytes) : bytes[i].val = 0
  BY <1>3, StreamsShape, BytesAre
<1>5. /\ link[c] # "up" => down'[c] = down[c]
      /\ down[c] = <<>> /\ link[c] = "up" => down'[c] = bytes
  BY <1>1, <1>2, <1>4, SendNothing
<1>6. Exact(c)'
  <2>1. Requested(c) # NoEntry
    BY <1>1, <1>2 DEF Found, Promised
  <2>2. Begins(Requested(c), Original(req[c].file))
    BY <1>3, <2>1 DEF Copies, Requested, Download
  <2>. QED  BY <1>2, <1>3, <2>2 DEF Exact
<1>7. CASE pc[c] = "control"
  <2>1. /\ up[c] = <<>> /\ parts[c] = 0
        /\ IF down[c] = <<>> THEN link[c] # "up" ELSE Announces(c)
    BY <1>2, <1>7 DEF Copying, Controls
  <2>2. CASE down[c] = <<>>
    <3>1. down'[c] = <<>>
      BY <1>5, <2>1, <2>2
    <3>2. Controls(c)'
      BY <1>2, <2>1, <3>1, EmptySeq DEF Controls, Replies
    <3>. QED  BY <1>2, <1>6, <1>7, <3>2 DEF Copying, Receives, Writes
  <2>3. CASE down[c] # <<>>
    <3>1. /\ Head(down[c]).kind = "CONTENTS" /\ Head(down[c]).val = announced[c]
          /\ announced[c] <= MaxFileSize /\ Tail(down[c]) = <<>>
      BY <1>2, <2>1, <2>3 DEF Announces
    <3>2. /\ down'[c] # <<>> /\ Head(down'[c]) = Head(down[c])
          /\ Tail(down'[c]) = <<>> \/ Tail(down'[c]) = bytes
      <4>1. CASE link[c] # "up"
        BY <1>5, <2>3, <3>1, <4>1
      <4>2. CASE link[c] = "up"
        <5>. DEFINE first == down[c]
                    both == first \o bytes
        <5>1. first \in Seq(Atom) /\ first # <<>> /\ Tail(first) = <<>> /\ down'[c] = both
          BY <1>1, <1>2, <2>3, <3>1, <4>2 DEF Typed, SendDown
        <5>. HIDE DEF first
        <5>2. Len(first) = 1
          <6>. DEFINE l == Len(Tail(first))
          <6>1. l = Len(first) - 1 /\ Len(first) \in Nat \ {0}
            BY <5>1, TailShape, EmptySeq
          <6>2. l = 0
            BY <5>1, EmptySeq
          <6>. HIDE DEF l
          <6>. QED  BY <6>1, <6>2
        <5>3. /\ both \in Seq(Atom) /\ Len(both) = Len(first) + Len(bytes)
              /\ \A i \in 1..Len(first) : both[i] = first[i]
              /\ \A j \in 1..Len(bytes) : both[Len(first) + j] = bytes[j]
          BY <1>4, <5>1, ConcatShape
        <5>. HIDE DEF both
        <5>4. both # <<>> /\ Len(bytes) \in Nat
          BY <1>4, <5>2, <5>3, EmptySeq
        <5>5. Head(both) = both[1] /\ Head(first) = first[1] /\ 1 \in 1..Len(first)
          BY <5>1, <5>3, <5>4, TailShape
        <5>6. /\ Tail(both) \in Seq(Atom) /\ Len(Tail(both)) = Len(both) - 1
              /\ \A i \in 1..Len(Tail(both)) : Tail(both)[i] = both[i + 1]
          BY <5>3, <5>4, TailShape
        <5>7. Len(Tail(both)) = Len(bytes)
          BY <5>2, <5>3, <5>4, <5>6
        <5>8. ASSUME NEW i \in 1..Len(bytes) PROVE Tail(both)[i] = bytes[i]
          <6>1. Tail(both)[i] = both[i + 1] /\ Len(first) + i = i + 1
            BY <5>2, <5>6, <5>7
          <6>. QED  BY <5>3, <6>1
        <5>9. Tail(both) = bytes
          BY <1>4, <5>6, <5>7, <5>8, SeqEqual
        <5>. QED  BY <5>1, <5>3, <5>4, <5>5, <5>9 DEF first
      <4>. QED  BY <4>1, <4>2
    <3>3. Announces(c)' /\ "CONTENTS" # "YES"
      BY <1>2, <2>1, <3>1, <3>2 DEF Announces
    <3>4. Controls(c)'
      BY <1>2, <2>1, <3>1, <3>2, <3>3, EmptySeq DEF Controls
    <3>. QED  BY <1>2, <1>6, <1>7, <3>4 DEF Copying, Receives, Writes
  <2>. QED  BY <1>2, <2>2, <2>3
<1>8. CASE pc[c] \in {"open", "receive"}
  <2>1. Zero(c) \/ (Announced(c) /\ (Waits(c) \/ Spoilt(c)))
    BY <1>2, <1>8 DEF Copying, Receives, Aligned
  <2>2. CASE Zero(c)
    <3>1. Zero(c)'
      BY <1>2, <1>5, <2>2 DEF Zero
    <3>. QED  BY <1>2, <1>6, <1>8, <3>1 DEF Copying, Controls, Receives, Writes
  <2>3. CASE Announced(c) /\ Waits(c)
    <3>1. Announced(c)' /\ AllEmpty(rows[c]) /\ AllEmpty(rows'[c])
      BY <1>2, <2>3 DEF Announced, Waits, AllEmpty
    <3>2. Beginning(rows'[c], sent'[c])
      BY <3>1, EmptyBeginning
    <3>3. down'[c] = <<>> \/ down'[c] = bytes
      BY <1>5, <2>3 DEF Waits
    <3>4. Waits(c)' \/ Spoilt(c)' \/ Aligned(c, 0)'
      <4>1. CASE down'[c] = <<>>
        BY <3>1, <4>1 DEF Waits
      <4>2. CASE down'[c] = bytes /\ bytes = PartsSent(Requested(c))
        <5>1. 0 * RowSize = 0 /\ Stream(c)' = bytes
          BY <1>2, <4>2, SizesNat DEF Stream
        <5>2. After(bytes, 0) = bytes
          BY <1>4 DEF After
        <5>3. \A j \in DOMAIN rows'[c] : rows'[c][j] = <<>> /\ ~(j <= 0)
          <6>1. rows'[c] \in Seq(Seq(Nat))
            BY <1>1, <1>2 DEF Typed
          <6>. QED  BY <3>1, <6>1 DEF AllEmpty
        <5>4. 0 <= Len(bytes)
          BY <1>4
        <5>. QED  BY <1>2, <4>2, <5>1, <5>2, <5>3, <5>4 DEF Aligned
      <4>3. CASE down'[c] = bytes /\ bytes # <<>> /\ \A i \in 1..Len(bytes) : bytes[i].val = 0
        <5>1. Head(bytes) = bytes[1] /\ 1 \in 1..Len(bytes)
          BY <1>4, <4>3, TailShape
        <5>2. Head(down'[c]).val \notin 1..parts'[c]
          BY <4>3, <5>1
        <5>. QED  BY <1>2, <3>1, <5>2 DEF Spoilt
      <4>. QED  BY <1>4, <3>3, <4>1, <4>2, <4>3
    <3>5. 0 \in 0..Len(Stream(c)')
      <4>1. Stream(c)' \in Seq(Bytes)
        BY <1>2, <1>3, SentTypes DEF Stream
      <4>. QED  BY <4>1
    <3>6. Receives(c)'
      BY <3>1, <3>2, <3>4, <3>5 DEF Receives
    <3>. QED  BY <1>2, <1>6, <1>8, <3>6 DEF Copying, Controls, Writes
  <2>4. CASE Announced(c) /\ Spoilt(c)
    <3>1. /\ Announced(c)' /\ AllEmpty(rows'[c]) /\ down[c] # <<>>
          /\ Head(down[c]).val \notin 1..parts[c]
      BY <1>2, <2>4 DEF Announced, Spoilt, AllEmpty
    <3>2. Beginning(rows'[c], sent'[c])
      BY <3>1, EmptyBeginning
    <3>3. down'[c] # <<>> /\ Head(down'[c]) = Head(down[c])
      BY <1>1, <1>2, <1>4, <3>1, SendsBehind
    <3>4. Spoilt(c)'
      BY <1>2, <3>1, <3>3 DEF Spoilt
    <3>5. Receives(c)'
      BY <3>1, <3>2, <3>4 DEF Receives
    <3>. QED  BY <1>2, <1>6, <1>8, <3>5 DEF Copying, Controls, Writes
  <2>. QED  BY <1>2, <2>1, <2>2, <2>3, <2>4
<1>9. CASE pc[c] \in {"write", "record"}
  <2>1. rows[c] = <<>> \/ (Announced(c) /\ AllEmpty(rows[c]))
    BY <1>2, <1>9 DEF Copying, Writes
  <2>2. rows[c] = <<>> \/ (Beginning(rows'[c], sent'[c]) /\ ~AllFound(rows'[c]))
    BY <1>1, <1>2, <2>1, EmptyBeginning, SomeEmpty DEF Typed
  <2>3. Writes(c)'
    BY <1>2, <2>1, <2>2 DEF Writes, Announced
  <2>. QED  BY <1>2, <1>6, <1>9, <2>3 DEF Copying, Controls, Receives
<1>10. CASE pc[c] \notin {"control", "open", "receive", "write", "record"}
  BY <1>2, <1>6, <1>10 DEF Copying, Controls, Receives, Writes
<1>. QED  BY <1>7, <1>8, <1>9, <1>10

LEMMA TailRest ==
    ASSUME NEW T, NEW s \in Seq(T), s # <<>>, NEW k \in 0..Len(s) - 1
    PROVE  /\ Len(Tail(s)) \in Nat /\ k \in 0..Len(Tail(s))
           /\ SubSeq(s, k + 2, Len(s)) = SubSeq(Tail(s), k + 1, Len(Tail(s)))
<1>. DEFINE t == Tail(s)
            a == SubSeq(s, (k + 1) + 1, Len(s))
            b == SubSeq(t, k + 1, Len(t))
<1>1. /\ t \in Seq(T) /\ Len(t) = Len(s) - 1
      /\ \A i \in 1..Len(t) : i + 1 \in 1..Len(s) /\ t[i] = s[i + 1]
  BY TailShape
<1>. HIDE DEF t
<1>2. Len(s) \in Nat /\ Len(t) \in Nat /\ k \in 0..Len(t) /\ k + 1 \in 0..Len(s)
  BY <1>1
<1>3. /\ a \in Seq(T) /\ Len(a) = Len(s) - (k + 1)
      /\ \A i \in 1..Len(s) - (k + 1) : a[i] = s[i + (k + 1)]
  BY <1>2, RestShape
<1>4. /\ b \in Seq(T) /\ Len(b) = Len(t) - k
      /\ \A i \in 1..Len(t) - k : i + k \in 1..Len(t) /\ b[i] = t[i + k]
  BY <1>1, <1>2, RestShape
<1>. HIDE DEF a, b
<1>5. Len(a) = Len(b)
  BY <1>1, <1>2, <1>3, <1>4
<1>6. ASSUME NEW i \in 1..Len(a) PROVE a[i] = b[i]
  <2>1. i \in 1..Len(s) - (k + 1) /\ i \in 1..Len(t) - k
    BY <1>3, <1>4, <1>5
  <2>2. b[i] = s[(i + k) + 1] /\ (i + k) + 1 = i + (k + 1)
    BY <1>1, <1>4, <2>1
  <2>. QED  BY <1>3, <2>1, <2>2
<1>7. a = b
  BY <1>3, <1>4, <1>5, <1>6, SeqEqual
<1>8. (k + 1) + 1 = k + 2
  OBVIOUS
<1>. QED  BY <1>2, <1>7, <1>8 DEF a, b, t

LEMMA UserCopying ==
    ASSUME TypeInv, NEW c \in Conn, Copying(c), User(c) PROVE Copying(c)' /\ disk' = disk
<1>1. Typed /\ Used(c)
  BY TypedIs DEF TypeInv
<1>2. PICK n \in Node, m \in Node, f \in File : Connect(c, n, m, f) \/ Refused(c, n, m, f)
  BY DEF User
<1>3. /\ pc[c] = "unused" /\ handler[c] = "none" /\ up[c] = <<>> /\ down[c] = <<>>
      /\ parts[c] = 0 /\ rows[c] = <<>> /\ sent[c] = <<>>
  <2>1. pc[c] = "unused"
    BY <1>2 DEF Connect, Refused, Opens
  <2>. QED  BY <1>1, <2>1 DEF Used, Copying, Exact
<1>4. /\ req'[c] = [node |-> n, peer |-> m, file |-> f]
      /\ UNCHANGED <<parts, rows, handler, announced, sent, down, disk>>
  BY <1>1, <1>2 DEF Connect, Refused, Typed, server
<1>5. \/ pc'[c] = "control" /\ up'[c] = <<"FILE-REQ">>
      \/ pc'[c] = "open" /\ link'[c] = "refused"
  BY <1>1, <1>2 DEF Connect, Refused, Typed
<1>6. Exact(c)'
  <2>1. req'[c].file = f
    BY <1>4
  <2>2. Begins(<<>>, Original(f))
    BY OriginalShape
  <2>. QED  BY <1>3, <1>4, <1>5, <2>1, <2>2 DEF Exact
<1>7. CASE pc'[c] = "control" /\ up'[c] = <<"FILE-REQ">>
  <2>1. Len(up'[c]) <= 1
    BY <1>7
  <2>2. Controls(c)'
    BY <1>3, <1>4, <2>1 DEF Controls, Replies
  <2>. QED  BY <1>4, <1>6, <1>7, <2>2 DEF Copying, Receives, Writes
<1>8. CASE pc'[c] = "open" /\ link'[c] = "refused"
  <2>1. Zero(c)'
    BY <1>3, <1>4, <1>8 DEF Zero
  <2>. QED  BY <1>4, <1>6, <1>8, <2>1 DEF Copying, Controls, Receives, Writes
<1>. QED  BY <1>4, <1>5, <1>7, <1>8

LEMMA ReadYesCopying ==
    ASSUME TypeInv, NEW c \in Conn, Copying(c), ReadYes(c) PROVE Copying(c)' /\ disk' = disk
<1>1. Typed /\ Used(c)
  BY TypedIs DEF TypeInv
<1>2. /\ pc[c] = "control" /\ down[c] # <<>> /\ Head(down[c]).kind = "YES"
      /\ down'[c] = Tail(down[c])
      /\ up'[c] = up[c] \/ up'[c] = Append(up[c], "FILE-CONTENTS-REQ")
      /\ UNCHANGED <<req, pc, parts, rows, handler, announced, sent, link, disk>>
  BY <1>1 DEF ReadYes, Reads, SendUp, Typed, client, server
<1>3. /\ up[c] = <<>> /\ handler[c] # "sending" /\ parts[c] = 0
      /\ Replies(c) \/ Announces(c)
  BY <1>2 DEF Copying, Controls
<1>4. Len(down[c]) = 1
  BY <1>2, <1>3 DEF Replies, Announces
<1>5. down'[c] = <<>>
  <2>1. Len(down[c]) <= 1 /\ down[c] \in Seq(Atom)
    BY <1>1, <1>4 DEF Typed
  <2>. QED  BY <1>2, <2>1, OneLeft
<1>6. up'[c] = <<>> \/ up'[c] = <<"FILE-CONTENTS-REQ">>
  BY <1>2, <1>3
<1>7. Len(up'[c]) <= 1
  <2>1. Len(<<>>) = 0 /\ Len(<<"FILE-CONTENTS-REQ">>) = 1
    OBVIOUS
  <2>. DEFINE l == Len(up'[c])
  <2>2. l = 0 \/ l = 1
    BY <1>6, <2>1, Zenon
  <2>. HIDE DEF l
  <2>3. l <= 1
    BY <2>2
  <2>. QED  BY <2>3 DEF l
<1>8. Controls(c)'
  BY <1>2, <1>3, <1>5, <1>7 DEF Controls, Replies
<1>9. Exact(c)'
  BY <1>2 DEF Copying, Exact
<1>. QED  BY <1>2, <1>8, <1>9 DEF Copying, Receives, Writes

LEMMA ControlErrorCopying ==
    ASSUME TypeInv, NEW c \in Conn, Copying(c), ControlError(c)
    PROVE  Copying(c)' /\ disk' = disk
<1>1. Typed /\ Used(c)
  BY TypedIs DEF TypeInv
<1>2. /\ pc[c] = "control" /\ pc'[c] = "open" /\ down[c] = <<>> /\ link'[c] = "dead"
      /\ UNCHANGED <<req, parts, rows, handler, announced, sent, up, down, disk>>
  BY <1>1 DEF ControlError, ReadFails, Typed, server
<1>3. rows[c] = <<>> /\ parts[c] = 0
  BY <1>1, <1>2 DEF Used, Copying, Controls
<1>4. Zero(c)'
  BY <1>2, <1>3 DEF Zero
<1>5. Exact(c)'
  BY <1>2 DEF Copying, Exact
<1>. QED  BY <1>2, <1>4, <1>5 DEF Copying, Controls, Receives, Writes

LEMMA ReadContentsCopying ==
    ASSUME TypeInv, NEW c \in Conn, Copying(c), ReadContents(c)
    PROVE  Copying(c)' /\ disk' = disk
<1>1. Typed /\ Used(c)
  BY TypedIs DEF TypeInv
<1>2. PICK k \in Glued(c) : down' = [down EXCEPT ![c] = SubSeq(@, k + 2, Len(@))]
  BY DEF ReadContents
<1>3. /\ pc[c] = "control" /\ pc'[c] = "open" /\ down[c] # <<>>
      /\ Head(down[c]).kind = "CONTENTS" /\ parts'[c] = Head(down[c]).val
      /\ down'[c] = SubSeq(down[c], k + 2, Len(down[c]))
      /\ UNCHANGED <<req, rows, handler, announced, sent, up, link, disk>>
  BY <1>1, <1>2 DEF ReadContents, Reads, Typed, server
<1>4. /\ down[c] \in Seq(Atom) /\ k \in 0..Len(down[c]) - 1 /\ k < MsgSize
      /\ req[c].node \notin AnyReads => k = 0
  BY <1>1, <1>3, GluedShape DEF Typed
<1>5. Announces(c)
  <2>1. ~Replies(c)
    <3>1. Head(down[c]) = down[c][1]
      BY <1>3, <1>4, TailShape
    <3>. QED  BY <1>3, <3>1 DEF Replies
  <2>. QED  BY <1>3, <2>1 DEF Copying, Controls
<1>6. Announced(c)'
  BY <1>3, <1>5 DEF Announces, Announced
<1>7. rows'[c] = <<>> /\ AllEmpty(rows'[c]) /\ Beginning(rows'[c], sent'[c])
  <2>1. rows'[c] = <<>>
    BY <1>1, <1>3 DEF Used
  <2>2. AllEmpty(<<>>)
    BY DEF AllEmpty
  <2>. QED  BY <2>1, <2>2, EmptyBeginning
<1>. DEFINE t == Tail(down[c])
<1>8. /\ t \in Seq(Atom) /\ Len(t) \in Nat /\ k \in 0..Len(t)
      /\ down'[c] = After(t, k)
  BY <1>3, <1>4, TailRest, TailShape DEF After
<1>9. sent[c] \in Seq(Nat) /\ Text(sent[c])
  BY SentText DEF Copying
<1>10. t = <<>> \/ (handler[c] # "sending" /\ t \in Streams(sent[c]))
  BY <1>5 DEF Announces
<1>. HIDE DEF t
<1>11. Waits(c)' \/ Spoilt(c)' \/ Aligned(c, 0)'
  <2>1. CASE down'[c] = <<>>
    BY <1>7, <2>1 DEF Waits
  <2>2. CASE down'[c] # <<>>
    <3>1. /\ k + 1 \in 1..Len(t) /\ 1 \in 1..Len(t) - k /\ Head(down'[c]) = t[k + 1]
      BY <1>8, <2>2, AfterShape
    <3>2. t # <<>>
      BY <1>8, <3>1, EmptySeq
    <3>3. handler[c] # "sending" /\ t \in Streams(sent[c])
      BY <1>10, <3>2
    <3>4. CASE t = PartsSent(sent[c])
      <4>1. t \in Seq(Bytes) /\ 0 * RowSize = 0 /\ After(t, 0) = t /\ 0 <= Len(t)
        BY <1>8, <1>9, <3>4, SentTypes, SizesNat DEF After
      <4>2. CASE k = 0
        <5>1. down'[c] = t /\ Stream(c)' = t
          BY <1>3, <1>8, <3>4, <4>1, <4>2 DEF Stream
        <5>. QED  BY <1>3, <1>7, <3>3, <4>1, <5>1 DEF Aligned
      <4>3. CASE k # 0
        <5>1. k \in 1..Len(t) /\ k < RowSize /\ k <= RowSize
          BY <1>4, <1>8, <4>3, SizesNat DEF RowSize
        <5>2. /\ 0 \in Nat /\ 0 * RowSize <= Len(PartsSent(sent[c]))
              /\ t = After(PartsSent(sent[c]), 0 * RowSize)
          BY <3>4, <4>1
        <5>3. Head(SubSeq(t, k + 1, Len(t))).val = 0
              \/ Head(SubSeq(t, k + 1, Len(t))).val > MaxFileSize
          <6>1. SubSeq(t, k + 1, Len(t)) # <<>>
            BY <1>8, <2>2 DEF After
          <6>. QED  BY <1>9, <3>2, <5>1, <5>2, <6>1, ReadAtPart
        <5>4. Head(down'[c]).val = 0 \/ Head(down'[c]).val > MaxFileSize
          BY <1>8, <5>3 DEF After
        <5>5. Head(down'[c]).val \in Nat
          <6>1. t[k + 1] \in Atom
            BY <1>8, <3>1
          <6>. QED  BY <3>1, <6>1, AtomFields
        <5>6. parts'[c] \in Nat /\ parts'[c] <= MaxFileSize
          <6>1. announced[c] \in Nat
            BY <1>1 DEF Typed
          <6>. QED  BY <1>3, <1>6, <6>1 DEF Announced
        <5>7. Head(down'[c]).val \notin 1..parts'[c]
          BY <5>4, <5>5, <5>6, SizesNat
        <5>. QED  BY <1>3, <1>7, <3>3, <5>7 DEF Spoilt
      <4>. QED  BY <4>2, <4>3
    <3>5. CASE t # PartsSent(sent[c])
      <4>1. \A i \in 1..Len(t) : t[i].val = 0
        BY <1>9, <3>2, <3>3, <3>5, StreamsShape
      <4>2. Head(down'[c]).val = 0
        BY <3>1, <4>1
      <4>3. Head(down'[c]).val \notin 1..parts'[c]
        BY <4>2
      <4>. QED  BY <1>3, <1>7, <3>3, <4>3 DEF Spoilt
    <3>. QED  BY <3>4, <3>5
  <2>. QED  BY <2>1, <2>2
<1>12. 0 \in 0..Len(Stream(c)')
  <2>1. Stream(c)' \in Seq(Bytes)
    BY <1>3, <1>9, SentTypes DEF Stream
  <2>. QED  BY <2>1
<1>13. Receives(c)'
  BY <1>6, <1>7, <1>11, <1>12 DEF Receives
<1>14. Exact(c)'
  BY <1>3 DEF Copying, Exact
<1>. QED  BY <1>3, <1>13, <1>14 DEF Copying, Controls, Writes

\* The rest of the message is no part, and no part has been read.
LEMMA ReadContentsCutCopying ==
    ASSUME TypeInv, NEW c \in Conn, Copying(c), ReadContentsCut(c)
    PROVE  Copying(c)' /\ disk' = disk
<1>1. Typed /\ Used(c)
  BY TypedIs DEF TypeInv
<1>2. /\ pc[c] = "control" /\ pc'[c] = "open" /\ down[c] # <<>>
      /\ Head(down[c]).kind = "CONTENTS" /\ parts'[c] = Head(down[c]).val
      /\ down'[c] # <<>> /\ Head(down'[c]).val = 0
      /\ UNCHANGED <<req, rows, handler, announced, sent, up, link, disk>>
  BY <1>1, CutReads
<1>3. Announces(c)
  <2>1. ~Replies(c)
    <3>1. Head(down[c]) = down[c][1]
      BY <1>1, <1>2, TailShape DEF Typed
    <3>. QED  BY <1>2, <3>1 DEF Replies
  <2>. QED  BY <1>2, <2>1 DEF Copying, Controls
<1>4. Announced(c)'
  BY <1>2, <1>3 DEF Announces, Announced
<1>5. AllEmpty(rows'[c]) /\ Beginning(rows'[c], sent'[c])
  <2>1. rows'[c] = <<>>
    BY <1>1, <1>2 DEF Used
  <2>2. AllEmpty(<<>>)
    BY DEF AllEmpty
  <2>. QED  BY <2>1, <2>2, EmptyBeginning
<1>6. Spoilt(c)'
  <2>1. Head(down'[c]).val \notin 1..parts'[c]
    BY <1>2
  <2>. QED  BY <1>2, <1>5, <2>1 DEF Spoilt
<1>7. Receives(c)'
  BY <1>4, <1>5, <1>6 DEF Receives
<1>8. Exact(c)'
  BY <1>2 DEF Copying, Exact
<1>. QED  BY <1>2, <1>7, <1>8 DEF Copying, Controls, Writes

LEMMA OpenCopyCopying ==
    ASSUME TypeInv, NEW c \in Conn, Copying(c), OpenCopy(c) PROVE Copying(c)'
<1>1. Typed /\ Used(c)
  BY TypedIs DEF TypeInv
<1>2. /\ pc[c] = "open" /\ (pc'[c] = "receive" \/ pc'[c] = "write")
      /\ rows'[c] = [i \in 1..parts[c] |-> <<>>]
      /\ UNCHANGED <<req, parts, handler, announced, sent, up, down, link>>
  BY <1>1 DEF OpenCopy, Typed, server
<1>3. AllEmpty(rows'[c]) /\ Beginning(rows'[c], sent'[c])
  <2>1. AllEmpty(rows'[c])
    BY <1>2 DEF AllEmpty
  <2>. QED  BY <2>1, EmptyBeginning
<1>4. parts[c] \in Nat /\ rows'[c] \in Seq(Seq(Nat))
  <2>1. parts[c] \in Nat
    BY <1>1 DEF Typed
  <2>. DEFINE empty == [i \in 1..parts[c] |-> <<>>]
  <2>2. \A i \in 1..parts[c] : empty[i] \in Seq(Nat)
    OBVIOUS
  <2>3. empty \in [1..parts[c] -> Seq(Nat)]
    BY <2>2
  <2>4. rows'[c] = empty
    BY <1>2
  <2>. HIDE DEF empty
  <2>. QED  BY <2>1, <2>3, <2>4
<1>5. Exact(c)'
  BY <1>2 DEF Copying, Exact
<1>6. CASE Zero(c)
  <2>1. rows'[c] = <<>>
    BY <1>2, <1>6 DEF Zero
  <2>2. Zero(c)'
    BY <1>2, <1>6, <2>1 DEF Zero
  <2>. QED  BY <1>2, <1>5, <2>1, <2>2 DEF Copying, Controls, Receives, Writes
<1>7. CASE ~Zero(c)
  <2>1. /\ Announced(c)
        /\ Waits(c) \/ Spoilt(c) \/ \E i \in 0..Len(Stream(c)) : Aligned(c, i) /\ i = 0
    BY <1>2, <1>7 DEF Copying, Receives
  <2>2. Announced(c)'
    BY <1>2, <2>1 DEF Announced
  <2>3. CASE pc'[c] = "write"
    <3>1. rows'[c] = <<>> \/ ~AllFound(rows'[c])
      BY <1>3, <1>4, SomeEmpty
    <3>2. Writes(c)'
      BY <1>3, <2>2, <3>1 DEF Writes
    <3>. QED  BY <1>5, <2>3, <3>2 DEF Copying, Controls, Receives
  <2>4. CASE pc'[c] = "receive"
    <3>1. Waits(c)' \/ Spoilt(c)' \/ \E i \in 0..Len(Stream(c)') : Aligned(c, i)'
      <4>1. CASE Waits(c)
        BY <1>2, <1>3, <4>1 DEF Waits
      <4>2. CASE Spoilt(c)
        BY <1>2, <1>3, <4>2 DEF Spoilt
      <4>3. ASSUME NEW i \in 0..Len(Stream(c)), Aligned(c, i), i = 0
            PROVE  i \in 0..Len(Stream(c)') /\ Aligned(c, i)'
        <5>1. Stream(c)' = Stream(c)
          BY <1>2 DEF Stream
        <5>2. \A j \in DOMAIN rows'[c] : ~(j <= 0)
          BY <1>4
        <5>. QED  BY <1>2, <1>3, <4>3, <5>1, <5>2 DEF Aligned, AllEmpty
      <4>. QED  BY <2>1, <4>1, <4>2, <4>3
    <3>2. Receives(c)'
      BY <1>3, <2>2, <2>4, <3>1 DEF Receives
    <3>. QED  BY <1>5, <2>4, <3>2 DEF Copying, Controls, Writes
  <2>. QED  BY <1>2, <2>3, <2>4
<1>. QED  BY <1>6, <1>7

\* What comes next, when the client has read i parts and something has come.
LEMMA AlignedNext ==
    ASSUME TypeInv, NEW c \in Conn, Copying(c), down[c] # <<>>,
           NEW i \in Nat, Aligned(c, i)
    PROVE  /\ sent[c] \in Seq(Nat) /\ Text(sent[c])
           /\ down[c] = After(PartsSent(sent[c]), i * RowSize)
           /\ i * RowSize <= Len(PartsSent(sent[c]))
           /\ down[c] \in Seq(Atom)
           /\ Head(down[c]).val = i + 1
<1>1. Typed
  BY TypedIs DEF TypeInv
<1>2. sent[c] \in Seq(Nat) /\ Text(sent[c]) /\ down[c] \in Seq(Atom)
  BY <1>1, SentText DEF Copying, Typed
<1>3. /\ down[c] = After(PartsSent(sent[c]), i * RowSize)
      /\ i * RowSize <= Len(PartsSent(sent[c]))
  BY DEF Aligned, Stream
<1>4. 1 \in 1..Len(down[c]) /\ 1 <= RowSize
  BY <1>2, TailShape, SizesNat
<1>5. Head(down[c]).val = i + 1
  BY <1>2, <1>3, <1>4, ReadAtPart
<1>. QED  BY <1>2, <1>3, <1>5

LEMMA ReadInvalidCopying ==
    ASSUME TypeInv, NEW c \in Conn, Copying(c), ReadInvalid(c)
    PROVE  Copying(c)' /\ disk' = disk
<1>1. Typed /\ Used(c)
  BY TypedIs DEF TypeInv
<1>2. /\ pc[c] = "receive" /\ pc'[c] = "write" /\ down[c] # <<>>
      /\ Head(down[c]).val \notin 1..parts[c]
      /\ UNCHANGED <<req, parts, rows, handler, announced, sent, up, link, disk>>
  BY <1>1 DEF ReadInvalid, Typed, server
<1>3. rows[c] \in Seq(Seq(Nat)) /\ parts[c] \in Nat /\ DOMAIN rows[c] = 1..parts[c]
  BY <1>1, <1>2 DEF Typed, Used
<1>4. /\ Announced(c) /\ Beginning(rows[c], sent[c])
      /\ Spoilt(c) \/ \E i \in 0..Len(Stream(c)) : Aligned(c, i)
  BY <1>2 DEF Copying, Receives, Zero, Waits
<1>5. /\ handler[c] = "sending" => AllEmpty(rows[c])
      /\ \/ rows[c] = <<>> \/ req[c].node \in AnyReads \/ ~AllFound(rows[c])
         \/ \A j \in DOMAIN rows[c] : Whole(rows[c], sent[c], j)
  <2>1. CASE Spoilt(c)
    BY <1>3, <2>1, SomeEmpty DEF Spoilt
  <2>2. ASSUME NEW i \in 0..Len(Stream(c)), Aligned(c, i)
        PROVE  handler[c] # "sending" /\ \A j \in DOMAIN rows[c] : Whole(rows[c], sent[c], j)
    <3>1. i \in Nat
      OBVIOUS
    <3>2. Head(down[c]).val = i + 1
      BY <1>2, <2>2, <3>1, AlignedNext
    <3>3. \A j \in DOMAIN rows[c] : j <= i
      BY <1>2, <1>3, <3>1, <3>2
    <3>. QED  BY <2>2, <3>3 DEF Aligned
  <2>. QED  BY <1>4, <2>1, <2>2
<1>6. Announced(c)' /\ Beginning(rows'[c], sent'[c])
  BY <1>2, <1>4 DEF Announced
<1>7. Writes(c)'
  BY <1>2, <1>5, <1>6 DEF Writes
<1>8. Exact(c)'
  BY <1>2 DEF Copying, Exact
<1>. QED  BY <1>2, <1>7, <1>8 DEF Copying, Controls, Receives

LEMMA ReceiveErrorCopying ==
    ASSUME TypeInv, NEW c \in Conn, Copying(c), ReceiveError(c)
    PROVE  Copying(c)' /\ disk' = disk
<1>1. Typed /\ Used(c)
  BY TypedIs DEF TypeInv
<1>2. /\ pc[c] = "receive" /\ pc'[c] = "write" /\ down[c] = <<>>
      /\ UNCHANGED <<req, parts, rows, handler, announced, sent, up, down, disk>>
  BY <1>1 DEF ReceiveError, ReadFails, Typed, server
<1>3. rows[c] \in Seq(Seq(Nat))
  BY <1>1 DEF Typed
<1>4. Exact(c)'
  BY <1>2 DEF Copying, Exact
<1>5. CASE Zero(c)
  <2>1. Writes(c)'
    BY <1>2, <1>5 DEF Zero, Writes
  <2>. QED  BY <1>2, <1>4, <2>1 DEF Copying, Controls, Receives
<1>6. CASE ~Zero(c)
  <2>1. /\ Announced(c) /\ Beginning(rows[c], sent[c])
        /\ Waits(c) \/ Spoilt(c) \/ \E i \in 0..Len(Stream(c)) : Aligned(c, i)
    BY <1>2, <1>6 DEF Copying, Receives
  <2>2. /\ handler[c] = "sending" => AllEmpty(rows[c])
        /\ \/ rows[c] = <<>> \/ req[c].node \in AnyReads \/ ~AllFound(rows[c])
           \/ \A j \in DOMAIN rows[c] : Whole(rows[c], sent[c], j)
    <3>1. CASE Waits(c) \/ Spoilt(c)
      BY <1>3, <3>1, SomeEmpty DEF Spoilt, Waits
    <3>2. ASSUME NEW i \in 0..Len(Stream(c)), Aligned(c, i)
          PROVE  /\ handler[c] # "sending"
                 /\ \/ ~AllFound(rows[c])
                    \/ \A j \in DOMAIN rows[c] : Whole(rows[c], sent[c], j)
      BY <3>2 DEF Aligned, AllFound
    <3>. QED  BY <2>1, <3>1, <3>2
  <2>3. Announced(c)' /\ Beginning(rows'[c], sent'[c])
    BY <1>2, <2>1 DEF Announced
  <2>4. Writes(c)'
    BY <1>2, <2>2, <2>3 DEF Writes
  <2>. QED  BY <1>2, <1>4, <2>4 DEF Copying, Controls, Receives
<1>. QED  BY <1>2, <1>5, <1>6

LEMMA WriteCopyCopying ==
    ASSUME TypeInv, NEW c \in Conn, Copying(c), WriteCopy(c)
    PROVE  /\ Copying(c)' /\ req[c] \in Download
           /\ FlattenSeq(rows[c]) \in Seq(Nat)
           /\ Begins(FlattenSeq(rows[c]), Original(req[c].file))
<1>1. Typed /\ Used(c)
  BY TypedIs DEF TypeInv
<1>2. /\ pc[c] = "write" /\ pc'[c] = "record"
      /\ UNCHANGED <<req, parts, rows, handler, announced, sent, up, down, link>>
  BY <1>1 DEF WriteCopy, Typed, server
<1>3. Copying(c)'
  BY <1>2 DEF Copying, Exact, Controls, Receives, Writes, Announced
<1>4. req[c] \in Download /\ sent[c] \in Seq(Nat) /\ rows[c] \in Seq(Seq(Nat))
  BY <1>1, <1>2 DEF Used, Typed
<1>5. req[c].file \in File
  BY <1>4 DEF Download
<1>. DEFINE content == Original(req[c].file)
<1>6. content \in Seq(Nat) /\ Begins(<<>>, content)
  BY <1>5, OriginalShape
<1>7. Begins(sent[c], content)
  BY <1>2 DEF Copying, Exact
<1>. HIDE DEF content
<1>8. FlattenSeq(rows[c]) \in Seq(Nat) /\ Begins(FlattenSeq(rows[c]), content)
  <2>1. CASE rows[c] = <<>>
    <3>1. FlattenSeq(rows[c]) = <<>>
      BY <2>1 DEF FlattenSeq
    <3>. QED  BY <1>6, <3>1
  <2>2. CASE Beginning(rows[c], sent[c])
    <3>1. FlattenSeq(rows[c]) \in Seq(Nat) /\ Begins(FlattenSeq(rows[c]), sent[c])
      BY <1>4, <2>2, CopyBegins
    <3>. QED  BY <1>4, <1>6, <1>7, <3>1, BeginsTrans
  <2>. QED  BY <1>2, <2>1, <2>2 DEF Copying, Writes
<1>. QED  BY <1>3, <1>4, <1>8 DEF content

\* A row is added to i full ones, from the content that follows them.
LEMMA Before ==
    ASSUME NEW j \in Nat, NEW i \in Nat, j > 0, j <= i
    PROVE  j - 1 \in Nat /\ (j - 1) + 1 \in Nat /\ (j - 1) + 1 <= i
OBVIOUS

LEMMA RowArrives ==
    ASSUME NEW content \in Seq(Nat), NEW R \in Seq(Seq(Nat)), Beginning(R, content),
           NEW i \in Nat, i + 1 \in DOMAIN R, i * MsgSize < Len(content),
           \A j \in DOMAIN R : IF j <= i THEN Whole(R, content, j) ELSE R[j] = <<>>,
           NEW chars \in Seq(Nat), Len(chars) <= MsgSize,
           \A x \in 1..Len(chars) :
             i * MsgSize + x <= Len(content) /\ chars[x] = content[i * MsgSize + x],
           NEW Q, Q = [R EXCEPT ![i + 1] = chars]
    PROVE  /\ Beginning(Q, content) /\ Q \in Seq(Seq(Nat)) /\ DOMAIN Q = DOMAIN R
           /\ Q[i + 1] = chars
           /\ \A j \in DOMAIN Q : j <= i => Whole(Q, content, j)
           /\ \A j \in DOMAIN Q : j > i + 1 => Q[j] = <<>>
<1>1. /\ Q \in Seq(Seq(Nat)) /\ DOMAIN Q = DOMAIN R /\ Q[i + 1] = chars
      /\ \A j \in DOMAIN R : j # i + 1 => Q[j] = R[j]
  <2>1. i + 1 \in 1..Len(R)
    OBVIOUS
  <2>. QED  BY <2>1, ExceptSeq
<1>2. DOMAIN R = 1..Len(R) /\ DOMAIN R \subseteq Nat /\ Len(content) \in Nat
  OBVIOUS
<1>3. \A j \in DOMAIN Q : j <= i => Whole(Q, content, j)
  <2>1. ASSUME NEW j \in DOMAIN Q, j <= i PROVE Whole(Q, content, j)
    <3>1. j # i + 1 /\ j \in DOMAIN R
      BY <1>1, <1>2, <2>1
    <3>2. Q[j] = R[j] /\ Whole(R, content, j)
      BY <1>1, <2>1, <3>1
    <3>. QED  BY <3>2 DEF Whole
  <2>. QED  BY <2>1
<1>4. \A j \in DOMAIN Q : j > i + 1 => Q[j] = <<>>
  <2>1. ASSUME NEW j \in DOMAIN Q, j > i + 1 PROVE Q[j] = <<>>
    <3>1. j # i + 1 /\ j \in DOMAIN R /\ ~(j <= i)
      BY <1>1, <1>2, <2>1
    <3>. QED  BY <1>1, <3>1
  <2>. QED  BY <2>1
<1>5. ASSUME NEW j \in DOMAIN Q PROVE Holds(Q, content, j)
  <2>1. j \in DOMAIN R /\ Holds(R, content, j)
    BY <1>1, <1>5 DEF Beginning
  <2>2. CASE j = i + 1
    <3>1. (j - 1) = i /\ Q[j] = chars
      BY <1>1, <2>2
    <3>. QED  BY <3>1 DEF Holds
  <2>3. CASE j # i + 1
    <3>1. Q[j] = R[j]
      BY <1>1, <2>1, <2>3
    <3>. QED  BY <2>1, <3>1 DEF Holds
  <2>. QED  BY <2>2, <2>3
<1>6. ASSUME NEW j \in DOMAIN Q, Len(Q[j]) < MsgSize, NEW q \in DOMAIN Q, q > j
      PROVE  Q[q] = <<>>
  <2>1. j \in Nat /\ q \in Nat /\ j > 0 /\ j \in DOMAIN R
    BY <1>1, <1>2
  <2>2. CASE j <= i
    <3>. DEFINE n == j - 1
    <3>1. n \in Nat /\ n + 1 <= i /\ n + 1 \in Nat
      BY <2>1, <2>2, Before
    <3>2. Len(Q[j]) \in Nat
      <4>1. Q[j] \in Seq(Nat)
        BY <1>1
      <4>. QED  BY ONLY <4>1, LenProperties, Zenon
    <3>3. n * MsgSize + Len(Q[j]) = Len(content)
      <4>1. Len(Q[j]) = MsgSize \/ n * MsgSize + Len(Q[j]) = Len(content)
        BY <1>3, <2>2 DEF Whole
      <4>2. Len(Q[j]) # MsgSize
        <5>. DEFINE l == Len(Q[j])
        <5>1. l \in Nat /\ l < MsgSize /\ MsgSize \in Nat
          BY <1>6, <3>2, SizesNat
        <5>. HIDE DEF l
        <5>2. l # MsgSize
          BY <5>1
        <5>. QED  BY <5>2 DEF l
      <4>. QED  BY <4>1, <4>2, Zenon
    <3>. HIDE DEF n
    <3>4. (n + 1) * MsgSize <= i * MsgSize /\ i * MsgSize \in Nat
      BY <3>1, ProductsGrow, SizesNat
    <3>5. (n + 1) * MsgSize = n * MsgSize + MsgSize /\ n * MsgSize \in Nat
      BY <3>1, SizesNat
    <3>. DEFINE base == n * MsgSize
                end == i * MsgSize
                l == Len(Q[j])
    <3>6. /\ base \in Nat /\ end \in Nat /\ l \in Nat /\ l < MsgSize /\ MsgSize \in Nat
          /\ base + l = Len(content) /\ base + MsgSize <= end /\ end < Len(content)
      BY <1>6, <3>2, <3>3, <3>4, <3>5, SizesNat
    <3>. HIDE DEF base, end, l
    <3>7. FALSE
      BY <1>2, <3>6
    <3>. QED  BY <3>7
  <2>3. CASE j > i
    <3>1. q > i + 1
      BY <1>6, <2>1, <2>3
    <3>. QED  BY <1>4, <3>1
  <2>. QED  BY <2>1, <2>2, <2>3
<1>7. Beginning(Q, content)
  BY <1>5, <1>6 DEF Beginning, NoGap
<1>. QED  BY <1>1, <1>3, <1>4, <1>7

LEMMA ReadPartCopying ==
    ASSUME TypeInv, NEW c \in Conn, Copying(c), ReadPart(c)
    PROVE  Copying(c)' /\ disk' = disk
<1>1. Typed /\ Used(c)
  BY TypedIs DEF TypeInv
<1>. DEFINE seq_no == Head(down[c]).val
<1>2. PICK k \in ReadLengths(c) :
        /\ rows' = [rows EXCEPT ![c][RowOf(seq_no)] =
                        Overwrite(@, Chars(SubSeq(down[c], 1, k)))]
        /\ down' = [down EXCEPT ![c] = SubSeq(@, k + 1, Len(@))]
  BY DEF ReadPart
<1>. DEFINE chars == Chars(SubSeq(down[c], 1, k))
            left == SubSeq(down[c], k + 1, Len(down[c]))
<1>3. /\ pc[c] = "receive" /\ down[c] # <<>> /\ seq_no \in 1..parts[c]
      /\ pc'[c] = IF AllFound(rows'[c]) THEN "write" ELSE "receive"
      /\ rows'[c] = [rows[c] EXCEPT ![seq_no] = Overwrite(@, chars)]
      /\ down'[c] = left
      /\ UNCHANGED <<req, parts, handler, announced, sent, up, link, disk>>
  BY <1>1, <1>2 DEF ReadPart, RowOf, Typed, server
<1>4. /\ rows[c] \in Seq(Seq(Nat)) /\ parts[c] \in Nat /\ DOMAIN rows[c] = 1..parts[c]
      /\ sent[c] \in Seq(Nat) /\ announced[c] \in Nat
  BY <1>1, <1>3 DEF Typed, Used
<1>5. /\ k \in 1..Len(down[c]) /\ k <= RowSize
      /\ req[c].node \notin AnyReads => k = RowSize \/ k = Len(down[c])
  BY <1>1, <1>3, LengthsShape
<1>6. /\ Announced(c) /\ Beginning(rows[c], sent[c])
      /\ \E i \in 0..Len(Stream(c)) : Aligned(c, i)
  BY <1>3 DEF Copying, Receives, Zero, Waits, Spoilt
<1>7. PICK i \in 0..Len(Stream(c)) : Aligned(c, i)
  BY <1>6
<1>8. /\ i \in Nat /\ sent[c] \in Seq(Nat) /\ Text(sent[c])
      /\ down[c] = After(PartsSent(sent[c]), i * RowSize)
      /\ i * RowSize <= Len(PartsSent(sent[c]))
      /\ down[c] \in Seq(Atom) /\ seq_no = i + 1
  <2>1. i \in Nat
    OBVIOUS
  <2>. QED  BY <1>3, <1>7, <2>1, AlignedNext
<1>9. /\ i * MsgSize \in Nat /\ i * MsgSize < Len(sent[c])
      /\ (i + 1) * RowSize <= Len(PartsSent(sent[c]))
      /\ chars \in Seq(Nat) /\ Len(chars) <= MsgSize
      /\ \A x \in 1..Len(chars) :
           i * MsgSize + x <= Len(sent[c]) /\ chars[x] = sent[c][i * MsgSize + x]
      /\ k = RowSize =>
           /\ Len(chars) = MsgSize \/ i * MsgSize + Len(chars) = Len(sent[c])
           /\ left = After(PartsSent(sent[c]), (i + 1) * RowSize)
      /\ k < RowSize /\ left # <<>> => Head(left).val = 0 \/ Head(left).val > MaxFileSize
  <2>. DEFINE content == sent[c]
              d == down[c]
              b == SubSeq(d, 1, k)
              rest == SubSeq(d, k + 1, Len(d))
  <2>1. /\ content \in Seq(Nat) /\ Text(content) /\ i \in Nat
        /\ i * RowSize <= Len(PartsSent(content))
        /\ d = After(PartsSent(content), i * RowSize) /\ d # <<>>
        /\ k \in 1..Len(d) /\ k <= RowSize
    BY <1>3, <1>5, <1>8
  <2>. HIDE DEF content, d
  <2>2. /\ i * MsgSize \in Nat /\ i * MsgSize < Len(content)
        /\ (i + 1) * RowSize <= Len(PartsSent(content))
    BY <2>1, ReadAtPart
  <2>3. Chars(b) \in Seq(Nat) /\ Len(Chars(b)) <= MsgSize
    BY <2>1, ReadAtPart
  <2>4. \A x \in 1..Len(Chars(b)) :
          i * MsgSize + x <= Len(content) /\ Chars(b)[x] = content[i * MsgSize + x]
    BY <2>1, ReadAtPart
  <2>5. k = RowSize =>
          Len(Chars(b)) = MsgSize \/ i * MsgSize + Len(Chars(b)) = Len(content)
    BY <2>1, ReadAtPart
  <2>6. k = RowSize => rest = After(PartsSent(content), (i + 1) * RowSize)
    BY <2>1, ReadAtPart
  <2>7. k < RowSize /\ rest # <<>> => Head(rest).val = 0 \/ Head(rest).val > MaxFileSize
    BY <2>1, ReadAtPart
  <2>. HIDE DEF b, rest
  <2>8. chars = Chars(b) /\ left = rest
    BY DEF b, rest, d
  <2>. HIDE DEF chars, left
  <2>. QED  BY <2>2, <2>3, <2>4, <2>5, <2>6, <2>7, <2>8 DEF content
<1>10. left \in Seq(Atom)
  <2>1. k \in 0..Len(down[c])
    BY <1>5
  <2>. QED  BY <1>8, <2>1, RestShape
<1>. HIDE DEF chars, left, seq_no
<1>11. \A j \in DOMAIN rows[c] :
         IF j <= i THEN Whole(rows[c], sent[c], j) ELSE rows[c][j] = <<>>
  BY <1>7 DEF Aligned
<1>12. i + 1 \in DOMAIN rows[c] /\ rows[c][i + 1] = <<>>
  <2>1. i + 1 \in DOMAIN rows[c] /\ ~(i + 1 <= i)
    BY <1>3, <1>4, <1>8
  <2>. QED  BY <1>11, <2>1
<1>13. rows'[c] = [rows[c] EXCEPT ![i + 1] = chars]
  <2>1. Overwrite(rows[c][i + 1], chars) = chars
    <3>1. <<>> \in Seq(Nat) /\ Len(chars) >= Len(<<>>)
      BY <1>9
    <3>2. Overwrite(<<>>, chars) = chars
      BY <1>9, <3>1, OverwriteShape
    <3>. QED  BY <1>12, <3>2
  <2>. QED  BY <1>3, <1>8, <2>1
<1>14. /\ Beginning(rows'[c], sent[c]) /\ rows'[c] \in Seq(Seq(Nat))
       /\ DOMAIN rows'[c] = DOMAIN rows[c] /\ rows'[c][i + 1] = chars
       /\ \A j \in DOMAIN rows'[c] : j <= i => Whole(rows'[c], sent[c], j)
       /\ \A j \in DOMAIN rows'[c] : j > i + 1 => rows'[c][j] = <<>>
  <2>. DEFINE R == rows[c]
              Q == rows'[c]
              content == sent[c]
  <2>1. /\ R \in Seq(Seq(Nat)) /\ content \in Seq(Nat) /\ Beginning(R, content)
        /\ i + 1 \in DOMAIN R /\ i * MsgSize < Len(content)
        /\ \A j \in DOMAIN R : IF j <= i THEN Whole(R, content, j) ELSE R[j] = <<>>
        /\ \A x \in 1..Len(chars) :
             i * MsgSize + x <= Len(content) /\ chars[x] = content[i * MsgSize + x]
        /\ Q = [R EXCEPT ![i + 1] = chars]
        /\ i \in Nat /\ chars \in Seq(Nat) /\ Len(chars) <= MsgSize
    BY <1>4, <1>6, <1>8, <1>9, <1>11, <1>12, <1>13
  <2>. HIDE DEF R, Q, content
  <2>2. /\ Beginning(Q, content) /\ Q \in Seq(Seq(Nat)) /\ DOMAIN Q = DOMAIN R
        /\ Q[i + 1] = chars
    BY <2>1, RowArrives
  <2>3. \A j \in DOMAIN Q : j <= i => Whole(Q, content, j)
    BY <2>1, RowArrives
  <2>4. \A j \in DOMAIN Q : j > i + 1 => Q[j] = <<>>
    BY <2>1, RowArrives
  <2>. QED  BY <2>2, <2>3, <2>4 DEF R, Q, content
<1>15. DOMAIN rows'[c] \subseteq Nat /\ DOMAIN rows'[c] = 1..parts[c]
  BY <1>4, <1>14
<1>16. handler[c] # "sending"
  BY <1>7 DEF Aligned
<1>17. /\ handler'[c] # "sending" /\ sent'[c] = sent[c] /\ req'[c] = req[c]
       /\ Announced(c)' /\ Exact(c)' /\ Stream(c)' = PartsSent(sent[c])
  BY <1>3, <1>6, <1>16 DEF Announced, Copying, Exact, Stream
<1>18. CASE k = RowSize
  <2>1. \A j \in DOMAIN rows'[c] : j <= i + 1 => Whole(rows'[c], sent[c], j)
    <3>1. ASSUME NEW j \in DOMAIN rows'[c], j <= i + 1 PROVE Whole(rows'[c], sent[c], j)
      <4>1. CASE j = i + 1
        <5>1. j - 1 = i /\ rows'[c][j] = chars
          BY <1>8, <1>14, <4>1
        <5>. QED  BY <1>9, <1>18, <5>1 DEF Whole
      <4>2. CASE j # i + 1
        <5>1. j <= i
          BY <1>8, <1>15, <3>1, <4>2
        <5>. QED  BY <1>14, <5>1
      <4>. QED  BY <4>1, <4>2
    <3>. QED  BY <3>1
  <2>2. CASE AllFound(rows'[c])
    <3>1. \A j \in DOMAIN rows'[c] : j <= i + 1
      <4>1. \A j \in DOMAIN rows'[c] : ~(j > i + 1)
        BY <1>14, <2>2 DEF AllFound
      <4>. QED  BY <1>8, <1>15, <4>1
    <3>2. Writes(c)'
      BY <1>14, <1>17, <2>1, <3>1 DEF Writes
    <3>. QED  BY <1>3, <1>17, <2>2, <3>2 DEF Copying, Controls, Receives
  <2>3. CASE ~AllFound(rows'[c])
    <3>. DEFINE next == i + 1
    <3>1. next \in 0..Len(Stream(c)')
      <4>1. Len(PartsSent(sent[c])) \in Nat
        BY <1>8, SentTypes
      <4>2. next \in Nat /\ next <= next * RowSize
        <5>1. next \in Nat /\ RowSize \in Nat /\ 1 <= RowSize
          BY <1>8, SizesNat
        <5>. HIDE DEF next
        <5>2. 1 * next <= RowSize * next
          BY <5>1, ProductsGrow
        <5>. QED  BY <5>1, <5>2
      <4>3. next * RowSize <= Len(PartsSent(sent[c])) /\ next * RowSize \in Nat
        BY <1>8, <1>9, SizesNat
      <4>. DEFINE end == next * RowSize
      <4>. HIDE DEF end, next
      <4>. QED  BY <1>17, <4>1, <4>2, <4>3 DEF end
    <3>2. Aligned(c, next)'
      <4>1. \A j \in DOMAIN rows'[c] :
              IF j <= next THEN Whole(rows'[c], sent'[c], j) ELSE rows'[c][j] = <<>>
        <5>1. \A j \in DOMAIN rows'[c] : j <= i + 1 \/ j > i + 1
          BY <1>8, <1>15
        <5>. QED  BY <1>14, <1>17, <2>1, <5>1
      <4>2. down'[c] = After(Stream(c)', next * RowSize) /\ next * RowSize <= Len(Stream(c)')
        BY <1>3, <1>9, <1>17, <1>18
      <4>. HIDE DEF next
      <4>. QED  BY <1>17, <4>1, <4>2 DEF Aligned
    <3>. HIDE DEF next
    <3>3. Receives(c)'
      <4>1. pc'[c] = "receive"
        BY <1>3, <2>3
      <4>. QED  BY <1>14, <1>17, <3>1, <3>2, <4>1 DEF Receives
    <3>. QED  BY <1>3, <1>17, <2>3, <3>3 DEF Copying, Controls, Writes
  <2>. QED  BY <1>3, <2>2, <2>3
<1>19. CASE k # RowSize
  <2>1. k < RowSize
    BY <1>5, <1>19, SizesNat
  <2>2. req[c].node \in AnyReads
    <3>1. CASE k = Len(down[c])
      <4>. DEFINE W == PartsSent(sent[c])
                  at == i * RowSize
      <4>1. W \in Seq(Bytes) /\ at \in 0..Len(W) /\ at \in Nat
        BY <1>8, SentTypes, SizesNat
      <4>2. (i + 1) * RowSize = at + RowSize /\ at + RowSize <= Len(W)
        BY <1>8, <1>9, SizesNat
      <4>3. down[c] = After(W, at)
        BY <1>8
      <4>. HIDE DEF W, at
      <4>4. Len(down[c]) = Len(W) - at
        BY <4>1, <4>3, AfterShape
      <4>5. Len(W) \in Nat /\ Len(down[c]) \in Nat
        BY <1>8, <4>1
      <4>6. FALSE
        BY <2>1, <3>1, <4>1, <4>2, <4>4, <4>5, SizesNat
      <4>. QED  BY <4>6
    <3>. QED  BY <1>5, <1>19, <3>1
  <2>3. down'[c] = <<>> \/ Head(down'[c]).val \notin 1..parts'[c]
    <3>1. CASE left # <<>>
      <4>1. Head(left) \in Atom
        BY <1>10, <3>1, TailShape
      <4>2. Head(left).val = 0 \/ Head(left).val > MaxFileSize
        BY <1>9, <2>1, <3>1
      <4>3. parts'[c] \in Nat /\ parts'[c] <= MaxFileSize /\ Head(left).val \in Nat
        BY <1>3, <1>4, <1>6, <4>1, AtomFields DEF Announced
      <4>4. Head(left).val \notin 1..parts'[c]
        BY <4>2, <4>3, SizesNat
      <4>. QED  BY <1>3, <4>4
    <3>. QED  BY <1>3, <3>1
  <2>4. Spoilt(c)'
    BY <1>17, <2>2, <2>3 DEF Spoilt
  <2>5. Receives(c)' /\ Writes(c)'
    BY <1>14, <1>17, <2>2, <2>4 DEF Receives, Writes
  <2>. QED  BY <1>3, <1>17, <2>5 DEF Copying, Controls
<1>. QED  BY <1>18, <1>19

LEMMA WritesCopies ==
    ASSUME Typed, Copies, NEW r \in Download, NEW s \in Seq(Nat),
           Begins(s, Original(r.file)), disk' = [disk EXCEPT ![r.node][r.file] = s]
    PROVE  Copies'
<1>. SUFFICES ASSUME NEW n \in Node, NEW f \in File, disk'[n][f] # NoEntry
     PROVE  Begins(disk'[n][f], Original(f))
  BY DEF Copies
<1>1. r.node \in Node /\ r.file \in File
  BY DEF Download
<1>2. CASE n = r.node /\ f = r.file
  BY <1>1, <1>2 DEF Typed
<1>3. CASE ~(n = r.node /\ f = r.file)
  <2>1. disk'[n][f] = disk[n][f]
    BY <1>1, <1>3 DEF Typed
  <2>. QED  BY <2>1 DEF Copies
<1>. QED  BY <1>2, <1>3

LEMMA ActionCopies ==
    ASSUME TypeInv, CopyInv, NEW c \in Conn, User(c) \/ Client(c) \/ Handler(c) \/ Reset(c)
    PROVE  \/ Copying(c)' /\ Copies'
           \/ Dies(req[c].peer) /\ req[c].peer \in Node
<1>1. Typed /\ Used(c) /\ Copying(c) /\ Copies
  BY TypedIs DEF TypeInv, CopyInv
<1>2. ASSUME Copying(c)' /\ disk' = disk PROVE Copying(c)' /\ Copies'
  BY <1>1, <1>2 DEF Copies
<1>3. CASE User(c)
  BY <1>1, <1>2, <1>3, UserCopying
<1>4. CASE \/ ReadRefusal(c) \/ ReadCut(c) \/ OpenFails(c) \/ Record(c)
           \/ Accept(c) \/ HandlerEnds(c) \/ Reset(c)
  <2>1. Fades(c) /\ disk' = disk
    BY <1>4, ActionsFade
  <2>. QED  BY <1>1, <1>2, <2>1, FadesCopying
<1>5. CASE FileFound(c) \/ FileMissing(c) \/ FileTooLarge(c) \/ HandlerReadCut(c)
  <2>1. Replied(c) /\ disk' = disk
    BY <1>5, ActionsReply
  <2>. QED  BY <1>1, <1>2, <2>1, RepliedCopying
<1>6. CASE Announce(c)
  BY <1>1, <1>2, <1>6, AnnounceCopying
<1>7. CASE SendFile(c) \/ SendOverrun(c)
  BY <1>1, <1>2, <1>7, SendsStream, SendsCopying
<1>8. CASE ReadYes(c) \/ ReadContents(c) \/ ReadContentsCut(c) \/ ControlError(c)
  BY <1>1, <1>2, <1>8, ReadYesCopying, ReadContentsCopying, ReadContentsCutCopying,
     ControlErrorCopying
<1>9. CASE ReadPart(c) \/ ReadInvalid(c) \/ ReceiveError(c)
  BY <1>1, <1>2, <1>9, ReadPartCopying, ReadInvalidCopying, ReceiveErrorCopying
<1>10. CASE OpenCopy(c)
  <2>1. req[c] \in Download /\ disk' = [disk EXCEPT ![req[c].node][req[c].file] = <<>>]
    BY <1>1, <1>10 DEF Used, OpenCopy
  <2>2. PICK r \in Download : r = req[c]
    BY <2>1
  <2>3. r.file \in File /\ <<>> \in Seq(Nat)
    BY DEF Download
  <2>4. Begins(<<>>, Original(r.file))
    BY <2>3, OriginalShape
  <2>5. disk' = [disk EXCEPT ![r.node][r.file] = <<>>]
    BY <2>1, <2>2
  <2>6. Copies'
    BY <1>1, <2>3, <2>4, <2>5, WritesCopies
  <2>. QED  BY <1>1, <1>10, <2>6, OpenCopyCopying
<1>11. CASE WriteCopy(c)
  <2>1. /\ Copying(c)' /\ req[c] \in Download /\ FlattenSeq(rows[c]) \in Seq(Nat)
        /\ Begins(FlattenSeq(rows[c]), Original(req[c].file))
    BY <1>1, <1>11, WriteCopyCopying
  <2>2. PICK r \in Download : r = req[c]
    BY <2>1
  <2>3. PICK s \in Seq(Nat) : s = FlattenSeq(rows[c])
    BY <2>1
  <2>4. disk' = [disk EXCEPT ![r.node][r.file] = s] /\ Begins(s, Original(r.file))
    BY <1>11, <2>1, <2>2, <2>3 DEF WriteCopy
  <2>5. Copies'
    BY <1>1, <2>4, WritesCopies
  <2>. QED  BY <2>1, <2>5
<1>. QED  BY <1>3, <1>4, <1>5, <1>6, <1>7, <1>8, <1>9, <1>10, <1>11 DEF Client, Handler

LEMMA CopyStep ==
    ASSUME TypeInv, CopyInv, [Next]_vars
    PROVE  CopyInv'
<1>1. Typed /\ Copies /\ \A c \in Conn : Copying(c)
  BY TypedIs DEF TypeInv, CopyInv
<1>2. ASSUME NEW n \in Node, Dies(n) PROVE CopyInv'
  <2>1. disk' = disk
    BY <1>2 DEF Dies
  <2>2. Copies'
    BY <1>1, <2>1 DEF Copies
  <2>. QED  BY <1>1, <1>2, <2>2, DiesFades, FadesCopying DEF CopyInv
<1>3. ASSUME disk' = disk, \A d \in Conn : Same(d) PROVE CopyInv'
  BY <1>1, <1>3, SameCopying DEF CopyInv, Copies
<1>4. ASSUME NEW c \in Conn, User(c) \/ Client(c) \/ Handler(c) \/ Reset(c) PROVE CopyInv'
  <2>1. CASE Dies(req[c].peer) /\ req[c].peer \in Node
    BY <1>2, <2>1
  <2>2. CASE ~(Dies(req[c].peer) /\ req[c].peer \in Node)
    <3>1. Copying(c)' /\ Copies'
      BY <1>4, <2>2, ActionCopies
    <3>2. Alone(c)
      BY <1>4, <2>2, ConnTypes DEF KeepsTypes, Download
    <3>3. ASSUME NEW d \in Conn, d # c PROVE Copying(d)'
      BY <1>1, <3>2, <3>3, SameCopying DEF Alone
    <3>. QED  BY <3>1, <3>3 DEF CopyInv
  <2>. QED  BY <2>1, <2>2
<1>5. ASSUME NEW n \in Node, Kill(n) \/ Restart(n) PROVE CopyInv'
  <2>1. CASE Kill(n)
    BY <1>2, <2>1 DEF Kill
  <2>2. CASE Restart(n)
    BY <1>3, <2>2 DEF Restart, client, server, Same
  <2>. QED  BY <1>5, <2>1, <2>2
<1>6. CASE UNCHANGED vars
  BY <1>3, <1>6 DEF vars, client, server, process, Same
<1>. QED  BY <1>4, <1>5, <1>6 DEF Next

LEMMA CopyInit == Init => CopyInv
<1>. SUFFICES ASSUME Init PROVE CopyInv
  OBVIOUS
<1>1. ASSUME NEW n \in Node, NEW f \in File, disk[n][f] # NoEntry
      PROVE  Begins(disk[n][f], Original(f))
  <2>1. disk[n][f] = Original(f)
    BY <1>1 DEF Init
  <2>. QED  BY <2>1, OriginalShape
<1>2. ASSUME NEW c \in Conn PROVE pc[c] = "unused" /\ sent[c] = <<>>
  BY <1>2 DEF Init
<1>3. ASSUME NEW c \in Conn PROVE Copying(c)
  BY <1>2, <1>3 DEF Copying, Exact, Controls, Receives, Writes
<1>. QED  BY <1>1, <1>3 DEF CopyInv, Copies

LEMMA CopyHolds == Spec => []CopyInv
<1>1. TypeInv /\ CopyInv /\ [Next]_vars => CopyInv'
  BY CopyStep
<1>. QED  BY <1>1, CopyInit, TypesHold, PTL DEF Spec

LEMMA PrefixBecause == ASSUME TypeInv, CopyInv PROVE CopiesArePrefixes
<1>. SUFFICES ASSUME NEW n \in Node, NEW f \in File, disk[n][f] # NoEntry
     PROVE  IsPrefix(disk[n][f], Original(f))
  BY DEF CopiesArePrefixes
<1>. DEFINE s == disk[n][f]
            t == Original(f)
<1>1. Typed
  BY TypedIs DEF TypeInv
<1>2. s \in Seq(Nat)
  BY <1>1 DEF Typed
<1>3. t \in Seq(Nat) /\ Begins(s, t)
  BY OriginalShape DEF CopyInv, Copies
<1>. HIDE DEF s, t
<1>4. Len(s) <= Len(t) /\ \A i \in 1..Len(s) : s[i] = t[i]
  BY <1>3 DEF Begins
<1>5. Len(s) \in 0..Len(t) /\ Len(s) \in Nat /\ Len(t) \in Nat
  BY <1>2, <1>3, <1>4
<1>. DEFINE u == SubSeq(t, 1, Len(s))
<1>6. u \in Seq(Nat) /\ Len(u) = Len(s) /\ \A i \in 1..Len(s) : u[i] = t[i]
  BY <1>3, <1>5
<1>. HIDE DEF u
<1>7. s = u
  BY <1>2, <1>4, <1>6, SeqEqual
<1>8. IsPrefix(s, t)
  BY <1>4, <1>7 DEF IsPrefix, u
<1>. QED  BY <1>8 DEF s, t

\* However transfers end, and whatever is killed, cut or written meanwhile, every file
\* of every node is a beginning of the original: the rows of a copy never have a gap.
THEOREM CopiesAreBeginnings == Spec => []CopiesArePrefixes
<1>1. TypeInv /\ CopyInv => CopiesArePrefixes
  BY PrefixBecause
<1>. QED  BY <1>1, CopyHolds, TypesHold, PTL

LEMMA CompleteBecause == ASSUME TypeInv, CopyInv PROVE CompleteIsExact
<1>. SUFFICES ASSUME NEW c \in Conn, pc[c] \in {"write", "record"}, rows[c] # <<>>,
                     AllFound(rows[c]), req[c].node \notin AnyReads
     PROVE  FlattenSeq(rows[c]) =
              SubSeq(sent[c], 1, Min({Len(sent[c]), announced[c] * MsgSize}))
  BY DEF CompleteIsExact
<1>1. Typed /\ Used(c) /\ Copying(c)
  BY TypedIs DEF TypeInv, CopyInv
<1>2. /\ Announced(c) /\ Beginning(rows[c], sent[c])
      /\ AllWhole(rows[c], sent[c])
  BY <1>1 DEF Copying, Writes, AllWhole
<1>3. sent[c] \in Seq(Nat) /\ rows[c] \in Seq(Seq(Nat)) /\ parts[c] \in Nat
  BY <1>1 DEF Typed
<1>4. Len(rows[c]) = announced[c]
  <2>1. DOMAIN rows[c] = 1..parts[c] /\ parts[c] = announced[c]
    BY <1>1, <1>2 DEF Used, Announced
  <2>. QED  BY <1>3, <2>1
<1>. QED  BY <1>2, <1>3, <1>4, CopyBegins

\* A transfer that ended because every part was found has exactly the parts announced
\* of what the peer's send_file read, wherever the peer's file changed or its buffer was
\* overrun, if the reads of the client return whole parts.
THEOREM CompleteCopiesAreExact == Spec => []CompleteIsExact
<1>1. TypeInv /\ CopyInv => CompleteIsExact
  BY CompleteBecause
<1>. QED  BY <1>1, CopyHolds, TypesHold, PTL

=============================================================================
