-------------------------- MODULE SearchStreamProofs --------------------------
(***************************************************************************)
(* Proofs about SearchStream: for any ids, words, hits and neighbors, any    *)
(* number of messages and any size of the buffer, however the stream is cut. *)
(***************************************************************************)
EXTENDS SearchStream, SequenceTheorems, FiniteSetTheorems, WellFoundedInduction, TLAPS

(* Numbers and sequences.                                                  *)

LEMMA LeastNat ==
    ASSUME NEW S, S \subseteq Nat, S # {}
    PROVE  Min(S) \in S /\ \A y \in S : Min(S) <= y
<1>. DEFINE R == OpToRel(<, Nat)
<1>1. PICK x \in S : \A y \in S : ~ (<<y, x>> \in R)
  BY NatLessThanWellFounded, WFMin
<1>2. ASSUME NEW y \in S PROVE x <= y
  <2>1. x \in Nat /\ y \in Nat /\ <<y, x>> \in Nat \X Nat
    OBVIOUS
  <2>2. y < x => <<y, x>> \in R
    BY <2>1 DEF OpToRel
  <2>. HIDE DEF R
  <2>. QED  BY <1>1, <2>1, <2>2
<1>. QED  BY <1>2 DEF Min

LEMMA GreatestBelow ==
    ASSUME NEW n \in Nat, NEW S, S \subseteq 1..n, S # {}
    PROVE  Max(S) \in S /\ \A y \in S : Max(S) >= y
<1>. DEFINE T == {n - y : y \in S}
<1>1. T \subseteq Nat /\ T # {}
  <2>1. \A y \in S : y \in Nat /\ y <= n
    OBVIOUS
  <2>2. \A y \in S : n - y \in Nat
    BY <2>1
  <2>. QED  BY <2>2
<1>2. PICK x \in S : Min(T) = n - x
  BY <1>1, LeastNat
<1>3. ASSUME NEW y \in S PROVE x >= y
  <2>1. n - y \in T /\ x \in Int /\ y \in Int
    OBVIOUS
  <2>2. n - x <= n - y
    BY <1>1, <1>2, <2>1, LeastNat
  <2>. QED  BY <2>1, <2>2
<1>4. \E m \in S : \A y \in S : m >= y
  BY <1>3
<1>. QED  BY <1>4 DEF Max

LEMMA MinIs ==
    ASSUME NEW S, S \subseteq Nat, NEW m \in S, \A y \in S : m <= y
    PROVE  Min(S) = m
<1>1. \A x \in S : (\A y \in S : x <= y) => x = m
  OBVIOUS
<1>. QED  BY <1>1 DEF Min

LEMMA MaxIs ==
    ASSUME NEW S, S \subseteq Nat, NEW m \in S, \A y \in S : m >= y
    PROVE  Max(S) = m
<1>1. \A x \in S : (\A y \in S : x >= y) => x = m
  OBVIOUS
<1>. QED  BY <1>1 DEF Max

\* FlattenSeq puts the sequences of s together one after the other.
Flattens(flat, s) ==
    flat = [i \in 1..Len(s) |-> IF i = 1 THEN s[i] ELSE flat[i - 1] \o s[i]]

FlattensUpTo(flat, s, n) ==
    \A i \in 1..n : flat[i] = IF i = 1 THEN s[i] ELSE flat[i - 1] \o s[i]

LEMMA FlattenExists ==
    ASSUME NEW T, NEW s \in Seq(Seq(T))
    PROVE  \A n \in 0..Len(s) : \E flat \in [1..n -> Seq(T)] : FlattensUpTo(flat, s, n)
<1>. DEFINE Holds(n) == \E flat \in [1..n -> Seq(T)] : FlattensUpTo(flat, s, n)
            Bad == {n \in 0..Len(s) : ~Holds(n)}
<1>. SUFFICES ASSUME Bad # {} PROVE FALSE
  OBVIOUS
<1>1. Bad \subseteq Nat
  OBVIOUS
<1>. DEFINE n == Min(Bad)
<1>2. n \in Bad /\ \A y \in Bad : n <= y
  BY <1>1, LeastNat
<1>. HIDE DEF n
<1>3. n \in 0..Len(s) /\ ~Holds(n)
  BY <1>2
<1>4. Holds(0)
  <2>1. [i \in 1..0 |-> <<>>] \in [1..0 -> Seq(T)]
    OBVIOUS
  <2>2. \A i \in 1..0 : FALSE
    OBVIOUS
  <2>. QED  BY <2>1, <2>2 DEF FlattensUpTo
<1>5. n # 0 /\ n - 1 \in 0..Len(s) /\ n - 1 \notin Bad
  <2>1. n # 0
    BY <1>3, <1>4
  <2>2. n \in Nat /\ n - 1 \in 0..Len(s) /\ ~(n <= n - 1)
    BY <1>3, <2>1
  <2>. QED  BY <1>2, <2>1, <2>2
<1>6. PICK flat \in [1..n - 1 -> Seq(T)] : FlattensUpTo(flat, s, n - 1)
  BY <1>5
<1>. DEFINE last == IF n = 1 THEN s[n] ELSE flat[n - 1] \o s[n]
            longer == [i \in 1..n |-> IF i = n THEN last ELSE flat[i]]
<1>7. last \in Seq(T)
  <2>1. n \in 1..Len(s) /\ s[n] \in Seq(T)
    BY <1>3, <1>5
  <2>2. n # 1 => flat[n - 1] \in Seq(T)
    BY <1>6, <2>1
  <2>. QED  BY <2>1, <2>2
<1>8. longer \in [1..n -> Seq(T)]
  <2>. HIDE DEF last
  <2>. QED  BY <1>3, <1>6, <1>7
<1>9. ASSUME NEW i \in 1..n
      PROVE  longer[i] = IF i = 1 THEN s[i] ELSE longer[i - 1] \o s[i]
  <2>1. CASE i = n
    <3>1. longer[i] = last /\ (i # 1 => longer[i - 1] = flat[n - 1])
      BY <1>3, <2>1
    <3>. QED  BY <2>1, <3>1
  <2>2. CASE i # n
    <3>1. /\ i \in 1..n - 1 /\ longer[i] = flat[i]
          /\ i # 1 => longer[i - 1] = flat[i - 1]
      <4>. HIDE DEF last
      <4>. QED  BY <1>3, <2>2
    <3>. QED  BY <1>6, <3>1 DEF FlattensUpTo
  <2>. QED  BY <2>1, <2>2
<1>10. Holds(n)
  <2>. HIDE DEF longer
  <2>. QED  BY <1>8, <1>9 DEF FlattensUpTo
<1>. QED  BY <1>3, <1>10

LEMMA FlattenShape ==
    ASSUME NEW T, NEW s \in Seq(Seq(T)), s # <<>>
    PROVE  \E flat \in [1..Len(s) -> Seq(T)] :
             /\ FlattenSeq(s) = flat[Len(s)]
             /\ FlattensUpTo(flat, s, Len(s))
<1>1. Len(s) \in Nat /\ Len(s) # 0
  OBVIOUS
<1>2. \E flat : Flattens(flat, s)
  <2>1. PICK flat \in [1..Len(s) -> Seq(T)] : FlattensUpTo(flat, s, Len(s))
    <3>1. Len(s) \in 0..Len(s)
      BY <1>1
    <3>. QED  BY <3>1, FlattenExists
  <2>2. flat = [i \in 1..Len(s) |-> IF i = 1 THEN s[i] ELSE flat[i - 1] \o s[i]]
    BY <2>1 DEF FlattensUpTo
  <2>. QED  BY <2>2 DEF Flattens
<1>. DEFINE flatten == CHOOSE flat : Flattens(flat, s)
<1>3. FlattenSeq(s) = flatten[Len(s)]
  BY <1>1 DEF FlattenSeq, Flattens
<1>4. Flattens(flatten, s)
  BY <1>2
<1>. HIDE DEF flatten
<1>5. /\ FlattensUpTo(flatten, s, Len(s))
      /\ flatten = [i \in 1..Len(s) |-> flatten[i]]
  BY <1>4 DEF Flattens, FlattensUpTo
<1>6. \A i \in 1..Len(s) : flatten[i] \in Seq(T)
  <2>. DEFINE Bad == {i \in 1..Len(s) : flatten[i] \notin Seq(T)}
  <2>. SUFFICES ASSUME Bad # {} PROVE FALSE
    OBVIOUS
  <2>. DEFINE i == Min(Bad)
  <2>1. Bad \subseteq Nat
    OBVIOUS
  <2>2. i \in Bad /\ \A y \in Bad : i <= y
    BY <2>1, LeastNat
  <2>. HIDE DEF i
  <2>3. i \in 1..Len(s) /\ flatten[i] \notin Seq(T) /\ s[i] \in Seq(T)
    BY <2>2
  <2>4. flatten[i] = IF i = 1 THEN s[i] ELSE flatten[i - 1] \o s[i]
    BY <1>5, <2>3 DEF FlattensUpTo
  <2>5. i # 1
    BY <2>3, <2>4
  <2>6. i - 1 \in 1..Len(s) /\ ~(i <= i - 1)
    BY <2>3, <2>5
  <2>7. flatten[i - 1] \in Seq(T)
    BY <2>2, <2>6
  <2>8. flatten[i - 1] \o s[i] \in Seq(T)
    BY <2>3, <2>7
  <2>. QED  BY <2>3, <2>4, <2>5, <2>8
<1>7. flatten \in [1..Len(s) -> Seq(T)]
  BY <1>5, <1>6
<1>. QED  BY <1>3, <1>5, <1>7

LEMMA FlattenType == ASSUME NEW T, NEW s \in Seq(Seq(T)) PROVE FlattenSeq(s) \in Seq(T)
<1>1. CASE s = <<>>
  BY <1>1 DEF FlattenSeq
<1>2. CASE s # <<>>
  <2>1. PICK flat \in [1..Len(s) -> Seq(T)] : FlattenSeq(s) = flat[Len(s)]
    BY <1>2, FlattenShape
  <2>2. Len(s) \in 1..Len(s)
    BY <1>2
  <2>. QED  BY <2>1, <2>2
<1>. QED  BY <1>1, <1>2

----------------------------------------------------------------------------
\* Whoever flattens as FlattenSeq does gets what it gets.
LEMMA FlattenIs ==
    ASSUME NEW T, NEW s \in Seq(Seq(T)), s # <<>>, NEW g \in [1..Len(s) -> Seq(T)],
           FlattensUpTo(g, s, Len(s))
    PROVE  FlattenSeq(s) = g[Len(s)]
<1>1. PICK flat \in [1..Len(s) -> Seq(T)] :
         FlattenSeq(s) = flat[Len(s)] /\ FlattensUpTo(flat, s, Len(s))
  BY FlattenShape
<1>. DEFINE Bad == {i \in 1..Len(s) : flat[i] # g[i]}
<1>2. Bad = {}
  <2>. SUFFICES ASSUME Bad # {} PROVE FALSE
    OBVIOUS
  <2>. DEFINE i == Min(Bad)
  <2>1. Bad \subseteq Nat
    OBVIOUS
  <2>2. i \in Bad /\ \A y \in Bad : i <= y
    BY <2>1, LeastNat
  <2>. HIDE DEF i
  <2>3. i \in 1..Len(s) /\ flat[i] # g[i]
    BY <2>2
  <2>4. /\ flat[i] = IF i = 1 THEN s[i] ELSE flat[i - 1] \o s[i]
        /\ g[i] = IF i = 1 THEN s[i] ELSE g[i - 1] \o s[i]
    BY <1>1, <2>3 DEF FlattensUpTo
  <2>5. i # 1
    BY <2>3, <2>4
  <2>6. i - 1 \in 1..Len(s) /\ ~(i <= i - 1)
    BY <2>3, <2>5
  <2>7. flat[i - 1] = g[i - 1]
    BY <2>2, <2>6
  <2>. QED  BY <2>3, <2>4, <2>5, <2>7
<1>3. Len(s) \in 1..Len(s)
  OBVIOUS
<1>. QED  BY <1>1, <1>2, <1>3

LEMMA SingleSeq == ASSUME NEW T, NEW x \in T PROVE <<x>> \in Seq(T)
OBVIOUS

LEMMA Pair ==
    ASSUME NEW T, NEW a \in T, NEW d \in T
    PROVE  /\ <<a>> \o <<d>> \in Seq(T) /\ Len(<<a>> \o <<d>>) = 2
           /\ (<<a>> \o <<d>>)[1] = a /\ (<<a>> \o <<d>>)[2] = d
OBVIOUS

LEMMA FlattenOne == ASSUME NEW T, NEW x \in Seq(T) PROVE FlattenSeq(<<x>>) = x
<1>. DEFINE g == [i \in 1..1 |-> x]
<1>1. /\ <<x>> \in Seq(Seq(T)) /\ <<x>> # <<>> /\ Len(<<x>>) = 1
      /\ g \in [1..1 -> Seq(T)]
  OBVIOUS
<1>2. FlattensUpTo(g, <<x>>, 1)
  BY DEF FlattensUpTo
<1>3. g[1] = x
  OBVIOUS
<1>. HIDE DEF g
<1>4. FlattenSeq(<<x>>) = g[1]
  BY <1>1, <1>2, FlattenIs
<1>. QED  BY <1>3, <1>4

LEMMA FlattenAppend ==
    ASSUME NEW T, NEW s \in Seq(Seq(T)), NEW x \in Seq(T)
    PROVE  FlattenSeq(Append(s, x)) = FlattenSeq(s) \o x
<1>1. CASE s = <<>>
  <2>1. Append(s, x) = <<x>> /\ FlattenSeq(s) = <<>> /\ <<>> \o x = x
    BY <1>1 DEF FlattenSeq
  <2>. QED  BY <2>1, FlattenOne
<1>2. CASE s # <<>>
  <2>1. PICK flat \in [1..Len(s) -> Seq(T)] :
           FlattenSeq(s) = flat[Len(s)] /\ FlattensUpTo(flat, s, Len(s))
    BY <1>2, FlattenShape
  <2>. DEFINE t == Append(s, x)
              n == Len(s)
              last == flat[n] \o x
              g == [i \in 1..n + 1 |-> IF i = n + 1 THEN last ELSE flat[i]]
  <2>2. /\ n \in Nat /\ n > 0 /\ t \in Seq(Seq(T)) /\ t # <<>> /\ Len(t) = n + 1
        /\ t[n + 1] = x /\ \A i \in 1..n : t[i] = s[i]
    <3>1. n \in Nat /\ n > 0
      BY <1>2
    <3>2. /\ Append(s, x) \in Seq(Seq(T)) /\ Append(s, x) # <<>>
          /\ Len(Append(s, x)) = Len(s) + 1 /\ Append(s, x)[Len(s) + 1] = x
          /\ \A i \in 1..Len(s) : Append(s, x)[i] = s[i]
      BY AppendProperties
    <3>. QED  BY <3>1, <3>2
  <2>3. flat[n] \in Seq(T) /\ last \in Seq(T)
    <3>1. n \in 1..n
      BY <2>2
    <3>2. flat[n] \in Seq(T)
      BY <2>1, <3>1
    <3>. QED  BY <3>2, ConcatProperties
  <2>. HIDE DEF t, last
  <2>4. g \in [1..n + 1 -> Seq(T)] /\ g[n + 1] = last /\ \A i \in 1..n : g[i] = flat[i]
    BY <2>1, <2>2, <2>3
  <2>. HIDE DEF g, n
  <2>5. ASSUME NEW i \in 1..n + 1
        PROVE  g[i] = IF i = 1 THEN t[i] ELSE g[i - 1] \o t[i]
    <3>1. CASE i = n + 1
      <4>1. i # 1 /\ i - 1 = n /\ n \in 1..n
        BY <2>2, <3>1
      <4>. QED  BY <2>2, <2>4, <3>1, <4>1 DEF last
    <3>2. CASE i # n + 1
      <4>1. i \in 1..n /\ (i # 1 => i - 1 \in 1..n)
        BY <2>2, <3>2
      <4>2. flat[i] = IF i = 1 THEN s[i] ELSE flat[i - 1] \o s[i]
        BY <2>1, <4>1 DEF FlattensUpTo, n
      <4>3. g[i] = flat[i] /\ t[i] = s[i] /\ (i # 1 => g[i - 1] = flat[i - 1])
        BY <2>2, <2>4, <4>1
      <4>. QED  BY <4>2, <4>3
    <3>. QED  BY <3>1, <3>2
  <2>6. FlattensUpTo(g, t, Len(t)) /\ g \in [1..Len(t) -> Seq(T)]
    BY <2>2, <2>4, <2>5 DEF FlattensUpTo
  <2>7. FlattenSeq(t) = g[Len(t)]
    BY <2>2, <2>6, FlattenIs
  <2>. QED  BY <2>1, <2>2, <2>4, <2>7 DEF t, n, last
<1>. QED  BY <1>1, <1>2

LEMMA FlattenCons ==
    ASSUME NEW T, NEW s \in Seq(Seq(T)), NEW x \in Seq(T)
    PROVE  FlattenSeq(<<x>> \o s) = x \o FlattenSeq(s)
<1>1. CASE s = <<>>
  <2>1. <<x>> \o s = <<x>> /\ FlattenSeq(s) = <<>> /\ x \o <<>> = x
    BY <1>1 DEF FlattenSeq
  <2>. QED  BY <2>1, FlattenOne
<1>2. CASE s # <<>>
  <2>1. PICK flat \in [1..Len(s) -> Seq(T)] :
           FlattenSeq(s) = flat[Len(s)] /\ FlattensUpTo(flat, s, Len(s))
    BY <1>2, FlattenShape
  <2>. DEFINE t == <<x>> \o s
              n == Len(s)
              g == [i \in 1..n + 1 |-> IF i = 1 THEN x ELSE x \o flat[i - 1]]
  <2>2. /\ n \in Nat /\ n > 0 /\ t \in Seq(Seq(T)) /\ t # <<>> /\ Len(t) = n + 1
        /\ t[1] = x /\ \A i \in 1..n : t[i + 1] = s[i]
    <3>1. n \in Nat /\ n > 0
      BY <1>2
    <3>2. <<x>> \in Seq(Seq(T)) /\ Len(<<x>>) = 1 /\ <<x>>[1] = x
      OBVIOUS
    <3>. HIDE DEF n
    <3>3. /\ t \in Seq(Seq(T)) /\ Len(t) = 1 + Len(s)
          /\ \A i \in 1..1 + Len(s) : t[i] = IF i <= 1 THEN <<x>>[i] ELSE s[i - 1]
      BY <3>2, ConcatProperties
    <3>4. Len(t) = n + 1 /\ t[1] = x
      BY <3>1, <3>2, <3>3 DEF n
    <3>5. ASSUME NEW i \in 1..n PROVE t[i + 1] = s[i]
      <4>1. i + 1 \in 1..1 + Len(s) /\ ~(i + 1 <= 1) /\ i + 1 - 1 = i
        BY <3>1 DEF n
      <4>. QED  BY <3>3, <4>1
    <3>6. t # <<>>
      BY <3>1, <3>4
    <3>. HIDE DEF t
    <3>. QED  BY <3>1, <3>3, <3>4, <3>5, <3>6
  <2>3. \A i \in 2..n + 1 : i - 1 \in 1..n /\ flat[i - 1] \in Seq(T)
    <3>1. \A i \in 2..n + 1 : i - 1 \in 1..n
      BY <2>2
    <3>. QED  BY <2>1, <3>1
  <2>. HIDE DEF t
  <2>4. /\ g \in [1..n + 1 -> Seq(T)] /\ g[1] = x
        /\ \A i \in 2..n + 1 : g[i] = x \o flat[i - 1]
    <3>1. \A i \in 1..n + 1 : i # 1 => i \in 2..n + 1
      BY <2>2
    <3>2. \A i \in 2..n + 1 : x \o flat[i - 1] \in Seq(T)
      BY <2>3, ConcatProperties
    <3>. DEFINE h(i) == IF i = 1 THEN x ELSE x \o flat[i - 1]
    <3>3. \A i \in 1..n + 1 : h(i) \in Seq(T)
      BY <3>1, <3>2
    <3>4. h(1) = x /\ \A i \in 2..n + 1 : h(i) = x \o flat[i - 1]
      BY <2>2
    <3>5. g = [i \in 1..n + 1 |-> h(i)]
      OBVIOUS
    <3>6. 1 \in 1..n + 1 /\ \A i \in 2..n + 1 : i \in 1..n + 1
      BY <2>2
    <3>. HIDE DEF h, g, n
    <3>7. g \in [1..n + 1 -> Seq(T)] /\ \A i \in 1..n + 1 : g[i] = h(i)
      BY <3>3, <3>5
    <3>. QED  BY <3>4, <3>6, <3>7
  <2>. HIDE DEF g, n
  <2>5. ASSUME NEW i \in 1..n + 1
        PROVE  g[i] = IF i = 1 THEN t[i] ELSE g[i - 1] \o t[i]
    <3>1. CASE i = 1
      BY <2>2, <2>4, <3>1
    <3>2. CASE i = 2
      <4>1. i \in 2..n + 1 /\ i - 1 = 1 /\ 1 \in 1..n /\ i = 1 + 1
        BY <2>2, <3>2
      <4>2. flat[1] = s[1]
        BY <2>1, <4>1 DEF FlattensUpTo, n
      <4>3. t[i] = s[1]
        BY <2>2, <4>1
      <4>4. g[i] = x \o flat[i - 1]
        BY <2>4, <4>1
      <4>5. g[i - 1] = x /\ g[i] = x \o s[1]
        BY <2>4, <4>1, <4>2, <4>4
      <4>6. i # 1
        BY <3>2
      <4>. QED  BY <4>3, <4>5, <4>6
    <3>3. CASE i # 1 /\ i # 2
      <4>1. i \in 2..n + 1 /\ i - 1 \in 2..n + 1 /\ i - 1 \in 1..n /\ i - 1 - 1 \in 1..n /\ i - 1 # 1
        BY <2>2, <3>3
      <4>2. g[i] = x \o flat[i - 1] /\ g[i - 1] = x \o flat[i - 1 - 1]
        BY <2>4, <4>1
      <4>6. t[i] = s[i - 1]
        <5>1. t[(i - 1) + 1] = s[i - 1] /\ (i - 1) + 1 = i
          BY <2>2, <4>1
        <5>. QED  BY <5>1
      <4>3. flat[i - 1] = flat[i - 1 - 1] \o s[i - 1]
        BY <2>1, <4>1 DEF FlattensUpTo, n
      <4>4. flat[i - 1 - 1] \in Seq(T) /\ s[i - 1] \in Seq(T)
        BY <2>1, <4>1, ElementOfSeq DEF n
      <4>5. x \o (flat[i - 1 - 1] \o s[i - 1]) = (x \o flat[i - 1 - 1]) \o s[i - 1]
        <5>. DEFINE a == flat[i - 1 - 1]
                    b == s[i - 1]
        <5>1. x \in Seq(T) /\ a \in Seq(T) /\ b \in Seq(T)
          BY <4>4
        <5>. HIDE DEF a, b
        <5>2. (x \o a) \o b = x \o (a \o b)
          BY ONLY <5>1, ConcatAssociative, SMTT(20)
        <5>. QED  BY <5>2 DEF a, b
      <4>. QED  BY <3>3, <4>2, <4>3, <4>5, <4>6
    <3>. QED  BY <3>1, <3>2, <3>3
  <2>6. FlattensUpTo(g, t, Len(t)) /\ g \in [1..Len(t) -> Seq(T)]
    BY <2>2, <2>4, <2>5 DEF FlattensUpTo
  <2>7. FlattenSeq(t) = g[Len(t)]
    BY <2>2, <2>6, FlattenIs
  <2>8. n \in 1..n /\ n + 1 \in 2..n + 1 /\ n + 1 - 1 = n
    BY <2>2
  <2>9. g[n + 1] = x \o flat[n]
    <3>. DEFINE k == n + 1
    <3>1. k \in 2..n + 1 /\ k - 1 = n
      BY <2>8
    <3>. HIDE DEF k
    <3>2. g[k] = x \o flat[k - 1]
      BY <2>4, <3>1
    <3>. QED  BY <3>1, <3>2 DEF k
  <2>. QED  BY <2>1, <2>2, <2>7, <2>9 DEF t, n
<1>. QED  BY <1>1, <1>2

\* A slice of what follows the first Len(s) elements.
LEMMA SliceShift ==
    ASSUME NEW T, NEW s \in Seq(T), NEW t \in Seq(T), NEW a \in Nat, NEW b \in Nat,
           b <= Len(t)
    PROVE  SubSeq(s \o t, Len(s) + a + 1, Len(s) + b) = SubSeq(t, a + 1, b)
<1>. DEFINE u == s \o t
            c == Len(s)
            m == c + a + 1
            n == c + b
            p == a + 1
<1>1. /\ u \in Seq(T) /\ Len(u) = c + Len(t) /\ c \in Nat /\ Len(t) \in Nat
      /\ \A i \in 1..c + Len(t) : u[i] = IF i <= c THEN s[i] ELSE t[i - c]
  BY ConcatProperties
<1>2. \A i \in p..b : i \in 1..Len(t) /\ t[i] \in T
  BY <1>1, ElementOfSeq
<1>3. m \in Int /\ n \in Int /\ p \in Int /\ m = c + p /\ m > c /\ n <= c + Len(t)
  BY <1>1
<1>. HIDE DEF u, c, m, n, p
<1>4. ASSUME NEW i \in m..n PROVE u[i] \in T /\ u[i] = t[i - c]
  <2>1. i \in 1..c + Len(t) /\ ~(i <= c) /\ i - c \in p..b
    BY <1>1, <1>3 DEF n
  <2>. QED  BY <1>1, <1>2, <2>1
<1>. DEFINE v == SubSeq(u, m, n)
            w == SubSeq(t, p, b)
<1>5. /\ v \in Seq(T) /\ Len(v) = IF m <= n THEN n - m + 1 ELSE 0
      /\ \A i \in 1..n - m + 1 : v[i] = u[m + i - 1]
  BY <1>3, <1>4, SubSeqProperties
<1>6. /\ w \in Seq(T) /\ Len(w) = IF p <= b THEN b - p + 1 ELSE 0
      /\ \A i \in 1..b - p + 1 : w[i] = t[p + i - 1]
  BY <1>2, <1>3, SubSeqProperties
<1>. HIDE DEF v, w
<1>7. n - m + 1 = b - p + 1 /\ (m <= n <=> p <= b)
  BY <1>1, <1>3 DEF n
<1>8. ASSUME NEW i \in 1..Len(v) PROVE v[i] = w[i]
  <2>. DEFINE k == m + i - 1
  <2>1. i \in 1..n - m + 1 /\ i \in 1..b - p + 1 /\ k \in m..n /\ k - c = p + i - 1
    BY <1>1, <1>3, <1>5, <1>7
  <2>. HIDE DEF k
  <2>2. u[k] = t[p + i - 1]
    BY <1>4, <2>1
  <2>3. v[i] = u[k]
    BY <1>5, <2>1 DEF k
  <2>. QED  BY <1>6, <2>1, <2>2, <2>3
<1>9. v = w
  BY <1>5, <1>6, <1>7, <1>8, SeqEqual
<1>. QED  BY <1>9 DEF u, v, w, m, n, p, c

----------------------------------------------------------------------------
(* All atoms.                                                              *)

Vocab == Marks \cup Fixed \cup Given \cup Asked \cup Asks

LEMMA FixedAtoms == \A x \in Marks \cup Fixed : x \in Vocab
BY DEF Vocab

LEMMA Literals ==
    /\ Underscore \in Vocab /\ Comma \in Vocab /\ "CONNECT_" \in Vocab /\ "DISCONNECT_ADDNBRS_" \in Vocab
    /\ "SEARCH-REQ" \in Vocab /\ "SEARCH-RESP" \in Vocab /\ "DISCONNECT" \in Vocab
    /\ "C1" \in Vocab /\ "1" \in Vocab /\ "F" \in Vocab /\ "YES" \in Vocab /\ "NO" \in Vocab
    /\ "KW" \in Vocab /\ "PROCESSED" \in Vocab
BY FixedAtoms DEF Marks, Fixed

LEMMA DelimitersDiffer ==
    /\ Underscore # Comma /\ Underscore # "SEARCH-REQ" /\ Underscore # "SEARCH-RESP"
    /\ Underscore # "1" /\ Underscore # "F" /\ Underscore # "YES" /\ Underscore # "NO"
    /\ Underscore # "KW" /\ Underscore # "PROCESSED" /\ Comma # "PROCESSED"
    /\ Underscore # "C1" /\ Underscore # "CONNECT_" /\ Underscore # "DISCONNECT_ADDNBRS_"
    /\ Comma # "CONNECT_" /\ Comma # "DISCONNECT_ADDNBRS_" /\ Comma # "SEARCH-REQ"
    /\ Comma # "SEARCH-RESP"
BY Zenon DEF Underscore, Comma

LEMMA Halves ==
    /\ 1 % 2 = 1 /\ 2 % 2 # 1 /\ 3 % 2 = 1 /\ 4 % 2 # 1 /\ 5 % 2 = 1
    /\ 6 % 2 # 1 /\ 7 % 2 = 1 /\ 8 % 2 # 1 /\ 9 % 2 = 1
    /\ (1 + 1) \div 2 = 1 /\ (3 + 1) \div 2 = 2 /\ (5 + 1) \div 2 = 3
    /\ (7 + 1) \div 2 = 4 /\ (9 + 1) \div 2 = 5
OBVIOUS

LEMMA Three == ASSUME NEW T, NEW a \in T, NEW b \in T, NEW c \in T PROVE <<a, b, c>> \in Seq(T)
OBVIOUS

LEMMA Five ==
    ASSUME NEW T, NEW a \in T, NEW b \in T, NEW c \in T, NEW d \in T, NEW e \in T
    PROVE  <<a, b, c, d, e>> \in Seq(T)
OBVIOUS

----------------------------------------------------------------------------
(* The elements of a set of numbers in their order.                        *)

Rank(S, i) == Cardinality({j \in S : j <= i})
Nth(S, n) == CHOOSE i \in S : Rank(S, i) = n

LEMMA RankGrows ==
    ASSUME NEW n \in Nat, NEW S \in SUBSET (1..n)
    PROVE  /\ IsFiniteSet(S) /\ Cardinality(S) \in Nat
           /\ \A i \in S : Rank(S, i) \in 1..Cardinality(S)
           /\ \A i, k \in S : i < k => Rank(S, i) < Rank(S, k)
<1>1. IsFiniteSet(1..n)
  BY FS_Interval
<1>2. IsFiniteSet(S)
  BY <1>1, FS_Subset
<1>3. Cardinality(S) \in Nat
  BY <1>2, FS_CardinalityType
<1>. DEFINE Upto(i) == {j \in S : j <= i}
<1>4. ASSUME NEW i \in S
      PROVE  /\ IsFiniteSet(Upto(i)) /\ Cardinality(Upto(i)) \in Nat
             /\ Cardinality(Upto(i)) <= Cardinality(S) /\ Cardinality(Upto(i)) # 0
  <2>1. Upto(i) \in SUBSET S /\ i \in Upto(i)
    OBVIOUS
  <2>. HIDE DEF Upto
  <2>2. IsFiniteSet(Upto(i)) /\ Cardinality(Upto(i)) <= Cardinality(S)
    BY <1>2, <2>1, FS_Subset
  <2>3. Cardinality(Upto(i)) \in Nat
    BY <2>2, FS_CardinalityType
  <2>4. Upto(i) # {}
    BY <2>1
  <2>. QED  BY <2>2, <2>3, <2>4, FS_EmptySet
<1>5. ASSUME NEW i \in S, NEW k \in S, i < k
      PROVE  Cardinality(Upto(i)) < Cardinality(Upto(k))
  <2>1. Upto(i) \in SUBSET Upto(k) /\ k \in Upto(k) /\ k \notin Upto(i)
    <3>1. \A j \in S : j \in Nat
      OBVIOUS
    <3>2. \A j \in S : j <= i => j <= k
      BY <1>5, <3>1
    <3>3. k <= k /\ ~(k <= i)
      BY <1>5, <3>1
    <3>. QED  BY <3>2, <3>3
  <2>. HIDE DEF Upto
  <2>2. Cardinality(Upto(i)) <= Cardinality(Upto(k))
    BY <1>4, <2>1, FS_Subset
  <2>3. Cardinality(Upto(i)) # Cardinality(Upto(k))
    BY <1>4, <2>1, FS_Subset
  <2>. QED  BY <1>4, <2>2, <2>3
<1>. HIDE DEF Upto
<1>6. \A i \in S : Rank(S, i) = Cardinality(Upto(i))
  BY DEF Rank, Upto
<1>7. \A i \in S : Rank(S, i) \in 1..Cardinality(S)
  BY <1>3, <1>4, <1>6
<1>. QED  BY <1>2, <1>3, <1>5, <1>6, <1>7

LEMMA NthShape ==
    ASSUME NEW n \in Nat, NEW S \in SUBSET (1..n)
    PROVE  /\ \A r \in 1..Cardinality(S) : Nth(S, r) \in S /\ Rank(S, Nth(S, r)) = r
           /\ \A i \in S : Nth(S, Rank(S, i)) = i
<1>. DEFINE N == Cardinality(S)
            f == [i \in S |-> Rank(S, i)]
<1>1. IsFiniteSet(S) /\ N \in Nat /\ f \in [S -> 1..N]
  BY RankGrows
<1>2. ASSUME NEW i \in S, NEW k \in S, Rank(S, i) = Rank(S, k) PROVE i = k
  <2>1. i \in Nat /\ k \in Nat /\ ~(i < k) /\ ~(k < i)
    <3>1. \A x, y \in S : x < y => Rank(S, x) < Rank(S, y)
      BY RankGrows
    <3>2. Rank(S, i) \in 1..N
      BY RankGrows
    <3>. QED  BY <1>1, <1>2, <3>1, <3>2
  <2>. QED  BY <2>1
<1>. HIDE DEF N
<1>3. f \in Injection(S, 1..N)
  BY <1>1, <1>2 DEF Injection, IsInjective
<1>4. IsFiniteSet(1..N) /\ Cardinality(1..N) = N
  BY <1>1, FS_Interval
<1>. HIDE DEF f
<1>5. f \in Surjection(S, 1..N)
  BY <1>1, <1>3, <1>4, FS_Injection DEF N
<1>6. \A r \in 1..N : \E i \in S : f[i] = r
  BY <1>5 DEF Surjection
<1>7. \A r \in 1..N : \E i \in S : Rank(S, i) = r
  BY <1>6 DEF f
<1>8. \A r \in 1..N : Nth(S, r) \in S /\ Rank(S, Nth(S, r)) = r
  BY <1>7 DEF Nth
<1>9. ASSUME NEW i \in S PROVE Nth(S, Rank(S, i)) = i
  <2>1. Rank(S, i) \in 1..N
    BY RankGrows DEF N
  <2>. QED  BY <1>2, <1>8, <2>1
<1>. QED  BY <1>8, <1>9 DEF N

----------------------------------------------------------------------------
(* split_str undoes join_str.                                              *)

Delims(text, d) == {i \in 1..Len(text) : text[i] = d}

\* The last of the numbers of S below i, or 0.
LastBelow(S, i) == Max({0} \cup {j \in S : j < i})

\* The token of text before position i.
Token(text, d, i) == SubSeq(text, LastBelow(Delims(text, d), i) + 1, i - 1)

LEMMA LastBelowShape ==
    ASSUME NEW n \in Nat, NEW S \in SUBSET (1..n), NEW i \in Nat
    PROVE  /\ LastBelow(S, i) \in {0} \cup {j \in S : j < i}
           /\ \A j \in S : j < i => j <= LastBelow(S, i)
<1>. DEFINE B == {j \in S : j < i}
<1>1. CASE B = {}
  <2>1. \A y \in {0} : 0 >= y
    OBVIOUS
  <2>2. Max({0}) = 0
    BY <2>1, MaxIs
  <2>3. {0} \cup B = {0}
    BY <1>1
  <2>4. LastBelow(S, i) = 0
    BY <2>2, <2>3 DEF LastBelow
  <2>. QED  BY <1>1, <2>4
<1>2. CASE B # {}
  <2>1. B \subseteq 1..n
    OBVIOUS
  <2>. HIDE DEF B
  <2>2. Max(B) \in B /\ \A y \in B : Max(B) >= y
    BY <1>2, <2>1, GreatestBelow
  <2>7. \A j \in B : j \in Nat
    BY <2>1
  <2>3. Max(B) \in {0} \cup B /\ {0} \cup B \subseteq Nat /\ \A y \in {0} \cup B : Max(B) >= y
    BY <2>2, <2>7
  <2>4. Max({0} \cup B) = Max(B)
    BY <2>3, MaxIs
  <2>5. LastBelow(S, i) = Max(B)
    BY <2>4 DEF LastBelow, B
  <2>6. \A j \in B : j <= Max(B)
    BY <2>2, <2>7
  <2>. QED  BY <2>2, <2>5, <2>6 DEF B
<1>. QED  BY <1>1, <1>2

LEMMA LastBelowIs ==
    ASSUME NEW n \in Nat, NEW S \in SUBSET (1..n), NEW i \in Nat,
           NEW m \in {0} \cup {j \in S : j < i}, \A j \in S : j < i => j <= m
    PROVE  LastBelow(S, i) = m
<1>1. LastBelow(S, i) \in {0} \cup {j \in S : j < i}
  BY LastBelowShape
<1>2. \A j \in S : j < i => j <= LastBelow(S, i)
  BY LastBelowShape
<1>3. m \in Nat /\ LastBelow(S, i) \in Nat
  <2>1. \A x \in {0} \cup {j \in S : j < i} : x \in Nat
    OBVIOUS
  <2>2. m \in {0} \cup {j \in S : j < i}
    OBVIOUS
  <2>. QED  BY <1>1, <2>1, <2>2
<1>4. m <= LastBelow(S, i)
  BY <1>2, <1>3
<1>5. LastBelow(S, i) <= m
  BY <1>1, <1>3
<1>. QED  BY <1>3, <1>4, <1>5

LEMMA SplitShape ==
    ASSUME NEW text \in Seq(Vocab), NEW d
    PROVE  LET at == Delims(text, d)
               N == Cardinality(at) IN
           /\ at \in SUBSET (1..Len(text)) /\ N \in Nat
           /\ Split(text, d) \in Seq(Seq(Vocab)) /\ Len(Split(text, d)) = N + 1
           /\ \A n \in 1..N : Split(text, d)[n] = Token(text, d, Nth(at, n))
           /\ Split(text, d)[N + 1] = Token(text, d, Len(text) + 1)
<1>. DEFINE at == Delims(text, d)
            N == Cardinality(at)
            L == Len(text)
            first == SplitButLast(text, d)
            last == SubSeq(text, Max({0} \cup at) + 1, L)
<1>1. at \in SUBSET (1..L) /\ L \in Nat
  BY DEF Delims
<1>2. N \in Nat /\ \A n \in 1..N : Nth(at, n) \in at
  BY <1>1, RankGrows, NthShape
<1>3. Split(text, d) = Append(first, last)
  BY DEF Split, Delims
<1>4. first = [n \in 1..N |-> Token(text, d, Nth(at, n))]
  BY DEF SplitButLast, Token, Delims, Nth, Rank, LastBelow
<1>5. last = Token(text, d, L + 1)
  <2>1. {j \in at : j < L + 1} = at /\ L + 1 - 1 = L
    BY <1>1
  <2>2. ASSUME NEW i PROVE Token(text, d, i) = SubSeq(text, LastBelow(at, i) + 1, i - 1)
    BY DEF Token
  <2>. HIDE DEF at
  <2>4. Token(text, d, L + 1) = SubSeq(text, LastBelow(at, L + 1) + 1, L + 1 - 1)
    BY <2>2
  <2>3. LastBelow(at, L + 1) = Max({0} \cup at)
    BY <2>1 DEF LastBelow
  <2>. QED  BY <2>1, <2>3, <2>4
<1>. HIDE DEF at, N
<1>6. ASSUME NEW i \in Nat, i <= L + 1 PROVE Token(text, d, i) \in Seq(Vocab)
  <2>. DEFINE a == LastBelow(at, i) + 1
              b == i - 1
  <2>1. LastBelow(at, i) \in Nat
    <3>1. LastBelow(at, i) \in {0} \cup {j \in at : j < i}
      BY <1>1, LastBelowShape
    <3>2. \A j \in at : j \in Nat
      BY <1>1
    <3>. QED  BY <3>1, <3>2
  <2>2. a \in Int /\ b \in Int /\ a >= 1 /\ b <= L
    BY <1>6, <2>1
  <2>. HIDE DEF a, b
  <2>3. \A k \in a..b : text[k] \in Vocab
    <3>1. \A k \in a..b : k \in 1..Len(text)
      BY <1>1, <2>2
    <3>. QED  BY <3>1, ElementOfSeq
  <2>4. SubSeq(text, a, b) \in Seq(Vocab)
    BY <2>2, <2>3, SubSeqProperties
  <2>5. Token(text, d, i) = SubSeq(text, a, b)
    BY DEF Token, a, b, at
  <2>. QED  BY <2>4, <2>5
<1>. HIDE DEF first, last
<1>7. \A n \in 1..N : Nth(at, n) \in Nat /\ Nth(at, n) <= L + 1
  <2>1. \A i \in at : i \in Nat /\ i <= L + 1
    BY <1>1
  <2>. QED  BY <1>2, <2>1
<1>8. \A n \in 1..N : Token(text, d, Nth(at, n)) \in Seq(Vocab)
  BY <1>6, <1>7
<1>9. last \in Seq(Vocab)
  BY <1>1, <1>5, <1>6
<1>10. first \in Seq(Seq(Vocab)) /\ Len(first) = N
  <2>. DEFINE tok(n) == Token(text, d, Nth(at, n))
  <2>1. \A n \in 1..N : tok(n) \in Seq(Vocab)
    BY <1>8
  <2>2. first = [n \in 1..N |-> tok(n)]
    BY <1>4
  <2>. HIDE DEF tok
  <2>. QED  BY <1>2, <2>1, <2>2
<1>11. /\ Append(first, last) \in Seq(Seq(Vocab)) /\ Len(Append(first, last)) = N + 1
       /\ \A n \in 1..N : Append(first, last)[n] = first[n]
       /\ Append(first, last)[N + 1] = last
  BY <1>9, <1>10, AppendProperties
<1>12. \A n \in 1..N : first[n] = Token(text, d, Nth(at, n))
  BY <1>4
<1>. QED  BY <1>1, <1>2, <1>3, <1>5, <1>11, <1>12 DEF N, at

\* The numbers of S, moved by c, and c.
Moved(S, c) == {c} \cup {j + c : j \in S}

LEMMA MovedCount ==
    ASSUME NEW n \in Nat, NEW S \in SUBSET (1..n), NEW c \in Nat, c > 0
    PROVE  Cardinality(Moved(S, c)) = Cardinality(S) + 1
<1>. DEFINE M == {j + c : j \in S}
            f == [j \in S |-> j + c]
<1>1. \A j \in S : j \in Nat /\ j > 0
  OBVIOUS
<1>2. IsFiniteSet(S)
  BY RankGrows
<1>3. f \in Bijection(S, M)
  <2>1. f \in [S -> M]
    OBVIOUS
  <2>2. \A x, y \in S : f[x] = f[y] => x = y
    BY <1>1
  <2>3. \A m \in M : \E x \in S : f[x] = m
    OBVIOUS
  <2>. HIDE DEF M, f
  <2>4. f \in Injection(S, M)
    BY <2>1, <2>2 DEF Injection, IsInjective
  <2>5. f \in Surjection(S, M)
    BY <2>1, <2>3 DEF Surjection
  <2>. QED  BY <2>4, <2>5 DEF Bijection
<1>. HIDE DEF f
<1>4. ExistsBijection(S, M)
  BY <1>3 DEF ExistsBijection
<1>5. c \notin M
  BY <1>1
<1>. HIDE DEF M
<1>6. IsFiniteSet(M) /\ Cardinality(M) = Cardinality(S)
  BY <1>2, <1>4, FS_Bijection
<1>7. Cardinality(M \cup {c}) = Cardinality(M) + 1
  BY <1>5, <1>6, FS_AddElement
<1>8. Moved(S, c) = M \cup {c}
  BY DEF Moved, M
<1>. QED  BY <1>6, <1>7, <1>8

LEMMA MovedInside ==
    ASSUME NEW n \in Nat, NEW S \in SUBSET (1..n), NEW c \in Nat, c > 0
    PROVE  Moved(S, c) \in SUBSET (1..n + c)
<1>1. \A j \in S : j \in Nat /\ j > 0 /\ j <= n
  OBVIOUS
<1>2. Moved(S, c) \in SUBSET (1..n + c)
  <2>1. ASSUME NEW x \in Moved(S, c) PROVE x \in 1..n + c
    <3>1. CASE x = c
      BY <3>1
    <3>2. CASE x # c
      <4>1. PICK j \in S : x = j + c
        BY <3>2 DEF Moved
      <4>. QED  BY <1>1, <4>1
    <3>. QED  BY <3>1, <3>2
  <2>. QED  BY <2>1
<1>. QED  BY <1>2

LEMMA MovedNth ==
    ASSUME NEW n \in Nat, NEW S \in SUBSET (1..n), NEW c \in Nat, c > 0
    PROVE  /\ Nth(Moved(S, c), 1) = c
           /\ \A r \in 1..Cardinality(S) : Nth(Moved(S, c), r + 1) = Nth(S, r) + c
<1>1. \A j \in S : j \in Nat /\ j > 0 /\ j <= n
  OBVIOUS
<1>2. Moved(S, c) \in SUBSET (1..n + c)
  BY MovedInside
<1>3. Rank(Moved(S, c), c) = 1
  <2>1. {j \in Moved(S, c) : j <= c} = {c}
    BY <1>1 DEF Moved
  <2>. QED  BY <2>1, FS_Singleton DEF Rank
<1>4. ASSUME NEW i \in S PROVE Rank(Moved(S, c), i + c) = Rank(S, i) + 1
  <2>. DEFINE U == {j \in S : j <= i}
  <2>1. U \in SUBSET (1..n)
    OBVIOUS
  <2>2. {j \in Moved(S, c) : j <= i + c} = Moved(U, c)
    <3>1. ASSUME NEW j \in S PROVE j + c <= i + c <=> j <= i
      BY <1>1
    <3>2. c <= i + c
      BY <1>1
    <3>. QED  BY <3>1, <3>2 DEF Moved
  <2>. HIDE DEF U
  <2>3. Cardinality(Moved(U, c)) = Cardinality(U) + 1
    BY <2>1, MovedCount
  <2>. QED  BY <2>2, <2>3 DEF Rank, U
<1>. DEFINE M == Moved(S, c)
            k == n + c
<1>5. M \in SUBSET (1..k) /\ k \in Nat
  BY <1>2
<1>6. c \in M /\ \A i \in S : i + c \in M
  BY DEF Moved
<1>7. Rank(M, c) = 1 /\ \A i \in S : Rank(M, i + c) = Rank(S, i) + 1
  BY <1>3, <1>4
<1>. HIDE DEF M, k
<1>8. \A i \in M : Nth(M, Rank(M, i)) = i
  BY <1>5, NthShape
<1>9. Nth(M, 1) = c
  BY <1>6, <1>7, <1>8
<1>10. ASSUME NEW r \in 1..Cardinality(S) PROVE Nth(M, r + 1) = Nth(S, r) + c
  <2>1. Nth(S, r) \in S /\ Rank(S, Nth(S, r)) = r
    BY NthShape
  <2>2. Nth(S, r) + c \in M /\ Rank(M, Nth(S, r) + c) = r + 1
    BY <1>6, <1>7, <2>1
  <2>3. Nth(M, Rank(M, Nth(S, r) + c)) = Nth(S, r) + c
    BY <1>8, <2>2
  <2>. QED  BY <2>2, <2>3
<1>. QED  BY <1>9, <1>10 DEF M

LEMMA MovedLast ==
    ASSUME NEW n \in Nat, NEW S \in SUBSET (1..n), NEW c \in Nat, c > 0, NEW i \in Nat, i > 0
    PROVE  /\ LastBelow(Moved(S, c), c) = 0
           /\ LastBelow(Moved(S, c), i + c) = LastBelow(S, i) + c
<1>. DEFINE M == Moved(S, c)
            k == n + c
            l == LastBelow(S, i)
<1>1. \A j \in S : j \in Nat /\ j > 0
  OBVIOUS
<1>2. M \in SUBSET (1..k) /\ k \in Nat
  <2>1. k \in Nat
    OBVIOUS
  <2>2. Moved(S, c) \in SUBSET (1..n + c)
    BY MovedInside
  <2>. QED  BY <2>1, <2>2
<1>3. l \in {0} \cup {j \in S : j < i} /\ \A j \in S : j < i => j <= l
  BY LastBelowShape
<1>4. l \in Nat /\ l < i
  <2>1. \A x \in {0} \cup {j \in S : j < i} : x \in Nat /\ x < i
    BY <1>1
  <2>. QED  BY <1>3, <2>1
<1>5. \A j \in M : ~(j < c)
  BY <1>1 DEF Moved
<1>6. l + c \in M /\ l + c < i + c
  <2>1. l = 0 => l + c = c
    OBVIOUS
  <2>2. l \in S => l + c \in M
    BY DEF Moved
  <2>3. c \in M
    BY DEF Moved
  <2>. HIDE DEF M, l
  <2>4. l = 0 \/ l \in S
    BY <1>3
  <2>. QED  BY <1>4, <2>1, <2>2, <2>3, <2>4
<1>7. ASSUME NEW j \in M, j < i + c PROVE j <= l + c
  <2>1. CASE j = c
    <3>. HIDE DEF l, M
    <3>. QED  BY <1>4, <2>1
  <2>2. CASE j # c
    <3>1. PICK x \in S : j = x + c
      BY <2>2 DEF Moved
    <3>. HIDE DEF l, M
    <3>2. x < i
      BY <1>1, <1>7, <3>1
    <3>. QED  BY <1>1, <1>3, <1>4, <3>1, <3>2
  <2>. QED  BY <2>1, <2>2
<1>. HIDE DEF M, k, l
<1>8. LastBelow(M, c) = 0
  <2>1. 0 \in {0} \cup {j \in M : j < c} /\ \A j \in M : j < c => j <= 0
    BY <1>5
  <2>. QED  BY <1>2, <2>1, LastBelowIs
<1>9. LastBelow(M, i + c) = l + c
  <2>1. l + c \in {0} \cup {j \in M : j < i + c} /\ i + c \in Nat
    BY <1>6
  <2>2. \A j \in M : j < i + c => j <= l + c
    BY <1>7
  <2>. QED  BY <1>2, <2>1, <2>2, LastBelowIs
<1>. QED  BY <1>8, <1>9 DEF M, l

\* The first token, and the rest of the text.
LEMMA SplitCons ==
    ASSUME NEW t \in Seq(Vocab), NEW rest \in Seq(Vocab), NEW d \in Vocab,
           \A i \in 1..Len(t) : t[i] # d
    PROVE  /\ t \o <<d>> \o rest \in Seq(Vocab)
           /\ Split(t \o <<d>> \o rest, d) = <<t>> \o Split(rest, d)
<1>. DEFINE pre == t \o <<d>>
            full == pre \o rest
            c == Len(t) + 1
            R == Len(rest)
            at == Delims(rest, d)
            N == Cardinality(at)
<1>1. /\ pre \in Seq(Vocab) /\ Len(pre) = c /\ c \in Nat /\ c > 0 /\ R \in Nat
      /\ \A i \in 1..c : pre[i] = IF i < c THEN t[i] ELSE d
  <2>1. /\ <<d>> \in Seq(Vocab) /\ Len(<<d>>) = 1 /\ <<d>>[1] = d
        /\ Len(t) \in Nat /\ R \in Nat
    <3>1. Len(<<d>>) = 1 /\ <<d>>[1] = d
      OBVIOUS
    <3>2. <<d>> \in Seq(Vocab)
      BY SingleSeq
    <3>3. Len(t) \in Nat /\ R \in Nat
      BY LenProperties
    <3>. QED  BY <3>1, <3>2, <3>3
  <2>2. /\ pre \in Seq(Vocab) /\ Len(pre) = Len(t) + Len(<<d>>)
        /\ \A i \in 1..Len(t) + Len(<<d>>) :
             pre[i] = IF i <= Len(t) THEN t[i] ELSE <<d>>[i - Len(t)]
    BY <2>1, ConcatProperties
  <2>. HIDE DEF pre
  <2>3. ASSUME NEW i \in 1..c PROVE pre[i] = IF i < c THEN t[i] ELSE d
    <3>1. i \in 1..Len(t) + Len(<<d>>) /\ (i < c <=> i <= Len(t))
      BY <2>1
    <3>2. ~(i < c) => i - Len(t) = 1
      BY <2>1
    <3>. QED  BY <2>1, <2>2, <3>1, <3>2
  <2>4. Len(pre) = c /\ c \in Nat /\ c > 0
    BY <2>1, <2>2
  <2>. HIDE DEF c
  <2>. QED  BY <2>1, <2>2, <2>3, <2>4
<1>. HIDE DEF pre
<1>2. /\ full \in Seq(Vocab) /\ Len(full) = c + R
      /\ \A i \in 1..c + R : full[i] = IF i <= c THEN pre[i] ELSE rest[i - c]
  <2>1. /\ pre \o rest \in Seq(Vocab) /\ Len(pre \o rest) = Len(pre) + Len(rest)
        /\ \A i \in 1..Len(pre) + Len(rest) :
             (pre \o rest)[i] = IF i <= Len(pre) THEN pre[i] ELSE rest[i - Len(pre)]
    BY <1>1, ConcatProperties
  <2>. QED  BY <1>1, <2>1
<1>3. at \in SUBSET (1..R)
  BY DEF Delims
<1>. HIDE DEF full, c, R, at
<1>4. Delims(full, d) = Moved(at, c)
  <2>1. ASSUME NEW i \in 1..c + R, full[i] = d PROVE i \in Moved(at, c)
    <3>1. CASE i = c
      BY <3>1 DEF Moved
    <3>2. CASE i # c
      <4>1. ~(i < c)
        <5>. SUFFICES ASSUME i < c PROVE FALSE
          OBVIOUS
        <5>1. i \in 1..Len(t)
          BY DEF c
        <5>2. i \in 1..c /\ i <= c
          BY <1>1
        <5>3. full[i] = t[i]
          BY <1>1, <1>2, <5>2
        <5>. QED  BY <2>1, <5>1, <5>3
      <4>5. i - c \in 1..R /\ ~(i <= c)
        BY <1>1, <3>2, <4>1
      <4>2. i - c \in 1..R /\ rest[i - c] = d
        BY <1>2, <2>1, <4>5
      <4>3. i - c \in at
        BY <4>2 DEF at, R, Delims
      <4>4. i = (i - c) + c
        BY <1>1
      <4>. QED  BY <4>3, <4>4 DEF Moved
    <3>. QED  BY <3>1, <3>2
  <2>2. ASSUME NEW i \in Moved(at, c) PROVE i \in 1..c + R /\ full[i] = d
    <3>1. CASE i = c
      <4>1. c \in 1..c /\ c \in 1..c + R /\ c <= c /\ ~(c < c)
        BY <1>1
      <4>. QED  BY <1>1, <1>2, <3>1, <4>1
    <3>2. CASE i # c
      <4>1. PICK j \in at : i = j + c
        BY <3>2 DEF Moved
      <4>2. j \in 1..R /\ rest[j] = d
        BY <4>1 DEF at, R, Delims
      <4>3. i \in 1..c + R /\ ~(i <= c) /\ i - c = j
        BY <1>1, <4>1, <4>2
      <4>. QED  BY <1>2, <4>2, <4>3
    <3>. QED  BY <3>1, <3>2
  <2>. QED  BY <1>2, <2>1, <2>2 DEF Delims
<1>5. N \in Nat /\ Cardinality(Delims(full, d)) = N + 1
  <2>1. N \in Nat
    BY <1>1, <1>3, RankGrows
  <2>. QED  BY <1>1, <1>3, <1>4, <2>1, MovedCount
<1>6. Token(full, d, c) = t
  <2>1. LastBelow(Delims(full, d), c) = 0
    <3>1. 1 \in Nat /\ 1 > 0
      OBVIOUS
    <3>2. LastBelow(Moved(at, c), c) = 0
      BY <1>1, <1>3, <3>1, MovedLast
    <3>. QED  BY <1>4, <3>2
  <2>2. Token(full, d, c) = SubSeq(full, 1, c - 1)
    BY <2>1 DEF Token
  <2>3. Len(t) \in Nat /\ c - 1 = Len(t)
    BY DEF c
  <2>4. \A i \in 1..Len(t) : full[i] = t[i] /\ t[i] \in Vocab
    <3>1. ASSUME NEW i \in 1..Len(t) PROVE full[i] = t[i]
      <4>1. i \in 1..c + R /\ i \in 1..c /\ i < c /\ i <= c
        BY <1>1, <2>3
      <4>. QED  BY <1>1, <1>2, <4>1
    <3>. QED  BY <3>1, ElementOfSeq
  <2>. DEFINE u == SubSeq(full, 1, Len(t))
  <2>5. /\ u \in Seq(Vocab) /\ Len(u) = IF 1 <= Len(t) THEN Len(t) - 1 + 1 ELSE 0
        /\ \A i \in 1..Len(t) - 1 + 1 : u[i] = full[1 + i - 1]
    <3>1. 1 \in Int /\ Len(t) \in Int /\ \A i \in 1..Len(t) : full[i] \in Vocab
      BY <2>3, <2>4
    <3>. QED  BY <3>1, SubSeqProperties
  <2>. HIDE DEF u
  <2>6. Len(u) = Len(t) /\ \A i \in 1..Len(u) : u[i] = t[i]
    <3>1. Len(u) = Len(t)
      BY <2>3, <2>5
    <3>2. ASSUME NEW i \in 1..Len(t) PROVE u[i] = t[i]
      <4>1. i \in 1..Len(t) - 1 + 1 /\ 1 + i - 1 = i
        BY <2>3
      <4>. QED  BY <2>4, <2>5, <4>1
    <3>. QED  BY <3>1, <3>2
  <2>7. u = t
    BY <2>5, <2>6, SeqEqual
  <2>. QED  BY <2>2, <2>3, <2>7 DEF u
<1>7. ASSUME NEW i \in 1..R + 1 PROVE Token(full, d, i + c) = Token(rest, d, i)
  <2>. DEFINE l == LastBelow(at, i)
              q == i + c
  <2>1. i \in Nat /\ i > 0
    BY <1>1
  <2>2. LastBelow(Delims(full, d), q) = l + c
    <3>1. LastBelow(Moved(at, c), i + c) = LastBelow(at, i) + c
      BY <1>1, <1>3, <2>1, MovedLast
    <3>. QED  BY <1>4, <3>1
  <2>3. l \in Nat
    <3>1. l \in {0} \cup {j \in at : j < i}
      BY <1>1, <1>3, <2>1, LastBelowShape
    <3>2. \A j \in at : j \in Nat
      BY <1>3
    <3>. QED  BY <3>1, <3>2
  <2>. HIDE DEF l, q
  <2>4. Token(full, d, q) = SubSeq(full, l + c + 1, q - 1)
    BY <2>2 DEF Token
  <2>5. Token(rest, d, i) = SubSeq(rest, l + 1, i - 1)
    BY DEF Token, l, at
  <2>. DEFINE b == i - 1
  <2>6. b \in Nat /\ b <= Len(rest)
    BY <1>1, <2>1 DEF R
  <2>. HIDE DEF b
  <2>7. SubSeq(pre \o rest, Len(pre) + l + 1, Len(pre) + b) = SubSeq(rest, l + 1, b)
    BY <1>1, <2>3, <2>6, SliceShift
  <2>8. Len(pre) + l + 1 = l + c + 1 /\ Len(pre) + b = q - 1
    BY <1>1, <2>1, <2>3 DEF b, q
  <2>. QED  BY <2>4, <2>5, <2>7, <2>8 DEF b, full, q
<1>. HIDE DEF N
<1>8. /\ Split(full, d) \in Seq(Seq(Vocab)) /\ Len(Split(full, d)) = N + 1 + 1
      /\ \A n \in 1..N + 1 : Split(full, d)[n] = Token(full, d, Nth(Moved(at, c), n))
      /\ Split(full, d)[N + 1 + 1] = Token(full, d, c + R + 1)
  <2>. DEFINE A == Delims(full, d)
              K == Cardinality(A)
  <2>1. /\ Split(full, d) \in Seq(Seq(Vocab)) /\ Len(Split(full, d)) = K + 1
        /\ \A n \in 1..K : Split(full, d)[n] = Token(full, d, Nth(A, n))
        /\ Split(full, d)[K + 1] = Token(full, d, Len(full) + 1)
    BY <1>2, SplitShape
  <2>2. K = N + 1 /\ A = Moved(at, c) /\ Len(full) = c + R
    BY <1>2, <1>4, <1>5
  <2>. HIDE DEF A, K
  <2>. QED  BY <2>1, <2>2
<1>9. /\ Split(rest, d) \in Seq(Seq(Vocab)) /\ Len(Split(rest, d)) = N + 1
      /\ \A n \in 1..N : Split(rest, d)[n] = Token(rest, d, Nth(at, n))
      /\ Split(rest, d)[N + 1] = Token(rest, d, R + 1)
  BY SplitShape DEF at, N, R
<1>10. /\ Nth(Moved(at, c), 1) = c
       /\ \A n \in 1..N : Nth(Moved(at, c), n + 1) = Nth(at, n) + c /\ Nth(at, n) \in at
  <2>1. \A n \in 1..N : Nth(at, n) \in at
    BY <1>1, <1>3, NthShape DEF N
  <2>. QED  BY <1>1, <1>3, <2>1, MovedNth DEF N
<1>. DEFINE v == <<t>> \o Split(rest, d)
            w == Split(full, d)
<1>11. /\ v \in Seq(Seq(Vocab)) /\ Len(v) = 1 + (N + 1)
       /\ v[1] = t /\ \A n \in 1..N + 1 : v[n + 1] = Split(rest, d)[n]
  <2>. DEFINE s == Split(rest, d)
  <2>1. <<t>> \in Seq(Seq(Vocab)) /\ Len(<<t>>) = 1 /\ <<t>>[1] = t
    OBVIOUS
  <2>. HIDE DEF s
  <2>2. s \in Seq(Seq(Vocab)) /\ Len(s) = N + 1
    BY <1>9 DEF s
  <2>3. /\ <<t>> \o s \in Seq(Seq(Vocab)) /\ Len(<<t>> \o s) = 1 + Len(s)
        /\ \A i \in 1..1 + Len(s) : (<<t>> \o s)[i] = IF i <= 1 THEN <<t>>[i] ELSE s[i - 1]
    BY <2>1, <2>2, ConcatProperties
  <2>4. (<<t>> \o s)[1] = t
    BY <1>5, <2>1, <2>2, <2>3
  <2>5. ASSUME NEW n \in 1..N + 1 PROVE (<<t>> \o s)[n + 1] = s[n]
    <3>1. n + 1 \in 1..1 + Len(s) /\ ~(n + 1 <= 1) /\ n + 1 - 1 = n
      BY <1>5, <2>2
    <3>. QED  BY <2>3, <3>1
  <2>. QED  BY <2>2, <2>3, <2>4, <2>5 DEF s
<1>. HIDE DEF v, w
<1>12. ASSUME NEW n \in 1..N + 1 + 1 PROVE w[n] = v[n]
  <2>1. CASE n = 1
    <3>1. 1 \in 1..N + 1
      BY <1>5
    <3>. QED  BY <1>6, <1>8, <1>10, <1>11, <2>1, <3>1 DEF w
  <2>2. CASE n \in 2..N + 1
    <3>. DEFINE r == n - 1
    <3>1. r \in 1..N /\ r \in 1..N + 1 /\ n = r + 1 /\ n \in 1..N + 1
      BY <1>5, <2>2
    <3>. HIDE DEF r
    <3>2. v[n] = Token(rest, d, Nth(at, r))
      BY <1>9, <1>11, <3>1
    <3>3. w[n] = Token(full, d, Nth(at, r) + c)
      BY <1>8, <1>10, <3>1 DEF w
    <3>4. Nth(at, r) \in 1..R + 1
      <4>1. \A i \in at : i \in 1..R + 1
        BY <1>1, <1>3
      <4>. QED  BY <1>10, <3>1, <4>1
    <3>. QED  BY <1>7, <3>2, <3>3, <3>4
  <2>3. CASE n = N + 1 + 1
    <3>1. v[n] = Token(rest, d, R + 1)
      <4>1. N + 1 \in 1..N + 1
        BY <1>5
      <4>. QED  BY <1>9, <1>11, <2>3, <4>1
    <3>2. w[n] = Token(full, d, c + R + 1)
      BY <1>8, <2>3 DEF w
    <3>3. R + 1 \in 1..R + 1 /\ c + R + 1 = (R + 1) + c
      BY <1>1
    <3>. QED  BY <1>7, <3>1, <3>2, <3>3
  <2>4. n = 1 \/ n \in 2..N + 1 \/ n = N + 1 + 1
    BY <1>5
  <2>. QED  BY <2>1, <2>2, <2>3, <2>4
<1>13. w = v
  <2>1. w \in Seq(Seq(Vocab)) /\ Len(w) = Len(v) /\ \A n \in 1..Len(w) : w[n] = v[n]
    <3>1. Len(w) = N + 1 + 1 /\ Len(v) = N + 1 + 1
      BY <1>5, <1>8, <1>11 DEF w
    <3>. QED  BY <1>8, <1>12, <3>1 DEF w
  <2>. QED  BY <1>11, <2>1, SeqEqual
<1>. QED  BY <1>2, <1>13 DEF v, w, full, pre

LEMMA SplitOne ==
    ASSUME NEW t \in Seq(Vocab), NEW d, \A i \in 1..Len(t) : t[i] # d
    PROVE  Split(t, d) = <<t>>
<1>. DEFINE at == Delims(t, d)
            N == Cardinality(at)
            L == Len(t)
            w == Split(t, d)
<1>1. at = {}
  BY DEF Delims
<1>2. N = 0
  BY <1>1, FS_EmptySet
<1>3. w \in Seq(Seq(Vocab)) /\ Len(w) = N + 1 /\ w[N + 1] = Token(t, d, L + 1)
  BY SplitShape
<1>4. Len(w) = 1 /\ w[1] = Token(t, d, L + 1)
  <2>. HIDE DEF N, w, L
  <2>. QED  BY <1>2, <1>3
<1>5. L \in Nat
  OBVIOUS
<1>6. LastBelow(at, L + 1) = 0
  <2>1. 0 \in Nat /\ {} \in SUBSET (1..0) /\ L + 1 \in Nat
    BY <1>5
  <2>2. 0 \in {0} \cup {j \in {} : j < L + 1} /\ \A j \in {} : j < L + 1 => j <= 0
    OBVIOUS
  <2>3. LastBelow({}, L + 1) = 0
    <3>. HIDE DEF L
    <3>. QED  BY <2>1, <2>2, LastBelowIs
  <2>. QED  BY <1>1, <2>3
<1>7. Token(t, d, L + 1) = t
  <2>. DEFINE k == L + 1
  <2>1. k - 1 = L /\ LastBelow(Delims(t, d), k) = 0
    BY <1>5, <1>6
  <2>. HIDE DEF k
  <2>2. Token(t, d, k) = SubSeq(t, 1, L)
    BY <2>1 DEF Token
  <2>3. SubSeq(t, 1, L) = t
    BY SubSeqFull
  <2>. QED  BY <2>2, <2>3 DEF k
<1>. HIDE DEF w, L
<1>8. /\ <<t>> \in Seq(Seq(Vocab)) /\ Len(<<t>>) = 1 /\ <<t>>[1] = t
  <2>1. <<t>> \in Seq(Seq(Vocab))
    BY SingleSeq
  <2>. QED  BY <2>1
<1>9. w = <<t>>
  <2>1. \A i \in 1..Len(w) : w[i] = <<t>>[i]
    <3>1. \A i \in 1..Len(w) : i = 1
      BY <1>4
    <3>. QED  BY <1>4, <1>7, <1>8, <3>1
  <2>2. Len(w) = Len(<<t>>)
    BY <1>4, <1>8
  <2>. QED  BY <1>3, <1>8, <2>1, <2>2, SeqEqual
<1>. QED  BY <1>9 DEF w

\* What join_str puts together: the tokens and the delimiters between them.
Blocks(tokens, d) ==
    [i \in 1..2 * Len(tokens) - 1 |-> IF i % 2 = 1 THEN tokens[(i + 1) \div 2] ELSE <<d>>]

LEMMA BlocksShape ==
    ASSUME NEW tokens \in Seq(Seq(Vocab)), tokens # <<>>, NEW d \in Vocab
    PROVE  /\ Blocks(tokens, d) \in Seq(Seq(Vocab))
           /\ Len(Blocks(tokens, d)) = 2 * Len(tokens) - 1
           /\ \A i \in 1..2 * Len(tokens) - 1 :
                Blocks(tokens, d)[i] = IF i % 2 = 1 THEN tokens[(i + 1) \div 2] ELSE <<d>>
<1>. DEFINE n == 2 * Len(tokens) - 1
            e(i) == IF i % 2 = 1 THEN tokens[(i + 1) \div 2] ELSE <<d>>
<1>1. n \in Nat
  OBVIOUS
<1>2. ASSUME NEW i \in 1..n PROVE e(i) \in Seq(Vocab)
  <2>1. <<d>> \in Seq(Vocab)
    BY SingleSeq
  <2>2. (i + 1) \div 2 \in 1..Len(tokens)
    OBVIOUS
  <2>3. tokens[(i + 1) \div 2] \in Seq(Vocab)
    BY <2>2, ElementOfSeq
  <2>. QED  BY <2>1, <2>3
<1>3. Blocks(tokens, d) = [i \in 1..n |-> e(i)]
  BY DEF Blocks
<1>. HIDE DEF n, e
<1>4. /\ Blocks(tokens, d) \in Seq(Seq(Vocab)) /\ Len(Blocks(tokens, d)) = n
      /\ \A i \in 1..n : Blocks(tokens, d)[i] = e(i)
  BY <1>1, <1>2, <1>3
<1>. QED  BY <1>4 DEF n, e

LEMMA JoinIs ==
    ASSUME NEW tokens \in Seq(Seq(Vocab)), tokens # <<>>, NEW d \in Vocab
    PROVE  Join(tokens, d) = FlattenSeq(Blocks(tokens, d)) /\ Join(tokens, d) \in Seq(Vocab)
<1>1. Join(tokens, d) = FlattenSeq(Blocks(tokens, d))
  BY DEF Join, Blocks
<1>2. Blocks(tokens, d) \in Seq(Seq(Vocab))
  BY BlocksShape
<1>. QED  BY <1>1, <1>2, FlattenType

LEMMA JoinOne ==
    ASSUME NEW t \in Seq(Vocab), NEW d \in Vocab
    PROVE  Join(<<t>>, d) = t
<1>1. <<t>> \in Seq(Seq(Vocab)) /\ <<t>> # <<>> /\ Len(<<t>>) = 1 /\ <<t>>[1] = t
  <2>1. <<t>> \in Seq(Seq(Vocab))
    BY SingleSeq
  <2>. QED  BY <2>1
<1>. DEFINE B == Blocks(<<t>>, d)
<1>2. /\ B \in Seq(Seq(Vocab)) /\ Len(B) = 2 * Len(<<t>>) - 1
      /\ \A i \in 1..2 * Len(<<t>>) - 1 : B[i] = IF i % 2 = 1 THEN <<t>>[(i + 1) \div 2] ELSE <<d>>
  BY <1>1, BlocksShape
<1>. HIDE DEF B
<1>3. Len(B) = 1 /\ B[1] = t
  <2>1. 2 * Len(<<t>>) - 1 = 1 /\ 1 \in 1..1 /\ 1 % 2 = 1 /\ (1 + 1) \div 2 = 1
    BY <1>1
  <2>. QED  BY <1>1, <1>2, <2>1
<1>4. B = <<t>>
  <2>1. \A i \in 1..Len(B) : B[i] = <<t>>[i]
    <3>1. \A i \in 1..Len(B) : i = 1
      BY <1>3
    <3>. QED  BY <1>1, <1>3, <3>1
  <2>2. Len(B) = Len(<<t>>)
    BY <1>1, <1>3
  <2>. QED  BY <1>1, <1>2, <2>1, <2>2, SeqEqual
<1>5. Join(<<t>>, d) = FlattenSeq(B)
  BY <1>1, JoinIs DEF B
<1>. QED  BY <1>4, <1>5, FlattenOne

LEMMA JoinCons ==
    ASSUME NEW t \in Seq(Vocab), NEW ts \in Seq(Seq(Vocab)), ts # <<>>, NEW d \in Vocab
    PROVE  Join(<<t>> \o ts, d) = t \o <<d>> \o Join(ts, d)
<1>. DEFINE n == Len(ts)
            all == <<t>> \o ts
            B == Blocks(ts, d)
            A == Blocks(all, d)
            one == <<<<d>>>> \o B
            two == <<t>> \o one
            L == 2 * n + 1
<1>1. <<t>> \in Seq(Seq(Vocab)) /\ Len(<<t>>) = 1 /\ <<t>>[1] = t
  <2>1. <<t>> \in Seq(Seq(Vocab))
    BY SingleSeq
  <2>. QED  BY <2>1
<1>2. n \in Nat /\ n > 0
  OBVIOUS
<1>. HIDE DEF n
<1>3. /\ all \in Seq(Seq(Vocab)) /\ Len(all) = n + 1 /\ all # <<>>
      /\ all[1] = t /\ \A i \in 1..n : all[i + 1] = ts[i]
  <2>1. /\ all \in Seq(Seq(Vocab)) /\ Len(all) = Len(<<t>>) + Len(ts)
        /\ \A i \in 1..Len(<<t>>) + Len(ts) :
             all[i] = IF i <= Len(<<t>>) THEN <<t>>[i] ELSE ts[i - Len(<<t>>)]
    BY <1>1, ConcatProperties
  <2>. HIDE DEF all
  <2>2. Len(all) = n + 1 /\ \A i \in 1..n + 1 : all[i] = IF i <= 1 THEN <<t>>[i] ELSE ts[i - 1]
    BY <1>1, <1>2, <2>1 DEF n
  <2>3. all[1] = t
    BY <1>1, <1>2, <2>2
  <2>4. ASSUME NEW i \in 1..n PROVE all[i + 1] = ts[i]
    <3>1. i + 1 \in 1..n + 1 /\ ~(i + 1 <= 1) /\ i + 1 - 1 = i
      BY <1>2
    <3>. QED  BY <2>2, <3>1
  <2>5. all # <<>>
    BY <1>2, <2>2
  <2>. QED  BY <2>1, <2>2, <2>3, <2>4, <2>5
<1>. HIDE DEF all
<1>4. /\ B \in Seq(Seq(Vocab)) /\ Len(B) = 2 * n - 1
      /\ \A i \in 1..2 * n - 1 : B[i] = IF i % 2 = 1 THEN ts[(i + 1) \div 2] ELSE <<d>>
  BY BlocksShape DEF n
<1>5. /\ A \in Seq(Seq(Vocab)) /\ Len(A) = 2 * Len(all) - 1
      /\ \A i \in 1..2 * Len(all) - 1 : A[i] = IF i % 2 = 1 THEN all[(i + 1) \div 2] ELSE <<d>>
  BY <1>3, BlocksShape
<1>6. Len(A) = L /\ 2 * Len(all) - 1 = L
  BY <1>2, <1>3, <1>5
<1>. HIDE DEF A, B
<1>7. <<d>> \in Seq(Vocab) /\ <<<<d>>>> \in Seq(Seq(Vocab))
  <2>1. <<d>> \in Seq(Vocab)
    BY SingleSeq
  <2>. QED  BY <2>1, SingleSeq
<1>8. /\ one \in Seq(Seq(Vocab)) /\ Len(one) = 2 * n
      /\ one[1] = <<d>> /\ \A i \in 1..2 * n - 1 : one[i + 1] = B[i]
  <2>. DEFINE D == <<<<d>>>>
  <2>1. Len(D) = 1 /\ D[1] = <<d>>
    OBVIOUS
  <2>2. D \in Seq(Seq(Vocab))
    BY <1>7
  <2>. HIDE DEF D
  <2>3. /\ D \o B \in Seq(Seq(Vocab)) /\ Len(D \o B) = Len(D) + Len(B)
        /\ \A i \in 1..Len(D) + Len(B) : (D \o B)[i] = IF i <= Len(D) THEN D[i] ELSE B[i - Len(D)]
    BY <1>4, <2>2, ConcatProperties
  <2>. DEFINE o == D \o B
  <2>. HIDE DEF o
  <2>4. Len(o) = 2 * n /\ \A i \in 1..2 * n : o[i] = IF i <= 1 THEN D[i] ELSE B[i - 1]
    <3>1. Len(D) + Len(B) = 2 * n
      BY <1>2, <1>4, <2>1
    <3>. QED  BY <2>1, <2>3, <3>1 DEF o
  <2>5. o[1] = <<d>>
    <3>1. 1 \in 1..2 * n /\ 1 <= 1
      BY <1>2
    <3>. QED  BY <2>1, <2>4, <3>1
  <2>6. ASSUME NEW i \in 1..2 * n - 1 PROVE o[i + 1] = B[i]
    <3>1. i + 1 \in 1..2 * n /\ ~(i + 1 <= 1) /\ i + 1 - 1 = i
      BY <1>2
    <3>. QED  BY <2>4, <3>1
  <2>. QED  BY <2>3, <2>4, <2>5, <2>6 DEF o, D
<1>. HIDE DEF one
<1>9. /\ two \in Seq(Seq(Vocab)) /\ Len(two) = L
      /\ two[1] = t /\ \A i \in 1..2 * n : two[i + 1] = one[i]
  <2>1. /\ two \in Seq(Seq(Vocab)) /\ Len(two) = Len(<<t>>) + Len(one)
        /\ \A i \in 1..Len(<<t>>) + Len(one) :
             two[i] = IF i <= Len(<<t>>) THEN <<t>>[i] ELSE one[i - Len(<<t>>)]
    BY <1>1, <1>8, ConcatProperties
  <2>. HIDE DEF two
  <2>2. Len(two) = L /\ \A i \in 1..L : two[i] = IF i <= 1 THEN <<t>>[i] ELSE one[i - 1]
    <3>1. Len(<<t>>) + Len(one) = L
      BY <1>1, <1>2, <1>8
    <3>. QED  BY <1>1, <2>1, <3>1
  <2>3. two[1] = t
    BY <1>1, <1>2, <2>2
  <2>4. ASSUME NEW i \in 1..2 * n PROVE two[i + 1] = one[i]
    <3>1. i + 1 \in 1..L /\ ~(i + 1 <= 1) /\ i + 1 - 1 = i
      BY <1>2
    <3>. QED  BY <2>2, <3>1
  <2>. QED  BY <2>1, <2>2, <2>3, <2>4
<1>. HIDE DEF two
<1>10. ASSUME NEW i \in 1..L PROVE A[i] = two[i]
  <2>1. CASE i = 1
    <3>1. i % 2 = 1 /\ (i + 1) \div 2 = 1
      BY <2>1
    <3>2. A[i] = all[1]
      BY <1>5, <1>6, <3>1
    <3>. QED  BY <1>3, <1>9, <2>1, <3>2
  <2>2. CASE i = 2
    <3>1. i % 2 # 1 /\ i = 1 + 1 /\ 1 \in 1..2 * n
      BY <1>2, <2>2
    <3>2. A[i] = <<d>>
      BY <1>5, <1>6, <3>1
    <3>3. two[i] = one[1]
      BY <1>9, <3>1
    <3>. QED  BY <1>8, <3>2, <3>3
  <2>3. CASE i # 1 /\ i # 2
    <3>. DEFINE j == i - 2
    <3>1. /\ j \in 1..2 * n - 1 /\ j + 1 \in 1..2 * n /\ j + 1 + 1 = i
          /\ i % 2 = j % 2 /\ (i + 1) \div 2 = (j + 1) \div 2 + 1
          /\ (j + 1) \div 2 \in 1..n
      BY <1>2, <2>3
    <3>. HIDE DEF j
    <3>2. two[i] = B[j]
      <4>1. two[j + 1 + 1] = one[j + 1] /\ one[j + 1] = B[j]
        BY <1>8, <1>9, <3>1
      <4>. QED  BY <3>1, <4>1
    <3>3. A[i] = IF i % 2 = 1 THEN all[(i + 1) \div 2] ELSE <<d>>
      BY <1>5, <1>6
    <3>4. B[j] = IF j % 2 = 1 THEN ts[(j + 1) \div 2] ELSE <<d>>
      BY <1>4, <3>1
    <3>5. all[(j + 1) \div 2 + 1] = ts[(j + 1) \div 2]
      BY <1>3, <3>1
    <3>. QED  BY <3>1, <3>2, <3>3, <3>4, <3>5
  <2>. QED  BY <2>1, <2>2, <2>3
<1>11. A = two
  <2>1. \A i \in 1..Len(A) : A[i] = two[i]
    BY <1>6, <1>10
  <2>2. Len(A) = Len(two)
    BY <1>6, <1>9
  <2>. QED  BY <1>5, <1>9, <2>1, <2>2, SeqEqual
<1>12. Join(all, d) = FlattenSeq(A)
  BY <1>3, JoinIs DEF A
<1>13. Join(ts, d) = FlattenSeq(B) /\ Join(ts, d) \in Seq(Vocab)
  BY JoinIs DEF B
<1>14. FlattenSeq(two) = t \o FlattenSeq(one)
  BY <1>8, FlattenCons DEF two
<1>15. FlattenSeq(one) = <<d>> \o FlattenSeq(B)
  BY <1>4, <1>7, FlattenCons DEF one
<1>16. (t \o <<d>>) \o Join(ts, d) = t \o (<<d>> \o Join(ts, d))
  BY <1>7, <1>13, ConcatAssociative
<1>. QED  BY <1>11, <1>12, <1>13, <1>14, <1>15, <1>16 DEF all

\* No token has the delimiter in it.
Free(tokens, d) == \A k \in 1..Len(tokens) : \A i \in 1..Len(tokens[k]) : tokens[k][i] # d

\* utils.cpp:8-47: split_str undoes join_str, unless the delimiter is in a token.
THEOREM SplitUndoesJoin ==
    ASSUME NEW d \in Vocab, NEW tokens \in Seq(Seq(Vocab)), tokens # <<>>, Free(tokens, d)
    PROVE  Split(Join(tokens, d), d) = tokens
<1>. DEFINE Holds(s) == Split(Join(s, d), d) = s
            All == {s \in Seq(Seq(Vocab)) : s # <<>> /\ Free(s, d)}
            Bad == {n \in Nat : \E s \in All : Len(s) = n /\ ~Holds(s)}
<1>1. Bad = {}
  <2>. SUFFICES ASSUME Bad # {} PROVE FALSE
    OBVIOUS
  <2>. DEFINE n == Min(Bad)
  <2>1. Bad \subseteq Nat
    OBVIOUS
  <2>2. n \in Bad /\ \A y \in Bad : n <= y
    BY <2>1, LeastNat
  <2>. HIDE DEF n
  <2>3. PICK s \in All : Len(s) = n /\ ~Holds(s)
    BY <2>2
  <2>4. \A y \in Bad : n <= y
    BY <2>2
  <2>5. n \in Nat /\ n # 0 /\ s \in Seq(Seq(Vocab)) /\ s # <<>> /\ Free(s, d)
    BY <2>3
  <2>. DEFINE t == Head(s)
              rest == Tail(s)
  <2>6. /\ t \in Seq(Vocab) /\ rest \in Seq(Seq(Vocab)) /\ Len(rest) = n - 1
        /\ \A i \in 1..Len(rest) : rest[i] = s[i + 1]
    BY <2>3, <2>5, HeadTailProperties
  <2>7. t = s[1] /\ 1 \in 1..Len(s)
    BY <2>3, <2>5
  <2>8. s = <<t>> \o rest
    BY <2>5
  <2>. HIDE DEF t, rest, Holds
  <2>9. \A i \in 1..Len(t) : t[i] # d
    BY <2>5, <2>7 DEF Free
  <2>10. CASE rest = <<>>
    <3>1. s = <<t>>
      <4>1. <<t>> \in Seq(Seq(Vocab))
        BY <2>6, SingleSeq
      <4>. QED  BY <2>8, <2>10, <4>1, ConcatEmptySeq
    <3>2. Join(s, d) = t
      BY <2>6, <3>1, JoinOne
    <3>3. Split(t, d) = <<t>>
      BY <2>6, <2>9, SplitOne
    <3>. QED  BY <2>3, <3>1, <3>2, <3>3 DEF Holds
  <2>11. CASE rest # <<>>
    <3>1. Free(rest, d)
      <4>1. ASSUME NEW k \in 1..Len(rest) PROVE \A i \in 1..Len(rest[k]) : rest[k][i] # d
        <5>1. k + 1 \in 1..Len(s) /\ rest[k] = s[k + 1]
          BY <2>3, <2>5, <2>6
        <5>. QED  BY <2>5, <5>1 DEF Free
      <4>. QED  BY <4>1 DEF Free
    <3>2. rest \in All
      BY <2>6, <2>11, <3>1
    <3>. HIDE DEF All
    <3>3. n - 1 \in Nat /\ ~(n <= n - 1)
      BY <2>5
    <3>4. n - 1 \notin Bad
      BY <2>4, <3>3
    <3>5. Holds(rest)
      BY <2>6, <3>2, <3>3, <3>4
    <3>6. Join(rest, d) \in Seq(Vocab)
      BY <2>6, <2>11, JoinIs
    <3>7. Join(s, d) = t \o <<d>> \o Join(rest, d)
      BY <2>6, <2>8, <2>11, JoinCons
    <3>8. Split(t \o <<d>> \o Join(rest, d), d) = <<t>> \o Split(Join(rest, d), d)
      BY <2>6, <2>9, <3>6, SplitCons
    <3>. QED  BY <2>3, <2>8, <3>5, <3>7, <3>8 DEF Holds
  <2>. QED  BY <2>10, <2>11
<1>2. Len(tokens) \in Nat /\ tokens \in All
  OBVIOUS
<1>3. Holds(tokens)
  <2>. HIDE DEF Holds, All
  <2>. QED  BY <1>1, <1>2
<1>. QED  BY <1>3

LEMMA AtomsShape ==
    ASSUME NEW s \in Seq(Vocab)
    PROVE  /\ Atoms(s) \in Seq(Seq(Vocab)) /\ Len(Atoms(s)) = Len(s)
           /\ \A i \in 1..Len(s) : Atoms(s)[i] = <<s[i]>>
           /\ \A d : (\A i \in 1..Len(s) : s[i] # d) => Free(Atoms(s), d)
<1>. DEFINE n == Len(s)
            e(i) == <<s[i]>>
            A == Atoms(s)
<1>1. n \in Nat
  OBVIOUS
<1>2. ASSUME NEW i \in 1..n PROVE e(i) \in Seq(Vocab)
  BY ElementOfSeq, SingleSeq
<1>3. A = [i \in 1..n |-> e(i)]
  BY DEF Atoms
<1>. HIDE DEF n, e, A
<1>4. A \in Seq(Seq(Vocab)) /\ Len(A) = n /\ \A i \in 1..n : A[i] = e(i)
  BY <1>1, <1>2, <1>3
<1>5. \A i \in 1..n : A[i] = <<s[i]>>
  BY <1>4 DEF e
<1>6. ASSUME NEW d, \A i \in 1..n : s[i] # d PROVE Free(A, d)
  <2>1. ASSUME NEW k \in 1..Len(A), NEW i \in 1..Len(A[k]) PROVE A[k][i] # d
    <3>1. k \in 1..n /\ A[k] = <<s[k]>>
      BY <1>4, <1>5
    <3>2. i = 1
      BY <3>1
    <3>. QED  BY <1>6, <3>1, <3>2
  <2>. QED  BY <2>1 DEF Free
<1>. QED  BY <1>4, <1>5, <1>6 DEF n, A

LEMMA FlattenSingles == ASSUME NEW s \in Seq(Vocab) PROVE FlattenSeq(Atoms(s)) = s
<1>. DEFINE n == Len(s)
            A == Atoms(s)
            g == [i \in 1..n |-> SubSeq(s, 1, i)]
<1>1. A \in Seq(Seq(Vocab)) /\ Len(A) = n /\ \A i \in 1..n : A[i] = <<s[i]>>
  BY AtomsShape
<1>. HIDE DEF A
<1>2. CASE s = <<>>
  <2>1. A = <<>>
    BY <1>1, <1>2
  <2>. QED  BY <1>2, <2>1 DEF FlattenSeq, A
<1>3. CASE s # <<>>
  <2>1. n \in Nat /\ n > 0 /\ A # <<>>
    <3>1. n \in Nat /\ n > 0
      BY <1>3
    <3>. QED  BY <1>1, <3>1
  <2>2. ASSUME NEW i \in 1..n
        PROVE  SubSeq(s, 1, i) = IF i = 1 THEN A[i] ELSE SubSeq(s, 1, i - 1) \o A[i]
    <3>1. SubSeq(s, 1, i) = SubSeq(s, 1, i - 1) \o <<s[i]>>
      <4>1. 1 \in 1..Len(s) /\ i \in 1..Len(s)
        BY <2>1
      <4>. QED  BY <4>1, SubSeqRecursiveSecond
    <3>2. CASE i = 1
      <4>1. SubSeq(s, 1, 0) = <<>>
        OBVIOUS
      <4>2. s[1] \in Vocab /\ <<s[1]>> \in Seq(Vocab)
        BY <2>1, ElementOfSeq, SingleSeq
      <4>3. <<>> \o <<s[1]>> = <<s[1]>>
        BY <4>2, ConcatEmptySeq
      <4>. QED  BY <1>1, <3>1, <3>2, <4>1, <4>3
    <3>3. CASE i # 1
      BY <1>1, <3>1, <3>3
    <3>. QED  BY <3>2, <3>3
  <2>3. ASSUME NEW i \in 1..n PROVE SubSeq(s, 1, i) \in Seq(Vocab)
    <3>1. \A k \in 1..i : s[k] \in Vocab
      BY <2>1, ElementOfSeq
    <3>. QED  BY <3>1, SubSeqProperties
  <2>. HIDE DEF n
  <2>4. g \in [1..n -> Seq(Vocab)] /\ \A i \in 1..n : g[i] = SubSeq(s, 1, i)
    BY <2>3
  <2>. HIDE DEF g
  <2>5. \A i \in 1..n : g[i] = IF i = 1 THEN A[i] ELSE g[i - 1] \o A[i]
    <3>1. \A i \in 1..n : i # 1 => i - 1 \in 1..n
      BY <2>1
    <3>. QED  BY <2>2, <2>4, <3>1
  <2>6. FlattensUpTo(g, A, Len(A)) /\ g \in [1..Len(A) -> Seq(Vocab)]
    BY <1>1, <2>4, <2>5 DEF FlattensUpTo
  <2>7. FlattenSeq(A) = g[Len(A)]
    BY <1>1, <2>1, <2>6, FlattenIs
  <2>8. g[n] = SubSeq(s, 1, n) /\ SubSeq(s, 1, n) = s
    <3>1. n \in 1..n
      BY <2>1
    <3>2. SubSeq(s, 1, Len(s)) = s
      BY SubSeqFull
    <3>. QED  BY <2>4, <3>1, <3>2 DEF n
  <2>. QED  BY <1>1, <2>7, <2>8 DEF A
<1>. QED  BY <1>2, <1>3

LEMMA JoinAtoms ==
    ASSUME NEW s \in Seq(Vocab), s # <<>>, NEW d \in Vocab
    PROVE  /\ Join(Atoms(s), d) \in Seq(Vocab)
           /\ Len(Join(Atoms(s), d)) = 2 * Len(s) - 1
           /\ \A i \in 1..2 * Len(s) - 1 :
                Join(Atoms(s), d)[i] = IF i % 2 = 1 THEN s[(i + 1) \div 2] ELSE d
<1>. DEFINE n == Len(s)
            A == Atoms(s)
            B == Blocks(A, d)
            e(i) == IF i % 2 = 1 THEN s[(i + 1) \div 2] ELSE d
            x == [i \in 1..2 * n - 1 |-> e(i)]
<1>1. n \in Nat /\ n > 0
  OBVIOUS
<1>2. A \in Seq(Seq(Vocab)) /\ Len(A) = n /\ \A i \in 1..n : A[i] = <<s[i]>>
  BY AtomsShape
<1>3. \A i \in 1..2 * n - 1 : (i + 1) \div 2 \in 1..n
  BY <1>1
<1>4. \A i \in 1..2 * n - 1 : e(i) \in Vocab
  BY <1>3, ElementOfSeq
<1>. HIDE DEF A, e
<1>5. x \in Seq(Vocab) /\ Len(x) = 2 * n - 1 /\ \A i \in 1..2 * n - 1 : x[i] = e(i)
  <2>1. 2 * n - 1 \in Nat
    BY <1>1
  <2>. HIDE DEF n
  <2>. QED  BY <1>4, <2>1
<1>. HIDE DEF n, x
<1>6. A # <<>>
  BY <1>1, <1>2
<1>7. /\ B \in Seq(Seq(Vocab)) /\ Len(B) = 2 * n - 1
      /\ \A i \in 1..2 * n - 1 : B[i] = IF i % 2 = 1 THEN A[(i + 1) \div 2] ELSE <<d>>
  BY <1>2, <1>6, BlocksShape
<1>. HIDE DEF B
<1>8. Atoms(x) \in Seq(Seq(Vocab)) /\ Len(Atoms(x)) = Len(x)
      /\ \A i \in 1..Len(x) : Atoms(x)[i] = <<x[i]>>
  BY <1>5, AtomsShape
<1>9. B = Atoms(x)
  <2>1. ASSUME NEW i \in 1..Len(B) PROVE B[i] = Atoms(x)[i]
    <3>1. i \in 1..2 * n - 1 /\ i \in 1..Len(x)
      BY <1>5, <1>7
    <3>2. Atoms(x)[i] = <<e(i)>>
      BY <1>5, <1>8, <3>1
    <3>3. (i + 1) \div 2 \in 1..n
      BY <1>3, <3>1
    <3>4. B[i] = <<e(i)>>
      <4>1. CASE i % 2 = 1
        BY <1>2, <1>7, <3>1, <3>3, <4>1 DEF e
      <4>2. CASE i % 2 # 1
        BY <1>7, <3>1, <4>2 DEF e
      <4>. QED  BY <4>1, <4>2
    <3>. QED  BY <3>2, <3>4
  <2>2. Len(B) = Len(Atoms(x))
    BY <1>5, <1>7, <1>8
  <2>. QED  BY <1>7, <1>8, <2>1, <2>2, SeqEqual
<1>10. Join(A, d) = FlattenSeq(B)
  BY <1>2, <1>6, JoinIs DEF B
<1>11. Join(A, d) = x
  BY <1>5, <1>9, <1>10, FlattenSingles
<1>. QED  BY <1>5, <1>11 DEF A, n, e

\* A sequence, cut at one of its elements.
LEMMA CutAt ==
    ASSUME NEW T, NEW u \in Seq(T), NEW i \in 1..Len(u)
    PROVE  LET a == SubSeq(u, 1, i - 1)
               b == SubSeq(u, i + 1, Len(u)) IN
           /\ a \in Seq(T) /\ Len(a) = i - 1 /\ \A k \in 1..i - 1 : a[k] = u[k]
           /\ b \in Seq(T) /\ Len(b) = Len(u) - i /\ \A k \in 1..Len(u) - i : b[k] = u[i + k]
           /\ u = a \o <<u[i]>> \o b
<1>. DEFINE L == Len(u)
            a == SubSeq(u, 1, i - 1)
            b == SubSeq(u, i + 1, L)
<1>1. L \in Nat /\ i \in Nat /\ i > 0 /\ i <= L
  OBVIOUS
<1>2. u[i] \in T /\ <<u[i]>> \in Seq(T)
  BY ElementOfSeq, SingleSeq
<1>3. a \in Seq(T) /\ Len(a) = i - 1 /\ \A k \in 1..i - 1 : a[k] = u[k]
  <2>. DEFINE m == i - 1
  <2>1. m \in Nat /\ m - 1 + 1 = m /\ (1 <= m <=> m # 0)
    BY <1>1
  <2>2. \A k \in 1..m : u[k] \in T
    <3>1. \A k \in 1..m : k \in 1..Len(u)
      BY <1>1
    <3>. QED  BY <3>1, ElementOfSeq
  <2>. HIDE DEF m
  <2>3. /\ SubSeq(u, 1, m) \in Seq(T)
        /\ Len(SubSeq(u, 1, m)) = IF 1 <= m THEN m - 1 + 1 ELSE 0
        /\ \A k \in 1..m - 1 + 1 : SubSeq(u, 1, m)[k] = u[1 + k - 1]
    BY <2>1, <2>2, SubSeqProperties
  <2>4. \A k \in 1..m : 1 + k - 1 = k
    BY <2>1
  <2>. QED  BY <2>1, <2>3, <2>4 DEF m
<1>4. b \in Seq(T) /\ Len(b) = L - i /\ \A k \in 1..L - i : b[k] = u[i + k]
  <2>. DEFINE m == i + 1
  <2>1. m \in Nat /\ L - m + 1 = L - i /\ (m <= L <=> L - i # 0)
    BY <1>1
  <2>2. \A k \in m..L : u[k] \in T
    <3>1. \A k \in m..L : k \in 1..Len(u)
      BY <1>1
    <3>. QED  BY <3>1, ElementOfSeq
  <2>4. \A k \in 1..L - i : m + k - 1 = i + k
    BY <1>1
  <2>. HIDE DEF m, L
  <2>3. /\ SubSeq(u, m, L) \in Seq(T)
        /\ Len(SubSeq(u, m, L)) = IF m <= L THEN L - m + 1 ELSE 0
        /\ \A k \in 1..L - m + 1 : SubSeq(u, m, L)[k] = u[m + k - 1]
    BY <1>1, <2>1, <2>2, SubSeqProperties
  <2>. QED  BY <2>1, <2>3, <2>4 DEF m
<1>5. u = a \o <<u[i]>> \o b
  <2>1. SubSeq(u, 1, i) = a \o <<u[i]>>
    <3>1. 1 \in 1..Len(u) /\ i \in 1..Len(u)
      BY <1>1
    <3>. QED  BY <3>1, SubSeqRecursiveSecond
  <2>2. SubSeq(u, 1, i) \o b = SubSeq(u, 1, L)
    <3>1. 1 \in 1..Len(u) + 1 /\ i \in 1 - 1..Len(u) /\ L \in i..Len(u)
      BY <1>1
    <3>. QED  BY <3>1, ConcatAdjacentSubSeq
  <2>3. SubSeq(u, 1, L) = u
    BY SubSeqFull
  <2>. HIDE DEF a, b, L
  <2>. QED  BY <2>1, <2>2, <2>3
<1>. QED  BY <1>3, <1>4, <1>5

\* A token of one atom at the front of a text.
LEMMA SplitFirst ==
    ASSUME NEW u \in Seq(Vocab), NEW d \in Vocab, Len(u) >= 2, u[1] # d, u[2] = d
    PROVE  LET r == SubSeq(u, 3, Len(u)) IN
           /\ r \in Seq(Vocab) /\ Len(r) = Len(u) - 2
           /\ \A k \in 1..Len(u) - 2 : r[k] = u[k + 2]
           /\ Split(r, d) \in Seq(Seq(Vocab)) /\ Len(Split(r, d)) \in Nat \ {0}
           /\ Len(Split(u, d)) = Len(Split(r, d)) + 1
           /\ Split(u, d)[1] = <<u[1]>>
           /\ \A k \in 1..Len(Split(r, d)) : Split(u, d)[k + 1] = Split(r, d)[k]
<1>. DEFINE r == SubSeq(u, 3, Len(u))
            a == SubSeq(u, 1, 1)
            s == Split(r, d)
<1>1. Len(u) \in Nat /\ 2 \in 1..Len(u) /\ 1 \in 1..Len(u)
  OBVIOUS
<1>2. /\ r \in Seq(Vocab) /\ Len(r) = Len(u) - 2 /\ \A k \in 1..Len(u) - 2 : r[k] = u[2 + k]
      /\ u = a \o <<u[2]>> \o r
      /\ a \in Seq(Vocab) /\ Len(a) = 1 /\ a[1] = u[1]
  <2>. DEFINE b == SubSeq(u, 2 + 1, Len(u))
              c == SubSeq(u, 1, 2 - 1)
  <2>1. /\ c \in Seq(Vocab) /\ Len(c) = 2 - 1 /\ \A k \in 1..2 - 1 : c[k] = u[k]
        /\ b \in Seq(Vocab) /\ Len(b) = Len(u) - 2 /\ \A k \in 1..Len(u) - 2 : b[k] = u[2 + k]
        /\ u = c \o <<u[2]>> \o b
    BY <1>1, CutAt
  <2>2. b = r /\ c = a
    OBVIOUS
  <2>. HIDE DEF a, b, c, r
  <2>3. Len(c) = 1 /\ c[1] = u[1]
    BY <2>1
  <2>4. Len(a) = 1 /\ a[1] = u[1] /\ a \in Seq(Vocab)
    BY <2>1, <2>2, <2>3
  <2>5. r \in Seq(Vocab) /\ Len(r) = Len(u) - 2 /\ \A k \in 1..Len(u) - 2 : r[k] = u[2 + k]
    BY <2>1, <2>2
  <2>6. u = a \o <<u[2]>> \o r
    BY <2>1, <2>2
  <2>. QED  BY <2>4, <2>5, <2>6
<1>. HIDE DEF a, r
<1>3. Split(u, d) = <<a>> \o s
  <2>1. \A i \in 1..Len(a) : a[i] # d
    <3>1. \A i \in 1..Len(a) : i = 1
      BY <1>2
    <3>. QED  BY <1>2, <3>1
  <2>2. Split(a \o <<d>> \o r, d) = <<a>> \o Split(r, d)
    BY <1>2, <2>1, SplitCons
  <2>. QED  BY <1>2, <2>2
<1>4. s \in Seq(Seq(Vocab)) /\ Len(s) \in Nat \ {0}
  <2>. DEFINE N == Cardinality(Delims(r, d))
  <2>1. s \in Seq(Seq(Vocab)) /\ Len(s) = N + 1 /\ N \in Nat
    BY <1>2, SplitShape
  <2>. HIDE DEF N, s
  <2>. QED  BY <2>1
<1>. HIDE DEF s
<1>5. a = <<u[1]>>
  <2>1. u[1] \in Vocab
    BY <1>1, ElementOfSeq
  <2>2. <<u[1]>> \in Seq(Vocab) /\ Len(<<u[1]>>) = 1 /\ <<u[1]>>[1] = u[1]
    BY <2>1, SingleSeq
  <2>3. \A i \in 1..Len(a) : a[i] = <<u[1]>>[i]
    BY <1>2, <2>2
  <2>4. Len(a) = Len(<<u[1]>>)
    BY <1>2, <2>2
  <2>. QED  BY <1>2, <2>2, <2>3, <2>4, SeqEqual
<1>6. /\ Len(<<a>> \o s) = 1 + Len(s) /\ (<<a>> \o s)[1] = a
      /\ \A k \in 1..Len(s) : (<<a>> \o s)[k + 1] = s[k]
  <2>1. <<a>> \in Seq(Seq(Vocab)) /\ Len(<<a>>) = 1 /\ <<a>>[1] = a
    <3>1. <<a>> \in Seq(Seq(Vocab))
      BY <1>2, SingleSeq
    <3>. QED  BY <3>1
  <2>2. /\ Len(<<a>> \o s) = Len(<<a>>) + Len(s)
        /\ \A i \in 1..Len(<<a>>) + Len(s) :
             (<<a>> \o s)[i] = IF i <= Len(<<a>>) THEN <<a>>[i] ELSE s[i - Len(<<a>>)]
    BY <1>4, <2>1, ConcatProperties
  <2>. DEFINE v == <<a>> \o s
  <2>. HIDE DEF v
  <2>3. Len(v) = 1 + Len(s) /\ \A i \in 1..1 + Len(s) : v[i] = IF i <= 1 THEN <<a>>[i] ELSE s[i - 1]
    BY <2>1, <2>2 DEF v
  <2>4. v[1] = a
    <3>1. 1 \in 1..1 + Len(s) /\ 1 <= 1
      BY <1>4
    <3>. QED  BY <2>1, <2>3, <3>1
  <2>5. ASSUME NEW k \in 1..Len(s) PROVE v[k + 1] = s[k]
    <3>1. k + 1 \in 1..1 + Len(s) /\ ~(k + 1 <= 1) /\ k + 1 - 1 = k
      BY <1>4
    <3>. QED  BY <2>3, <3>1
  <2>. QED  BY <2>3, <2>4, <2>5 DEF v
<1>7. \A k \in 1..Len(u) - 2 : r[k] = u[k + 2]
  <2>1. \A k \in 1..Len(u) - 2 : 2 + k = k + 2
    BY <1>1
  <2>. QED  BY <1>2, <2>1
<1>8. Len(Split(u, d)) = Len(s) + 1
  <2>1. 1 + Len(s) = Len(s) + 1
    BY <1>4
  <2>. QED  BY <1>3, <1>6, <2>1
<1>9. Split(u, d)[1] = <<u[1]>> /\ \A k \in 1..Len(s) : Split(u, d)[k + 1] = s[k]
  BY <1>3, <1>5, <1>6
<1>. QED  BY <1>2, <1>4, <1>7, <1>8, <1>9 DEF r, s

\* The first token begins with the first atom.
LEMMA SplitHead ==
    ASSUME NEW u \in Seq(Vocab), NEW d \in Vocab, u # <<>>, u[1] # d
    PROVE  /\ Split(u, d)[1] \in Seq(Vocab) /\ Len(Split(u, d)[1]) > 0
           /\ Split(u, d)[1][1] = u[1]
<1>1. Len(u) \in Nat /\ Len(u) > 0
  OBVIOUS
<1>. DEFINE D == Delims(u, d)
<1>2. CASE D = {}
  <2>1. \A i \in 1..Len(u) : u[i] # d
    BY <1>2 DEF Delims
  <2>2. Split(u, d) = <<u>>
    BY <2>1, SplitOne
  <2>3. Split(u, d)[1] = u
    BY <2>2
  <2>. QED  BY <1>1, <2>3
<1>3. CASE D # {}
  <2>. DEFINE i == Min(D)
  <2>1. D \subseteq Nat
    <3>1. D \subseteq 1..Len(u)
      BY DEF Delims
    <3>. HIDE DEF D
    <3>. QED  BY <1>1, <3>1
  <2>. HIDE DEF D
  <2>2. i \in D /\ \A y \in D : i <= y
    BY <1>3, <2>1, LeastNat
  <2>. HIDE DEF i
  <2>3. i \in 1..Len(u) /\ u[i] = d
    BY <2>2 DEF D, Delims
  <2>. DEFINE a == SubSeq(u, 1, i - 1)
              b == SubSeq(u, i + 1, Len(u))
  <2>4. /\ a \in Seq(Vocab) /\ Len(a) = i - 1 /\ \A k \in 1..i - 1 : a[k] = u[k]
        /\ b \in Seq(Vocab) /\ u = a \o <<u[i]>> \o b
    BY <2>3, CutAt
  <2>. HIDE DEF a, b
  <2>5. i # 1
    BY <2>3
  <2>6. i - 1 \in Nat /\ i - 1 > 0 /\ 1 \in 1..i - 1
    BY <2>3, <2>5
  <2>7. ASSUME NEW k \in 1..Len(a) PROVE a[k] # d
    <3>1. k \in 1..i - 1 /\ k \in 1..Len(u) /\ ~(i <= k)
      BY <1>1, <2>3, <2>4
    <3>2. k \notin D
      BY <2>2, <3>1
    <3>. QED  BY <2>4, <3>1, <3>2 DEF D, Delims
  <2>8. Split(u, d) = <<a>> \o Split(b, d)
    <3>1. Split(a \o <<d>> \o b, d) = <<a>> \o Split(b, d)
      BY <2>4, <2>7, SplitCons
    <3>. QED  BY <2>3, <2>4, <3>1
  <2>9. Split(u, d)[1] = a
    <3>. DEFINE s == Split(b, d)
    <3>1. s \in Seq(Seq(Vocab))
      BY <2>4, SplitShape
    <3>. HIDE DEF s
    <3>2. <<a>> \in Seq(Seq(Vocab)) /\ Len(<<a>>) = 1 /\ <<a>>[1] = a
      <4>1. <<a>> \in Seq(Seq(Vocab))
        BY <2>4, SingleSeq
      <4>. QED  BY <4>1
    <3>3. \A k \in 1..Len(<<a>>) + Len(s) :
            (<<a>> \o s)[k] = IF k <= Len(<<a>>) THEN <<a>>[k] ELSE s[k - Len(<<a>>)]
      BY <3>1, <3>2, ConcatProperties
    <3>4. 1 \in 1..Len(<<a>>) + Len(s) /\ 1 <= Len(<<a>>)
      BY <3>1, <3>2
    <3>5. (<<a>> \o s)[1] = a
      BY <3>2, <3>3, <3>4
    <3>. QED  BY <2>8, <3>5 DEF s
  <2>. QED  BY <2>4, <2>6, <2>9
<1>. QED  BY <1>2, <1>3

----------------------------------------------------------------------------
(* The texts of the messages.                                              *)

Message == {Connect, Disconnect, AddNeighbors} \cup Requests \cup Responses

LEMMA AtomsGiven ==
    /\ Peer \in Vocab /\ Peer \notin Marks
    /\ Neighbors \in Seq(Vocab) /\ Neighbors # <<>>
    /\ \A i \in 1..Len(Neighbors) : Neighbors[i] \in Given
    /\ Hits \in Seq(Vocab) /\ Hits # <<>>
    /\ \A i \in 1..Len(Hits) : Hits[i] \in Given
    /\ \A w \in Word : w \in Given
    /\ \A x \in Given : x \in Vocab /\ x \notin Marks
    /\ \A s \in Asked \cup Asks :
         s \in Vocab /\ s \notin Marks /\ s \notin Fixed /\ s \notin Given
<1>1. /\ Peer \in Given /\ \A w \in Word : w \in Given
  BY DEF Given
<1>2. Neighbors \in Seq(Given) /\ Neighbors # <<>> /\ Hits \in Seq(Given) /\ Hits # <<>>
  BY StreamAssumption
<1>3. /\ \A i \in 1..Len(Neighbors) : Neighbors[i] \in Given
      /\ \A i \in 1..Len(Hits) : Hits[i] \in Given
  BY <1>2, ElementOfSeq
<1>4. \A x \in Given : x \in Vocab /\ x \notin Marks
  BY StreamAssumption DEF Vocab
<1>5. Given \subseteq Vocab
  BY <1>4
<1>6. Neighbors \in Seq(Vocab) /\ Hits \in Seq(Vocab)
  BY <1>2, <1>5, SeqMonotonic
<1>7. \A s \in Asked \cup Asks : s \in Vocab
  BY DEF Vocab
<1>8. \A s \in Asked \cup Asks : s \notin Marks /\ s \notin Fixed /\ s \notin Given
  BY StreamAssumption
<1>. QED  BY <1>1, <1>2, <1>3, <1>4, <1>6, <1>7, <1>8

\* The answers with a fourth token.
Carries(v, arg) == (v = "YES" /\ arg = Hits) \/ (v = "NO" /\ arg = <<"PROCESSED">>)

LEMMA MessageIs ==
    ASSUME NEW m \in Message
    PROVE  \/ m = Connect \/ m = Disconnect \/ m = AddNeighbors
           \/ \E s \in Asks, q \in {"F", "KW"}, w \in Word : m = Request(s, "1", q, w)
           \/ \E s \in Asked : m = Response(s, "NO", <<>>)
           \/ \E s \in Asked : \E v, arg : Carries(v, arg) /\ m = Response(s, v, arg)
BY DEF Message, Requests, Responses, Carries

LEMMA ConnectText ==
    /\ Text(Connect) = <<"CONNECT_", "C1", Underscore, Peer>>
    /\ Text(Disconnect) = <<"DISCONNECT">>
    /\ Text(AddNeighbors) = <<"DISCONNECT_ADDNBRS_">> \o Join(Atoms(Neighbors), Comma)
BY DEF Text, Connect, Disconnect, AddNeighbors

LEMMA RequestText ==
    ASSUME NEW s, NEW q, NEW w
    PROVE  Text(Request(s, "1", q, w)) = Join(Atoms(<<"SEARCH-REQ", s, "1", q, w>>), Underscore)
BY DEF Text, Request

LEMMA RefusalText ==
    ASSUME NEW s
    PROVE  Text(Response(s, "NO", <<>>)) = Join(Atoms(<<"SEARCH-RESP", s, "NO">>), Underscore)
BY DEF Text, Response

LEMMA AnswerText ==
    ASSUME NEW s, NEW v, NEW arg, arg # <<>>
    PROVE  Text(Response(s, v, arg)) = Join(Atoms(<<"SEARCH-RESP", s, v>>)
                                                \o <<Join(Atoms(arg), Comma)>>, Underscore)
BY DEF Text, Response

InFront(a, d, r) == <<a>> \o <<d>> \o r

LEMMA PairInFront ==
    ASSUME NEW a \in Vocab, NEW d \in Vocab, NEW r \in Seq(Vocab)
    PROVE  /\ InFront(a, d, r) \in Seq(Vocab) /\ Len(InFront(a, d, r)) = Len(r) + 2
           /\ InFront(a, d, r)[1] = a /\ InFront(a, d, r)[2] = d
           /\ \A k \in 1..Len(r) : InFront(a, d, r)[k + 2] = r[k]
<1>. DEFINE p == <<a>> \o <<d>>
            u == p \o r
<1>2. p \in Seq(Vocab) /\ Len(p) = 2 /\ p[1] = a /\ p[2] = d
  BY Pair
<1>. HIDE DEF p
<1>3. /\ u \in Seq(Vocab) /\ Len(u) = Len(p) + Len(r)
      /\ \A i \in 1..Len(p) + Len(r) : u[i] = IF i <= Len(p) THEN p[i] ELSE r[i - Len(p)]
  BY <1>2, ConcatProperties
<1>. HIDE DEF u
<1>4. Len(r) \in Nat
  OBVIOUS
<1>5. Len(u) = Len(r) + 2 /\ \A i \in 1..Len(r) + 2 : u[i] = IF i <= 2 THEN p[i] ELSE r[i - 2]
  <2>1. Len(p) + Len(r) = Len(r) + 2
    BY <1>2, <1>4
  <2>. QED  BY <1>2, <1>3, <2>1
<1>6. u[1] = a /\ u[2] = d
  <2>1. 1 \in 1..Len(r) + 2 /\ 2 \in 1..Len(r) + 2 /\ 1 <= 2 /\ 2 <= 2
    BY <1>4
  <2>. QED  BY <1>2, <1>5, <2>1
<1>7. ASSUME NEW k \in 1..Len(r) PROVE u[k + 2] = r[k]
  <2>1. k + 2 \in 1..Len(r) + 2 /\ ~(k + 2 <= 2) /\ k + 2 - 2 = k
    BY <1>4
  <2>. QED  BY <1>5, <2>1
<1>. QED  BY <1>3, <1>5, <1>6, <1>7 DEF u, p, InFront

LEMMA RequestShape ==
    ASSUME NEW s \in Vocab, NEW q \in Vocab, NEW w \in Vocab
    PROVE  LET u == Text(Request(s, "1", q, w)) IN
           /\ u \in Seq(Vocab) /\ Len(u) = 9
           /\ u[1] = "SEARCH-REQ" /\ u[2] = Underscore /\ u[3] = s /\ u[4] = Underscore /\ u[5] = "1"
           /\ u[6] = Underscore /\ u[7] = q /\ u[8] = Underscore /\ u[9] = w
<1>. DEFINE x == <<"SEARCH-REQ", s, "1", q, w>>
            u == Text(Request(s, "1", q, w))
<1>1. /\ x \in Seq(Vocab) /\ x # <<>> /\ Len(x) = 5
      /\ x[1] = "SEARCH-REQ" /\ x[2] = s /\ x[3] = "1" /\ x[4] = q /\ x[5] = w
  <2>1. x \in Seq(Vocab)
    BY Literals, Five
  <2>. QED  BY <2>1
<1>2. u = Join(Atoms(x), Underscore)
  BY RequestText
<1>. HIDE DEF x, u
<1>3. /\ u \in Seq(Vocab) /\ Len(u) = 2 * Len(x) - 1
      /\ \A i \in 1..2 * Len(x) - 1 : u[i] = IF i % 2 = 1 THEN x[(i + 1) \div 2] ELSE Underscore
  <2>. DEFINE j == Join(Atoms(x), Underscore)
  <2>1. Underscore \in Vocab
    BY Literals
  <2>2. /\ j \in Seq(Vocab) /\ Len(j) = 2 * Len(x) - 1
        /\ \A i \in 1..2 * Len(x) - 1 : j[i] = IF i % 2 = 1 THEN x[(i + 1) \div 2] ELSE Underscore
    BY <1>1, <2>1, JoinAtoms
  <2>. QED  BY <1>2, <2>2
<1>4. Len(u) = 9 /\ \A i \in 1..9 : u[i] = IF i % 2 = 1 THEN x[(i + 1) \div 2] ELSE Underscore
  <2>1. 2 * Len(x) - 1 = 9
    BY <1>1
  <2>. QED  BY <1>3, <2>1
<1>5. u[2] = Underscore /\ u[4] = Underscore /\ u[6] = Underscore /\ u[8] = Underscore
  <2>1. 2 \in 1..9 /\ 4 \in 1..9 /\ 6 \in 1..9 /\ 8 \in 1..9
    OBVIOUS
  <2>. QED  BY <1>4, <2>1, Halves
<1>6. u[1] = x[1] /\ u[3] = x[2] /\ u[5] = x[3] /\ u[7] = x[4] /\ u[9] = x[5]
  <2>1. 1 \in 1..9 /\ 3 \in 1..9 /\ 5 \in 1..9 /\ 7 \in 1..9 /\ 9 \in 1..9
    OBVIOUS
  <2>. QED  BY <1>4, <2>1, Halves
<1>. QED  BY <1>1, <1>3, <1>4, <1>5, <1>6 DEF u

LEMMA RefusalShape ==
    ASSUME NEW s \in Vocab
    PROVE  LET u == Text(Response(s, "NO", <<>>)) IN
           /\ u \in Seq(Vocab) /\ Len(u) = 5
           /\ u[1] = "SEARCH-RESP" /\ u[2] = Underscore /\ u[3] = s /\ u[4] = Underscore /\ u[5] = "NO"
<1>. DEFINE x == <<"SEARCH-RESP", s, "NO">>
            u == Text(Response(s, "NO", <<>>))
<1>1. /\ x \in Seq(Vocab) /\ x # <<>> /\ Len(x) = 3
      /\ x[1] = "SEARCH-RESP" /\ x[2] = s /\ x[3] = "NO"
  <2>1. x \in Seq(Vocab)
    BY Literals, Three
  <2>. QED  BY <2>1
<1>2. u = Join(Atoms(x), Underscore)
  BY RefusalText
<1>. HIDE DEF x, u
<1>3. /\ u \in Seq(Vocab) /\ Len(u) = 2 * Len(x) - 1
      /\ \A i \in 1..2 * Len(x) - 1 : u[i] = IF i % 2 = 1 THEN x[(i + 1) \div 2] ELSE Underscore
  <2>1. Underscore \in Vocab
    BY Literals
  <2>2. /\ Join(Atoms(x), Underscore) \in Seq(Vocab) /\ Len(Join(Atoms(x), Underscore)) = 2 * Len(x) - 1
        /\ \A i \in 1..2 * Len(x) - 1 :
             Join(Atoms(x), Underscore)[i] = IF i % 2 = 1 THEN x[(i + 1) \div 2] ELSE Underscore
    BY <1>1, <2>1, JoinAtoms
  <2>. QED  BY <1>2, <2>2
<1>4. Len(u) = 5 /\ \A i \in 1..5 : u[i] = IF i % 2 = 1 THEN x[(i + 1) \div 2] ELSE Underscore
  <2>1. 2 * Len(x) - 1 = 5
    BY <1>1
  <2>. QED  BY <1>3, <2>1
<1>5. u[2] = Underscore /\ u[4] = Underscore
  <2>1. 2 \in 1..5 /\ 4 \in 1..5
    OBVIOUS
  <2>. QED  BY <1>4, <2>1, Halves
<1>6. u[1] = x[1] /\ u[3] = x[2] /\ u[5] = x[3]
  <2>1. 1 \in 1..5 /\ 3 \in 1..5 /\ 5 \in 1..5
    OBVIOUS
  <2>. QED  BY <1>4, <2>1, Halves
<1>. QED  BY <1>1, <1>3, <1>4, <1>5, <1>6 DEF u

\* The hits or the neighbors, with commas between them.
LEMMA ListShape ==
    ASSUME NEW x \in Seq(Vocab), x # <<>>, \A i \in 1..Len(x) : x[i] \notin Marks
    PROVE  LET J == Join(Atoms(x), Comma) IN
           /\ J \in Seq(Vocab) /\ J # <<>>
           /\ \A i \in 1..Len(J) : J[i] = Comma \/ \E k \in 1..Len(x) : J[i] = x[k]
           /\ Split(J, Comma) = Atoms(x)
<1>. DEFINE J == Join(Atoms(x), Comma)
<1>1. Len(x) \in Nat /\ Len(x) > 0
  OBVIOUS
<1>2. /\ J \in Seq(Vocab) /\ Len(J) = 2 * Len(x) - 1
      /\ \A i \in 1..2 * Len(x) - 1 : J[i] = IF i % 2 = 1 THEN x[(i + 1) \div 2] ELSE Comma
  BY Literals, JoinAtoms
<1>3. Split(J, Comma) = Atoms(x)
  <2>1. Atoms(x) \in Seq(Seq(Vocab)) /\ Len(Atoms(x)) = Len(x)
    BY AtomsShape
  <2>2. Free(Atoms(x), Comma)
    <3>1. \A i \in 1..Len(x) : x[i] # Comma
      BY DEF Marks
    <3>. QED  BY <3>1, AtomsShape
  <2>3. Atoms(x) # <<>>
    BY <1>1, <2>1
  <2>. QED  BY <2>1, <2>2, <2>3, Literals, SplitUndoesJoin
<1>. HIDE DEF J
<1>4. J # <<>>
  <2>1. J \in Seq(Vocab) /\ Len(J) = 2 * Len(x) - 1
    BY <1>2
  <2>. QED  BY <1>1, <2>1
<1>5. ASSUME NEW i \in 1..Len(J) PROVE J[i] = Comma \/ \E k \in 1..Len(x) : J[i] = x[k]
  <2>2. Len(J) = 2 * Len(x) - 1
    BY <1>2
  <2>1. i \in 1..2 * Len(x) - 1 /\ (i + 1) \div 2 \in 1..Len(x)
    BY <1>1, <2>2
  <2>. QED  BY <1>2, <2>1
<1>. QED  BY <1>2, <1>3, <1>4, <1>5 DEF J

LEMMA CarriedIs ==
    ASSUME NEW v, NEW arg, Carries(v, arg)
    PROVE  /\ v \in Vocab /\ v # Underscore /\ v \in Fixed
           /\ arg \in Seq(Vocab) /\ arg # <<>>
           /\ \A i \in 1..Len(arg) : arg[i] \notin Marks /\ (arg[i] \in Given \/ arg[i] \in Fixed)
<1>1. CASE v = "YES" /\ arg = Hits
  <2>1. v \in Vocab /\ v # Underscore /\ v \in Fixed
    BY <1>1, Literals, DelimitersDiffer DEF Fixed
  <2>. QED  BY <1>1, <2>1, AtomsGiven
<1>2. CASE v = "NO" /\ arg = <<"PROCESSED">>
  <2>1. v \in Vocab /\ v # Underscore /\ v \in Fixed
    BY <1>2, Literals, DelimitersDiffer DEF Fixed
  <2>2. PICK x \in Vocab : x = "PROCESSED"
    BY Literals
  <2>3. x # Comma /\ x # Underscore /\ x \in Fixed
    BY <2>2, DelimitersDiffer DEF Fixed
  <2>4. x \notin Marks
    BY <2>2, <2>3 DEF Marks
  <2>5. arg \in Seq(Vocab) /\ arg # <<>> /\ \A i \in 1..Len(arg) : arg[i] = x
    BY <1>2, <2>2
  <2>. QED  BY <2>1, <2>3, <2>4, <2>5
<1>. QED  BY <1>1, <1>2 DEF Carries

LEMMA AnswerShape ==
    ASSUME NEW s \in Vocab, NEW v, NEW arg, Carries(v, arg)
    PROVE  LET u == Text(Response(s, v, arg))
               J == Join(Atoms(arg), Comma) IN
           /\ u \in Seq(Vocab) /\ Len(u) = Len(J) + 6
           /\ u[1] = "SEARCH-RESP" /\ u[2] = Underscore /\ u[3] = s /\ u[4] = Underscore /\ u[5] = v
           /\ u[6] = Underscore /\ \A k \in 1..Len(J) : u[k + 6] = J[k]
<1>0. PICK y \in Vocab, kw \in Vocab, d \in Vocab : y = v /\ kw = "SEARCH-RESP" /\ d = Underscore
  BY Literals, CarriedIs
<1>. DEFINE u == Text(Response(s, v, arg))
            J == Join(Atoms(arg), Comma)
            t1 == <<J>>
            t2 == <<<<y>>>> \o t1
            t3 == <<<<s>>>> \o t2
            t4 == <<<<kw>>>> \o t3
            j2 == InFront(y, d, J)
            j3 == InFront(s, d, j2)
            j4 == InFront(kw, d, j3)
<1>1. J \in Seq(Vocab)
  <2>1. arg \in Seq(Vocab) /\ arg # <<>> /\ \A i \in 1..Len(arg) : arg[i] \notin Marks
    BY CarriedIs
  <2>. QED  BY <2>1, ListShape
<1>. HIDE DEF J
<1>2. u = Join(t4, d)
  <2>1. Atoms(<<kw, s, y>>) = <<<<kw>>, <<s>>, <<y>>>>
    BY DEF Atoms
  <2>2. <<<<kw>>, <<s>>, <<y>>>> \o t1 = t4
    OBVIOUS
  <2>3. arg # <<>>
    BY CarriedIs
  <2>4. u = Join(Atoms(<<"SEARCH-RESP", s, v>>) \o <<Join(Atoms(arg), Comma)>>, Underscore)
    BY <2>3, AnswerText
  <2>. HIDE DEF u
  <2>. QED  BY <2>1, <2>2, <2>4, <1>0 DEF J
<1>3. t1 \in Seq(Seq(Vocab)) /\ t1 # <<>>
  <2>1. t1 \in Seq(Seq(Vocab))
    BY <1>1, SingleSeq
  <2>. QED  BY <2>1
<1>4. \A x \in Vocab : <<x>> \in Seq(Vocab)
  BY SingleSeq
<1>5. ASSUME NEW x \in Seq(Vocab), NEW ts \in Seq(Seq(Vocab))
      PROVE  <<x>> \o ts \in Seq(Seq(Vocab)) /\ <<x>> \o ts # <<>>
  <2>1. <<x>> \in Seq(Seq(Vocab)) /\ <<x>> # <<>>
    BY SingleSeq
  <2>. QED  BY <2>1, ConcatProperties, ConcatEqualIffEmpty
<1>6. Join(t1, d) = J
  BY <1>1, <1>0, JoinOne
<1>. HIDE DEF t1
<1>7. /\ t2 \in Seq(Seq(Vocab)) /\ t2 # <<>> /\ Join(t2, d) = j2
  <2>1. <<y>> \in Seq(Vocab)
    BY <1>4, <1>0
  <2>. QED  BY <1>3, <1>5, <1>6, <2>1, <1>0, JoinCons DEF InFront
<1>. HIDE DEF t2, j2
<1>8. /\ t3 \in Seq(Seq(Vocab)) /\ t3 # <<>> /\ Join(t3, d) = j3
  <2>1. <<s>> \in Seq(Vocab)
    BY <1>4
  <2>. QED  BY <1>5, <1>7, <2>1, <1>0, JoinCons DEF InFront
<1>. HIDE DEF t3, j3
<1>9. Join(t4, d) = j4
  <2>1. <<kw>> \in Seq(Vocab)
    BY <1>4, <1>0
  <2>. QED  BY <1>8, <2>1, <1>0, JoinCons DEF InFront
<1>. HIDE DEF t4, j4
<1>10. /\ j2 \in Seq(Vocab) /\ Len(j2) = Len(J) + 2 /\ j2[1] = y /\ j2[2] = d
       /\ \A k \in 1..Len(J) : j2[k + 2] = J[k]
  <2>. DEFINE f == InFront(y, d, J)
  <2>1. J \in Seq(Vocab)
    BY <1>1
  <2>2. /\ f \in Seq(Vocab) /\ Len(f) = Len(J) + 2 /\ f[1] = y /\ f[2] = d
        /\ \A k \in 1..Len(J) : f[k + 2] = J[k]
    BY <2>1, PairInFront
  <2>3. j2 = f
    BY DEF j2
  <2>. HIDE DEF f
  <2>. QED  BY <2>2, <2>3
<1>11. /\ j3 \in Seq(Vocab) /\ Len(j3) = Len(j2) + 2 /\ j3[1] = s /\ j3[2] = d
       /\ \A k \in 1..Len(j2) : j3[k + 2] = j2[k]
  <2>. DEFINE f == InFront(s, d, j2)
  <2>1. j2 \in Seq(Vocab)
    BY <1>10
  <2>2. /\ f \in Seq(Vocab) /\ Len(f) = Len(j2) + 2 /\ f[1] = s /\ f[2] = d
        /\ \A k \in 1..Len(j2) : f[k + 2] = j2[k]
    BY <2>1, PairInFront
  <2>3. j3 = f
    BY DEF j3
  <2>. HIDE DEF f
  <2>. QED  BY <2>2, <2>3
<1>12. /\ j4 \in Seq(Vocab) /\ Len(j4) = Len(j3) + 2 /\ j4[1] = kw /\ j4[2] = d
       /\ \A k \in 1..Len(j3) : j4[k + 2] = j3[k]
  <2>. DEFINE f == InFront(kw, d, j3)
  <2>1. j3 \in Seq(Vocab)
    BY <1>11
  <2>2. /\ f \in Seq(Vocab) /\ Len(f) = Len(j3) + 2 /\ f[1] = kw /\ f[2] = d
        /\ \A k \in 1..Len(j3) : f[k + 2] = j3[k]
    BY <2>1, PairInFront
  <2>3. j4 = f
    BY DEF j4
  <2>. HIDE DEF f
  <2>. QED  BY <2>2, <2>3
<1>13. Len(J) \in Nat /\ Len(j4) = Len(J) + 6
  <2>1. Len(J) \in Nat
    BY <1>1
  <2>2. Len(j2) = Len(J) + 2 /\ Len(j3) = Len(j2) + 2 /\ Len(j4) = Len(j3) + 2
    BY <1>10, <1>11, <1>12
  <2>. QED  BY <2>1, <2>2
<1>18. Len(j2) = Len(J) + 2 /\ Len(j3) = Len(J) + 4
  <2>2. Len(j2) = Len(J) + 2 /\ Len(j3) = Len(j2) + 2
    BY <1>10, <1>11
  <2>. QED  BY <1>13, <2>2
<1>19. Len(J) > 0
  <2>1. arg \in Seq(Vocab) /\ arg # <<>> /\ \A i \in 1..Len(arg) : arg[i] \notin Marks
    BY CarriedIs
  <2>2. J # <<>>
    BY <2>1, ListShape DEF J
  <2>. QED  BY <1>1, <2>2
<1>14. j4[3] = s /\ j4[4] = d
  <2>1. 1 \in 1..Len(j3) /\ 2 \in 1..Len(j3) /\ 1 + 2 = 3 /\ 2 + 2 = 4
    BY <1>13, <1>18
  <2>. QED  BY <1>11, <1>12, <2>1
<1>15. j4[5] = y /\ j4[6] = d
  <2>1. /\ 1 \in 1..Len(j2) /\ 2 \in 1..Len(j2) /\ 1 + 2 = 3 /\ 2 + 2 = 4
        /\ 3 \in 1..Len(j3) /\ 4 \in 1..Len(j3) /\ 3 + 2 = 5 /\ 4 + 2 = 6
    BY <1>13, <1>18
  <2>2. j3[3] = y /\ j3[4] = d
    BY <1>10, <1>11, <2>1
  <2>. QED  BY <1>12, <2>1, <2>2
<1>16. ASSUME NEW k \in 1..Len(J) PROVE j4[k + 6] = J[k]
  <2>1. /\ k + 2 \in 1..Len(j2) /\ k + 2 + 2 \in 1..Len(j3)
        /\ k + 2 + 2 + 2 = k + 6
    BY <1>13, <1>18
  <2>2. j2[k + 2] = J[k]
    BY <1>10
  <2>3. j3[k + 2 + 2] = j2[k + 2]
    BY <1>11, <2>1
  <2>4. j4[k + 2 + 2 + 2] = j3[k + 2 + 2]
    BY <1>12, <2>1
  <2>. QED  BY <2>1, <2>2, <2>3, <2>4
<1>17. u = j4
  BY <1>2, <1>9
<1>. HIDE DEF u
<1>. QED  BY <1>12, <1>13, <1>14, <1>15, <1>16, <1>17, <1>0 DEF u, J

(* The texts of all messages.                                              *)

Plain(x) == x = Underscore \/ x = Comma \/ x \in Fixed \/ x \in Given

\* A keyword or an id in a text shows which message it is, and where in it.
Telling(m, u) == \A k \in 1..Len(u) :
    \/ Plain(u[k])
    \/ k = 1 /\ u[k] = "CONNECT_" /\ m.type = "CONNECT"
    \/ k = 1 /\ u[k] = "DISCONNECT_ADDNBRS_" /\ m.type = "ADDNBRS"
    \/ k = 1 /\ u[k] = "SEARCH-REQ" /\ m.type = "REQ"
    \/ k = 1 /\ u[k] = "SEARCH-RESP" /\ m.type = "RESP"
    \/ k = 3 /\ u[k] \in Asked \cup Asks /\ m.type \in {"REQ", "RESP"} /\ u[k] = m.sid

LEMMA PlainLiterals ==
    /\ Plain(Underscore) /\ Plain(Comma) /\ Plain("1") /\ Plain("F") /\ Plain("YES") /\ Plain("NO")
    /\ Plain("C1") /\ Plain("DISCONNECT") /\ Plain("KW") /\ Plain("PROCESSED")
    /\ \A x \in Given : Plain(x)
BY DEF Plain, Fixed

LEMMA RequestTells ==
    ASSUME NEW s \in Asks, NEW q \in {"F", "KW"}, NEW w \in Word
    PROVE  LET m == Request(s, "1", q, w) IN Telling(m, Text(m))
<1>. DEFINE m == Request(s, "1", q, w)
            u == Text(m)
<1>1. s \in Vocab /\ w \in Vocab /\ w \in Given /\ q \in Vocab /\ Plain(q)
  BY AtomsGiven, Literals, PlainLiterals
<1>2. /\ u \in Seq(Vocab) /\ Len(u) = 9
      /\ u[1] = "SEARCH-REQ" /\ u[2] = Underscore /\ u[3] = s /\ u[4] = Underscore /\ u[5] = "1"
      /\ u[6] = Underscore /\ u[7] = q /\ u[8] = Underscore /\ u[9] = w
  BY <1>1, RequestShape
<1>3. m.type = "REQ" /\ m.sid = s
  BY DEF Request
<1>. HIDE DEF m, u
<1>4. /\ Plain(u[2]) /\ Plain(u[4]) /\ Plain(u[5]) /\ Plain(u[6]) /\ Plain(u[7])
      /\ Plain(u[8]) /\ Plain(u[9])
  BY <1>1, <1>2, PlainLiterals
<1>5. \A k \in 1..9 : k = 1 \/ k = 2 \/ k = 3 \/ k = 4 \/ k = 5 \/ k = 6 \/ k = 7 \/ k = 8 \/ k = 9
  OBVIOUS
<1>6. Telling(m, u)
  <2>. SUFFICES ASSUME NEW k \in 1..Len(u), k # 1, k # 3 PROVE Plain(u[k])
    BY <1>2, <1>3 DEF Telling
  <2>. QED  BY <1>2, <1>4, <1>5
<1>. QED  BY <1>6 DEF m, u

LEMMA RefusalTells ==
    ASSUME NEW s \in Asked
    PROVE  LET m == Response(s, "NO", <<>>) IN Telling(m, Text(m))
<1>. DEFINE m == Response(s, "NO", <<>>)
            u == Text(m)
<1>1. s \in Vocab
  BY AtomsGiven
<1>2. /\ u \in Seq(Vocab) /\ Len(u) = 5
      /\ u[1] = "SEARCH-RESP" /\ u[2] = Underscore /\ u[3] = s /\ u[4] = Underscore /\ u[5] = "NO"
  BY <1>1, RefusalShape
<1>3. m.type = "RESP" /\ m.sid = s
  BY DEF Response
<1>. HIDE DEF m, u
<1>4. Plain(u[2]) /\ Plain(u[4]) /\ Plain(u[5])
  BY <1>2, PlainLiterals
<1>5. \A k \in 1..5 : k = 1 \/ k = 2 \/ k = 3 \/ k = 4 \/ k = 5
  OBVIOUS
<1>6. Telling(m, u)
  <2>. SUFFICES ASSUME NEW k \in 1..Len(u), k # 1, k # 3 PROVE Plain(u[k])
    BY <1>2, <1>3 DEF Telling
  <2>. QED  BY <1>2, <1>4, <1>5
<1>. QED  BY <1>6 DEF m, u

LEMMA AnswerTells ==
    ASSUME NEW s \in Asked, NEW v, NEW arg, Carries(v, arg)
    PROVE  LET m == Response(s, v, arg) IN Telling(m, Text(m))
<1>. DEFINE m == Response(s, v, arg)
            u == Text(m)
            J == Join(Atoms(arg), Comma)
<1>1. /\ s \in Vocab /\ arg \in Seq(Vocab) /\ arg # <<>>
      /\ \A i \in 1..Len(arg) : arg[i] \notin Marks /\ (arg[i] \in Given \/ arg[i] \in Fixed)
  BY AtomsGiven, CarriedIs
<1>2. /\ u \in Seq(Vocab) /\ Len(u) = Len(J) + 6
      /\ u[1] = "SEARCH-RESP" /\ u[2] = Underscore /\ u[3] = s /\ u[4] = Underscore /\ u[5] = v
      /\ u[6] = Underscore /\ \A k \in 1..Len(J) : u[k + 6] = J[k]
  BY <1>1, AnswerShape
<1>3. m.type = "RESP" /\ m.sid = s
  BY DEF Response
<1>4. J \in Seq(Vocab) /\ \A i \in 1..Len(J) : J[i] = Comma \/ \E k \in 1..Len(arg) : J[i] = arg[k]
  BY <1>1, ListShape
<1>. HIDE DEF m, u, J
<1>5. \A i \in 1..Len(J) : Plain(J[i])
  BY <1>1, <1>4 DEF Plain
<1>6. Plain(u[2]) /\ Plain(u[4]) /\ Plain(u[5]) /\ Plain(u[6])
  <2>1. Plain(v)
    BY CarriedIs DEF Plain
  <2>. QED  BY <1>2, <2>1, PlainLiterals
<1>7. Telling(m, u)
  <2>. SUFFICES ASSUME NEW k \in 1..Len(u), k # 1, k # 3 PROVE Plain(u[k])
    BY <1>2, <1>3 DEF Telling
  <2>1. Len(J) \in Nat /\ k \in 1..Len(J) + 6
    BY <1>2, <1>4
  <2>2. k = 2 \/ k = 4 \/ k = 5 \/ k = 6 \/ (k - 6 \in 1..Len(J) /\ k - 6 + 6 = k)
    BY <2>1
  <2>. QED  BY <1>2, <1>5, <1>6, <2>2
<1>. QED  BY <1>7 DEF m, u

LEMMA ConnectTells ==
    LET m == Connect IN
    /\ Telling(m, Text(m)) /\ Text(m) \in Seq(Vocab) /\ Len(Text(m)) = 4
    /\ Text(m)[1] = "CONNECT_" /\ Text(m)[2] = "C1" /\ Text(m)[3] = Underscore /\ Text(m)[4] = Peer
<1>. DEFINE m == Connect
            u == Text(m)
<1>1. Peer \in Vocab /\ Peer \in Given
  BY AtomsGiven DEF Given
<1>2. u = <<"CONNECT_", "C1", Underscore, Peer>>
  BY ConnectText
<1>3. Len(u) = 4 /\ u[1] = "CONNECT_" /\ u[2] = "C1" /\ u[3] = Underscore /\ u[4] = Peer
  BY <1>2
<1>4. u \in Seq(Vocab)
  BY <1>1, <1>2, Literals
<1>5. m.type = "CONNECT"
  BY DEF Connect
<1>. HIDE DEF m, u
<1>6. Plain(u[2]) /\ Plain(u[3]) /\ Plain(u[4])
  BY <1>1, <1>3, PlainLiterals
<1>7. Telling(m, u)
  <2>. SUFFICES ASSUME NEW k \in 1..Len(u), k # 1 PROVE Plain(u[k])
    BY <1>3, <1>5 DEF Telling
  <2>1. k = 2 \/ k = 3 \/ k = 4
    BY <1>3
  <2>. QED  BY <1>6, <2>1
<1>. QED  BY <1>3, <1>4, <1>7 DEF m, u

LEMMA DisconnectTells ==
    LET m == Disconnect IN
    /\ Telling(m, Text(m)) /\ Text(m) \in Seq(Vocab) /\ Len(Text(m)) = 1
    /\ Text(m)[1] = "DISCONNECT" /\ Text(m) = <<"DISCONNECT">>
<1>. DEFINE m == Disconnect
            u == Text(m)
<1>1. u = <<"DISCONNECT">>
  BY ConnectText
<1>2. Len(u) = 1 /\ u[1] = "DISCONNECT"
  BY <1>1
<1>3. u \in Seq(Vocab)
  BY <1>1, Literals, SingleSeq
<1>. HIDE DEF m, u
<1>4. Telling(m, u)
  <2>. SUFFICES ASSUME NEW k \in 1..Len(u) PROVE Plain(u[k])
    BY DEF Telling
  <2>1. k = 1
    BY <1>2
  <2>. QED  BY <1>2, <2>1, PlainLiterals
<1>. QED  BY <1>1, <1>2, <1>3, <1>4 DEF m, u

LEMMA AddNeighborsTells ==
    LET m == AddNeighbors
        J == Join(Atoms(Neighbors), Comma) IN
    /\ Telling(m, Text(m)) /\ Text(m) \in Seq(Vocab) /\ Len(Text(m)) > 0
    /\ Text(m)[1] = "DISCONNECT_ADDNBRS_" /\ Tail(Text(m)) = J /\ J # <<>>
<1>. DEFINE m == AddNeighbors
            u == Text(m)
            J == Join(Atoms(Neighbors), Comma)
<1>1. /\ Neighbors \in Seq(Vocab) /\ Neighbors # <<>>
      /\ \A i \in 1..Len(Neighbors) : Neighbors[i] \in Given /\ Neighbors[i] \notin Marks
  BY AtomsGiven
<1>2. PICK kw \in Vocab : kw = "DISCONNECT_ADDNBRS_"
  BY Literals
<1>3. u = <<kw>> \o J
  BY <1>2, ConnectText
<1>4. m.type = "ADDNBRS"
  BY DEF AddNeighbors
<1>5. /\ J \in Seq(Vocab) /\ J # <<>>
      /\ \A i \in 1..Len(J) : J[i] = Comma \/ \E k \in 1..Len(Neighbors) : J[i] = Neighbors[k]
  BY <1>1, ListShape
<1>. HIDE DEF m, u, J
<1>6. \A i \in 1..Len(J) : Plain(J[i])
  BY <1>1, <1>5, PlainLiterals
<1>7. /\ <<kw>> \in Seq(Vocab) /\ Len(<<kw>>) = 1 /\ <<kw>>[1] = kw /\ Len(J) \in Nat
  BY <1>5, SingleSeq
<1>8. /\ u \in Seq(Vocab) /\ Len(u) = Len(J) + 1 /\ u[1] = kw
      /\ \A k \in 1..Len(J) : u[k + 1] = J[k]
  <2>. DEFINE p == <<kw>>
  <2>0. p \in Seq(Vocab) /\ Len(p) = 1 /\ p[1] = kw
    BY <1>7
  <2>. HIDE DEF p
  <2>1. /\ p \o J \in Seq(Vocab) /\ Len(p \o J) = Len(p) + Len(J)
        /\ \A i \in 1..Len(p) + Len(J) :
             (p \o J)[i] = IF i <= Len(p) THEN p[i] ELSE J[i - Len(p)]
    BY <1>5, <2>0, ConcatProperties
  <2>2. u = p \o J
    BY <1>3 DEF p
  <2>3. u \in Seq(Vocab) /\ Len(u) = Len(p) + Len(J)
        /\ \A i \in 1..Len(p) + Len(J) : u[i] = IF i <= Len(p) THEN p[i] ELSE J[i - Len(p)]
    BY <2>1, <2>2
  <2>4. Len(u) = Len(J) + 1 /\ \A i \in 1..Len(J) + 1 : u[i] = IF i <= 1 THEN p[i] ELSE J[i - 1]
    <3>1. Len(p) + Len(J) = Len(J) + 1
      BY <1>7, <2>0
    <3>. QED  BY <2>0, <2>3, <3>1
  <2>5. 1 \in 1..Len(J) + 1 /\ \A k \in 1..Len(J) : k + 1 \in 1..Len(J) + 1 /\ ~(k + 1 <= 1) /\ k + 1 - 1 = k
    BY <1>7
  <2>6. u[1] = kw
    BY <2>0, <2>4, <2>5
  <2>7. ASSUME NEW k \in 1..Len(J) PROVE u[k + 1] = J[k]
    BY <2>4, <2>5
  <2>. QED  BY <2>3, <2>4, <2>6, <2>7
<1>9. Tail(u) = J
  <2>1. Len(u) > 0 /\ Len(u) - 1 = Len(J)
    BY <1>7, <1>8
  <2>2. u # <<>>
    BY <1>8, <2>1
  <2>3. Tail(u) \in Seq(Vocab) /\ Len(Tail(u)) = Len(u) - 1 /\ \A k \in 1..Len(u) - 1 : Tail(u)[k] = u[k + 1]
    BY <1>8, <2>2, HeadTailProperties
  <2>. QED  BY <1>5, <1>8, <2>1, <2>3, SeqEqual
<1>10. Telling(m, u)
  <2>. SUFFICES ASSUME NEW k \in 1..Len(u), k # 1 PROVE Plain(u[k])
    BY <1>2, <1>4, <1>8 DEF Telling
  <2>1. k - 1 \in 1..Len(J) /\ k - 1 + 1 = k
    BY <1>7, <1>8
  <2>. QED  BY <1>6, <1>8, <2>1
<1>11. Len(u) > 0
  BY <1>7, <1>8
<1>. QED  BY <1>2, <1>5, <1>8, <1>9, <1>10, <1>11 DEF m, u, J

LEMMA PlainIsNoMark ==
    ASSUME NEW x, Plain(x)
    PROVE  /\ x # "CONNECT_" /\ x # "DISCONNECT_ADDNBRS_" /\ x # "SEARCH-REQ"
           /\ x # "SEARCH-RESP" /\ x \notin Asked \cup Asks
<1>1. x \in Given => x \notin Marks
  BY AtomsGiven
<1>2. x \in Asked \cup Asks => x \notin Marks /\ x \notin Fixed /\ x \notin Given
  BY AtomsGiven
<1>3. x = Underscore \/ x = Comma => x \in Marks
  BY DEF Marks
<1>4. x \notin Asked \cup Asks
  BY <1>2, <1>3 DEF Plain
<1>5. /\ x # "CONNECT_" /\ x # "DISCONNECT_ADDNBRS_" /\ x # "SEARCH-REQ" /\ x # "SEARCH-RESP"
  <2>1. CASE x \in Given
    BY <1>1, <2>1 DEF Marks
  <2>2. CASE x \in Fixed
    BY <2>2 DEF Fixed
  <2>3. CASE x = Underscore \/ x = Comma
    BY <2>3, DelimitersDiffer
  <2>. QED  BY <2>1, <2>2, <2>3 DEF Plain
<1>. QED  BY <1>4, <1>5

LEMMA IdIsNoMark ==
    ASSUME NEW s \in Asked \cup Asks
    PROVE  /\ s # "CONNECT_" /\ s # "DISCONNECT_ADDNBRS_" /\ s # "SEARCH-REQ"
           /\ s # "SEARCH-RESP" /\ s # Underscore /\ s # Comma
<1>1. s \notin Marks
  BY AtomsGiven
<1>. QED  BY <1>1 DEF Marks

LEMMA MarkAt ==
    ASSUME NEW m, NEW u, Telling(m, u), NEW k \in 1..Len(u)
    PROVE  /\ u[k] = "CONNECT_" => m.type = "CONNECT"
           /\ u[k] = "DISCONNECT_ADDNBRS_" => m.type = "ADDNBRS"
           /\ u[k] = "SEARCH-REQ" => m.type = "REQ"
           /\ u[k] = "SEARCH-RESP" => m.type = "RESP"
           /\ u[k] \in Asked \cup Asks => k = 3 /\ m.type \in {"REQ", "RESP"} /\ u[k] = m.sid
<1>. DEFINE x == u[k]
<1>1. \/ Plain(x)
      \/ x = "CONNECT_" /\ m.type = "CONNECT"
      \/ x = "DISCONNECT_ADDNBRS_" /\ m.type = "ADDNBRS"
      \/ x = "SEARCH-REQ" /\ m.type = "REQ"
      \/ x = "SEARCH-RESP" /\ m.type = "RESP"
      \/ k = 3 /\ x \in Asked \cup Asks /\ m.type \in {"REQ", "RESP"} /\ x = m.sid
  BY DEF Telling
<1>. HIDE DEF x
<1>2. /\ x = "CONNECT_" => m.type = "CONNECT"
      /\ x = "DISCONNECT_ADDNBRS_" => m.type = "ADDNBRS"
      /\ x = "SEARCH-REQ" => m.type = "REQ"
      /\ x = "SEARCH-RESP" => m.type = "RESP"
  BY <1>1, PlainIsNoMark, IdIsNoMark
<1>3. ASSUME x \in Asked \cup Asks PROVE k = 3 /\ m.type \in {"REQ", "RESP"} /\ x = m.sid
  BY <1>1, <1>3, PlainIsNoMark, IdIsNoMark
<1>. QED  BY <1>2, <1>3 DEF x

LEMMA TextTells ==
    ASSUME NEW m \in Message
    PROVE  Telling(m, Text(m)) /\ Text(m) \in Seq(Vocab) /\ Len(Text(m)) > 0
<1>1. CASE m = Connect
  BY <1>1, ConnectTells
<1>2. CASE m = Disconnect
  BY <1>2, DisconnectTells
<1>3. CASE m = AddNeighbors
  BY <1>3, AddNeighborsTells
<1>4. ASSUME NEW s \in Asks, NEW q \in {"F", "KW"}, NEW w \in Word,
             m = Request(s, "1", q, w)
      PROVE  Telling(m, Text(m)) /\ Text(m) \in Seq(Vocab) /\ Len(Text(m)) > 0
  <2>1. s \in Vocab /\ q \in Vocab /\ w \in Vocab
    BY AtomsGiven, Literals
  <2>2. Text(m) \in Seq(Vocab) /\ Len(Text(m)) = 9
    BY <1>4, <2>1, RequestShape
  <2>. DEFINE n == Request(s, "1", q, w)
  <2>3. Telling(n, Text(n)) /\ m = n
    BY <1>4, RequestTells
  <2>. HIDE DEF n
  <2>4. Telling(m, Text(m))
    BY <2>3
  <2>. QED  BY <2>2, <2>4
<1>5. ASSUME NEW s \in Asked, m = Response(s, "NO", <<>>)
      PROVE  Telling(m, Text(m)) /\ Text(m) \in Seq(Vocab) /\ Len(Text(m)) > 0
  <2>1. s \in Vocab
    BY AtomsGiven
  <2>2. Text(m) \in Seq(Vocab) /\ Len(Text(m)) = 5
    BY <1>5, <2>1, RefusalShape
  <2>. QED  BY <1>5, <2>2, RefusalTells
<1>6. ASSUME NEW s \in Asked, NEW v, NEW arg, Carries(v, arg), m = Response(s, v, arg)
      PROVE  Telling(m, Text(m)) /\ Text(m) \in Seq(Vocab) /\ Len(Text(m)) > 0
  <2>. DEFINE J == Join(Atoms(arg), Comma)
  <2>1. s \in Vocab /\ arg \in Seq(Vocab) /\ arg # <<>>
        /\ \A i \in 1..Len(arg) : arg[i] \notin Marks
    <3>1. s \in Vocab
      BY AtomsGiven
    <3>2. Carries(v, arg)
      BY <1>6
    <3>. QED  BY <3>1, <3>2, CarriedIs
  <2>2. Text(m) \in Seq(Vocab) /\ Len(Text(m)) = Len(J) + 6
    BY <1>6, <2>1, AnswerShape
  <2>3. J \in Seq(Vocab)
    BY <2>1, ListShape
  <2>4. Len(J) \in Nat
    BY <2>3
  <2>. HIDE DEF J
  <2>. QED  BY <1>6, <2>2, <2>4, AnswerTells
<1>. QED  BY <1>1, <1>2, <1>3, <1>4, <1>5, <1>6, MessageIs

LEMMA MessageTypes ==
    ASSUME NEW m \in Message
    PROVE  /\ m.type \in {"CONNECT", "DISCONNECT", "ADDNBRS", "REQ", "RESP"}
           /\ m.type = "CONNECT" => m = Connect
           /\ m.type = "DISCONNECT" => m = Disconnect
           /\ m.type = "ADDNBRS" => m = AddNeighbors
           /\ m.type = "REQ" => /\ m.sid \in Asks
                                /\ \E q \in {"F", "KW"}, w \in Word : m = Request(m.sid, "1", q, w)
           /\ m.type = "RESP" => /\ m.sid \in Asked
                                 /\ \/ m = Response(m.sid, "NO", <<>>)
                                    \/ \E v, arg : Carries(v, arg) /\ m = Response(m.sid, v, arg)
<1>1. Connect.type = "CONNECT" /\ Disconnect.type = "DISCONNECT" /\ AddNeighbors.type = "ADDNBRS"
  BY DEF Connect, Disconnect, AddNeighbors
<1>2. \A s, q, w : Request(s, "1", q, w).type = "REQ" /\ Request(s, "1", q, w).sid = s
  BY DEF Request
<1>3. \A s, v, arg : Response(s, v, arg).type = "RESP" /\ Response(s, v, arg).sid = s
  BY DEF Response
<1>4. \/ m = Connect \/ m = Disconnect \/ m = AddNeighbors
      \/ \E s \in Asks, q \in {"F", "KW"}, w \in Word : m = Request(s, "1", q, w)
      \/ \E s \in Asked : m = Response(s, "NO", <<>>)
      \/ \E s \in Asked : \E v, arg : Carries(v, arg) /\ m = Response(s, v, arg)
  BY MessageIs
<1>. QED  BY <1>1, <1>2, <1>3, <1>4

(* The parser and the formatter.                                           *)

\* What the parser tests before it takes a text apart.
LEMMA KindFound ==
    ASSUME NEW m \in Message
    PROVE  /\ Finds(Text(m), "CONNECT_") <=> m.type = "CONNECT"
           /\ Finds(Text(m), "DISCONNECT_ADDNBRS_") <=> m.type = "ADDNBRS"
           /\ Finds(Text(m), "SEARCH-REQ") <=> m.type = "REQ"
           /\ Finds(Text(m), "SEARCH-RESP") <=> m.type = "RESP"
           /\ Text(m) = <<"DISCONNECT">> <=> m.type = "DISCONNECT"
<1>. DEFINE u == Text(m)
<1>1. Telling(m, u) /\ u \in Seq(Vocab) /\ Len(u) > 0 /\ 1 \in 1..Len(u)
  <2>1. Telling(m, u) /\ u \in Seq(Vocab) /\ Len(u) > 0
    BY TextTells
  <2>2. 1 \in 1..Len(u)
    BY <2>1
  <2>. QED  BY <2>1, <2>2
<1>2. /\ m.type = "CONNECT" => u[1] = "CONNECT_"
      /\ m.type = "ADDNBRS" => u[1] = "DISCONNECT_ADDNBRS_"
      /\ m.type = "DISCONNECT" => u = <<"DISCONNECT">>
  BY MessageTypes, ConnectTells, DisconnectTells, AddNeighborsTells
<1>3. m.type = "REQ" => u[1] = "SEARCH-REQ"
  <2>1. ASSUME NEW s \in Asks, NEW q \in {"F", "KW"}, NEW w \in Word, m = Request(s, "1", q, w)
        PROVE  u[1] = "SEARCH-REQ"
    <3>1. s \in Vocab /\ q \in Vocab /\ w \in Vocab
      BY AtomsGiven, Literals
    <3>. QED  BY <2>1, <3>1, RequestShape
  <2>. QED  BY <2>1, MessageTypes
<1>4. m.type = "RESP" => u[1] = "SEARCH-RESP"
  <2>1. ASSUME NEW s \in Asked, m = Response(s, "NO", <<>>) PROVE u[1] = "SEARCH-RESP"
    BY <2>1, AtomsGiven, RefusalShape
  <2>2. ASSUME NEW s \in Asked, NEW v, NEW arg, Carries(v, arg), m = Response(s, v, arg)
        PROVE  u[1] = "SEARCH-RESP"
    BY <2>2, AtomsGiven, AnswerShape
  <2>. QED  BY <2>1, <2>2, MessageTypes
<1>5. u = <<"DISCONNECT">> => m.type = "DISCONNECT"
  <2>1. u = <<"DISCONNECT">> => u[1] = "DISCONNECT"
    OBVIOUS
  <2>. QED  BY <1>2, <1>3, <1>4, <2>1, MessageTypes
<1>. HIDE DEF u
<1>6. \A k \in 1..Len(u) :
        /\ u[k] = "CONNECT_" => m.type = "CONNECT"
        /\ u[k] = "DISCONNECT_ADDNBRS_" => m.type = "ADDNBRS"
        /\ u[k] = "SEARCH-REQ" => m.type = "REQ"
        /\ u[k] = "SEARCH-RESP" => m.type = "RESP"
  BY <1>1, MarkAt
<1>. QED  BY <1>1, <1>2, <1>3, <1>4, <1>5, <1>6 DEF Finds, u

LEMMA RequestTaken ==
    ASSUME NEW s \in Asks, NEW q \in {"F", "KW"}, NEW w \in Word
    PROVE  TakesRequest(Text(Request(s, "1", q, w))) = Meaning(Request(s, "1", q, w))
<1>. DEFINE x == <<"SEARCH-REQ", s, "1", q, w>>
            u == Text(Request(s, "1", q, w))
            t == Split(u, Underscore)
<1>1. s \in Vocab /\ s # Underscore /\ w \in Vocab /\ w # Underscore
      /\ q \in Vocab /\ q # Underscore
  BY AtomsGiven, IdIsNoMark, Literals, DelimitersDiffer DEF Marks
<1>2. x \in Seq(Vocab) /\ x # <<>> /\ Len(x) = 5
  <2>1. x \in Seq(Vocab)
    BY <1>1, Literals, Five
  <2>. QED  BY <2>1
<1>3. x[1] = "SEARCH-REQ" /\ x[2] = s /\ x[3] = "1" /\ x[4] = q /\ x[5] = w
  OBVIOUS
<1>4. u = Join(Atoms(x), Underscore)
  BY RequestText
<1>. HIDE DEF x
<1>5. \A i \in 1..Len(x) : x[i] # Underscore
  <2>1. \A i \in 1..5 : i = 1 \/ i = 2 \/ i = 3 \/ i = 4 \/ i = 5
    OBVIOUS
  <2>. QED  BY <1>1, <1>2, <1>3, <2>1, DelimitersDiffer
<1>6. /\ Atoms(x) \in Seq(Seq(Vocab)) /\ Len(Atoms(x)) = 5 /\ Atoms(x) # <<>>
      /\ \A i \in 1..5 : Atoms(x)[i] = <<x[i]>>
      /\ Free(Atoms(x), Underscore)
  <2>1. /\ Atoms(x) \in Seq(Seq(Vocab)) /\ Len(Atoms(x)) = 5
        /\ \A i \in 1..5 : Atoms(x)[i] = <<x[i]>>
    BY <1>2, AtomsShape
  <2>2. Free(Atoms(x), Underscore)
    BY <1>2, <1>5, AtomsShape
  <2>. QED  BY <2>1, <2>2
<1>7. t = Atoms(x)
  BY <1>4, <1>6, Literals, SplitUndoesJoin
<1>8. /\ Len(t) = 5 /\ t[2] = <<s>> /\ t[3] = <<"1">> /\ t[4] = <<q>> /\ t[5] = <<w>>
  BY <1>3, <1>6, <1>7
<1>9. t[2] \in {<<y>> : y \in Forwarded} <=> s \in Forwarded
  <2>1. \A y : <<s>> = <<y>> => s = y
    OBVIOUS
  <2>. HIDE DEF t
  <2>. QED  BY <1>8, <2>1
<1>10. \A y : <<y>> = <<"KW">> <=> y = "KW"
  OBVIOUS
<1>. DEFINE kw == t[4] = <<"KW">>
            long == [type |-> "REQ", sid |-> t[2], hop |-> t[3], keyword |-> kw, word |-> t[5]]
<1>11. TakesRequest(u) =
         IF Len(t) < 2 THEN Effect("UB")
         ELSE IF t[2] \in {<<y>> : y \in Forwarded} THEN [type |-> "REQ", sid |-> t[2]]
         ELSE IF Len(t) < 5 THEN Effect("UB") ELSE long
  BY DEF TakesRequest
<1>12. long = [type |-> "REQ", sid |-> <<s>>, hop |-> <<"1">>, keyword |-> q = "KW",
               word |-> <<w>>]
  <2>. DEFINE b == q = "KW"
  <2>1. kw = b
    <3>. HIDE DEF t
    <3>. QED  BY <1>8, <1>10
  <2>. HIDE DEF kw, b, t
  <2>2. long = [type |-> "REQ", sid |-> <<s>>, hop |-> <<"1">>, keyword |-> b, word |-> <<w>>]
    BY <1>8, <2>1
  <2>. QED  BY <2>2 DEF b
<1>13. ASSUME s \in Forwarded
       PROVE  TakesRequest(u) = [type |-> "REQ", sid |-> <<s>>]
  <2>1. ~(Len(t) < 2)
    BY <1>8
  <2>. HIDE DEF t, u, long
  <2>. QED  BY <1>8, <1>9, <1>11, <1>13, <2>1
<1>14. ASSUME s \notin Forwarded PROVE TakesRequest(u) = long
  <2>1. ~(Len(t) < 2) /\ ~(Len(t) < 5)
    BY <1>8
  <2>. HIDE DEF t, u, long
  <2>. QED  BY <1>8, <1>9, <1>11, <1>14, <2>1
<1>15. /\ s \in Forwarded => Meaning(Request(s, "1", q, w)) = [type |-> "REQ", sid |-> <<s>>]
       /\ s \notin Forwarded => Meaning(Request(s, "1", q, w)) =
            [type |-> "REQ", sid |-> <<s>>, hop |-> <<"1">>, keyword |-> q = "KW", word |-> <<w>>]
  <2>. DEFINE r == Request(s, "1", q, w)
              b == q = "KW"
  <2>1. /\ r.type = "REQ" /\ r.sid = s /\ r.hop = "1" /\ r.kind = q /\ r.word = w
    BY DEF Request
  <2>2. (r.kind = "KW") = b
    BY <2>1
  <2>. HIDE DEF r, b
  <2>3. r.type # "CONNECT" /\ r.type # "DISCONNECT" /\ r.type # "ADDNBRS"
    BY <2>1
  <2>4. r.sid \in Forwarded => Meaning(r) = [type |-> "REQ", sid |-> <<r.sid>>]
    BY <2>1, <2>3, Zenon DEF Meaning
  <2>5. r.sid \notin Forwarded =>
          Meaning(r) = [type |-> "REQ", sid |-> <<r.sid>>, hop |-> <<r.hop>>,
                        keyword |-> r.kind = "KW", word |-> <<r.word>>]
    BY <2>1, <2>3, SMT DEF Meaning
  <2>. QED  BY <2>1, <2>2, <2>4, <2>5 DEF r, b
<1>. HIDE DEF long, t, u
<1>16. TakesRequest(u) = Meaning(Request(s, "1", q, w))
  BY <1>12, <1>13, <1>14, <1>15
<1>. QED  BY <1>16 DEF u

LEMMA RefusalTaken ==
    ASSUME NEW s \in Asked
    PROVE  TakesResponse(Text(Response(s, "NO", <<>>))) = Meaning(Response(s, "NO", <<>>))
<1>. DEFINE x == <<"SEARCH-RESP", s, "NO">>
            u == Text(Response(s, "NO", <<>>))
            t == Split(u, Underscore)
<1>1. s \in Vocab /\ s # Underscore
  BY AtomsGiven, IdIsNoMark
<1>2. x \in Seq(Vocab) /\ x # <<>> /\ Len(x) = 3
  <2>1. x \in Seq(Vocab)
    BY <1>1, Literals, Three
  <2>. QED  BY <2>1
<1>3. x[1] = "SEARCH-RESP" /\ x[2] = s /\ x[3] = "NO"
  OBVIOUS
<1>4. u = Join(Atoms(x), Underscore)
  BY RefusalText
<1>. HIDE DEF x
<1>5. \A i \in 1..Len(x) : x[i] # Underscore
  <2>1. \A i \in 1..3 : i = 1 \/ i = 2 \/ i = 3
    OBVIOUS
  <2>. QED  BY <1>1, <1>2, <1>3, <2>1, DelimitersDiffer
<1>6. /\ Atoms(x) \in Seq(Seq(Vocab)) /\ Len(Atoms(x)) = 3 /\ Atoms(x) # <<>>
      /\ \A i \in 1..3 : Atoms(x)[i] = <<x[i]>>
      /\ Free(Atoms(x), Underscore)
  <2>1. /\ Atoms(x) \in Seq(Seq(Vocab)) /\ Len(Atoms(x)) = 3
        /\ \A i \in 1..3 : Atoms(x)[i] = <<x[i]>> /\ Free(Atoms(x), Underscore)
    BY <1>2, <1>5, AtomsShape
  <2>. QED  BY <2>1
<1>7. t = Atoms(x)
  BY <1>4, <1>6, Literals, SplitUndoesJoin
<1>8. Len(t) = 3 /\ t[2] = <<s>> /\ t[3] = <<"NO">>
  BY <1>3, <1>6, <1>7
<1>9. t[2] \in {<<y>> : y \in Forwarded \cup Created}
  <2>1. s \in Forwarded \cup Created
    BY DEF Forwarded
  <2>. HIDE DEF t
  <2>. QED  BY <1>8, <2>1
<1>. DEFINE yes == Len(t) >= 3 /\ t[3] = <<"YES">>
            hits == IF yes /\ Len(t) >= 4 THEN Split(t[4], Comma) ELSE <<>>
            taken1 == [type |-> "RESP", sid |-> t[2], short |-> Len(t) < 3 \/ (yes /\ Len(t) < 4),
                       relayed |-> hits, shown |-> IF Len(t) = 4 THEN hits ELSE <<>>]
<1>10. TakesResponse(u) =
         IF Len(t) < 2 THEN Effect("UB")
         ELSE IF t[2] \notin {<<y>> : y \in Forwarded \cup Created} THEN Effect("INVALID")
         ELSE IF Len(t) < 3 /\ t[2] \notin {<<y>> : y \in Forwarded} THEN Effect("UB")
         ELSE taken1
  BY DEF TakesResponse
<1>11. TakesResponse(u) = taken1
  <2>1. ~(Len(t) < 2) /\ ~(Len(t) < 3)
    BY <1>8
  <2>. HIDE DEF t, u, taken1
  <2>. QED  BY <1>9, <1>10, <2>1
<1>12. taken1 = [type |-> "RESP", sid |-> <<s>>, short |-> FALSE, relayed |-> <<>>, shown |-> <<>>]
  <2>. DEFINE cut == Len(t) < 3 \/ (yes /\ Len(t) < 4)
              shown1 == IF Len(t) = 4 THEN hits ELSE <<>>
  <2>. HIDE DEF t
  <2>1. yes = FALSE
    <3>1. <<"NO">> # <<"YES">>
      OBVIOUS
    <3>. QED  BY <1>8, <3>1
  <2>. HIDE DEF yes
  <2>2. cut = FALSE /\ hits = <<>>
    BY <1>8, <2>1
  <2>. HIDE DEF cut, hits
  <2>3. shown1 = <<>>
    BY <2>2
  <2>. HIDE DEF shown1
  <2>4. taken1 = [type |-> "RESP", sid |-> t[2], short |-> cut, relayed |-> hits, shown |-> shown1]
    BY DEF taken1, cut, shown1
  <2>. QED  BY <1>8, <2>2, <2>3, <2>4
<1>13. Meaning(Response(s, "NO", <<>>)) =
         [type |-> "RESP", sid |-> <<s>>, short |-> FALSE, relayed |-> <<>>, shown |-> <<>>]
  BY DEF Meaning, Response
<1>. HIDE DEF taken1, t, u
<1>14. TakesResponse(u) = Meaning(Response(s, "NO", <<>>))
  BY <1>11, <1>12, <1>13
<1>. QED  BY <1>14 DEF u

LEMMA AnswerTaken ==
    ASSUME NEW s \in Asked, NEW v, NEW arg, Carries(v, arg)
    PROVE  TakesResponse(Text(Response(s, v, arg))) = Meaning(Response(s, v, arg))
<1>. DEFINE x == <<"SEARCH-RESP", s, v>>
            J == Join(Atoms(arg), Comma)
            u == Text(Response(s, v, arg))
            t == Split(u, Underscore)
            ts == Atoms(x) \o <<J>>
<1>1. /\ s \in Vocab /\ s # Underscore /\ v \in Vocab /\ v # Underscore
      /\ arg \in Seq(Vocab) /\ arg # <<>> /\ \A i \in 1..Len(arg) : arg[i] \notin Marks
  BY AtomsGiven, IdIsNoMark, CarriedIs
<1>2. x \in Seq(Vocab) /\ Len(x) = 3
  BY <1>1, Literals, Three
<1>3. x[1] = "SEARCH-RESP" /\ x[2] = s /\ x[3] = v
  OBVIOUS
<1>4. u = Join(ts, Underscore)
  BY <1>1, AnswerText
<1>5. /\ J \in Seq(Vocab) /\ Split(J, Comma) = Atoms(arg)
      /\ \A i \in 1..Len(J) : J[i] = Comma \/ \E k \in 1..Len(arg) : J[i] = arg[k]
  BY <1>1, ListShape
<1>. HIDE DEF x, J
<1>6. \A i \in 1..Len(J) : J[i] # Underscore
  BY <1>1, <1>5, DelimitersDiffer DEF Marks
<1>7. \A i \in 1..Len(x) : x[i] # Underscore
  <2>1. \A i \in 1..3 : i = 1 \/ i = 2 \/ i = 3
    OBVIOUS
  <2>. QED  BY <1>1, <1>2, <1>3, <2>1, DelimitersDiffer
<1>8. /\ Atoms(x) \in Seq(Seq(Vocab)) /\ Len(Atoms(x)) = 3
      /\ \A i \in 1..3 : Atoms(x)[i] = <<x[i]>>
      /\ Free(Atoms(x), Underscore)
  BY <1>2, <1>7, AtomsShape
<1>9. ts \in Seq(Seq(Vocab)) /\ Len(ts) = 4 /\ ts[1] = <<x[1]>> /\ ts[2] = <<x[2]>>
      /\ ts[3] = <<x[3]>> /\ ts[4] = J
  <2>. DEFINE a == Atoms(x)
              b == <<J>>
  <2>1. a \in Seq(Seq(Vocab)) /\ Len(a) = 3 /\ \A i \in 1..3 : a[i] = <<x[i]>>
    BY <1>8
  <2>2. b \in Seq(Seq(Vocab)) /\ Len(b) = 1 /\ b[1] = J
    BY <1>5, SingleSeq
  <2>3. ts = a \o b
    OBVIOUS
  <2>. HIDE DEF a, b, ts
  <2>4. /\ a \o b \in Seq(Seq(Vocab)) /\ Len(a \o b) = Len(a) + Len(b)
        /\ \A i \in 1..Len(a) + Len(b) :
             (a \o b)[i] = IF i <= Len(a) THEN a[i] ELSE b[i - Len(a)]
    BY <2>1, <2>2, ConcatProperties
  <2>5. Len(a) + Len(b) = 4
    BY <2>1, <2>2
  <2>6. ts \in Seq(Seq(Vocab)) /\ Len(ts) = 4
        /\ \A i \in 1..4 : ts[i] = IF i <= 3 THEN a[i] ELSE b[i - 3]
    BY <2>1, <2>3, <2>4, <2>5
  <2>7. ts[1] = a[1] /\ ts[2] = a[2] /\ ts[3] = a[3] /\ ts[4] = b[1]
    BY <2>6
  <2>. QED  BY <2>1, <2>2, <2>6, <2>7
<1>. HIDE DEF ts
<1>10. Free(ts, Underscore)
  <2>1. ASSUME NEW i \in 1..3 PROVE \A j \in 1..Len(<<x[i]>>) : <<x[i]>>[j] # Underscore
    BY <1>2, <1>7
  <2>2. \A k \in 1..4 : k = 1 \/ k = 2 \/ k = 3 \/ k = 4
    OBVIOUS
  <2>3. ASSUME NEW k \in 1..4 PROVE \A j \in 1..Len(ts[k]) : ts[k][j] # Underscore
    BY <1>6, <1>9, <2>1, <2>2
  <2>. QED  BY <1>9, <2>3 DEF Free
<1>11. t = ts
  <2>1. ts # <<>>
    BY <1>9
  <2>. QED  BY <1>4, <1>9, <1>10, <2>1, Literals, SplitUndoesJoin
<1>12. Len(t) = 4 /\ t[2] = <<s>> /\ t[3] = <<v>> /\ t[4] = J
  BY <1>3, <1>9, <1>11
<1>13. t[2] \in {<<y>> : y \in Forwarded \cup Created}
  <2>1. s \in Forwarded \cup Created
    BY DEF Forwarded
  <2>. HIDE DEF t
  <2>. QED  BY <1>12, <2>1
<1>. DEFINE yes == Len(t) >= 3 /\ t[3] = <<"YES">>
            hits == IF yes /\ Len(t) >= 4 THEN Split(t[4], Comma) ELSE <<>>
            taken1 == [type |-> "RESP", sid |-> t[2], short |-> Len(t) < 3 \/ (yes /\ Len(t) < 4),
                       relayed |-> hits, shown |-> IF Len(t) = 4 THEN hits ELSE <<>>]
<1>14. TakesResponse(u) =
         IF Len(t) < 2 THEN Effect("UB")
         ELSE IF t[2] \notin {<<y>> : y \in Forwarded \cup Created} THEN Effect("INVALID")
         ELSE IF Len(t) < 3 /\ t[2] \notin {<<y>> : y \in Forwarded} THEN Effect("UB")
         ELSE taken1
  BY DEF TakesResponse
<1>15. TakesResponse(u) = taken1
  <2>1. ~(Len(t) < 2) /\ ~(Len(t) < 3)
    BY <1>12
  <2>. HIDE DEF t, u, taken1
  <2>. QED  BY <1>13, <1>14, <2>1
<1>16. (v = "YES" /\ arg = Hits) \/ (v = "NO" /\ v # "YES")
  BY DEF Carries
<1>. DEFINE list == IF v = "YES" THEN Atoms(arg) ELSE <<>>
<1>17. taken1 = [type |-> "RESP", sid |-> <<s>>, short |-> FALSE, relayed |-> list, shown |-> list]
  <2>. DEFINE cut == Len(t) < 3 \/ (yes /\ Len(t) < 4)
              shown1 == IF Len(t) = 4 THEN hits ELSE <<>>
  <2>. HIDE DEF t
  <2>1. yes <=> v = "YES"
    <3>1. <<v>> = <<"YES">> <=> v = "YES"
      OBVIOUS
    <3>. QED  BY <1>12, <3>1
  <2>2. cut = FALSE
    <3>. HIDE DEF yes
    <3>. QED  BY <1>12
  <2>3. hits = list
    <3>. HIDE DEF yes
    <3>. QED  BY <1>5, <1>12, <2>1
  <2>. HIDE DEF cut, hits, yes, list
  <2>4. shown1 = list
    BY <1>12, <2>3
  <2>. HIDE DEF shown1
  <2>5. taken1 = [type |-> "RESP", sid |-> t[2], short |-> cut, relayed |-> hits, shown |-> shown1]
    BY DEF taken1, cut, shown1
  <2>. QED  BY <1>12, <2>2, <2>3, <2>4, <2>5
<1>18. Meaning(Response(s, v, arg)) =
         [type |-> "RESP", sid |-> <<s>>, short |-> FALSE, relayed |-> list, shown |-> list]
  BY DEF Meaning, Response
<1>. HIDE DEF taken1, t, u, list
<1>19. TakesResponse(u) = Meaning(Response(s, v, arg))
  BY <1>15, <1>17, <1>18
<1>. QED  BY <1>19 DEF u

LEMMA ConnectTaken == TakesConnect(Text(Connect)) = Meaning(Connect)
<1>. DEFINE u == Text(Connect)
            r == Tail(u)
<1>1. Peer \in Vocab /\ Peer \in Given /\ Peer # Underscore
  BY AtomsGiven DEF Given, Marks
<1>2. PICK c \in Vocab, d \in Vocab : c = "C1" /\ d = Underscore
  BY Literals
<1>3. r = <<c>> \o <<d>> \o <<Peer>>
  <2>1. r = <<"C1", Underscore, Peer>>
    BY ConnectText
  <2>2. <<c, d, Peer>> = <<c>> \o <<d>> \o <<Peer>>
    OBVIOUS
  <2>. QED  BY <1>2, <2>1, <2>2
<1>4. c # d /\ Peer # d
  BY <1>1, <1>2, DelimitersDiffer
<1>. HIDE DEF r
<1>5. <<c>> \in Seq(Vocab) /\ <<Peer>> \in Seq(Vocab)
  BY <1>1, SingleSeq
<1>6. \A i \in 1..Len(<<c>>) : <<c>>[i] # d
  BY <1>4
<1>7. \A i \in 1..Len(<<Peer>>) : <<Peer>>[i] # d
  BY <1>4
<1>8. Split(<<Peer>>, d) = <<<<Peer>>>>
  BY <1>5, <1>7, SplitOne
<1>9. Split(r, d) = <<<<c>>>> \o <<<<Peer>>>>
  <2>. DEFINE t == <<c>>
              q == <<Peer>>
  <2>1. t \in Seq(Vocab) /\ q \in Seq(Vocab) /\ \A i \in 1..Len(t) : t[i] # d
    BY <1>5, <1>6
  <2>2. Split(q, d) = <<q>> /\ r = t \o <<d>> \o q
    BY <1>3, <1>8
  <2>. HIDE DEF t, q
  <2>3. Split(t \o <<d>> \o q, d) = <<t>> \o Split(q, d)
    BY <2>1, SplitCons
  <2>4. Split(r, d) = <<t>> \o <<q>>
    BY <2>2, <2>3
  <2>. QED  BY <2>4 DEF t, q
<1>10. Len(Split(r, d)) = 2 /\ Split(r, d)[2] = <<Peer>>
  BY <1>9
<1>11. TakesConnect(u) = [type |-> "CONNECT", name |-> <<Peer>>]
  <2>1. TakesConnect(u) = LET tokens == Split(r, d) IN
          IF Len(tokens) < 2 THEN Effect("UB") ELSE [type |-> "CONNECT", name |-> tokens[2]]
    BY <1>2 DEF TakesConnect, r
  <2>. QED  BY <1>10, <2>1
<1>12. Meaning(Connect) = [type |-> "CONNECT", name |-> <<Peer>>]
  BY DEF Meaning, Connect
<1>. QED  BY <1>11, <1>12 DEF u

LEMMA AddNeighborsTaken == TakesAddNeighbors(Text(AddNeighbors)) = Meaning(AddNeighbors)
<1>. DEFINE u == Text(AddNeighbors)
            J == Join(Atoms(Neighbors), Comma)
<1>1. /\ u \in Seq(Vocab) /\ Len(u) > 0 /\ u[1] = "DISCONNECT_ADDNBRS_" /\ Tail(u) = J
  BY AddNeighborsTells
<1>2. Split(J, Comma) = Atoms(Neighbors)
  BY AtomsGiven, ListShape
<1>3. Head(u) = "DISCONNECT_ADDNBRS_"
  BY <1>1
<1>4. TakesAddNeighbors(u) = [type |-> "ADDNBRS", names |-> Atoms(Neighbors)]
  BY <1>1, <1>2, <1>3 DEF TakesAddNeighbors
<1>5. Meaning(AddNeighbors) = [type |-> "ADDNBRS", names |-> Atoms(Neighbors)]
  BY DEF Meaning, AddNeighbors
<1>. QED  BY <1>4, <1>5

\* utils.cpp and handle_peer_msg: the text of a message is understood as it was meant.
THEOREM ParserUndoesFormatter ==
    ASSUME NEW m \in Message
    PROVE  Handled(Text(m)) = Meaning(m)
<1>. DEFINE u == Text(m)
<1>1. /\ Finds(u, "CONNECT_") <=> m.type = "CONNECT"
      /\ Finds(u, "DISCONNECT_ADDNBRS_") <=> m.type = "ADDNBRS"
      /\ Finds(u, "SEARCH-REQ") <=> m.type = "REQ"
      /\ Finds(u, "SEARCH-RESP") <=> m.type = "RESP"
      /\ u = <<"DISCONNECT">> <=> m.type = "DISCONNECT"
  BY KindFound
<1>2. m.type \in {"CONNECT", "DISCONNECT", "ADDNBRS", "REQ", "RESP"}
  BY MessageTypes
<1>3. m.type = "CONNECT" => TakesConnect(u) = Meaning(m)
  BY MessageTypes, ConnectTaken
<1>4. m.type = "ADDNBRS" => TakesAddNeighbors(u) = Meaning(m)
  BY MessageTypes, AddNeighborsTaken
<1>5. m.type = "REQ" => TakesRequest(u) = Meaning(m)
  BY MessageTypes, RequestTaken
<1>6. m.type = "RESP" => TakesResponse(u) = Meaning(m)
  BY MessageTypes, RefusalTaken, AnswerTaken
<1>7. m.type = "DISCONNECT" => Effect("DISCONNECT") = Meaning(m)
  BY DEF Meaning
<1>. HIDE DEF u
<1>8. Handled(u) = Meaning(m)
  BY <1>1, <1>2, <1>3, <1>4, <1>5, <1>6, <1>7 DEF Handled
<1>. QED  BY <1>8 DEF u

(* The stream: where each message is in it.                                *)

Texts(q) == [i \in 1..Len(q) |-> Text(q[i])]
Wire(q) == FlattenSeq(Texts(q))
Start(q, i) == Len(FlattenSeq([j \in 1..i - 1 |-> Text(q[j])]))

\* The texts are one after the other, and there is nothing else.
Laid(q) ==
    /\ Wire(q) \in Seq(Vocab)
    /\ \A i \in 1..Len(q) + 1 : Start(q, i) \in Nat
    /\ Start(q, Len(q) + 1) = Len(Wire(q))
    /\ \A i \in 1..Len(q) : Start(q, i + 1) = Start(q, i) + Len(Text(q[i]))
    /\ \A i \in 1..Len(q), j \in 1..Len(q) + 1 : i < j => Start(q, i + 1) <= Start(q, j)
    /\ \A i \in 1..Len(q) : \A k \in 1..Len(Text(q[i])) :
         Wire(q)[Start(q, i) + k] = Text(q[i])[k]
    /\ \A p \in 1..Len(Wire(q)) :
         \E i \in 1..Len(q) : \E k \in 1..Len(Text(q[i])) : p = Start(q, i) + k

LEMMA FlattenNone == FlattenSeq(<<>>) = <<>>
<1>. DEFINE x == <<>>
<1>1. x \in Seq(Vocab) /\ <<>> \in Seq(Seq(Vocab))
  BY EmptySeq
<1>2. FlattenSeq(<<x>>) = x
  BY <1>1, FlattenOne
<1>3. FlattenSeq(<<x>> \o <<>>) = x \o FlattenSeq(<<>>)
  BY <1>1, FlattenCons
<1>4. <<x>> \o <<>> = <<x>>
  OBVIOUS
<1>5. FlattenSeq(<<>>) \in Seq(Vocab)
  BY <1>1, FlattenType
<1>6. x \o FlattenSeq(<<>>) = FlattenSeq(<<>>)
  BY <1>5, ConcatEmptySeq
<1>. QED  BY <1>2, <1>3, <1>4, <1>6

LEMMA LaidNone == Laid(<<>>) /\ Wire(<<>>) = <<>>
<1>. DEFINE q == <<>>
<1>1. Len(q) = 0 /\ Len(q) + 1 = 1
  OBVIOUS
<1>2. Texts(q) = <<>>
  BY DEF Texts
<1>3. Wire(q) = <<>>
  BY <1>2, FlattenNone DEF Wire
<1>4. Start(q, 1) = 0
  <2>1. [j \in 1..1 - 1 |-> Text(q[j])] = <<>>
    OBVIOUS
  <2>. QED  BY <2>1, FlattenNone DEF Start
<1>5. Wire(q) \in Seq(Vocab) /\ Len(Wire(q)) = 0
  BY <1>3, EmptySeq
<1>. HIDE DEF q
<1>6. 1..Len(q) = {} /\ 1..Len(q) + 1 = {1} /\ 1..Len(Wire(q)) = {}
  BY <1>1, <1>5
<1>7. Laid(q)
  BY <1>1, <1>4, <1>5, <1>6 DEF Laid
<1>. QED  BY <1>3, <1>7 DEF q

LEMMA TextsShape ==
    ASSUME NEW q \in Seq(Message)
    PROVE  Texts(q) \in Seq(Seq(Vocab)) /\ Len(Texts(q)) = Len(q)
<1>1. Len(q) \in Nat /\ \A i \in 1..Len(q) : Text(q[i]) \in Seq(Vocab)
  BY TextTells, ElementOfSeq
<1>2. Texts(q) \in [1..Len(q) -> Seq(Vocab)]
  BY <1>1 DEF Texts
<1>. QED  BY <1>1, <1>2, SeqDef

LEMMA WireGrows ==
    ASSUME NEW q \in Seq(Message), NEW m \in Message
    PROVE  /\ Wire(Append(q, m)) = Wire(q) \o Text(m)
           /\ \A i \in 1..Len(q) + 1 : Start(Append(q, m), i) = Start(q, i)
           /\ Start(q, Len(q) + 1) = Len(Wire(q))
           /\ Start(Append(q, m), Len(q) + 2) = Len(Wire(Append(q, m)))
<1>. DEFINE r == Append(q, m)
            n == Len(q)
<1>1. n \in Nat /\ Len(r) = n + 1 /\ (\A i \in 1..n : r[i] = q[i]) /\ r[n + 1] = m
  BY AppendProperties
<1>2. Text(m) \in Seq(Vocab) /\ Texts(q) \in Seq(Seq(Vocab)) /\ Len(Texts(q)) = n
  BY TextTells, TextsShape
<1>3. r \in Seq(Message)
  BY AppendProperties
<1>. HIDE DEF r, n
<1>4. Texts(r) = Append(Texts(q), Text(m))
  <2>. DEFINE a == Append(Texts(q), Text(m))
  <2>1. /\ a \in Seq(Seq(Vocab)) /\ Len(a) = n + 1
        /\ \A i \in 1..n : a[i] = Texts(q)[i]
        /\ a[n + 1] = Text(m)
    BY <1>2, AppendProperties
  <2>2. Texts(r) \in Seq(Seq(Vocab)) /\ Len(Texts(r)) = n + 1
    BY <1>1, <1>3, TextsShape
  <2>. HIDE DEF a
  <2>3. \A i \in 1..n : Texts(q)[i] = Text(q[i])
    BY DEF Texts, n
  <2>4. \A i \in 1..n + 1 : Texts(r)[i] = Text(r[i])
    BY <1>1 DEF Texts
  <2>5. ASSUME NEW i \in 1..n + 1 PROVE Texts(r)[i] = a[i]
    <3>1. CASE i = n + 1
      BY <1>1, <2>1, <2>4, <3>1
    <3>2. CASE i \in 1..n
      BY <1>1, <2>1, <2>3, <2>4, <3>2
    <3>. QED  BY <1>1, <3>1, <3>2
  <2>6. Texts(r) = a
    BY <2>1, <2>2, <2>5, SeqEqual
  <2>. QED  BY <2>6 DEF a
<1>5. Wire(r) = Wire(q) \o Text(m)
  BY <1>2, <1>4, FlattenAppend DEF Wire
<1>6. ASSUME NEW i \in 1..n + 1 PROVE Start(r, i) = Start(q, i)
  <2>1. \A j \in 1..i - 1 : j \in 1..n
    BY <1>1
  <2>2. [j \in 1..i - 1 |-> Text(r[j])] = [j \in 1..i - 1 |-> Text(q[j])]
    BY <1>1, <2>1
  <2>. QED  BY <2>2 DEF Start
<1>7. Start(q, n + 1) = Len(Wire(q))
  <2>1. n + 1 - 1 = n
    BY <1>1
  <2>. QED  BY <2>1 DEF Start, Wire, Texts, n
<1>8. Start(r, n + 2) = Len(Wire(r))
  <2>. DEFINE k == n + 2
  <2>1. k - 1 = Len(r)
    BY <1>1
  <2>. HIDE DEF k
  <2>2. [j \in 1..k - 1 |-> Text(r[j])] = Texts(r)
    BY <2>1 DEF Texts
  <2>3. Start(r, k) = Len(Wire(r))
    BY <2>2 DEF Start, Wire
  <2>. QED  BY <2>3 DEF k
<1>. QED  BY <1>5, <1>6, <1>7, <1>8 DEF r, n

LEMMA LaidGrows ==
    ASSUME NEW q \in Seq(Message), NEW m \in Message, Laid(q)
    PROVE  Laid(Append(q, m))
<1>. DEFINE r == Append(q, m)
            n == Len(q)
            x == Text(m)
            S == Wire(q)
            L == Len(S)
<1>1. /\ n \in Nat /\ Len(r) = n + 1 /\ (\A i \in 1..n : r[i] = q[i]) /\ r[n + 1] = m
      /\ Len(r) + 1 = n + 2
  <2>1. n \in Nat /\ Len(r) = n + 1 /\ (\A i \in 1..n : r[i] = q[i]) /\ r[n + 1] = m
    BY AppendProperties
  <2>. QED  BY <2>1
<1>2. x \in Seq(Vocab) /\ Len(x) \in Nat /\ Len(x) > 0
  <2>1. x \in Seq(Vocab) /\ Len(x) > 0
    BY TextTells
  <2>. QED  BY <2>1
<1>3. S \in Seq(Vocab) /\ L \in Nat
  <2>1. S \in Seq(Vocab)
    BY DEF Laid
  <2>. QED  BY <2>1
<1>4. /\ Wire(r) = S \o x
      /\ \A i \in 1..n + 1 : Start(r, i) = Start(q, i)
      /\ Start(q, n + 1) = L
      /\ Start(r, n + 2) = Len(Wire(r))
  BY WireGrows
<1>5. /\ \A i \in 1..n + 1 : Start(q, i) \in Nat
      /\ \A i \in 1..n : Start(q, i + 1) = Start(q, i) + Len(Text(q[i]))
      /\ \A i \in 1..n, j \in 1..n + 1 : i < j => Start(q, i + 1) <= Start(q, j)
      /\ \A i \in 1..n : \A k \in 1..Len(Text(q[i])) : S[Start(q, i) + k] = Text(q[i])[k]
      /\ \A p \in 1..L : \E i \in 1..n : \E k \in 1..Len(Text(q[i])) : p = Start(q, i) + k
  BY DEF Laid
<1>6. \A i \in 1..n : Len(Text(q[i])) \in Nat
  BY TextTells, ElementOfSeq
<1>. HIDE DEF r, n, x, S, L
<1>7. /\ Wire(r) \in Seq(Vocab) /\ Len(Wire(r)) = L + Len(x)
      /\ (\A i \in 1..L : Wire(r)[i] = S[i])
      /\ \A k \in 1..Len(x) : Wire(r)[L + k] = x[k]
  <2>1. /\ S \o x \in Seq(Vocab) /\ Len(S \o x) = Len(S) + Len(x)
        /\ \A i \in 1..Len(S) + Len(x) :
             (S \o x)[i] = IF i <= Len(S) THEN S[i] ELSE x[i - Len(S)]
    BY <1>2, <1>3, ConcatProperties
  <2>2. \A i \in 1..L + Len(x) : Wire(r)[i] = IF i <= L THEN S[i] ELSE x[i - L]
    BY <1>4, <2>1 DEF L
  <2>3. \A i \in 1..L : i \in 1..L + Len(x) /\ i <= L
    BY <1>2, <1>3
  <2>4. \A k \in 1..Len(x) : L + k \in 1..L + Len(x) /\ ~(L + k <= L) /\ L + k - L = k
    BY <1>2, <1>3
  <2>. QED  BY <1>4, <2>1, <2>2, <2>3, <2>4 DEF L
<1>8. \A i \in 1..n + 2 : i \in 1..n + 1 \/ i = n + 2
  BY <1>1
<1>9. \A i \in 1..n + 2 : Start(r, i) \in Nat
  <2>1. \A i \in 1..n + 1 : Start(r, i) \in Nat
    BY <1>4, <1>5
  <2>2. L + Len(x) \in Nat
    BY <1>2, <1>3
  <2>3. Start(r, n + 2) \in Nat
    BY <1>4, <1>7, <2>2
  <2>. QED  BY <1>8, <2>1, <2>3
<1>10. \A i \in 1..n + 1 : i \in 1..n \/ i = n + 1
  BY <1>1
<1>11. \A i \in 1..n : i \in 1..n + 1 /\ i + 1 \in 1..n + 1
  BY <1>1
<1>12. Start(r, n + 1) = L
  BY <1>1, <1>4
<1>13. ASSUME NEW i \in 1..n + 1 PROVE Start(r, i + 1) = Start(r, i) + Len(Text(r[i]))
  <2>1. CASE i \in 1..n
    BY <1>1, <1>4, <1>5, <1>11, <2>1
  <2>2. CASE i = n + 1
    <3>1. i + 1 = n + 2
      BY <1>1, <2>2
    <3>2. Start(r, n + 2) = L + Len(x)
      BY <1>4, <1>7
    <3>3. r[i] = m
      BY <1>1, <2>2
    <3>. QED  BY <1>12, <2>2, <3>1, <3>2, <3>3 DEF x
  <2>. QED  BY <1>10, <2>1, <2>2
<1>14. \A i \in 1..n + 1 : Start(r, i) <= L
  <2>1. ASSUME NEW i \in 1..n PROVE Start(r, i) <= L
    <3>1. Start(q, i + 1) <= Start(q, n + 1)
      <4>1. n + 1 \in 1..n + 1 /\ i < n + 1
        BY <1>1
      <4>. QED  BY <1>5, <4>1
    <3>2. Start(q, i) <= Start(q, i + 1)
      BY <1>5, <1>6, <1>11
    <3>3. Start(q, i) \in Nat /\ Start(q, i + 1) \in Nat /\ Start(r, i) = Start(q, i)
      BY <1>4, <1>5, <1>11
    <3>. QED  BY <1>3, <1>4, <3>1, <3>2, <3>3
  <2>. QED  BY <1>3, <1>10, <1>12, <2>1
<1>15. ASSUME NEW i \in 1..n + 1, NEW j \in 1..n + 2, i < j
       PROVE  Start(r, i + 1) <= Start(r, j)
  <2>1. CASE j \in 1..n + 1
    <3>1. i \in 1..n
      BY <1>1, <1>15, <2>1
    <3>2. Start(q, i + 1) <= Start(q, j)
      BY <1>5, <1>15, <2>1, <3>1
    <3>. QED  BY <1>4, <1>11, <2>1, <3>1, <3>2
  <2>2. CASE j = n + 2
    <3>1. Start(r, j) = L + Len(x)
      BY <1>4, <1>7, <2>2
    <3>2. CASE i = n + 1
      <4>1. i + 1 = n + 2
        BY <1>1, <3>2
      <4>. QED  BY <1>2, <1>3, <2>2, <3>1, <4>1
    <3>3. CASE i \in 1..n
      <4>1. i + 1 \in 1..n + 1
        BY <1>11, <3>3
      <4>2. Start(r, i + 1) <= L /\ Start(r, i + 1) \in Nat
        BY <1>4, <1>5, <1>14, <4>1
      <4>. QED  BY <1>2, <1>3, <3>1, <4>2
    <3>. QED  BY <1>10, <3>2, <3>3
  <2>. QED  BY <1>8, <2>1, <2>2
<1>16. ASSUME NEW i \in 1..n + 1, NEW k \in 1..Len(Text(r[i]))
       PROVE  Wire(r)[Start(r, i) + k] = Text(r[i])[k]
  <2>1. CASE i = n + 1
    <3>1. Text(r[i]) = x
      BY <1>1, <2>1 DEF x
    <3>. QED  BY <1>7, <1>12, <2>1, <3>1
  <2>2. CASE i \in 1..n
    <3>1. r[i] = q[i] /\ Start(r, i) = Start(q, i)
      BY <1>1, <1>4, <1>11, <2>2
    <3>2. S[Start(q, i) + k] = Text(q[i])[k]
      BY <1>5, <2>2, <3>1
    <3>3. Start(q, i) \in Nat /\ Start(q, i + 1) = Start(q, i) + Len(Text(q[i]))
          /\ Start(q, i + 1) \in Nat /\ Start(q, i + 1) <= L
      BY <1>4, <1>5, <1>11, <1>14, <2>2
    <3>4. k \in Nat /\ k > 0 /\ k <= Len(Text(q[i])) /\ Len(Text(q[i])) \in Nat
      BY <1>6, <2>2, <3>1
    <3>5. Start(q, i) + k \in 1..L
      BY <1>3, <3>3, <3>4
    <3>. QED  BY <1>7, <3>1, <3>2, <3>5
  <2>. QED  BY <1>10, <2>1, <2>2
<1>17. ASSUME NEW p \in 1..L + Len(x)
       PROVE  \E i \in 1..n + 1 : \E k \in 1..Len(Text(r[i])) : p = Start(r, i) + k
  <2>1. CASE p \in 1..L
    <3>1. PICK i \in 1..n : \E k \in 1..Len(Text(q[i])) : p = Start(q, i) + k
      BY <1>5, <2>1
    <3>2. i \in 1..n + 1 /\ r[i] = q[i] /\ Start(r, i) = Start(q, i)
      BY <1>1, <1>4, <1>11
    <3>. QED  BY <3>1, <3>2
  <2>2. CASE ~(p \in 1..L)
    <3>1. n + 1 \in 1..n + 1 /\ p - L \in 1..Len(x) /\ p = L + (p - L)
      BY <1>1, <1>2, <1>3, <2>2
    <3>2. Text(r[n + 1]) = x
      BY <1>1 DEF x
    <3>. QED  BY <1>12, <3>1, <3>2
  <2>. QED  BY <2>1, <2>2
<1>18. Laid(r)
  <2>1. Start(r, Len(r) + 1) = Len(Wire(r))
    BY <1>1, <1>4
  <2>2. \A i \in 1..Len(r) + 1 : Start(r, i) \in Nat
    BY <1>1, <1>9
  <2>3. \A i \in 1..Len(r) : Start(r, i + 1) = Start(r, i) + Len(Text(r[i]))
    BY <1>1, <1>13
  <2>4. \A i \in 1..Len(r), j \in 1..Len(r) + 1 : i < j => Start(r, i + 1) <= Start(r, j)
    BY <1>1, <1>15
  <2>5. \A i \in 1..Len(r) : \A k \in 1..Len(Text(r[i])) :
          Wire(r)[Start(r, i) + k] = Text(r[i])[k]
    BY <1>1, <1>16
  <2>6. \A p \in 1..Len(Wire(r)) :
          \E i \in 1..Len(r) : \E k \in 1..Len(Text(r[i])) : p = Start(r, i) + k
    BY <1>1, <1>7, <1>17
  <2>. QED  BY <1>7, <2>1, <2>2, <2>3, <2>4, <2>5, <2>6 DEF Laid
<1>. QED  BY <1>18 DEF r

LEMMA Cut ==
    ASSUME NEW T, NEW s \in Seq(T), NEW a \in Nat, NEW b \in Nat, a <= b, b <= Len(s)
    PROVE  LET v == SubSeq(s, a + 1, b) IN
           /\ v \in Seq(T) /\ Len(v) = b - a
           /\ \A i \in 1..b - a : v[i] = s[a + i]
<1>. DEFINE m == a + 1
            v == SubSeq(s, m, b)
<1>1. m \in Int /\ b \in Int /\ m = a + 1 /\ Len(s) \in Nat
  OBVIOUS
<1>. HIDE DEF m
<1>2. \A i \in m..b : s[i] \in T
  <2>1. \A i \in m..b : i \in 1..Len(s)
    BY <1>1
  <2>. QED  BY <2>1, ElementOfSeq
<1>3. /\ v \in Seq(T) /\ Len(v) = IF m <= b THEN b - m + 1 ELSE 0
      /\ \A i \in 1..b - m + 1 : v[i] = s[m + i - 1]
  BY <1>1, <1>2, SubSeqProperties
<1>. HIDE DEF v
<1>4. Len(v) = b - a
  BY <1>1, <1>3
<1>5. ASSUME NEW i \in 1..b - a PROVE v[i] = s[a + i]
  <2>1. i \in 1..b - m + 1 /\ m + i - 1 = a + i
    BY <1>1
  <2>. QED  BY <1>3, <2>1
<1>. QED  BY <1>3, <1>4, <1>5 DEF v, m

\* What was read does not change when more is written.
LEMMA CutStays ==
    ASSUME NEW T, NEW s \in Seq(T), NEW t \in Seq(T), NEW a \in Nat, NEW b \in Nat,
           a <= b, b <= Len(s)
    PROVE  SubSeq(s \o t, a + 1, b) = SubSeq(s, a + 1, b)
<1>. DEFINE u == s \o t
            v == SubSeq(u, a + 1, b)
            w == SubSeq(s, a + 1, b)
<1>1. /\ u \in Seq(T) /\ Len(u) = Len(s) + Len(t) /\ Len(s) \in Nat /\ Len(t) \in Nat
      /\ \A i \in 1..Len(s) + Len(t) : u[i] = IF i <= Len(s) THEN s[i] ELSE t[i - Len(s)]
  BY ConcatProperties
<1>. HIDE DEF u
<1>2. v \in Seq(T) /\ Len(v) = b - a /\ \A i \in 1..b - a : v[i] = u[a + i]
  <2>1. b <= Len(u)
    BY <1>1
  <2>. QED  BY <1>1, <2>1, Cut
<1>3. w \in Seq(T) /\ Len(w) = b - a /\ \A i \in 1..b - a : w[i] = s[a + i]
  BY Cut
<1>. HIDE DEF v, w
<1>4. ASSUME NEW i \in 1..b - a PROVE v[i] = w[i]
  <2>1. a + i \in 1..Len(s) + Len(t) /\ a + i <= Len(s)
    BY <1>1
  <2>. QED  BY <1>1, <1>2, <1>3, <2>1
<1>5. v = w
  BY <1>2, <1>3, <1>4, SeqEqual
<1>. QED  BY <1>5 DEF v, w, u

(* The invariant.                                                          *)

\* CONNECT first, one DISCONNECT of either kind last, no search asked or answered twice.
Script(q) ==
    /\ \A i \in 1..Len(q) : q[i].type = "CONNECT" <=> i = 1
    /\ \A i \in 1..Len(q) : i < Len(q) => q[i].type \notin {"DISCONNECT", "ADDNBRS"}
    /\ \A i, j \in 1..Len(q) :
         q[i].type \in {"REQ", "RESP"} /\ q[j].type \in {"REQ", "RESP"} /\ i # j
         => q[i].sid # q[j].sid

Reading == {[from |-> a, upto |-> b, text |-> x, effect |-> Handled(x)] :
              a \in Nat, b \in Nat, x \in Seq(Vocab)}

\* The reads take the stream from the left to the right and leave nothing out.
Readings ==
    /\ taken \in Nat /\ taken <= Len(Wire(sent))
    /\ effects \in Seq(Reading)
    /\ \A k \in 1..Len(effects) :
         /\ effects[k].from < effects[k].upto /\ effects[k].upto <= taken
         /\ effects[k].text = SubSeq(Wire(sent), effects[k].from + 1, effects[k].upto)
    /\ \A k, l \in 1..Len(effects) : k < l => effects[k].upto <= effects[l].from
    /\ \A p \in 1..taken :
         \E k \in 1..Len(effects) : effects[k].from < p /\ p <= effects[k].upto

\* The listener went on after each of them.
Listening == listens => \A k \in 1..Len(effects) :
    effects[k].effect.type \notin {"DISCONNECT", "ADDNBRS", "EXIT"}

StreamInv ==
    /\ sent \in Seq(Message) /\ Laid(sent) /\ Script(sent)
    /\ Readings
    /\ Listening

LEMMA ReadingIs ==
    ASSUME NEW e \in Reading
    PROVE  /\ e.from \in Nat /\ e.upto \in Nat /\ e.text \in Seq(Vocab)
           /\ e.effect = Handled(e.text)
<1>1. PICK a \in Nat, b \in Nat, x \in Seq(Vocab) :
        e = [from |-> a, upto |-> b, text |-> x, effect |-> Handled(x)]
  BY DEF Reading
<1>2. e.from = a /\ e.upto = b /\ e.text = x /\ e.effect = Handled(x)
  BY <1>1
<1>. QED  BY <1>2

LEMMA WireIsStream ==
    /\ Stream = Wire(sent)
    /\ \A i : Before(i) = Start(sent, i) /\ After(i) = Start(sent, i + 1)
BY DEF Stream, Wire, Texts, Before, After, Start

LEMMA InitInv == Init => StreamInv
<1>. SUFFICES ASSUME Init PROVE StreamInv
  OBVIOUS
<1>1. sent = <<>> /\ taken = 0 /\ effects = <<>>
  BY DEF Init
<1>2. sent \in Seq(Message) /\ effects \in Seq(Reading) /\ Len(effects) = 0 /\ Len(sent) = 0
  BY <1>1
<1>3. Laid(sent) /\ Len(Wire(sent)) = 0
  <2>1. Laid(sent) /\ Wire(sent) = <<>>
    BY <1>1, LaidNone
  <2>. QED  BY <2>1
<1>4. 1..Len(sent) = {} /\ 1..Len(effects) = {} /\ 1..taken = {}
  BY <1>1, <1>2
<1>5. Script(sent)
  BY <1>4 DEF Script
<1>6. Readings
  BY <1>1, <1>2, <1>3, <1>4 DEF Readings
<1>7. Listening
  BY <1>4 DEF Listening
<1>. QED  BY <1>2, <1>3, <1>5, <1>6, <1>7 DEF StreamInv

LEMMA SendInv ==
    ASSUME StreamInv, NEW m \in Message, Sends(m)
    PROVE  StreamInv'
<1>. DEFINE n == Len(sent)
            W == Wire(sent)
<1>1. /\ sent' = Append(sent, m) /\ taken' = taken /\ effects' = effects /\ listens' = listens
      /\ ~Left /\ (sent = <<>> <=> m.type = "CONNECT")
      /\ m.type \in {"REQ", "RESP"} => \A i \in 1..n :
            sent[i].type \in {"REQ", "RESP"} => sent[i].sid # m.sid
  BY DEF Sends
<1>2. sent \in Seq(Message) /\ Laid(sent) /\ n \in Nat
  <2>1. sent \in Seq(Message) /\ Laid(sent)
    BY DEF StreamInv
  <2>. QED  BY <2>1
<1>3. sent' \in Seq(Message) /\ Laid(sent')
  BY <1>1, <1>2, AppendProperties, LaidGrows
<1>4. /\ Len(sent') = n + 1 /\ sent'[n + 1] = m
      /\ \A i \in 1..n : sent'[i] = sent[i]
  BY <1>1, <1>2, AppendProperties
<1>5. /\ \A i \in 1..n : sent[i].type = "CONNECT" <=> i = 1
      /\ \A i \in 1..n : i < n => sent[i].type \notin {"DISCONNECT", "ADDNBRS"}
      /\ \A i, j \in 1..n :
           sent[i].type \in {"REQ", "RESP"} /\ sent[j].type \in {"REQ", "RESP"} /\ i # j
           => sent[i].sid # sent[j].sid
  BY DEF StreamInv, Script
<1>6. n > 0 => sent[n].type \notin {"DISCONNECT", "ADDNBRS"}
  <2>1. n > 0 => sent # <<>> /\ Last(sent) = sent[n]
    BY <1>2 DEF Last
  <2>. QED  BY <1>1, <2>1 DEF Left
<1>7. n = 0 <=> m.type = "CONNECT"
  <2>1. n = 0 <=> sent = <<>>
    BY <1>2
  <2>. QED  BY <1>1, <2>1
<1>. DEFINE q == sent'
<1>8. Script(q)
  <2>0. /\ Len(q) = n + 1 /\ q[n + 1] = m
        /\ \A i \in 1..n : q[i] = sent[i]
    BY <1>4
  <2>. HIDE DEF q, n
  <2>1. \A i \in 1..n + 1 : i \in 1..n \/ i = n + 1
    BY <1>2
  <2>2. ASSUME NEW i \in 1..n + 1 PROVE q[i].type = "CONNECT" <=> i = 1
    <3>1. CASE i \in 1..n
      BY <1>5, <2>0, <3>1
    <3>2. CASE i = n + 1
      BY <1>2, <1>7, <2>0, <3>2
    <3>. QED  BY <2>1, <3>1, <3>2
  <2>3. ASSUME NEW i \in 1..n + 1, i < n + 1 PROVE q[i].type \notin {"DISCONNECT", "ADDNBRS"}
    <3>1. i \in 1..n /\ (i < n \/ i = n) /\ n > 0
      BY <1>2, <2>3
    <3>. QED  BY <1>5, <1>6, <2>0, <3>1
  <2>4. ASSUME NEW i \in 1..n + 1, NEW j \in 1..n + 1, i # j,
               q[i].type \in {"REQ", "RESP"}, q[j].type \in {"REQ", "RESP"}
        PROVE  q[i].sid # q[j].sid
    <3>1. CASE i \in 1..n /\ j \in 1..n
      BY <1>5, <2>0, <2>4, <3>1
    <3>2. CASE i = n + 1 /\ j \in 1..n
      BY <1>1, <2>0, <2>4, <3>2 DEF n
    <3>3. CASE j = n + 1 /\ i \in 1..n
      BY <1>1, <2>0, <2>4, <3>3 DEF n
    <3>. QED  BY <2>1, <2>4, <3>1, <3>2, <3>3
  <2>. QED  BY <2>0, <2>2, <2>3, <2>4 DEF Script
<1>9. Wire(sent') = W \o Text(m) /\ W \in Seq(Vocab) /\ Text(m) \in Seq(Vocab)
  BY <1>1, <1>2, WireGrows, TextTells DEF Laid
<1>10. /\ taken \in Nat /\ taken <= Len(W)
       /\ effects \in Seq(Reading)
       /\ \A k \in 1..Len(effects) :
            /\ effects[k].from < effects[k].upto /\ effects[k].upto <= taken
            /\ effects[k].text = SubSeq(W, effects[k].from + 1, effects[k].upto)
       /\ \A k, l \in 1..Len(effects) : k < l => effects[k].upto <= effects[l].from
       /\ \A p \in 1..taken :
            \E k \in 1..Len(effects) : effects[k].from < p /\ p <= effects[k].upto
  BY DEF StreamInv, Readings
<1>. HIDE DEF W
<1>11. taken <= Len(Wire(sent'))
  <2>1. Len(W \o Text(m)) = Len(W) + Len(Text(m)) /\ Len(W) \in Nat /\ Len(Text(m)) \in Nat
    BY <1>9, ConcatProperties
  <2>. QED  BY <1>9, <1>10, <2>1
<1>12. ASSUME NEW k \in 1..Len(effects)
       PROVE  effects[k].text = SubSeq(Wire(sent'), effects[k].from + 1, effects[k].upto)
  <2>. DEFINE a == effects[k].from
              b == effects[k].upto
  <2>1. a \in Nat /\ b \in Nat
    BY <1>10, ElementOfSeq, ReadingIs
  <2>2. a <= b /\ b <= Len(W) /\ effects[k].text = SubSeq(W, a + 1, b)
    <3>1. a < b /\ b <= taken /\ effects[k].text = SubSeq(W, a + 1, b)
      BY <1>10
    <3>2. Len(W) \in Nat
      BY <1>9
    <3>. QED  BY <1>10, <2>1, <3>1, <3>2
  <2>. HIDE DEF a, b
  <2>3. SubSeq(W \o Text(m), a + 1, b) = SubSeq(W, a + 1, b)
    BY <1>9, <2>1, <2>2, CutStays
  <2>4. effects[k].text = SubSeq(Wire(sent'), a + 1, b)
    BY <1>9, <2>2, <2>3
  <2>. QED  BY <2>4 DEF a, b
<1>13. Readings'
  BY <1>1, <1>10, <1>11, <1>12 DEF Readings
<1>14. Listening'
  BY <1>1 DEF StreamInv, Listening
<1>. QED  BY <1>3, <1>8, <1>13, <1>14 DEF StreamInv, q

LEMMA ReadInv ==
    ASSUME StreamInv, Read
    PROVE  StreamInv'
<1>. DEFINE W == Wire(sent)
            k == Min({MaxRead, Len(Stream) - taken})
            x == TextRead(k)
            e == [from |-> taken, upto |-> taken + k, text |-> x, effect |-> Handled(x)]
            n == Len(effects)
<1>1. /\ sent \in Seq(Message) /\ Laid(sent) /\ Script(sent) /\ W \in Seq(Vocab)
      /\ taken \in Nat /\ taken <= Len(W) /\ effects \in Seq(Reading)
      /\ \A l \in 1..n :
           /\ effects[l].from < effects[l].upto /\ effects[l].upto <= taken
           /\ effects[l].text = SubSeq(W, effects[l].from + 1, effects[l].upto)
      /\ \A i, l \in 1..n : i < l => effects[i].upto <= effects[l].from
      /\ \A p \in 1..taken : \E l \in 1..n : effects[l].from < p /\ p <= effects[l].upto
  BY DEF StreamInv, Readings, Laid
<1>2. Stream = W
  BY WireIsStream
<1>3. Len(W) \in Nat /\ n \in Nat
  BY <1>1
<1>4. /\ listens /\ k > 0 /\ taken' = taken + k
      /\ effects' = Append(effects, e)
      /\ connected' = StaysUp(Handled(x))
      /\ listens' = (connected' /\ Handled(x).type # "UB")
      /\ sent' = sent
  BY DEF Read
<1>5. k \in Nat /\ taken + k <= Len(W)
  <2>. DEFINE r == Len(W) - taken
  <2>1. MaxRead \in Nat /\ r \in Nat
    BY <1>1, <1>3, StreamAssumption
  <2>2. k = Min({MaxRead, r})
    BY <1>2
  <2>. HIDE DEF r, k
  <2>3. {MaxRead, r} \subseteq Nat
    BY <2>1
  <2>4. CASE MaxRead <= r
    <3>1. MaxRead \in {MaxRead, r} /\ \A y \in {MaxRead, r} : MaxRead <= y
      BY <2>1, <2>4
    <3>2. k = MaxRead
      BY <2>2, <2>3, <3>1, MinIs
    <3>. QED  BY <1>1, <1>3, <2>1, <2>4, <3>2 DEF r
  <2>5. CASE r <= MaxRead
    <3>1. r \in {MaxRead, r} /\ \A y \in {MaxRead, r} : r <= y
      BY <2>1, <2>5
    <3>2. k = r
      BY <2>2, <2>3, <3>1, MinIs
    <3>. QED  BY <1>1, <1>3, <2>1, <3>2 DEF r
  <2>. QED  BY <2>1, <2>4, <2>5
<1>. HIDE DEF k
<1>6. x = SubSeq(W, taken + 1, taken + k)
  BY <1>2 DEF TextRead
<1>. HIDE DEF W
<1>7. x \in Seq(Vocab)
  <2>. DEFINE a == taken
              b == taken + k
  <2>1. a \in Nat /\ b \in Nat /\ a <= b /\ b <= Len(W)
    BY <1>1, <1>4, <1>5
  <2>. HIDE DEF a, b
  <2>2. SubSeq(W, a + 1, b) \in Seq(Vocab)
    BY <1>1, <2>1, Cut
  <2>. QED  BY <1>6, <2>2 DEF a, b
<1>. HIDE DEF x
<1>8. taken + k \in Nat
  BY <1>1, <1>5
<1>9. e \in Reading
  BY <1>1, <1>7, <1>8 DEF Reading
<1>10. /\ e.from = taken /\ e.upto = taken + k /\ e.text = x /\ e.effect = Handled(x)
  OBVIOUS
<1>. HIDE DEF e
<1>11. /\ effects' \in Seq(Reading) /\ Len(effects') = n + 1 /\ effects'[n + 1] = e
       /\ \A l \in 1..n : effects'[l] = effects[l]
  BY <1>1, <1>4, <1>9, AppendProperties
<1>. HIDE DEF n
<1>12. \A l \in 1..n + 1 : l \in 1..n \/ l = n + 1
  BY <1>3
<1>13. \A l \in 1..n : effects[l].from \in Nat /\ effects[l].upto \in Nat
  <2>1. \A l \in 1..n : effects[l] \in Reading
    BY <1>1 DEF n
  <2>. QED  BY <2>1, ReadingIs
<1>14. taken < taken + k
  BY <1>1, <1>4, <1>5
<1>. DEFINE f == effects'
<1>15. /\ Len(f) = n + 1 /\ f[n + 1] = e /\ \A l \in 1..n : f[l] = effects[l]
  BY <1>11
<1>16. Wire(sent') = W
  BY <1>4 DEF W
<1>. DEFINE t == taken + k
<1>17. /\ t \in Nat /\ taken < t /\ t <= Len(W) /\ e.from = taken /\ e.upto = t
       /\ e.text = SubSeq(W, taken + 1, t)
  BY <1>5, <1>6, <1>8, <1>10, <1>14
<1>. HIDE DEF f, t
<1>18. ASSUME NEW l \in 1..n + 1
       PROVE  /\ f[l].from < f[l].upto /\ f[l].upto <= t
              /\ f[l].text = SubSeq(W, f[l].from + 1, f[l].upto)
  <2>1. CASE l = n + 1
    BY <1>15, <1>17, <2>1
  <2>2. CASE l \in 1..n
    <3>1. /\ f[l].from < f[l].upto /\ f[l].upto <= taken
          /\ f[l].text = SubSeq(W, f[l].from + 1, f[l].upto)
      BY <1>1, <1>15, <2>2
    <3>2. f[l].upto \in Nat
      BY <1>13, <1>15, <2>2
    <3>. QED  BY <1>1, <1>17, <3>1, <3>2
  <2>. QED  BY <1>12, <2>1, <2>2
<1>19. ASSUME NEW i \in 1..n + 1, NEW l \in 1..n + 1, i < l PROVE f[i].upto <= f[l].from
  <2>1. i \in 1..n
    BY <1>3, <1>19
  <2>2. CASE l = n + 1
    BY <1>1, <1>15, <1>17, <2>1, <2>2
  <2>3. CASE l \in 1..n
    BY <1>1, <1>15, <1>19, <2>1, <2>3
  <2>. QED  BY <1>12, <2>2, <2>3
<1>20. ASSUME NEW p \in 1..t PROVE \E l \in 1..n + 1 : f[l].from < p /\ p <= f[l].upto
  <2>1. CASE p \in 1..taken
    <3>1. PICK l \in 1..n : effects[l].from < p /\ p <= effects[l].upto
      BY <1>1, <2>1
    <3>2. l \in 1..n + 1 /\ f[l] = effects[l]
      BY <1>3, <1>15
    <3>. QED  BY <3>1, <3>2
  <2>2. CASE ~(p \in 1..taken)
    <3>1. taken < p /\ p <= t /\ n + 1 \in 1..n + 1
      BY <1>1, <1>3, <1>17, <2>2
    <3>. QED  BY <1>15, <1>17, <3>1
  <2>. QED  BY <2>1, <2>2
<1>21. Readings'
  <2>1. taken' = t /\ effects' = f /\ Wire(sent') = W /\ Len(f) = n + 1 /\ f \in Seq(Reading)
    BY <1>4, <1>11, <1>16 DEF f, t
  <2>2. t \in Nat /\ t <= Len(W)
    BY <1>17
  <2>. QED  BY <1>18, <1>19, <1>20, <2>1, <2>2 DEF Readings
<1>22. Listening'
  <2>. SUFFICES ASSUME listens', NEW l \in 1..n + 1
                PROVE  f[l].effect.type \notin {"DISCONNECT", "ADDNBRS", "EXIT"}
    BY <1>15 DEF Listening, f
  <2>1. CASE l = n + 1
    BY <1>4, <1>10, <1>15, <2>1 DEF StaysUp
  <2>2. CASE l \in 1..n
    BY <1>4, <1>15, <2>2 DEF StreamInv, Listening, n
  <2>. QED  BY <1>12, <2>1, <2>2
<1>. QED  BY <1>1, <1>4, <1>21, <1>22 DEF StreamInv

LEMMA StreamAlways == Spec => []StreamInv
<1>1. StreamInv /\ [Next]_vars => StreamInv'
  <2>. SUFFICES ASSUME StreamInv, [Next]_vars PROVE StreamInv'
    OBVIOUS
  <2>1. CASE Read
    BY <2>1, ReadInv
  <2>2. ASSUME NEW m \in Message, Sends(m) PROVE StreamInv'
    BY <2>2, SendInv
  <2>3. CASE UNCHANGED vars
    BY <2>3 DEF vars, StreamInv, Readings, Listening
  <2>. QED  BY <2>1, <2>2, <2>3 DEF Next, Message
<1>. QED  BY InitInv, <1>1, PTL DEF Spec

(* What a read returned.                                                   *)

LEMMA ReadShape ==
    ASSUME StreamInv, NEW e \in ToSet(effects)
    PROVE  /\ \E k \in 1..Len(effects) : e = effects[k]
           /\ e.from \in Nat /\ e.upto \in Nat /\ e.from < e.upto /\ e.upto <= taken
           /\ e.upto <= Len(Wire(sent))
           /\ e.text \in Seq(Vocab) /\ Len(e.text) = e.upto - e.from
           /\ \A k \in 1..e.upto - e.from : e.text[k] = Wire(sent)[e.from + k]
           /\ e.effect = Handled(e.text)
<1>1. /\ Wire(sent) \in Seq(Vocab) /\ taken \in Nat /\ taken <= Len(Wire(sent))
      /\ effects \in Seq(Reading)
      /\ \A k \in 1..Len(effects) :
           /\ effects[k].from < effects[k].upto /\ effects[k].upto <= taken
           /\ effects[k].text = SubSeq(Wire(sent), effects[k].from + 1, effects[k].upto)
  BY DEF StreamInv, Readings, Laid
<1>2. PICK k \in 1..Len(effects) : e = effects[k]
  BY <1>1 DEF ToSet
<1>3. e \in Reading
  BY <1>1, <1>2
<1>4. /\ e.from \in Nat /\ e.upto \in Nat /\ e.text \in Seq(Vocab) /\ e.effect = Handled(e.text)
  BY <1>3, ReadingIs
<1>. DEFINE a == e.from
            b == e.upto
            W == Wire(sent)
<1>5. a < b /\ b <= taken /\ e.text = SubSeq(W, a + 1, b)
  BY <1>1, <1>2
<1>6. W \in Seq(Vocab) /\ taken \in Nat /\ taken <= Len(W) /\ a \in Nat /\ b \in Nat
  BY <1>1, <1>4
<1>. HIDE DEF a, b, W
<1>7. b <= Len(W) /\ a <= b
  <2>1. Len(W) \in Nat
    BY <1>6
  <2>. QED  BY <1>5, <1>6, <2>1
<1>. DEFINE v == SubSeq(W, a + 1, b)
<1>8. v \in Seq(Vocab) /\ Len(v) = b - a /\ \A i \in 1..b - a : v[i] = W[a + i]
  BY <1>6, <1>7, Cut
<1>. HIDE DEF v
<1>9. e.text = v
  BY <1>5 DEF v
<1>. QED  BY <1>2, <1>4, <1>5, <1>7, <1>8, <1>9 DEF a, b, W

LEMMA PlaceOf ==
    ASSUME StreamInv, NEW i \in 1..Len(sent)
    PROVE  /\ sent[i] \in Message /\ Text(sent[i]) \in Seq(Vocab)
           /\ Len(Text(sent[i])) \in Nat /\ Len(Text(sent[i])) > 0
           /\ Before(i) = Start(sent, i) /\ After(i) = Start(sent, i + 1)
           /\ Before(i) \in Nat /\ After(i) = Before(i) + Len(Text(sent[i]))
           /\ After(i) <= Len(Wire(sent))
           /\ \A k \in 1..Len(Text(sent[i])) : Wire(sent)[Before(i) + k] = Text(sent[i])[k]
<1>. DEFINE n == Len(sent)
<1>1. /\ sent \in Seq(Message) /\ Wire(sent) \in Seq(Vocab)
      /\ \A j \in 1..n + 1 : Start(sent, j) \in Nat
      /\ Start(sent, n + 1) = Len(Wire(sent))
      /\ \A j \in 1..n : Start(sent, j + 1) = Start(sent, j) + Len(Text(sent[j]))
      /\ \A j \in 1..n, l \in 1..n + 1 : j < l => Start(sent, j + 1) <= Start(sent, l)
      /\ \A j \in 1..n : \A k \in 1..Len(Text(sent[j])) :
           Wire(sent)[Start(sent, j) + k] = Text(sent[j])[k]
  BY DEF StreamInv, Laid
<1>2. n \in Nat /\ i \in 1..n + 1 /\ n + 1 \in 1..n + 1 /\ i < n + 1 /\ i \in 1..n
  BY <1>1
<1>. HIDE DEF n
<1>3. sent[i] \in Message
  BY <1>1, ElementOfSeq
<1>4. Text(sent[i]) \in Seq(Vocab) /\ Len(Text(sent[i])) > 0
  BY <1>3, TextTells
<1>5. Len(Text(sent[i])) \in Nat
  BY <1>4
<1>6. Before(i) = Start(sent, i) /\ After(i) = Start(sent, i + 1)
  BY WireIsStream
<1>7. After(i) <= Len(Wire(sent))
  BY <1>1, <1>2, <1>6
<1>8. Before(i) \in Nat /\ After(i) = Before(i) + Len(Text(sent[i]))
  BY <1>1, <1>2, <1>6
<1>9. \A k \in 1..Len(Text(sent[i])) : Wire(sent)[Before(i) + k] = Text(sent[i])[k]
  BY <1>1, <1>2, <1>6
<1>. QED  BY <1>3, <1>4, <1>5, <1>6, <1>7, <1>8, <1>9

\* A read that begins with message i and takes all of it.
LEMMA ReadHead ==
    ASSUME StreamInv, NEW i \in 1..Len(sent), NEW e \in ToSet(effects),
           e.from = Before(i), e.upto >= After(i)
    PROVE  /\ Len(e.text) >= Len(Text(sent[i]))
           /\ \A k \in 1..Len(Text(sent[i])) : e.text[k] = Text(sent[i])[k]
<1>. DEFINE l == Len(Text(sent[i]))
            b == Before(i)
            W == Wire(sent)
<1>1. l \in Nat /\ b \in Nat /\ After(i) = b + l /\ \A k \in 1..l : W[b + k] = Text(sent[i])[k]
  BY PlaceOf
<1>2. /\ e.upto \in Nat /\ Len(e.text) = e.upto - b
      /\ \A k \in 1..e.upto - b : e.text[k] = W[b + k]
  BY ReadShape
<1>3. e.upto >= b + l
  BY <1>1
<1>. HIDE DEF l, b, W
<1>4. Len(e.text) >= l
  BY <1>1, <1>2, <1>3
<1>5. \A k \in 1..l : k \in 1..e.upto - b
  BY <1>1, <1>2, <1>3
<1>. QED  BY <1>1, <1>2, <1>4, <1>5 DEF l

\* simple-search.cpp:67-276, for any ids, words, hits and neighbors and any size of the
\* buffer: a message read alone is understood as it was meant.
THEOREM SpecAloneUnderstood == Spec => []AloneUnderstood
<1>1. StreamInv => AloneUnderstood
  <2>. SUFFICES ASSUME StreamInv, NEW i \in 1..Len(sent), NEW e \in Alone(i)
                PROVE  e.effect = Meaning(sent[i])
    BY DEF AloneUnderstood
  <2>1. e \in ToSet(effects) /\ e.from = Before(i) /\ e.upto = After(i)
    BY DEF Alone
  <2>. DEFINE u == Text(sent[i])
  <2>2. /\ sent[i] \in Message /\ u \in Seq(Vocab) /\ Len(u) \in Nat
        /\ Before(i) \in Nat /\ After(i) = Before(i) + Len(u)
    BY PlaceOf
  <2>3. \A k \in 1..Len(u) : e.text[k] = u[k]
    <3>1. e.upto >= After(i)
      BY <2>1, <2>2
    <3>. QED  BY <2>1, <3>1, ReadHead
  <2>4. e.text \in Seq(Vocab) /\ Len(e.text) = e.upto - e.from /\ e.effect = Handled(e.text)
    BY <2>1, ReadShape
  <2>. HIDE DEF u
  <2>5. Len(e.text) = Len(u)
    BY <2>1, <2>2, <2>4
  <2>6. e.text = u
    BY <2>2, <2>3, <2>4, <2>5, SeqEqual
  <2>7. Handled(Text(sent[i])) = Meaning(sent[i])
    BY <2>2, ParserUndoesFormatter
  <2>. QED  BY <2>4, <2>6, <2>7 DEF u
<1>. QED  BY <1>1, StreamAlways, PTL

\* Which type of effect a text has, by what is found in it.
LEMMA RequestForms ==
    ASSUME NEW u
    PROVE  \/ TakesRequest(u) = Effect("UB")
           \/ TakesRequest(u).type = "REQ" /\ TakesRequest(u).sid = Split(u, Underscore)[2]
<1>. DEFINE t == Split(u, Underscore)
            kw == t[4] = <<"KW">>
            known == [type |-> "REQ", sid |-> t[2]]
            long == [type |-> "REQ", sid |-> t[2], hop |-> t[3], keyword |-> kw, word |-> t[5]]
<1>1. TakesRequest(u) =
         IF Len(t) < 2 THEN Effect("UB")
         ELSE IF t[2] \in {<<y>> : y \in Forwarded} THEN known
         ELSE IF Len(t) < 5 THEN Effect("UB") ELSE long
  BY DEF TakesRequest
<1>. HIDE DEF t, kw
<1>2. known.type = "REQ" /\ known.sid = t[2] /\ long.type = "REQ" /\ long.sid = t[2]
  OBVIOUS
<1>. HIDE DEF known, long
<1>. QED  BY <1>1, <1>2 DEF t

LEMMA ResponseForms ==
    ASSUME NEW u
    PROVE  \/ TakesResponse(u) = Effect("UB") \/ TakesResponse(u) = Effect("INVALID")
           \/ /\ TakesResponse(u).type = "RESP"
              /\ TakesResponse(u).sid = Split(u, Underscore)[2]
              /\ ~(Len(Split(u, Underscore)) < 2)
<1>. DEFINE t == Split(u, Underscore)
            yes == Len(t) >= 3 /\ t[3] = <<"YES">>
            hits == IF yes /\ Len(t) >= 4 THEN Split(t[4], Comma) ELSE <<>>
            cut == Len(t) < 3 \/ (yes /\ Len(t) < 4)
            shown1 == IF Len(t) = 4 THEN hits ELSE <<>>
            whole == [type |-> "RESP", sid |-> t[2], short |-> cut, relayed |-> hits,
                      shown |-> shown1]
<1>1. TakesResponse(u) =
         IF Len(t) < 2 THEN Effect("UB")
         ELSE IF t[2] \notin {<<y>> : y \in Forwarded \cup Created} THEN Effect("INVALID")
         ELSE IF Len(t) < 3 /\ t[2] \notin {<<y>> : y \in Forwarded} THEN Effect("UB")
         ELSE whole
  BY DEF TakesResponse
<1>. HIDE DEF t, yes, hits, cut, shown1
<1>2. whole.type = "RESP" /\ whole.sid = t[2]
  OBVIOUS
<1>. HIDE DEF whole
<1>. QED  BY <1>1, <1>2 DEF t

LEMMA HandledType ==
    ASSUME NEW u
    PROVE  /\ Handled(u).type \in {"DISCONNECT", "ADDNBRS", "EXIT", "CONNECT", "REQ", "RESP",
                                   "UB", "INVALID"}
           /\ Finds(u, "DISCONNECT_ADDNBRS_") =>
                Handled(u).type \in {"DISCONNECT", "ADDNBRS", "EXIT"}
           /\ Handled(u).type = "REQ" =>
                Finds(u, "SEARCH-REQ") /\ Handled(u) = TakesRequest(u)
           /\ Handled(u).type = "RESP" =>
                Finds(u, "SEARCH-RESP") /\ Handled(u) = TakesResponse(u)
                /\ ~Finds(u, "SEARCH-REQ")
<1>1. /\ Effect("DISCONNECT").type = "DISCONNECT" /\ Effect("INVALID").type = "INVALID"
      /\ Effect("UB").type = "UB" /\ Effect("EXIT").type = "EXIT"
  BY DEF Effect
<1>2. TakesAddNeighbors(u).type \in {"ADDNBRS", "EXIT"}
  BY <1>1 DEF TakesAddNeighbors
<1>3. TakesConnect(u).type \in {"CONNECT", "UB"}
  BY <1>1 DEF TakesConnect
<1>4. TakesRequest(u).type \in {"REQ", "UB"}
  BY <1>1, RequestForms
<1>5. TakesResponse(u).type \in {"RESP", "UB", "INVALID"}
  BY <1>1, ResponseForms
<1>. QED  BY <1>1, <1>2, <1>3, <1>4, <1>5 DEF Handled

\* Lines 70-83 and 283-311: a peer that left is noticed, unless its DISCONNECT was read
\* together with an earlier message.
THEOREM SpecLeaveNoticed == Spec => []LeaveNoticed
<1>1. StreamInv => LeaveNoticed
  <2>. DEFINE n == Len(sent)
              W == Wire(sent)
              b == Before(n)
  <2>. SUFFICES ASSUME StreamInv, Left, taken = Len(Stream), listens
                PROVE  Last(sent).type = "DISCONNECT" /\ GluedBefore(n)
    BY DEF LeaveNoticed
  <2>1. sent \in Seq(Message) /\ sent # <<>>
    BY DEF StreamInv, Left
  <2>2. n \in Nat /\ n \in 1..n /\ Last(sent) = sent[n]
    BY <2>1 DEF Last
  <2>3. /\ sent[n] \in Message /\ Text(sent[n]) \in Seq(Vocab)
        /\ Len(Text(sent[n])) \in Nat /\ Len(Text(sent[n])) > 0
        /\ b \in Nat /\ After(n) = b + Len(Text(sent[n])) /\ After(n) <= Len(W)
        /\ \A k \in 1..Len(Text(sent[n])) : W[b + k] = Text(sent[n])[k]
    BY <2>2, PlaceOf
  <2>4. After(n) = Len(W)
    BY WireIsStream DEF StreamInv, Laid
  <2>5. taken = Len(W) /\ taken \in Nat
    BY WireIsStream DEF StreamInv, Readings
  <2>. DEFINE p == b + 1
  <2>6. p \in 1..taken
    BY <2>3, <2>4, <2>5
  <2>7. PICK k \in 1..Len(effects) : effects[k].from < p /\ p <= effects[k].upto
    BY <2>6 DEF StreamInv, Readings
  <2>. DEFINE e == effects[k]
              a == e.from
              c == e.upto
  <2>8. e \in ToSet(effects)
    <3>1. effects \in Seq(Reading)
      BY DEF StreamInv, Readings
    <3>. QED  BY <3>1 DEF ToSet
  <2>9. e.effect.type \notin {"DISCONNECT", "ADDNBRS", "EXIT"}
    BY DEF StreamInv, Listening
  <2>10. a < p /\ p <= c
    BY <2>7
  <2>. HIDE DEF e
  <2>11. /\ a \in Nat /\ c \in Nat /\ c <= Len(W)
         /\ e.text \in Seq(Vocab) /\ Len(e.text) = c - a
         /\ \A l \in 1..c - a : e.text[l] = W[a + l]
         /\ e.effect = Handled(e.text)
    BY <2>8, ReadShape
  <2>. HIDE DEF a, b, c, W
  <2>12. W[p] = Text(sent[n])[1]
    BY <2>3
  <2>13. e.text[p - a] = W[p] /\ p - a \in 1..Len(e.text)
    <3>1. p - a \in 1..c - a /\ a + (p - a) = p
      BY <2>3, <2>10, <2>11
    <3>. QED  BY <2>11, <3>1
  <2>14. sent[n].type # "ADDNBRS"
    <3>. SUFFICES ASSUME sent[n].type = "ADDNBRS" PROVE FALSE
      OBVIOUS
    <3>1. sent[n] = AddNeighbors
      BY <2>3, MessageTypes
    <3>2. Text(sent[n])[1] = "DISCONNECT_ADDNBRS_"
      BY <3>1, AddNeighborsTells
    <3>3. Finds(e.text, "DISCONNECT_ADDNBRS_")
      BY <2>12, <2>13, <3>2 DEF Finds
    <3>. QED  BY <2>9, <2>11, <3>3, HandledType
  <2>15. sent[n].type = "DISCONNECT"
    BY <2>2, <2>14 DEF Left
  <2>16. Text(sent[n]) = <<"DISCONNECT">>
    BY <2>3, <2>15, MessageTypes, DisconnectTells
  <2>17. Len(Text(sent[n])) = 1 /\ Text(sent[n])[1] = "DISCONNECT"
    BY <2>16
  <2>18. c = b + 1 /\ a <= b /\ c > b
    BY <2>3, <2>4, <2>10, <2>11, <2>17
  <2>19. a # b
    <3>. SUFFICES ASSUME a = b PROVE FALSE
      OBVIOUS
    <3>1. Len(e.text) = 1 /\ p - a = 1
      BY <2>3, <2>11, <2>18
    <3>2. e.text[1] = "DISCONNECT"
      BY <2>12, <2>13, <2>17, <3>1
    <3>3. e.text = <<"DISCONNECT">>
      BY <2>11, <3>1, <3>2
    <3>4. Handled(e.text) = Effect("DISCONNECT")
      BY <3>3 DEF Handled
    <3>5. e.effect.type = "DISCONNECT"
      BY <2>11, <3>4 DEF Effect
    <3>. QED  BY <2>9, <3>5
  <2>20. a < b /\ c > b
    BY <2>3, <2>11, <2>18, <2>19
  <2>21. GluedBefore(n)
    BY <2>8, <2>20 DEF GluedBefore, a, b, c
  <2>. QED  BY <2>2, <2>15, <2>21
<1>. QED  BY <1>1, StreamAlways, PTL

\* Where an atom of a read is from.
LEMMA AtomIsFrom ==
    ASSUME StreamInv, NEW e \in ToSet(effects), NEW l \in 1..Len(e.text)
    PROVE  \E j \in 1..Len(sent) : \E k \in 1..Len(Text(sent[j])) :
             /\ e.from + l = Before(j) + k
             /\ e.text[l] = Text(sent[j])[k]
             /\ Before(j) < e.upto
             /\ \A i \in 1..Len(sent) : Before(i) <= e.from => i <= j
<1>. DEFINE n == Len(sent)
            W == Wire(sent)
<1>1. /\ e.from \in Nat /\ e.upto \in Nat /\ e.upto <= Len(W) /\ W \in Seq(Vocab)
      /\ Len(e.text) = e.upto - e.from
      /\ \A k \in 1..e.upto - e.from : e.text[k] = W[e.from + k]
  BY ReadShape DEF StreamInv, Laid
<1>2. l \in 1..e.upto - e.from /\ e.from + l \in 1..Len(W)
  BY <1>1
<1>3. PICK j \in 1..n : \E k \in 1..Len(Text(sent[j])) : e.from + l = Start(sent, j) + k
  BY <1>2 DEF StreamInv, Laid
<1>4. /\ Before(j) = Start(sent, j) /\ Before(j) \in Nat /\ Len(Text(sent[j])) \in Nat
      /\ After(j) = Before(j) + Len(Text(sent[j])) /\ After(j) = Start(sent, j + 1)
      /\ \A k \in 1..Len(Text(sent[j])) : W[Before(j) + k] = Text(sent[j])[k]
  BY PlaceOf
<1>5. PICK k \in 1..Len(Text(sent[j])) : e.from + l = Before(j) + k
  BY <1>3, <1>4
<1>6. \A i \in 1..n : Before(i) = Start(sent, i) /\ Before(i) \in Nat
  BY PlaceOf
<1>7. \A i \in 1..n : j < i => Start(sent, j + 1) <= Start(sent, i)
  <2>1. n \in Nat
    BY DEF StreamInv
  <2>2. \A i \in 1..n : i \in 1..n + 1
    BY <2>1
  <2>. QED  BY <2>2 DEF StreamInv, Laid
<1>. HIDE DEF n, W
<1>8. e.text[l] = Text(sent[j])[k]
  BY <1>1, <1>2, <1>4, <1>5
<1>9. Before(j) < e.upto
  BY <1>1, <1>2, <1>4, <1>5
<1>10. ASSUME NEW i \in 1..n, Before(i) <= e.from PROVE i <= j
  <2>. SUFFICES ASSUME ~(i <= j) PROVE FALSE
    OBVIOUS
  <2>1. n \in Nat
    BY DEF StreamInv, n
  <2>2. j < i
    BY <2>1
  <2>3. After(j) <= Before(i)
    BY <1>4, <1>6, <1>7, <2>2
  <2>. QED  BY <1>1, <1>2, <1>4, <1>5, <1>6, <1>10, <2>3
<1>. QED  BY <1>5, <1>8, <1>9, <1>10 DEF n

\* The first three tokens of a text that begins as a search message does.
LEMMA SplitThree ==
    ASSUME NEW u \in Seq(Vocab), NEW d \in Vocab, Len(u) >= 5,
           u[1] # d, u[2] = d, u[3] # d, u[4] = d, u[5] # d
    PROVE  LET t == Split(u, d) IN
           /\ Len(t) \in Nat /\ Len(t) >= 3
           /\ t[2] = <<u[3]>>
           /\ t[3] \in Seq(Vocab) /\ Len(t[3]) > 0 /\ t[3][1] = u[5]
           /\ Len(u) >= 6 /\ u[6] = d => Len(t) >= 4 /\ t[3] = <<u[5]>>
<1>. DEFINE r == SubSeq(u, 3, Len(u))
            v == SubSeq(r, 3, Len(r))
            t == Split(u, d)
            tr == Split(r, d)
            tv == Split(v, d)
<1>1. Len(u) \in Nat /\ Len(u) >= 2
  OBVIOUS
<1>2. /\ r \in Seq(Vocab) /\ Len(r) = Len(u) - 2 /\ \A k \in 1..Len(u) - 2 : r[k] = u[k + 2]
      /\ tr \in Seq(Seq(Vocab)) /\ Len(tr) \in Nat \ {0} /\ Len(t) = Len(tr) + 1
      /\ \A k \in 1..Len(tr) : t[k + 1] = tr[k]
  BY <1>1, SplitFirst
<1>. HIDE DEF r, tr, t
<1>3. Len(r) >= 3 /\ Len(r) \in Nat /\ r[1] = u[3] /\ r[2] = u[4] /\ r[3] = u[5]
  <2>1. /\ 1 \in 1..Len(u) - 2 /\ 2 \in 1..Len(u) - 2 /\ 3 \in 1..Len(u) - 2
        /\ 1 + 2 = 3 /\ 2 + 2 = 4 /\ 3 + 2 = 5
    BY <1>1
  <2>2. Len(r) >= 3 /\ Len(r) \in Nat
    BY <1>1, <1>2
  <2>. QED  BY <1>2, <2>1, <2>2
<1>4. Len(r) >= 2 /\ r[1] # d /\ r[2] = d
  BY <1>3
<1>5. /\ v \in Seq(Vocab) /\ Len(v) = Len(r) - 2 /\ \A k \in 1..Len(r) - 2 : v[k] = r[k + 2]
      /\ tv \in Seq(Seq(Vocab)) /\ Len(tv) \in Nat \ {0} /\ Len(tr) = Len(tv) + 1
      /\ tr[1] = <<r[1]>>
      /\ \A k \in 1..Len(tv) : tr[k + 1] = tv[k]
  BY <1>2, <1>4, SplitFirst DEF tr
<1>. HIDE DEF v, tv
<1>6. Len(v) >= 1 /\ Len(v) \in Nat /\ v[1] = u[5]
  <2>1. 1 \in 1..Len(r) - 2 /\ 1 + 2 = 3
    BY <1>3
  <2>. QED  BY <1>3, <1>5, <2>1
<1>7. tv[1] \in Seq(Vocab) /\ Len(tv[1]) > 0 /\ tv[1][1] = v[1]
  <2>1. v # <<>> /\ v[1] # d
    BY <1>6
  <2>. QED  BY <1>5, <2>1, SplitHead DEF tv
<1>8. Len(t) \in Nat /\ Len(t) >= 3 /\ Len(t) = Len(tv) + 2
  BY <1>2, <1>5
<1>9. t[2] = tr[1] /\ t[3] = tv[1]
  <2>1. /\ 1 \in 1..Len(tr) /\ 2 \in 1..Len(tr) /\ 1 \in 1..Len(tv)
        /\ 1 + 1 = 2 /\ 2 + 1 = 3
    BY <1>2, <1>5
  <2>. QED  BY <1>2, <1>5, <2>1
<1>10. ASSUME Len(u) >= 6, u[6] = d PROVE Len(t) >= 4 /\ t[3] = <<u[5]>>
  <2>1. Len(v) >= 2 /\ v[2] = d
    <3>1. /\ 4 \in 1..Len(u) - 2 /\ 4 + 2 = 6 /\ 2 \in 1..Len(r) - 2 /\ 2 + 2 = 4
      BY <1>1, <1>2, <1>10
    <3>2. r[4] = u[6]
      BY <1>2, <3>1
    <3>3. v[2] = r[4]
      BY <1>5, <3>1
    <3>4. Len(v) >= 2
      BY <1>1, <1>2, <1>5, <1>10
    <3>. QED  BY <1>10, <3>2, <3>3, <3>4
  <2>2. v[1] # d
    BY <1>6
  <2>. DEFINE w == SubSeq(v, 3, Len(v))
              tw == Split(w, d)
  <2>3. Len(tw) \in Nat \ {0} /\ Len(tv) = Len(tw) + 1 /\ tv[1] = <<v[1]>>
    BY <1>5, <2>1, <2>2, SplitFirst DEF tv
  <2>. HIDE DEF w, tw
  <2>. QED  BY <1>6, <1>8, <1>9, <2>3
<1>. QED  BY <1>3, <1>5, <1>7, <1>6, <1>8, <1>9, <1>10 DEF t

\* How the text of a search message begins.
LEMMA SearchHead ==
    ASSUME NEW m \in Message, m.type \in {"REQ", "RESP"}
    PROVE  LET u == Text(m) IN
           /\ Len(u) \in Nat /\ Len(u) >= 5
           /\ u[1] # Underscore /\ u[2] = Underscore /\ u[3] = m.sid /\ u[3] # Underscore
           /\ u[4] = Underscore /\ u[5] # Underscore
           /\ m.type = "REQ" => u[1] = "SEARCH-REQ"
           /\ m.type = "RESP" => /\ u[1] = "SEARCH-RESP"
                                 /\ u[5] = "NO" \/ (Len(u) >= 6 /\ u[6] = Underscore)
<1>. DEFINE u == Text(m)
<1>1. ASSUME NEW s \in Asks, NEW q \in {"F", "KW"}, NEW w \in Word,
             m = Request(s, "1", q, w)
      PROVE  /\ Len(u) = 9 /\ u[1] = "SEARCH-REQ" /\ u[2] = Underscore /\ u[3] = s
             /\ u[4] = Underscore /\ u[5] = "1" /\ m.sid = s /\ s # Underscore
  <2>1. s \in Vocab /\ q \in Vocab /\ w \in Vocab /\ s # Underscore
    BY AtomsGiven, IdIsNoMark, Literals
  <2>2. m.sid = s
    BY <1>1 DEF Request
  <2>. QED  BY <1>1, <2>1, <2>2, RequestShape
<1>2. ASSUME NEW s \in Asked, m = Response(s, "NO", <<>>)
      PROVE  /\ Len(u) = 5 /\ u[1] = "SEARCH-RESP" /\ u[2] = Underscore /\ u[3] = s
             /\ u[4] = Underscore /\ u[5] = "NO" /\ m.sid = s /\ s # Underscore
  <2>1. s \in Vocab /\ s # Underscore
    BY AtomsGiven, IdIsNoMark
  <2>2. m.sid = s
    BY <1>2 DEF Response
  <2>. QED  BY <1>2, <2>1, <2>2, RefusalShape
<1>3. ASSUME NEW s \in Asked, NEW v, NEW arg, Carries(v, arg), m = Response(s, v, arg)
      PROVE  /\ Len(u) \in Nat /\ Len(u) >= 6 /\ u[1] = "SEARCH-RESP" /\ u[2] = Underscore
             /\ u[3] = s /\ u[4] = Underscore /\ u[5] # Underscore /\ u[6] = Underscore
             /\ m.sid = s /\ s # Underscore
  <2>. DEFINE J == Join(Atoms(arg), Comma)
  <2>1. /\ s \in Vocab /\ s # Underscore /\ arg \in Seq(Vocab) /\ arg # <<>> /\ v # Underscore
        /\ \A i \in 1..Len(arg) : arg[i] \notin Marks
    <3>1. s \in Vocab /\ s # Underscore
      BY AtomsGiven, IdIsNoMark
    <3>2. Carries(v, arg)
      BY <1>3
    <3>. QED  BY <3>1, <3>2, CarriedIs
  <2>2. m.sid = s
    BY <1>3 DEF Response
  <2>3. J \in Seq(Vocab)
    BY <2>1, ListShape
  <2>4. /\ Len(u) = Len(J) + 6 /\ u[1] = "SEARCH-RESP" /\ u[2] = Underscore
        /\ u[3] = s /\ u[4] = Underscore /\ u[5] = v /\ u[6] = Underscore
    BY <1>3, <2>1, AnswerShape
  <2>5. Len(J) \in Nat
    BY <2>3
  <2>. HIDE DEF J, u
  <2>. QED  BY <2>1, <2>2, <2>4, <2>5
<1>. HIDE DEF u
<1>4. CASE m.type = "REQ"
  <2>1. PICK q \in {"F", "KW"}, w \in Word : m.sid \in Asks /\ m = Request(m.sid, "1", q, w)
    BY <1>4, MessageTypes
  <2>2. /\ Len(u) = 9 /\ u[1] = "SEARCH-REQ" /\ u[2] = Underscore /\ u[3] = m.sid
        /\ u[4] = Underscore /\ u[5] = "1" /\ m.sid # Underscore
    BY <1>1, <2>1
  <2>. QED  BY <1>4, <2>2, DelimitersDiffer DEF u
<1>5. CASE m.type = "RESP"
  <2>1. /\ m.sid \in Asked
        /\ \/ m = Response(m.sid, "NO", <<>>)
           \/ \E v, arg : Carries(v, arg) /\ m = Response(m.sid, v, arg)
    BY <1>5, MessageTypes
  <2>2. /\ Len(u) \in Nat /\ Len(u) >= 5 /\ u[1] = "SEARCH-RESP" /\ u[2] = Underscore
        /\ u[3] = m.sid /\ u[4] = Underscore /\ u[5] # Underscore
        /\ m.sid # Underscore /\ (u[5] = "NO" \/ (Len(u) >= 6 /\ u[6] = Underscore))
    BY <1>2, <1>3, <2>1, DelimitersDiffer
  <2>. QED  BY <1>5, <2>2, DelimitersDiffer DEF u
<1>. QED  BY <1>4, <1>5

\* The id is the second token, whichever of the two a text is taken for.
LEMMA TakenSid ==
    ASSUME NEW u, Handled(u).type \in {"REQ", "RESP"}
    PROVE  Handled(u).sid = Split(u, Underscore)[2]
<1>1. Effect("UB").type = "UB" /\ Effect("INVALID").type = "INVALID"
  BY DEF Effect
<1>2. CASE Handled(u).type = "REQ"
  BY <1>1, <1>2, HandledType, RequestForms
<1>3. CASE Handled(u).type = "RESP"
  BY <1>1, <1>3, HandledType, ResponseForms
<1>. QED  BY <1>2, <1>3

LEMMA ResponseTaken ==
    ASSUME NEW u, NEW s \in Asked,
           LET t == Split(u, Underscore) IN
             /\ Len(t) \in Nat /\ Len(t) >= 3 /\ t[2] = <<s>>
             /\ t[3] = <<"YES">> => Len(t) >= 4
    PROVE  /\ TakesResponse(u).type = "RESP" /\ TakesResponse(u).sid = <<s>>
           /\ ~TakesResponse(u).short
<1>. DEFINE t == Split(u, Underscore)
            yes == Len(t) >= 3 /\ t[3] = <<"YES">>
            hits == IF yes /\ Len(t) >= 4 THEN Split(t[4], Comma) ELSE <<>>
            cut == Len(t) < 3 \/ (yes /\ Len(t) < 4)
            shown1 == IF Len(t) = 4 THEN hits ELSE <<>>
            whole == [type |-> "RESP", sid |-> t[2], short |-> cut, relayed |-> hits,
                      shown |-> shown1]
<1>1. TakesResponse(u) =
         IF Len(t) < 2 THEN Effect("UB")
         ELSE IF t[2] \notin {<<y>> : y \in Forwarded \cup Created} THEN Effect("INVALID")
         ELSE IF Len(t) < 3 /\ t[2] \notin {<<y>> : y \in Forwarded} THEN Effect("UB")
         ELSE whole
  BY DEF TakesResponse
<1>2. /\ Len(t) \in Nat /\ Len(t) >= 3 /\ t[2] = <<s>> /\ s \in Forwarded \cup Created
      /\ t[3] = <<"YES">> => Len(t) >= 4
  BY DEF Forwarded
<1>. HIDE DEF t
<1>3. ~(Len(t) < 2) /\ ~(Len(t) < 3) /\ t[2] \in {<<y>> : y \in Forwarded \cup Created}
  BY <1>2
<1>4. ~cut
  BY <1>2
<1>. HIDE DEF yes, hits, cut, shown1
<1>5. whole.type = "RESP" /\ whole.sid = t[2] /\ whole.short = cut
  OBVIOUS
<1>. HIDE DEF whole
<1>6. TakesResponse(u) = whole
  BY <1>1, <1>3
<1>. QED  BY <1>2, <1>4, <1>5, <1>6

\* A read that begins with a search message is taken for one about its search, if for any.
LEMMA HeadTokens ==
    ASSUME StreamInv, NEW i \in 1..Len(sent), sent[i].type \in {"REQ", "RESP"},
           NEW e \in ToSet(effects), e.from = Before(i), e.upto >= After(i)
    PROVE  LET t == Split(e.text, Underscore) IN
           /\ e.text[1] = Text(sent[i])[1] /\ Len(e.text) >= 5 /\ Len(e.text) \in Nat
           /\ t[2] = <<sent[i].sid>>
           /\ Len(t) \in Nat /\ Len(t) >= 3
           /\ sent[i].type = "RESP" /\ t[3] = <<"YES">> => Len(t) >= 4
<1>. DEFINE u == e.text
            x == Text(sent[i])
            m == sent[i]
<1>1. m \in Message
  BY PlaceOf
<1>2. /\ Len(x) \in Nat /\ Len(x) >= 5
      /\ x[1] # Underscore /\ x[2] = Underscore /\ x[3] = m.sid /\ x[3] # Underscore
      /\ x[4] = Underscore /\ x[5] # Underscore
      /\ m.type = "RESP" => x[5] = "NO" \/ (Len(x) >= 6 /\ x[6] = Underscore)
  BY <1>1, SearchHead
<1>3. Len(u) >= Len(x) /\ \A k \in 1..Len(x) : u[k] = x[k]
  BY ReadHead
<1>4. u \in Seq(Vocab) /\ Len(u) \in Nat
  <2>1. u \in Seq(Vocab)
    BY ReadShape
  <2>. QED  BY <2>1
<1>. HIDE DEF u, x, m
<1>5. Len(u) >= 5 /\ u[1] = x[1] /\ u[2] = x[2] /\ u[3] = x[3] /\ u[4] = x[4] /\ u[5] = x[5]
  BY <1>2, <1>3, <1>4
<1>6. Len(x) >= 6 => Len(u) >= 6 /\ u[6] = x[6]
  BY <1>2, <1>3, <1>4
<1>. DEFINE t == Split(u, Underscore)
<1>7. /\ Len(t) \in Nat /\ Len(t) >= 3 /\ t[2] = <<u[3]>>
      /\ t[3] \in Seq(Vocab) /\ Len(t[3]) > 0 /\ t[3][1] = u[5]
      /\ Len(u) >= 6 /\ u[6] = Underscore => Len(t) >= 4
  <2>1. /\ Underscore \in Vocab /\ u[1] # Underscore /\ u[2] = Underscore
        /\ u[3] # Underscore /\ u[4] = Underscore /\ u[5] # Underscore
    BY <1>2, <1>5, Literals
  <2>. QED  BY <1>4, <1>5, <2>1, SplitThree
<1>. HIDE DEF t
<1>8. ASSUME m.type = "RESP", t[3] = <<"YES">> PROVE Len(t) >= 4
  <2>1. u[5] = "YES"
    BY <1>7, <1>8
  <2>2. x[5] # "NO"
    BY <1>5, <2>1
  <2>. QED  BY <1>2, <1>6, <1>7, <1>8, <2>2
<1>. QED  BY <1>2, <1>4, <1>5, <1>7, <1>8 DEF u, x, m, t

\* The message of a keyword that was found in such a read.
LEMMA FoundLater ==
    ASSUME StreamInv, NEW i \in 1..Len(sent), NEW e \in ToSet(effects), e.from = Before(i)
    PROVE  /\ Finds(e.text, "SEARCH-REQ") =>
                \E j \in i..Len(sent) : sent[j].type = "REQ" /\ Before(j) < e.upto
           /\ Finds(e.text, "DISCONNECT_ADDNBRS_") =>
                \E j \in i..Len(sent) : sent[j].type = "ADDNBRS" /\ Before(j) < e.upto
           /\ Finds(e.text, "CONNECT_") => \E j \in i..Len(sent) : sent[j].type = "CONNECT"
<1>1. ASSUME NEW l \in 1..Len(e.text)
      PROVE  \E j \in i..Len(sent) :
               /\ Before(j) < e.upto
               /\ e.text[l] = "SEARCH-REQ" => sent[j].type = "REQ"
               /\ e.text[l] = "DISCONNECT_ADDNBRS_" => sent[j].type = "ADDNBRS"
               /\ e.text[l] = "CONNECT_" => sent[j].type = "CONNECT"
  <2>1. PICK j \in 1..Len(sent) : \E k \in 1..Len(Text(sent[j])) :
          /\ e.text[l] = Text(sent[j])[k] /\ Before(j) < e.upto
          /\ \A h \in 1..Len(sent) : Before(h) <= e.from => h <= j
    BY AtomIsFrom
  <2>2. PICK k \in 1..Len(Text(sent[j])) : e.text[l] = Text(sent[j])[k]
    BY <2>1
  <2>3. Before(i) \in Nat /\ sent[j] \in Message
    BY PlaceOf
  <2>4. i <= j
    BY <2>1, <2>3
  <2>5. Telling(sent[j], Text(sent[j]))
    BY <2>3, TextTells
  <2>. DEFINE x == Text(sent[j])
  <2>6. /\ x[k] = "SEARCH-REQ" => sent[j].type = "REQ"
        /\ x[k] = "DISCONNECT_ADDNBRS_" => sent[j].type = "ADDNBRS"
        /\ x[k] = "CONNECT_" => sent[j].type = "CONNECT"
    BY <2>5, MarkAt
  <2>7. j \in i..Len(sent)
    BY <2>4
  <2>. HIDE DEF x
  <2>. QED  BY <2>1, <2>2, <2>6, <2>7 DEF x
<1>. QED  BY <1>1 DEF Finds

\* Lines 95-270: whatever follows a search message in a read, the search it is taken for
\* is that of the message; and only a REQ behind it turns an answer into a question.
THEOREM SpecFirstDecides == Spec => []FirstDecides
<1>1. StreamInv => FirstDecides
  <2>. SUFFICES ASSUME StreamInv, NEW i \in 1..Len(sent), NEW e \in ToSet(effects),
                       sent[i].type \in {"REQ", "RESP"},
                       e.from = Before(i), e.upto >= After(i), e.effect.type \in {"REQ", "RESP"}
                PROVE  /\ e.effect.sid = <<sent[i].sid>>
                       /\ e.effect.type # sent[i].type =>
                            \E j \in i + 1..Len(sent) :
                              sent[j].type = "REQ" /\ Before(j) < e.upto
    BY DEF FirstDecides
  <2>. DEFINE u == e.text
  <2>1. e.effect = Handled(u)
    BY ReadShape
  <2>2. u[1] = Text(sent[i])[1] /\ Len(u) >= 5 /\ Len(u) \in Nat
        /\ Split(u, Underscore)[2] = <<sent[i].sid>>
    BY HeadTokens
  <2>3. e.effect.sid = <<sent[i].sid>>
    BY <2>1, <2>2, TakenSid
  <2>4. ASSUME e.effect.type # sent[i].type
        PROVE  \E j \in i + 1..Len(sent) : sent[j].type = "REQ" /\ Before(j) < e.upto
    <3>1. sent[i] \in Message
      BY PlaceOf
    <3>2. sent[i].type = "REQ" => Finds(u, "SEARCH-REQ")
      <4>1. sent[i].type = "REQ" => u[1] = "SEARCH-REQ"
        BY <2>2, <3>1, SearchHead
      <4>2. 1 \in 1..Len(u)
        BY <2>2
      <4>. QED  BY <4>1, <4>2 DEF Finds
    <3>3. e.effect.type = "RESP" => ~Finds(u, "SEARCH-REQ")
      BY <2>1, HandledType
    <3>4. sent[i].type = "RESP" /\ e.effect.type = "REQ"
      BY <2>4, <3>2, <3>3
    <3>5. Finds(u, "SEARCH-REQ")
      BY <2>1, <3>4, HandledType
    <3>6. PICK j \in i..Len(sent) : sent[j].type = "REQ" /\ Before(j) < e.upto
      BY <3>5, FoundLater
    <3>7. j # i
      BY <3>4, <3>6
    <3>8. j \in i + 1..Len(sent)
      BY <3>6, <3>7
    <3>. QED  BY <3>6, <3>8
  <2>. QED  BY <2>3, <2>4
<1>. QED  BY <1>1, StreamAlways, PTL

\* The atoms of a token are atoms of the text.
LEMMA TokenAtoms ==
    ASSUME NEW u \in Seq(Vocab), NEW d \in Vocab, NEW n \in 1..Len(Split(u, d)),
           NEW k \in 1..Len(Split(u, d)[n])
    PROVE  \E i \in 1..Len(u) : Split(u, d)[n][k] = u[i]
<1>. DEFINE at == Delims(u, d)
            N == Cardinality(at)
            t == Split(u, d)
<1>1. /\ at \in SUBSET (1..Len(u)) /\ N \in Nat /\ Len(t) = N + 1
      /\ \A h \in 1..N : t[h] = Token(u, d, Nth(at, h))
      /\ t[N + 1] = Token(u, d, Len(u) + 1)
  BY SplitShape
<1>3. Len(u) \in Nat
  OBVIOUS
<1>. HIDE DEF at, t
<1>2. \A h \in 1..N : Nth(at, h) \in at
  <2>. DEFINE m == Len(u)
  <2>1. m \in Nat /\ at \in SUBSET (1..m)
    BY <1>1, <1>3
  <2>. HIDE DEF m
  <2>. QED  BY <2>1, NthShape
<1>. HIDE DEF N
<1>4. \A h \in 1..N : Nth(at, h) \in 1..Len(u)
  BY <1>1, <1>2
<1>5. PICK e \in 1..Len(u) + 1 : t[n] = Token(u, d, e)
  <2>1. n \in 1..N + 1
    BY <1>1 DEF t
  <2>2. CASE n \in 1..N
    <3>1. Nth(at, n) \in 1..Len(u) + 1
      BY <1>3, <1>4, <2>2
    <3>. QED  BY <1>1, <2>2, <3>1
  <2>3. CASE n = N + 1
    <3>1. Len(u) + 1 \in 1..Len(u) + 1
      BY <1>3
    <3>. QED  BY <1>1, <2>3, <3>1
  <2>. QED  BY <1>1, <2>1, <2>2, <2>3
<1>. DEFINE a == LastBelow(at, e)
            b == e - 1
            v == SubSeq(u, a + 1, b)
<1>6. e \in Nat /\ b \in Nat /\ b <= Len(u)
  BY <1>3
<1>7. a \in Nat /\ a <= b
  <2>1. a \in {0} \cup {j \in at : j < e}
    BY <1>1, <1>3, <1>6, LastBelowShape
  <2>2. \A j \in at : j \in Nat
    BY <1>1
  <2>. QED  BY <1>6, <2>1, <2>2
<1>8. t[n] = v
  BY <1>5 DEF Token, at
<1>. HIDE DEF a, b
<1>9. Len(v) = b - a /\ \A i \in 1..b - a : v[i] = u[a + i]
  BY <1>6, <1>7, Cut
<1>. HIDE DEF v
<1>10. k \in 1..b - a
  BY <1>8, <1>9 DEF t
<1>11. a + k \in 1..Len(u)
  BY <1>3, <1>6, <1>7, <1>10
<1>. QED  BY <1>8, <1>9, <1>10, <1>11 DEF t

\* An answer is counted from a read that returned the id in the message.
LEMMA CountedFrom ==
    ASSUME StreamInv, NEW i \in 1..Len(sent), sent[i].type = "RESP",
           NEW k \in Counted(sent[i].sid)
    PROVE  /\ k \in 1..Len(effects)
           /\ effects[k].from < Before(i) + 3 /\ Before(i) + 3 <= effects[k].upto
<1>. DEFINE s == sent[i].sid
            e == effects[k]
            u == e.text
            t == Split(u, Underscore)
<1>1. k \in 1..Len(effects) /\ e.effect.type = "RESP" /\ e.effect.sid = <<s>>
  BY DEF Counted
<1>2. e \in ToSet(effects)
  <2>1. effects \in Seq(Reading)
    BY DEF StreamInv, Readings
  <2>. QED  BY <1>1, <2>1 DEF ToSet
<1>. HIDE DEF e
<1>3. /\ e.from \in Nat /\ e.upto \in Nat /\ u \in Seq(Vocab) /\ Len(u) = e.upto - e.from
      /\ e.effect = Handled(u)
  BY <1>2, ReadShape
<1>4. t[2] = <<s>>
  BY <1>1, <1>3, TakenSid
<1>5. Len(t) \in Nat /\ Len(t) >= 2
  <2>1. TakesResponse(u).type = "RESP"
    BY <1>1, <1>3, HandledType
  <2>2. Effect("UB").type = "UB" /\ Effect("INVALID").type = "INVALID"
    BY DEF Effect
  <2>3. ~(Len(t) < 2)
    BY <2>1, <2>2, ResponseForms
  <2>4. Len(t) \in Nat
    BY <1>3, SplitShape
  <2>. HIDE DEF t
  <2>. QED  BY <2>3, <2>4
<1>6. PICK l \in 1..Len(u) : u[l] = s
  <2>1. 2 \in 1..Len(t) /\ 1 \in 1..Len(t[2])
    BY <1>4, <1>5
  <2>2. \E l \in 1..Len(u) : t[2][1] = u[l]
    <3>1. \A n \in 1..Len(t) : \A h \in 1..Len(t[n]) : \E l \in 1..Len(u) : t[n][h] = u[l]
      <4>. DEFINE d == Underscore
                  x == u
      <4>1. d \in Vocab /\ x \in Seq(Vocab)
        BY <1>3, Literals
      <4>. HIDE DEF d, x
      <4>2. \A n \in 1..Len(Split(x, d)) : \A h \in 1..Len(Split(x, d)[n]) :
              \E l \in 1..Len(x) : Split(x, d)[n][h] = x[l]
        BY <4>1, TokenAtoms
      <4>. QED  BY <4>2 DEF d, x
    <3>. HIDE DEF t
    <3>. QED  BY <2>1, <3>1
  <2>3. t[2][1] = s
    BY <1>4
  <2>. QED  BY <2>2, <2>3
<1>. HIDE DEF t
<1>7. sent[i] \in Message /\ s \in Asked
  BY PlaceOf, MessageTypes
<1>. HIDE DEF s
<1>0. PICK j \in 1..Len(sent) : \E h \in 1..Len(Text(sent[j])) :
        e.from + l = Before(j) + h /\ u[l] = Text(sent[j])[h]
  BY <1>2, AtomIsFrom
<1>8. PICK h \in 1..Len(Text(sent[j])) :
        e.from + l = Before(j) + h /\ u[l] = Text(sent[j])[h]
  BY <1>0
<1>9. sent[j] \in Message /\ Telling(sent[j], Text(sent[j]))
  BY PlaceOf, TextTells
<1>10. Text(sent[j])[h] \in Asked \cup Asks
  BY <1>6, <1>7, <1>8
<1>11. h = 3 /\ sent[j].type \in {"REQ", "RESP"} /\ sent[j].sid = s
  BY <1>6, <1>8, <1>9, <1>10, MarkAt
<1>12. j = i
  BY <1>11 DEF StreamInv, Script, s
<1>13. e.from + l = Before(i) + 3
  BY <1>8, <1>11, <1>12
<1>14. Before(i) \in Nat /\ l \in Nat /\ l > 0 /\ l <= e.upto - e.from
  BY <1>3, PlaceOf
<1>15. e.from < Before(i) + 3 /\ Before(i) + 3 <= e.upto
  BY <1>3, <1>13, <1>14
<1>. QED  BY <1>1, <1>15 DEF e

\* Lines 204-209: no answer counts twice, however the stream is cut; and one is lost only
\* if it was cut, was read behind another message, or had a REQ or a DISCONNECT_ADDNBRS
\* read behind it.
THEOREM SpecAnswersCounted == Spec => []AnswersCounted
<1>1. ASSUME StreamInv, NEW i \in 1..Len(sent), sent[i].type = "RESP"
      PROVE  Cardinality(Counted(sent[i].sid)) <= 1
  <2>. DEFINE C == Counted(sent[i].sid)
  <2>1. ASSUME NEW k \in C, NEW l \in C PROVE k = l
    <3>. DEFINE p == Before(i) + 3
    <3>1. /\ k \in 1..Len(effects) /\ effects[k].from < p /\ p <= effects[k].upto
          /\ l \in 1..Len(effects) /\ effects[l].from < p /\ p <= effects[l].upto
      BY <1>1, <2>1, CountedFrom
    <3>2. /\ \A a, b \in 1..Len(effects) : a < b => effects[a].upto <= effects[b].from
          /\ effects \in Seq(Reading)
      BY <1>1 DEF StreamInv, Readings
    <3>3. /\ effects[k].from \in Nat /\ effects[k].upto \in Nat
          /\ effects[l].from \in Nat /\ effects[l].upto \in Nat
      BY <3>1, <3>2, ElementOfSeq, ReadingIs
    <3>4. p \in Nat
      BY <1>1, PlaceOf
    <3>. HIDE DEF p
    <3>5. ~(k < l) /\ ~(l < k)
      <4>1. /\ k < l => effects[k].upto <= effects[l].from
            /\ l < k => effects[l].upto <= effects[k].from
        BY <3>1, <3>2
      <4>2. \A f, u, v, w \in Nat : f < p /\ p <= u /\ v < p /\ p <= w => ~(u <= v) /\ ~(w <= f)
        BY <3>4
      <4>3. ~(effects[k].upto <= effects[l].from) /\ ~(effects[l].upto <= effects[k].from)
        BY <3>1, <3>3, <4>2
      <4>. QED  BY <4>1, <4>3
    <3>6. k \in Nat /\ l \in Nat
      BY <3>1
    <3>. QED  BY <3>5, <3>6
  <2>. HIDE DEF C
  <2>2. CASE C = {}
    BY <2>2, FS_EmptySet DEF C
  <2>3. CASE C # {}
    <3>1. PICK k \in C : TRUE
      BY <2>3
    <3>2. C = {k}
      BY <2>1, <3>1
    <3>3. Cardinality(C) = 1
      BY <3>2, FS_Singleton
    <3>. QED  BY <3>3 DEF C
  <2>. QED  BY <2>2, <2>3
<1>2. ASSUME StreamInv, NEW i \in 1..Len(sent), sent[i].type = "RESP",
             NEW e \in ToSet(effects), e.from = Before(i), e.upto >= After(i),
             \A j \in i + 1..Len(sent) :
               sent[j].type \in {"REQ", "ADDNBRS"} => Before(j) >= e.upto
      PROVE  \E k \in Counted(sent[i].sid) : ~effects[k].effect.short
  <2>. DEFINE u == e.text
              t == Split(u, Underscore)
  <2>1. PICK k \in 1..Len(effects) : e = effects[k]
    BY <1>2, ReadShape
  <2>2. e.effect = Handled(u) /\ e.upto \in Nat
    BY <1>2, ReadShape
  <2>3. /\ u[1] = Text(sent[i])[1] /\ Len(u) >= 5 /\ Len(u) \in Nat
        /\ t[2] = <<sent[i].sid>> /\ Len(t) \in Nat /\ Len(t) >= 3
        /\ (t[3] = <<"YES">> => Len(t) >= 4)
    BY <1>2, HeadTokens
  <2>4. u[1] = "SEARCH-RESP"
    <3>1. sent[i] \in Message
      BY <1>2, PlaceOf
    <3>. QED  BY <1>2, <2>3, <3>1, SearchHead
  <2>5. Finds(u, "SEARCH-RESP")
    <3>1. 1 \in 1..Len(u)
      BY <2>3
    <3>. QED  BY <2>4, <3>1 DEF Finds
  <2>6. u # <<"DISCONNECT">>
    <3>1. Len(<<"DISCONNECT">>) = 1
      OBVIOUS
    <3>2. Len(u) >= 5 /\ Len(u) \in Nat
      BY <2>3
    <3>. HIDE DEF u
    <3>4. \A m \in Nat : m >= 5 => m # 1
      OBVIOUS
    <3>3. Len(u) # 1
      BY <3>2, <3>4
    <3>. QED  BY <3>1, <3>3
  <2>7. \A j \in i..Len(sent) : sent[j].type \in {"REQ", "ADDNBRS"} => ~(Before(j) < e.upto)
    <3>. SUFFICES ASSUME NEW j \in i..Len(sent), sent[j].type \in {"REQ", "ADDNBRS"},
                         Before(j) < e.upto
                  PROVE  FALSE
      OBVIOUS
    <3>1. j # i
      BY <1>2
    <3>2. j \in i + 1..Len(sent) /\ j \in 1..Len(sent)
      BY <3>1
    <3>3. Before(j) >= e.upto
      BY <1>2, <3>2
    <3>4. Before(j) \in Nat
      BY <1>2, <3>2, PlaceOf
    <3>. QED  BY <2>2, <3>3, <3>4
  <2>8. ~Finds(u, "SEARCH-REQ") /\ ~Finds(u, "DISCONNECT_ADDNBRS_")
    BY <1>2, <2>7, FoundLater
  <2>9. ~Finds(u, "CONNECT_")
    <3>. SUFFICES ASSUME Finds(u, "CONNECT_") PROVE FALSE
      OBVIOUS
    <3>1. PICK j \in i..Len(sent) : sent[j].type = "CONNECT"
      BY <1>2, FoundLater
    <3>2. j \in 1..Len(sent)
      OBVIOUS
    <3>3. j = 1
      BY <1>2, <3>1, <3>2 DEF StreamInv, Script
    <3>4. i = 1
      BY <3>3
    <3>. QED  BY <1>2, <3>1, <3>3, <3>4
  <2>10. Handled(u) = TakesResponse(u)
    BY <2>5, <2>6, <2>8, <2>9 DEF Handled
  <2>11. e.effect.type = "RESP" /\ e.effect.sid = <<sent[i].sid>>
         /\ ~e.effect.short
    <3>1. sent[i].sid \in Asked
      BY <1>2, PlaceOf, MessageTypes
    <3>2. /\ TakesResponse(u).type = "RESP" /\ TakesResponse(u).sid = <<sent[i].sid>>
          /\ ~TakesResponse(u).short
      BY <2>3, <3>1, ResponseTaken
    <3>. QED  BY <2>2, <2>10, <3>2
  <2>12. k \in Counted(sent[i].sid)
    BY <2>1, <2>11 DEF Counted
  <2>. QED  BY <2>1, <2>11, <2>12
<1>3. StreamInv => AnswersCounted
  BY <1>1, <1>2 DEF AnswersCounted
<1>. QED  BY <1>3, StreamAlways, PTL

=============================================================================
