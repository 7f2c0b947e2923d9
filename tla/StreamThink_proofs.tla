-------------------------- MODULE StreamThink_proofs --------------------------
(***************************************************************************)
(* What the stream makes of a <think> block that arrives in pieces.        *)
(* The invariant relates the assembler's two texts and its buffer to the   *)
(* whole answer so far, as the functions on whole texts split it.  Every   *)
(* piece that is told has its whitespace trimmed on its own, so the        *)
(* comparison is between the texts without their whitespace; and the       *)
(* buffer holds back a "<" that the next chunk may make a close tag.       *)
(***************************************************************************)
EXTENDS StreamText_proofs

------------------------------------------------------------------------------
(* A text less its whitespace.                                             *)

InkOf(c) == IF c = "ws" THEN <<>> ELSE <<c>>

LEMMA TextFacts ==
  ASSUME NEW t \in Text
  PROVE  /\ Len(t) \in Nat /\ DOMAIN t = 1..Len(t)
         /\ \A i \in 1..Len(t) : t[i] \in Char
BY LenProperties, ElementOfSeq DEF Text

LEMMA Regroup ==
  ASSUME NEW t \in Text, NEW u \in Text, NEW v \in Text
  PROVE  (t \o u) \o v = t \o (u \o v)
BY ConcatAssociative DEF Text

LEMMA Joins ==
  ASSUME NEW t \in Text, NEW u \in Text
  PROVE  /\ t \o u \in Text /\ Len(t \o u) = Len(t) + Len(u)
         /\ \A i \in 1..Len(t) : (t \o u)[i] = t[i]
         /\ \A i \in 1..Len(u) : (t \o u)[Len(t) + i] = u[i]
<1>1. Len(t) \in Nat /\ Len(u) \in Nat
  BY TextFacts
<1>2. /\ t \o u \in Text /\ Len(t \o u) = Len(t) + Len(u)
      /\ \A i \in 1..(Len(t) + Len(u)) :
           (t \o u)[i] = IF i <= Len(t) THEN t[i] ELSE u[i - Len(t)]
  BY ConcatProperties DEF Text
<1> DEFINE j == t \o u
<1> HIDE DEF j
<1>3. \A i \in 1..Len(t) : j[i] = t[i]
  BY <1>1, <1>2 DEF j
<1>4. \A i \in 1..Len(u) : j[Len(t) + i] = u[i]
  <2> TAKE i \in 1..Len(u)
  <2>1. Len(t) + i \in 1..(Len(t) + Len(u)) /\ ~(Len(t) + i <= Len(t)) /\ Len(t) + i - Len(t) = i
    BY <1>1
  <2>2. QED BY <1>2, <2>1 DEF j
<1>5. QED BY <1>2, <1>3, <1>4 DEF j

LEMMA Slice ==
  ASSUME NEW t \in Text, NEW m \in Nat \ {0}, NEW n \in Int, n <= Len(t), m <= n + 1
  PROVE  /\ SubSeq(t, m, n) \in Text /\ Len(SubSeq(t, m, n)) = n - m + 1
         /\ \A i \in 1..(n - m + 1) : SubSeq(t, m, n)[i] = t[m + i - 1]
<1>1. Len(t) \in Nat /\ m \in Int
  BY TextFacts
<1>2. \A i \in m..n : t[i] \in Char
  BY <1>1, TextFacts
<1>3. QED BY <1>1, <1>2, SubSeqProperties DEF Text

LEMMA Rest ==
  ASSUME NEW t \in Text, NEW k \in 0..Len(t)
  PROVE  /\ SubSeq(t, k + 1, Len(t)) \in Text /\ Len(SubSeq(t, k + 1, Len(t))) = Len(t) - k
         /\ \A i \in 1..(Len(t) - k) : SubSeq(t, k + 1, Len(t))[i] = t[k + i]
<1>1. PICK m \in Nat \ {0}, n \in Int : m = k + 1 /\ n = Len(t) /\ m <= n + 1 /\ n <= Len(t)
  BY TextFacts
<1>2. /\ SubSeq(t, m, n) \in Text /\ Len(SubSeq(t, m, n)) = n - m + 1
      /\ \A i \in 1..(n - m + 1) : SubSeq(t, m, n)[i] = t[m + i - 1]
  BY <1>1, Slice
<1>3. n - m + 1 = Len(t) - k /\ \A i \in 1..(Len(t) - k) : m + i - 1 = k + i
  BY <1>1, TextFacts
<1>4. QED BY <1>1, <1>2, <1>3

LEMMA Beginning ==
  ASSUME NEW t \in Text, NEW k \in 0..Len(t)
  PROVE  /\ SubSeq(t, 1, k) \in Text /\ Len(SubSeq(t, 1, k)) = k
         /\ \A i \in 1..k : SubSeq(t, 1, k)[i] = t[i]
<1>1. Len(t) \in Nat /\ 1 \in Nat \ {0} /\ k \in Int /\ k <= Len(t) /\ 1 <= k + 1 /\ k - 1 + 1 = k
  BY TextFacts
<1>2. /\ SubSeq(t, 1, k) \in Text /\ Len(SubSeq(t, 1, k)) = k - 1 + 1
      /\ \A i \in 1..(k - 1 + 1) : SubSeq(t, 1, k)[i] = t[1 + i - 1]
  BY <1>1, Slice
<1>3. \A i \in 1..k : 1 + i - 1 = i
  BY <1>1
<1>4. QED BY <1>1, <1>2, <1>3

LEMMA SameText ==
  ASSUME NEW t \in Text, NEW u \in Text, Len(t) = Len(u), \A i \in 1..Len(t) : t[i] = u[i]
  PROVE  t = u
BY SeqEqual DEF Text

LEMMA InkOfIsText == ASSUME NEW c \in Char PROVE InkOf(c) \in Text
BY DEF InkOf, Text

LEMMA InkIsText == ASSUME NEW t \in Text PROVE Ink(t) \in Text
<1> DEFINE p == [i \in DOMAIN t |-> IF t[i] = "ws" THEN <<>> ELSE <<t[i]>>]
<1>1. p \in [1..Len(t) -> Text] /\ Len(t) \in Nat
  BY TextFacts, InkOfIsText DEF InkOf
<1> HIDE DEF p
<1>2. FlattenSeq(p) \in Text
  BY <1>1, FlattenIsText
<1>3. QED BY <1>2 DEF Ink, p

LEMMA InkAppend ==
  ASSUME NEW t \in Text, NEW c \in Char
  PROVE  Ink(Append(t, c)) = Ink(t) \o InkOf(c)
<1> DEFINE n == Len(t)
           u == Append(t, c)
           p == [i \in DOMAIN u |-> IF u[i] = "ws" THEN <<>> ELSE <<u[i]>>]
           q == [i \in DOMAIN t |-> IF t[i] = "ws" THEN <<>> ELSE <<t[i]>>]
<1>1. /\ u \in Text /\ Len(u) = n + 1 /\ n \in Nat /\ u[n + 1] = c
      /\ \A i \in 1..n : u[i] = t[i]
  BY AppendProperties, LenProperties DEF Text
<1> HIDE DEF n, u
<1>2. DOMAIN u = 1..(n + 1) /\ DOMAIN t = 1..n
  BY <1>1, TextFacts DEF n
<1>3. (\A i \in 1..(n + 1) : u[i] \in Char) /\ (\A i \in 1..n : t[i] \in Char)
  BY <1>1, TextFacts DEF n
<1>4. p \in [1..(n + 1) -> Text]
  BY <1>2, <1>3, InkOfIsText DEF InkOf
<1>5. q \in [1..n -> Text]
  BY <1>2, <1>3, InkOfIsText DEF InkOf
<1>6. \A i \in 1..n : p[i] = q[i]
  BY <1>1, <1>2
<1>7. p[n + 1] = InkOf(c)
  BY <1>1, <1>2 DEF InkOf
<1> HIDE DEF p, q
<1>8. FlattenSeq(p) = FlattenSeq(q) \o p[n + 1]
  BY <1>1, <1>4, <1>5, <1>6, FlattenGrown
<1>9. Ink(u) = FlattenSeq(p) /\ Ink(t) = FlattenSeq(q)
  BY DEF Ink, p, q
<1>10. QED BY <1>7, <1>8, <1>9 DEF u

LEMMA InkRegroup ==
  ASSUME NEW t \in Text, NEW u \in Text, NEW c \in Char
  PROVE  (Ink(t) \o Ink(u)) \o InkOf(c) = Ink(t) \o (Ink(u) \o InkOf(c))
<1>1. \A x, y, z \in Text : (x \o y) \o z = x \o (y \o z)
  BY Regroup
<1>2. QED BY <1>1, InkIsText, InkOfIsText

LEMMA InkConcat ==
  \A u \in Text : \A t \in Text : Ink(t \o u) = Ink(t) \o Ink(u)
<1> DEFINE S == {n \in Nat : \A u \in Text : Len(u) = n =>
                               \A t \in Text : Ink(t \o u) = Ink(t) \o Ink(u)}
<1>1. 0 \in S
  <2> SUFFICES ASSUME NEW u \in Text, Len(u) = 0, NEW t \in Text
               PROVE  Ink(t \o u) = Ink(t) \o Ink(u)
    OBVIOUS
  <2>1. u = <<>>
    BY EmptySeq DEF Text
  <2>2. t \o u = t
    BY <2>1, ConcatEmptySeq DEF Text
  <2>3. Ink(u) = <<>>
    <3>1. [i \in DOMAIN u |-> IF u[i] = "ws" THEN <<>> ELSE <<u[i]>>] \in [1..0 -> Text]
      BY <2>1
    <3>2. QED BY <3>1, FlattenEmpty DEF Ink
  <2>4. Ink(t) \in Text
    BY InkIsText
  <2>5. QED BY <2>2, <2>3, <2>4, ConcatEmptySeq DEF Text
<1>2. ASSUME NEW n \in Nat, n \in S PROVE n + 1 \in S
  <2> SUFFICES ASSUME NEW u \in Text, Len(u) = n + 1, NEW t \in Text
               PROVE  Ink(t \o u) = Ink(t) \o Ink(u)
    OBVIOUS
  <2> DEFINE v == SubSeq(u, 1, n)
             c == u[n + 1]
  <2>1. v \in Text /\ Len(v) = n
    BY SubSeqIsText, SubSeqProperties DEF Text
  <2>2. c \in Char
    BY TextFacts
  <2>3. u = Append(v, c)
    BY <2>1, AppendProperties, SubSeqProperties, SeqEqual DEF Text
  <2>4. t \o v \in Text
    BY <2>1, ConcatIsText
  <2> HIDE DEF v, c
  <2>5. t \o u = Append(t \o v, c)
    BY <2>1, <2>2, <2>3 DEF Text
  <2>6. Ink(t \o u) = Ink(t \o v) \o InkOf(c) /\ Ink(u) = Ink(v) \o InkOf(c)
    BY <2>1, <2>2, <2>3, <2>4, <2>5, InkAppend
  <2>7. Ink(t \o v) = Ink(t) \o Ink(v)
    BY <1>2, <2>1
  <2>8. (Ink(t) \o Ink(v)) \o InkOf(c) = Ink(t) \o (Ink(v) \o InkOf(c))
    BY <2>1, <2>2, InkRegroup
  <2>9. QED BY <2>6, <2>7, <2>8
<1> HIDE DEF S
<1>3. Nat \subseteq S
  BY <1>1, <1>2, SetInduction
<1>4. \A u \in Text : Len(u) \in S
  BY <1>3, TextFacts
<1>5. QED BY <1>4 DEF S

LEMMA InkBlank == ASSUME NEW t \in Text, IsBlank(t) PROVE Ink(t) = <<>>
<1> DEFINE p == [i \in DOMAIN t |-> IF t[i] = "ws" THEN <<>> ELSE <<t[i]>>]
<1>1. p \in [1..Len(t) -> {<<>>}] /\ Len(t) \in Nat
  BY TextFacts DEF IsBlank
<1> HIDE DEF p
<1>2. FlattenSeq(p) = <<>>
  BY <1>1, FlattenBlank
<1>3. QED BY <1>2 DEF Ink, p

(* A text is cut in two, and the whitespace of one of the parts does not   *)
(* count.                                                                  *)
LEMMA Cut ==
  ASSUME NEW t \in Text, NEW k \in 0..Len(t)
  PROVE  /\ SubSeq(t, 1, k) \in Text /\ SubSeq(t, k + 1, Len(t)) \in Text
         /\ t = SubSeq(t, 1, k) \o SubSeq(t, k + 1, Len(t))
         /\ Ink(t) = Ink(SubSeq(t, 1, k)) \o Ink(SubSeq(t, k + 1, Len(t)))
<1>1. Len(t) \in Nat /\ k \in Nat
  BY TextFacts
<1>2. SubSeq(t, 1, k) \in Text /\ SubSeq(t, k + 1, Len(t)) \in Text
  BY <1>1, SubSeqIsText
<1>3. t = SubSeq(t, 1, k) \o SubSeq(t, k + 1, Len(t))
  <2> DEFINE a == SubSeq(t, 1, k)
             b == SubSeq(t, k + 1, Len(t))
  <2>1. /\ a \in Text /\ Len(a) = k
        /\ \A i \in 1..k : a[i] = t[i]
    BY <1>1, Slice, 1 \in Nat \ {0}
  <2>2. /\ b \in Text /\ Len(b) = Len(t) - k
        /\ \A i \in 1..(Len(t) - k) : b[i] = t[k + i]
    BY Rest
  <2> HIDE DEF a, b
  <2>3. /\ a \o b \in Text /\ Len(a \o b) = Len(t)
        /\ \A i \in 1..k : (a \o b)[i] = t[i]
        /\ \A i \in 1..(Len(t) - k) : (a \o b)[k + i] = t[k + i]
    BY <1>1, <2>1, <2>2, Joins
  <2> DEFINE j == a \o b
  <2> HIDE DEF j
  <2>4. ASSUME NEW i \in 1..Len(t) PROVE j[i] = t[i]
    <3>1. CASE i <= k
      BY <3>1, <2>3 DEF j
    <3>2. CASE i > k
      <4>1. i - k \in 1..(Len(t) - k) /\ k + (i - k) = i
        BY <1>1, <3>2
      <4>2. j[k + (i - k)] = t[k + (i - k)]
        BY <4>1, <2>3 DEF j
      <4>3. QED BY <4>1, <4>2
    <3>3. QED BY <1>1, <3>1, <3>2
  <2>5. j = t
    BY <2>3, <2>4, SameText DEF j
  <2>6. QED BY <2>5 DEF a, b, j
<1>4. QED BY <1>2, <1>3, InkConcat

(* The first of some numbers, and the last of some numbers below n. *)
LEMMA Least ==
  ASSUME NEW T, T \subseteq Nat, NEW m \in T
  PROVE  \E x \in T : \A y \in T : x <= y
<1> DEFINE R == OpToRel(<, Nat)
<1>1. IsWellFoundedOn(R, Nat)
  BY NatLessThanWellFounded
<1>2. \A x, y \in Nat : y < x => <<y, x>> \in R
  BY DEF OpToRel
<1> HIDE DEF R
<1>3. PICK x \in T : \A y \in T : ~ (<<y, x>> \in R)
  BY <1>1, WFMin
<1>4. ASSUME NEW y \in T PROVE x <= y
  <2>1. x \in Nat /\ y \in Nat /\ ~(y < x)
    BY <1>2, <1>3, <1>4
  <2>2. QED BY <2>1
<1>5. QED BY <1>4

LEMMA FirstInk ==
  ASSUME NEW t \in Text, NEW i \in DOMAIN t, t[i] # "ws"
  PROVE  \E k \in DOMAIN t : InkStart(t, k) /\ k <= i
<1>1. DOMAIN t = 1..Len(t) /\ Len(t) \in Nat
  BY TextFacts
<1> DEFINE T == {j \in 1..Len(t) : t[j] # "ws"}
<1>2. T \subseteq Nat /\ i \in T
  BY <1>1
<1> HIDE DEF T
<1>3. PICK k \in T : \A y \in T : k <= y
  BY <1>2, Least
<1>4. k \in 1..Len(t) /\ t[k] # "ws" /\ k <= i
  BY <1>2, <1>3 DEF T
<1>5. ASSUME NEW j \in 1..(k - 1) PROVE t[j] = "ws"
  <2>1. j \in 1..Len(t) /\ ~(k <= j)
    BY <1>1, <1>4
  <2>2. QED BY <1>3, <2>1 DEF T
<1>6. QED BY <1>1, <1>4, <1>5 DEF InkStart

LEMMA LastInk ==
  ASSUME NEW t \in Text, NEW i \in DOMAIN t, t[i] # "ws"
  PROVE  \E k \in DOMAIN t : InkEnd(t, k)
<1>1. DOMAIN t = 1..Len(t) /\ Len(t) \in Nat
  BY TextFacts
<1> DEFINE T == {j \in 0..(Len(t) - 1) : t[Len(t) - j] # "ws"}
<1>2. T \subseteq Nat /\ Len(t) - i \in T
  <2>1. Len(t) - i \in 0..(Len(t) - 1) /\ Len(t) - (Len(t) - i) = i
    BY <1>1
  <2>2. QED BY <1>1, <2>1
<1> HIDE DEF T
<1>3. PICK m \in T : \A y \in T : m <= y
  BY <1>2, Least
<1> DEFINE k == Len(t) - m
<1>4. k \in 1..Len(t) /\ t[k] # "ws" /\ m \in 0..(Len(t) - 1)
  BY <1>1, <1>3 DEF T
<1>5. ASSUME NEW j \in (k + 1)..Len(t) PROVE t[j] = "ws"
  <2>1. Len(t) - j \in 0..(Len(t) - 1) /\ ~(m <= Len(t) - j) /\ Len(t) - (Len(t) - j) = j
    BY <1>1, <1>4
  <2>2. Len(t) - j \notin T
    BY <1>3, <2>1
  <2>3. QED BY <2>1, <2>2 DEF T
<1> HIDE DEF k
<1>6. QED BY <1>1, <1>4, <1>5 DEF InkEnd

LEMMA InkTrimStart == ASSUME NEW t \in Text PROVE Ink(TrimStart(t)) = Ink(t)
<1>0. Len(t) \in Nat /\ DOMAIN t = 1..Len(t)
  BY TextFacts
<1>1. CASE \E k \in DOMAIN t : InkStart(t, k)
  <2> DEFINE k == CHOOSE k \in DOMAIN t : InkStart(t, k)
  <2>1. k \in 1..Len(t) /\ InkStart(t, k) /\ TrimStart(t) = SubSeq(t, k, Len(t))
    BY <1>0, <1>1 DEF TrimStart
  <2> HIDE DEF k
  <2>2. k - 1 \in 0..Len(t) /\ k - 1 + 1 = k
    BY <1>0, <2>1
  <2> DEFINE a == SubSeq(t, 1, k - 1)
  <2>3. a \in Text /\ Ink(t) = Ink(a) \o Ink(SubSeq(t, k, Len(t)))
    BY <2>2, Cut
  <2>4. IsBlank(a)
    <3>1. Len(a) = k - 1 /\ \A i \in 1..(k - 1) : a[i] = t[i]
      BY <1>0, <2>1, <2>2, Slice, 1 \in Nat \ {0}
    <3>2. DOMAIN a = 1..(k - 1)
      BY <2>3, <3>1, TextFacts
    <3>3. QED BY <2>1, <3>1, <3>2 DEF IsBlank, InkStart
  <2> HIDE DEF a
  <2>5. Ink(a) = <<>>
    BY <2>3, <2>4, InkBlank
  <2>6. TrimStart(t) \in Text
    BY TrimStartIsText
  <2>7. QED BY <2>1, <2>3, <2>5, <2>6, InkIsText, ConcatEmptySeq DEF Text
<1>2. CASE ~ \E k \in DOMAIN t : InkStart(t, k)
  <2>1. IsBlank(t)
    BY <1>2, FirstInk DEF IsBlank
  <2>2. TrimStart(t) = <<>>
    BY <1>2 DEF TrimStart
  <2>3. <<>> \in Text /\ IsBlank(<<>>)
    BY DEF Text, IsBlank
  <2>4. QED BY <2>1, <2>2, <2>3, InkBlank
<1>3. QED BY <1>1, <1>2

LEMMA InkTrimEnd == ASSUME NEW t \in Text PROVE Ink(TrimEnd(t)) = Ink(t)
<1>0. Len(t) \in Nat /\ DOMAIN t = 1..Len(t)
  BY TextFacts
<1>1. CASE \E k \in DOMAIN t : InkEnd(t, k)
  <2> DEFINE k == CHOOSE k \in DOMAIN t : InkEnd(t, k)
  <2>1. k \in 1..Len(t) /\ InkEnd(t, k) /\ TrimEnd(t) = SubSeq(t, 1, k)
    BY <1>0, <1>1 DEF TrimEnd
  <2> HIDE DEF k
  <2>2. k \in 0..Len(t)
    BY <1>0, <2>1
  <2> DEFINE b == SubSeq(t, k + 1, Len(t))
  <2>3. b \in Text /\ Ink(t) = Ink(SubSeq(t, 1, k)) \o Ink(b)
    BY <2>2, Cut
  <2>4. IsBlank(b)
    <3>1. Len(b) = Len(t) - k /\ \A i \in 1..(Len(t) - k) : b[i] = t[k + i]
      BY <2>2, Rest
    <3>2. DOMAIN b = 1..(Len(t) - k)
      BY <2>3, <3>1, TextFacts
    <3>3. \A i \in 1..(Len(t) - k) : k + i \in (k + 1)..Len(t)
      BY <1>0, <2>1
    <3> HIDE DEF b
    <3>4. QED BY <2>1, <3>1, <3>2, <3>3 DEF IsBlank, InkEnd
  <2> HIDE DEF b
  <2>5. Ink(b) = <<>>
    BY <2>3, <2>4, InkBlank
  <2>6. TrimEnd(t) \in Text
    BY TrimEndIsText
  <2>7. QED BY <2>1, <2>3, <2>5, <2>6, InkIsText, ConcatEmptySeq DEF Text
<1>2. CASE ~ \E k \in DOMAIN t : InkEnd(t, k)
  <2>1. IsBlank(t)
    BY <1>2, LastInk DEF IsBlank
  <2>2. TrimEnd(t) = <<>>
    BY <1>2 DEF TrimEnd
  <2>3. <<>> \in Text /\ IsBlank(<<>>)
    BY DEF Text, IsBlank
  <2>4. QED BY <2>1, <2>2, <2>3, InkBlank
<1>3. QED BY <1>1, <1>2

LEMMA InkTrim == ASSUME NEW t \in Text PROVE Ink(Trim(t)) = Ink(t)
BY InkTrimStart, InkTrimEnd, TrimStartIsText DEF Trim

------------------------------------------------------------------------------
(* The leading tag, by its place in the text.                              *)

LEMMA TagIs ==
  ASSUME NEW t \in Text, NEW k \in 1..(Len(t) - 1)
  PROVE  /\ TagAt(t, THINK_OPEN_TAG, k) <=> t[k] = "<" /\ t[k + 1] = "think>"
         /\ TagAt(t, THINK_CLOSE_TAG, k) <=> t[k] = "<" /\ t[k + 1] = "/think>"
<1>1. Len(t) \in Nat
  BY TextFacts
<1> DEFINE s == SubSeq(t, k, k + 1)
<1>2. s \in Text /\ Len(s) = 2 /\ s[1] = t[k] /\ s[2] = t[k + 1]
  <2>1. PICK n \in Int : n = k + 1 /\ n <= Len(t) /\ k <= n + 1 /\ k \in Nat \ {0}
    BY <1>1
  <2>2. /\ SubSeq(t, k, n) \in Text /\ Len(SubSeq(t, k, n)) = n - k + 1
        /\ \A i \in 1..(n - k + 1) : SubSeq(t, k, n)[i] = t[k + i - 1]
    BY <2>1, Slice
  <2>3. n - k + 1 = 2 /\ 1 \in 1..2 /\ 2 \in 1..2 /\ k + 1 - 1 = k /\ k + 2 - 1 = k + 1
    BY <2>1
  <2>4. QED BY <2>1, <2>2, <2>3
<1> HIDE DEF s
<1>3. THINK_OPEN_TAG \in Text /\ THINK_CLOSE_TAG \in Text
  BY DEF THINK_OPEN_TAG, THINK_CLOSE_TAG, Text, Char
<1>4. ASSUME NEW tag \in Text, Len(tag) = 2
      PROVE  s = tag <=> s[1] = tag[1] /\ s[2] = tag[2]
  <2>1. ASSUME s[1] = tag[1], s[2] = tag[2] PROVE s = tag
    <3>1. \A i \in 1..Len(s) : s[i] = tag[i]
      BY <1>2, <2>1
    <3>2. QED BY <1>2, <1>4, <3>1, SameText
  <2>2. QED BY <2>1
<1>5. s = THINK_OPEN_TAG <=> s[1] = "<" /\ s[2] = "think>"
  <2>1. Len(THINK_OPEN_TAG) = 2 /\ THINK_OPEN_TAG[1] = "<" /\ THINK_OPEN_TAG[2] = "think>"
    BY DEF THINK_OPEN_TAG
  <2>2. QED BY <1>3, <1>4, <2>1
<1>6. s = THINK_CLOSE_TAG <=> s[1] = "<" /\ s[2] = "/think>"
  <2>1. Len(THINK_CLOSE_TAG) = 2 /\ THINK_CLOSE_TAG[1] = "<" /\ THINK_CLOSE_TAG[2] = "/think>"
    BY DEF THINK_CLOSE_TAG
  <2>2. QED BY <1>3, <1>4, <2>1
<1>7. QED BY <1>2, <1>5, <1>6 DEF TagAt, s

LEMMA InkStartUnique ==
  ASSUME NEW t \in Text, NEW k \in 1..Len(t), NEW j \in 1..Len(t), InkStart(t, k), InkStart(t, j)
  PROVE  k = j
<1>1. Len(t) \in Nat
  BY TextFacts
<1>2. ~(k < j) /\ ~(j < k)
  BY <1>1 DEF InkStart
<1>3. QED BY <1>1, <1>2

LEMMA TrimStartIs ==
  ASSUME NEW t \in Text, NEW k \in 1..Len(t), InkStart(t, k)
  PROVE  /\ TrimStart(t) = SubSeq(t, k, Len(t))
         /\ TrimStart(t) \in Text /\ Len(TrimStart(t)) = Len(t) - k + 1
         /\ \A i \in 1..(Len(t) - k + 1) : TrimStart(t)[i] = t[k + i - 1]
<1>1. Len(t) \in Nat /\ DOMAIN t = 1..Len(t)
  BY TextFacts
<1> DEFINE m == CHOOSE m \in DOMAIN t : InkStart(t, m)
<1>2. m \in DOMAIN t /\ InkStart(t, m) /\ TrimStart(t) = SubSeq(t, m, Len(t))
  BY <1>1 DEF TrimStart
<1> HIDE DEF m
<1>3. m = k
  BY <1>1, <1>2, InkStartUnique
<1>4. k \in Nat \ {0} /\ Len(t) \in Int /\ k <= Len(t) + 1
  BY <1>1
<1>5. QED BY <1>2, <1>3, <1>4, Slice

OpenAt(t, k) == InkStart(t, k) /\ t[k] = "<" /\ t[k + 1] = "think>"

LEMMA OpenIs ==
  ASSUME NEW t \in Text
  PROVE  HasLeadingOpen(t) <=> \E k \in 1..(Len(t) - 1) : OpenAt(t, k)
<1>1. Len(t) \in Nat /\ DOMAIN t = 1..Len(t)
  BY TextFacts
<1>2. ASSUME NEW k \in 1..Len(t), InkStart(t, k)
      PROVE  HasLeadingOpen(t) <=> k + 1 <= Len(t) /\ t[k] = "<" /\ t[k + 1] = "think>"
  <2> DEFINE u == TrimStart(t)
  <2>1. u \in Text /\ Len(u) = Len(t) - k + 1 /\ \A i \in 1..(Len(t) - k + 1) : u[i] = t[k + i - 1]
    BY <1>2, TrimStartIs
  <2> HIDE DEF u
  <2>2. Len(u) >= 2 <=> k + 1 <= Len(t)
    BY <1>1, <2>1
  <2>3. ASSUME Len(u) >= 2
        PROVE  TagAt(u, THINK_OPEN_TAG, 1) <=> t[k] = "<" /\ t[k + 1] = "think>"
    <3>1. 1 \in 1..(Len(u) - 1) /\ u[1] = t[k] /\ u[1 + 1] = t[k + 1]
      <4>1. /\ 1 \in 1..(Len(t) - k + 1) /\ 2 \in 1..(Len(t) - k + 1)
            /\ k + 1 - 1 = k /\ k + 2 - 1 = k + 1
        BY <1>1, <2>1, <2>3
      <4>2. u[1] = t[k + 1 - 1] /\ u[2] = t[k + 2 - 1]
        BY <2>1, <4>1
      <4>3. QED BY <1>1, <2>1, <2>3, <4>1, <4>2
    <3>2. QED BY <2>1, <3>1, TagIs
  <2>4. QED BY <2>2, <2>3 DEF HasLeadingOpen, u
<1>3. ASSUME HasLeadingOpen(t) PROVE \E k \in 1..(Len(t) - 1) : OpenAt(t, k)
  <2>1. PICK k \in DOMAIN t : InkStart(t, k)
    <3>1. CASE \E k \in DOMAIN t : InkStart(t, k)
      BY <3>1
    <3>2. CASE ~ \E k \in DOMAIN t : InkStart(t, k)
      <4>1. TrimStart(t) = <<>>
        BY <3>2 DEF TrimStart
      <4>2. QED BY <1>3, <4>1 DEF HasLeadingOpen
    <3>3. QED BY <3>1, <3>2
  <2>2. k + 1 <= Len(t) /\ t[k] = "<" /\ t[k + 1] = "think>"
    BY <1>1, <1>2, <1>3, <2>1
  <2>3. k \in 1..(Len(t) - 1)
    BY <1>1, <2>1, <2>2
  <2>4. QED BY <2>1, <2>2, <2>3 DEF OpenAt
<1>4. ASSUME NEW k \in 1..(Len(t) - 1), OpenAt(t, k) PROVE HasLeadingOpen(t)
  <2>1. k \in 1..Len(t) /\ k + 1 <= Len(t)
    BY <1>1
  <2>2. QED BY <1>2, <1>4, <2>1 DEF OpenAt
<1>5. QED BY <1>3, <1>4

LEMMA AfterOpenIs ==
  ASSUME NEW t \in Text, NEW k \in 1..(Len(t) - 1), OpenAt(t, k)
  PROVE  AfterLeadingOpen(t) = SubSeq(t, k + 1 + 1, Len(t))
<1>1. Len(t) \in Nat /\ k \in 1..Len(t) /\ InkStart(t, k)
  BY TextFacts DEF OpenAt
<1> DEFINE u == TrimStart(t)
<1>2. u \in Text /\ Len(u) = Len(t) - k + 1 /\ \A i \in 1..(Len(t) - k + 1) : u[i] = t[k + i - 1]
  BY <1>1, TrimStartIs
<1> HIDE DEF u
<1>3. 2 \in 0..Len(u) /\ k + 1 \in 0..Len(t)
  BY <1>1, <1>2
<1> DEFINE a == SubSeq(u, 2 + 1, Len(u))
           b == SubSeq(t, k + 1 + 1, Len(t))
<1>4. a \in Text /\ Len(a) = Len(u) - 2 /\ \A i \in 1..(Len(u) - 2) : a[i] = u[2 + i]
  BY <1>2, <1>3, Rest
<1>5. b \in Text /\ Len(b) = Len(t) - (k + 1) /\ \A i \in 1..(Len(t) - (k + 1)) : b[i] = t[k + 1 + i]
  BY <1>3, Rest
<1> HIDE DEF a, b
<1>6. Len(a) = Len(b)
  BY <1>1, <1>2, <1>4, <1>5
<1>7. ASSUME NEW i \in 1..Len(a) PROVE a[i] = b[i]
  <2>1. a[i] = u[2 + i] /\ b[i] = t[k + 1 + i]
    BY <1>4, <1>5, <1>6
  <2>2. 2 + i \in 1..(Len(t) - k + 1) /\ k + (2 + i) - 1 = k + 1 + i
    BY <1>1, <1>2, <1>4
  <2>3. QED BY <1>2, <2>1, <2>2
<1>8. a = b
  BY <1>4, <1>5, <1>6, <1>7, SameText
<1>9. AfterLeadingOpen(t) = a
  BY DEF AfterLeadingOpen, Skip, a, u
<1>10. QED BY <1>8, <1>9 DEF b

LEMMA InkStartGrows ==
  ASSUME NEW t \in Text, NEW u \in Text, NEW k \in 1..Len(t)
  PROVE  InkStart(t \o u, k) <=> InkStart(t, k)
<1>1. Len(t) \in Nat
  BY TextFacts
<1> DEFINE w == t \o u
<1>2. \A i \in 1..Len(t) : w[i] = t[i]
  BY Joins
<1> HIDE DEF w
<1>3. \A i \in 1..(k - 1) : i \in 1..Len(t)
  BY <1>1
<1>4. InkStart(w, k) <=> InkStart(t, k)
  BY <1>2, <1>3 DEF InkStart
<1>5. QED BY <1>4 DEF w

LEMMA OpenGrows ==
  ASSUME NEW t \in Text, NEW u \in Text, HasLeadingOpen(t)
  PROVE  HasLeadingOpen(t \o u) /\ AfterLeadingOpen(t \o u) = AfterLeadingOpen(t) \o u
<1>1. PICK k \in 1..(Len(t) - 1) : OpenAt(t, k)
  BY OpenIs
<1>2. Len(t) \in Nat /\ Len(u) \in Nat
  BY TextFacts
<1> DEFINE w == t \o u
<1>3. /\ w \in Text /\ Len(w) = Len(t) + Len(u)
      /\ \A i \in 1..Len(t) : w[i] = t[i]
      /\ \A i \in 1..Len(u) : w[Len(t) + i] = u[i]
  BY Joins
<1>4. InkStart(w, k)
  BY <1>1, <1>2, InkStartGrows DEF OpenAt
<1> HIDE DEF w
<1>5. k \in 1..Len(t) /\ k + 1 \in 1..Len(t) /\ k \in 1..(Len(w) - 1)
  BY <1>2, <1>3
<1>6. OpenAt(w, k)
  BY <1>1, <1>3, <1>4, <1>5 DEF OpenAt
<1>7. HasLeadingOpen(w)
  BY <1>3, <1>5, <1>6, OpenIs
<1> DEFINE a == AfterLeadingOpen(t)
           b == AfterLeadingOpen(w)
           n == Len(t) - (k + 1)
<1>8. a \in Text /\ Len(a) = n /\ \A i \in 1..n : a[i] = t[k + 1 + i]
  BY <1>1, <1>5, AfterOpenIs, Rest, k + 1 \in 0..Len(t)
<1>9. /\ b \in Text /\ Len(b) = Len(w) - (k + 1)
      /\ \A i \in 1..(Len(w) - (k + 1)) : b[i] = w[k + 1 + i]
  <2>1. w \in Text /\ k + 1 \in 0..Len(w)
    BY <1>2, <1>3, <1>5
  <2>2. b = SubSeq(w, k + 1 + 1, Len(w))
    BY <1>5, <1>6, <2>1, AfterOpenIs
  <2> HIDE DEF b
  <2>3. QED BY <2>1, <2>2, Rest
<1> HIDE DEF a, b
<1>10. /\ a \o u \in Text /\ Len(a \o u) = Len(a) + Len(u)
       /\ \A i \in 1..Len(a) : (a \o u)[i] = a[i]
       /\ \A i \in 1..Len(u) : (a \o u)[Len(a) + i] = u[i]
  BY <1>8, Joins
<1> DEFINE c == a \o u
<1> HIDE DEF c
<1>11. Len(b) = Len(c) /\ n \in Nat
  BY <1>2, <1>3, <1>5, <1>8, <1>9, <1>10 DEF c
<1>12. ASSUME NEW i \in 1..Len(b) PROVE b[i] = c[i]
  <2>1. b[i] = w[k + 1 + i]
    BY <1>9
  <2>2. CASE i <= n
    <3>1. i \in 1..n /\ k + 1 + i \in 1..Len(t)
      BY <1>2, <1>5, <1>11, <2>2
    <3>2. c[i] = a[i] /\ a[i] = t[k + 1 + i] /\ w[k + 1 + i] = t[k + 1 + i]
      BY <1>3, <1>8, <1>10, <3>1 DEF c
    <3>3. QED BY <2>1, <3>2
  <2>3. CASE i > n
    <3>1. PICK j \in 1..Len(u) : i = n + j /\ k + 1 + i = Len(t) + j
      <4>1. i - n \in 1..Len(u) /\ i = n + (i - n) /\ k + 1 + i = Len(t) + (i - n)
        BY <1>2, <1>3, <1>5, <1>9, <1>11, <2>3
      <4>2. QED BY <4>1
    <3>2. c[i] = u[j]
      BY <1>8, <1>10, <3>1 DEF c
    <3>3. w[k + 1 + i] = u[j]
      BY <1>3, <3>1
    <3>4. QED BY <2>1, <3>2, <3>3
  <2>4. QED BY <1>11, <2>2, <2>3
<1>13. b = c
  BY <1>9, <1>10, <1>11, <1>12, SameText DEF c
<1>14. QED BY <1>7, <1>13 DEF a, b, c, w

(* A text that begins with something else than the tag. *)
PlainAt(t, k) == InkStart(t, k) /\ (t[k] = "<" => k + 1 <= Len(t) /\ t[k + 1] # "think>")

LEMMA PlainIs ==
  ASSUME NEW t \in Text
  PROVE  ~HasLeadingOpen(t) /\ ~IsLeadingThinkPrefix(t) <=> \E k \in 1..Len(t) : PlainAt(t, k)
<1>1. Len(t) \in Nat /\ DOMAIN t = 1..Len(t)
  BY TextFacts
<1> DEFINE s == TrimStart(t)
<1>2. ASSUME NEW k \in 1..Len(t), InkStart(t, k)
      PROVE  /\ s \in Text /\ Len(s) = Len(t) - k + 1 /\ s[1] = t[k]
             /\ k + 1 <= Len(t) => s[2] = t[k + 1]
  <2>1. s \in Text /\ Len(s) = Len(t) - k + 1 /\ \A i \in 1..(Len(t) - k + 1) : s[i] = t[k + i - 1]
    BY <1>2, TrimStartIs
  <2> HIDE DEF s
  <2>2. /\ 1 \in 1..(Len(t) - k + 1) /\ k + 1 - 1 = k /\ k + 2 - 1 = k + 1
        /\ k + 1 <= Len(t) => 2 \in 1..(Len(t) - k + 1)
    BY <1>1
  <2>3. s[1] = t[k + 1 - 1] /\ (k + 1 <= Len(t) => s[2] = t[k + 2 - 1])
    BY <2>1, <2>2
  <2>4. QED BY <2>1, <2>2, <2>3
<1>3. ASSUME NEW k \in 1..Len(t), PlainAt(t, k)
      PROVE  ~HasLeadingOpen(t) /\ ~IsLeadingThinkPrefix(t)
  <2>1. /\ InkStart(t, k) /\ s \in Text /\ Len(s) = Len(t) - k + 1 /\ s[1] = t[k]
        /\ k + 1 <= Len(t) => s[2] = t[k + 1]
    BY <1>2, <1>3 DEF PlainAt
  <2> HIDE DEF s
  <2>2. ~HasLeadingOpen(t)
    <3> SUFFICES ASSUME HasLeadingOpen(t) PROVE FALSE
      OBVIOUS
    <3>1. PICK j \in 1..(Len(t) - 1) : OpenAt(t, j)
      BY OpenIs
    <3>2. j = k
      BY <1>1, <2>1, <3>1, InkStartUnique, j \in 1..Len(t) DEF OpenAt
    <3>3. QED BY <1>3, <3>1, <3>2 DEF OpenAt, PlainAt
  <2>3. s # <<>>
    BY <1>1, <2>1
  <2>4. s # <<"<">>
    <3> SUFFICES ASSUME s = <<"<">> PROVE FALSE
      OBVIOUS
    <3>1. Len(s) = 1 /\ s[1] = "<"
      OBVIOUS
    <3>2. QED BY <1>1, <1>3, <2>1, <3>1 DEF PlainAt
  <2>5. s # THINK_OPEN_TAG
    <3> SUFFICES ASSUME s = THINK_OPEN_TAG PROVE FALSE
      OBVIOUS
    <3>1. Len(s) = 2 /\ s[1] = "<" /\ s[2] = "think>"
      BY DEF THINK_OPEN_TAG
    <3>2. QED BY <1>1, <1>3, <2>1, <3>1 DEF PlainAt
  <2>6. QED BY <2>2, <2>3, <2>4, <2>5 DEF IsLeadingThinkPrefix, s
<1>4. ASSUME ~HasLeadingOpen(t), ~IsLeadingThinkPrefix(t)
      PROVE  \E k \in 1..Len(t) : PlainAt(t, k)
  <2>1. PICK k \in 1..Len(t) : InkStart(t, k)
    <3>1. s # <<>>
      BY <1>4 DEF IsLeadingThinkPrefix
    <3>2. QED BY <1>1, <3>1 DEF TrimStart
  <2>2. /\ s \in Text /\ Len(s) = Len(t) - k + 1 /\ s[1] = t[k]
        /\ k + 1 <= Len(t) => s[2] = t[k + 1]
    BY <1>2, <2>1
  <2>3. s # <<"<">>
    BY <1>4 DEF IsLeadingThinkPrefix
  <2> HIDE DEF s
  <2>4. ASSUME t[k] = "<" PROVE k + 1 <= Len(t)
    <3> SUFFICES ASSUME ~(k + 1 <= Len(t)) PROVE FALSE
      OBVIOUS
    <3>1. Len(s) = 1 /\ s[1] = "<"
      BY <1>1, <2>2, <2>4
    <3>2. <<"<">> \in Text /\ Len(<<"<">>) = 1 /\ <<"<">>[1] = "<"
      BY DEF Text, Char
    <3>3. s = <<"<">>
      <4>1. \A i \in 1..Len(s) : s[i] = <<"<">>[i]
        BY <3>1, <3>2
      <4>2. QED BY <2>2, <3>1, <3>2, <4>1, SameText
    <3>4. QED BY <2>3, <3>3
  <2>5. ASSUME t[k] = "<" PROVE t[k + 1] # "think>"
    <3> SUFFICES ASSUME t[k + 1] = "think>" PROVE FALSE
      OBVIOUS
    <3>1. k \in 1..(Len(t) - 1)
      BY <1>1, <2>4, <2>5
    <3>2. QED BY <1>4, <2>1, <2>5, <3>1, OpenIs DEF OpenAt
  <2>6. QED BY <2>1, <2>4, <2>5 DEF PlainAt
<1>5. QED BY <1>3, <1>4

LEMMA PlainGrows ==
  ASSUME NEW t \in Text, NEW u \in Text, ~HasLeadingOpen(t), ~IsLeadingThinkPrefix(t)
  PROVE  ~HasLeadingOpen(t \o u) /\ ~IsLeadingThinkPrefix(t \o u)
<1>1. PICK k \in 1..Len(t) : PlainAt(t, k)
  BY PlainIs
<1>2. Len(t) \in Nat /\ Len(u) \in Nat
  BY TextFacts
<1> DEFINE w == t \o u
<1>3. w \in Text /\ Len(w) = Len(t) + Len(u) /\ \A i \in 1..Len(t) : w[i] = t[i]
  BY Joins
<1>4. InkStart(w, k)
  BY <1>1, InkStartGrows DEF PlainAt
<1> HIDE DEF w
<1>5. k \in 1..Len(w) /\ w[k] = t[k]
  BY <1>2, <1>3
<1>6. ASSUME t[k] = "<" PROVE k + 1 <= Len(w) /\ w[k + 1] # "think>"
  <2>1. k + 1 \in 1..Len(t) /\ t[k + 1] # "think>"
    BY <1>1, <1>2, <1>6 DEF PlainAt
  <2>2. QED BY <1>2, <1>3, <2>1
<1>7. PlainAt(w, k)
  BY <1>4, <1>5, <1>6 DEF PlainAt
<1>8. ~HasLeadingOpen(w) /\ ~IsLeadingThinkPrefix(w)
  BY <1>3, <1>5, <1>7, PlainIs
<1>9. QED BY <1>8 DEF w

(* The piece that completes the tag holds everything after it. *)
LEMMA OpeningPiece ==
  ASSUME NEW t \in Text, NEW u \in Text, ~HasLeadingOpen(t), HasLeadingOpen(t \o u)
  PROVE  \E m \in 1..Len(u) : /\ u[m] = "think>"
                              /\ AfterLeadingOpen(t \o u) = SubSeq(u, m + 1, Len(u))
<1>1. Len(t) \in Nat /\ Len(u) \in Nat
  BY TextFacts
<1> DEFINE w == t \o u
<1>2. /\ w \in Text /\ Len(w) = Len(t) + Len(u)
      /\ \A i \in 1..Len(t) : w[i] = t[i]
      /\ \A i \in 1..Len(u) : w[Len(t) + i] = u[i]
  BY Joins
<1>3. PICK k \in 1..(Len(w) - 1) : OpenAt(w, k)
  BY <1>2, OpenIs
<1>4. ASSUME k + 1 <= Len(t) PROVE FALSE
  <2>1. k \in 1..(Len(t) - 1) /\ k \in 1..Len(t) /\ k + 1 \in 1..Len(t)
    BY <1>1, <1>4
  <2>2. InkStart(t, k)
    BY <1>3, <2>1, InkStartGrows DEF OpenAt
  <2>3. t[k] = "<" /\ t[k + 1] = "think>"
    BY <1>2, <1>3, <2>1 DEF OpenAt
  <2>4. QED BY <2>1, <2>2, <2>3, OpenIs DEF OpenAt
<1> HIDE DEF w
<1>5. PICK m \in 1..Len(u) : k + 1 = Len(t) + m
  <2>1. k + 1 - Len(t) \in 1..Len(u) /\ k + 1 = Len(t) + (k + 1 - Len(t))
    BY <1>1, <1>2, <1>4
  <2>2. QED BY <2>1
<1>6. u[m] = "think>"
  BY <1>2, <1>3, <1>5 DEF OpenAt
<1> DEFINE a == SubSeq(w, k + 1 + 1, Len(w))
           b == SubSeq(u, m + 1, Len(u))
<1>7. AfterLeadingOpen(w) = a
  BY <1>2, <1>3, AfterOpenIs
<1>8. a \in Text /\ Len(a) = Len(w) - (k + 1) /\ \A i \in 1..(Len(w) - (k + 1)) : a[i] = w[k + 1 + i]
  <2>1. k + 1 \in 0..Len(w)
    BY <1>1, <1>2
  <2>2. QED BY <1>2, <2>1, Rest
<1>9. b \in Text /\ Len(b) = Len(u) - m /\ \A i \in 1..(Len(u) - m) : b[i] = u[m + i]
  BY <1>1, Rest, m \in 0..Len(u)
<1> HIDE DEF a, b
<1>100. Len(a) = Len(w) - (k + 1) /\ Len(w) = Len(t) + Len(u) /\ Len(b) = Len(u) - m
  BY <1>2, <1>8, <1>9
<1>10. Len(a) = Len(b)
  BY <1>1, <1>5, <1>100
<1>11. ASSUME NEW i \in 1..Len(a) PROVE a[i] = b[i]
  <2>1. a[i] = w[k + 1 + i] /\ b[i] = u[m + i]
    BY <1>8, <1>9, <1>10
  <2>2. m + i \in 1..Len(u) /\ k + 1 + i = Len(t) + (m + i)
    BY <1>1, <1>5, <1>10, <1>100
  <2>3. w[Len(t) + (m + i)] = u[m + i]
    BY <1>2, <2>2
  <2>4. QED BY <2>1, <2>2, <2>3
<1>12. a = b
  BY <1>8, <1>9, <1>10, <1>11, SameText
<1>13. QED BY <1>6, <1>7, <1>12 DEF b, w

------------------------------------------------------------------------------
(* What Trim leaves.                                                       *)

LEMMA InkEndUnique ==
  ASSUME NEW t \in Text, NEW k \in 1..Len(t), NEW j \in 1..Len(t), InkEnd(t, k), InkEnd(t, j)
  PROVE  k = j
<1>1. Len(t) \in Nat
  BY TextFacts
<1>2. ASSUME k < j PROVE FALSE
  <2>1. j \in (k + 1)..Len(t)
    BY <1>1, <1>2
  <2>2. QED BY <2>1 DEF InkEnd
<1>3. ASSUME j < k PROVE FALSE
  <2>1. k \in (j + 1)..Len(t)
    BY <1>1, <1>3
  <2>2. QED BY <2>1 DEF InkEnd
<1>4. QED BY <1>1, <1>2, <1>3

LEMMA TrimEndIs ==
  ASSUME NEW t \in Text, NEW k \in 1..Len(t), InkEnd(t, k)
  PROVE  /\ TrimEnd(t) \in Text /\ Len(TrimEnd(t)) = k
         /\ \A i \in 1..k : TrimEnd(t)[i] = t[i]
<1>1. Len(t) \in Nat /\ DOMAIN t = 1..Len(t)
  BY TextFacts
<1> DEFINE m == CHOOSE m \in DOMAIN t : InkEnd(t, m)
<1>2. m \in DOMAIN t /\ InkEnd(t, m) /\ TrimEnd(t) = SubSeq(t, 1, m)
  BY <1>1 DEF TrimEnd
<1> HIDE DEF m
<1>3. m = k
  BY <1>1, <1>2, InkEndUnique
<1>4. 1 \in Nat \ {0} /\ k \in Int /\ k <= Len(t) /\ 1 <= k + 1 /\ k - 1 + 1 = k
  BY <1>1
<1>5. /\ SubSeq(t, 1, k) \in Text /\ Len(SubSeq(t, 1, k)) = k - 1 + 1
      /\ \A i \in 1..(k - 1 + 1) : SubSeq(t, 1, k)[i] = t[1 + i - 1]
  BY <1>4, Slice
<1>6. \A i \in 1..k : 1 + i - 1 = i
  BY <1>1
<1>7. QED BY <1>2, <1>3, <1>4, <1>5, <1>6

LEMMA TrimIs ==
  ASSUME NEW t \in Text
  PROVE  \/ Trim(t) = <<>> /\ IsBlank(t)
         \/ \E i, j \in 1..Len(t) :
              /\ i <= j /\ InkEnd(t, j) /\ Len(Trim(t)) = j - i + 1
              /\ \A x \in 1..(j - i + 1) : Trim(t)[x] = t[i + x - 1]
<1>1. Len(t) \in Nat /\ DOMAIN t = 1..Len(t)
  BY TextFacts
<1>2. CASE IsBlank(t)
  <2>1. TrimStart(t) = <<>>
    BY <1>2 DEF TrimStart, InkStart, IsBlank
  <2>2. TrimEnd(<<>>) = <<>>
    BY DEF TrimEnd
  <2>3. QED BY <1>2, <2>1, <2>2 DEF Trim
<1>3. CASE ~IsBlank(t)
  <2>1. PICK i \in 1..Len(t) : InkStart(t, i)
    BY <1>1, <1>3, FirstInk DEF IsBlank
  <2> DEFINE s == TrimStart(t)
  <2>2. s \in Text /\ Len(s) = Len(t) - i + 1 /\ \A x \in 1..(Len(t) - i + 1) : s[x] = t[i + x - 1]
    BY <2>1, TrimStartIs
  <2> HIDE DEF s
  <2>3. 1 \in DOMAIN s /\ s[1] # "ws" /\ DOMAIN s = 1..Len(s)
    <3>1. 1 \in 1..(Len(t) - i + 1) /\ i + 1 - 1 = i /\ DOMAIN s = 1..Len(s)
      BY <1>1, <2>2, TextFacts
    <3>2. s[1] = t[i + 1 - 1]
      BY <2>2, <3>1
    <3>3. QED BY <2>1, <2>2, <3>1, <3>2 DEF InkStart
  <2>4. PICK e \in 1..Len(s) : InkEnd(s, e)
    BY <2>2, <2>3, LastInk
  <2>5. TrimEnd(s) \in Text /\ Len(TrimEnd(s)) = e /\ \A x \in 1..e : TrimEnd(s)[x] = s[x]
    BY <2>2, <2>4, TrimEndIs
  <2>6. PICK j \in 1..Len(t) : j = i + e - 1 /\ i <= j /\ j - i + 1 = e
    <3>1. i + e - 1 \in 1..Len(t) /\ i <= i + e - 1 /\ (i + e - 1) - i + 1 = e
      BY <1>1, <2>2
    <3>2. QED BY <3>1
  <2>7. InkEnd(t, j)
    <3>1. t[j] # "ws"
      BY <2>2, <2>4, <2>6 DEF InkEnd
    <3>2. ASSUME NEW y \in (j + 1)..Len(t) PROVE t[y] = "ws"
      <4>1. PICK x \in (e + 1)..Len(s) : x \in 1..(Len(t) - i + 1) /\ i + x - 1 = y
        <5>1. /\ y - i + 1 \in (e + 1)..Len(s) /\ y - i + 1 \in 1..(Len(t) - i + 1)
              /\ i + (y - i + 1) - 1 = y
          BY <1>1, <2>2, <2>6
        <5>2. QED BY <5>1
      <4>2. QED BY <2>2, <2>4, <4>1 DEF InkEnd
    <3>3. QED BY <3>1, <3>2 DEF InkEnd
  <2>8. ASSUME NEW x \in 1..(j - i + 1) PROVE TrimEnd(s)[x] = t[i + x - 1]
    <3>1. x \in 1..e /\ x \in 1..(Len(t) - i + 1)
      BY <1>1, <2>2, <2>6
    <3>2. QED BY <2>2, <2>5, <3>1
  <2>9. Trim(t) = TrimEnd(s)
    BY DEF Trim, s
  <2>10. /\ i <= j /\ InkEnd(t, j) /\ Len(Trim(t)) = j - i + 1
         /\ \A x \in 1..(j - i + 1) : Trim(t)[x] = t[i + x - 1]
    BY <2>5, <2>6, <2>7, <2>8, <2>9
  <2>11. QED BY <2>10
<1>4. QED BY <1>2, <1>3

(* The piece that opens the block, trimmed, ends in "<" as it does before. *)
LEMMA TrimmedEnd ==
  ASSUME NEW u \in Text, NEW m \in 1..Len(u), u[m] = "think>", ~OpensBare(u)
  PROVE  EndsInCloseSuffix(Trim(SubSeq(u, m + 1, Len(u))))
           <=> EndsInCloseSuffix(SubSeq(u, m + 1, Len(u)))
<1> DEFINE a == SubSeq(u, m + 1, Len(u))
<1>0. Len(u) \in Nat /\ DOMAIN u = 1..Len(u) /\ m \in 0..Len(u)
  BY TextFacts
<1>2. a \in Text /\ Len(a) = Len(u) - m /\ \A i \in 1..(Len(u) - m) : a[i] = u[m + i]
  BY <1>0, Rest
<1> HIDE DEF a
<1> SUFFICES EndsInCloseSuffix(Trim(a)) <=> EndsInCloseSuffix(a)
  BY DEF a
<1>1. Len(u) \in Nat /\ Len(a) \in Nat /\ Len(a) = Len(u) - m
  BY <1>0, <1>2, TextFacts
<1>3. CASE Trim(a) = <<>> /\ IsBlank(a)
  <2>1. ~EndsInCloseSuffix(Trim(a))
    BY <1>3 DEF EndsInCloseSuffix
  <2>2. ASSUME EndsInCloseSuffix(a) PROVE FALSE
    <3>1. a # <<>> /\ a[Len(a)] = "<"
      BY <2>2 DEF EndsInCloseSuffix
    <3>2. Len(a) # 0
      BY <1>2, <3>1, EmptySeq DEF Text
    <3>3. Len(a) \in DOMAIN a
      BY <1>1, <1>2, <3>2, TextFacts
    <3>4. QED BY <1>3, <3>1, <3>3 DEF IsBlank
  <2>3. QED BY <2>1, <2>2
<1>4. ASSUME NEW i \in 1..Len(a), NEW j \in 1..Len(a), i <= j, InkEnd(a, j),
             Len(Trim(a)) = j - i + 1, \A x \in 1..(j - i + 1) : Trim(a)[x] = a[i + x - 1]
      PROVE  EndsInCloseSuffix(Trim(a)) <=> EndsInCloseSuffix(a)
  <2> DEFINE s == Trim(a)
  <2>1. s \in Text
    BY <1>2, TrimIsText
  <2>0. Len(s) = j - i + 1 /\ i <= j /\ i \in 1..Len(a) /\ j \in 1..Len(a)
    BY <1>4
  <2>2. s[Len(s)] = a[j] /\ s # <<>>
    <3>1. Len(s) \in 1..(j - i + 1) /\ i + Len(s) - 1 = j /\ Len(s) # 0
      BY <1>1, <2>0
    <3>2. s[Len(s)] = a[i + Len(s) - 1]
      BY <1>4, <3>1
    <3>3. QED BY <3>1, <3>2
  <2> HIDE DEF s
  <2>3. EndsInCloseSuffix(s) <=> a[j] = "<"
    BY <2>2 DEF EndsInCloseSuffix
  <2>4. a # <<>>
    BY <1>1, <2>0
  <2>5. CASE j = Len(a)
    BY <2>3, <2>4, <2>5 DEF EndsInCloseSuffix, s
  <2>6. CASE j # Len(a)
    <3>1. a[Len(a)] = "ws"
      <4>1. Len(a) \in (j + 1)..Len(a)
        BY <2>6, Len(a) \in Nat, j \in 1..Len(a)
      <4>2. QED BY <1>4, <4>1 DEF InkEnd
    <3>2. ~EndsInCloseSuffix(a)
      BY <3>1 DEF EndsInCloseSuffix
    <3>3. ASSUME a[j] = "<" PROVE FALSE
      <4>1. PICK k \in 1..Len(u) : k = m + j
        BY <1>1, <2>0
      <4>2. InkEnd(u, k)
        <5>1. u[k] = a[j]
          BY <1>2, <4>1
        <5>2. ASSUME NEW y \in (k + 1)..Len(u) PROVE u[y] = "ws"
          <6>1. PICK x \in (j + 1)..Len(a) : x \in 1..(Len(u) - m) /\ m + x = y
            <7>1. y - m \in (j + 1)..Len(a) /\ y - m \in 1..(Len(u) - m) /\ m + (y - m) = y
              BY <1>1, <2>0, <4>1
            <7>2. QED BY <7>1
          <6>2. QED BY <1>2, <1>4, <6>1 DEF InkEnd
        <5>3. QED BY <1>4, <5>1, <5>2 DEF InkEnd
      <4>3. TrimEnd(u) \in Text /\ Len(TrimEnd(u)) = k /\ TrimEnd(u)[k] = u[k]
        BY <4>1, <4>2, TrimEndIs, k \in 1..k
      <4>4. u[k] = "<"
        BY <1>2, <3>3, <4>1
      <4>5. EndsInCloseSuffix(TrimEnd(u))
        BY <4>1, <4>3, <4>4 DEF EndsInCloseSuffix
      <4>6. u[Len(u)] = "ws"
        <5>1. Len(a) \in 1..(Len(u) - m) /\ m + Len(a) = Len(u)
          BY <1>1, <2>0
        <5>2. QED BY <1>2, <3>1, <5>1
      <4>7. ~EndsInCloseSuffix(u)
        BY <4>6 DEF EndsInCloseSuffix
      <4>8. "think>" \in ToSet(u)
        BY <1>0 DEF ToSet
      <4>9. QED BY <4>5, <4>7, <4>8 DEF OpensBare
    <3>4. QED BY <2>3, <3>2, <3>3 DEF s
  <2>7. QED BY <2>5, <2>6
<1>5. QED BY <1>2, <1>3, <1>4, TrimIs

------------------------------------------------------------------------------
(* The close tag, by its place in the text.                                *)

StopAt(t, k) == k \in 1..(Len(t) - 1) /\ t[k] = "<" /\ t[k + 1] = "/think>"

LEMMA CloseIs ==
  ASSUME NEW t \in Text, NEW k \in DOMAIN t
  PROVE  CloseAt(t, k) <=> StopAt(t, k) /\ \A i \in 1..(k - 1) : ~StopAt(t, i)
<1>1. Len(t) \in Nat /\ k \in 1..Len(t)
  BY TextFacts
<1>2. \A i \in 1..(Len(t) - 1) : TagAt(t, THINK_CLOSE_TAG, i) <=> t[i] = "<" /\ t[i + 1] = "/think>"
  BY TagIs
<1>3. \A i \in 1..(Len(t) - 1) : TagAt(t, THINK_CLOSE_TAG, i) <=> StopAt(t, i)
  BY <1>2 DEF StopAt
<1>4. CASE k + 1 <= Len(t)
  <2>1. k \in 1..(Len(t) - 1) /\ \A i \in 1..(k - 1) : i \in 1..(Len(t) - 1)
    BY <1>1, <1>4
  <2>2. QED BY <1>3, <1>4, <2>1 DEF CloseAt
<1>5. CASE ~(k + 1 <= Len(t))
  <2>1. ~CloseAt(t, k)
    BY <1>5 DEF CloseAt
  <2>2. ~StopAt(t, k)
    BY <1>1, <1>5 DEF StopAt
  <2>3. QED BY <2>1, <2>2
<1>6. QED BY <1>4, <1>5

LEMMA FirstStop ==
  ASSUME NEW t \in Text, NEW i, StopAt(t, i)
  PROVE  \E k \in DOMAIN t : CloseAt(t, k)
<1>1. DOMAIN t = 1..Len(t) /\ Len(t) \in Nat /\ i \in 1..(Len(t) - 1)
  BY TextFacts DEF StopAt
<1> DEFINE T == {j \in 1..(Len(t) - 1) : StopAt(t, j)}
<1>2. T \subseteq Nat /\ i \in T
  BY <1>1
<1> HIDE DEF T
<1>3. PICK k \in T : \A y \in T : k <= y
  BY <1>2, Least
<1>4. k \in 1..(Len(t) - 1) /\ StopAt(t, k)
  BY <1>3 DEF T
<1>5. ASSUME NEW j \in 1..(k - 1) PROVE ~StopAt(t, j)
  <2>1. j \in 1..(Len(t) - 1) /\ ~(k <= j)
    BY <1>1, <1>4
  <2>2. QED BY <1>3, <2>1 DEF T
<1>6. k \in DOMAIN t
  BY <1>1, <1>4
<1>7. QED BY <1>4, <1>5, <1>6, CloseIs

LEMMA HasCloseIs ==
  ASSUME NEW t \in Text
  PROVE  HasClose(t) <=> \E k : StopAt(t, k)
BY FirstStop, CloseIs DEF HasClose

LEMMA CloseUnique ==
  ASSUME NEW t \in Text, NEW k \in DOMAIN t, NEW j \in DOMAIN t, CloseAt(t, k), CloseAt(t, j)
  PROVE  k = j
<1>1. k \in 1..Len(t) /\ j \in 1..Len(t) /\ Len(t) \in Nat
  BY TextFacts
<1>2. ASSUME k < j PROVE FALSE
  <2>1. k \in 1..(j - 1) /\ StopAt(t, k) /\ \A i \in 1..(j - 1) : ~StopAt(t, i)
    BY <1>1, <1>2, CloseIs
  <2>2. QED BY <2>1
<1>3. ASSUME j < k PROVE FALSE
  <2>1. j \in 1..(k - 1) /\ StopAt(t, j) /\ \A i \in 1..(k - 1) : ~StopAt(t, i)
    BY <1>1, <1>3, CloseIs
  <2>2. QED BY <2>1
<1>4. QED BY <1>1, <1>2, <1>3

LEMMA SplitIs ==
  ASSUME NEW t \in Text, NEW k \in DOMAIN t, CloseAt(t, k)
  PROVE  /\ HasClose(t)
         /\ SplitAtThinkClose(t).reasoning = SubSeq(t, 1, k - 1)
         /\ SplitAtThinkClose(t).answer = TrimStart(SubSeq(t, k + 1 + 1, Len(t)))
         /\ k + 1 \in 0..Len(t) /\ k - 1 \in 0..Len(t)
<1>1. HasClose(t)
  BY DEF HasClose
<1> DEFINE m == CHOOSE i \in DOMAIN t : CloseAt(t, i)
<1>2. m \in DOMAIN t /\ CloseAt(t, m)
  OBVIOUS
<1>3. SplitAtThinkClose(t) =
        [reasoning |-> SubSeq(t, 1, m - 1), answer |-> TrimStart(SubSeq(t, m + 1 + 1, Len(t)))]
  BY DEF SplitAtThinkClose, Skip
<1> HIDE DEF m
<1>4. m = k
  BY <1>2, CloseUnique
<1>5. k + 1 \in 0..Len(t) /\ k - 1 \in 0..Len(t)
  <2>1. Len(t) \in Nat /\ k \in 1..Len(t) /\ k \in 1..(Len(t) - 1)
    BY TextFacts, CloseIs DEF StopAt
  <2>2. QED BY <2>1
<1>6. QED BY <1>1, <1>3, <1>4, <1>5

(* Two texts with a common end, one of which closes in it. *)
LEMMA SplitAfter ==
  ASSUME NEW e \in Text, NEW j \in Text, NEW k \in DOMAIN j, CloseAt(j, k),
         \A i : StopAt(e \o j, i) => i > Len(e)
  PROVE  /\ HasClose(e \o j)
         /\ SplitAtThinkClose(e \o j).reasoning = e \o SplitAtThinkClose(j).reasoning
         /\ SplitAtThinkClose(e \o j).answer = SplitAtThinkClose(j).answer
<1>1. Len(e) \in Nat /\ Len(j) \in Nat /\ k \in 1..Len(j) /\ k \in 1..(Len(j) - 1)
  BY TextFacts, CloseIs DEF StopAt
<1> DEFINE w == e \o j
           n == Len(e) + k
<1>2. /\ w \in Text /\ Len(w) = Len(e) + Len(j)
      /\ \A i \in 1..Len(e) : w[i] = e[i]
      /\ \A i \in 1..Len(j) : w[Len(e) + i] = j[i]
  BY Joins
<1>3. \A i : StopAt(w, i) => i > Len(e)
  OBVIOUS
<1> HIDE DEF w
<1>4. Len(w) = Len(e) + Len(j) /\ Len(w) \in Nat /\ DOMAIN w = 1..Len(w)
  BY <1>2, TextFacts
<1>5. StopAt(w, n)
  <2>1. k + 1 \in 1..Len(j) /\ Len(e) + (k + 1) = n + 1 /\ n \in 1..(Len(w) - 1)
    BY <1>1, <1>4
  <2>2. j[k] = "<" /\ j[k + 1] = "/think>"
    BY CloseIs DEF StopAt
  <2>3. w[n] = j[k] /\ w[n + 1] = j[k + 1]
    <3>1. w[Len(e) + k] = j[k] /\ w[Len(e) + (k + 1)] = j[k + 1]
      BY <1>1, <1>2, <2>1
    <3>2. QED BY <2>1, <3>1
  <2>4. QED BY <2>1, <2>2, <2>3 DEF StopAt
<1>6. ASSUME NEW i \in 1..(n - 1) PROVE ~StopAt(w, i)
  <2> SUFFICES ASSUME StopAt(w, i) PROVE FALSE
    OBVIOUS
  <2>1. i > Len(e)
    BY <1>3
  <2>2. PICK x \in 1..(k - 1) : i = Len(e) + x
    <3>1. i - Len(e) \in 1..(k - 1) /\ i = Len(e) + (i - Len(e))
      BY <1>1, <2>1
    <3>2. QED BY <3>1
  <2>3. x \in 1..Len(j) /\ x + 1 \in 1..Len(j) /\ i + 1 = Len(e) + (x + 1) /\ x \in 1..(Len(j) - 1)
    BY <1>1, <2>2
  <2>4. w[i] = j[x] /\ w[i + 1] = j[x + 1]
    BY <1>2, <2>2, <2>3
  <2>5. StopAt(j, x)
    BY <2>3, <2>4 DEF StopAt
  <2>6. QED BY <2>2, <2>5, CloseIs
<1>7. n \in DOMAIN w
  BY <1>1, <1>4
<1>8. CloseAt(w, n)
  BY <1>2, <1>5, <1>6, <1>7, CloseIs
<1>9. /\ HasClose(w)
      /\ SplitAtThinkClose(w).reasoning = SubSeq(w, 1, n - 1)
      /\ SplitAtThinkClose(w).answer = TrimStart(SubSeq(w, n + 1 + 1, Len(w)))
      /\ n + 1 \in 0..Len(w) /\ n - 1 \in 0..Len(w)
  BY <1>2, <1>7, <1>8, SplitIs
<1>10. /\ SplitAtThinkClose(j).reasoning = SubSeq(j, 1, k - 1)
       /\ SplitAtThinkClose(j).answer = TrimStart(SubSeq(j, k + 1 + 1, Len(j)))
       /\ k + 1 \in 0..Len(j) /\ k - 1 \in 0..Len(j)
  BY SplitIs
<1> DEFINE a == SubSeq(w, n + 1 + 1, Len(w))
           b == SubSeq(j, k + 1 + 1, Len(j))
           c == SubSeq(w, 1, n - 1)
           d == SubSeq(j, 1, k - 1)
<1>11. a \in Text /\ Len(a) = Len(w) - (n + 1) /\ \A i \in 1..(Len(w) - (n + 1)) : a[i] = w[n + 1 + i]
  BY <1>2, <1>9, Rest
<1>12. b \in Text /\ Len(b) = Len(j) - (k + 1) /\ \A i \in 1..(Len(j) - (k + 1)) : b[i] = j[k + 1 + i]
  BY <1>10, Rest
<1>13. c \in Text /\ Len(c) = n - 1 /\ \A i \in 1..(n - 1) : c[i] = w[i]
  BY <1>2, <1>9, Beginning
<1>14. d \in Text /\ Len(d) = k - 1 /\ \A i \in 1..(k - 1) : d[i] = j[i]
  BY <1>10, Beginning
<1> HIDE DEF a, b, c, d
<1>15. a = b
  <2>1. Len(w) - (n + 1) = Len(j) - (k + 1)
    BY <1>1, <1>4
  <2>2. ASSUME NEW i \in 1..Len(a) PROVE a[i] = b[i]
    <3>1. i \in 1..(Len(w) - (n + 1)) /\ i \in 1..(Len(j) - (k + 1))
      BY <1>11, <2>1
    <3>2. a[i] = w[n + 1 + i] /\ b[i] = j[k + 1 + i]
      BY <1>11, <1>12, <3>1
    <3>3. k + 1 + i \in 1..Len(j) /\ n + 1 + i = Len(e) + (k + 1 + i)
      <4>1. i \in 1..(Len(j) - (k + 1))
        BY <3>1
      <4>2. QED BY <1>1, <4>1
    <3>4. w[Len(e) + (k + 1 + i)] = j[k + 1 + i]
      BY <1>2, <3>3
    <3>5. QED BY <3>2, <3>3, <3>4
  <2>3. QED BY <1>11, <1>12, <2>1, <2>2, SameText
<1>16. c = e \o d
  <2> DEFINE f == e \o d
  <2>1. /\ f \in Text /\ Len(f) = Len(e) + Len(d)
        /\ \A i \in 1..Len(e) : f[i] = e[i]
        /\ \A i \in 1..Len(d) : f[Len(e) + i] = d[i]
    BY <1>14, Joins
  <2> HIDE DEF f
  <2>2. Len(c) = Len(f)
    BY <1>1, <1>13, <1>14, <2>1
  <2>3. ASSUME NEW i \in 1..Len(c) PROVE c[i] = f[i]
    <3>1. i \in 1..(n - 1) /\ c[i] = w[i]
      BY <1>13
    <3>2. CASE i <= Len(e)
      BY <1>1, <1>2, <2>1, <3>1, <3>2
    <3>3. CASE i > Len(e)
      <4>1. PICK x \in 1..(k - 1) : i = Len(e) + x
        <5>1. i - Len(e) \in 1..(k - 1) /\ i = Len(e) + (i - Len(e))
          BY <1>1, <3>1, <3>3
        <5>2. QED BY <5>1
      <4>2. x \in 1..Len(j) /\ x \in 1..Len(d)
        BY <1>1, <1>14
      <4>3. w[i] = j[x] /\ f[i] = d[x] /\ d[x] = j[x]
        BY <1>2, <1>14, <2>1, <4>1, <4>2
      <4>4. QED BY <3>1, <4>3
    <3>4. QED BY <1>1, <3>1, <3>2, <3>3
  <2>4. QED BY <1>13, <2>1, <2>2, <2>3, SameText DEF f
<1>17. QED BY <1>9, <1>10, <1>15, <1>16 DEF a, b, c, d, w

(* The first close tag stays the first, whatever follows. *)
LEMMA CloseGrows ==
  ASSUME NEW t \in Text, NEW u \in Text, HasClose(t)
  PROVE  /\ HasClose(t \o u)
         /\ SplitAtThinkClose(t \o u).reasoning = SplitAtThinkClose(t).reasoning
         /\ Ink(SplitAtThinkClose(t \o u).answer) = Ink(SplitAtThinkClose(t).answer) \o Ink(u)
<1>1. PICK k \in DOMAIN t : CloseAt(t, k)
  BY DEF HasClose
<1>2. /\ SplitAtThinkClose(t).reasoning = SubSeq(t, 1, k - 1)
      /\ SplitAtThinkClose(t).answer = TrimStart(SubSeq(t, k + 1 + 1, Len(t)))
      /\ k + 1 \in 0..Len(t) /\ k - 1 \in 0..Len(t)
  BY <1>1, SplitIs
<1>3. Len(t) \in Nat /\ Len(u) \in Nat /\ k \in 1..(Len(t) - 1)
  BY <1>1, TextFacts, CloseIs DEF StopAt
<1> DEFINE w == t \o u
<1>4. /\ w \in Text /\ Len(w) = Len(t) + Len(u)
      /\ \A i \in 1..Len(t) : w[i] = t[i]
      /\ \A i \in 1..Len(u) : w[Len(t) + i] = u[i]
  BY Joins
<1> HIDE DEF w
<1>5. Len(w) = Len(t) + Len(u) /\ DOMAIN w = 1..Len(w)
  BY <1>4, TextFacts
<1>6. ASSUME NEW i \in 1..k PROVE StopAt(w, i) <=> StopAt(t, i)
  <2>1. i \in 1..Len(t) /\ i + 1 \in 1..Len(t) /\ i \in 1..(Len(t) - 1) /\ i \in 1..(Len(w) - 1)
    BY <1>3, <1>5
  <2>2. w[i] = t[i] /\ w[i + 1] = t[i + 1]
    BY <1>4, <2>1
  <2>3. QED BY <2>1, <2>2 DEF StopAt
<1>7. k \in DOMAIN w /\ k \in 1..k /\ \A i \in 1..(k - 1) : i \in 1..k
  BY <1>3, <1>5
<1>8. StopAt(t, k) /\ \A i \in 1..(k - 1) : ~StopAt(t, i)
  BY <1>1, CloseIs
<1>9. CloseAt(w, k)
  BY <1>4, <1>6, <1>7, <1>8, CloseIs
<1>10. /\ HasClose(w)
       /\ SplitAtThinkClose(w).reasoning = SubSeq(w, 1, k - 1)
       /\ SplitAtThinkClose(w).answer = TrimStart(SubSeq(w, k + 1 + 1, Len(w)))
       /\ k + 1 \in 0..Len(w) /\ k - 1 \in 0..Len(w)
  BY <1>4, <1>7, <1>9, SplitIs
<1> DEFINE a == SubSeq(w, k + 1 + 1, Len(w))
           b == SubSeq(t, k + 1 + 1, Len(t))
           c == SubSeq(w, 1, k - 1)
           d == SubSeq(t, 1, k - 1)
<1>11. a \in Text /\ Len(a) = Len(w) - (k + 1) /\ \A i \in 1..(Len(w) - (k + 1)) : a[i] = w[k + 1 + i]
  BY <1>4, <1>10, Rest
<1>12. b \in Text /\ Len(b) = Len(t) - (k + 1) /\ \A i \in 1..(Len(t) - (k + 1)) : b[i] = t[k + 1 + i]
  BY <1>2, Rest
<1>13. c \in Text /\ Len(c) = k - 1 /\ \A i \in 1..(k - 1) : c[i] = w[i]
  BY <1>4, <1>10, Beginning
<1>14. d \in Text /\ Len(d) = k - 1 /\ \A i \in 1..(k - 1) : d[i] = t[i]
  BY <1>2, Beginning
<1> HIDE DEF a, b, c, d
<1>15. c = d
  <2>1. \A i \in 1..(k - 1) : i \in 1..Len(t)
    BY <1>3
  <2>2. \A i \in 1..Len(c) : c[i] = d[i]
    BY <1>4, <1>13, <1>14, <2>1
  <2>3. QED BY <1>13, <1>14, <2>2, SameText
<1>16. a = b \o u
  <2> DEFINE f == b \o u
             m == Len(t) - (k + 1)
  <2>1. /\ f \in Text /\ Len(f) = Len(b) + Len(u)
        /\ \A i \in 1..Len(b) : f[i] = b[i]
        /\ \A i \in 1..Len(u) : f[Len(b) + i] = u[i]
    BY <1>12, Joins
  <2> HIDE DEF f
  <2>2. Len(b) = m /\ m \in Nat /\ Len(a) = m + Len(u) /\ Len(f) = m + Len(u)
    <3>1. Len(b) = m /\ Len(a) = Len(w) - (k + 1) /\ Len(f) = Len(b) + Len(u)
      BY <1>11, <1>12, <2>1
    <3>2. QED BY <1>3, <1>5, <3>1
  <2>5. Len(t) = m + (k + 1)
    BY <1>3
  <2> HIDE DEF m
  <2>3. ASSUME NEW i \in 1..Len(a) PROVE a[i] = f[i]
    <3>1. a[i] = w[k + 1 + i]
      BY <1>11
    <3>2. CASE i <= m
      <4>1. i \in 1..m /\ i \in 1..Len(b) /\ k + 1 + i \in 1..Len(t)
        BY <1>3, <2>2, <2>5, <3>2
      <4>2. f[i] = b[i] /\ b[i] = t[k + 1 + i] /\ w[k + 1 + i] = t[k + 1 + i]
        BY <1>4, <1>12, <2>1, <4>1 DEF m
      <4>3. QED BY <3>1, <4>2
    <3>3. CASE i > m
      <4>1. PICK x \in 1..Len(u) : i = Len(b) + x /\ k + 1 + i = Len(t) + x
        <5>1. i - m \in 1..Len(u) /\ i = m + (i - m) /\ k + 1 + i = Len(t) + (i - m)
          BY <1>3, <2>2, <2>5, <3>3
        <5>2. QED BY <2>2, <5>1
      <4>2. f[i] = u[x] /\ w[k + 1 + i] = u[x]
        BY <1>4, <2>1, <4>1
      <4>3. QED BY <3>1, <4>2
    <3>4. QED BY <2>2, <3>2, <3>3
  <2>4. QED BY <1>11, <2>1, <2>2, <2>3, SameText DEF f
<1>17. Ink(TrimStart(a)) = Ink(TrimStart(b)) \o Ink(u)
  <2>1. Ink(TrimStart(a)) = Ink(a) /\ Ink(TrimStart(b)) = Ink(b)
    BY <1>11, <1>12, InkTrimStart
  <2>2. Ink(b \o u) = Ink(b) \o Ink(u)
    BY <1>12, InkConcat
  <2>3. QED BY <1>16, <2>1, <2>2
<1>18. QED BY <1>2, <1>10, <1>15, <1>17 DEF a, b, c, d, w

------------------------------------------------------------------------------
(* Inside the block: what is kept back for the next chunk.                 *)

LEMMA TrimKeepsOpen ==
  ASSUME NEW a \in Text, ~HasClose(a)
  PROVE  ~HasClose(Trim(a))
<1> SUFFICES ASSUME HasClose(Trim(a)) PROVE FALSE
  OBVIOUS
<1>1. Trim(a) \in Text /\ Len(a) \in Nat /\ Len(Trim(a)) \in Nat
  BY TrimIsText, TextFacts
<1>2. PICK x : StopAt(Trim(a), x)
  BY <1>1, HasCloseIs
<1>3. x \in 1..(Len(Trim(a)) - 1) /\ Trim(a)[x] = "<" /\ Trim(a)[x + 1] = "/think>"
  BY <1>2 DEF StopAt
<1>4. Trim(a) # <<>>
  BY <1>1, <1>3
<1>5. PICK i \in 1..Len(a), j \in 1..Len(a) :
        /\ i <= j /\ Len(Trim(a)) = j - i + 1
        /\ \A y \in 1..(j - i + 1) : Trim(a)[y] = a[i + y - 1]
  BY <1>4, TrimIs
<1>6. i \in 1..Len(a) /\ j \in 1..Len(a) /\ i <= j /\ Len(Trim(a)) = j - i + 1
  BY <1>5
<1>7. x \in 1..(j - i + 1) /\ x + 1 \in 1..(j - i + 1)
  BY <1>1, <1>3, <1>6
<1>8. Trim(a)[x] = a[i + x - 1] /\ Trim(a)[x + 1] = a[i + (x + 1) - 1]
  BY <1>5, <1>7
<1>9. i + x - 1 \in 1..(Len(a) - 1) /\ i + (x + 1) - 1 = (i + x - 1) + 1
  BY <1>1, <1>6, <1>7
<1>10. StopAt(a, i + x - 1)
  BY <1>3, <1>8, <1>9 DEF StopAt
<1>11. QED BY <1>10, HasCloseIs

LEMMA LastIs ==
  ASSUME NEW t \in Text, t # <<>>
  PROVE  Len(t) \in Nat /\ Len(t) >= 1 /\ Len(t) \in 1..Len(t)
<1>1. Len(t) \in Nat
  BY TextFacts
<1>2. Len(t) # 0
  BY EmptySeq DEF Text
<1>3. QED BY <1>1, <1>2

LEMMA TagStart == <<"<">> \in Text /\ Len(<<"<">>) = 1 /\ <<"<">>[1] = "<"
BY DEF Text, Char

LEMMA KeepIs ==
  ASSUME NEW t \in Text
  PROVE  LET p == SplitIncompleteThinkCloseSuffix(t) IN
         /\ p.emit \in Text /\ p.keep \in Text /\ t = p.emit \o p.keep
         /\ EndsInCloseSuffix(t) => p.keep = <<"<">> /\ t = p.emit \o <<"<">>
         /\ ~EndsInCloseSuffix(t) => p.keep = <<>> /\ p.emit = t
<1> DEFINE p == SplitIncompleteThinkCloseSuffix(t)
<1>1. p.emit \in Text /\ p.keep \in Text
  BY SplitSuffixIsText
<1>2. CASE EndsInCloseSuffix(t)
  <2>1. t # <<>> /\ t[Len(t)] = "<"
    BY <1>2 DEF EndsInCloseSuffix
  <2>2. Len(t) \in Nat /\ Len(t) >= 1
    BY <2>1, LastIs
  <2>3. PICK k \in 0..Len(t) : k = Len(t) - 1 /\ k + 1 = Len(t)
    <3>1. Len(t) - 1 \in 0..Len(t) /\ (Len(t) - 1) + 1 = Len(t)
      BY <2>2
    <3>2. QED BY <3>1
  <2> DEFINE e == SubSeq(t, 1, k)
             b == SubSeq(t, k + 1, Len(t))
  <2>4. p.emit = e /\ p.keep = b
    BY <1>2, <2>3 DEF SplitIncompleteThinkCloseSuffix
  <2>5. t = e \o b
    BY Cut
  <2>6. b \in Text /\ Len(b) = Len(t) - k /\ \A i \in 1..(Len(t) - k) : b[i] = t[k + i]
    BY Rest
  <2> HIDE DEF e, b, p
  <2>7. Len(b) = 1 /\ 1 \in 1..(Len(t) - k)
    BY <2>2, <2>3, <2>6
  <2>8. b[1] = "<"
    BY <2>1, <2>3, <2>6, <2>7
  <2>9. b = <<"<">>
    <3>1. \A i \in 1..Len(b) : b[i] = <<"<">>[i]
      BY <2>7, <2>8, TagStart
    <3>2. QED BY <2>6, <2>7, <3>1, TagStart, SameText
  <2>10. QED BY <1>1, <1>2, <2>4, <2>5, <2>9 DEF p
<1>3. CASE ~EndsInCloseSuffix(t)
  <2>1. p.emit = t /\ p.keep = <<>>
    BY <1>3 DEF SplitIncompleteThinkCloseSuffix
  <2>2. t \o <<>> = t
    BY ConcatEmptySeq DEF Text
  <2> HIDE DEF p
  <2>3. QED BY <1>1, <1>3, <2>1, <2>2 DEF p
<1>4. QED BY <1>2, <1>3

LEMMA CancelTagStart ==
  ASSUME NEW t \in Text, NEW u \in Text, t \o <<"<">> = u \o <<"<">>
  PROVE  t = u
<1> DEFINE c == <<"<">>
           v == t \o c
           w == u \o c
<1>1. c \in Text /\ Len(c) = 1
  BY TagStart
<1> HIDE DEF c
<1>2. Len(v) = Len(t) + Len(c) /\ \A i \in 1..Len(t) : v[i] = t[i]
  BY <1>1, Joins
<1>3. Len(w) = Len(u) + Len(c) /\ \A i \in 1..Len(u) : w[i] = u[i]
  BY <1>1, Joins
<1>4. v = w
  BY DEF c
<1> HIDE DEF v, w
<1>5. Len(t) \in Nat /\ Len(u) \in Nat
  BY TextFacts
<1>6. Len(t) = Len(u)
  BY <1>1, <1>2, <1>3, <1>4, <1>5
<1>7. QED BY <1>2, <1>3, <1>4, <1>6, SameText

(* The end of a joined text is the end of its last part. *)
LEMMA KeepLater ==
  ASSUME NEW e \in Text, NEW j \in Text, j # <<>>
  PROVE  /\ SplitIncompleteThinkCloseSuffix(e \o j).keep = SplitIncompleteThinkCloseSuffix(j).keep
         /\ SplitIncompleteThinkCloseSuffix(e \o j).emit
              = e \o SplitIncompleteThinkCloseSuffix(j).emit
<1> DEFINE w == e \o j
           p == SplitIncompleteThinkCloseSuffix(w)
           q == SplitIncompleteThinkCloseSuffix(j)
<1>1. Len(e) \in Nat /\ Len(j) \in Nat /\ Len(j) >= 1 /\ Len(j) \in 1..Len(j)
  BY TextFacts, LastIs
<1>2. w \in Text /\ Len(w) = Len(e) + Len(j) /\ \A i \in 1..Len(j) : w[Len(e) + i] = j[i]
  BY Joins
<1>3. p.emit \in Text /\ q.emit \in Text /\ q.keep \in Text
  BY <1>2, KeepIs
<1>4. /\ EndsInCloseSuffix(w) => p.keep = <<"<">> /\ w = p.emit \o <<"<">>
      /\ ~EndsInCloseSuffix(w) => p.keep = <<>> /\ p.emit = w
  BY <1>2, KeepIs
<1>5. /\ EndsInCloseSuffix(j) => q.keep = <<"<">> /\ j = q.emit \o <<"<">>
      /\ ~EndsInCloseSuffix(j) => q.keep = <<>> /\ q.emit = j
  BY KeepIs
<1>6. w = e \o j
  OBVIOUS
<1> HIDE DEF w, p, q
<1>7. w[Len(w)] = j[Len(j)] /\ w # <<>>
  BY <1>1, <1>2
<1>8. EndsInCloseSuffix(w) <=> EndsInCloseSuffix(j)
  BY <1>7 DEF EndsInCloseSuffix
<1>9. CASE EndsInCloseSuffix(j)
  <2>1. w = p.emit \o <<"<">> /\ j = q.emit \o <<"<">> /\ p.keep = q.keep
    BY <1>4, <1>5, <1>8, <1>9
  <2>2. e \o (q.emit \o <<"<">>) = (e \o q.emit) \o <<"<">>
    <3> DEFINE x == q.emit
               y == <<"<">>
    <3>1. e \in Text /\ x \in Text /\ y \in Text
      BY <1>3, TagStart
    <3> HIDE DEF x, y
    <3>2. (e \o x) \o y = e \o (x \o y)
      BY <3>1, Regroup
    <3>3. QED BY <3>2 DEF x, y
  <2>3. p.emit \o <<"<">> = (e \o q.emit) \o <<"<">>
    BY <1>6, <2>1, <2>2
  <2>4. p.emit = e \o q.emit
    BY <1>3, <2>3, ConcatIsText, CancelTagStart
  <2>5. QED BY <2>1, <2>4 DEF w, p, q
<1>10. CASE ~EndsInCloseSuffix(j)
  BY <1>4, <1>5, <1>6, <1>8, <1>10 DEF p, q, w
<1>11. QED BY <1>9, <1>10

(* Nothing before what was kept back can belong to the close tag. *)
LEMMA CloseLater ==
  ASSUME NEW a \in Text, NEW u \in Text, ~HasClose(a)
  PROVE  LET p == SplitIncompleteThinkCloseSuffix(a)
             j == p.keep \o u
         IN  /\ HasClose(a \o u) <=> HasClose(j)
             /\ HasClose(a \o u) =>
                  /\ SplitAtThinkClose(a \o u).reasoning = p.emit \o SplitAtThinkClose(j).reasoning
                  /\ SplitAtThinkClose(a \o u).answer = SplitAtThinkClose(j).answer
<1> DEFINE p == SplitIncompleteThinkCloseSuffix(a)
           e == p.emit
           b == p.keep
           j == b \o u
           w == a \o u
<1>1. /\ e \in Text /\ b \in Text /\ a = e \o b
      /\ EndsInCloseSuffix(a) => b = <<"<">>
      /\ ~EndsInCloseSuffix(a) => b = <<>> /\ e = a
  BY KeepIs
<1> HIDE DEF p
<1>2. w = e \o j
  <2>1. w = (e \o b) \o u
    BY <1>1
  <2>2. e \in Text /\ b \in Text /\ u \in Text
    BY <1>1
  <2> HIDE DEF e, b
  <2>3. (e \o b) \o u = e \o (b \o u)
    BY <2>2, Regroup
  <2>4. QED BY <2>1, <2>3
<1>3. w \in Text /\ Len(w) = Len(a) + Len(u) /\ \A i \in 1..Len(a) : w[i] = a[i]
  BY Joins
<1>4. j \in Text
  BY <1>1, ConcatIsText
<1> HIDE DEF e, b, j, w
<1>5. Len(a) = Len(e) + Len(b) /\ Len(a) \in Nat /\ Len(e) \in Nat /\ Len(b) \in Nat
  BY <1>1, Joins, TextFacts
<1>6. Len(w) = Len(e) + Len(j) /\ \A i \in 1..Len(j) : w[Len(e) + i] = j[i]
  BY <1>1, <1>2, <1>4, Joins
<1>7. ASSUME NEW i, StopAt(w, i) PROVE i > Len(e)
  <2>1. i \in 1..(Len(w) - 1) /\ w[i] = "<" /\ w[i + 1] = "/think>"
    BY <1>7 DEF StopAt
  <2>2. Len(w) \in Nat /\ i \in Nat
    BY <1>3, <2>1, TextFacts
  <2> SUFFICES ASSUME i <= Len(e) PROVE FALSE
    BY <1>5, <2>2
  <2>3. CASE i + 1 <= Len(a)
    <3>1. i \in 1..(Len(a) - 1) /\ i \in 1..Len(a) /\ i + 1 \in 1..Len(a)
      BY <1>5, <2>1, <2>3
    <3>2. StopAt(a, i)
      BY <1>3, <2>1, <3>1 DEF StopAt
    <3>3. QED BY <3>2, HasCloseIs
  <2>4. CASE ~(i + 1 <= Len(a))
    <3>1. i = Len(a) /\ Len(b) = 0 /\ i \in 1..Len(a)
      BY <1>5, <2>1, <2>2, <2>4
    <3>2. a[Len(a)] = "<"
      BY <1>3, <2>1, <3>1
    <3>3. a # <<>>
      BY <1>5, <3>1
    <3>4. EndsInCloseSuffix(a)
      BY <3>2, <3>3 DEF EndsInCloseSuffix
    <3>5. b = <<"<">>
      BY <1>1, <3>4
    <3>6. QED BY <3>1, <3>5, TagStart
  <2>5. QED BY <2>3, <2>4
<1>8. ASSUME HasClose(w) PROVE HasClose(j)
  <2>1. PICK i : StopAt(w, i)
    BY <1>3, <1>8, HasCloseIs
  <2>2. i \in 1..(Len(w) - 1) /\ w[i] = "<" /\ w[i + 1] = "/think>" /\ i > Len(e)
    BY <1>7, <2>1 DEF StopAt
  <2>3. Len(j) \in Nat
    BY <1>4, TextFacts
  <2>4. PICK x \in 1..(Len(j) - 1) : /\ i = Len(e) + x /\ i + 1 = Len(e) + (x + 1)
                                     /\ x \in 1..Len(j) /\ x + 1 \in 1..Len(j)
    <3>0. Len(w) = Len(e) + Len(j) /\ i \in 1..(Len(w) - 1) /\ i > Len(e)
      BY <1>6, <2>2
    <3>1. /\ i - Len(e) \in 1..(Len(j) - 1) /\ i = Len(e) + (i - Len(e))
          /\ i + 1 = Len(e) + ((i - Len(e)) + 1)
          /\ i - Len(e) \in 1..Len(j) /\ (i - Len(e)) + 1 \in 1..Len(j)
      BY <1>5, <2>3, <3>0
    <3>2. QED BY <3>1
  <2>5. j[x] = "<" /\ j[x + 1] = "/think>"
    BY <1>6, <2>2, <2>4
  <2>6. StopAt(j, x)
    BY <2>5 DEF StopAt
  <2>7. QED BY <1>4, <2>6, HasCloseIs
<1>9. ASSUME HasClose(j)
      PROVE  /\ HasClose(w)
             /\ SplitAtThinkClose(w).reasoning = e \o SplitAtThinkClose(j).reasoning
             /\ SplitAtThinkClose(w).answer = SplitAtThinkClose(j).answer
  <2>1. PICK k \in DOMAIN j : CloseAt(j, k)
    BY <1>9 DEF HasClose
  <2>2. \A i : StopAt(e \o j, i) => i > Len(e)
    BY <1>2, <1>7
  <2>3. QED BY <1>1, <1>2, <1>4, <2>1, <2>2, SplitAfter
<1>10. QED BY <1>8, <1>9 DEF e, b, j, w, p

(* Two texts with the same ink and the same kind of end keep the same back. *)
LEMMA InkEmit ==
  ASSUME NEW x \in Text, NEW y \in Text, Ink(x) = Ink(y),
         EndsInCloseSuffix(x) <=> EndsInCloseSuffix(y)
  PROVE  LET p == SplitIncompleteThinkCloseSuffix(x)
             q == SplitIncompleteThinkCloseSuffix(y)
         IN  p.keep = q.keep /\ Ink(p.emit) = Ink(q.emit)
<1> DEFINE p == SplitIncompleteThinkCloseSuffix(x)
           q == SplitIncompleteThinkCloseSuffix(y)
<1>1. /\ p.emit \in Text
      /\ EndsInCloseSuffix(x) => p.keep = <<"<">> /\ x = p.emit \o <<"<">>
      /\ ~EndsInCloseSuffix(x) => p.keep = <<>> /\ p.emit = x
  BY KeepIs
<1>2. /\ q.emit \in Text
      /\ EndsInCloseSuffix(y) => q.keep = <<"<">> /\ y = q.emit \o <<"<">>
      /\ ~EndsInCloseSuffix(y) => q.keep = <<>> /\ q.emit = y
  BY KeepIs
<1>3. Ink(<<"<">>) = <<"<">>
  <2>1. <<>> \in Text /\ "<" \in Char
    BY DEF Text, Char
  <2>2. IsBlank(<<>>)
    BY DEF IsBlank
  <2>3. Ink(<<>>) = <<>>
    BY <2>1, <2>2, InkBlank
  <2>4. Ink(Append(<<>>, "<")) = <<>> \o InkOf("<")
    BY <2>1, <2>3, InkAppend
  <2>5. InkOf("<") = <<"<">>
    BY DEF InkOf
  <2>6. <<>> \o <<"<">> = <<"<">>
    BY TagStart, ConcatEmptySeq DEF Text
  <2>7. Append(<<>>, "<") = <<"<">>
    OBVIOUS
  <2>8. QED BY <2>4, <2>5, <2>6, <2>7
<1> HIDE DEF p, q
<1>4. CASE EndsInCloseSuffix(x)
  <2>1. Ink(p.emit \o <<"<">>) = Ink(p.emit) \o <<"<">>
    BY <1>1, <1>3, InkConcat, TagStart
  <2>2. Ink(q.emit \o <<"<">>) = Ink(q.emit) \o <<"<">>
    BY <1>2, <1>3, InkConcat, TagStart
  <2>3. Ink(p.emit) \o <<"<">> = Ink(q.emit) \o <<"<">>
    BY <1>1, <1>2, <1>4, <2>1, <2>2
  <2>4. Ink(p.emit) = Ink(q.emit)
    BY <1>1, <1>2, <2>3, InkIsText, CancelTagStart
  <2>5. QED BY <1>1, <1>2, <1>4, <2>4 DEF p, q
<1>5. CASE ~EndsInCloseSuffix(x)
  BY <1>1, <1>2, <1>5 DEF p, q
<1>6. QED BY <1>4, <1>5

------------------------------------------------------------------------------
(* What the methods of the assembler do to its two texts.                  *)

LEMMA PushReasoningSays ==
  ASSUME NEW s, Told(s), NEW delta \in Text, delta # <<>>
  PROVE  LET u == PushReasoningDelta(s, delta) IN
         /\ Told(u) /\ u.think = s.think /\ u.buffer = s.buffer /\ u.content = s.content
         /\ u.reasoning = s.reasoning \o delta
<1> DEFINE t == OpenReasoning(s)
           v == [t EXCEPT !.reasoning = @ \o delta]
           e == Event("delta", t.reasoningIx, ReasoningItem, delta)
           u == Emit(v, e)
<1>0. PushReasoningDelta(s, delta) = u
  BY DEF PushReasoningDelta, OpenReasoning
<1>1. Good(t) /\ SameTexts(s, t)
  BY OpenReasoningExact
<1> HIDE DEF t
<1>2. t \in Assembler /\ t.reasoning \in Text
  BY <1>1 DEF Good, Assembler
<1>3. v.reasoning = t.reasoning \o delta
  BY <1>2 DEF Assembler
<1>4. u.reasoning = v.reasoning
  <2>1. v \in Assembler
    BY <1>2, ConcatIsText DEF Assembler
  <2> HIDE DEF v, e
  <2>2. QED BY <2>1 DEF Emit, Assembler
<1>5. u.reasoning = s.reasoning \o delta
  BY <1>1, <1>3, <1>4 DEF SameTexts
<1> HIDE DEF u
<1>6. Pushes(s, u) /\ u.think = s.think /\ u.buffer = s.buffer /\ u.content = s.content
  BY <1>0, PushReasoningDeltaPushes
<1>7. QED BY <1>0, <1>5, <1>6, PushesTold

LEMMA PushTextSays ==
  ASSUME NEW s, Told(s), NEW text \in Text
  PROVE  LET u == PushTextDelta(s, text) IN
         /\ Told(u) /\ u.think = s.think /\ u.buffer = s.buffer /\ u.reasoning = s.reasoning
         /\ u.content = s.content \o text
<1> DEFINE u == PushTextDelta(s, text)
<1>1. Pushes(s, u) /\ u.think = s.think /\ u.buffer = s.buffer /\ u.reasoning = s.reasoning
  BY PushTextDeltaPushes
<1>2. s \in Assembler
  BY DEF Told, Ready, Good
<1>3. u.content = s.content \o text
  <2>1. CASE s.bufferText
    BY <1>2, <2>1 DEF PushTextDelta, Assembler
  <2>2. CASE ~s.bufferText
    <3> DEFINE t == EnsureTextStarted(s)
               v == [t EXCEPT !.content = @ \o text]
               e == Event("delta", t.textIx, MessageItem, text)
    <3>1. u = Emit(v, e)
      BY <2>2 DEF PushTextDelta
    <3>2. Keeps(s, t) /\ SameTexts(s, t)
      BY EnsureTextStartedTells
    <3> HIDE DEF t, u
    <3>3. t \in Assembler /\ t.content \in Text
      BY <3>2 DEF Keeps, Leads, Good, Assembler
    <3>4. v.content = t.content \o text /\ v \in Assembler
      BY <3>3, ConcatIsText DEF Assembler
    <3> HIDE DEF v, e
    <3>5. Emit(v, e).content = v.content
      BY <3>4 DEF Emit, Assembler
    <3>6. QED BY <3>1, <3>2, <3>4, <3>5 DEF SameTexts
  <2>3. QED BY <2>1, <2>2
<1> HIDE DEF u
<1>4. Told(u)
  BY <1>1, PushesTold
<1>5. QED BY <1>1, <1>3, <1>4 DEF u

LEMMA SetDoneSays ==
  ASSUME NEW s, Told(s)
  PROVE  LET u == [s EXCEPT !.buffer = <<>>, !.think = "Done"] IN
         /\ Told(u) /\ u.think = "Done" /\ u.buffer = <<>>
         /\ u.content = s.content /\ u.reasoning = s.reasoning
<1> DEFINE u == [s EXCEPT !.buffer = <<>>, !.think = "Done"]
<1>1. <<>> \in Text /\ "Done" \in {"Detecting", "InThink", "Done"}
  BY DEF Text
<1>2. Pushes(s, u)
  BY <1>1, SetThinkPushes
<1>3. u.think = "Done" /\ u.buffer = <<>> /\ u.content = s.content /\ u.reasoning = s.reasoning
  BY DEF Told, Ready, Good, Assembler
<1> HIDE DEF u
<1>4. Told(u)
  BY <1>2, PushesTold
<1>5. QED BY <1>3, <1>4 DEF u

LEMMA SetInThinkSays ==
  ASSUME NEW s, Told(s)
  PROVE  LET u == [s EXCEPT !.buffer = <<>>, !.think = "InThink"] IN
         /\ Told(u) /\ u.think = "InThink" /\ u.buffer = <<>>
         /\ u.content = s.content /\ u.reasoning = s.reasoning
<1> DEFINE u == [s EXCEPT !.buffer = <<>>, !.think = "InThink"]
<1>1. <<>> \in Text /\ "InThink" \in {"Detecting", "InThink", "Done"}
  BY DEF Text
<1>2. Pushes(s, u)
  BY <1>1, SetThinkPushes
<1>3. u.think = "InThink" /\ u.buffer = <<>> /\ u.content = s.content /\ u.reasoning = s.reasoning
  BY DEF Told, Ready, Good, Assembler
<1> HIDE DEF u
<1>4. Told(u)
  BY <1>2, PushesTold
<1>5. QED BY <1>3, <1>4 DEF u

LEMMA SetBufferSays ==
  ASSUME NEW s, Told(s), NEW text \in Text
  PROVE  /\ Told([s EXCEPT !.buffer = text])
         /\ [s EXCEPT !.buffer = text].think = s.think
         /\ [s EXCEPT !.buffer = text].buffer = text
         /\ [s EXCEPT !.buffer = text].content = s.content
         /\ [s EXCEPT !.buffer = text].reasoning = s.reasoning
<1>0. "Done" \in {"Detecting", "InThink", "Done"}
  OBVIOUS
<1>1. Told([s EXCEPT !.buffer = text])
  BY <1>0, SetThinkPushes, PushesTold
<1>2. s \in Assembler
  BY DEF Told, Ready, Good
<1>3. QED BY <1>1, <1>2 DEF Assembler

LEMMA TextsAreTexts ==
  ASSUME NEW s, Told(s)
  PROVE  /\ s.content \in Text /\ s.reasoning \in Text /\ s.buffer \in Text /\ <<>> \in Text
         /\ s.content \o <<>> = s.content /\ s.reasoning \o <<>> = s.reasoning
<1>1. s.content \in Text /\ s.reasoning \in Text /\ s.buffer \in Text /\ <<>> \in Text
  BY DEF Told, Ready, Good, Assembler, Text
<1>2. QED BY <1>1, ConcatEmptySeq DEF Text

LEMMA PushPartsSays ==
  ASSUME NEW s, Told(s), NEW parts \in Parts
  PROVE  LET u == PushParts(s, parts) IN
         /\ u.think = "Done" /\ u.reasoning = s.reasoning \o parts.reasoning
         /\ u.content = s.content \o parts.answer
<1> DEFINE t == IF parts.reasoning = <<>> THEN s ELSE PushReasoningDelta(s, parts.reasoning)
           u == [t EXCEPT !.buffer = <<>>, !.think = "Done"]
           v == IF parts.answer = <<>> THEN u ELSE PushTextDelta(u, parts.answer)
<1>0. parts.reasoning \in Text /\ parts.answer \in Text /\ <<>> \in Text
  BY DEF Parts, Text
<1>1. PushParts(s, parts) = v
  BY DEF PushParts
<1>2. Told(t) /\ t.content = s.content /\ t.reasoning = s.reasoning \o parts.reasoning
  <2>1. CASE parts.reasoning = <<>>
    <3>1. t = s
      BY <2>1
    <3> HIDE DEF t
    <3>2. QED BY <2>1, <3>1, TextsAreTexts
  <2>2. CASE parts.reasoning # <<>>
    <3>1. t = PushReasoningDelta(s, parts.reasoning)
      BY <2>2
    <3> HIDE DEF t
    <3>2. QED BY <1>0, <2>2, <3>1, PushReasoningSays
  <2>3. QED BY <2>1, <2>2
<1> HIDE DEF t
<1>3. Told(u) /\ u.think = "Done" /\ u.content = t.content /\ u.reasoning = t.reasoning
  BY <1>2, SetDoneSays
<1> HIDE DEF u
<1>4. v.think = "Done" /\ v.reasoning = u.reasoning /\ v.content = u.content \o parts.answer
  <2>1. CASE parts.answer = <<>>
    <3>1. v = u
      BY <2>1
    <3> HIDE DEF v
    <3>2. QED BY <1>3, <2>1, <3>1, TextsAreTexts
  <2>2. CASE parts.answer # <<>>
    <3>1. v = PushTextDelta(u, parts.answer)
      BY <2>2
    <3> HIDE DEF v
    <3>2. QED BY <1>0, <1>3, <3>1, PushTextSays
  <2>3. QED BY <2>1, <2>2
<1> HIDE DEF v
<1>5. QED BY <1>1, <1>2, <1>3, <1>4

LEMMA AcceptInThinkSays ==
  ASSUME NEW s, Told(s), NEW text \in Text
  PROVE  LET joined == s.buffer \o text
             u == AcceptInThinkContent(s, text)
             split == SplitIncompleteThinkCloseSuffix(joined)
         IN  /\ HasClose(joined) =>
                  /\ u.think = "Done"
                  /\ u.reasoning = s.reasoning \o SplitAtThinkClose(joined).reasoning
                  /\ u.content = s.content \o SplitAtThinkClose(joined).answer
             /\ ~HasClose(joined) =>
                  /\ u.think = s.think /\ u.content = s.content
                  /\ u.reasoning = s.reasoning \o split.emit /\ u.buffer = split.keep
<1> DEFINE joined == s.buffer \o text
           split == SplitIncompleteThinkCloseSuffix(joined)
           t == IF split.emit = <<>> THEN s ELSE PushReasoningDelta(s, split.emit)
           w == [t EXCEPT !.buffer = split.keep]
           u == AcceptInThinkContent(s, text)
<1>1. joined \in Text
  BY TextsAreTexts, ConcatIsText
<1>2. u = IF HasClose(joined) THEN PushParts(s, SplitAtThinkClose(joined)) ELSE w
  BY DEF AcceptInThinkContent
<1> HIDE DEF joined, u
<1>3. split.emit \in Text /\ split.keep \in Text
  BY <1>1, SplitSuffixIsText
<1> HIDE DEF split
<1>4. HasClose(joined) =>
        /\ u.think = "Done"
        /\ u.reasoning = s.reasoning \o SplitAtThinkClose(joined).reasoning
        /\ u.content = s.content \o SplitAtThinkClose(joined).answer
  <2> SUFFICES ASSUME HasClose(joined)
               PROVE  /\ u.think = "Done"
                      /\ u.reasoning = s.reasoning \o SplitAtThinkClose(joined).reasoning
                      /\ u.content = s.content \o SplitAtThinkClose(joined).answer
    OBVIOUS
  <2>1. SplitAtThinkClose(joined) \in Parts
    BY <1>1, SplitAtThinkCloseIsParts
  <2>2. u = PushParts(s, SplitAtThinkClose(joined))
    BY <1>2
  <2>3. QED BY <2>1, <2>2, PushPartsSays
<1>5. /\ Told(t) /\ t.think = s.think /\ t.content = s.content
      /\ t.reasoning = s.reasoning \o split.emit
  <2>1. CASE split.emit = <<>>
    <3>1. t = s
      BY <2>1
    <3> HIDE DEF t
    <3>2. QED BY <2>1, <3>1, TextsAreTexts
  <2>2. CASE split.emit # <<>>
    <3>1. t = PushReasoningDelta(s, split.emit)
      BY <2>2
    <3> HIDE DEF t
    <3>2. QED BY <1>3, <2>2, <3>1, PushReasoningSays
  <2>3. QED BY <2>1, <2>2
<1> HIDE DEF t
<1>6. /\ w.think = s.think /\ w.content = s.content
      /\ w.reasoning = s.reasoning \o split.emit /\ w.buffer = split.keep
  BY <1>3, <1>5, SetBufferSays
<1> HIDE DEF w
<1>7. QED BY <1>2, <1>4, <1>6 DEF joined, split, u

------------------------------------------------------------------------------
(* What the assembler has made of the answer F, when all of F has come as  *)
(* content.                                                                *)

Waiting(s, F) ==
  /\ s.think = "Detecting" /\ ~HasLeadingOpen(F)
  /\ s.buffer = F /\ s.content = <<>> /\ s.reasoning = <<>>

Inside(s, F) ==
  LET A == AfterLeadingOpen(F)
      p == SplitIncompleteThinkCloseSuffix(A)
  IN  /\ s.think = "InThink" /\ HasLeadingOpen(F) /\ ~HasClose(A)
      /\ s.content = <<>> /\ s.buffer = p.keep /\ Ink(s.reasoning) = Ink(p.emit)

Block(s, F) ==
  LET parts == SplitAtThinkClose(AfterLeadingOpen(F))
  IN  /\ HasLeadingThinkBlock(F)
      /\ Ink(s.reasoning) = Ink(parts.reasoning) /\ Ink(s.content) = Ink(parts.answer)

Plain(s, F) ==
  /\ ~HasLeadingOpen(F) /\ ~IsLeadingThinkPrefix(F)
  /\ s.content = F /\ s.reasoning = <<>>

View(s, F) ==
  \/ Waiting(s, F) \/ Inside(s, F)
  \/ s.think = "Done" /\ (Block(s, F) \/ Plain(s, F))

LEMMA DoneView ==
  ASSUME NEW s, Told(s), NEW F \in Text, NEW text \in Text,
         s.think = "Done", Block(s, F) \/ Plain(s, F)
  PROVE  View(PushTextDelta(s, text), F \o text)
<1> DEFINE u == PushTextDelta(s, text)
           G == F \o text
           A == AfterLeadingOpen(F)
<1>1. u.think = "Done" /\ u.reasoning = s.reasoning /\ u.content = s.content \o text
  BY PushTextSays
<1> HIDE DEF u
<1>2. CASE Block(s, F)
  <2>1. /\ HasLeadingOpen(F) /\ HasClose(A)
        /\ Ink(s.reasoning) = Ink(SplitAtThinkClose(A).reasoning)
        /\ Ink(s.content) = Ink(SplitAtThinkClose(A).answer)
    BY <1>2 DEF Block, HasLeadingThinkBlock
  <2>2. HasLeadingOpen(G) /\ AfterLeadingOpen(G) = A \o text
    BY <2>1, OpenGrows
  <2>3. A \in Text
    BY AfterLeadingOpenIsText
  <2> HIDE DEF A, G
  <2>4. /\ HasClose(A \o text)
        /\ SplitAtThinkClose(A \o text).reasoning = SplitAtThinkClose(A).reasoning
        /\ Ink(SplitAtThinkClose(A \o text).answer) = Ink(SplitAtThinkClose(A).answer) \o Ink(text)
    BY <2>1, <2>3, CloseGrows
  <2>5. Ink(u.content) = Ink(s.content) \o Ink(text)
    BY <1>1, InkConcat, TextsAreTexts
  <2>6. Block(u, G)
    BY <1>1, <2>1, <2>2, <2>4, <2>5 DEF Block, HasLeadingThinkBlock
  <2>7. QED BY <1>1, <2>6 DEF View, u, G
<1>3. CASE Plain(s, F)
  <2>1. ~HasLeadingOpen(G) /\ ~IsLeadingThinkPrefix(G)
    BY <1>3, PlainGrows DEF Plain
  <2>2. u.content = G /\ u.reasoning = <<>>
    BY <1>1, <1>3 DEF Plain
  <2> HIDE DEF G
  <2>3. QED BY <1>1, <2>1, <2>2 DEF View, Plain, u, G
<1>4. QED BY <1>2, <1>3

LEMMA InsideView ==
  ASSUME NEW s, Told(s), NEW F \in Text, NEW text \in Text, text # <<>>, Inside(s, F)
  PROVE  View(AcceptInThinkContent(s, text), F \o text)
<1> DEFINE u == AcceptInThinkContent(s, text)
           G == F \o text
           A == AfterLeadingOpen(F)
           p == SplitIncompleteThinkCloseSuffix(A)
           j == p.keep \o text
           q == SplitIncompleteThinkCloseSuffix(j)
<1>1. /\ s.think = "InThink" /\ HasLeadingOpen(F) /\ ~HasClose(A)
      /\ s.content = <<>> /\ s.buffer = p.keep /\ Ink(s.reasoning) = Ink(p.emit)
  BY DEF Inside
<1>2. HasLeadingOpen(G) /\ AfterLeadingOpen(G) = A \o text
  BY <1>1, OpenGrows
<1>3. A \in Text
  BY AfterLeadingOpenIsText
<1> HIDE DEF A, G
<1>4. p.emit \in Text /\ p.keep \in Text /\ A = p.emit \o p.keep
  BY <1>3, KeepIs
<1>5. /\ HasClose(A \o text) <=> HasClose(j)
      /\ HasClose(A \o text) =>
           /\ SplitAtThinkClose(A \o text).reasoning = p.emit \o SplitAtThinkClose(j).reasoning
           /\ SplitAtThinkClose(A \o text).answer = SplitAtThinkClose(j).answer
  BY <1>1, <1>3, CloseLater
<1> HIDE DEF p
<1> DEFINE k == s.buffer \o text
           r == SplitIncompleteThinkCloseSuffix(k)
<1>6. /\ HasClose(k) =>
           /\ u.think = "Done"
           /\ u.reasoning = s.reasoning \o SplitAtThinkClose(k).reasoning
           /\ u.content = s.content \o SplitAtThinkClose(k).answer
      /\ ~HasClose(k) =>
           /\ u.think = s.think /\ u.content = s.content
           /\ u.reasoning = s.reasoning \o r.emit /\ u.buffer = r.keep
  BY AcceptInThinkSays
<1>61. k = j
  BY <1>1
<1>62. r = q
  BY <1>61
<1>7. j \in Text /\ s.reasoning \in Text
  BY <1>4, ConcatIsText, TextsAreTexts
<1>8. A \o text = p.emit \o j
  BY <1>4, Regroup
<1> HIDE DEF k, r
<1>9. j # <<>>
  <2>1. Len(text) >= 1 /\ Len(text) \in Nat
    BY LastIs
  <2>2. Len(j) = Len(p.keep) + Len(text) /\ Len(p.keep) \in Nat
    BY <1>4, Joins, TextFacts
  <2> HIDE DEF j
  <2>3. QED BY <2>1, <2>2
<1> HIDE DEF u, q, j
<1>10. CASE HasClose(j)
  <2>1. SplitAtThinkClose(j) \in Parts
    BY <1>7, <1>10, SplitAtThinkCloseIsParts
  <2>2. SplitAtThinkClose(j).reasoning \in Text /\ SplitAtThinkClose(j).answer \in Text
    BY <2>1 DEF Parts
  <2>3. Ink(u.reasoning) = Ink(p.emit) \o Ink(SplitAtThinkClose(j).reasoning)
    BY <1>1, <1>6, <1>61, <1>62, <1>7, <1>10, <2>2, InkConcat
  <2>4. Ink(p.emit \o SplitAtThinkClose(j).reasoning)
          = Ink(p.emit) \o Ink(SplitAtThinkClose(j).reasoning)
    BY <1>4, <2>2, InkConcat
  <2>5. u.content = SplitAtThinkClose(j).answer
    <3>1. <<>> \o SplitAtThinkClose(j).answer = SplitAtThinkClose(j).answer
      BY <2>2, ConcatEmptySeq DEF Text
    <3>2. QED BY <1>1, <1>6, <1>61, <1>62, <1>10, <3>1
  <2>6. Block(u, G)
    BY <1>2, <1>5, <1>10, <2>3, <2>4, <2>5 DEF Block, HasLeadingThinkBlock
  <2>7. QED BY <1>6, <1>61, <1>62, <1>10, <2>6 DEF View, u, G
<1>11. CASE ~HasClose(j)
  <2> DEFINE x == SplitIncompleteThinkCloseSuffix(A \o text)
  <2>1. x.keep = q.keep /\ x.emit = p.emit \o q.emit
    <3> DEFINE y == SplitIncompleteThinkCloseSuffix(p.emit \o j)
               z == SplitIncompleteThinkCloseSuffix(j)
    <3>1. y.keep = z.keep /\ y.emit = p.emit \o z.emit
      BY <1>4, <1>7, <1>9, KeepLater
    <3>2. x = y /\ z = q
      BY <1>8 DEF q
    <3> HIDE DEF x, y, z
    <3>3. QED BY <3>1, <3>2
  <2>2. q.emit \in Text
    BY <1>7, KeepIs DEF q
  <2>3. Ink(x.emit) = Ink(p.emit) \o Ink(q.emit) /\ Ink(u.reasoning) = Ink(p.emit) \o Ink(q.emit)
    <3>1. Ink(p.emit \o q.emit) = Ink(p.emit) \o Ink(q.emit)
      BY <1>4, <2>2, InkConcat
    <3>2. Ink(x.emit) = Ink(p.emit \o q.emit)
      BY <2>1
    <3>3. Ink(u.reasoning) = Ink(s.reasoning) \o Ink(q.emit)
      <4>1. u.reasoning = s.reasoning \o q.emit
        BY <1>6, <1>61, <1>62, <1>11
      <4>2. QED BY <1>7, <2>2, <4>1, InkConcat
    <3>4. Ink(s.reasoning) = Ink(p.emit)
      BY <1>1
    <3>5. QED BY <3>1, <3>2, <3>3, <3>4
  <2>4. Inside(u, G)
    BY <1>1, <1>2, <1>5, <1>6, <1>61, <1>62, <1>11, <2>1, <2>3 DEF Inside
  <2>5. QED BY <2>4 DEF View, u, G
<1>12. QED BY <1>10, <1>11

LEMMA OpenedView ==
  ASSUME NEW s, Told(s), s.think = "InThink", s.buffer = <<>>, s.content = <<>>,
         s.reasoning = <<>>, NEW A \in Text, ~HasClose(A),
         EndsInCloseSuffix(Trim(A)) <=> EndsInCloseSuffix(A)
  PROVE  LET u == IF Trim(A) = <<>> THEN s ELSE AcceptInThinkContent(s, Trim(A))
             p == SplitIncompleteThinkCloseSuffix(A)
         IN  /\ u.think = "InThink" /\ u.content = <<>> /\ u.buffer = p.keep
             /\ Ink(u.reasoning) = Ink(p.emit)
<1> DEFINE x == Trim(A)
           u == IF x = <<>> THEN s ELSE AcceptInThinkContent(s, x)
           p == SplitIncompleteThinkCloseSuffix(A)
           q == SplitIncompleteThinkCloseSuffix(x)
<1>1. x \in Text /\ Ink(x) = Ink(A) /\ ~HasClose(x)
  BY TrimIsText, InkTrim, TrimKeepsOpen
<1>2. EndsInCloseSuffix(x) <=> EndsInCloseSuffix(A)
  OBVIOUS
<1> HIDE DEF x
<1>3. q.keep = p.keep /\ Ink(q.emit) = Ink(p.emit)
  BY <1>1, <1>2, InkEmit
<1>4. /\ q.emit \in Text
      /\ ~EndsInCloseSuffix(x) => q.keep = <<>> /\ q.emit = x
  BY <1>1, KeepIs
<1> HIDE DEF p, q
<1>5. CASE x = <<>>
  <2>1. ~EndsInCloseSuffix(x)
    BY <1>5 DEF EndsInCloseSuffix
  <2>2. u = s
    BY <1>5
  <2> HIDE DEF u
  <2>3. QED BY <1>3, <1>4, <1>5, <2>1, <2>2 DEF u, x, p
<1>6. CASE x # <<>>
  <2> DEFINE v == AcceptInThinkContent(s, x)
             j == s.buffer \o x
             r == SplitIncompleteThinkCloseSuffix(j)
  <2>1. ~HasClose(j) =>
          /\ v.think = s.think /\ v.content = s.content
          /\ v.reasoning = s.reasoning \o r.emit /\ v.buffer = r.keep
    BY <1>1, AcceptInThinkSays
  <2>2. j = x
    BY <1>1, ConcatEmptySeq DEF Text
  <2>3. r = q
    BY <2>2 DEF q
  <2> HIDE DEF v, j, r
  <2>4. /\ v.think = "InThink" /\ v.content = <<>>
        /\ v.reasoning = <<>> \o q.emit /\ v.buffer = q.keep
    BY <1>1, <2>1, <2>2, <2>3
  <2>5. <<>> \o q.emit = q.emit
    BY <1>4, ConcatEmptySeq DEF Text
  <2>6. u = v
    BY <1>6 DEF v
  <2> HIDE DEF u
  <2>7. QED BY <1>3, <2>4, <2>5, <2>6 DEF u, x, p
<1>7. QED BY <1>5, <1>6

LEMMA WaitingView ==
  ASSUME NEW s, Told(s), NEW F \in Text, NEW text \in Text, ~OpensBare(text), Waiting(s, F)
  PROVE  View(DetectLeadingThink(s, text), F \o text)
<1> DEFINE u == DetectLeadingThink(s, text)
           G == F \o text
           A == AfterLeadingOpen(G)
           opened == [s EXCEPT !.buffer = <<>>, !.think = "InThink"]
           closed == [s EXCEPT !.buffer = <<>>, !.think = "Done"]
           held == [s EXCEPT !.buffer = G]
           begun == IF Trim(A) = <<>> THEN opened ELSE AcceptInThinkContent(opened, Trim(A))
<1>1. /\ s.think = "Detecting" /\ ~HasLeadingOpen(F)
      /\ s.buffer = F /\ s.content = <<>> /\ s.reasoning = <<>>
  BY DEF Waiting
<1>2. u = IF HasLeadingThinkBlock(G)
          THEN PushParts(s, SplitLeadingThinkBlock(G))
          ELSE IF HasLeadingOpen(G) THEN begun
          ELSE IF IsLeadingThinkPrefix(G) THEN held
          ELSE PushTextDelta(closed, G)
  BY <1>1 DEF DetectLeadingThink, StripLeadingThinkOpenTag
<1>3. G \in Text /\ <<>> \in Text
  BY ConcatIsText, TextsAreTexts
<1>4. A \in Text
  BY <1>3, AfterLeadingOpenIsText
<1>5. ASSUME HasLeadingOpen(G)
      PROVE  \E m \in 1..Len(text) : text[m] = "think>" /\ A = SubSeq(text, m + 1, Len(text))
  BY <1>1, <1>5, OpeningPiece
<1> HIDE DEF u, G
<1>6. /\ Told(opened) /\ opened.think = "InThink" /\ opened.buffer = <<>>
      /\ opened.content = <<>> /\ opened.reasoning = <<>>
  BY <1>1, SetInThinkSays
<1>7. /\ Told(closed) /\ closed.think = "Done"
      /\ closed.content = <<>> /\ closed.reasoning = <<>>
  BY <1>1, SetDoneSays
<1>8. /\ held.think = "Detecting" /\ held.buffer = G
      /\ held.content = <<>> /\ held.reasoning = <<>>
  BY <1>1, <1>3, SetBufferSays
<1> HIDE DEF opened, closed, held
<1>9. CASE HasLeadingThinkBlock(G)
  <2> DEFINE parts == SplitAtThinkClose(A)
             trimmed == SplitLeadingThinkBlock(G)
  <2>1. HasClose(A)
    BY <1>9 DEF HasLeadingThinkBlock
  <2>2. parts \in Parts
    BY <1>4, <2>1, SplitAtThinkCloseIsParts
  <2>3. trimmed = [parts EXCEPT !.reasoning = Trim(@)]
    BY DEF SplitLeadingThinkBlock
  <2>0. u = PushParts(s, trimmed)
    BY <1>2, <1>9
  <2> HIDE DEF parts, trimmed
  <2>4. /\ trimmed.reasoning = Trim(parts.reasoning) /\ trimmed.answer = parts.answer
        /\ parts.reasoning \in Text /\ parts.answer \in Text
    BY <2>2, <2>3 DEF Parts
  <2>5. trimmed \in Parts
    BY <1>3, <1>9, SplitLeadingThinkBlockIsParts DEF trimmed
  <2>6. /\ u.think = "Done" /\ u.reasoning = <<>> \o trimmed.reasoning
        /\ u.content = <<>> \o trimmed.answer
    BY <1>1, <2>0, <2>5, PushPartsSays
  <2>7. u.reasoning = Trim(parts.reasoning) /\ u.content = parts.answer
    <3>1. Trim(parts.reasoning) \in Text
      BY <2>4, TrimIsText
    <3>2. QED BY <2>4, <2>6, <3>1, ConcatEmptySeq DEF Text
  <2>8. Ink(u.reasoning) = Ink(parts.reasoning)
    BY <2>4, <2>7, InkTrim
  <2>9. Block(u, G)
    BY <1>9, <2>7, <2>8 DEF Block, parts
  <2>10. QED BY <2>6, <2>9 DEF View, u, G
<1>10. CASE HasLeadingOpen(G) /\ ~HasLeadingThinkBlock(G)
  <2>1. ~HasClose(A)
    BY <1>10 DEF HasLeadingThinkBlock
  <2>2. EndsInCloseSuffix(Trim(A)) <=> EndsInCloseSuffix(A)
    <3>1. PICK m \in 1..Len(text) :
            text[m] = "think>" /\ A = SubSeq(text, m + 1, Len(text))
      BY <1>5, <1>10
    <3> HIDE DEF A
    <3>2. QED BY <3>1, TrimmedEnd
  <2>3. u = begun
    BY <1>2, <1>10
  <2> HIDE DEF A
  <2> DEFINE p == SplitIncompleteThinkCloseSuffix(A)
  <2>4. /\ begun.think = "InThink" /\ begun.content = <<>> /\ begun.buffer = p.keep
        /\ Ink(begun.reasoning) = Ink(p.emit)
    BY <1>4, <1>6, <2>1, <2>2, OpenedView
  <2> HIDE DEF begun, p
  <2>5. Inside(u, G)
    BY <1>10, <2>1, <2>3, <2>4 DEF Inside, p, A
  <2>6. QED BY <2>5 DEF View, u, G
<1>11. CASE ~HasLeadingOpen(G) /\ IsLeadingThinkPrefix(G)
  <2>1. u = held
    BY <1>2, <1>11 DEF HasLeadingThinkBlock
  <2>2. Waiting(u, G)
    BY <1>8, <1>11, <2>1 DEF Waiting
  <2>3. QED BY <2>2 DEF View, u, G
<1>12. CASE ~HasLeadingOpen(G) /\ ~IsLeadingThinkPrefix(G)
  <2>1. u = PushTextDelta(closed, G)
    BY <1>2, <1>12 DEF HasLeadingThinkBlock
  <2>2. u.think = "Done" /\ u.reasoning = <<>> /\ u.content = <<>> \o G
    BY <1>3, <1>7, <2>1, PushTextSays
  <2>3. <<>> \o G = G
    BY <1>3, ConcatEmptySeq DEF Text
  <2>4. Plain(u, G)
    BY <1>12, <2>2, <2>3 DEF Plain
  <2>5. QED BY <2>2, <2>4 DEF View, u, G
<1>13. QED BY <1>9, <1>10, <1>11, <1>12

LEMMA AcceptContentView ==
  ASSUME NEW s, Told(s), NEW F \in Text, NEW text \in Text, text # <<>>, ~OpensBare(text),
         View(s, F)
  PROVE  View(AcceptContentDelta(s, text), F \o text)
<1>1. CASE Waiting(s, F)
  <2>1. AcceptContentDelta(s, text) = DetectLeadingThink(s, text)
    BY <1>1 DEF Waiting, AcceptContentDelta
  <2>2. QED BY <1>1, <2>1, WaitingView
<1>2. CASE Inside(s, F)
  <2>1. AcceptContentDelta(s, text) = AcceptInThinkContent(s, text)
    BY <1>2 DEF Inside, AcceptContentDelta
  <2>2. QED BY <1>2, <2>1, InsideView
<1>3. CASE s.think = "Done" /\ (Block(s, F) \/ Plain(s, F))
  <2>1. AcceptContentDelta(s, text) = PushTextDelta(s, text)
    BY <1>3 DEF AcceptContentDelta
  <2>2. QED BY <1>3, <2>1, DoneView
<1>4. QED BY <1>1, <1>2, <1>3 DEF View

SameSpeech(s, u) ==
  /\ u.content = s.content /\ u.reasoning = s.reasoning
  /\ u.think = s.think /\ u.buffer = s.buffer

LEMMA SameView ==
  ASSUME NEW s, NEW u, NEW F, SameSpeech(s, u), View(s, F)
  PROVE  View(u, F)
BY DEF SameSpeech, View, Waiting, Inside, Block, Plain

(* A chunk that brings nothing but content. *)
LEMMA AcceptView ==
  ASSUME NEW s, Told(s), NEW F \in Text, NEW c \in Chunk, View(s, F),
         c.reasoning = <<>>, ~c.calls, ~OpensBare(c.content)
  PROVE  View(Accept(s, c), F \o c.content)
<1> DEFINE t == AcceptContentField(s, c)
           w == [t EXCEPT !.finish = c.finish]
<1>1. Accept(s, c) = IF c.finish = NoText THEN t ELSE w
  BY DEF Accept, AcceptReasoningField, AcceptCallsField
<1>2. c.content \in Text
  BY DEF Chunk
<1>3. View(t, F \o c.content)
  <2>1. CASE c.content = <<>>
    <3>1. t = s
      BY <2>1 DEF AcceptContentField
    <3>2. F \o c.content = F
      BY <2>1, ConcatEmptySeq DEF Text
    <3> HIDE DEF t
    <3>3. QED BY <3>1, <3>2
  <2>2. CASE c.content # <<>>
    <3>1. t = AcceptContentDelta(s, c.content)
      BY <2>2 DEF AcceptContentField
    <3> HIDE DEF t
    <3>2. QED BY <1>2, <2>2, <3>1, AcceptContentView
  <2>3. QED BY <2>1, <2>2
<1> HIDE DEF t
<1>4. ASSUME t \in Assembler PROVE SameSpeech(t, w)
  BY <1>4 DEF SameSpeech, Assembler
<1>5. t \in Assembler
  <2>1. Good(s) /\ c.content \in Text
    BY <1>2 DEF Told, Ready
  <2>2. CASE c.content = <<>>
    BY <2>1, <2>2 DEF t, AcceptContentField, Good
  <2>3. CASE c.content # <<>>
    <3>1. t = AcceptContentDelta(s, c.content)
      BY <2>3 DEF t, AcceptContentField
    <3>2. Keeps(s, AcceptContentDelta(s, c.content))
      BY <2>1, AcceptContentDeltaKeeps
    <3>3. QED BY <3>1, <3>2 DEF Keeps, Leads, Good
  <2>4. QED BY <2>2, <2>3
<1> HIDE DEF w
<1>6. View(w, F \o c.content)
  BY <1>3, <1>4, <1>5, SameView
<1>7. QED BY <1>1, <1>3, <1>6

------------------------------------------------------------------------------
(* Everything else leaves the two texts as they are.                       *)

Speaking(s) == "content" \in DOMAIN s /\ "reasoning" \in DOMAIN s

Silent(s, u) == Speaking(u) /\ u.content = s.content /\ u.reasoning = s.reasoning

LEMMA SilentSelf == ASSUME NEW s, Speaking(s) PROVE Silent(s, s)
BY DEF Silent

LEMMA SilentTrans ==
  ASSUME NEW s, NEW t, NEW u, Silent(s, t), Silent(t, u)
  PROVE  Silent(s, u)
BY DEF Silent

LEMMA SilentSpeaking == ASSUME NEW s, NEW u, Silent(s, u) PROVE Speaking(u)
BY DEF Silent

LEMMA TypedSpeaking == ASSUME NEW s \in Assembler PROVE Speaking(s)
BY DEF Speaking, Assembler

LEMMA EmitSilent == ASSUME NEW s, Speaking(s), NEW e PROVE Silent(s, Emit(s, e))
BY DEF Silent, Speaking, Emit

LEMMA AddOutputSilent ==
  ASSUME NEW s, Speaking(s), NEW item, NEW text
  PROVE  Silent(s, AddOutput(s, item, text))
BY DEF Silent, Speaking, AddOutput

LEMMA AddItemSilent == ASSUME NEW s, Speaking(s), NEW item PROVE Silent(s, AddItem(s, item))
<1> DEFINE v == Emit(s, Event("added", s.next, item, <<>>))
           u == [v EXCEPT !.next = @ + 1]
<1>1. Silent(s, v)
  BY EmitSilent
<1>2. AddItem(s, item) = u
  BY DEF AddItem
<1> HIDE DEF v
<1>3. Silent(v, u)
  BY <1>1 DEF Silent, Speaking
<1>4. QED BY <1>1, <1>2, <1>3, SilentTrans

LEMMA FinishReasoningItemSilent ==
  ASSUME NEW s, Speaking(s)
  PROVE  Silent(s, FinishReasoningItem(s)) /\ Silent(s, CloseReasoning(s))
<1> DEFINE v == Emit(s, Event("done", s.reasoningIx, ReasoningItem, s.reasoning))
           w == [v EXCEPT !.reasoningDone = TRUE]
<1>1. Silent(s, v)
  BY EmitSilent
<1>2. FinishReasoningItem(s) = s \/ FinishReasoningItem(s) = w
  BY DEF FinishReasoningItem
<1> HIDE DEF v
<1>3. Silent(v, w)
  BY <1>1 DEF Silent, Speaking
<1> HIDE DEF w
<1>4. Silent(s, FinishReasoningItem(s))
  BY <1>1, <1>2, <1>3, SilentTrans, SilentSelf
<1>5. QED BY <1>4, SilentSelf DEF CloseReasoning

LEMMA EnsureTextStartedSilent ==
  ASSUME NEW s, Speaking(s)
  PROVE  Silent(s, EnsureTextStarted(s))
<1> DEFINE t == CloseReasoning(s)
           v == AddItem(t, MessageItem)
           w == [v EXCEPT !.textIx = t.next]
<1>1. EnsureTextStarted(s) = s \/ EnsureTextStarted(s) = w
  BY DEF EnsureTextStarted
<1>2. Silent(s, t)
  BY FinishReasoningItemSilent
<1> HIDE DEF t
<1>3. Silent(t, v)
  BY <1>2, SilentSpeaking, AddItemSilent
<1> HIDE DEF v
<1>4. Silent(v, w)
  BY <1>3 DEF Silent, Speaking
<1> HIDE DEF w
<1>5. Silent(s, w)
  BY <1>2, <1>3, <1>4, SilentTrans
<1>6. QED BY <1>1, <1>5, SilentSelf

LEMMA FinishTextItemSilent ==
  ASSUME NEW s, Speaking(s)
  PROVE  Silent(s, FinishTextItem(s))
<1> DEFINE t == EnsureTextStarted(s)
           d == Emit(t, Event("delta", t.textIx, MessageItem, t.content))
           u == IF t.bufferText THEN d ELSE t
           v == Emit(u, Event("done", u.textIx, MessageItem, u.content))
           w == [v EXCEPT !.textDone = TRUE]
<1>1. FinishTextItem(s) = s \/ FinishTextItem(s) = w
  BY DEF FinishTextItem
<1>2. Silent(s, t)
  BY EnsureTextStartedSilent
<1> HIDE DEF t
<1>3. Silent(t, d)
  BY <1>2, SilentSpeaking, EmitSilent
<1> HIDE DEF d
<1>4. Silent(t, u)
  BY <1>2, <1>3, SilentSpeaking, SilentSelf
<1> HIDE DEF u
<1>5. Silent(u, v)
  BY <1>4, SilentSpeaking, EmitSilent
<1> HIDE DEF v
<1>6. Silent(v, w)
  BY <1>5 DEF Silent, Speaking
<1> HIDE DEF w
<1>7. Silent(s, w)
  BY <1>2, <1>4, <1>5, <1>6, SilentTrans
<1>8. QED BY <1>1, <1>7, SilentSelf

LEMMA FinalizeTextSilent ==
  ASSUME NEW s, Speaking(FlushPendingThinkBuffer(s))
  PROVE  Silent(FlushPendingThinkBuffer(s), FinalizeText(s))
<1> DEFINE t == FlushPendingThinkBuffer(s)
           u == IF t.reasoning = <<>> THEN t ELSE FinishReasoningItem(t)
           shown == u.content # <<>> /\ ~HasToolOutput(u)
           v == IF shown THEN FinishTextItem(u) ELSE u
           w == IF v.reasoning = <<>> THEN v ELSE AddOutput(v, ReasoningItem, v.reasoning)
           x == IF shown THEN AddOutput(w, MessageItem, w.content) ELSE w
<1>1. FinalizeText(s) = x
  BY DEF FinalizeText
<1>2. Speaking(t)
  OBVIOUS
<1> HIDE DEF t
<1>3. Silent(t, u)
  BY <1>2, FinishReasoningItemSilent, SilentSelf
<1> HIDE DEF u
<1>4. Silent(u, v)
  <2>1. Silent(u, FinishTextItem(u)) /\ Silent(u, u)
    BY <1>3, SilentSpeaking, FinishTextItemSilent, SilentSelf
  <2> HIDE DEF shown
  <2>2. QED BY <2>1
<1> HIDE DEF v, shown
<1>5. Silent(v, w)
  <2>1. Silent(v, AddOutput(v, ReasoningItem, v.reasoning)) /\ Silent(v, v)
    BY <1>4, SilentSpeaking, AddOutputSilent, SilentSelf
  <2>2. QED BY <2>1
<1> HIDE DEF w
<1>6. Silent(w, x)
  <2>1. Silent(w, AddOutput(w, MessageItem, w.content)) /\ Silent(w, w)
    BY <1>5, SilentSpeaking, AddOutputSilent, SilentSelf
  <2>2. QED BY <2>1
<1> HIDE DEF x
<1>7. Silent(t, x)
  BY <1>3, <1>4, <1>5, <1>6, SilentTrans
<1>8. QED BY <1>1, <1>7 DEF t

LEMMA FinalizeToolSilent ==
  ASSUME NEW s, Speaking(s), NEW k
  PROVE  Silent(s, FinalizeTool(s, k))
<1>1. ASSUME NEW t, Speaking(t) PROVE Silent(t, StartTool(t, k))
  <2> DEFINE v == AddItem(t, ToolItem(t.calls[k]))
             w == [v EXCEPT !.calls[k].ix = t.next, !.calls[k].added = TRUE]
  <2>1. Silent(t, v)
    BY <1>1, AddItemSilent
  <2>2. StartTool(t, k) = w
    BY DEF StartTool
  <2> HIDE DEF v
  <2>3. Silent(v, w)
    BY <2>1 DEF Silent, Speaking
  <2>4. QED BY <2>1, <2>2, <2>3, SilentTrans
<1>2. Silent(s, StartToolForFinalize(s, k))
  <2> DEFINE r == [s EXCEPT !.calls[k].id = IF @ = NoText THEN FallbackId[k] ELSE @]
  <2>1. Silent(s, r)
    BY DEF Silent, Speaking
  <2>2. StartToolForFinalize(s, k) = StartTool(r, k)
    BY DEF StartToolForFinalize
  <2> HIDE DEF r
  <2>3. Silent(r, StartTool(r, k))
    BY <1>1, <2>1, SilentSpeaking
  <2>4. QED BY <2>1, <2>2, <2>3, SilentTrans
<1>3. ASSUME NEW m, Speaking(m) PROVE Silent(m, EmitToolDone(m, k))
  <2> DEFINE c == m.calls[k]
             args == Canonical(c.args)
             input == CustomInput(args)
             item == ToolItem(c)
             d == Emit(m, Event("delta", c.ix, item, input))
             t == IF IsCustom(m, c.name) /\ input # <<>> THEN d ELSE m
             text == IF IsCustom(m, c.name) THEN input ELSE args
             v == Emit(t, Event("done", c.ix, item, text))
  <2>1. EmitToolDone(m, k) = AddOutput(v, item, text)
    BY DEF EmitToolDone
  <2>2. Silent(m, d) /\ Silent(m, m)
    BY <1>3, EmitSilent, SilentSelf
  <2> HIDE DEF d, c, args, input, item, text
  <2>3. Silent(m, t)
    BY <2>2
  <2> HIDE DEF t
  <2>4. Silent(t, v)
    BY <2>3, SilentSpeaking, EmitSilent
  <2> HIDE DEF v
  <2>5. Silent(v, AddOutput(v, item, text))
    BY <2>4, SilentSpeaking, AddOutputSilent
  <2>6. QED BY <2>1, <2>3, <2>4, <2>5, SilentTrans
<1> DEFINE t == IF s.calls[k].added THEN s ELSE StartToolForFinalize(s, k)
           marked == [t EXCEPT !.calls[k].done = TRUE, !.pending = Append(@, t.calls[k].id)]
           skipped == [s EXCEPT !.calls[k].done = TRUE]
           u == FinalizeTool(s, k)
<1>4. u = s \/ u = skipped \/ u = EmitToolDone(marked, k)
  BY DEF FinalizeTool
<1>5. Silent(s, s) /\ Silent(s, skipped)
  BY DEF Silent, Speaking
<1>6. Silent(s, t)
  BY <1>2, <1>5
<1> HIDE DEF t, skipped, u
<1>7. Silent(t, marked)
  BY <1>6 DEF Silent, Speaking
<1> HIDE DEF marked
<1>8. Silent(marked, EmitToolDone(marked, k))
  BY <1>3, <1>7, SilentSpeaking
<1>9. Silent(s, EmitToolDone(marked, k))
  BY <1>6, <1>7, <1>8, SilentTrans
<1>10. QED BY <1>4, <1>5, <1>9 DEF u

LEMMA EmitTerminalSilent ==
  ASSUME NEW s, Speaking(s), NEW status
  PROVE  Silent(s, EmitTerminal(s, status))
<1> DEFINE v == Emit(s, Event(status, None, NoItem, <<>>))
           w == [v EXCEPT !.terminal = status]
<1>1. Silent(s, v)
  BY EmitSilent
<1>2. EmitTerminal(s, status) = w
  BY DEF EmitTerminal
<1> HIDE DEF v
<1>3. Silent(v, w)
  BY <1>1 DEF Silent, Speaking
<1>4. QED BY <1>1, <1>2, <1>3, SilentTrans

------------------------------------------------------------------------------
(* What the assembler has made of the whole answer once it is finalized.   *)

WholeTold(s, F) ==
  /\ HasLeadingThinkBlock(F) => Block(s, F)
  /\ UnclosedBlock(F) => Ink(s.reasoning) = Ink(AfterLeadingOpen(F)) /\ s.content = <<>>
  /\ ~HasLeadingOpen(F) => s.content = F /\ s.reasoning = <<>>

LEMMA SilentWholeTold ==
  ASSUME NEW s, NEW u, NEW F, Silent(s, u), WholeTold(s, F)
  PROVE  WholeTold(u, F)
BY DEF Silent, WholeTold, Block

(* The end of the answer inside a block: what was kept back is reasoning.  *)
LEMMA FlushUnclosed ==
  ASSUME NEW s, Told(s), NEW F \in Text, Inside(s, F)
  PROVE  LET t == FlushPendingThinkBuffer(s) IN
         Ink(t.reasoning) = Ink(AfterLeadingOpen(F)) /\ t.content = <<>>
<1> DEFINE t == FlushPendingThinkBuffer(s)
           emptied == [s EXCEPT !.buffer = <<>>, !.think = "Done"]
           A == AfterLeadingOpen(F)
           p == SplitIncompleteThinkCloseSuffix(A)
<1>1. /\ s.think = "InThink" /\ s.content = <<>>
      /\ s.buffer = p.keep /\ Ink(s.reasoning) = Ink(p.emit)
  BY DEF Inside
<1>2. A \in Text
  BY AfterLeadingOpenIsText
<1> HIDE DEF A
<1>3. p.emit \in Text /\ p.keep \in Text /\ A = p.emit \o p.keep
  BY <1>2, KeepIs
<1>4. Ink(A) = Ink(p.emit) \o Ink(p.keep)
  BY <1>3, InkConcat
<1>5. t = IF s.buffer = <<>> THEN emptied ELSE PushReasoningDelta(emptied, s.buffer)
  BY <1>1 DEF FlushPendingThinkBuffer
<1>6. Told(emptied) /\ emptied.content = <<>> /\ emptied.reasoning = s.reasoning
  BY <1>1, SetDoneSays
<1>7. s.reasoning \in Text /\ s.buffer \in Text
  BY TextsAreTexts
<1> HIDE DEF t, emptied, p
<1>8. CASE s.buffer = <<>>
  <2>1. p.emit \o <<>> = p.emit
    BY <1>3, ConcatEmptySeq DEF Text
  <2>2. A = p.emit
    BY <1>1, <1>3, <1>8, <2>1
  <2>3. QED BY <1>1, <1>5, <1>6, <1>8, <2>2 DEF t, A
<1>9. CASE s.buffer # <<>>
  <2>1. t.content = <<>> /\ t.reasoning = s.reasoning \o s.buffer
    BY <1>5, <1>6, <1>7, <1>9, PushReasoningSays
  <2>2. Ink(s.reasoning \o s.buffer) = Ink(s.reasoning) \o Ink(s.buffer)
    BY <1>7, InkConcat
  <2>3. QED BY <1>1, <1>4, <2>1, <2>2 DEF t, A
<1>10. QED BY <1>8, <1>9

LEMMA FlushWholeTold ==
  ASSUME NEW s, Told(s), NEW F \in Text, View(s, F)
  PROVE  WholeTold(FlushPendingThinkBuffer(s), F)
<1> DEFINE t == FlushPendingThinkBuffer(s)
           emptied == [s EXCEPT !.buffer = <<>>, !.think = "Done"]
<1>1. CASE Waiting(s, F)
  <2>1. /\ s.think = "Detecting" /\ ~HasLeadingOpen(F)
        /\ s.buffer = F /\ s.content = <<>> /\ s.reasoning = <<>>
    BY <1>1 DEF Waiting
  <2>2. t = IF F = <<>> THEN s ELSE PushTextDelta(emptied, F)
    BY <2>1 DEF FlushPendingThinkBuffer
  <2>3. Told(emptied) /\ emptied.content = <<>> /\ emptied.reasoning = <<>>
    BY <2>1, SetDoneSays
  <2> HIDE DEF t, emptied
  <2>4. /\ PushTextDelta(emptied, F).content = <<>> \o F
        /\ PushTextDelta(emptied, F).reasoning = <<>>
    BY <2>3, PushTextSays
  <2>5. <<>> \o F = F
    BY ConcatEmptySeq DEF Text
  <2>6. t.content = F /\ t.reasoning = <<>>
    BY <2>1, <2>2, <2>4, <2>5
  <2>7. QED BY <2>1, <2>6 DEF WholeTold, HasLeadingThinkBlock, UnclosedBlock, t
<1>2. CASE Inside(s, F)
  <2>1. HasLeadingOpen(F) /\ ~HasLeadingThinkBlock(F)
    BY <1>2 DEF Inside, HasLeadingThinkBlock
  <2>2. Ink(t.reasoning) = Ink(AfterLeadingOpen(F)) /\ t.content = <<>>
    BY <1>2, FlushUnclosed
  <2>3. QED BY <2>1, <2>2 DEF WholeTold, t
<1>3. CASE s.think = "Done" /\ (Block(s, F) \/ Plain(s, F))
  <2>1. t = s
    BY <1>3 DEF FlushPendingThinkBuffer
  <2>2. HasLeadingThinkBlock(F) => HasLeadingOpen(F)
    BY DEF HasLeadingThinkBlock
  <2>3. CASE Block(s, F)
    <3>1. ~UnclosedBlock(F)
      BY <2>3 DEF Block, HasLeadingThinkBlock, UnclosedBlock
    <3>2. QED BY <2>1, <2>2, <2>3, <3>1 DEF WholeTold, Block
  <2>4. CASE Plain(s, F)
    BY <2>1, <2>2, <2>4 DEF WholeTold, Plain, UnclosedBlock
  <2>5. QED BY <1>3, <2>3, <2>4
<1>4. QED BY <1>1, <1>2, <1>3 DEF View

LEMMA FinalizeTextWholeTold ==
  ASSUME NEW s, Told(s), ThinkAgrees(s), NEW F \in Text, View(s, F)
  PROVE  WholeTold(FinalizeText(s), F)
<1>1. Speaking(FlushPendingThinkBuffer(s))
  BY FlushPendingThinkBufferSpeaks, PushesTold, TypedSpeaking DEF Speaks, Told, Ready, Good
<1>2. QED BY <1>1, FinalizeTextSilent, FlushWholeTold, SilentWholeTold

------------------------------------------------------------------------------
(* The invariant.                                                          *)

AllContent(f) == FlattenSeq([i \in DOMAIN f |-> f[i].content])

(* All of the answer comes as content, and no chunk opens the block bare.  *)
ContentOnly(f) ==
  \A i \in DOMAIN f : f[i].reasoning = <<>> /\ ~f[i].calls /\ ~OpensBare(f[i].content)

SInv ==
  /\ ContentOnly(fed) =>
       /\ BeforeFinalize => View(asm, AllContent(fed))
       /\ Finishing \/ row.stored => WholeTold(asm, AllContent(fed))
  /\ row.stored => row.content = asm.content

LEMMA ContentGrown ==
  ASSUME NEW f \in Seq(Chunk), NEW c \in Chunk
  PROVE  /\ AllContent(f) \in Text
         /\ AllContent(Append(f, c)) = AllContent(f) \o c.content
         /\ ContentOnly(Append(f, c)) =>
              ContentOnly(f) /\ c.reasoning = <<>> /\ ~c.calls /\ ~OpensBare(c.content)
<1> DEFINE n == Len(f)
           g == Append(f, c)
           p == [i \in 1..(n + 1) |-> g[i].content]
           q == [i \in 1..n |-> f[i].content]
<1>1. /\ n \in Nat /\ DOMAIN f = 1..n /\ \A i \in 1..n : f[i] \in Chunk
  BY LenProperties
<1>2. /\ DOMAIN g = 1..(n + 1) /\ g[n + 1] = c /\ \A i \in 1..n : g[i] = f[i]
  BY <1>1, AppendProperties, LenProperties
<1> HIDE DEF g, n
<1>3. \A i \in 1..(n + 1) : g[i] \in Chunk
  BY <1>1, <1>2
<1>4. p \in [1..(n + 1) -> Text] /\ q \in [1..n -> Text]
  BY <1>1, <1>3 DEF Chunk
<1>5. (\A i \in 1..n : p[i] = q[i]) /\ p[n + 1] = c.content
  BY <1>1, <1>2
<1>6. AllContent(g) = FlattenSeq(p) /\ AllContent(f) = FlattenSeq(q)
  BY <1>1, <1>2 DEF AllContent
<1>7. FlattenSeq(q) \in Text
  BY <1>1, <1>4, FlattenIsText
<1> HIDE DEF p, q
<1>8. FlattenSeq(p) = FlattenSeq(q) \o p[n + 1]
  BY <1>1, <1>4, <1>5, FlattenGrown
<1>9. ASSUME ContentOnly(g)
      PROVE  ContentOnly(f) /\ c.reasoning = <<>> /\ ~c.calls /\ ~OpensBare(c.content)
  <2>1. n + 1 \in DOMAIN g /\ \A i \in DOMAIN f : i \in DOMAIN g /\ g[i] = f[i]
    BY <1>1, <1>2
  <2>2. QED BY <1>2, <1>9, <2>1 DEF ContentOnly
<1>10. QED BY <1>5, <1>6, <1>7, <1>8, <1>9 DEF g

LEMMA AllContentIsText == ASSUME NEW f \in Seq(Chunk) PROVE AllContent(f) \in Text
<1>1. PICK n \in Nat : n = Len(f) /\ DOMAIN f = 1..n /\ \A i \in 1..n : f[i] \in Chunk
  BY LenProperties
<1> DEFINE q == [i \in 1..n |-> f[i].content]
<1>2. q \in [1..n -> Text]
  BY <1>1 DEF Chunk
<1>3. AllContent(f) = FlattenSeq(q)
  BY <1>1 DEF AllContent
<1> HIDE DEF q
<1>4. QED BY <1>2, <1>3, FlattenIsText

LEMMA AsmSpeaking == ASSUME IInv PROVE Speaking(asm)
BY TypedSpeaking DEF IInv, TypeOK

LEMMA InitSInv == Init => SInv
<1> SUFFICES ASSUME Init PROVE SInv
  OBVIOUS
<1>1. PICK tools \in BOOLEAN : asm = NewAssembler(tools)
  BY DEF Init
<1>2. /\ asm.think = "Detecting" /\ asm.buffer = <<>> /\ asm.content = <<>>
      /\ asm.reasoning = <<>>
  BY <1>1 DEF NewAssembler
<1>3. phase = "spawned" /\ fed = <<>> /\ ~row.stored
  BY DEF Init, NoRow
<1>4. AllContent(fed) = <<>>
  <2> DEFINE p == [i \in DOMAIN fed |-> fed[i].content]
  <2>1. p \in [1..0 -> Text]
    BY <1>3
  <2> HIDE DEF p
  <2>2. FlattenSeq(p) = <<>>
    BY <2>1, FlattenEmpty
  <2>3. QED BY <2>2 DEF AllContent, p
<1>5. ~HasLeadingOpen(<<>>)
  <2>1. TrimStart(<<>>) = <<>>
    BY DEF TrimStart
  <2>2. Len(<<>>) = 0
    OBVIOUS
  <2>3. QED BY <2>1, <2>2 DEF HasLeadingOpen
<1>6. View(asm, AllContent(fed))
  BY <1>2, <1>4, <1>5 DEF View, Waiting
<1>7. QED BY <1>3, <1>6 DEF SInv, Finishing

(* Steps that leave the chunks and the two texts as they are. *)
LEMMA SilentSInv ==
  ASSUME SInv, Silent(asm, asm'), UNCHANGED fed,
         row'.stored => row'.content = asm'.content,
         BeforeFinalize' => BeforeFinalize /\ SameSpeech(asm, asm'),
         Finishing' \/ row'.stored => Finishing \/ row.stored
  PROVE  SInv'
<1>1. View(asm, AllContent(fed)) /\ BeforeFinalize' => View(asm', AllContent(fed))
  BY SameView
<1>2. WholeTold(asm, AllContent(fed)) => WholeTold(asm', AllContent(fed))
  BY SilentWholeTold
<1>3. QED BY <1>1, <1>2 DEF SInv

LEMMA FailSInv ==
  ASSUME IInv, SInv, NEW how, phase # "closed", FailAndClose(how)
  PROVE  SInv'
<1>1. asm' = EmitTerminal(asm, "failed") /\ phase' = "closed" /\ UNCHANGED <<row, fed>>
  BY OpenIsGood DEF FailAndClose, Fail
<1>2. Silent(asm, asm')
  BY <1>1, AsmSpeaking, EmitTerminalSilent
<1>3. ~BeforeFinalize' /\ ~Finishing'
  BY <1>1 DEF BeforeFinalize, Finishing
<1>4. row'.stored => row'.content = asm'.content
  BY <1>1, <1>2 DEF SInv, Silent
<1>5. QED BY <1>1, <1>2, <1>3, <1>4, SilentSInv

LEMMA CompleteSInv == ASSUME IInv, SInv, Complete PROVE SInv'
<1>1. /\ asm' = EmitTerminal(asm, CompletionStatus(asm.finish)) /\ phase' = "closed"
      /\ UNCHANGED <<row, fed>> /\ phase = "stored"
  BY DEF Complete
<1>2. Silent(asm, asm')
  BY <1>1, AsmSpeaking, EmitTerminalSilent
<1>3. ~BeforeFinalize' /\ ~Finishing' /\ Finishing
  BY <1>1 DEF BeforeFinalize, Finishing
<1>4. row'.stored => row'.content = asm'.content
  BY <1>1, <1>2 DEF SInv, Silent
<1>5. QED BY <1>1, <1>2, <1>3, <1>4, SilentSInv

LEMMA StartSInv == ASSUME IInv, SInv, Start PROVE SInv'
<1> DEFINE e == Event("created", None, NoItem, <<>>)
           f == Event("in_progress", None, NoItem, <<>>)
           v == Emit(asm, e)
<1>1. /\ phase = "spawned" /\ phase' = "acquiring" /\ asm' = Emit(v, f)
      /\ UNCHANGED <<row, fed>>
  BY DEF Start
<1>2. e \in Events /\ f \in Events
  <2>1. NoItem \in Item /\ <<>> \in Text
    BY ItemTypes DEF Text
  <2>2. QED BY <2>1 DEF Event, Events, EventTypes
<1> HIDE DEF e, f
<1>3. asm \in Assembler
  BY DEF IInv, TypeOK
<1>4. SameTexts(asm, v) /\ v \in Assembler
  BY <1>2, <1>3, EmitSame, EmitFacts
<1> HIDE DEF v
<1>5. SameTexts(v, asm') /\ asm' \in Assembler
  BY <1>1, <1>2, <1>4, EmitSame, EmitFacts
<1>6. SameSpeech(asm, asm') /\ Silent(asm, asm')
  BY <1>4, <1>5, TypedSpeaking DEF SameTexts, SameSpeech, Silent
<1>7. BeforeFinalize /\ ~Finishing'
  BY <1>1 DEF BeforeFinalize, Finishing
<1>8. row'.stored => row'.content = asm'.content
  BY <1>1, <1>6 DEF SInv, Silent
<1>9. QED BY <1>1, <1>6, <1>7, <1>8, SilentSInv

LEMMA IdleSInv ==
  ASSUME IInv, SInv, asm' = asm, UNCHANGED <<row, fed>>,
         BeforeFinalize' => BeforeFinalize, Finishing' => Finishing
  PROVE  SInv'
<1>1. Silent(asm, asm') /\ SameSpeech(asm, asm')
  BY AsmSpeaking DEF Silent, SameSpeech
<1>2. row'.stored => row'.content = asm'.content
  BY DEF SInv
<1>3. QED BY <1>1, <1>2, SilentSInv

LEMMA AcceptSInv == ASSUME IInv, RInv, TInv, SInv, AcceptChunk PROVE SInv'
<1>1. PICK c \in Chunks : asm' = Accept(asm, c) /\ fed' = Append(fed, c)
  BY DEF AcceptChunk
<1>2. /\ phase = "streaming" /\ phase' = "streaming" /\ UNCHANGED row
      /\ BeforeFinalize /\ ~Finishing'
  BY DEF AcceptChunk, BeforeFinalize, Finishing
<1>3. Told(asm) /\ c \in Chunk /\ fed \in Seq(Chunk) /\ ~row.stored
  <2>1. Told(asm)
    BY <1>2, OpenIsReady DEF TInv, Told
  <2>2. c \in Chunk /\ fed \in Seq(Chunk) /\ ~row.stored
    BY <1>2, ConstantsAssumption DEF IInv, TypeOK
  <2>3. QED BY <2>1, <2>2
<1>4. /\ AllContent(fed) \in Text
      /\ AllContent(fed') = AllContent(fed) \o c.content
      /\ ContentOnly(fed') =>
           ContentOnly(fed) /\ c.reasoning = <<>> /\ ~c.calls /\ ~OpensBare(c.content)
  BY <1>1, <1>3, ContentGrown
<1>5. ASSUME ContentOnly(fed') PROVE View(asm', AllContent(fed'))
  <2>1. View(asm, AllContent(fed))
    BY <1>2, <1>4, <1>5 DEF SInv
  <2>2. View(Accept(asm, c), AllContent(fed) \o c.content)
    BY <1>3, <1>4, <1>5, <2>1, AcceptView
  <2>3. QED BY <1>1, <1>4, <2>2
<1>6. QED BY <1>2, <1>3, <1>5 DEF SInv

LEMMA BeginFinalizeSInv ==
  ASSUME IInv, TInv, SInv, phase = "streaming", NEW s, Told(s), SameTexts(asm, s),
         s.bufferText = asm.bufferText, s.reasoningDone = asm.reasoningDone,
         NEW how, BeginFinalize(s, how)
  PROVE  SInv'
<1>1. asm' = FinalizeText(s) /\ phase' = "finalizing" /\ UNCHANGED <<row, fed>>
  BY DEF BeginFinalize
<1>2. BeforeFinalize /\ ~BeforeFinalize' /\ ~row.stored /\ fed \in Seq(Chunk)
  BY <1>1 DEF BeforeFinalize, IInv, TypeOK
<1>3. ThinkAgrees(s)
  BY <1>2 DEF TInv, Unlisted, ThinkAgrees, SameTexts
<1>4. AllContent(fed) \in Text
  BY <1>2, AllContentIsText
<1>5. ASSUME ContentOnly(fed) PROVE WholeTold(asm', AllContent(fed))
  <2>1. View(asm, AllContent(fed))
    BY <1>2, <1>5 DEF SInv
  <2>2. View(s, AllContent(fed))
    BY <2>1, SameView DEF SameTexts, SameSpeech
  <2>3. QED BY <1>1, <1>3, <1>4, <2>2, FinalizeTextWholeTold
<1>6. QED BY <1>1, <1>2, <1>5 DEF SInv

LEMMA FinalizeNextToolSInv == ASSUME IInv, SInv, FinalizeNextTool PROVE SInv'
<1>1. PICK k \in todo : asm' = FinalizeTool(asm, k)
  BY DEF FinalizeNextTool
<1>2. /\ phase = "finalizing" /\ phase' = "finalizing" /\ UNCHANGED <<row, fed>>
      /\ Finishing /\ ~BeforeFinalize'
  BY DEF FinalizeNextTool, Finishing, BeforeFinalize
<1>3. Silent(asm, asm')
  BY <1>1, AsmSpeaking, FinalizeToolSilent
<1>4. row'.stored => row'.content = asm'.content
  BY <1>2, <1>3 DEF SInv, Silent
<1>5. QED BY <1>2, <1>3, <1>4, SilentSInv

LEMMA StatePutSInv == ASSUME IInv, SInv, StatePut PROVE SInv'
<1>1. /\ phase = "finalizing" /\ phase' = "stored" /\ asm' = asm /\ UNCHANGED fed
      /\ row' = [stored |-> TRUE, content |-> asm.content,
                 output |-> asm.output, pending |-> asm.pending]
  BY DEF StatePut
<1>2. Silent(asm, asm') /\ row'.content = asm'.content
  BY <1>1, AsmSpeaking DEF Silent
<1>3. Finishing /\ ~BeforeFinalize'
  BY <1>1 DEF Finishing, BeforeFinalize
<1>4. QED BY <1>1, <1>2, <1>3, SilentSInv

LEMMA NextSInv == IInv /\ RInv /\ TInv /\ SInv /\ [Next]_vars => SInv'
<1> SUFFICES ASSUME IInv, RInv, TInv, SInv, [Next]_vars
             PROVE  SInv'
  OBVIOUS
<1>1. CASE Start
  BY <1>1, StartSInv
<1>2. CASE AcquirePermit \/ UpstreamAccepted
  BY <1>2, IdleSInv DEF AcquirePermit, UpstreamAccepted, BeforeFinalize, Finishing
<1>3. CASE RateLimited \/ UpstreamRefused \/ UpstreamError \/ EofEmpty \/ StatePutFails
  BY <1>3, FailSInv
     DEF RateLimited, UpstreamRefused, UpstreamError, EofEmpty, StatePutFails
<1>4. CASE AcceptChunk
  BY <1>4, AcceptSInv
<1>5. ASSUME phase = "streaming" PROVE Told(asm) /\ NoneDone(asm)
  BY <1>5, OpenIsReady DEF RInv, TInv, Told, BeforeFinalize
<1>6. CASE UpstreamDone \/ EofFinished
  <2>1. PICK how : phase = "streaming" /\ BeginFinalize(asm, how)
    BY <1>6 DEF UpstreamDone, EofFinished
  <2>2. SameTexts(asm, asm)
    BY DEF SameTexts
  <2>3. QED BY <1>5, <2>1, <2>2, BeginFinalizeSInv
<1>7. CASE EofTruncated
  <2> DEFINE s == MarkTruncatedAsLength(asm)
  <2>1. phase = "streaming" /\ BeginFinalize(s, "eof")
    BY <1>7 DEF EofTruncated
  <2>2. /\ Told(s) /\ SameTexts(asm, s)
        /\ s.bufferText = asm.bufferText /\ s.reasoningDone = asm.reasoningDone
    BY <1>5, <2>1, TruncatedTells
  <2> HIDE DEF s
  <2>3. QED BY <2>1, <2>2, BeginFinalizeSInv
<1>8. CASE FinalizeNextTool
  BY <1>8, FinalizeNextToolSInv
<1>9. CASE StatePut
  BY <1>9, StatePutSInv
<1>10. CASE Complete
  BY <1>10, CompleteSInv
<1>11. CASE Closed \/ UNCHANGED vars
  BY <1>11, IdleSInv DEF Closed, vars, BeforeFinalize, Finishing
<1>12. QED
  BY <1>1, <1>2, <1>3, <1>4, <1>6, <1>7, <1>8, <1>9, <1>10, <1>11 DEF Next, TaskStep

LEMMA SInvariance == Spec => [](IInv /\ SInv)
<1>1. Init => SInv
  BY InitSInv
<1>2. IInv /\ RInv /\ TInv /\ SInv /\ [Next]_vars => SInv'
  BY NextSInv
<1>3. QED BY <1>1, <1>2, TInvariance, PTL DEF Spec

(* The two ways to split a block differ in the blanks around the reasoning. *)
LEMMA BlockIsSplit ==
  ASSUME NEW s, NEW F \in Text, Block(s, F)
  PROVE  LET parts == SplitLeadingThinkBlock(F)
         IN  Ink(s.reasoning) = Ink(parts.reasoning) /\ Ink(s.content) = Ink(parts.answer)
<1> DEFINE A == AfterLeadingOpen(F)
           parts == SplitAtThinkClose(A)
           trimmed == SplitLeadingThinkBlock(F)
<1>1. A \in Text /\ HasClose(A)
  BY AfterLeadingOpenIsText DEF Block, HasLeadingThinkBlock
<1>2. parts \in Parts
  BY <1>1, SplitAtThinkCloseIsParts
<1>3. Ink(s.reasoning) = Ink(parts.reasoning) /\ Ink(s.content) = Ink(parts.answer)
  BY DEF Block
<1>4. trimmed = [parts EXCEPT !.reasoning = Trim(@)]
  BY DEF SplitLeadingThinkBlock
<1> HIDE DEF A, parts, trimmed
<1>5. /\ trimmed.reasoning = Trim(parts.reasoning) /\ trimmed.answer = parts.answer
      /\ parts.reasoning \in Text
  BY <1>2, <1>4 DEF Parts
<1>6. Ink(trimmed.reasoning) = Ink(parts.reasoning)
  BY <1>5, InkTrim
<1>7. QED BY <1>3, <1>5, <1>6 DEF trimmed

------------------------------------------------------------------------------
(* For every alphabet and every way the upstream cuts its answer into      *)
(* chunks, in the middle of a tag too, what the stream tells as reasoning  *)
(* and as message is settled by the whole answer.  It is what              *)
(* build_response makes of it, but for an answer that opens the block and  *)
(* never closes it: there the stream tells all that follows the tag as     *)
(* reasoning, where build_response leaves everything in the message.       *)
(* Assumed is that the chunk that opens the block does not end in "<" and  *)
(* whitespace.                                                             *)
THEOREM ChunksInvisible == Spec => []ChunkingInvisible
<1>1. IInv /\ SInv => ChunkingInvisible
  <2> SUFFICES ASSUME IInv, SInv, row.stored, OnlyContent, NoneOpensBare
               PROVE  ChunkingInvisible
    BY DEF ChunkingInvisible
  <2>1. ContentOnly(fed)
    BY DEF OnlyContent, NoneOpensBare, ContentOnly
  <2>2. Fed = AllContent(fed) /\ Fed \in Text
    BY AllContentIsText DEF Fed, AllContent, IInv, TypeOK
  <2>3. WholeTold(asm, Fed) /\ row.content = asm.content
    BY <2>1, <2>2 DEF SInv
  <2>4. ASSUME UnclosedBlock(Fed)
        PROVE  Ink(asm.reasoning) = Ink(AfterLeadingOpen(Fed)) /\ row.content = <<>>
    BY <2>3, <2>4 DEF WholeTold
  <2>5. ASSUME ~HasLeadingOpen(Fed) PROVE row.content = Fed /\ asm.reasoning = <<>>
    BY <2>3, <2>5 DEF WholeTold
  <2>6. ASSUME ~UnclosedBlock(Fed)
        PROVE  LET whole == WholeAnswer(Fed)
               IN  Ink(asm.reasoning) = Ink(whole.reasoning) /\ Ink(row.content) = Ink(whole.answer)
    <3>1. CASE HasLeadingThinkBlock(Fed)
      <4>1. LET parts == SplitLeadingThinkBlock(Fed)
            IN  Ink(asm.reasoning) = Ink(parts.reasoning) /\ Ink(row.content) = Ink(parts.answer)
        BY <2>2, <2>3, <3>1, BlockIsSplit DEF WholeTold
      <4>2. WholeAnswer(Fed) = SplitLeadingThinkBlock(Fed)
        BY <3>1 DEF WholeAnswer
      <4>3. QED BY <4>1, <4>2
    <3>2. CASE ~HasLeadingThinkBlock(Fed)
      <4>1. ~HasLeadingOpen(Fed)
        BY <2>6, <3>2 DEF UnclosedBlock, HasLeadingThinkBlock
      <4>2. WholeAnswer(Fed) = [reasoning |-> <<>>, answer |-> Fed]
        BY <3>2 DEF WholeAnswer
      <4>3. QED BY <2>5, <4>1, <4>2
    <3>3. QED BY <3>1, <3>2
  <2>7. QED BY <2>4, <2>5, <2>6 DEF ChunkingInvisible
<1>2. QED BY <1>1, SInvariance, PTL
==============================================================================
