-------------------------- MODULE Continuation_proofs --------------------------
(***************************************************************************)
(* Proofs about Continuation, for any clients, call ids, TTL and number of *)
(* turns and of calls in one.                                              *)
(***************************************************************************)
EXTENDS Continuation, SequenceTheorems, FiniteSetTheorems, WellFoundedInduction, TLAPS

------------------------------------------------------------------------------
(* What the recursive functions and the concatenation of sequences compute *)
(* is proved by induction over the length of a sequence; the form of it    *)
(* below needs no operator parameter.                                      *)

LEMMA SetInduction ==
  ASSUME NEW S, 0 \in S, \A n \in Nat : n \in S => n + 1 \in S
  PROVE  Nat \subseteq S
<1> SUFFICES ASSUME Nat \ S # {} PROVE FALSE
  OBVIOUS
<1> DEFINE R == OpToRel(<, Nat)
           T == Nat \ S
<1>1. IsWellFoundedOn(R, Nat)
  BY NatLessThanWellFounded
<1>2. \A x, y \in Nat : y < x => <<y, x>> \in R
  BY DEF OpToRel
<1> HIDE DEF R
<1>3. T \subseteq Nat /\ T # {}
  OBVIOUS
<1> HIDE DEF T
<1>4. PICK x \in T : \A y \in T : ~ (<<y, x>> \in R)
  BY <1>1, <1>3, WFMin
<1>5. x \in Nat /\ x # 0
  BY DEF T
<1>6. x - 1 \in Nat /\ x - 1 < x
  BY <1>5
<1>7. x - 1 \in S
  BY <1>2, <1>4, <1>5, <1>6 DEF T
<1>8. QED BY <1>4, <1>5, <1>6, <1>7 DEF T

(* A function given by its first value and its steps. *)
Stepped(f, A, a, G, m) ==
  /\ f \in [0..m -> A] /\ f[0] = a
  /\ \A n \in 1..m : f[n] = G[<<f[n - 1], n>>]

LEMMA Recursion ==
  ASSUME NEW A, NEW a \in A, NEW N \in Nat, NEW G \in [A \X (1..N) -> A]
  PROVE  \E f : Stepped(f, A, a, G, N)
<1> DEFINE S == {m \in Nat : m <= N => \E f : Stepped(f, A, a, G, m)}
<1>1. 0 \in S
  <2> DEFINE f == [n \in 0..0 |-> a]
  <2>1. Stepped(f, A, a, G, 0)
    BY DEF Stepped
  <2>2. QED BY <2>1
<1>2. ASSUME NEW m \in Nat, m \in S PROVE m + 1 \in S
  <2> SUFFICES ASSUME m + 1 <= N PROVE \E f : Stepped(f, A, a, G, m + 1)
    OBVIOUS
  <2>1. PICK f : Stepped(f, A, a, G, m)
    BY <1>2
  <2> DEFINE x == G[<<f[m], m + 1>>]
             g == [n \in 0..(m + 1) |-> IF n = m + 1 THEN x ELSE f[n]]
  <2>2. x \in A
    <3>1. f[m] \in A /\ m + 1 \in 1..N
      BY <2>1 DEF Stepped
    <3>2. QED BY <3>1
  <2>3. g \in [0..(m + 1) -> A] /\ g[0] = a
    BY <2>1, <2>2 DEF Stepped
  <2>4. ASSUME NEW n \in 1..(m + 1) PROVE g[n] = G[<<g[n - 1], n>>]
    <3>1. CASE n = m + 1
      <4>1. g[n] = x /\ g[n - 1] = f[m]
        BY <3>1
      <4>2. QED BY <3>1, <4>1
    <3>2. CASE n # m + 1
      <4>1. n \in 1..m /\ g[n] = f[n] /\ g[n - 1] = f[n - 1]
        BY <3>2
      <4>2. QED BY <2>1, <4>1 DEF Stepped
    <3>3. QED BY <3>1, <3>2
  <2> HIDE DEF g
  <2>5. Stepped(g, A, a, G, m + 1)
    BY <2>3, <2>4 DEF Stepped
  <2>6. QED BY <2>5
<1> HIDE DEF S
<1>3. Nat \subseteq S
  BY <1>1, <1>2, SetInduction
<1>4. N \in S
  BY <1>3
<1>5. QED BY <1>4 DEF S

------------------------------------------------------------------------------
(* The elements that are picked, and where they are from.                  *)

Picking(f, s, S) ==
  f = [n \in 0..Len(s) |->
         IF n = 0 THEN <<>> ELSE IF s[n] \in S THEN Append(f[n - 1], s[n]) ELSE f[n - 1]]

LEMMA PickingExists ==
  ASSUME NEW T, NEW s \in Seq(T), NEW S
  PROVE  \E f : Picking(f, s, S)
<1> DEFINE N == Len(s)
           G == [p \in Seq(T) \X (1..N) |->
                   IF s[p[2]] \in S THEN Append(p[1], s[p[2]]) ELSE p[1]]
<1>1. N \in Nat /\ \A n \in 1..N : s[n] \in T
  BY LenProperties, ElementOfSeq
<1>2. <<>> \in Seq(T)
  OBVIOUS
<1>3. G \in [Seq(T) \X (1..N) -> Seq(T)]
  BY <1>1, AppendProperties
<1>4. PICK f \in [0..N -> Seq(T)] : f[0] = <<>> /\ \A n \in 1..N : f[n] = G[<<f[n - 1], n>>]
  <2> DEFINE A == Seq(T)
             a == <<>>
  <2>1. N \in Nat /\ a \in A /\ G \in [A \X (1..N) -> A]
    BY <1>1, <1>2, <1>3
  <2> HIDE DEF G, N, A, a
  <2>2. \E f : Stepped(f, A, a, G, N)
    BY <2>1, Recursion
  <2>3. QED BY <2>2 DEF A, a, Stepped
<1>5. ASSUME NEW n \in 1..N
      PROVE  f[n] = IF s[n] \in S THEN Append(f[n - 1], s[n]) ELSE f[n - 1]
  <2>1. n - 1 \in 0..N
    BY <1>1
  <2>2. f[n - 1] \in Seq(T)
    BY <2>1
  <2>3. <<f[n - 1], n>> \in Seq(T) \X (1..N)
    BY <2>2
  <2>4. QED BY <1>4, <2>3
<1> HIDE DEF G
<1>6. Picking(f, s, S)
  <2>1. f = [n \in 0..N |-> f[n]]
    OBVIOUS
  <2>2. \A n \in 0..N : n # 0 => n \in 1..N
    BY <1>1
  <2>3. \A n \in 0..N : f[n] = IF n = 0 THEN <<>> ELSE
                                IF s[n] \in S THEN Append(f[n - 1], s[n]) ELSE f[n - 1]
    BY <1>4, <1>5, <2>2
  <2>4. QED BY <2>1, <2>3 DEF Picking
<1>7. QED BY <1>6

LEMMA PickedIs ==
  ASSUME NEW T, NEW s \in Seq(T), NEW S
  PROVE  \E f : Picking(f, s, S) /\ Picked(s, S) = f[Len(s)]
<1> DEFINE F == CHOOSE f : Picking(f, s, S)
<1>1. Picking(F, s, S)
  BY PickingExists
<1>2. Picked(s, S) = F[Len(s)]
  BY DEF Picked, Picking
<1> HIDE DEF F
<1>3. QED BY <1>1, <1>2

(* t are the elements of S among the first m of s; g says where they were. *)
From(g, t, s, m, S) ==
  /\ g \in [1..Len(t) -> 1..m]
  /\ \A i, j \in 1..Len(t) : i < j => g[i] < g[j]
  /\ \A i \in 1..Len(t) : t[i] = s[g[i]] /\ t[i] \in S
  /\ \A k \in 1..m : s[k] \in S => \E i \in 1..Len(t) : g[i] = k

LEMMA FromGrows ==
  ASSUME NEW T, NEW s \in Seq(T), NEW S, NEW m \in Nat, m + 1 <= Len(s),
         NEW t \in Seq(T), NEW g, From(g, t, s, m, S)
  PROVE  /\ s[m + 1] \in S => \E h : From(h, Append(t, s[m + 1]), s, m + 1, S)
         /\ s[m + 1] \notin S => From(g, t, s, m + 1, S)
<1>0. Len(t) \in Nat /\ Len(s) \in Nat /\ m + 1 \in 1..Len(s) /\ s[m + 1] \in T
  BY LenProperties, ElementOfSeq
<1>1. ASSUME s[m + 1] \in S PROVE \E h : From(h, Append(t, s[m + 1]), s, m + 1, S)
  <2> DEFINE u == Append(t, s[m + 1])
             n == Len(t)
             h == [i \in 1..(n + 1) |-> IF i = n + 1 THEN m + 1 ELSE g[i]]
  <2>1. Len(u) = n + 1 /\ u[n + 1] = s[m + 1] /\ \A i \in 1..n : u[i] = t[i]
    BY <1>0, AppendProperties
  <2>2. \A i \in 1..n : h[i] = g[i] /\ g[i] \in 1..m
    BY <1>0 DEF From
  <2>3. h[n + 1] = m + 1 /\ h \in [1..(n + 1) -> 1..(m + 1)]
    <3>1. n + 1 \in 1..(n + 1) /\ m + 1 \in 1..(m + 1)
      BY <1>0
    <3>2. \A i \in 1..(n + 1) : i # n + 1 => i \in 1..n
      BY <1>0
    <3>3. \A i \in 1..n : g[i] \in 1..(m + 1)
      <4>1. \A k \in 1..m : k \in 1..(m + 1)
        OBVIOUS
      <4>2. QED BY <2>2, <4>1
    <3>4. QED BY <3>1, <3>2, <3>3
  <2> HIDE DEF u, h
  <2>4. ASSUME NEW i \in 1..(n + 1), NEW j \in 1..(n + 1), i < j PROVE h[i] < h[j]
    <3>1. i \in 1..n
      BY <1>0, <2>4
    <3>2. CASE j = n + 1
      <4>1. h[i] \in 1..m /\ h[j] = m + 1
        BY <2>2, <2>3, <3>1, <3>2
      <4>2. QED BY <4>1
    <3>3. CASE j # n + 1
      <4>1. j \in 1..n
        BY <1>0, <3>3
      <4>2. g[i] < g[j]
        BY <2>4, <3>1, <4>1 DEF From
      <4>3. h[i] = g[i] /\ h[j] = g[j]
        BY <2>2, <3>1, <4>1
      <4>4. QED BY <4>2, <4>3
    <3>4. QED BY <3>2, <3>3
  <2>5. ASSUME NEW i \in 1..(n + 1) PROVE u[i] = s[h[i]] /\ u[i] \in S
    <3>1. CASE i = n + 1
      BY <1>1, <2>1, <2>3, <3>1
    <3>2. CASE i # n + 1
      <4>1. i \in 1..n
        BY <1>0, <3>2
      <4>2. QED BY <2>1, <2>2, <4>1 DEF From
    <3>3. QED BY <3>1, <3>2
  <2>6. ASSUME NEW k \in 1..(m + 1), s[k] \in S PROVE \E i \in 1..(n + 1) : h[i] = k
    <3>1. CASE k = m + 1
      BY <1>0, <2>3, <3>1
    <3>2. CASE k # m + 1
      <4>1. k \in 1..m
        BY <3>2
      <4>2. PICK i \in 1..n : g[i] = k
        BY <2>6, <4>1 DEF From
      <4>3. i \in 1..(n + 1) /\ h[i] = k
        BY <1>0, <2>2, <4>2
      <4>4. QED BY <4>3
    <3>3. QED BY <3>1, <3>2
  <2>7. From(h, u, s, m + 1, S)
    BY <2>1, <2>3, <2>4, <2>5, <2>6 DEF From
  <2>8. QED BY <2>7 DEF u
<1>2. ASSUME s[m + 1] \notin S PROVE From(g, t, s, m + 1, S)
  <2>1. g \in [1..Len(t) -> 1..(m + 1)]
    BY DEF From
  <2>2. ASSUME NEW k \in 1..(m + 1), s[k] \in S PROVE \E i \in 1..Len(t) : g[i] = k
    <3>1. k \in 1..m
      BY <1>2, <2>2
    <3>2. QED BY <2>2, <3>1 DEF From
  <2>3. QED BY <2>1, <2>2 DEF From
<1>3. QED BY <1>1, <1>2

LEMMA PickedFrom ==
  ASSUME NEW T, NEW s \in Seq(T), NEW S
  PROVE  Picked(s, S) \in Seq(T) /\ \E g : From(g, Picked(s, S), s, Len(s), S)
<1>0. Len(s) \in Nat /\ \A n \in 1..Len(s) : s[n] \in T
  BY LenProperties, ElementOfSeq
<1>1. PICK f : Picking(f, s, S) /\ Picked(s, S) = f[Len(s)]
  BY PickedIs
<1>2. /\ f[0] = <<>>
      /\ \A n \in 1..Len(s) :
           f[n] = IF s[n] \in S THEN Append(f[n - 1], s[n]) ELSE f[n - 1]
  <2>1. \A n \in 0..Len(s) : f[n] = IF n = 0 THEN <<>> ELSE
                                IF s[n] \in S THEN Append(f[n - 1], s[n]) ELSE f[n - 1]
    BY <1>1 DEF Picking
  <2>2. 0 \in 0..Len(s) /\ \A n \in 1..Len(s) : n \in 0..Len(s) /\ n # 0
    BY <1>0
  <2>3. QED BY <2>1, <2>2
<1> DEFINE I == {m \in Nat : m <= Len(s) => f[m] \in Seq(T) /\ \E g : From(g, f[m], s, m, S)}
<1>3. 0 \in I
  <2> DEFINE g == [i \in 1..0 |-> 0]
  <2>1. f[0] = <<>> /\ Len(f[0]) = 0 /\ f[0] \in Seq(T)
    BY <1>2
  <2>2. From(g, f[0], s, 0, S)
    BY <2>1 DEF From
  <2>3. QED BY <2>1, <2>2
<1>4. ASSUME NEW m \in Nat, m \in I PROVE m + 1 \in I
  <2> SUFFICES ASSUME m + 1 <= Len(s)
               PROVE  f[m + 1] \in Seq(T) /\ \E g : From(g, f[m + 1], s, m + 1, S)
    OBVIOUS
  <2>1. f[m] \in Seq(T) /\ \E g : From(g, f[m], s, m, S)
    BY <1>0, <1>4
  <2>2. PICK g : From(g, f[m], s, m, S)
    BY <2>1
  <2>3. f[m + 1] = IF s[m + 1] \in S THEN Append(f[m], s[m + 1]) ELSE f[m]
    <3>1. m + 1 \in 1..Len(s) /\ m + 1 - 1 = m
      BY <1>0
    <3>2. QED BY <1>2, <3>1
  <2>4. /\ s[m + 1] \in S => \E h : From(h, Append(f[m], s[m + 1]), s, m + 1, S)
        /\ s[m + 1] \notin S => From(g, f[m], s, m + 1, S)
    BY <2>1, <2>2, FromGrows
  <2>5. s[m + 1] \in T
    BY <1>0
  <2>6. QED BY <2>1, <2>3, <2>4, <2>5, AppendProperties
<1> HIDE DEF I
<1>5. Nat \subseteq I
  BY <1>3, <1>4, SetInduction
<1>6. Len(s) \in I
  BY <1>0, <1>5
<1>7. QED BY <1>0, <1>1, <1>6 DEF I

(* What is needed most often. *)
LEMMA PickedFacts ==
  ASSUME NEW T, NEW s \in Seq(T), NEW S
  PROVE  /\ Picked(s, S) \in Seq(T)
         /\ \A i \in DOMAIN Picked(s, S) :
              Picked(s, S)[i] \in S /\ \E k \in DOMAIN s : s[k] = Picked(s, S)[i]
         /\ \A k \in DOMAIN s : s[k] \in S =>
              \E i \in DOMAIN Picked(s, S) : Picked(s, S)[i] = s[k]
<1> DEFINE t == Picked(s, S)
<1>1. t \in Seq(T) /\ \E g : From(g, t, s, Len(s), S)
  BY PickedFrom
<1> HIDE DEF t
<1>2. PICK g : From(g, t, s, Len(s), S)
  BY <1>1
<1>3. DOMAIN t = 1..Len(t) /\ DOMAIN s = 1..Len(s)
  BY <1>1, LenProperties
<1>4. ASSUME NEW i \in DOMAIN t PROVE t[i] \in S /\ \E k \in DOMAIN s : s[k] = t[i]
  BY <1>2, <1>3 DEF From
<1>5. ASSUME NEW k \in DOMAIN s, s[k] \in S PROVE \E i \in DOMAIN t : t[i] = s[k]
  <2>1. PICK i \in 1..Len(t) : g[i] = k
    BY <1>2, <1>3, <1>5 DEF From
  <2>2. t[i] = s[k]
    BY <1>2, <2>1 DEF From
  <2>3. QED BY <1>3, <2>2
<1>6. QED BY <1>1, <1>4, <1>5 DEF t

(* The concatenation of sequences.  Flattening(f, p, n) says that f holds the  *)
(* concatenations of the first 1, .., n sequences of p.                        *)

Flattening(f, p, n) == f = [i \in 1..n |-> IF i = 1 THEN p[i] ELSE f[i - 1] \o p[i]]

LEMMA FlatteningAt ==
  ASSUME NEW f, NEW p, NEW n \in Nat, Flattening(f, p, n), NEW i \in 1..n
  PROVE  f[i] = IF i = 1 THEN p[i] ELSE f[i - 1] \o p[i]
BY DEF Flattening

LEMMA FlatteningLast ==
  ASSUME NEW f, NEW p, NEW n \in Nat, Flattening(f, p, n + 1), n # 0
  PROVE  f[n + 1] = f[n] \o p[n + 1]
<1>1. \A i \in 1..(n + 1) : f[i] = IF i = 1 THEN p[i] ELSE f[i - 1] \o p[i]
  BY DEF Flattening
<1>2. PICK m \in 1..(n + 1) : m = n + 1
  OBVIOUS
<1>3. f[m] = IF m = 1 THEN p[m] ELSE f[m - 1] \o p[m]
  BY <1>1
<1>4. m # 1 /\ m - 1 = n
  BY <1>2
<1>5. f[m] = f[n] \o p[m]
  BY <1>3, <1>4
<1>6. QED BY <1>2, <1>5

LEMMA FlatteningExists ==
  ASSUME NEW p
  PROVE  \A n \in Nat : \E f : Flattening(f, p, n)
<1> DEFINE S == {n \in Nat : \E f : Flattening(f, p, n)}
<1>1. 0 \in S
  <2> DEFINE f == [i \in 1..0 |-> p[i]]
  <2>1. Flattening(f, p, 0)
    BY DEF Flattening
  <2>2. QED BY <2>1
<1>2. ASSUME NEW n \in Nat, n \in S PROVE n + 1 \in S
  <2>1. PICK f : Flattening(f, p, n)
    BY <1>2
  <2> DEFINE longer == IF n = 0 THEN p[n + 1] ELSE f[n] \o p[n + 1]
             g == [i \in 1..(n + 1) |-> IF i = n + 1 THEN longer ELSE f[i]]
  <2>2. \A i \in 1..(n + 1) : g[i] = IF i = 1 THEN p[i] ELSE g[i - 1] \o p[i]
    <3>1. ASSUME NEW i \in 1..n PROVE g[i] = IF i = 1 THEN p[i] ELSE g[i - 1] \o p[i]
      <4>1. g[i] = f[i] /\ (i # 1 => g[i - 1] = f[i - 1])
        BY <3>1
      <4>2. f[i] = IF i = 1 THEN p[i] ELSE f[i - 1] \o p[i]
        BY <2>1, <3>1 DEF Flattening
      <4>3. QED BY <4>1, <4>2
    <3>2. g[n + 1] = longer
      OBVIOUS
    <3>3. n # 0 => g[n] = f[n]
      OBVIOUS
    <3>4. n + 1 = 1 <=> n = 0
      OBVIOUS
    <3> HIDE DEF g
    <3>5. g[n + 1] = IF n + 1 = 1 THEN p[n + 1] ELSE g[n + 1 - 1] \o p[n + 1]
      BY <3>2, <3>3, <3>4
    <3>6. QED BY <3>1, <3>5
  <2>3. g = [i \in 1..(n + 1) |-> g[i]]
    OBVIOUS
  <2> HIDE DEF g
  <2>4. Flattening(g, p, n + 1)
    BY <2>2, <2>3 DEF Flattening
  <2>5. QED BY <2>4
<1> HIDE DEF S
<1>3. Nat \subseteq S
  BY <1>1, <1>2, SetInduction
<1>4. QED BY <1>3 DEF S

(* A concatenation depends on the texts it is made of only. *)
LEMMA FlatteningUnique ==
  ASSUME NEW p, NEW q, NEW f, NEW g, NEW n \in Nat,
         Flattening(f, p, n + 1), Flattening(g, q, n), \A i \in 1..n : p[i] = q[i]
  PROVE  \A i \in 1..n : f[i] = g[i]
<1> DEFINE S == {i \in Nat : i \in 1..n => f[i] = g[i]}
<1>1. 0 \in S
  OBVIOUS
<1>2. ASSUME NEW i \in Nat, i \in S PROVE i + 1 \in S
  <2> SUFFICES ASSUME i + 1 \in 1..n PROVE f[i + 1] = g[i + 1]
    OBVIOUS
  <2>1. /\ f[i + 1] = IF i + 1 = 1 THEN p[i + 1] ELSE f[i + 1 - 1] \o p[i + 1]
        /\ g[i + 1] = IF i + 1 = 1 THEN q[i + 1] ELSE g[i + 1 - 1] \o q[i + 1]
    <3>1. i + 1 \in 1..(n + 1) /\ i + 1 \in 1..n
      OBVIOUS
    <3>2. /\ \A j \in 1..(n + 1) : f[j] = IF j = 1 THEN p[j] ELSE f[j - 1] \o p[j]
          /\ \A j \in 1..n : g[j] = IF j = 1 THEN q[j] ELSE g[j - 1] \o q[j]
      BY DEF Flattening
    <3>3. PICK j \in 1..n : j = i + 1 /\ j \in 1..(n + 1)
      BY <3>1
    <3>4. /\ f[j] = IF j = 1 THEN p[j] ELSE f[j - 1] \o p[j]
          /\ g[j] = IF j = 1 THEN q[j] ELSE g[j - 1] \o q[j]
      BY <3>2, <3>3
    <3>5. QED BY <3>3, <3>4
  <2>2. i + 1 - 1 = i /\ p[i + 1] = q[i + 1] /\ (i + 1 # 1 => f[i] = g[i])
    BY <1>2
  <2>3. QED BY <2>1, <2>2
<1> HIDE DEF S
<1>3. Nat \subseteq S
  BY <1>1, <1>2, SetInduction
<1>4. QED BY <1>3 DEF S

LEMMA FlattenFacts ==
  ASSUME NEW n \in Nat \ {0}, NEW p, p = [i \in 1..n |-> p[i]]
  PROVE  \E f : Flattening(f, p, n) /\ FlattenSeq(p) = f[n]
<1>1. Len(p) = n
  OBVIOUS
<1> DEFINE F == CHOOSE f : f = [i \in 1..n |-> IF i = 1 THEN p[i] ELSE f[i - 1] \o p[i]]
<1>2. FlattenSeq(p) = F[n]
  BY <1>1 DEF FlattenSeq
<1>3. \E f : f = [i \in 1..n |-> IF i = 1 THEN p[i] ELSE f[i - 1] \o p[i]]
  BY FlatteningExists DEF Flattening
<1>4. Flattening(F, p, n)
  BY <1>3 DEF Flattening
<1> HIDE DEF F
<1>5. QED BY <1>2, <1>4

(* One text more. *)
LEMMA FlattenStep ==
  ASSUME NEW T, NEW n \in Nat, NEW p \in [1..(n + 1) -> Seq(T)]
  PROVE  LET q == [i \in 1..n |-> p[i]] IN
         FlattenSeq(q) \in Seq(T) => FlattenSeq(p) = FlattenSeq(q) \o p[n + 1]
<1> DEFINE q == [i \in 1..n |-> p[i]]
<1> SUFFICES ASSUME FlattenSeq(q) \in Seq(T)
             PROVE  FlattenSeq(p) = FlattenSeq(q) \o p[n + 1]
  OBVIOUS
<1>1. PICK f : Flattening(f, p, n + 1) /\ FlattenSeq(p) = f[n + 1]
  BY FlattenFacts
<1>2. p[n + 1] \in Seq(T)
  OBVIOUS
<1>3. CASE n = 0
  <2>1. q = <<>> /\ Len(q) = 0
    BY <1>3
  <2>2. FlattenSeq(q) = <<>>
    BY <2>1 DEF FlattenSeq
  <2>3. f[n + 1] = p[n + 1]
    BY <1>1, <1>3 DEF Flattening
  <2>4. <<>> \o p[n + 1] = p[n + 1]
    BY <1>2, ConcatEmptySeq
  <2>5. QED BY <1>1, <2>2, <2>3, <2>4
<1>4. CASE n # 0
  <2>1. q = [i \in 1..n |-> q[i]] /\ \A i \in 1..n : p[i] = q[i]
    OBVIOUS
  <2> HIDE DEF q
  <2>2. PICK g : Flattening(g, q, n) /\ FlattenSeq(q) = g[n]
    BY <1>4, <2>1, FlattenFacts
  <2>3. \A i \in 1..n : f[i] = g[i]
    BY <1>1, <2>1, <2>2, FlatteningUnique
  <2>4. f[n + 1] = f[n] \o p[n + 1]
    BY <1>1, <1>4, FlatteningLast
  <2>5. n \in 1..n
    BY <1>4
  <2>6. QED BY <1>1, <2>2, <2>3, <2>4, <2>5 DEF q
<1>5. QED BY <1>3, <1>4

LEMMA FlattenEmpty == ASSUME NEW T, NEW p \in [1..0 -> Seq(T)] PROVE FlattenSeq(p) = <<>>
<1>1. p = <<>> /\ Len(p) = 0
  OBVIOUS
<1>2. QED BY <1>1 DEF FlattenSeq

LEMMA FlattenIsSeq ==
  ASSUME NEW T PROVE
  \A n \in Nat : \A p \in [1..n -> Seq(T)] : FlattenSeq(p) \in Seq(T)
<1> DEFINE S == {n \in Nat : \A p \in [1..n -> Seq(T)] : FlattenSeq(p) \in Seq(T)}
<1>1. 0 \in S
  BY FlattenEmpty
<1>2. ASSUME NEW n \in Nat, n \in S PROVE n + 1 \in S
  <2> SUFFICES ASSUME NEW p \in [1..(n + 1) -> Seq(T)] PROVE FlattenSeq(p) \in Seq(T)
    OBVIOUS
  <2> DEFINE q == [i \in 1..n |-> p[i]]
  <2>1. q \in [1..n -> Seq(T)] /\ p[n + 1] \in Seq(T)
    OBVIOUS
  <2>2. FlattenSeq(q) \in Seq(T)
    BY <1>2, <2>1
  <2>3. FlattenSeq(p) = FlattenSeq(q) \o p[n + 1]
    BY <2>2, FlattenStep
  <2> HIDE DEF q
  <2>4. QED BY <2>1, <2>2, <2>3, ConcatProperties
<1> HIDE DEF S
<1>3. Nat \subseteq S
  BY <1>1, <1>2, SetInduction
<1>4. QED BY <1>3 DEF S

(* The texts of a sequence that has grown by one. *)
LEMMA FlattenGrown ==
  ASSUME NEW T, NEW n \in Nat, NEW p \in [1..(n + 1) -> Seq(T)], NEW q \in [1..n -> Seq(T)],
         \A i \in 1..n : p[i] = q[i]
  PROVE  FlattenSeq(p) = FlattenSeq(q) \o p[n + 1] /\ FlattenSeq(q) \in Seq(T)
<1>1. q = [i \in 1..n |-> p[i]]
  OBVIOUS
<1>2. FlattenSeq(q) \in Seq(T)
  BY FlattenIsSeq
<1>3. QED BY <1>1, <1>2, FlattenStep


------------------------------------------------------------------------------
(* Sequences.                                                              *)

LEMMA SeqFacts ==
  ASSUME NEW T, NEW s \in Seq(T)
  PROVE  Len(s) \in Nat /\ DOMAIN s = 1..Len(s) /\ \A i \in 1..Len(s) : s[i] \in T
BY LenProperties, ElementOfSeq

LEMMA SingleIs == ASSUME NEW T, NEW x \in T PROVE <<x>> \in Seq(T) /\ Len(<<x>>) = 1 /\ <<x>>[1] = x
OBVIOUS

LEMMA JoinFacts ==
  ASSUME NEW T, NEW a \in Seq(T), NEW b \in Seq(T)
  PROVE  /\ a \o b \in Seq(T)
         /\ Len(a) \in Nat /\ Len(b) \in Nat /\ DOMAIN a = 1..Len(a) /\ DOMAIN b = 1..Len(b)
         /\ DOMAIN (a \o b) = 1..(Len(a) + Len(b))
         /\ \A k \in 1..Len(a) : (a \o b)[k] = a[k]
         /\ \A k \in 1..Len(b) : (a \o b)[Len(a) + k] = b[k]
BY ConcatProperties, LenProperties

(* Named, to be cited: no prover matches sequences joined several times.   *)
Thrice(a, b, d) == (a \o b) \o d = a \o (b \o d)

LEMMA JoinThrice ==
  ASSUME NEW T, NEW a \in Seq(T), NEW b \in Seq(T), NEW d \in Seq(T)
  PROVE  Thrice(a, b, d)
<1>1. (a \o b) \o d = a \o (b \o d)
  BY ConcatAssociative, SMTT(40)
<1>2. QED BY <1>1 DEF Thrice

LEMMA SeqInduction ==
  ASSUME NEW T, NEW S, <<>> \in S, \A s \in Seq(T), x \in T : s \in S => Append(s, x) \in S
  PROVE  Seq(T) \subseteq S
<1> DEFINE N == {n \in Nat : \A s \in Seq(T) : Len(s) = n => s \in S}
<1>1. 0 \in N
  BY EmptySeq
<1>2. ASSUME NEW n \in Nat, n \in N PROVE n + 1 \in N
  <2> SUFFICES ASSUME NEW s \in Seq(T), Len(s) = n + 1 PROVE s \in S
    OBVIOUS
  <2>1. s # <<>>
    BY EmptySeq
  <2>2. PICK t \in Seq(T), x \in T : s = Append(t, x)
    BY <2>1, SequenceEmptyOrAppend
  <2>3. Len(t) \in Nat /\ Len(s) = Len(t) + 1
    BY <2>2, AppendProperties, LenProperties
  <2>4. Len(t) = n
    BY <2>3
  <2>5. t \in S
    BY <1>2, <2>4
  <2>6. QED BY <2>2, <2>5
<1> HIDE DEF N
<1>3. Nat \subseteq N
  BY <1>1, <1>2, SetInduction
<1>4. ASSUME NEW s \in Seq(T) PROVE s \in S
  <2>1. Len(s) \in N
    BY <1>3, LenProperties
  <2>2. QED BY <2>1 DEF N
<1>5. QED BY <1>4

LEMMA PickingUnique ==
  ASSUME NEW T, NEW s \in Seq(T), NEW x \in T, NEW S, NEW f, NEW g,
         Picking(f, Append(s, x), S), Picking(g, s, S)
  PROVE  \A n \in 0..Len(s) : f[n] = g[n]
<1> DEFINE u == Append(s, x)
           N == {n \in Nat : n <= Len(s) => f[n] = g[n]}
<1>0. /\ Len(s) \in Nat /\ Len(u) = Len(s) + 1
      /\ \A i \in 1..Len(s) : u[i] = s[i]
  BY AppendProperties, LenProperties
<1> HIDE DEF u
<1>1. /\ \A n \in 0..Len(u) :
           f[n] = IF n = 0 THEN <<>> ELSE IF u[n] \in S THEN Append(f[n - 1], u[n]) ELSE f[n - 1]
      /\ \A n \in 0..Len(s) :
           g[n] = IF n = 0 THEN <<>> ELSE IF s[n] \in S THEN Append(g[n - 1], s[n]) ELSE g[n - 1]
  BY DEF Picking, u
<1>2. 0 \in N
  <2>1. 0 \in 0..Len(u) /\ 0 \in 0..Len(s)
    BY <1>0
  <2>2. QED BY <1>1, <2>1
<1>3. ASSUME NEW n \in Nat, n \in N PROVE n + 1 \in N
  <2> SUFFICES ASSUME n + 1 <= Len(s) PROVE f[n + 1] = g[n + 1]
    OBVIOUS
  <2>1. PICK m \in 1..Len(s) : m = n + 1
    BY <1>0
  <2>2. m \in 0..Len(u) /\ m \in 0..Len(s) /\ m # 0 /\ m - 1 = n
    BY <1>0, <2>1
  <2>3. f[n] = g[n]
    BY <1>0, <1>3
  <2>4. u[m] = s[m]
    BY <1>0
  <2>5. f[m] = IF u[m] \in S THEN Append(f[m - 1], u[m]) ELSE f[m - 1]
    BY <1>1, <2>2
  <2>6. g[m] = IF s[m] \in S THEN Append(g[m - 1], s[m]) ELSE g[m - 1]
    BY <1>1, <2>2
  <2>7. QED BY <2>1, <2>2, <2>3, <2>4, <2>5, <2>6
<1> HIDE DEF N
<1>4. Nat \subseteq N
  BY <1>2, <1>3, SetInduction
<1>5. QED BY <1>0, <1>4 DEF N

LEMMA PickedEmpty == ASSUME NEW S PROVE Picked(<<>>, S) = <<>>
<1>1. <<>> \in Seq({}) /\ Len(<<>>) = 0
  OBVIOUS
<1>2. PICK f : Picking(f, <<>>, S) /\ Picked(<<>>, S) = f[0]
  BY <1>1, PickedIs
<1>3. f[0] = <<>>
  BY <1>1, <1>2 DEF Picking
<1>4. QED BY <1>2, <1>3

LEMMA PickedStep ==
  ASSUME NEW T, NEW s \in Seq(T), NEW x \in T, NEW S
  PROVE  Picked(Append(s, x), S) = IF x \in S THEN Append(Picked(s, S), x) ELSE Picked(s, S)
<1> DEFINE u == Append(s, x)
<1>0. Len(s) \in Nat /\ u \in Seq(T) /\ Len(u) = Len(s) + 1 /\ u[Len(s) + 1] = x
  BY AppendProperties, LenProperties
<1>1. PICK f : Picking(f, u, S) /\ Picked(u, S) = f[Len(u)]
  BY <1>0, PickedIs
<1>2. PICK g : Picking(g, s, S) /\ Picked(s, S) = g[Len(s)]
  BY PickedIs
<1>3. \A n \in 0..Len(s) : f[n] = g[n]
  BY <1>1, <1>2, PickingUnique
<1> HIDE DEF u
<1>4. f[Len(s)] = g[Len(s)]
  <2>1. Len(s) \in 0..Len(s)
    BY <1>0
  <2>2. QED BY <1>3, <2>1
<1>5. \A n \in 0..Len(u) :
        f[n] = IF n = 0 THEN <<>> ELSE IF u[n] \in S THEN Append(f[n - 1], u[n]) ELSE f[n - 1]
  BY <1>1 DEF Picking
<1>6. PICK m \in 0..Len(u) : m = Len(s) + 1
  BY <1>0
<1>7. m # 0 /\ m - 1 = Len(s)
  BY <1>0, <1>6
<1>8. f[m] = IF u[m] \in S THEN Append(f[m - 1], u[m]) ELSE f[m - 1]
  BY <1>5, <1>7
<1>9. QED BY <1>0, <1>1, <1>2, <1>4, <1>6, <1>7, <1>8 DEF u

LEMMA AppendJoin ==
  ASSUME NEW T, NEW s \in Seq(T), NEW t \in Seq(T), NEW x \in T
  PROVE  /\ s \o Append(t, x) = Append(s \o t, x)
         /\ s \o t \in Seq(T) /\ s \o <<>> = s /\ <<>> \o s = s
<1>1. Append(t, x) = t \o <<x>> /\ <<x>> \in Seq(T)
  BY AppendIsConcat
<1>2. s \o t \in Seq(T) /\ s \o <<>> = s /\ <<>> \o s = s
  BY ConcatProperties, ConcatEmptySeq
<1>3. s \o (t \o <<x>>) = (s \o t) \o <<x>>
  <2>1. Thrice(s, t, <<x>>)
    BY <1>1, JoinThrice
  <2>2. QED BY <2>1 DEF Thrice
<1>4. Append(s \o t, x) = (s \o t) \o <<x>>
  BY <1>2, AppendIsConcat
<1>5. QED BY <1>1, <1>2, <1>3, <1>4

LEMMA PickedConcat ==
  ASSUME NEW T, NEW s \in Seq(T), NEW S
  PROVE  \A t \in Seq(T) : Picked(s \o t, S) = Picked(s, S) \o Picked(t, S)
<1> DEFINE P == {t \in Seq(T) : Picked(s \o t, S) = Picked(s, S) \o Picked(t, S)}
<1>0. \A t \in Seq(T) : Picked(t, S) \in Seq(T)
  BY PickedFacts
<1>1. <<>> \in P
  <2>1. s \o <<>> = s /\ Picked(s, S) \o <<>> = Picked(s, S) /\ <<>> \in Seq(T)
    BY <1>0, ConcatEmptySeq
  <2>2. QED BY <2>1, PickedEmpty
<1>2. ASSUME NEW t \in Seq(T), NEW x \in T, t \in P PROVE Append(t, x) \in P
  <2>1. s \o Append(t, x) = Append(s \o t, x) /\ s \o t \in Seq(T)
    BY AppendJoin
  <2>2. Picked(s, S) \o Append(Picked(t, S), x) = Append(Picked(s, S) \o Picked(t, S), x)
    BY <1>0, AppendJoin
  <2>3. Picked(Append(s \o t, x), S) =
          IF x \in S THEN Append(Picked(s \o t, S), x) ELSE Picked(s \o t, S)
    BY <2>1, PickedStep
  <2>4. Picked(Append(t, x), S) = IF x \in S THEN Append(Picked(t, S), x) ELSE Picked(t, S)
    BY PickedStep
  <2>5. Append(t, x) \in Seq(T)
    BY AppendProperties
  <2>6. QED BY <1>2, <2>1, <2>2, <2>3, <2>4, <2>5
<1> HIDE DEF P
<1>3. Seq(T) \subseteq P
  BY <1>1, <1>2, SeqInduction
<1>4. QED BY <1>3 DEF P

LEMMA PickedSame ==
  ASSUME NEW T, NEW S, NEW R, \A x \in T : x \in S <=> x \in R
  PROVE  \A s \in Seq(T) : Picked(s, S) = Picked(s, R)
<1> DEFINE P == {s \in Seq(T) : Picked(s, S) = Picked(s, R)}
<1>1. <<>> \in P
  BY PickedEmpty
<1>2. ASSUME NEW s \in Seq(T), NEW x \in T, s \in P PROVE Append(s, x) \in P
  <2>1. Append(s, x) \in Seq(T)
    BY AppendProperties
  <2>2. Picked(Append(s, x), S) = IF x \in S THEN Append(Picked(s, S), x) ELSE Picked(s, S)
    BY PickedStep
  <2>3. Picked(Append(s, x), R) = IF x \in R THEN Append(Picked(s, R), x) ELSE Picked(s, R)
    BY PickedStep
  <2>4. QED BY <1>2, <2>1, <2>2, <2>3
<1> HIDE DEF P
<1>3. Seq(T) \subseteq P
  BY <1>1, <1>2, SeqInduction
<1>4. QED BY <1>3 DEF P

LEMMA InToSet ==
  ASSUME NEW T, NEW s \in Seq(T)
  PROVE  s \in Seq(ToSet(s)) /\ \A x : x \in ToSet(s) <=> \E i \in DOMAIN s : x = s[i]
<1>1. Len(s) \in Nat /\ s = [i \in 1..Len(s) |-> s[i]] /\ DOMAIN s = 1..Len(s)
  BY LenProperties
<1>2. \A i \in 1..Len(s) : s[i] \in ToSet(s)
  BY <1>1 DEF ToSet
<1>3. s \in Seq(ToSet(s))
  <2>1. s \in [1..Len(s) -> ToSet(s)]
    BY <1>1, <1>2
  <2>2. QED BY <1>1, <2>1
<1>4. QED BY <1>3 DEF ToSet

(* All are picked, or none. *)
LEMMA PickedWhole ==
  ASSUME NEW T, NEW s \in Seq(T), NEW S
  PROVE  /\ (\A i \in DOMAIN s : s[i] \in S) => Picked(s, S) = s
         /\ (\A i \in DOMAIN s : s[i] \notin S) => Picked(s, S) = <<>>
<1> DEFINE P == {t \in Seq(T) : /\ (\A i \in DOMAIN t : t[i] \in S) => Picked(t, S) = t
                                /\ (\A i \in DOMAIN t : t[i] \notin S) => Picked(t, S) = <<>>}
<1>1. <<>> \in P
  BY PickedEmpty
<1>2. ASSUME NEW t \in Seq(T), NEW x \in T, t \in P PROVE Append(t, x) \in P
  <2> DEFINE u == Append(t, x)
  <2>1. /\ u \in Seq(T) /\ DOMAIN u = 1..(Len(t) + 1) /\ Len(t) \in Nat /\ DOMAIN t = 1..Len(t)
        /\ u[Len(t) + 1] = x /\ \A i \in 1..Len(t) : u[i] = t[i]
    BY AppendProperties, LenProperties
  <2>2. Picked(u, S) = IF x \in S THEN Append(Picked(t, S), x) ELSE Picked(t, S)
    BY PickedStep
  <2> HIDE DEF u
  <2>3. (\A i \in DOMAIN u : u[i] \in S) => x \in S /\ \A i \in DOMAIN t : t[i] \in S
    BY <2>1
  <2>4. (\A i \in DOMAIN u : u[i] \notin S) => x \notin S /\ \A i \in DOMAIN t : t[i] \notin S
    BY <2>1
  <2>5. (\A i \in DOMAIN u : u[i] \in S) => Picked(u, S) = u
    BY <1>2, <2>2, <2>3 DEF u
  <2>6. (\A i \in DOMAIN u : u[i] \notin S) => Picked(u, S) = <<>>
    BY <1>2, <2>2, <2>4
  <2>7. QED BY <2>1, <2>5, <2>6 DEF u
<1> HIDE DEF P
<1>3. Seq(T) \subseteq P
  BY <1>1, <1>2, SeqInduction
<1>4. s \in P
  BY <1>3
<1>5. QED BY <1>4 DEF P

(* The only one is picked. *)
LEMMA PickedOne ==
  ASSUME NEW T, NEW s \in Seq(T), NEW S, NEW i \in DOMAIN s, s[i] \in S,
         \A k \in DOMAIN s : s[k] \in S => k = i
  PROVE  Picked(s, S) = <<s[i]>>
<1> DEFINE t == Picked(s, S)
<1>1. t \in Seq(T) /\ \E g : From(g, t, s, Len(s), S)
  BY PickedFrom
<1> HIDE DEF t
<1>2. PICK g : From(g, t, s, Len(s), S)
  BY <1>1
<1>3. /\ Len(t) \in Nat /\ DOMAIN s = 1..Len(s)
      /\ \A j \in 1..Len(t) : g[j] \in 1..Len(s) /\ t[j] = s[g[j]] /\ t[j] \in S
      /\ \A j, k \in 1..Len(t) : j < k => g[j] < g[k]
      /\ \E j \in 1..Len(t) : g[j] = i
  <2>1. Len(t) \in Nat /\ DOMAIN s = 1..Len(s)
    BY <1>1, LenProperties
  <2>2. g \in [1..Len(t) -> 1..Len(s)] /\ \A j \in 1..Len(t) : t[j] = s[g[j]] /\ t[j] \in S
    BY <1>2 DEF From
  <2>3. /\ \A j, k \in 1..Len(t) : j < k => g[j] < g[k]
        /\ \A k \in 1..Len(s) : s[k] \in S => \E j \in 1..Len(t) : g[j] = k
    BY <1>2 DEF From
  <2>4. QED BY <2>1, <2>2, <2>3
<1>4. \A j \in 1..Len(t) : g[j] = i
  BY <1>3
<1>5. Len(t) = 1
  <2>1. i \in Nat
    BY <1>3, LenProperties
  <2>2. ~ (Len(t) >= 2)
    <3>1. SUFFICES ASSUME Len(t) >= 2 PROVE FALSE
      OBVIOUS
    <3>2. 1 \in 1..Len(t) /\ 2 \in 1..Len(t) /\ 1 < 2
      BY <1>3, <3>1
    <3>3. g[1] < g[2] /\ g[1] = i /\ g[2] = i
      BY <1>3, <1>4, <3>2
    <3>4. QED BY <2>1, <3>3
  <2>3. Len(t) # 0 /\ Len(t) \in Nat
    BY <1>3
  <2>4. PICK n \in Nat : n = Len(t)
    BY <2>3
  <2>5. n # 0 /\ ~ (n >= 2) => n = 1
    OBVIOUS
  <2>6. QED BY <2>2, <2>3, <2>4, <2>5
<1>6. t[1] = s[i]
  BY <1>3, <1>4, <1>5
<1>7. t = <<s[i]>>
  <2>1. t = [k \in 1..1 |-> t[k]]
    BY <1>1, <1>5, LenProperties
  <2>2. QED BY <1>6, <2>1
<1>8. QED BY <1>7 DEF t

LEMMA FlattenAppend ==
  ASSUME NEW T, NEW p \in Seq(Seq(T)), NEW x \in Seq(T)
  PROVE  FlattenSeq(Append(p, x)) = FlattenSeq(p) \o x /\ FlattenSeq(p) \in Seq(T)
<1> DEFINE n == Len(p)
           q == Append(p, x)
<1>1. /\ n \in Nat /\ q \in Seq(Seq(T)) /\ Len(q) = n + 1 /\ q[n + 1] = x
      /\ \A i \in 1..n : q[i] = p[i]
  BY AppendProperties, LenProperties
<1>2. p \in [1..n -> Seq(T)] /\ q \in [1..(n + 1) -> Seq(T)]
  BY <1>1, LenProperties
<1> HIDE DEF n, q
<1>3. FlattenSeq(q) = FlattenSeq(p) \o q[n + 1] /\ FlattenSeq(p) \in Seq(T)
  BY <1>1, <1>2, FlattenGrown
<1>4. QED BY <1>1, <1>3 DEF q

(* A function applied to every element of a sequence, and the sequences it *)
(* gives put together.                                                     *)
Mapped(f, s) == [i \in DOMAIN s |-> f[s[i]]]
Told(f, s) == FlattenSeq(Mapped(f, s))

Maps(f, T, V) == f \in [T -> V]
Tells(f, T, V) == f \in [T -> Seq(V)]

LEMMA FunctionIsSeq ==
  ASSUME NEW V, NEW n \in Nat, NEW r \in [1..n -> V]
  PROVE  r \in Seq(V) /\ Len(r) = n
OBVIOUS

LEMMA MappedFacts ==
  ASSUME NEW T, NEW V, NEW f, Maps(f, T, V), NEW s \in Seq(T), NEW x \in T
  PROVE  /\ Mapped(f, s) \in Seq(V) /\ Len(Mapped(f, s)) = Len(s)
         /\ Mapped(f, Append(s, x)) = Append(Mapped(f, s), f[x])
<1> DEFINE n == Len(s)
           u == Append(s, x)
           r == Mapped(f, s)
<1>0. f \in [T -> V]
  BY DEF Maps
<1>1. /\ n \in Nat /\ s = [i \in 1..n |-> s[i]] /\ \A i \in 1..n : s[i] \in T
      /\ DOMAIN s = 1..n /\ u \in Seq(T) /\ DOMAIN u = 1..(n + 1) /\ u[n + 1] = x
      /\ \A i \in 1..n : u[i] = s[i]
  BY AppendProperties, LenProperties, ElementOfSeq
<1> HIDE DEF n, u
<1>2. r = [i \in 1..n |-> f[s[i]]]
  BY <1>1 DEF Mapped
<1>3. r \in [1..n -> V]
  BY <1>0, <1>1, <1>2
<1>4. r \in Seq(V) /\ Len(r) = n
  <2> HIDE DEF r
  <2>1. QED BY <1>1, <1>3, FunctionIsSeq
<1>5. f[x] \in V
  BY <1>0
<1> DEFINE a == Append(r, f[x])
           b == Mapped(f, u)
<1>6. b = [i \in 1..(n + 1) |-> f[u[i]]]
  BY <1>1 DEF Mapped
<1> HIDE DEF r
<1>7. /\ a = [i \in 1..(n + 1) |-> a[i]]
      /\ a[n + 1] = f[x] /\ \A i \in 1..n : a[i] = r[i]
  <2>1. a \in Seq(V) /\ Len(a) = n + 1
    BY <1>4, <1>5, AppendProperties
  <2>2. a = [i \in 1..(n + 1) |-> a[i]]
    BY <2>1, LenProperties
  <2>3. QED BY <1>4, <1>5, <2>2, AppendProperties
<1> HIDE DEF a, b
<1>8. \A i \in 1..(n + 1) : f[u[i]] = a[i]
  <2>1. \A i \in 1..(n + 1) : i = n + 1 \/ i \in 1..n
    BY <1>1
  <2>2. \A i \in 1..n : r[i] = f[s[i]]
    BY <1>2
  <2>3. QED BY <1>1, <1>7, <2>1, <2>2
<1>9. a = b
  BY <1>6, <1>7, <1>8
<1>10. QED BY <1>4, <1>9 DEF a, b, n, r, u

LEMMA ToldFacts ==
  ASSUME NEW T, NEW V, NEW f, Tells(f, T, V)
  PROVE  /\ Told(f, <<>>) = <<>>
         /\ \A s \in Seq(T), x \in T : Told(f, Append(s, x)) = Told(f, s) \o f[x]
         /\ \A s \in Seq(T) : Told(f, s) \in Seq(V)
<1>1. Told(f, <<>>) = <<>>
  <2>1. Mapped(f, <<>>) = <<>>
    BY DEF Mapped
  <2>2. <<>> \in [1..0 -> Seq(V)]
    OBVIOUS
  <2>3. QED BY <2>1, <2>2, FlattenEmpty DEF Told
<1>2. ASSUME NEW s \in Seq(T), NEW x \in T
      PROVE  Told(f, Append(s, x)) = Told(f, s) \o f[x] /\ Told(f, s) \in Seq(V)
  <2> DEFINE p == Mapped(f, s)
  <2>1. p \in Seq(Seq(V)) /\ Mapped(f, Append(s, x)) = Append(p, f[x]) /\ f[x] \in Seq(V)
    <3> DEFINE W == Seq(V)
    <3>1. Maps(f, T, W) /\ f[x] \in W
      BY DEF Maps, Tells
    <3> HIDE DEF W
    <3>2. p \in Seq(W) /\ Mapped(f, Append(s, x)) = Append(p, f[x]) /\ f[x] \in W
      BY <3>1, MappedFacts
    <3>3. QED BY <3>2 DEF W
  <2> HIDE DEF p
  <2>2. FlattenSeq(Append(p, f[x])) = FlattenSeq(p) \o f[x] /\ FlattenSeq(p) \in Seq(V)
    BY <2>1, FlattenAppend
  <2>3. QED BY <2>1, <2>2 DEF Told, p
<1>3. ASSUME NEW s \in Seq(T) PROVE Told(f, s) \in Seq(V)
  <2>1. CASE s = <<>>
    <3>1. <<>> \in Seq(V)
      OBVIOUS
    <3>2. QED BY <1>1, <2>1, <3>1
  <2>2. CASE s # <<>>
    <3>1. PICK t \in Seq(T), x \in T : s = Append(t, x)
      BY <2>2, SequenceEmptyOrAppend
    <3>2. QED BY <1>2, <3>1
  <2>3. QED BY <2>1, <2>2
<1>4. QED BY <1>1, <1>2, <1>3

LEMMA ToldConcat ==
  ASSUME NEW T, NEW V, NEW f, Tells(f, T, V), NEW s \in Seq(T)
  PROVE  \A t \in Seq(T) : Told(f, s \o t) = Told(f, s) \o Told(f, t)
<1> DEFINE P == {t \in Seq(T) : Told(f, s \o t) = Told(f, s) \o Told(f, t)}
<1>0. /\ Told(f, <<>>) = <<>>
      /\ \A r \in Seq(T), x \in T : Told(f, Append(r, x)) = Told(f, r) \o f[x]
      /\ \A r \in Seq(T) : Told(f, r) \in Seq(V)
  BY ToldFacts
<1>1. <<>> \in P
  <2>1. s \o <<>> = s /\ Told(f, s) \o <<>> = Told(f, s) /\ <<>> \in Seq(T)
    BY <1>0, ConcatEmptySeq
  <2>2. QED BY <1>0, <2>1
<1>2. ASSUME NEW t \in Seq(T), NEW x \in T, t \in P PROVE Append(t, x) \in P
  <2>1. s \o Append(t, x) = Append(s \o t, x) /\ s \o t \in Seq(T) /\ Append(t, x) \in Seq(T)
    BY AppendJoin, AppendProperties
  <2>2. Told(f, Append(s \o t, x)) = Told(f, s \o t) \o f[x]
    BY <1>0, <2>1
  <2>3. Told(f, s \o t) = Told(f, s) \o Told(f, t)
    BY <1>2
  <2>4. (Told(f, s) \o Told(f, t)) \o f[x] = Told(f, s) \o (Told(f, t) \o f[x])
    <3>1. Told(f, s) \in Seq(V) /\ Told(f, t) \in Seq(V) /\ f[x] \in Seq(V)
      BY <1>0 DEF Tells
    <3>2. \A a, b, c \in Seq(V) : Thrice(a, b, c)
      BY JoinThrice
    <3>3. QED BY <3>1, <3>2 DEF Thrice
  <2>5. Told(f, Append(t, x)) = Told(f, t) \o f[x]
    BY <1>0
  <2>6. QED BY <2>1, <2>2, <2>3, <2>4, <2>5
<1> HIDE DEF P
<1>3. Seq(T) \subseteq P
  BY <1>1, <1>2, SeqInduction
<1>4. QED BY <1>3 DEF P

LEMMA SingleAppend ==
  ASSUME NEW T, NEW x \in T
  PROVE  <<x>> \in Seq(T) /\ <<x>> = Append(<<>>, x) /\ <<>> \in Seq(T)
OBVIOUS

LEMMA ToldSingle ==
  ASSUME NEW T, NEW V, NEW f, Tells(f, T, V), NEW x \in T
  PROVE  Told(f, <<x>>) = f[x]
<1>1. <<x>> = Append(<<>>, x) /\ <<>> \in Seq(T)
  BY SingleAppend
<1>2. Told(f, <<x>>) = Told(f, <<>>) \o f[x] /\ Told(f, <<>>) = <<>>
  <2>1. /\ Told(f, <<>>) = <<>>
        /\ \A s \in Seq(T), y \in T : Told(f, Append(s, y)) = Told(f, s) \o f[y]
    BY ToldFacts
  <2>2. Told(f, Append(<<>>, x)) = Told(f, <<>>) \o f[x]
    BY <1>1, <2>1
  <2>3. QED BY <1>1, <2>1, <2>2
<1>3. f[x] \in Seq(V)
  BY DEF Tells
<1>4. <<>> \o f[x] = f[x]
  BY <1>3, ConcatEmptySeq
<1>5. QED BY <1>2, <1>4

(* One after the other. *)
LEMMA ToldTwice ==
  ASSUME NEW T, NEW V, NEW W, NEW f, Tells(f, T, V), NEW g, Tells(g, V, W),
         NEW h, Tells(h, T, W), \A x \in T : h[x] = Told(g, f[x])
  PROVE  \A s \in Seq(T) : Told(g, Told(f, s)) = Told(h, s)
<1> DEFINE P == {s \in Seq(T) : Told(g, Told(f, s)) = Told(h, s)}
<1>0. /\ \A s \in Seq(T), x \in T : Told(f, Append(s, x)) = Told(f, s) \o f[x]
      /\ \A s \in Seq(T), x \in T : Told(h, Append(s, x)) = Told(h, s) \o h[x]
      /\ \A s \in Seq(T) : Told(f, s) \in Seq(V)
  <2>1. \A s \in Seq(T), x \in T : Told(f, Append(s, x)) = Told(f, s) \o f[x]
    BY ToldFacts
  <2>2. \A s \in Seq(T), x \in T : Told(h, Append(s, x)) = Told(h, s) \o h[x]
    BY ToldFacts
  <2>3. \A s \in Seq(T) : Told(f, s) \in Seq(V)
    BY ToldFacts
  <2>4. QED BY <2>1, <2>2, <2>3
<1>1. <<>> \in P
  <2>1. Told(f, <<>>) = <<>> /\ Told(g, <<>>) = <<>> /\ Told(h, <<>>) = <<>>
    BY ToldFacts
  <2>2. QED BY <2>1
<1>2. ASSUME NEW s \in Seq(T), NEW x \in T, s \in P PROVE Append(s, x) \in P
  <2>1. Told(f, Append(s, x)) = Told(f, s) \o f[x] /\ Told(h, Append(s, x)) = Told(h, s) \o h[x]
    BY <1>0
  <2>2. Told(f, s) \in Seq(V) /\ f[x] \in Seq(V)
    BY <1>0 DEF Tells
  <2>3. Told(g, Told(f, s) \o f[x]) = Told(g, Told(f, s)) \o Told(g, f[x])
    <3>1. \A a, b \in Seq(V) : Told(g, a \o b) = Told(g, a) \o Told(g, b)
      BY ToldConcat
    <3>2. QED BY <2>2, <3>1
  <2>4. Append(s, x) \in Seq(T)
    BY AppendProperties
  <2>5. QED BY <1>2, <2>1, <2>3, <2>4
<1> HIDE DEF P
<1>3. Seq(T) \subseteq P
  BY <1>1, <1>2, SeqInduction
<1>4. QED BY <1>3 DEF P

(* Where the pieces are told, they are in order. *)
LEMMA ToldOrder ==
  ASSUME NEW T, NEW V, NEW f, Tells(f, T, V)
  PROVE  \A s \in Seq(T) :
           /\ \A i \in DOMAIN s : \A x \in DOMAIN f[s[i]] :
                \E z \in DOMAIN Told(f, s) : Told(f, s)[z] = f[s[i]][x]
           /\ \A i, j \in DOMAIN s : i < j =>
                \A x \in DOMAIN f[s[i]] : \A y \in DOMAIN f[s[j]] :
                  \E z, w \in DOMAIN Told(f, s) :
                    z < w /\ Told(f, s)[z] = f[s[i]][x] /\ Told(f, s)[w] = f[s[j]][y]
<1> DEFINE There(s) == \A i \in DOMAIN s : \A x \in DOMAIN f[s[i]] :
                         \E z \in DOMAIN Told(f, s) : Told(f, s)[z] = f[s[i]][x]
           Ordered(s) == \A i, j \in DOMAIN s : i < j =>
                \A x \in DOMAIN f[s[i]] : \A y \in DOMAIN f[s[j]] :
                  \E z, w \in DOMAIN Told(f, s) :
                    z < w /\ Told(f, s)[z] = f[s[i]][x] /\ Told(f, s)[w] = f[s[j]][y]
           P == {s \in Seq(T) : There(s) /\ Ordered(s)}
<1>1. <<>> \in P
  OBVIOUS
<1>2. ASSUME NEW s \in Seq(T), NEW e \in T, s \in P PROVE Append(s, e) \in P
  <2> DEFINE u == Append(s, e)
             n == Len(s)
             a == Told(f, s)
             b == f[e]
             c == Told(f, u)
  <2>1. /\ u \in Seq(T) /\ n \in Nat /\ DOMAIN u = 1..(n + 1) /\ DOMAIN s = 1..n
        /\ u[n + 1] = e /\ \A i \in 1..n : u[i] = s[i]
    BY AppendProperties, LenProperties
  <2>2. c = a \o b /\ a \in Seq(V) /\ b \in Seq(V)
    <3>1. /\ \A r \in Seq(T), x \in T : Told(f, Append(r, x)) = Told(f, r) \o f[x]
          /\ \A r \in Seq(T) : Told(f, r) \in Seq(V)
      BY ToldFacts
    <3>2. QED BY <3>1 DEF Tells
  <2> HIDE DEF u, n, a, b, c
  <2>3. /\ Len(a) \in Nat /\ Len(b) \in Nat /\ DOMAIN a = 1..Len(a) /\ DOMAIN b = 1..Len(b)
        /\ DOMAIN c = 1..(Len(a) + Len(b))
        /\ \A k \in 1..Len(a) : c[k] = a[k]
        /\ \A k \in 1..Len(b) : c[Len(a) + k] = b[k]
    BY <2>2, JoinFacts
  <2>4. \A k \in DOMAIN a : k \in DOMAIN c /\ c[k] = a[k] /\ k <= Len(a)
    BY <2>3
  <2>5. \A k \in DOMAIN b : /\ Len(a) + k \in DOMAIN c /\ c[Len(a) + k] = b[k]
                            /\ Len(a) + k > Len(a) /\ Len(a) + k \in Nat
    BY <2>3
  <2>6. \A i \in DOMAIN u : i = n + 1 \/ i \in DOMAIN s
    BY <2>1
  <2>7. /\ \A i \in DOMAIN s : \A x \in DOMAIN f[s[i]] : \E z \in DOMAIN a : a[z] = f[s[i]][x]
        /\ \A i, j \in DOMAIN s : i < j =>
             \A x \in DOMAIN f[s[i]] : \A y \in DOMAIN f[s[j]] :
               \E z, w \in DOMAIN a : z < w /\ a[z] = f[s[i]][x] /\ a[w] = f[s[j]][y]
    BY <1>2 DEF a
  <2>8. ASSUME NEW i \in DOMAIN u, NEW x \in DOMAIN f[u[i]]
        PROVE  \E z \in DOMAIN c : c[z] = f[u[i]][x]
    <3>1. CASE i = n + 1
      <4>1. f[u[i]] = b
        BY <2>1, <3>1 DEF b
      <4>2. QED BY <2>5, <4>1
    <3>2. CASE i \in DOMAIN s
      <4>1. u[i] = s[i]
        BY <2>1, <3>2
      <4>2. QED BY <2>4, <2>7, <3>2, <4>1
    <3>3. QED BY <2>6, <3>1, <3>2
  <2>9. ASSUME NEW i \in DOMAIN u, NEW j \in DOMAIN u, i < j,
               NEW x \in DOMAIN f[u[i]], NEW y \in DOMAIN f[u[j]]
        PROVE  \E z, w \in DOMAIN c : z < w /\ c[z] = f[u[i]][x] /\ c[w] = f[u[j]][y]
    <3>1. i \in DOMAIN s /\ u[i] = s[i]
      BY <2>1, <2>9
    <3>2. CASE j = n + 1
      <4>1. f[u[j]] = b
        BY <2>1, <3>2 DEF b
      <4>2. PICK z \in DOMAIN a : a[z] = f[u[i]][x]
        BY <2>7, <3>1
      <4>3. z \in DOMAIN c /\ c[z] = f[u[i]][x] /\ z <= Len(a) /\ z \in Nat
        BY <2>3, <2>4, <4>2
      <4>4. /\ Len(a) + y \in DOMAIN c /\ c[Len(a) + y] = f[u[j]][y]
            /\ Len(a) + y > Len(a) /\ Len(a) + y \in Nat
        BY <2>5, <4>1
      <4>5. z < Len(a) + y
        BY <2>3, <4>3, <4>4
      <4>6. QED BY <4>3, <4>4, <4>5
    <3>3. CASE j \in DOMAIN s
      <4>1. u[j] = s[j]
        BY <2>1, <3>3
      <4>2. PICK z, w \in DOMAIN a : z < w /\ a[z] = f[u[i]][x] /\ a[w] = f[u[j]][y]
        BY <2>7, <2>9, <3>1, <3>3, <4>1
      <4>3. QED BY <2>4, <4>2
    <3>4. QED BY <2>6, <3>2, <3>3
  <2>10. There(u) /\ Ordered(u)
    BY <2>8, <2>9 DEF c
  <2>11. QED BY <2>1, <2>10 DEF u
<1> HIDE DEF P
<1>3. Seq(T) \subseteq P
  BY <1>1, <1>2, SeqInduction
<1>4. QED BY <1>3 DEF P

LEMMA ToldSame ==
  ASSUME NEW T, NEW s \in Seq(T), NEW f, NEW g, \A x \in T : f[x] = g[x]
  PROVE  Told(f, s) = Told(g, s)
<1>1. \A i \in DOMAIN s : s[i] \in T
  BY SeqFacts
<1>2. Mapped(f, s) = Mapped(g, s)
  BY <1>1 DEF Mapped
<1>3. QED BY <1>2 DEF Told

(* What is not picked was not told.                                        *)
LEMMA ToldPicked ==
  ASSUME NEW T, NEW V, NEW f, Tells(f, T, V), NEW R, \A x \in T : x \notin R => f[x] = <<>>
  PROVE  \A s \in Seq(T) : Told(f, Picked(s, R)) = Told(f, s)
<1> DEFINE P == {s \in Seq(T) : Told(f, Picked(s, R)) = Told(f, s)}
<1>0. /\ Told(f, <<>>) = <<>>
      /\ \A s \in Seq(T), x \in T : Told(f, Append(s, x)) = Told(f, s) \o f[x]
      /\ \A s \in Seq(T) : Told(f, s) \in Seq(V)
  BY ToldFacts
<1>1. <<>> \in P
  BY PickedEmpty
<1>2. ASSUME NEW s \in Seq(T), NEW x \in T, s \in P PROVE Append(s, x) \in P
  <2>1. Picked(Append(s, x), R) = IF x \in R THEN Append(Picked(s, R), x) ELSE Picked(s, R)
    BY PickedStep
  <2>2. Picked(s, R) \in Seq(T) /\ Append(s, x) \in Seq(T)
    BY PickedFacts, AppendProperties
  <2>3. Told(f, Append(Picked(s, R), x)) = Told(f, s) \o f[x]
    BY <1>0, <1>2, <2>2
  <2>4. Told(f, Append(s, x)) = Told(f, s) \o f[x]
    BY <1>0
  <2>5. CASE x \in R
    BY <2>1, <2>2, <2>3, <2>4, <2>5
  <2>6. CASE x \notin R
    <3>1. Told(f, s) \o <<>> = Told(f, s)
      BY <1>0, ConcatEmptySeq
    <3>2. Told(f, Picked(s, R)) = Told(f, s) /\ f[x] = <<>>
      BY <1>2, <2>6
    <3>3. QED BY <2>1, <2>2, <2>4, <2>6, <3>1, <3>2
  <2>7. QED BY <2>5, <2>6
<1> HIDE DEF P
<1>3. Seq(T) \subseteq P
  BY <1>1, <1>2, SeqInduction
<1>4. QED BY <1>3 DEF P

(* All that is told is told of some element.                               *)
LEMMA ToldMembers ==
  ASSUME NEW T, NEW V, NEW f, Tells(f, T, V), NEW s \in Seq(T)
  PROVE  \A i \in DOMAIN Told(f, s) :
           \E k \in DOMAIN s : \E j \in DOMAIN f[s[k]] : Told(f, s)[i] = f[s[k]][j]
<1> DEFINE FromOne(t) == \A i \in DOMAIN Told(f, t) :
             \E k \in DOMAIN t : \E j \in DOMAIN f[t[k]] : Told(f, t)[i] = f[t[k]][j]
           P == {t \in Seq(T) : FromOne(t)}
<1>0. /\ Told(f, <<>>) = <<>>
      /\ \A t \in Seq(T), x \in T : Told(f, Append(t, x)) = Told(f, t) \o f[x]
      /\ \A t \in Seq(T) : Told(f, t) \in Seq(V)
  BY ToldFacts
<1>1. <<>> \in P
  BY <1>0
<1>2. ASSUME NEW t \in Seq(T), NEW x \in T, t \in P PROVE Append(t, x) \in P
  <2> DEFINE u == Append(t, x)
             a == Told(f, t)
             b == f[x]
             c == Told(f, u)
  <2>1. /\ u \in Seq(T) /\ DOMAIN u = 1..(Len(t) + 1) /\ Len(t) \in Nat /\ DOMAIN t = 1..Len(t)
        /\ u[Len(t) + 1] = x /\ \A i \in 1..Len(t) : u[i] = t[i]
    BY AppendProperties, LenProperties
  <2>2. c = a \o b /\ a \in Seq(V) /\ b \in Seq(V)
    BY <1>0 DEF Tells
  <2> HIDE DEF u, a, b, c
  <2>3. /\ Len(a) \in Nat /\ Len(b) \in Nat /\ DOMAIN a = 1..Len(a) /\ DOMAIN b = 1..Len(b)
        /\ DOMAIN c = 1..(Len(a) + Len(b))
        /\ \A k \in 1..Len(a) : c[k] = a[k]
        /\ \A k \in 1..Len(b) : c[Len(a) + k] = b[k]
    BY <2>2, JoinFacts
  <2>4. ASSUME NEW i \in DOMAIN c
        PROVE  \E k \in DOMAIN u : \E j \in DOMAIN f[u[k]] : c[i] = f[u[k]][j]
    <3>1. CASE i <= Len(a)
      <4>1. i \in DOMAIN a /\ c[i] = a[i]
        BY <2>3, <3>1
      <4>2. PICK k \in DOMAIN t : \E j \in DOMAIN f[t[k]] : a[i] = f[t[k]][j]
        BY <1>2, <4>1 DEF a
      <4>3. k \in DOMAIN u /\ u[k] = t[k]
        BY <2>1
      <4>4. QED BY <4>1, <4>2, <4>3
    <3>2. CASE ~ (i <= Len(a))
      <4>1. PICK j \in 1..Len(b) : i = Len(a) + j
        <5>1. i - Len(a) \in 1..Len(b) /\ i = Len(a) + (i - Len(a))
          BY <2>3, <3>2
        <5>2. QED BY <5>1
      <4>2. c[i] = b[j] /\ j \in DOMAIN b
        BY <2>3, <4>1
      <4>3. Len(t) + 1 \in DOMAIN u /\ f[u[Len(t) + 1]] = b
        BY <2>1 DEF b
      <4>4. QED BY <4>2, <4>3
    <3>3. QED BY <3>1, <3>2
  <2>5. FromOne(u)
    BY <2>4 DEF c
  <2>6. QED BY <2>1, <2>5 DEF u
<1> HIDE DEF P
<1>3. Seq(T) \subseteq P
  BY <1>1, <1>2, SeqInduction
<1>4. s \in P
  BY <1>3
<1>5. QED BY <1>4 DEF P

(* The sequence behind another.                                            *)
LEMMA SuffixIs ==
  ASSUME NEW T, NEW a \in Seq(T), NEW b \in Seq(T)
  PROVE  SubSeq(a \o b, Len(a) + 1, Len(a \o b)) = b
<1> DEFINE m == Len(a)
           n == Len(b)
           w == a \o b
           s == SubSeq(w, m + 1, Len(w))
<1>1. /\ w \in Seq(T) /\ m \in Nat /\ n \in Nat /\ DOMAIN w = 1..(m + n)
      /\ \A k \in 1..n : w[m + k] = b[k]
  BY JoinFacts
<1>2. Len(w) = m + n
  BY ConcatProperties
<1>3. b \in Seq(T) /\ b = [k \in 1..n |-> b[k]]
  BY LenProperties
<1> HIDE DEF m, n, w
<1>4. s = [k \in 1..n |-> w[k + m]]
  <2>1. \A p, q \in Nat : SubSeq(w, p, q) = [i \in 1..(1 + q - p) |-> w[i + p - 1]]
    BY <1>1
  <2>2. SubSeq(w, m + 1, m + n) = [i \in 1..(1 + (m + n) - (m + 1)) |-> w[i + (m + 1) - 1]]
    BY <1>1, <2>1
  <2>3. 1 + (m + n) - (m + 1) = n
    BY <1>1
  <2>4. \A i \in 1..n : i + (m + 1) - 1 = i + m
    BY <1>1
  <2>5. QED BY <1>2, <2>2, <2>3, <2>4
<1>5. \A k \in 1..n : w[k + m] = b[k]
  <2>1. \A k \in 1..n : k + m = m + k
    BY <1>1
  <2>2. QED BY <1>1, <2>1
<1>6. s = b
  BY <1>3, <1>4, <1>5
<1>7. QED BY <1>6 DEF s, w, m

------------------------------------------------------------------------------
(* The types of the conversation.  An output is alone in its message.      *)

Roles == {"system", "user", "assistant", "tool"}
Quiet(items) == \A k \in DOMAIN items : items[k].kind # "output"
Msg == {m \in [role : Roles, items : Seq(Items)] :
          Quiet(m.items) \/ (m.role = "tool" /\ Len(m.items) = 1)}
Talk == {m \in Msg : m.role # "tool"}
Kind(kind) == {x \in Items : x.kind = kind}

LEMMA MessagesAre == Seq(Msg) \subseteq Messages /\ Seq(Talk) \subseteq Seq(Msg)
<1> DEFINE M == [role : Roles, items : Seq(Items)]
<1>1. Messages = Seq(M)
  BY DEF Messages, Roles
<1>2. Talk \subseteq Msg /\ Msg \subseteq M
  BY DEF Talk, Msg
<1> HIDE DEF M
<1>3. Seq(Msg) \subseteq Seq(M)
  BY <1>2
<1>4. Seq(Talk) \subseteq Seq(Msg)
  BY <1>2
<1>5. QED BY <1>1, <1>3, <1>4

LEMMA MessageIs ==
  ASSUME NEW r \in Roles, NEW s \in Seq(Items), Quiet(s) \/ (r = "tool" /\ Len(s) = 1)
  PROVE  /\ Message(r, s) \in Msg /\ Message(r, s).role = r /\ Message(r, s).items = s
         /\ r # "tool" => Message(r, s) \in Talk
BY DEF Message, Msg, Talk

LEMMA OfKindIs ==
  ASSUME NEW items \in Seq(Items), NEW kind
  PROVE  OfKind(items, kind) = Picked(items, Kind(kind))
<1> DEFINE T == ToSet(items)
           S == {x \in T : x.kind = kind}
<1>1. items \in Seq(T) /\ \A x \in T : x \in Items
  BY InToSet, SeqFacts
<1>2. \A x \in T : x \in S <=> x \in Kind(kind)
  BY <1>1 DEF Kind
<1>3. OfKind(items, kind) = Picked(items, S)
  BY DEF OfKind
<1> HIDE DEF T, S
<1>4. QED BY <1>1, <1>2, <1>3, PickedSame

LEMMA OfKindFacts ==
  ASSUME NEW items \in Seq(Items), NEW kind
  PROVE  /\ OfKind(items, kind) \in Seq(Items)
         /\ \A i \in DOMAIN OfKind(items, kind) :
              /\ OfKind(items, kind)[i].kind = kind
              /\ \E k \in DOMAIN items : items[k] = OfKind(items, kind)[i]
         /\ \A k \in DOMAIN items : items[k].kind = kind =>
              \E i \in DOMAIN OfKind(items, kind) : OfKind(items, kind)[i] = items[k]
<1> DEFINE t == OfKind(items, kind)
<1>1. t = Picked(items, Kind(kind))
  BY OfKindIs
<1> HIDE DEF t
<1>2. /\ t \in Seq(Items)
      /\ \A i \in DOMAIN t : t[i] \in Kind(kind) /\ \E k \in DOMAIN items : items[k] = t[i]
      /\ \A k \in DOMAIN items : items[k] \in Kind(kind) => \E i \in DOMAIN t : t[i] = items[k]
  BY <1>1, PickedFacts
<1>3. \A k \in DOMAIN items : items[k] \in Items
  BY SeqFacts
<1>4. QED BY <1>2, <1>3 DEF t, Kind

------------------------------------------------------------------------------
(* What the messages say.                                                  *)

Heard == [m \in Msg |-> IF m.role = "system" THEN <<>> ELSE m.items]

LEMMA HeardTells == Tells(Heard, Msg, Items)
<1>1. \A m \in Msg : m.items \in Seq(Items) /\ <<>> \in Seq(Items)
  BY DEF Msg
<1>2. QED BY <1>1 DEF Heard, Tells

LEMMA RestHeard ==
  ASSUME NEW messages \in Seq(Msg)
  PROVE  LET rest == Picked(messages, {m \in ToSet(messages) : m.role # "system"}) IN
         /\ Told(Heard, rest) = Told(Heard, messages)
         /\ rest \in Seq(Msg) /\ \A i \in DOMAIN rest : rest[i].role # "system"
<1> DEFINE T == ToSet(messages)
           S == {m \in T : m.role # "system"}
           R == {m \in Msg : m.role # "system"}
           rest == Picked(messages, S)
<1>1. messages \in Seq(T) /\ \A x \in T : x \in Msg
  BY InToSet, SeqFacts
<1>2. rest = Picked(messages, R)
  <2>1. \A x \in T : x \in S <=> x \in R
    BY <1>1
  <2> HIDE DEF S, R, T
  <2>2. QED BY <1>1, <2>1, PickedSame
<1>3. Told(Heard, Picked(messages, R)) = Told(Heard, messages)
  <2>1. \A m \in Msg : m \notin R => Heard[m] = <<>>
    BY DEF Heard
  <2> HIDE DEF R
  <2>2. QED BY <2>1, HeardTells, ToldPicked
<1>4. rest \in Seq(Msg) /\ \A i \in DOMAIN rest : rest[i] \in R
  BY <1>2, PickedFacts
<1> HIDE DEF rest
<1>5. QED BY <1>2, <1>3, <1>4 DEF rest

LEMMA SpokenIs == \A messages \in Seq(Msg) : Spoken(messages) = Told(Heard, messages)
<1> SUFFICES ASSUME NEW messages \in Seq(Msg) PROVE Spoken(messages) = Told(Heard, messages)
  OBVIOUS
<1> DEFINE rest == Picked(messages, {m \in ToSet(messages) : m.role # "system"})
<1>1. /\ Told(Heard, rest) = Told(Heard, messages)
      /\ rest \in Seq(Msg) /\ \A i \in DOMAIN rest : rest[i].role # "system"
  BY RestHeard
<1>2. Spoken(messages) = FlattenSeq([i \in DOMAIN rest |-> rest[i].items])
  BY DEF Spoken
<1> HIDE DEF rest
<1>3. \A i \in DOMAIN rest : rest[i].items = Heard[rest[i]]
  BY <1>1, SeqFacts DEF Heard
<1>4. [i \in DOMAIN rest |-> rest[i].items] = Mapped(Heard, rest)
  BY <1>3 DEF Mapped
<1>5. QED BY <1>1, <1>2, <1>4 DEF Told

LEMMA HeardJoin ==
  ASSUME NEW a \in Seq(Msg), NEW b \in Seq(Msg)
  PROVE  Told(Heard, a \o b) = Told(Heard, a) \o Told(Heard, b) /\ Told(Heard, a) \in Seq(Items)
<1>1. \A s \in Seq(Msg) : \A t \in Seq(Msg) : Told(Heard, s \o t) = Told(Heard, s) \o Told(Heard, t)
  BY HeardTells, ToldConcat, SMTT(20)
<1>2. \A s \in Seq(Msg) : Told(Heard, s) \in Seq(Items)
  BY HeardTells, ToldFacts
<1>3. QED BY <1>1, <1>2

LEMMA HeardAppend ==
  ASSUME NEW a \in Seq(Msg), NEW m \in Msg
  PROVE  /\ Told(Heard, Append(a, m)) = Told(Heard, a) \o Heard[m]
         /\ Told(Heard, a) \in Seq(Items) /\ Heard[m] \in Seq(Items)
         /\ Told(Heard, <<>>) = <<>> /\ Told(Heard, <<m>>) = Heard[m]
<1>1. /\ \A t \in Seq(Msg), x \in Msg : Told(Heard, Append(t, x)) = Told(Heard, t) \o Heard[x]
      /\ \A t \in Seq(Msg) : Told(Heard, t) \in Seq(Items)
      /\ Told(Heard, <<>>) = <<>>
  BY HeardTells, ToldFacts
<1>2. Heard[m] \in Seq(Items)
  BY HeardTells DEF Tells
<1>3. \A x \in Msg : Told(Heard, <<x>>) = Heard[x]
  BY HeardTells, ToldSingle
<1>4. QED BY <1>1, <1>2, <1>3

------------------------------------------------------------------------------
(* extract_request: no output becomes a message, and the outputs that are  *)
(* set aside are those of the request, in order.                           *)

Acc == [messages : Seq(Talk), calls : Seq(Kind("call")), outputs : Seq(Kind("output"))]

LEMMA KindSeq ==
  ASSUME NEW kind, NEW s \in Seq(Kind(kind))
  PROVE  /\ s \in Seq(Items) /\ \A k \in DOMAIN s : s[k].kind = kind /\ s[k] \in Kind(kind)
         /\ kind # "output" => Quiet(s)
<1>1. Kind(kind) \subseteq Items
  BY DEF Kind
<1>2. Seq(Kind(kind)) \subseteq Seq(Items)
  BY <1>1
<1>3. \A k \in DOMAIN s : s[k] \in Kind(kind)
  BY SeqFacts
<1>4. \A k \in DOMAIN s : s[k].kind = kind
  BY <1>3 DEF Kind
<1>5. QED BY <1>2, <1>3, <1>4 DEF Quiet

LEMMA FlushCallsIs ==
  ASSUME NEW acc \in Acc
  PROVE  /\ FlushCalls(acc) \in Acc
         /\ FlushCalls(acc).outputs = acc.outputs /\ FlushCalls(acc).calls = <<>>
         /\ acc.calls = <<>> => FlushCalls(acc) = acc
         /\ acc.calls # <<>> =>
              FlushCalls(acc).messages = Append(acc.messages, Message("assistant", acc.calls))
<1> DEFINE m == Message("assistant", acc.calls)
<1>1. /\ acc.calls \in Seq(Items) /\ Quiet(acc.calls) /\ acc.messages \in Seq(Talk)
      /\ acc.calls \in Seq(Kind("call")) /\ acc.outputs \in Seq(Kind("output"))
  BY KindSeq DEF Acc
<1>2. m \in Talk
  BY <1>1, MessageIs DEF Roles
<1> HIDE DEF m
<1>3. Append(acc.messages, m) \in Seq(Talk) /\ <<>> \in Seq(Kind("call"))
  BY <1>1, <1>2, AppendProperties
<1>4. FlushCalls(acc) = IF acc.calls = <<>> THEN acc
                        ELSE [acc EXCEPT !.messages = Append(@, m), !.calls = <<>>]
  BY DEF FlushCalls, m
<1>5. QED BY <1>1, <1>3, <1>4 DEF Acc, m

LEMMA ExtractItemIs ==
  ASSUME NEW acc \in Acc, NEW item \in Items
  PROVE  /\ ExtractItem(acc, item) \in Acc
         /\ ExtractItem(acc, item).outputs =
              IF item.kind = "output" THEN Append(acc.outputs, item) ELSE acc.outputs
<1> DEFINE flushed == FlushCalls(acc)
           m == Message(RoleOf(item), <<item>>)
<1>1. flushed \in Acc /\ flushed.outputs = acc.outputs
  BY FlushCallsIs
<1>2. item.kind # "output" => m \in Talk
  <2>1. RoleOf(item) \in Roles /\ RoleOf(item) # "tool"
    BY DEF RoleOf, Roles
  <2>2. <<item>> \in Seq(Items) /\ (item.kind # "output" => Quiet(<<item>>))
    BY DEF Quiet
  <2>3. QED BY <2>1, <2>2, MessageIs
<1>3. ExtractItem(acc, item) =
        CASE item.kind = "call" -> [acc EXCEPT !.calls = Append(@, item)]
          [] item.kind = "output" -> [flushed EXCEPT !.outputs = Append(@, item)]
          [] OTHER -> [flushed EXCEPT !.messages = Append(@, m)]
  BY DEF ExtractItem
<1> HIDE DEF flushed, m
<1>4. /\ item.kind = "call" => Append(acc.calls, item) \in Seq(Kind("call"))
      /\ item.kind = "output" => Append(flushed.outputs, item) \in Seq(Kind("output"))
      /\ item.kind # "output" => Append(flushed.messages, m) \in Seq(Talk)
  <2>1. item.kind = "call" => item \in Kind("call")
    BY DEF Kind
  <2>2. item.kind = "output" => item \in Kind("output")
    BY DEF Kind
  <2>3. QED BY <1>1, <1>2, <2>1, <2>2, AppendProperties DEF Acc
<1>5. CASE item.kind = "call"
  BY <1>3, <1>4, <1>5 DEF Acc
<1>6. CASE item.kind = "output"
  BY <1>1, <1>3, <1>4, <1>6 DEF Acc
<1>7. CASE item.kind \notin {"call", "output"}
  BY <1>1, <1>3, <1>4, <1>7 DEF Acc
<1>8. QED BY <1>5, <1>6, <1>7

Extracting(f, items) ==
  f = [n \in 0..Len(items) |-> IF n = 0 THEN NothingYet ELSE ExtractItem(f[n - 1], items[n])]

LEMMA NothingYetIs == NothingYet \in Acc /\ NothingYet.outputs = <<>> /\ NothingYet.calls = <<>>
<1>1. <<>> \in Seq(Talk) /\ <<>> \in Seq(Kind("call")) /\ <<>> \in Seq(Kind("output"))
  OBVIOUS
<1>2. QED BY <1>1 DEF NothingYet, Acc

LEMMA ExtractingExists ==
  ASSUME NEW items \in Seq(Items) PROVE \E f : Extracting(f, items)
<1> DEFINE N == Len(items)
           G == [p \in Acc \X (1..N) |-> ExtractItem(p[1], items[p[2]])]
           a == NothingYet
<1>1. N \in Nat /\ \A n \in 1..N : items[n] \in Items
  BY SeqFacts
<1>2. a \in Acc
  BY NothingYetIs
<1>3. G \in [Acc \X (1..N) -> Acc]
  BY <1>1, ExtractItemIs
<1>4. PICK f : Stepped(f, Acc, a, G, N)
  <2> HIDE DEF G, N, a
  <2>1. QED BY <1>1, <1>2, <1>3, Recursion
<1>5. f \in [0..N -> Acc] /\ f[0] = a /\ \A n \in 1..N : f[n] = G[<<f[n - 1], n>>]
  BY <1>4 DEF Stepped
<1>6. ASSUME NEW n \in 1..N PROVE f[n] = ExtractItem(f[n - 1], items[n])
  <2>1. n - 1 \in 0..N
    BY <1>1
  <2>2. <<f[n - 1], n>> \in Acc \X (1..N)
    BY <1>5, <2>1
  <2>3. QED BY <1>5, <2>2
<1> HIDE DEF G
<1>7. Extracting(f, items)
  <2>1. f = [n \in 0..N |-> f[n]]
    BY <1>5
  <2>2. \A n \in 0..N : n # 0 => n \in 1..N
    BY <1>1
  <2>3. \A n \in 0..N : f[n] = IF n = 0 THEN NothingYet ELSE ExtractItem(f[n - 1], items[n])
    BY <1>5, <1>6, <2>2
  <2>4. QED BY <2>1, <2>3 DEF Extracting
<1>8. QED BY <1>7

LEMMA ExtractingAt ==
  ASSUME NEW items \in Seq(Items), NEW f, Extracting(f, items)
  PROVE  f[0] = NothingYet /\ \A n \in 1..Len(items) : f[n] = ExtractItem(f[n - 1], items[n])
<1>1. Len(items) \in Nat
  BY SeqFacts
<1>2. \A n \in 0..Len(items) :
        f[n] = IF n = 0 THEN NothingYet ELSE ExtractItem(f[n - 1], items[n])
  BY DEF Extracting
<1>3. 0 \in 0..Len(items) /\ \A n \in 1..Len(items) : n \in 0..Len(items) /\ n # 0
  BY <1>1
<1>4. QED BY <1>2, <1>3

LEMMA ExtractingUnique ==
  ASSUME NEW s \in Seq(Items), NEW x \in Items, NEW f, NEW g,
         Extracting(f, Append(s, x)), Extracting(g, s)
  PROVE  f[Len(s)] = g[Len(s)]
<1> DEFINE u == Append(s, x)
           N == {n \in Nat : n <= Len(s) => f[n] = g[n]}
<1>0. /\ Len(s) \in Nat /\ u \in Seq(Items) /\ Len(u) = Len(s) + 1
      /\ \A i \in 1..Len(s) : u[i] = s[i]
  BY AppendProperties, LenProperties
<1>1. /\ f[0] = NothingYet /\ \A n \in 1..Len(u) : f[n] = ExtractItem(f[n - 1], u[n])
      /\ g[0] = NothingYet /\ \A n \in 1..Len(s) : g[n] = ExtractItem(g[n - 1], s[n])
  <2>1. Extracting(f, u)
    OBVIOUS
  <2> HIDE DEF u
  <2>2. QED BY <1>0, <2>1, ExtractingAt
<1> HIDE DEF u
<1>2. 0 \in N
  BY <1>1
<1>3. ASSUME NEW n \in Nat, n \in N PROVE n + 1 \in N
  <2> SUFFICES ASSUME n + 1 <= Len(s) PROVE f[n + 1] = g[n + 1]
    OBVIOUS
  <2>1. PICK m \in 1..Len(s) : m = n + 1
    BY <1>0
  <2>2. m \in 1..Len(u) /\ m - 1 = n
    BY <1>0, <2>1
  <2>3. f[n] = g[n]
    BY <1>0, <1>3
  <2>4. f[m] = ExtractItem(f[n], u[m]) /\ g[m] = ExtractItem(g[n], s[m])
    BY <1>1, <2>2
  <2>5. u[m] = s[m]
    BY <1>0
  <2>6. QED BY <2>1, <2>3, <2>4, <2>5
<1> HIDE DEF N
<1>4. Nat \subseteq N
  BY <1>2, <1>3, SetInduction
<1>5. QED BY <1>0, <1>4 DEF N

(* What is extracted from the first items, before the calls are flushed.   *)
Extracted(items) == (CHOOSE f : Extracting(f, items))[Len(items)]

LEMMA ExtractedStep ==
  /\ Extracted(<<>>) = NothingYet
  /\ \A s \in Seq(Items), x \in Items : Extracted(Append(s, x)) = ExtractItem(Extracted(s), x)
  /\ \A s \in Seq(Items) : ExtractRequest(s) = FlushCalls(Extracted(s))
<1>1. \A s \in Seq(Items) : Extracting(CHOOSE f : Extracting(f, s), s)
  BY ExtractingExists
<1>2. Extracted(<<>>) = NothingYet
  <2> DEFINE f == CHOOSE g : Extracting(g, <<>>)
  <2>1. <<>> \in Seq(Items) /\ Len(<<>>) = 0
    OBVIOUS
  <2>2. Extracting(f, <<>>)
    BY <1>1, <2>1
  <2>3. Extracted(<<>>) = f[0]
    BY <2>1 DEF Extracted
  <2> HIDE DEF f
  <2>4. QED BY <2>1, <2>2, <2>3, ExtractingAt
<1>3. ASSUME NEW s \in Seq(Items), NEW x \in Items
      PROVE  Extracted(Append(s, x)) = ExtractItem(Extracted(s), x)
  <2> DEFINE u == Append(s, x)
             n == Len(s)
             f == CHOOSE h : Extracting(h, u)
             g == CHOOSE h : Extracting(h, s)
  <2>1. n \in Nat /\ u \in Seq(Items) /\ Len(u) = n + 1 /\ u[n + 1] = x
    BY AppendProperties, LenProperties
  <2>2. Extracting(f, u) /\ Extracting(g, s)
    <3> HIDE DEF u
    <3>1. QED BY <1>1, <2>1
  <2>3. Extracted(u) = f[n + 1] /\ Extracted(s) = g[n]
    BY <2>1 DEF Extracted
  <2> HIDE DEF f, g
  <2>4. f[n] = g[n]
    BY <2>2, ExtractingUnique
  <2> HIDE DEF u, n
  <2>5. \A m \in 1..(n + 1) : f[m] = ExtractItem(f[m - 1], u[m])
    BY <2>1, <2>2, ExtractingAt
  <2>6. PICK m \in 1..(n + 1) : m = n + 1 /\ m - 1 = n
    BY <2>1
  <2>7. f[m] = ExtractItem(f[n], x)
    BY <2>1, <2>5, <2>6
  <2>8. QED BY <2>3, <2>4, <2>6, <2>7 DEF u
<1>4. ASSUME NEW s \in Seq(Items) PROVE ExtractRequest(s) = FlushCalls(Extracted(s))
  BY DEF ExtractRequest, Extracted, Extracting
<1>5. QED BY <1>2, <1>3, <1>4

LEMMA ExtractedIs ==
  \A s \in Seq(Items) : /\ Extracted(s) \in Acc
                        /\ Extracted(s).outputs = Picked(s, Kind("output"))
<1> DEFINE O == Kind("output")
           P == {s \in Seq(Items) : Extracted(s) \in Acc /\ Extracted(s).outputs = Picked(s, O)}
<1>1. <<>> \in P
  <2>1. Extracted(<<>>) = NothingYet /\ <<>> \in Seq(Items)
    BY ExtractedStep
  <2>2. QED BY <2>1, NothingYetIs, PickedEmpty
<1>2. ASSUME NEW s \in Seq(Items), NEW x \in Items, s \in P PROVE Append(s, x) \in P
  <2>1. Extracted(Append(s, x)) = ExtractItem(Extracted(s), x) /\ Append(s, x) \in Seq(Items)
    BY ExtractedStep, AppendProperties
  <2>2. /\ ExtractItem(Extracted(s), x) \in Acc
        /\ ExtractItem(Extracted(s), x).outputs =
             IF x.kind = "output" THEN Append(Extracted(s).outputs, x) ELSE Extracted(s).outputs
    BY <1>2, ExtractItemIs
  <2>3. x \in O <=> x.kind = "output"
    BY DEF Kind
  <2> HIDE DEF O
  <2>4. Picked(Append(s, x), O) = IF x \in O THEN Append(Picked(s, O), x) ELSE Picked(s, O)
    BY PickedStep
  <2>5. QED BY <1>2, <2>1, <2>2, <2>3, <2>4
<1> HIDE DEF P
<1>3. Seq(Items) \subseteq P
  BY <1>1, <1>2, SeqInduction
<1>4. QED BY <1>3 DEF P

LEMMA ExtractRequestIs ==
  ASSUME NEW items \in Seq(Items)
  PROVE  /\ ExtractRequest(items) \in Acc /\ ExtractRequest(items).calls = <<>>
         /\ ExtractRequest(items).outputs = Picked(items, Kind("output"))
         /\ ExtractRequest(items).outputs \in Seq(Items)
         /\ \A i \in DOMAIN ExtractRequest(items).outputs :
              /\ ExtractRequest(items).outputs[i].kind = "output"
              /\ \E k \in DOMAIN items : items[k] = ExtractRequest(items).outputs[i]
<1>1. Extracted(items) \in Acc /\ Extracted(items).outputs = Picked(items, Kind("output"))
  BY ExtractedIs
<1>2. ExtractRequest(items) = FlushCalls(Extracted(items))
  BY ExtractedStep
<1>3. /\ ExtractRequest(items) \in Acc /\ ExtractRequest(items).calls = <<>>
      /\ ExtractRequest(items).outputs = Picked(items, Kind("output"))
  BY <1>1, <1>2, FlushCallsIs
<1>4. /\ Picked(items, Kind("output")) \in Seq(Items)
      /\ \A i \in DOMAIN Picked(items, Kind("output")) :
           /\ Picked(items, Kind("output"))[i] \in Kind("output")
           /\ \E k \in DOMAIN items : items[k] = Picked(items, Kind("output"))[i]
  BY PickedFacts
<1>5. QED BY <1>3, <1>4 DEF Kind

------------------------------------------------------------------------------
(* The outputs behind their calls.                                         *)

MakesCall(m, id) ==
  /\ m.role = "assistant"
  /\ \E k \in DOMAIN m.items : m.items[k].kind = "call" /\ m.items[k].id = id

AnswersAt(messages, i, j) ==
  /\ MakesCall(messages[i], messages[j].items[1].id)
  /\ \A k \in (i + 1)..(j - 1) : messages[k].role = "tool"

Behind(messages) ==
  \A j \in DOMAIN messages : messages[j].role = "tool" =>
    \E i \in 1..(j - 1) : AnswersAt(messages, i, j)

Once(messages) ==
  \A i, j \in DOMAIN messages :
    messages[i].role = "tool" /\ messages[j].role = "tool" /\
    messages[i].items[1].id = messages[j].items[1].id => i = j

(* The outputs of calls that m makes. *)
ReplyTo(m) == {e \in Msg : e.role = "tool" /\ MakesCall(m, e.items[1].id)}

LEMMA ToolCallsIs ==
  ASSUME NEW m \in Msg
  PROVE  /\ ToolCalls(m) \in Seq(Items)
         /\ \A k \in DOMAIN ToolCalls(m) : MakesCall(m, ToolCalls(m)[k].id)
<1>1. m.items \in Seq(Items)
  BY DEF Msg
<1>2. CASE m.role = "assistant"
  <2> DEFINE t == OfKind(m.items, "call")
  <2>1. ToolCalls(m) = t
    BY <1>2 DEF ToolCalls
  <2>2. /\ t \in Seq(Items)
        /\ \A i \in DOMAIN t : t[i].kind = "call" /\ \E k \in DOMAIN m.items : m.items[k] = t[i]
    BY <1>1, OfKindFacts
  <2> HIDE DEF t
  <2>3. ASSUME NEW i \in DOMAIN t PROVE MakesCall(m, t[i].id)
    <3>1. PICK k \in DOMAIN m.items : m.items[k] = t[i]
      BY <2>2
    <3>2. m.items[k].kind = "call" /\ m.items[k].id = t[i].id
      BY <2>2, <3>1
    <3>3. QED BY <1>2, <3>2 DEF MakesCall
  <2>4. QED BY <2>1, <2>2, <2>3
<1>3. CASE m.role # "assistant"
  <2>1. ToolCalls(m) = <<>>
    BY <1>3 DEF ToolCalls
  <2>2. QED BY <2>1
<1>4. QED BY <1>2, <1>3

(* A message stands where it stood, or behind those it was appended to. *)
LEMMA BehindPrefix ==
  ASSUME NEW a \in Seq(Msg), NEW b \in Seq(Msg), Behind(a), NEW j \in 1..Len(a),
         (a \o b)[j].role = "tool"
  PROVE  \E i \in 1..(j - 1) : AnswersAt(a \o b, i, j)
<1> DEFINE c == a \o b
<1>1. Len(a) \in Nat /\ DOMAIN a = 1..Len(a) /\ \A k \in 1..Len(a) : c[k] = a[k]
  BY JoinFacts
<1> HIDE DEF c
<1>2. a[j].role = "tool" /\ j \in DOMAIN a
  BY <1>1 DEF c
<1>3. PICK i \in 1..(j - 1) : AnswersAt(a, i, j)
  BY <1>2 DEF Behind
<1>4. i \in 1..Len(a) /\ \A k \in (i + 1)..(j - 1) : k \in 1..Len(a)
  BY <1>1
<1>5. c[i] = a[i] /\ c[j] = a[j] /\ \A k \in (i + 1)..(j - 1) : c[k] = a[k]
  BY <1>1, <1>4
<1>6. AnswersAt(c, i, j)
  BY <1>3, <1>5 DEF AnswersAt
<1>7. QED BY <1>6 DEF c

LEMMA BehindJoin ==
  ASSUME NEW a \in Seq(Msg), NEW b \in Seq(Msg), Behind(a), Behind(b)
  PROVE  a \o b \in Seq(Msg) /\ Behind(a \o b)
<1> DEFINE c == a \o b
           n == Len(a)
<1>1. /\ c \in Seq(Msg) /\ n \in Nat /\ Len(b) \in Nat /\ DOMAIN b = 1..Len(b)
      /\ DOMAIN c = 1..(n + Len(b)) /\ \A k \in 1..Len(b) : c[n + k] = b[k]
  BY JoinFacts
<1>2. ASSUME NEW j \in DOMAIN c, c[j].role = "tool"
      PROVE  \E i \in 1..(j - 1) : AnswersAt(c, i, j)
  <2>1. CASE j \in 1..n
    BY <1>2, <2>1, BehindPrefix
  <2>2. CASE j \notin 1..n
    <3> HIDE DEF c, n
    <3>1. PICK p \in 1..Len(b) : j = n + p
      <4>1. j - n \in 1..Len(b) /\ j = n + (j - n)
        BY <1>1, <2>2
      <4>2. QED BY <4>1
    <3>2. c[j] = b[p] /\ p \in DOMAIN b
      BY <1>1, <3>1
    <3>3. PICK i \in 1..(p - 1) : AnswersAt(b, i, p)
      BY <1>2, <3>2 DEF Behind
    <3>4. i \in 1..Len(b) /\ n + i \in 1..(j - 1)
      BY <1>1, <3>1
    <3>5. c[n + i] = b[i]
      BY <1>1, <3>4
    <3>6. ASSUME NEW k \in (n + i + 1)..(j - 1) PROVE c[k].role = "tool"
      <4>1. PICK q \in (i + 1)..(p - 1) : k = n + q
        <5>1. k - n \in (i + 1)..(p - 1) /\ k = n + (k - n)
          BY <1>1, <3>1
        <5>2. QED BY <5>1
      <4>2. q \in 1..Len(b)
        BY <1>1
      <4>3. c[k] = b[q]
        BY <1>1, <4>1, <4>2
      <4>4. b[q].role = "tool"
        BY <3>3 DEF AnswersAt
      <4>5. QED BY <4>3, <4>4
    <3>7. AnswersAt(c, n + i, j)
      BY <3>2, <3>3, <3>5, <3>6 DEF AnswersAt
    <3>8. QED BY <3>4, <3>7
  <2>3. QED BY <2>1, <2>2
<1>3. Behind(c)
  BY <1>2 DEF Behind
<1>4. QED BY <1>1, <1>3

LEMMA TalkIsBehind ==
  ASSUME NEW a \in Seq(Talk) PROVE a \in Seq(Msg) /\ Behind(a)
<1>1. \A i \in DOMAIN a : a[i].role # "tool"
  BY SeqFacts DEF Talk
<1>2. QED BY <1>1, MessagesAre DEF Behind

(* The outputs go right behind the message that made the calls. *)
LEMMA BehindReplies ==
  ASSUME NEW a \in Seq(Msg), a # <<>>, Behind(a), NEW b \in Seq(ReplyTo(a[Len(a)]))
  PROVE  a \o b \in Seq(Msg) /\ Behind(a \o b)
<1> DEFINE c == a \o b
           n == Len(a)
           m == a[Len(a)]
<1>0. b \in Seq(Msg) /\ \A k \in DOMAIN b : b[k] \in ReplyTo(m)
  <2>1. ReplyTo(m) \subseteq Msg
    BY DEF ReplyTo
  <2>2. b \in Seq(Msg)
    BY <2>1
  <2>3. QED BY <2>2, SeqFacts
<1>1. /\ c \in Seq(Msg) /\ n \in Nat /\ Len(b) \in Nat /\ DOMAIN b = 1..Len(b)
      /\ DOMAIN c = 1..(n + Len(b))
      /\ \A k \in 1..n : c[k] = a[k]
      /\ \A k \in 1..Len(b) : c[n + k] = b[k]
  BY <1>0, JoinFacts
<1>2. n # 0
  BY EmptySeq
<1>3. ASSUME NEW j \in DOMAIN c, c[j].role = "tool"
      PROVE  \E i \in 1..(j - 1) : AnswersAt(c, i, j)
  <2>1. CASE j \in 1..n
    BY <1>0, <1>3, <2>1, BehindPrefix
  <2>2. CASE j \notin 1..n
    <3>1. c[n] = m
      BY <1>1, <1>2
    <3> HIDE DEF c, n, m
    <3>2. PICK p \in 1..Len(b) : j = n + p
      <4>1. j - n \in 1..Len(b) /\ j = n + (j - n)
        BY <1>1, <2>2
      <4>2. QED BY <4>1
    <3>3. c[j] = b[p] /\ b[p] \in ReplyTo(m)
      BY <1>0, <1>1, <3>2
    <3>4. n \in 1..(j - 1)
      BY <1>1, <1>2, <3>2
    <3>5. MakesCall(c[n], c[j].items[1].id)
      BY <3>1, <3>3 DEF ReplyTo
    <3>6. ASSUME NEW k \in (n + 1)..(j - 1) PROVE c[k].role = "tool"
      <4>1. PICK q \in 1..Len(b) : k = n + q
        <5>1. k - n \in 1..Len(b) /\ k = n + (k - n)
          BY <1>1, <3>2
        <5>2. QED BY <5>1
      <4>2. c[k] = b[q] /\ b[q] \in ReplyTo(m)
        BY <1>0, <1>1, <4>1
      <4>3. QED BY <4>2 DEF ReplyTo
    <3>7. AnswersAt(c, n, j)
      BY <3>5, <3>6 DEF AnswersAt
    <3>8. QED BY <3>4, <3>7
  <2>3. QED BY <2>1, <2>2
<1>4. Behind(c)
  BY <1>3 DEF Behind
<1>5. QED BY <1>1, <1>4

------------------------------------------------------------------------------
(* The repairs.                                                            *)

(* Messages that are left out take no call or output with them, when they  *)
(* are neither: what is kept of Behind messages is Behind.                 *)
LEMMA BehindPicked ==
  ASSUME NEW s \in Seq(Msg), Behind(s), NEW S,
         \A k \in DOMAIN s : s[k].role = "assistant" => s[k] \in S
  PROVE  Picked(s, S) \in Seq(Msg) /\ Behind(Picked(s, S))
<1> DEFINE t == Picked(s, S)
<1>1. t \in Seq(Msg) /\ \E g : From(g, t, s, Len(s), S)
  BY PickedFrom
<1> HIDE DEF t
<1>2. PICK g : From(g, t, s, Len(s), S)
  BY <1>1
<1>3. /\ Len(t) \in Nat /\ Len(s) \in Nat /\ DOMAIN t = 1..Len(t) /\ DOMAIN s = 1..Len(s)
  BY <1>1, LenProperties
<1>4. /\ \A i \in 1..Len(t) : g[i] \in 1..Len(s) /\ t[i] = s[g[i]]
      /\ \A i, j \in 1..Len(t) : i < j => g[i] < g[j]
      /\ \A k \in 1..Len(s) : s[k] \in S => \E i \in 1..Len(t) : g[i] = k
  BY <1>2 DEF From
<1>5. ASSUME NEW j \in DOMAIN t, t[j].role = "tool"
      PROVE  \E i \in 1..(j - 1) : AnswersAt(t, i, j)
  <2>1. j \in 1..Len(t) /\ g[j] \in 1..Len(s) /\ t[j] = s[g[j]]
    BY <1>3, <1>4
  <2>2. PICK h \in 1..(g[j] - 1) : AnswersAt(s, h, g[j])
    BY <1>3, <1>5, <2>1 DEF Behind
  <2>3. h \in 1..Len(s) /\ h < g[j] /\ h \in Nat
    BY <1>3, <2>1
  <2>4. s[h].role = "assistant"
    BY <2>2 DEF AnswersAt, MakesCall
  <2>5. PICK i \in 1..Len(t) : g[i] = h
    BY <1>3, <1>4, <2>3, <2>4
  <2>6. i < j
    <3>1. i = j \/ j < i \/ i < j
      BY <1>3, <2>1
    <3>2. j < i => g[j] < g[i]
      BY <1>4, <2>1
    <3>3. g[i] \in Nat /\ g[j] \in Nat
      BY <2>1, <2>3, <2>5, <1>3
    <3>4. QED BY <2>3, <2>5, <3>1, <3>2, <3>3
  <2>7. i \in 1..(j - 1)
    BY <2>1, <2>6
  <2>8. t[i] = s[h]
    BY <1>4, <2>5
  <2>9. ASSUME NEW k \in (i + 1)..(j - 1) PROVE t[k].role = "tool"
    <3>1. k \in 1..Len(t) /\ i < k /\ k < j
      BY <1>3, <2>1, <2>7
    <3>2. g[i] < g[k] /\ g[k] < g[j] /\ g[k] \in 1..Len(s) /\ t[k] = s[g[k]]
      BY <1>4, <2>1, <3>1
    <3>3. g[k] \in (h + 1)..(g[j] - 1)
      <4> DEFINE y == g[k]
                 z == g[j]
      <4>1. h \in Nat /\ y \in Nat /\ z \in Nat /\ h < y /\ y < z
        BY <1>3, <2>1, <2>3, <2>5, <3>2
      <4> HIDE DEF y, z
      <4>2. y \in (h + 1)..(z - 1)
        BY <4>1
      <4>3. QED BY <4>2 DEF y, z
    <3>4. s[g[k]].role = "tool"
      BY <2>2, <3>3 DEF AnswersAt
    <3>5. QED BY <3>2, <3>4
  <2>10. AnswersAt(t, i, j)
    BY <2>1, <2>2, <2>8, <2>9 DEF AnswersAt
  <2>11. QED BY <2>7, <2>10
<1>6. Behind(t)
  BY <1>5 DEF Behind
<1>7. QED BY <1>1, <1>6 DEF t

LEMMA ToolMessagesReply ==
  ASSUME NEW m \in Msg, NEW outputs \in Seq(Items),
         \A i \in DOMAIN outputs : MakesCall(m, outputs[i].id)
  PROVE  ToolMessages(outputs) \in Seq(ReplyTo(m))
<1> DEFINE t == ToolMessages(outputs)
<1>1. Len(outputs) \in Nat /\ DOMAIN outputs = 1..Len(outputs)
      /\ \A i \in 1..Len(outputs) : outputs[i] \in Items
  BY SeqFacts
<1>2. t = [i \in 1..Len(outputs) |-> Message("tool", <<outputs[i]>>)]
  BY <1>1 DEF ToolMessages
<1>3. ASSUME NEW i \in 1..Len(outputs) PROVE Message("tool", <<outputs[i]>>) \in ReplyTo(m)
  <2>1. <<outputs[i]>> \in Seq(Items) /\ Len(<<outputs[i]>>) = 1 /\ <<outputs[i]>>[1] = outputs[i]
    BY <1>1, SingleIs
  <2>2. Message("tool", <<outputs[i]>>) \in Msg
        /\ Message("tool", <<outputs[i]>>).role = "tool"
        /\ Message("tool", <<outputs[i]>>).items = <<outputs[i]>>
    BY <2>1, MessageIs DEF Roles
  <2>3. QED BY <1>1, <2>1, <2>2 DEF ReplyTo
<1> HIDE DEF t
<1>4. t \in [1..Len(outputs) -> ReplyTo(m)]
  BY <1>2, <1>3
<1>5. QED BY <1>1, <1>4 DEF t

LEMMA ReplayIs ==
  ASSUME NEW m \in Msg, NEW outputs \in Seq(Items)
  PROVE  Replay(m, outputs) \in Seq(ReplyTo(m))
<1> DEFINE calls == ToolCalls(m)
           of(call) == {o \in ToSet(outputs) : o.id = call.id}
           p == [k \in DOMAIN calls |-> ToolMessages(Picked(outputs, of(calls[k])))]
<1>1. Replay(m, outputs) = FlattenSeq(p)
  BY DEF Replay
<1>2. calls \in Seq(Items) /\ \A k \in DOMAIN calls : MakesCall(m, calls[k].id)
  BY ToolCallsIs
<1> HIDE DEF calls
<1>3. ASSUME NEW k \in DOMAIN calls
      PROVE  ToolMessages(Picked(outputs, of(calls[k]))) \in Seq(ReplyTo(m))
  <2> DEFINE t == Picked(outputs, of(calls[k]))
  <2>1. t \in Seq(Items) /\ \A i \in DOMAIN t : t[i] \in of(calls[k])
    BY PickedFacts
  <2> HIDE DEF t
  <2>2. \A i \in DOMAIN t : MakesCall(m, t[i].id)
    BY <1>2, <2>1
  <2>3. QED BY <2>1, <2>2, ToolMessagesReply DEF t
<1>4. p \in [1..Len(calls) -> Seq(ReplyTo(m))] /\ Len(calls) \in Nat
  <2>1. DOMAIN calls = 1..Len(calls) /\ Len(calls) \in Nat
    BY <1>2, SeqFacts
  <2>2. QED BY <1>3, <2>1
<1> HIDE DEF p
<1>5. QED BY <1>1, <1>4, FlattenIsSeq

LEMMA BehindFlatten ==
  \A n \in Nat : \A p \in [1..n -> Seq(Msg)] :
    (\A i \in 1..n : Behind(p[i])) => FlattenSeq(p) \in Seq(Msg) /\ Behind(FlattenSeq(p))
<1> DEFINE Good(p, n) == (\A i \in 1..n : Behind(p[i])) =>
                            FlattenSeq(p) \in Seq(Msg) /\ Behind(FlattenSeq(p))
           S == {n \in Nat : \A p \in [1..n -> Seq(Msg)] : Good(p, n)}
<1>1. 0 \in S
  <2> SUFFICES ASSUME NEW p \in [1..0 -> Seq(Msg)] PROVE Good(p, 0)
    OBVIOUS
  <2>1. FlattenSeq(p) = <<>>
    BY FlattenEmpty
  <2>2. <<>> \in Seq(Talk)
    OBVIOUS
  <2>3. QED BY <2>1, <2>2, TalkIsBehind
<1>2. ASSUME NEW n \in Nat, n \in S PROVE n + 1 \in S
  <2> SUFFICES ASSUME NEW p \in [1..(n + 1) -> Seq(Msg)], \A i \in 1..(n + 1) : Behind(p[i])
               PROVE  FlattenSeq(p) \in Seq(Msg) /\ Behind(FlattenSeq(p))
    OBVIOUS
  <2> DEFINE q == [i \in 1..n |-> p[i]]
  <2>1. q \in [1..n -> Seq(Msg)] /\ \A i \in 1..n : p[i] = q[i] /\ i \in 1..(n + 1)
    OBVIOUS
  <2>2. p[n + 1] \in Seq(Msg) /\ Behind(p[n + 1])
    <3>1. n + 1 \in 1..(n + 1)
      OBVIOUS
    <3>2. QED BY <3>1
  <2> HIDE DEF q
  <2>3. FlattenSeq(p) = FlattenSeq(q) \o p[n + 1]
    BY <2>1, FlattenGrown
  <2>4. \A i \in 1..n : Behind(q[i])
    <3>1. ASSUME NEW i \in 1..n PROVE Behind(q[i])
      <4>1. Behind(p[i]) /\ q[i] = p[i]
        BY <2>1
      <4>2. QED BY <4>1
    <3>2. QED BY <3>1
  <2>5. FlattenSeq(q) \in Seq(Msg) /\ Behind(FlattenSeq(q))
    BY <1>2, <2>1, <2>4
  <2>6. QED BY <2>2, <2>3, <2>5, BehindJoin
<1> HIDE DEF S, Good
<1>3. Nat \subseteq S
  BY <1>1, <1>2, SetInduction
<1>4. QED BY <1>3 DEF S, Good

LEMMA NormalizedIs ==
  ASSUME NEW messages \in Seq(Msg), Behind(messages)
  PROVE  /\ NormalizeUpstreamRoles(messages) \in Seq(Msg)
         /\ Behind(NormalizeUpstreamRoles(messages))
         /\ Told(Heard, NormalizeUpstreamRoles(messages)) = Told(Heard, messages)
<1> DEFINE system == Picked(messages, {m \in ToSet(messages) : m.role = "system"})
           R == {m \in ToSet(messages) : m.role # "system"}
           rest == Picked(messages, R)
           p == [i \in DOMAIN system |-> system[i].items]
           head == Message("system", FlattenSeq(p))
<1>1. NormalizeUpstreamRoles(messages) = IF system = <<>> THEN rest ELSE <<head>> \o rest
  BY DEF NormalizeUpstreamRoles
<1>2. rest \in Seq(Msg) /\ Behind(rest)
  <2>1. \A k \in DOMAIN messages : messages[k].role = "assistant" => messages[k] \in R
    BY DEF ToSet
  <2> HIDE DEF R
  <2>2. QED BY <2>1, BehindPicked
<1>3. <<head>> \in Seq(Msg) /\ Behind(<<head>>) /\ Told(Heard, <<head>>) = <<>>
  <2> DEFINE I == {x \in Items : x.kind # "output"}
  <2>1. system \in Seq(Msg) /\ \A i \in DOMAIN system : system[i].role = "system"
    BY PickedFacts
  <2> HIDE DEF system
  <2>2. Len(system) \in Nat /\ DOMAIN system = 1..Len(system)
        /\ \A i \in 1..Len(system) : system[i] \in Msg /\ system[i].role = "system"
    BY <2>1, SeqFacts
  <2>3. p \in [1..Len(system) -> Seq(I)]
    <3>1. ASSUME NEW i \in 1..Len(system) PROVE system[i].items \in Seq(I)
      <4> DEFINE s == system[i].items
      <4>1. s \in Seq(Items) /\ Quiet(s)
        BY <2>2 DEF Msg
      <4> HIDE DEF s
      <4>2. s = [k \in 1..Len(s) |-> s[k]] /\ Len(s) \in Nat /\ DOMAIN s = 1..Len(s)
            /\ \A k \in 1..Len(s) : s[k] \in Items
        BY <4>1, LenProperties, SeqFacts
      <4>3. \A k \in 1..Len(s) : s[k] \in I
        BY <4>1, <4>2 DEF Quiet
      <4> HIDE DEF I
      <4>4. s \in [1..Len(s) -> I]
        BY <4>2, <4>3
      <4>5. s \in Seq(I)
        BY <4>2, <4>4
      <4>6. QED BY <4>5 DEF s
    <3> HIDE DEF I
    <3>2. QED BY <2>2, <3>1
  <2> HIDE DEF p
  <2>4. FlattenSeq(p) \in Seq(Items) /\ Quiet(FlattenSeq(p))
    <3>1. FlattenSeq(p) \in Seq(I)
      <4> HIDE DEF I
      <4>1. QED BY <2>2, <2>3, FlattenIsSeq
    <3> DEFINE s == FlattenSeq(p)
    <3> HIDE DEF s
    <3>2. I \subseteq Items /\ s \in Seq(I)
      BY <3>1 DEF s
    <3>3. \A k \in DOMAIN s : s[k] \in I
      BY <3>2, SeqFacts
    <3>4. s \in Seq(Items)
      <4> HIDE DEF I
      <4>1. QED BY <3>2
    <3>5. QED BY <3>3, <3>4 DEF Quiet, s
  <2>5. head \in Talk
    <3> HIDE DEF p
    <3>1. QED BY <2>4, MessageIs DEF Roles
  <2>6. head.role = "system"
    BY DEF Message
  <2> HIDE DEF head
  <2>7. <<head>> \in Seq(Talk) /\ head \in Msg
    BY <2>5 DEF Talk
  <2>8. Told(Heard, <<head>>) = Heard[head] /\ Heard[head] = <<>>
    BY <2>6, <2>7, HeardAppend DEF Heard
  <2>9. QED BY <2>7, <2>8, TalkIsBehind
<1>4. Told(Heard, rest) = Told(Heard, messages)
  BY RestHeard
<1> HIDE DEF system, rest, head
<1>5. <<head>> \o rest \in Seq(Msg) /\ Behind(<<head>> \o rest)
  BY <1>2, <1>3, BehindJoin
<1>6. Told(Heard, <<head>> \o rest) = Told(Heard, messages)
  <2>1. Told(Heard, <<head>> \o rest) = <<>> \o Told(Heard, rest) /\ Told(Heard, rest) \in Seq(Items)
    <3>1. Told(Heard, <<head>> \o rest) = Told(Heard, <<head>>) \o Told(Heard, rest)
      BY <1>2, <1>3, HeardJoin
    <3>2. Told(Heard, rest) \in Seq(Items)
      BY <1>2, HeardJoin
    <3>3. QED BY <1>3, <3>1, <3>2
  <2>2. QED BY <1>4, <2>1, ConcatEmptySeq
<1>7. QED BY <1>1, <1>2, <1>4, <1>5, <1>6

LEMMA RepairedIs ==
  ASSUME NEW stored \in Seq(Msg), stored # <<>>, Behind(stored), NEW outputs \in Seq(Items),
         \A i \in DOMAIN outputs : MakesCall(stored[Len(stored)], outputs[i].id)
  PROVE  /\ RepairHistory(stored, outputs).messages \in Seq(Msg)
         /\ Behind(RepairHistory(stored, outputs).messages)
         /\ RepairHistory(stored, outputs).ok \in BOOLEAN
         /\ RepairHistory(stored, outputs) =
              [ok |-> RepairHistory(stored, outputs).ok,
               messages |-> RepairHistory(stored, outputs).messages]
<1> DEFINE m == stored[Len(stored)]
           repaired == stored \o ToolMessages(outputs)
           r == RepairHistory(stored, outputs)
<1>1. m \in Msg
  <2>1. Len(stored) \in 1..Len(stored)
    BY EmptySeq, LenProperties
  <2>2. QED BY <2>1, SeqFacts
<1>2. ToolMessages(outputs) \in Seq(ReplyTo(m))
  BY <1>1, ToolMessagesReply
<1>3. repaired \in Seq(Msg) /\ Behind(repaired)
  BY <1>2, BehindReplies
<1>4. r = Accepted(repaired) \/ r = Refused
  BY DEF RepairHistory
<1>5. <<>> \in Seq(Msg) /\ Behind(<<>>)
  BY DEF Behind
<1> HIDE DEF r, repaired
<1>6. /\ r.messages \in Seq(Msg) /\ Behind(r.messages) /\ r.ok \in BOOLEAN
      /\ r = [ok |-> r.ok, messages |-> r.messages]
  <2>1. CASE r = Accepted(repaired)
    BY <1>3, <2>1 DEF Accepted
  <2>2. CASE r = Refused
    BY <1>5, <2>2 DEF Refused
  <2>3. QED BY <1>4, <2>1, <2>2
<1>7. QED BY <1>6 DEF r

LEMMA ReplayedBehind ==
  ASSUME NEW messages \in Seq(Talk), NEW outputs \in Seq(Items)
  PROVE  LET repaired == FlattenSeq([i \in DOMAIN messages |->
                           <<messages[i]>> \o Replay(messages[i], outputs)])
         IN  repaired \in Seq(Msg) /\ Behind(repaired)
<1> DEFINE p == [i \in DOMAIN messages |-> <<messages[i]>> \o Replay(messages[i], outputs)]
           repaired == FlattenSeq(p)
<1>1. Len(messages) \in Nat /\ DOMAIN messages = 1..Len(messages)
      /\ \A i \in 1..Len(messages) : messages[i] \in Talk
  BY SeqFacts
<1>2. ASSUME NEW i \in 1..Len(messages)
      PROVE  /\ <<messages[i]>> \o Replay(messages[i], outputs) \in Seq(Msg)
             /\ Behind(<<messages[i]>> \o Replay(messages[i], outputs))
  <2> DEFINE m == messages[i]
             a == <<m>>
  <2>1. m \in Talk /\ m \in Msg
    BY <1>1 DEF Talk
  <2> HIDE DEF m
  <2>2. a \in Seq(Talk) /\ Len(a) = 1 /\ a[1] = m /\ a # <<>>
    BY <2>1
  <2>3. Replay(m, outputs) \in Seq(ReplyTo(m))
    BY <2>1, ReplayIs
  <2> HIDE DEF a
  <2>4. a \in Seq(Msg) /\ Behind(a) /\ a[Len(a)] = m
    BY <2>2, TalkIsBehind
  <2>5. a \o Replay(m, outputs) \in Seq(Msg) /\ Behind(a \o Replay(m, outputs))
    <3> DEFINE b == Replay(m, outputs)
    <3>1. b \in Seq(ReplyTo(a[Len(a)]))
      BY <2>3, <2>4
    <3> HIDE DEF b
    <3>2. a \o b \in Seq(Msg) /\ Behind(a \o b)
      BY <2>2, <2>4, <3>1, BehindReplies
    <3>3. QED BY <3>2 DEF b
  <2>6. QED BY <2>5 DEF a, m
<1>3. p \in [1..Len(messages) -> Seq(Msg)] /\ \A i \in 1..Len(messages) : Behind(p[i])
  BY <1>1, <1>2
<1> HIDE DEF p
<1>4. repaired \in Seq(Msg) /\ Behind(repaired)
  BY <1>1, <1>3, BehindFlatten
<1>5. QED BY <1>4 DEF p

LEMMA StatelessIs ==
  ASSUME NEW messages \in Seq(Talk), NEW outputs \in Seq(Items)
  PROVE  /\ RepairStatelessHistory(messages, outputs).messages \in Seq(Msg)
         /\ Behind(RepairStatelessHistory(messages, outputs).messages)
         /\ RepairStatelessHistory(messages, outputs).ok \in BOOLEAN
<1> DEFINE repaired == FlattenSeq([i \in DOMAIN messages |->
                         <<messages[i]>> \o Replay(messages[i], outputs)])
           r == RepairStatelessHistory(messages, outputs)
<1>1. repaired \in Seq(Msg) /\ Behind(repaired)
  BY ReplayedBehind
<1>2. r = Accepted(repaired) \/ r = Refused
  BY DEF RepairStatelessHistory
<1>3. <<>> \in Seq(Msg) /\ Behind(<<>>)
  BY DEF Behind
<1> HIDE DEF r, repaired
<1>4. r.messages \in Seq(Msg) /\ Behind(r.messages) /\ r.ok \in BOOLEAN
  <2>1. CASE r = Accepted(repaired)
    BY <1>1, <2>1 DEF Accepted
  <2>2. CASE r = Refused
    BY <1>3, <2>2 DEF Refused
  <2>3. QED BY <1>2, <2>1, <2>2
<1>5. QED BY <1>4 DEF r

(* The latest of some positions. *)
LEMMA LatestExists ==
  ASSUME NEW n \in Nat, NEW S \in SUBSET (1..n), S # {}
  PROVE  \E j \in S : \A i \in S : i <= j
<1> DEFINE K == {m \in Nat : (\A i \in S : i <= m) => \E j \in S : \A i \in S : i <= j}
<1>1. 0 \in K
  <2>1. PICK i \in S : TRUE
    OBVIOUS
  <2>2. i \in 1..n
    OBVIOUS
  <2>3. ~ (i <= 0)
    BY <2>2
  <2>4. QED BY <2>1, <2>3
<1>2. ASSUME NEW m \in Nat, m \in K PROVE m + 1 \in K
  <2> SUFFICES ASSUME \A i \in S : i <= m + 1
               PROVE  \E j \in S : \A i \in S : i <= j
    OBVIOUS
  <2>1. CASE m + 1 \in S
    BY <2>1
  <2>2. CASE m + 1 \notin S
    <3>1. \A i \in S : i <= m
      BY <2>2
    <3>2. QED BY <1>2, <3>1
  <2>3. QED BY <2>1, <2>2
<1> HIDE DEF K
<1>3. Nat \subseteq K
  BY <1>1, <1>2, SetInduction
<1>4. \A i \in S : i <= n
  OBVIOUS
<1>5. QED BY <1>3, <1>4 DEF K

LEMMA ValidIsOnce ==
  ASSUME NEW messages \in Seq(Msg), ValidChatToolHistory(messages)
  PROVE  Once(messages)
<1>1. Len(messages) \in Nat /\ DOMAIN messages = 1..Len(messages)
  BY SeqFacts
<1>2. \A j \in DOMAIN messages : messages[j].role = "tool" =>
        \A i \in 1..(j - 1) : messages[i].role = "tool" =>
          messages[i].items[1].id # messages[j].items[1].id
  BY DEF ValidChatToolHistory, IsTool, CallIdOf
<1>3. ASSUME NEW i \in DOMAIN messages, NEW j \in DOMAIN messages,
             messages[i].role = "tool", messages[j].role = "tool",
             messages[i].items[1].id = messages[j].items[1].id
      PROVE  i = j
  <2>1. i \in 1..(j - 1) \/ j \in 1..(i - 1) \/ i = j
    BY <1>1
  <2>2. QED BY <1>2, <1>3, <2>1
<1>4. QED BY <1>3 DEF Once

(* The bodies of the clients: no output is among the instructions. *)
RequestBody == [instructions : Seq(Items), previous : 0..MaxRequests, input : Seq(Items)]
ClientBody ==
  {b \in RequestBody : \A i \in DOMAIN b.instructions : b.instructions[i].kind # "output"}

LEMMA NewMessagesAre ==
  ASSUME NEW body \in ClientBody, NEW outputs, IdSet(outputs) # {}
  PROVE  NewMessages(body, outputs) \in Seq(Talk)
<1> DEFINE input == body.input
           matched == {j \in DOMAIN input : /\ input[j].kind = "output"
                         /\ \E i \in 1..(j - 1) : input[i].kind = "call" /\ input[i].id = input[j].id}
           latest == CHOOSE j \in matched : \A i \in matched : i <= j
           fresh == SubSeq(input, latest + 1, Len(input))
           whole == body.instructions \o input
<1>1. input \in Seq(Items) /\ body.instructions \in Seq(Items)
  BY DEF ClientBody, RequestBody
<1>2. NewMessages(body, outputs) =
        IF {input[j].id : j \in matched} = IdSet(outputs)
        THEN ExtractRequest(fresh).messages ELSE ExtractRequest(whole).messages
  BY DEF NewMessages
<1>3. \A s \in Seq(Items) : ExtractRequest(s).messages \in Seq(Talk)
  BY ExtractRequestIs DEF Acc
<1>4. whole \in Seq(Items)
  BY <1>1, ConcatProperties
<1>5. ASSUME {input[j].id : j \in matched} = IdSet(outputs) PROVE fresh \in Seq(Items)
  <2>1. matched # {}
    BY <1>5
  <2>2. Len(input) \in Nat /\ matched \in SUBSET (1..Len(input))
    BY <1>1, SeqFacts
  <2> HIDE DEF input, matched
  <2>3. \E j \in matched : \A i \in matched : i <= j
    BY <2>1, <2>2, LatestExists
  <2>4. latest \in matched
    BY <2>3
  <2> HIDE DEF latest
  <2>5. latest + 1 \in 1..(Len(input) + 1)
    BY <2>2, <2>4
  <2>6. QED BY <1>1, <2>2, <2>5, SubSeqProperties
<1> HIDE DEF input, matched, fresh, whole
<1>6. QED BY <1>2, <1>3, <1>4, <1>5

(* What the payload is made of before the roles are normalized.            *)
Merged(body, stored) ==
  LET x == ExtractRequest(body.instructions \o body.input)
  IN  CASE x.outputs = <<>> -> Accepted(stored \o x.messages)
        [] x.outputs # <<>> /\ stored = <<>> -> RepairStatelessHistory(x.messages, x.outputs)
        [] OTHER -> [RepairHistory(stored, x.outputs) EXCEPT
                       !.messages = @ \o NewMessages(body, x.outputs)]

(* Each output is behind its call, given that the stored messages are sound *)
(* and end with the calls of all the outputs.                              *)
LEMMA MergedIs ==
  ASSUME NEW body \in ClientBody, NEW stored \in Seq(Msg), Behind(stored),
         stored # <<>> => \A j \in DOMAIN body.input : body.input[j].kind = "output" =>
                            MakesCall(stored[Len(stored)], body.input[j].id)
  PROVE  Merged(body, stored).messages \in Seq(Msg) /\ Behind(Merged(body, stored).messages)
<1> DEFINE items == body.instructions \o body.input
           x == ExtractRequest(items)
           replayed == RepairHistory(stored, x.outputs)
           stateless == RepairStatelessHistory(x.messages, x.outputs)
           merged ==
             CASE x.outputs = <<>> -> Accepted(stored \o x.messages)
               [] x.outputs # <<>> /\ stored = <<>> -> stateless
               [] OTHER -> [replayed EXCEPT !.messages = @ \o NewMessages(body, x.outputs)]
<1>0. body.input \in Seq(Items) /\ body.instructions \in Seq(Items)
      /\ \A i \in DOMAIN body.instructions : body.instructions[i].kind # "output"
  BY DEF ClientBody, RequestBody
<1>1. /\ x \in Acc /\ x.outputs \in Seq(Items) /\ items \in Seq(Items)
      /\ \A i \in DOMAIN x.outputs :
           x.outputs[i].kind = "output" /\ \E k \in DOMAIN items : items[k] = x.outputs[i]
  <2>1. items \in Seq(Items)
    BY <1>0, ConcatProperties
  <2> HIDE DEF items
  <2>2. QED BY <2>1, ExtractRequestIs
<1>2. \A i \in DOMAIN x.outputs :
        \E j \in DOMAIN body.input :
          body.input[j].kind = "output" /\ body.input[j].id = x.outputs[i].id
  <2> DEFINE a == body.instructions
             b == body.input
  <2>1. /\ Len(a) \in Nat /\ Len(b) \in Nat /\ DOMAIN a = 1..Len(a) /\ DOMAIN b = 1..Len(b)
        /\ DOMAIN items = 1..(Len(a) + Len(b))
        /\ \A k \in 1..Len(a) : items[k] = a[k]
        /\ \A k \in 1..Len(b) : items[Len(a) + k] = b[k]
    <3>1. a \in Seq(Items) /\ b \in Seq(Items) /\ items = a \o b
      BY <1>0
    <3> HIDE DEF a, b, items
    <3>2. QED BY <3>1, JoinFacts
  <2>2. \A i \in DOMAIN a : a[i].kind # "output"
    BY <1>0
  <2> HIDE DEF items, a, b, x
  <2>3. ASSUME NEW i \in DOMAIN x.outputs
        PROVE  \E j \in DOMAIN b : b[j].kind = "output" /\ b[j].id = x.outputs[i].id
    <3>1. PICK k \in DOMAIN items : items[k] = x.outputs[i] /\ items[k].kind = "output"
      BY <1>1
    <3>2. k \notin 1..Len(a)
      BY <2>1, <2>2, <3>1
    <3>3. PICK j \in 1..Len(b) : k = Len(a) + j
      <4>1. k - Len(a) \in 1..Len(b) /\ k = Len(a) + (k - Len(a))
        BY <2>1, <3>1, <3>2
      <4>2. QED BY <4>1
    <3>4. items[k] = b[j] /\ j \in DOMAIN b
      BY <2>1, <3>3
    <3>5. QED BY <3>1, <3>4
  <2>4. QED BY <2>3 DEF b
<1>3. Merged(body, stored) = merged
  BY DEF Merged
<1>4. x.messages \in Seq(Talk) /\ x.messages \in Seq(Msg) /\ x.outputs \in Seq(Items)
      /\ Behind(x.messages)
  BY <1>1, TalkIsBehind DEF Acc
<1> HIDE DEF items, x
<1>5. merged.messages \in Seq(Msg) /\ Behind(merged.messages)
  <2>1. CASE x.outputs = <<>>
    <3>1. merged.messages = stored \o x.messages
      BY <2>1 DEF Accepted
    <3>2. QED BY <1>4, <3>1, BehindJoin
  <2>2. CASE x.outputs # <<>> /\ stored = <<>>
    <3>1. merged = stateless
      BY <2>2
    <3>2. QED BY <1>4, <3>1, StatelessIs
  <2>3. CASE x.outputs # <<>> /\ stored # <<>>
    <3> DEFINE new == NewMessages(body, x.outputs)
    <3>1. \A i \in DOMAIN x.outputs : MakesCall(stored[Len(stored)], x.outputs[i].id)
      BY <1>2, <2>3
    <3>2. /\ replayed.messages \in Seq(Msg) /\ Behind(replayed.messages)
          /\ replayed = [ok |-> replayed.ok, messages |-> replayed.messages]
      BY <1>4, <2>3, <3>1, RepairedIs
    <3>3. IdSet(x.outputs) # {}
      <4>1. 1 \in DOMAIN x.outputs
        BY <1>4, <2>3, SeqFacts, EmptySeq
      <4>2. QED BY <4>1 DEF IdSet
    <3>4. new \in Seq(Msg) /\ Behind(new)
      BY <3>3, NewMessagesAre, TalkIsBehind
    <3>5. merged = [replayed EXCEPT !.messages = @ \o new]
      BY <2>3
    <3> HIDE DEF merged, new, replayed
    <3>6. merged.messages = replayed.messages \o new
      BY <3>2, <3>5
    <3>7. QED BY <3>2, <3>4, <3>6, BehindJoin
  <2>4. QED BY <2>1, <2>2, <2>3
<1> HIDE DEF merged
<1>6. QED BY <1>3, <1>5

(* The payload for the upstream says what was merged.                      *)
LEMMA PayloadIs ==
  ASSUME NEW body \in ClientBody, NEW stored \in Seq(Msg), Behind(stored),
         stored # <<>> => \A j \in DOMAIN body.input : body.input[j].kind = "output" =>
                            MakesCall(stored[Len(stored)], body.input[j].id)
  PROVE  /\ BuildChatPayload(body, stored).messages \in Seq(Msg)
         /\ BuildChatPayload(body, stored).ok =>
              /\ Behind(BuildChatPayload(body, stored).messages)
              /\ Once(BuildChatPayload(body, stored).messages)
              /\ Merged(body, stored).ok /\ Merged(body, stored).messages \in Seq(Msg)
              /\ Told(Heard, BuildChatPayload(body, stored).messages)
                   = Told(Heard, Merged(body, stored).messages)
<1> DEFINE merged == Merged(body, stored)
           final == IF merged.messages = <<>> THEN <<Message("user", <<>>)>> ELSE merged.messages
           messages == NormalizeUpstreamRoles(final)
           result == BuildChatPayload(body, stored)
<1>1. result = IF merged.ok /\ ValidChatToolHistory(messages) THEN Accepted(messages) ELSE Refused
  BY DEF BuildChatPayload, Merged
<1>2. merged.messages \in Seq(Msg) /\ Behind(merged.messages)
  BY MergedIs
<1> HIDE DEF merged
<1>3. final \in Seq(Msg) /\ Behind(final) /\ Told(Heard, final) = Told(Heard, merged.messages)
  <2> DEFINE m == Message("user", <<>>)
  <2>1. m \in Talk /\ m.role = "user" /\ m.items = <<>>
    <3>1. <<>> \in Seq(Items) /\ Quiet(<<>>)
      BY DEF Quiet
    <3>2. QED BY <3>1, MessageIs DEF Roles
  <2> HIDE DEF m
  <2>2. <<m>> \in Seq(Talk) /\ m \in Msg
    BY <2>1 DEF Talk
  <2>3. Told(Heard, <<m>>) = <<>> /\ Told(Heard, <<>>) = <<>>
    <3>1. Told(Heard, <<m>>) = Heard[m] /\ Told(Heard, <<>>) = <<>>
      BY <2>2, HeardAppend, EmptySeq
    <3>2. Heard[m] = <<>>
      BY <2>1, <2>2 DEF Heard
    <3>3. QED BY <3>1, <3>2
  <2>4. CASE merged.messages = <<>>
    BY <2>2, <2>3, <2>4, TalkIsBehind DEF m
  <2>5. CASE merged.messages # <<>>
    BY <1>2, <2>5
  <2>6. QED BY <2>4, <2>5
<1> HIDE DEF final
<1>4. messages \in Seq(Msg) /\ Behind(messages) /\ Told(Heard, messages) = Told(Heard, final)
  BY <1>3, NormalizedIs
<1> HIDE DEF messages, result
<1>5. CASE merged.ok /\ ValidChatToolHistory(messages)
  <2>1. result.messages = messages
    BY <1>1, <1>5 DEF Accepted
  <2>2. QED BY <1>2, <1>3, <1>4, <1>5, <2>1, ValidIsOnce DEF result, merged
<1>6. CASE ~ (merged.ok /\ ValidChatToolHistory(messages))
  <2>1. result.messages = <<>> /\ ~ result.ok
    BY <1>1, <1>6 DEF Refused
  <2>2. <<>> \in Seq(Msg)
    OBVIOUS
  <2>3. QED BY <2>1, <2>2 DEF result
<1>7. QED BY <1>5, <1>6

------------------------------------------------------------------------------
(* The store, and the requests of the clients.                             *)

Sound(messages) == messages \in Seq(Msg) /\ Behind(messages) /\ Once(messages)

EndsWithCalls(row) ==
  /\ row.messages # <<>>
  /\ \A k \in DOMAIN row.pending :
       MakesCall(row.messages[Len(row.messages)], row.pending[k])

StoreInv ==
  /\ TypeOK
  /\ Len(askers) <= MaxRequests
  /\ \A u \in upstream : u.number \in DOMAIN askers /\ Sound(u.messages)
  /\ \A n \in DOMAIN rows : Sound(rows[n].messages) /\ EndsWithCalls(rows[n])

(* The messages a request continues.                                       *)
Continued(body) ==
  IF PreviousResponse(body).row = 0 THEN <<>> ELSE rows[PreviousResponse(body).row].messages

LEMMA PreparedIs ==
  ASSUME StoreInv, NEW body \in ClientBody
  PROVE  /\ Prepare(body).messages \in Seq(Msg)
         /\ Prepare(body).ok =>
              /\ Sound(Prepare(body).messages) /\ PreviousResponse(body).ok
              /\ Merged(body, Continued(body)).ok
              /\ Merged(body, Continued(body)).messages \in Seq(Msg)
              /\ Told(Heard, Prepare(body).messages)
                   = Told(Heard, Merged(body, Continued(body)).messages)
<1> DEFINE previous == PreviousResponse(body)
           n == previous.row
           ids == FunctionOutputCallIds(body)
           stored == IF n = 0 THEN <<>> ELSE rows[n].messages
           payload == BuildChatPayload(body, stored)
<1>1. body.input \in Seq(Items)
  BY DEF ClientBody, RequestBody
<1>2. n = IF body.previous # 0
          THEN IF Live(body.previous) THEN body.previous ELSE 0
          ELSE IF ids = <<>> THEN 0 ELSE FindByCallIds(ids)
  BY DEF PreviousResponse
<1>3. previous.ok <=> /\ NoDuplicateCallOutputs(ids)
                      /\ n = 0 => ids = <<>>
                      /\ n # 0 => ToSet(ids) \subseteq ToSet(rows[n].pending)
  BY DEF PreviousResponse
<1>4. Prepare(body) = IF previous.ok THEN payload ELSE Refused
  BY DEF Prepare
<1>5. FindByCallIds(ids) # 0 => FindByCallIds(ids) \in DOMAIN rows
  BY DEF FindByCallIds, LiveRows
<1>6. Live(body.previous) => body.previous \in DOMAIN rows
  BY DEF Live
<1>7. ids = <<>> \/ ids = Ids(OfKind(body.input, "output"))
  BY DEF FunctionOutputCallIds
<1>8. body.previous # 0 => ids = Ids(OfKind(body.input, "output"))
  BY DEF FunctionOutputCallIds
<1>9. Continued(body) = stored
  BY DEF Continued
<1> HIDE DEF previous, ids
<1>10. n # 0 => n \in DOMAIN rows /\ ids = Ids(OfKind(body.input, "output"))
  BY <1>2, <1>5, <1>6, <1>7, <1>8
<1> HIDE DEF n
<1>11. CASE previous.ok
  <2>1. stored \in Seq(Msg) /\ Behind(stored)
    <3>1. CASE n = 0
      <4>1. <<>> \in Seq(Msg) /\ Behind(<<>>)
        BY DEF Behind
      <4>2. QED BY <3>1, <4>1
    <3>2. CASE n # 0
      <4>1. rows[n] \in Row /\ Sound(rows[n].messages)
        BY <1>10, <3>2 DEF StoreInv, TypeOK
      <4>2. QED BY <3>2, <4>1 DEF Sound
    <3>3. QED BY <3>1, <3>2
  <2>2. ASSUME stored # <<>>, NEW j \in DOMAIN body.input, body.input[j].kind = "output"
        PROVE  MakesCall(stored[Len(stored)], body.input[j].id)
    <3> DEFINE t == OfKind(body.input, "output")
               id == body.input[j].id
    <3>1. n # 0 /\ stored = rows[n].messages
      BY <2>2
    <3>2. PICK i \in DOMAIN t : t[i] = body.input[j]
      <4> DEFINE s == body.input
      <4>1. s \in Seq(Items) /\ j \in DOMAIN s /\ s[j].kind = "output" /\ t = OfKind(s, "output")
        BY <1>1, <2>2
      <4> HIDE DEF s, t
      <4>2. \A k \in DOMAIN s : s[k].kind = "output" => \E i \in DOMAIN t : t[i] = s[k]
        BY <4>1, OfKindFacts
      <4>3. \E i \in DOMAIN t : t[i] = s[j]
        BY <4>1, <4>2
      <4>4. QED BY <4>3 DEF s
    <3>3. id \in ToSet(ids)
      <4>1. ids = Ids(t)
        BY <1>10, <3>1
      <4>2. i \in DOMAIN ids /\ ids[i] = id
        BY <3>2, <4>1 DEF Ids
      <4>3. QED BY <4>2 DEF ToSet
    <3> HIDE DEF t, id
    <3>4. id \in ToSet(rows[n].pending)
      BY <1>3, <1>11, <3>1, <3>3
    <3>5. PICK k \in DOMAIN rows[n].pending : rows[n].pending[k] = id
      BY <3>4 DEF ToSet
    <3>6. EndsWithCalls(rows[n])
      BY <1>10, <3>1 DEF StoreInv
    <3> HIDE DEF stored
    <3>7. MakesCall(stored[Len(stored)], id)
      BY <3>1, <3>5, <3>6 DEF EndsWithCalls
    <3>8. QED BY <3>7 DEF id
  <2> HIDE DEF stored
  <2>3. /\ payload.messages \in Seq(Msg)
        /\ payload.ok =>
             /\ Behind(payload.messages) /\ Once(payload.messages)
             /\ Merged(body, stored).ok /\ Merged(body, stored).messages \in Seq(Msg)
             /\ Told(Heard, payload.messages) = Told(Heard, Merged(body, stored).messages)
    BY <2>1, <2>2, PayloadIs
  <2> HIDE DEF payload
  <2>4. QED BY <1>4, <1>9, <1>11, <2>3 DEF Sound, previous
<1>12. CASE ~ previous.ok
  <2>1. Prepare(body) = Refused
    BY <1>4, <1>12
  <2>2. <<>> \in Seq(Msg)
    OBVIOUS
  <2>3. QED BY <2>1, <2>2 DEF Refused
<1>13. QED BY <1>11, <1>12

LEMMA DueIs ==
  ASSUME TypeOK, NEW c \in Clients
  PROVE  Due(c) \in Seq(Items)
<1> DEFINE t == Picked(said[c], {x \in ToSet(said[c]) : x.tag = last[c]})
<1>1. said[c] \in Seq(Items)
  BY DEF TypeOK
<1>2. t \in Seq(Items)
  BY <1>1, PickedFacts
<1>3. Due(c) = OfKind(t, "call")
  BY DEF Due
<1> HIDE DEF t
<1>4. QED BY <1>2, <1>3, OfKindFacts

LEMMA ItemIs ==
  ASSUME NEW kind \in {"user", "system", "text", "call", "output"},
         NEW id \in CallIds \cup {NoId}, NEW n \in Numbers
  PROVE  Item(kind, id, n) \in Items /\ Item(kind, id, n).kind = kind /\ Item(kind, id, n).id = id
BY DEF Item, Items

LEMMA TurnsAre ==
  ASSUME TypeOK, NEW c \in Clients, NEW n \in Numbers, NEW turn \in Turns(c, n)
  PROVE  turn \in Seq(Items)
<1> DEFINE user == <<Item("user", NoId, n)>>
           part(s) == Picked(Due(c), {x \in ToSet(Due(c)) : x.id \in s})
<1>1. user \in Seq(Items)
  BY ItemIs
<1>2. ASSUME NEW s PROVE Outputs(part(s), n) \in Seq(Items)
  <2> DEFINE t == part(s)
  <2>1. t \in Seq(Items)
    BY DueIs, PickedFacts
  <2> HIDE DEF t
  <2>2. Len(t) \in Nat /\ DOMAIN t = 1..Len(t) /\ \A i \in 1..Len(t) : t[i] \in Items
    BY <2>1, SeqFacts
  <2>3. \A i \in 1..Len(t) : Item("output", t[i].id, n) \in Items
    <3>1. \A x \in Items : x.id \in CallIds \cup {NoId}
      BY DEF Items
    <3>2. QED BY <2>2, <3>1, ItemIs
  <2>4. Outputs(t, n) \in [1..Len(t) -> Items]
    BY <2>2, <2>3 DEF Outputs
  <2>5. Outputs(t, n) \in Seq(Items)
    BY <2>2, <2>4
  <2>6. QED BY <2>5 DEF t
<1> DEFINE some == {Outputs(part(s), n) : s \in (SUBSET IdSet(Due(c))) \ {{}}}
<1>3. Turns(c, n) = {user} \cup some \cup {outs \o user : outs \in some}
  BY DEF Turns
<1>4. \A outs \in some : outs \in Seq(Items)
  BY <1>2
<1> HIDE DEF some, user
<1>5. \A outs \in some : outs \o user \in Seq(Items)
  BY <1>1, <1>4, ConcatProperties
<1>6. QED BY <1>1, <1>3, <1>4, <1>5

LEMMA BodiesAre ==
  ASSUME TypeOK, NEW c \in Clients, NEW n \in Numbers, NEW turn \in Turns(c, n),
         NEW body \in Bodies(c, n, turn)
  PROVE  /\ body \in ClientBody
         /\ said[c] \o turn \in Seq(Items)
<1>1. turn \in Seq(Items) /\ said[c] \in Seq(Items)
  BY TurnsAre DEF TypeOK
<1>2. said[c] \o turn \in Seq(Items)
  BY <1>1, ConcatProperties
<1>3. \A previous \in 0..MaxRequests : \A input \in Seq(Items) :
        Body(n, previous, input) \in ClientBody
  <2> DEFINE sys == Item("system", NoId, n)
  <2>1. sys \in Items /\ sys.kind = "system"
    BY ItemIs
  <2> HIDE DEF sys
  <2>2. <<sys>> \in Seq(Items) /\ \A i \in DOMAIN <<sys>> : <<sys>>[i].kind # "output"
    BY <2>1
  <2>3. QED BY <2>2 DEF Body, ClientBody, RequestBody, sys
<1>4. last[c] \in 0..MaxRequests /\ 0 \in 0..MaxRequests
  BY BoundsAssumption DEF TypeOK
<1>5. body \in {Body(n, last[c], turn), Body(n, 0, said[c] \o turn),
                Body(n, 0, turn), Body(n, last[c], said[c] \o turn)}
  BY DEF Bodies
<1>6. QED BY <1>1, <1>2, <1>3, <1>4, <1>5

(* A reply is one message, or calls with an id each.                       *)
LEMMA ReplyForms ==
  ASSUME NEW n \in Numbers, NEW output \in Replies(n)
  PROVE  /\ output \in Seq(Items) /\ Quiet(output) /\ \A k \in DOMAIN output : output[k].tag = n
         /\ \/ /\ output = <<Item("text", NoId, n)>> /\ Item("text", NoId, n) \in Items
               /\ Item("text", NoId, n).kind = "text"
            \/ /\ output \in Seq(Kind("call")) /\ output # <<>>
               /\ NoDuplicateCallOutputs(Ids(output))
               /\ \A k \in DOMAIN output : output[k].id \in CallIds
<1>1. CASE output = <<Item("text", NoId, n)>>
  <2> DEFINE text == Item("text", NoId, n)
  <2>1. text \in Items /\ text.kind = "text" /\ text.tag = n
    BY ItemIs DEF Item
  <2> HIDE DEF text
  <2>2. output = <<text>>
    BY <1>1 DEF text
  <2>3. DOMAIN output = {1} /\ output[1] = text /\ output \in Seq(Items)
    BY <2>1, <2>2
  <2>4. QED BY <2>1, <2>2, <2>3 DEF Quiet, text
<1>2. CASE output # <<Item("text", NoId, n)>>
  <2>1. PICK ids \in SeqOf(CallIds, MaxCalls) :
          /\ output = [i \in DOMAIN ids |-> Item("call", ids[i], n)]
          /\ ids # <<>> /\ NoDuplicateCallOutputs(ids)
    BY <1>2 DEF Replies
  <2>2. PICK m \in Nat : ids \in [1..m -> CallIds]
    BY BoundsAssumption DEF SeqOf
  <2> DEFINE C == Kind("call")
  <2>3. \A i \in 1..m : /\ Item("call", ids[i], n) \in C
                        /\ Item("call", ids[i], n).id = ids[i] /\ Item("call", ids[i], n).tag = n
    BY <2>2, ItemIs DEF Kind, Item
  <2> HIDE DEF C
  <2>4. /\ output \in [1..m -> C] /\ DOMAIN output = 1..m
        /\ \A i \in 1..m : output[i].id = ids[i] /\ output[i].tag = n /\ ids[i] \in CallIds
    BY <2>1, <2>2, <2>3
  <2>5. output \in Seq(C) /\ output # <<>>
    <3>1. output \in Seq(C)
      BY <2>4
    <3>2. m # 0
      BY <2>1, <2>2
    <3>3. QED BY <2>4, <3>1, <3>2
  <2>6. Ids(output) = ids
    BY <2>2, <2>4 DEF Ids
  <2>7. output \in Seq(Items) /\ Quiet(output)
    BY <2>5, KindSeq DEF C
  <2>8. QED BY <2>1, <2>4, <2>5, <2>6, <2>7 DEF C
<1>3. QED BY <1>1, <1>2

LEMMA RepliesAre ==
  ASSUME NEW n \in Numbers, NEW output \in Replies(n)
  PROVE  /\ output \in Seq(Items) /\ Quiet(output)
         /\ PendingCallIds(output) \in Seq(CallIds)
         /\ \A k \in DOMAIN PendingCallIds(output) :
              MakesCall(Message("assistant", output), PendingCallIds(output)[k])
<1>1. /\ output \in Seq(Items) /\ Quiet(output)
      /\ \A k \in DOMAIN output : output[k].kind = "call" => output[k].id \in CallIds
  <2>1. CASE output = <<Item("text", NoId, n)>>
    <3> DEFINE text == Item("text", NoId, n)
    <3>1. output = <<text>> /\ text.kind = "text"
      BY <2>1, ReplyForms DEF Item
    <3> HIDE DEF text
    <3>2. QED BY <3>1, ReplyForms
  <2>2. CASE output # <<Item("text", NoId, n)>>
    BY <2>2, ReplyForms
  <2>3. QED BY <2>1, <2>2
<1> DEFINE t == OfKind(output, "call")
           m == Message("assistant", output)
<1>2. /\ t \in Seq(Items)
      /\ \A i \in DOMAIN t : t[i].kind = "call" /\ \E k \in DOMAIN output : output[k] = t[i]
  BY <1>1, OfKindFacts
<1>3. m.role = "assistant" /\ m.items = output
  BY DEF Message
<1>4. PendingCallIds(output) = Ids(t)
  BY DEF PendingCallIds
<1> HIDE DEF t, m
<1>5. ASSUME NEW i \in DOMAIN t PROVE t[i].id \in CallIds /\ MakesCall(m, t[i].id)
  <2>1. PICK k \in DOMAIN output : output[k] = t[i] /\ output[k].kind = "call"
    BY <1>2
  <2>2. QED BY <1>1, <1>3, <2>1 DEF MakesCall
<1>6. Len(t) \in Nat /\ DOMAIN t = 1..Len(t)
  BY <1>2, SeqFacts
<1>7. Ids(t) = [i \in 1..Len(t) |-> t[i].id]
  BY <1>6 DEF Ids
<1>8. Ids(t) \in [1..Len(t) -> CallIds]
  BY <1>5, <1>6, <1>7
<1>9. Ids(t) \in Seq(CallIds)
  BY <1>6, <1>8
<1>10. QED BY <1>1, <1>4, <1>5, <1>6, <1>7, <1>9 DEF m

(* The answer of the upstream, behind the messages it was sent. *)
LEMMA StoredIs ==
  ASSUME NEW messages \in Seq(Msg), Sound(messages), NEW m \in Talk
  PROVE  LET s == Append(messages, m) IN
         s \in Seq(Msg) /\ Sound(s) /\ s # <<>> /\ s[Len(s)] = m
<1> DEFINE s == Append(messages, m)
           n == Len(messages)
<1>1. m \in Msg /\ m.role # "tool" /\ <<m>> \in Seq(Talk)
  BY DEF Talk
<1>2. s = messages \o <<m>>
  BY <1>1, AppendIsConcat
<1>3. /\ n \in Nat /\ s \in Seq(Msg) /\ Len(s) = n + 1 /\ DOMAIN s = 1..(n + 1)
      /\ s[n + 1] = m /\ DOMAIN messages = 1..n /\ \A i \in 1..n : s[i] = messages[i]
  BY <1>1, AppendProperties, SeqFacts
<1> HIDE DEF s
<1>4. Behind(s)
  BY <1>1, <1>2, TalkIsBehind, BehindJoin DEF Sound
<1>5. Once(s)
  <2>1. \A i \in DOMAIN s : s[i].role = "tool" => i \in DOMAIN messages
    <3>1. \A i \in DOMAIN s : i = n + 1 \/ i \in 1..n
      BY <1>3
    <3>2. QED BY <1>1, <1>3, <3>1
  <2>2. \A i \in DOMAIN messages : s[i] = messages[i]
    BY <1>3
  <2>3. QED BY <2>1, <2>2 DEF Once, Sound
<1>6. s # <<>> /\ s[Len(s)] = m
  <2>1. Len(s) # 0
    BY <1>3
  <2>2. s # <<>>
    BY <2>1
  <2>3. QED BY <1>3, <2>2
<1>7. QED BY <1>3, <1>4, <1>5, <1>6 DEF s, Sound


------------------------------------------------------------------------------
LEMMA InitHolds == Init => StoreInv
<1> SUFFICES ASSUME Init PROVE StoreInv
  OBVIOUS
<1>1. MaxRequests \in Nat /\ MaxClock \in Nat
  BY BoundsAssumption
<1>2. DOMAIN rows = {} /\ Len(askers) = 0 /\ askers \in Seq(Clients) /\ <<>> \in Seq(Items)
  BY DEF Init
<1>3. 0 \in 0..MaxRequests /\ 0 \in 0..MaxClock
  BY <1>1
<1>4. TypeOK
  BY <1>2, <1>3 DEF Init, TypeOK
<1>5. QED BY <1>1, <1>2, <1>4 DEF Init, StoreInv

LEMMA AskKeeps ==
  ASSUME StoreInv, NEW c \in Clients, Ask(c) PROVE StoreInv'
<1> DEFINE n == Len(askers) + 1
<1>0. TypeOK /\ Len(askers) <= MaxRequests
  BY DEF StoreInv
<1>1. PICK turn \in Turns(c, n) : \E body \in Bodies(c, n, turn) :
       /\ Prepare(body).ok
       /\ upstream' = upstream \cup
            {[number |-> n, client |-> c, body |-> body, at |-> clock,
              messages |-> Prepare(body).messages, said |-> said[c] \o turn,
              kept |-> \/ body.previous = 0 /\ body.input = said[c] \o turn
                       \/ kept[c] /\ Live(last[c])]}
  BY DEF Ask
<1>2. PICK body \in Bodies(c, n, turn) :
       /\ Prepare(body).ok
       /\ upstream' = upstream \cup
            {[number |-> n, client |-> c, body |-> body, at |-> clock,
              messages |-> Prepare(body).messages, said |-> said[c] \o turn,
              kept |-> \/ body.previous = 0 /\ body.input = said[c] \o turn
                       \/ kept[c] /\ Live(last[c])]}
  BY <1>1
<1> DEFINE u == [number |-> n, client |-> c, body |-> body, at |-> clock,
              messages |-> Prepare(body).messages, said |-> said[c] \o turn,
              kept |-> \/ body.previous = 0 /\ body.input = said[c] \o turn
                       \/ kept[c] /\ Live(last[c])]
<1>3. /\ upstream' = upstream \cup {u} /\ askers' = Append(askers, c)
      /\ waits' = [waits EXCEPT ![c] = n] /\ n <= MaxRequests
      /\ UNCHANGED <<clock, rows, last, said, kept>>
  BY <1>2 DEF Ask
<1>4. /\ Len(askers) \in Nat /\ DOMAIN askers = 1..Len(askers)
      /\ n \in Numbers /\ n \in 1..MaxRequests
  BY <1>0, <1>3, BoundsAssumption, SeqFacts DEF TypeOK, Numbers
<1>5. /\ askers' \in Seq(Clients) /\ Len(askers') = n /\ DOMAIN askers' = 1..n
  <2>1. askers \in Seq(Clients)
    BY <1>0 DEF TypeOK
  <2>2. QED BY <1>3, <1>4, <2>1, AppendProperties, SeqFacts
<1>6. body \in ClientBody /\ said[c] \o turn \in Seq(Items)
  BY <1>0, <1>4, BodiesAre
<1>7. Prepare(body).messages \in Seq(Msg) /\ Sound(Prepare(body).messages)
  BY <1>2, <1>6, PreparedIs
<1>8. u \in Request /\ u.number = n /\ Sound(u.messages)
  <2>1. clock \in 0..MaxClock
    BY <1>0 DEF TypeOK
  <2>2. Prepare(body).messages \in Messages
    BY <1>7, MessagesAre
  <2>3. body \in [instructions : Seq(Items), previous : 0..MaxRequests, input : Seq(Items)]
    BY <1>6 DEF ClientBody, RequestBody
  <2>4. (\/ body.previous = 0 /\ body.input = said[c] \o turn
         \/ kept[c] /\ Live(last[c])) \in BOOLEAN
    OBVIOUS
  <2> DEFINE b == \/ body.previous = 0 /\ body.input = said[c] \o turn
                  \/ kept[c] /\ Live(last[c])
             s == said[c] \o turn
             p == Prepare(body).messages
  <2> HIDE DEF b, s, p, n
  <2>5. u = [number |-> n, client |-> c, body |-> body, at |-> clock,
             messages |-> p, said |-> s, kept |-> b]
    BY DEF b, s, p
  <2>6. s \in Seq(Items) /\ b \in BOOLEAN /\ p \in Messages /\ Sound(p)
    BY <1>6, <1>7, <2>2, <2>4 DEF s, b, p
  <2> HIDE DEF u
  <2>7. QED BY <1>4, <2>1, <2>3, <2>5, <2>6 DEF Request
<1> HIDE DEF u, n
<1>9. TypeOK'
  <2>1. DOMAIN rows' \subseteq DOMAIN askers' /\ \A m \in DOMAIN rows' : rows'[m] \in Row
    <3>1. DOMAIN askers \subseteq DOMAIN askers'
      BY <1>4, <1>5 DEF n
    <3>2. QED BY <1>0, <1>3, <3>1 DEF TypeOK
  <2>2. waits' \in [Clients -> 0..MaxRequests]
    <3>1. n \in 0..MaxRequests
      BY <1>4, BoundsAssumption
    <3>2. QED BY <1>0, <1>3, <3>1 DEF TypeOK
  <2>3. upstream' \subseteq Request
    BY <1>0, <1>3, <1>8 DEF TypeOK
  <2>4. QED BY <1>0, <1>3, <1>5, <2>1, <2>2, <2>3 DEF TypeOK
<1>10. ASSUME NEW v \in upstream' PROVE v.number \in DOMAIN askers' /\ Sound(v.messages)
  <2>1. CASE v \in upstream
    <3>1. v.number \in DOMAIN askers /\ Sound(v.messages)
      BY <2>1 DEF StoreInv
    <3>2. QED BY <1>4, <1>5, <3>1 DEF n
  <2>2. CASE v = u
    BY <1>4, <1>5, <1>8, <2>2 DEF n
  <2>3. QED BY <1>3, <2>1, <2>2
<1>11. \A m \in DOMAIN rows' : Sound(rows'[m].messages) /\ EndsWithCalls(rows'[m])
  BY <1>3 DEF StoreInv
<1>12. Len(askers') <= MaxRequests
  BY <1>3, <1>5
<1>13. QED BY <1>9, <1>10, <1>11, <1>12 DEF StoreInv

LEMMA FinishKeeps ==
  ASSUME StoreInv, NEW u \in upstream, Finish(u) PROVE StoreInv'
<1>0. /\ TypeOK /\ Len(askers) <= MaxRequests /\ u \in Request
      /\ u.number \in DOMAIN askers /\ Sound(u.messages)
  BY DEF StoreInv, TypeOK
<1>1. PICK output \in Replies(u.number), created \in {u.at, clock} :
       /\ rows' = [n \in DOMAIN rows \cup {u.number} |->
            IF n = u.number
            THEN [messages |-> Append(u.messages, Message("assistant", output)),
                  pending |-> PendingCallIds(output),
                  created |-> created, previous |-> u.body.previous]
            ELSE rows[n]]
       /\ IF waits[u.client] = u.number
          THEN /\ said' = [said EXCEPT ![u.client] = u.said \o output]
               /\ kept' = [kept EXCEPT ![u.client] = u.kept]
               /\ last' = [last EXCEPT ![u.client] = u.number]
               /\ waits' = [waits EXCEPT ![u.client] = 0]
          ELSE UNCHANGED <<said, kept, last, waits>>
  BY DEF Finish
<1>2. upstream' = upstream \ {u} /\ clock' = clock /\ askers' = askers
  BY DEF Finish
<1> DEFINE m == Message("assistant", output)
           row == [messages |-> Append(u.messages, m), pending |-> PendingCallIds(output),
                   created |-> created, previous |-> u.body.previous]
<1>3. /\ u.number \in 1..MaxRequests /\ u.client \in Clients /\ u.at \in 0..MaxClock
      /\ clock \in 0..MaxClock /\ u.messages \in Seq(Msg) /\ u.said \in Seq(Items)
      /\ u.kept \in BOOLEAN /\ u.body.previous \in 0..MaxRequests
  BY <1>0 DEF Request, TypeOK, Sound
<1>4. /\ output \in Seq(Items) /\ Quiet(output) /\ PendingCallIds(output) \in Seq(CallIds)
      /\ \A k \in DOMAIN PendingCallIds(output) : MakesCall(m, PendingCallIds(output)[k])
  <2>1. u.number \in Numbers
    BY <1>3, BoundsAssumption DEF Numbers
  <2>2. QED BY <2>1, RepliesAre
<1>5. m \in Talk
  BY <1>4, MessageIs DEF Roles
<1>6. row \in Row /\ Sound(row.messages) /\ EndsWithCalls(row)
  <2> DEFINE s == Append(u.messages, m)
  <2> HIDE DEF m
  <2>1. s \in Seq(Msg) /\ Sound(s) /\ s # <<>> /\ s[Len(s)] = m
    BY <1>0, <1>3, <1>5, StoredIs
  <2>2. created \in 0..MaxClock
    BY <1>3
  <2> HIDE DEF s
  <2>3. row = [messages |-> s, pending |-> PendingCallIds(output),
               created |-> created, previous |-> u.body.previous]
    BY DEF s
  <2>4. s \in Messages
    BY <2>1, MessagesAre
  <2> HIDE DEF row
  <2>5. QED BY <1>3, <1>4, <2>1, <2>2, <2>3, <2>4 DEF Row, EndsWithCalls
<1>7. rows' = [n \in DOMAIN rows \cup {u.number} |-> IF n = u.number THEN row ELSE rows[n]]
  BY <1>1
<1> HIDE DEF row, m
<1>8. /\ DOMAIN rows' = DOMAIN rows \cup {u.number}
      /\ \A n \in DOMAIN rows' : rows'[n] = row \/ (n \in DOMAIN rows /\ rows'[n] = rows[n])
  BY <1>7
<1>9. \A n \in DOMAIN rows' :
        rows'[n] \in Row /\ Sound(rows'[n].messages) /\ EndsWithCalls(rows'[n])
  <2>1. \A n \in DOMAIN rows :
          rows[n] \in Row /\ Sound(rows[n].messages) /\ EndsWithCalls(rows[n])
    BY DEF StoreInv, TypeOK
  <2>2. QED BY <1>6, <1>8, <2>1
<1>10. /\ said' \in [Clients -> Seq(Items)] /\ kept' \in [Clients -> BOOLEAN]
       /\ last' \in [Clients -> 0..MaxRequests] /\ waits' \in [Clients -> 0..MaxRequests]
  <2>1. /\ said \in [Clients -> Seq(Items)] /\ kept \in [Clients -> BOOLEAN]
        /\ last \in [Clients -> 0..MaxRequests] /\ waits \in [Clients -> 0..MaxRequests]
    BY <1>0 DEF TypeOK
  <2>2. CASE waits[u.client] = u.number
    <3>1. u.said \o output \in Seq(Items)
      BY <1>3, <1>4, ConcatProperties
    <3>2. u.number \in 0..MaxRequests /\ 0 \in 0..MaxRequests
      BY <1>3, BoundsAssumption
    <3>3. QED BY <1>1, <1>3, <2>1, <2>2, <3>1, <3>2
  <2>3. CASE waits[u.client] # u.number
    BY <1>1, <2>1, <2>3
  <2>4. QED BY <2>2, <2>3
<1>11. TypeOK'
  <2>1. DOMAIN rows' \subseteq DOMAIN askers'
    BY <1>0, <1>2, <1>8 DEF TypeOK
  <2>2. upstream' \subseteq Request /\ clock' \in 0..MaxClock /\ askers' \in Seq(Clients)
    BY <1>0, <1>2 DEF TypeOK
  <2>3. QED BY <1>9, <1>10, <2>1, <2>2 DEF TypeOK
<1>12. \A v \in upstream' : v.number \in DOMAIN askers' /\ Sound(v.messages)
  BY <1>2 DEF StoreInv
<1>13. QED BY <1>0, <1>2, <1>9, <1>11, <1>12 DEF StoreInv

LEMMA FailKeeps ==
  ASSUME StoreInv, NEW u \in upstream, Fail(u) PROVE StoreInv'
<1>1. /\ upstream' = upstream \ {u}
      /\ waits' = [waits EXCEPT ![u.client] = IF @ = u.number THEN 0 ELSE @]
      /\ UNCHANGED <<clock, askers, rows, last, said, kept>>
  BY DEF Fail
<1>2. waits' \in [Clients -> 0..MaxRequests]
  <2>1. waits \in [Clients -> 0..MaxRequests] /\ 0 \in 0..MaxRequests
    BY BoundsAssumption DEF StoreInv, TypeOK
  <2>2. QED BY <1>1, <2>1
<1>3. TypeOK'
  BY <1>1, <1>2 DEF StoreInv, TypeOK
<1>4. QED BY <1>1, <1>3 DEF StoreInv

LEMMA OthersKeep ==
  ASSUME StoreInv, (\E c \in Clients : HangUp(c)) \/ Tick \/ Crash \/ UNCHANGED vars
  PROVE  StoreInv'
<1>0. TypeOK /\ 0 \in 0..MaxRequests
  BY BoundsAssumption DEF StoreInv
<1>1. CASE \E c \in Clients : HangUp(c)
  <2>1. PICK c \in Clients : HangUp(c)
    BY <1>1
  <2>2. TypeOK'
    BY <1>0, <2>1 DEF TypeOK, HangUp
  <2>3. QED BY <2>1, <2>2 DEF HangUp, StoreInv
<1>2. CASE Tick
  <2>1. clock' \in 0..MaxClock
    BY <1>0, <1>2, BoundsAssumption DEF TypeOK, Tick
  <2>2. TypeOK'
    BY <1>0, <1>2, <2>1 DEF TypeOK, Tick
  <2>3. QED BY <1>2, <2>2 DEF Tick, StoreInv
<1>3. CASE Crash
  <2>1. TypeOK'
    BY <1>0, <1>3 DEF TypeOK, Crash
  <2>2. QED BY <1>3, <2>1 DEF Crash, StoreInv
<1>4. CASE UNCHANGED vars
  BY <1>0, <1>4 DEF vars, TypeOK, StoreInv
<1>5. QED BY <1>1, <1>2, <1>3, <1>4

LEMMA StoreInvariant == Spec => []StoreInv
<1>1. Init => StoreInv
  BY InitHolds
<1>2. StoreInv /\ [Next]_vars => StoreInv'
  <2> SUFFICES ASSUME StoreInv, [Next]_vars PROVE StoreInv'
    OBVIOUS
  <2>1. CASE \E c \in Clients : Ask(c)
    BY <2>1, AskKeeps
  <2>2. CASE \E u \in upstream : Finish(u)
    BY <2>2, FinishKeeps
  <2>3. CASE \E u \in upstream : Fail(u)
    BY <2>3, FailKeeps
  <2>4. CASE (\E c \in Clients : HangUp(c)) \/ Tick \/ Crash \/ UNCHANGED vars
    BY <2>4, OthersKeep
  <2>5. QED BY <2>1, <2>2, <2>3, <2>4 DEF Next
<1>3. QED BY <1>1, <1>2, PTL DEF Spec

LEMMA SoundFollows == StoreInv => OutputsFollowCalls
<1> SUFFICES ASSUME StoreInv PROVE OutputsFollowCalls
  OBVIOUS
<1>1. ASSUME NEW messages, Sound(messages)
      PROVE  LET Answers(i, j) ==
                   /\ messages[i].role = "assistant"
                   /\ \E k \in DOMAIN messages[i].items :
                        messages[i].items[k].kind = "call"
                        /\ messages[i].items[k].id = messages[j].items[1].id
                   /\ \A k \in (i + 1)..(j - 1) : messages[k].role = "tool"
                 tools == {j \in DOMAIN messages : messages[j].role = "tool"}
             IN  /\ \A j \in tools : \E i \in 1..(j - 1) : Answers(i, j)
                 /\ \A i, j \in tools :
                      messages[i].items[1].id = messages[j].items[1].id => i = j
  BY <1>1 DEF Sound, Behind, Once, AnswersAt, MakesCall
<1>2. /\ \A u \in upstream : Sound(u.messages)
      /\ \A n \in DOMAIN rows : Sound(rows[n].messages)
  BY DEF StoreInv
<1> HIDE DEF StoreInv
<1>3. QED BY <1>1, <1>2 DEF OutputsFollowCalls

(* The type invariant of Continuation.                                     *)
THEOREM ContinuationTyped == Spec => []TypeOK
<1>1. StoreInv => TypeOK
  BY DEF StoreInv
<1>2. QED BY <1>1, StoreInvariant, PTL

(* In every request and in every stored row each output stands right       *)
(* behind the message that made its call, and answers it alone, however    *)
(* many clients, call ids, turns and calls there are, whatever was sent    *)
(* again or given up, and whichever way a conversation was continued.      *)
THEOREM OutputsBehindCalls == Spec => []OutputsFollowCalls
<1>1. QED BY SoundFollows, StoreInvariant, PTL

------------------------------------------------------------------------------
(* What extract_request makes of a run of items of one kind.               *)

Plain == {x \in Items : x.kind \in {"user", "text"}}
Flushed(s) == Extracted(s).calls = <<>>
Extractable(s) == ExtractRequest(s).messages

(* Each item that is no call and no output becomes a message.              *)
Alone == [x \in Plain |-> <<Message(RoleOf(x), <<x>>)>>]

LEMMA AloneIs ==
  /\ Tells(Alone, Plain, Talk)
  /\ \A x \in Plain : /\ Message(RoleOf(x), <<x>>) \in Talk
                      /\ Message(RoleOf(x), <<x>>).items = <<x>>
                      /\ Message(RoleOf(x), <<x>>).role \in {"user", "assistant"}
                      /\ <<x>> \in Seq(Items) /\ <<x>>[1] = x /\ Len(<<x>>) = 1
<1>1. ASSUME NEW x \in Plain
      PROVE  /\ Message(RoleOf(x), <<x>>) \in Talk
             /\ Message(RoleOf(x), <<x>>).items = <<x>>
             /\ Message(RoleOf(x), <<x>>).role \in {"user", "assistant"}
             /\ <<x>> \in Seq(Items) /\ <<x>>[1] = x /\ Len(<<x>>) = 1
  <2>1. x \in Items /\ x.kind \in {"user", "text"}
    BY DEF Plain
  <2>2. RoleOf(x) \in {"user", "assistant"} /\ RoleOf(x) \in Roles
    BY <2>1 DEF RoleOf, Roles
  <2>3. <<x>> \in Seq(Items) /\ <<x>>[1] = x /\ Len(<<x>>) = 1 /\ Quiet(<<x>>)
    BY <2>1 DEF Quiet
  <2> DEFINE s == <<x>>
             r == RoleOf(x)
  <2> HIDE DEF s, r
  <2>4. Message(r, s) \in Talk /\ Message(r, s).items = s /\ Message(r, s).role = r
    <3>1. s \in Seq(Items) /\ Quiet(s) /\ r \in Roles /\ r # "tool"
      BY <2>2, <2>3 DEF s, r
    <3>2. QED BY <3>1, MessageIs
  <2>5. QED BY <2>2, <2>3, <2>4 DEF s, r
<1>2. \A x \in Plain : <<Message(RoleOf(x), <<x>>)>> \in Seq(Talk)
  <2> TAKE x \in Plain
  <2> DEFINE m == Message(RoleOf(x), <<x>>)
  <2>1. m \in Talk
    BY <1>1
  <2> HIDE DEF m
  <2>2. <<m>> \in Seq(Talk)
    BY <2>1
  <2>3. QED BY <2>2 DEF m
<1>3. Tells(Alone, Plain, Talk)
  <2> DEFINE g(x) == <<Message(RoleOf(x), <<x>>)>>
  <2>1. \A x \in Plain : g(x) \in Seq(Talk)
    BY <1>2
  <2>2. Alone = [x \in Plain |-> g(x)]
    BY DEF Alone
  <2> HIDE DEF g
  <2>3. QED BY <2>1, <2>2 DEF Tells
<1>4. QED BY <1>1, <1>3

LEMMA ExtractStep ==
  ASSUME NEW s \in Seq(Items), NEW x \in Items
  PROVE  LET u == Append(s, x) IN
         /\ u \in Seq(Items) /\ ExtractRequest(s).messages \in Seq(Talk)
         /\ x.kind = "output" => Flushed(u) /\ Extractable(u) = Extractable(s)
         /\ x \in Plain \/ x.kind = "system" =>
              /\ Flushed(u)
              /\ Extractable(u) = Append(Extractable(s), Message(RoleOf(x), <<x>>))
         /\ x.kind = "call" =>
              /\ Extracted(u).messages = Extracted(s).messages
              /\ Extracted(u).calls = Append(Extracted(s).calls, x)
<1> DEFINE u == Append(s, x)
           a == Extracted(s)
           b == Extracted(u)
           r == ExtractRequest(s)
           m == Message(RoleOf(x), <<x>>)
<1>1. u \in Seq(Items)
  BY AppendProperties
<1>2. a \in Acc /\ b \in Acc /\ r \in Acc
  BY <1>1, ExtractedIs, ExtractRequestIs
<1>3. b = ExtractItem(a, x) /\ r = FlushCalls(a) /\ ExtractRequest(u) = FlushCalls(b)
  BY <1>1, ExtractedStep
<1>4. b = CASE x.kind = "call" -> [a EXCEPT !.calls = Append(@, x)]
            [] x.kind = "output" -> [r EXCEPT !.outputs = Append(@, x)]
            [] OTHER -> [r EXCEPT !.messages = Append(@, m)]
  BY <1>3 DEF ExtractItem
<1>5. r.calls = <<>>
  BY <1>2, <1>3, FlushCallsIs
<1>6. b.calls = <<>> => ExtractRequest(u) = b
  BY <1>2, <1>3, FlushCallsIs
<1> HIDE DEF u, a, b, r, m
<1>7. ASSUME x.kind = "output" PROVE Flushed(u) /\ Extractable(u) = Extractable(s)
  <2>1. b.calls = <<>> /\ b.messages = r.messages
    BY <1>2, <1>4, <1>5, <1>7 DEF Acc
  <2>2. QED BY <1>6, <2>1 DEF Flushed, Extractable, b, r
<1>8. ASSUME x.kind \notin {"call", "output"}
      PROVE  Flushed(u) /\ Extractable(u) = Append(Extractable(s), m)
  <2>1. b.calls = <<>> /\ b.messages = Append(r.messages, m)
    BY <1>2, <1>4, <1>5, <1>8 DEF Acc
  <2>2. QED BY <1>6, <2>1 DEF Flushed, Extractable, b, r
<1>9. ASSUME x.kind = "call"
      PROVE  b.messages = a.messages /\ b.calls = Append(a.calls, x)
  BY <1>2, <1>4, <1>9 DEF Acc
<1>10. x \in Plain \/ x.kind = "system" => x.kind \notin {"call", "output"}
  BY DEF Plain
<1>11. r.messages \in Seq(Talk)
  BY <1>2 DEF Acc
<1>12. QED BY <1>1, <1>7, <1>8, <1>9, <1>10, <1>11 DEF u, a, b, r, m

LEMMA OutputsRun ==
  ASSUME NEW s \in Seq(Items)
  PROVE  \A t \in Seq(Kind("output")) :
           /\ Extractable(s \o t) = Extractable(s)
           /\ t # <<>> \/ Flushed(s) => Flushed(s \o t)
<1> DEFINE O == Kind("output")
           P == {t \in Seq(O) : /\ Extractable(s \o t) = Extractable(s)
                                /\ t # <<>> \/ Flushed(s) => Flushed(s \o t)}
<1>1. <<>> \in P
  BY ConcatEmptySeq
<1>2. ASSUME NEW t \in Seq(O), NEW x \in O, t \in P PROVE Append(t, x) \in P
  <2>1. t \in Seq(Items) /\ x \in Items /\ x.kind = "output"
    BY KindSeq DEF Kind
  <2>2. s \o Append(t, x) = Append(s \o t, x) /\ s \o t \in Seq(Items)
    BY <2>1, AppendJoin
  <2>3. Flushed(Append(s \o t, x)) /\ Extractable(Append(s \o t, x)) = Extractable(s \o t)
    BY <2>1, <2>2, ExtractStep
  <2> HIDE DEF O
  <2>4. Append(t, x) \in Seq(O)
    BY AppendProperties
  <2>5. QED BY <1>2, <2>2, <2>3, <2>4
<1> HIDE DEF P, O
<1>3. Seq(O) \subseteq P
  BY <1>1, <1>2, SeqInduction
<1>4. QED BY <1>3 DEF P, O

LEMMA PlainRun ==
  ASSUME NEW s \in Seq(Items)
  PROVE  \A t \in Seq(Plain) :
           /\ Extractable(s \o t) = Extractable(s) \o Told(Alone, t)
           /\ t # <<>> \/ Flushed(s) => Flushed(s \o t)
           /\ t \in Seq(Items)
<1> DEFINE P == {t \in Seq(Plain) :
             /\ Extractable(s \o t) = Extractable(s) \o Told(Alone, t)
             /\ t # <<>> \/ Flushed(s) => Flushed(s \o t)}
<1>0. /\ Extractable(s) \in Seq(Talk) /\ Told(Alone, <<>>) = <<>>
      /\ \A t \in Seq(Plain), x \in Plain : Told(Alone, Append(t, x)) = Told(Alone, t) \o Alone[x]
      /\ \A t \in Seq(Plain) : Told(Alone, t) \in Seq(Talk)
      /\ Seq(Plain) \subseteq Seq(Items)
  <2>1. Extractable(s) \in Seq(Talk)
    BY ExtractRequestIs DEF Extractable, Acc
  <2>2. /\ Told(Alone, <<>>) = <<>>
        /\ \A t \in Seq(Plain), x \in Plain : Told(Alone, Append(t, x)) = Told(Alone, t) \o Alone[x]
        /\ \A t \in Seq(Plain) : Told(Alone, t) \in Seq(Talk)
    BY AloneIs, ToldFacts
  <2>3. Plain \subseteq Items
    BY DEF Plain
  <2>4. Seq(Plain) \subseteq Seq(Items)
    BY <2>3
  <2>5. QED BY <2>1, <2>2, <2>4
<1>1. <<>> \in P
  <2>1. s \o <<>> = s /\ Extractable(s) \o <<>> = Extractable(s) /\ <<>> \in Seq(Plain)
    BY <1>0, ConcatEmptySeq
  <2>2. QED BY <1>0, <2>1
<1>2. ASSUME NEW t \in Seq(Plain), NEW x \in Plain, t \in P PROVE Append(t, x) \in P
  <2> DEFINE m == Message(RoleOf(x), <<x>>)
  <2>1. t \in Seq(Items) /\ x \in Items
    BY <1>0 DEF Plain
  <2>2. s \o Append(t, x) = Append(s \o t, x) /\ s \o t \in Seq(Items)
    BY <2>1, AppendJoin
  <2>3. Flushed(Append(s \o t, x)) /\ Extractable(Append(s \o t, x)) = Append(Extractable(s \o t), m)
    BY <2>1, <2>2, ExtractStep
  <2>4. m \in Talk /\ Alone[x] = <<m>>
    BY AloneIs DEF Alone
  <2> HIDE DEF m
  <2>5. Append(t, x) \in Seq(Plain)
    BY AppendProperties
  <2>6. /\ Told(Alone, Append(t, x)) = Told(Alone, t) \o <<m>> /\ Told(Alone, t) \in Seq(Talk)
        /\ Told(Alone, t) \o <<m>> = Append(Told(Alone, t), m)
    BY <1>0, <2>4, AppendIsConcat
  <2>7. Extractable(s) \o Append(Told(Alone, t), m) = Append(Extractable(s) \o Told(Alone, t), m)
    BY <1>0, <2>4, <2>6, AppendJoin
  <2>8. QED BY <1>2, <2>2, <2>3, <2>5, <2>6, <2>7
<1> HIDE DEF P
<1>3. Seq(Plain) \subseteq P
  BY <1>1, <1>2, SeqInduction
<1>4. QED BY <1>0, <1>3 DEF P

LEMMA CallsRun ==
  ASSUME NEW s \in Seq(Items), Flushed(s)
  PROVE  \A t \in Seq(Kind("call")) : t # <<>> =>
           Extractable(s \o t) = Append(Extractable(s), Message("assistant", t))
<1> DEFINE C == Kind("call")
           P == {t \in Seq(C) : /\ Extracted(s \o t).messages = Extractable(s)
                                /\ Extracted(s \o t).calls = t}
<1>1. <<>> \in P
  <2>1. s \o <<>> = s /\ Extracted(s) \in Acc /\ ExtractRequest(s) = FlushCalls(Extracted(s))
    BY ConcatEmptySeq, ExtractedIs, ExtractedStep
  <2>2. ExtractRequest(s) = Extracted(s)
    BY <2>1, FlushCallsIs DEF Flushed
  <2>3. QED BY <2>1, <2>2 DEF Flushed, Extractable
<1>2. ASSUME NEW t \in Seq(C), NEW x \in C, t \in P PROVE Append(t, x) \in P
  <2>1. t \in Seq(Items) /\ x \in Items /\ x.kind = "call"
    BY KindSeq DEF Kind
  <2>2. s \o Append(t, x) = Append(s \o t, x) /\ s \o t \in Seq(Items)
    BY <2>1, AppendJoin
  <2>3. /\ Extracted(Append(s \o t, x)).messages = Extracted(s \o t).messages
        /\ Extracted(Append(s \o t, x)).calls = Append(Extracted(s \o t).calls, x)
    BY <2>1, <2>2, ExtractStep
  <2> HIDE DEF C
  <2>4. Append(t, x) \in Seq(C)
    BY AppendProperties
  <2>5. QED BY <1>2, <2>2, <2>3, <2>4
<1> HIDE DEF P
<1>3. Seq(C) \subseteq P
  <2> HIDE DEF C
  <2>1. QED BY <1>1, <1>2, SeqInduction
<1>4. ASSUME NEW t \in Seq(C), t # <<>>
      PROVE  Extractable(s \o t) = Append(Extractable(s), Message("assistant", t))
  <2>1. Extracted(s \o t).messages = Extractable(s) /\ Extracted(s \o t).calls = t
    BY <1>3 DEF P
  <2>2. s \o t \in Seq(Items)
    BY KindSeq, ConcatProperties
  <2>3. Extracted(s \o t) \in Acc /\ ExtractRequest(s \o t) = FlushCalls(Extracted(s \o t))
    BY <2>2, ExtractedIs, ExtractedStep
  <2> DEFINE a == Extracted(s \o t)
  <2> HIDE DEF a
  <2>4. FlushCalls(a).messages = Append(a.messages, Message("assistant", a.calls))
    BY <1>4, <2>1, <2>3, FlushCallsIs DEF a
  <2>5. QED BY <2>1, <2>3, <2>4 DEF Extractable, a
<1>5. QED BY <1>4

------------------------------------------------------------------------------
(* A conversation in pieces: a message by itself, or the calls of one      *)
(* response, the outputs of those that are answered, and what the client   *)
(* said with them.                                                         *)

AnswersOf(answered, n) ==
  [x \in Kind("call") |-> IF x \in answered THEN <<Item("output", x.id, n)>> ELSE <<>>]

OutsOf(p) == Told(AnswersOf(p.answered, p.tag), p.calls)

Piece ==
  {p \in [calls : Seq(Kind("call")), answered : SUBSET Kind("call"), tag : Numbers,
          plain : Seq(Plain)] :
     NoDuplicateCallOutputs(Ids(p.calls)) /\ (OutsOf(p) # <<>> \/ p.plain # <<>>)}

Parts == [p \in Piece |-> (p.calls \o OutsOf(p)) \o p.plain]

MessagesOf ==
  [p \in Piece |->
     (IF p.calls = <<>> THEN <<>> ELSE <<Message("assistant", p.calls)>>) \o Told(Alone, p.plain)]

LEMMA AnswersTell ==
  ASSUME NEW S, NEW n \in Numbers
  PROVE  Tells(AnswersOf(S, n), Kind("call"), Kind("output"))
<1> SUFFICES ASSUME NEW x \in Kind("call") PROVE <<Item("output", x.id, n)>> \in Seq(Kind("output"))
  <2>1. <<>> \in Seq(Kind("output"))
    OBVIOUS
  <2> DEFINE O == Kind("output")
             g(x) == <<Item("output", x.id, n)>>
  <2>2. AnswersOf(S, n) = [x \in Kind("call") |-> IF x \in S THEN g(x) ELSE <<>>]
    BY DEF AnswersOf
  <2>3. SUFFICES ASSUME \A x \in Kind("call") : g(x) \in Seq(O)
                 PROVE  Tells(AnswersOf(S, n), Kind("call"), O)
    OBVIOUS
  <2> HIDE DEF O, g
  <2>4. QED BY <2>1, <2>2, <2>3 DEF Tells, O
<1>1. x.id \in CallIds \cup {NoId}
  BY DEF Kind, Items
<1> DEFINE o == Item("output", x.id, n)
<1>2. o \in Kind("output")
  BY <1>1, ItemIs DEF Kind
<1> HIDE DEF o
<1>3. <<o>> \in Seq(Kind("output"))
  BY <1>2
<1>4. QED BY <1>3 DEF o

LEMMA PieceIs ==
  ASSUME NEW p \in Piece
  PROVE  /\ p.calls \in Seq(Kind("call")) /\ p.calls \in Seq(Items)
         /\ OutsOf(p) \in Seq(Kind("output")) /\ OutsOf(p) \in Seq(Items)
         /\ p.plain \in Seq(Plain) /\ p.plain \in Seq(Items)
         /\ p.calls \o OutsOf(p) \in Seq(Items)
         /\ p.tag \in Numbers /\ NoDuplicateCallOutputs(Ids(p.calls))
         /\ OutsOf(p) # <<>> \/ p.plain # <<>>
<1>1. /\ p.calls \in Seq(Kind("call")) /\ p.plain \in Seq(Plain) /\ p.tag \in Numbers
      /\ NoDuplicateCallOutputs(Ids(p.calls)) /\ (OutsOf(p) # <<>> \/ p.plain # <<>>)
  BY DEF Piece
<1>2. OutsOf(p) \in Seq(Kind("output"))
  <2> DEFINE f == AnswersOf(p.answered, p.tag)
  <2>1. Tells(f, Kind("call"), Kind("output"))
    BY <1>1, AnswersTell
  <2> HIDE DEF f
  <2>2. Told(f, p.calls) \in Seq(Kind("output"))
    BY <1>1, <2>1, ToldFacts
  <2>3. QED BY <2>2 DEF OutsOf, f
<1>3. p.calls \in Seq(Items) /\ OutsOf(p) \in Seq(Items)
  BY <1>1, <1>2, KindSeq
<1>4. p.plain \in Seq(Items)
  BY <1>1, PlainRun, <1>3
<1>5. p.calls \o OutsOf(p) \in Seq(Items)
  BY <1>3, ConcatProperties
<1>6. QED BY <1>1, <1>2, <1>3, <1>4, <1>5

LEMMA PartsTell == Tells(Parts, Piece, Items) /\ Tells(MessagesOf, Piece, Talk)
<1>1. ASSUME NEW p \in Piece PROVE (p.calls \o OutsOf(p)) \o p.plain \in Seq(Items)
  BY PieceIs, ConcatProperties
<1>2. ASSUME NEW p \in Piece
      PROVE  (IF p.calls = <<>> THEN <<>> ELSE <<Message("assistant", p.calls)>>)
               \o Told(Alone, p.plain) \in Seq(Talk)
  <2> DEFINE m == Message("assistant", p.calls)
  <2>1. m \in Talk
    BY PieceIs, KindSeq, MessageIs DEF Roles
  <2> HIDE DEF m
  <2>2. <<m>> \in Seq(Talk) /\ <<>> \in Seq(Talk)
    BY <2>1
  <2>3. Told(Alone, p.plain) \in Seq(Talk)
    BY PieceIs, AloneIs, ToldFacts
  <2>4. QED BY <2>2, <2>3, ConcatProperties DEF m
<1>3. QED BY <1>1, <1>2 DEF Parts, MessagesOf, Tells

Regrouped(s, a, b, d) == ((s \o a) \o b) \o d = s \o ((a \o b) \o d)

LEMMA JoinRegrouped ==
  ASSUME NEW T, NEW s \in Seq(T), NEW a \in Seq(T), NEW b \in Seq(T), NEW d \in Seq(T)
  PROVE  Regrouped(s, a, b, d)
<1> DEFINE e == a \o b
<1>1. e \in Seq(T)
  BY ConcatProperties
<1>2. (s \o a) \o b = s \o e
  <2>1. Thrice(s, a, b)
    BY JoinThrice
  <2>2. QED BY <2>1 DEF Thrice
<1> HIDE DEF e
<1>3. (s \o e) \o d = s \o (e \o d)
  <2>1. Thrice(s, e, d)
    BY <1>1, JoinThrice
  <2>2. QED BY <2>1 DEF Thrice
<1>4. QED BY <1>2, <1>3 DEF e, Regrouped

LEMMA JoinedMessages ==
  ASSUME NEW X \in Seq(Talk), NEW D \in Seq(Talk), NEW m \in Talk
  PROVE  Append(X, m) \o D = X \o (<<m>> \o D) /\ <<>> \o D = D
<1>1. Append(X, m) = X \o <<m>> /\ <<m>> \in Seq(Talk)
  BY AppendIsConcat
<1>2. (X \o <<m>>) \o D = X \o (<<m>> \o D)
  <2>1. Thrice(X, <<m>>, D)
    BY <1>1, JoinThrice
  <2>2. QED BY <2>1 DEF Thrice
<1>3. <<>> \o D = D
  BY ConcatEmptySeq
<1>4. QED BY <1>1, <1>2, <1>3

LEMMA PieceRun ==
  ASSUME NEW s \in Seq(Items), Flushed(s), NEW p \in Piece
  PROVE  /\ s \o Parts[p] \in Seq(Items) /\ Flushed(s \o Parts[p])
         /\ Extractable(s \o Parts[p]) = Extractable(s) \o MessagesOf[p]
<1> DEFINE a == p.calls
           b == OutsOf(p)
           d == p.plain
           m == Message("assistant", a)
           X == Extractable(s)
           D == Told(Alone, d)
<1>1. /\ a \in Seq(Kind("call")) /\ a \in Seq(Items)
      /\ b \in Seq(Kind("output")) /\ b \in Seq(Items)
      /\ d \in Seq(Plain) /\ d \in Seq(Items) /\ (b # <<>> \/ d # <<>>)
  BY PieceIs
<1>2. Parts[p] = (a \o b) \o d
  BY DEF Parts
<1>3. MessagesOf[p] = (IF a = <<>> THEN <<>> ELSE <<m>>) \o D
  BY DEF MessagesOf
<1>4. X \in Seq(Talk) /\ m \in Talk /\ D \in Seq(Talk)
  <2>1. X \in Seq(Talk)
    BY ExtractRequestIs DEF Extractable, Acc
  <2>2. m \in Talk
    BY <1>1, KindSeq, MessageIs DEF Roles
  <2>3. D \in Seq(Talk)
    BY <1>1, AloneIs, ToldFacts
  <2>4. QED BY <2>1, <2>2, <2>3
<1> HIDE DEF a, b, d, m, X, D
<1>5. /\ s \o a \in Seq(Items) /\ (s \o a) \o b \in Seq(Items)
      /\ ((s \o a) \o b) \o d \in Seq(Items)
  BY <1>1, ConcatProperties
<1>6. s \o Parts[p] = ((s \o a) \o b) \o d
  <2>1. Regrouped(s, a, b, d)
    BY <1>1, JoinRegrouped
  <2>2. QED BY <1>2, <2>1 DEF Regrouped
<1>7. Extractable(s \o a) = IF a = <<>> THEN X ELSE Append(X, m)
  <2>1. CASE a = <<>>
    <3>1. s \o a = s
      BY <2>1, ConcatEmptySeq
    <3>2. QED BY <2>1, <3>1 DEF X
  <2>2. CASE a # <<>>
    BY <1>1, <2>2, CallsRun DEF X, m
  <2>3. QED BY <2>1, <2>2
<1>8. (IF a = <<>> THEN X ELSE Append(X, m)) \o D = X \o MessagesOf[p]
  <2>1. Append(X, m) \o D = X \o (<<m>> \o D) /\ <<>> \o D = D
    BY <1>4, JoinedMessages
  <2>2. CASE a = <<>>
    BY <1>3, <2>1, <2>2
  <2>3. CASE a # <<>>
    <3>1. MessagesOf[p] = <<m>> \o D
      BY <1>3, <2>3
    <3>2. QED BY <2>1, <2>3, <3>1
  <2>4. QED BY <2>2, <2>3
<1>9. CASE b # <<>> \/ a = <<>>
  <2>1. Extractable((s \o a) \o b) = Extractable(s \o a)
    BY <1>1, <1>5, OutputsRun
  <2>2. Flushed((s \o a) \o b)
    <3>1. CASE b # <<>>
      BY <1>1, <1>5, <3>1, OutputsRun
    <3>2. CASE a = <<>>
      <4>1. Flushed(s \o a)
        <5>1. s \o a = s
          BY <3>2, ConcatEmptySeq
        <5>2. QED BY <5>1
      <4>2. QED BY <1>1, <1>5, <4>1, OutputsRun
    <3>3. QED BY <1>9, <3>1, <3>2
  <2>3. /\ Extractable(((s \o a) \o b) \o d) = Extractable((s \o a) \o b) \o D
        /\ Flushed(((s \o a) \o b) \o d)
    BY <1>1, <1>5, <2>2, PlainRun DEF D
  <2>4. Extractable(((s \o a) \o b) \o d) = (IF a = <<>> THEN X ELSE Append(X, m)) \o D
    BY <1>7, <2>1, <2>3
  <2>5. QED BY <1>5, <1>6, <1>8, <2>3, <2>4 DEF X
<1>10. CASE b = <<>> /\ a # <<>>
  <2>1. (s \o a) \o b = s \o a /\ d # <<>>
    BY <1>1, <1>5, <1>10, ConcatEmptySeq
  <2>2. /\ Extractable(((s \o a) \o b) \o d) = Extractable(s \o a) \o D
        /\ Flushed(((s \o a) \o b) \o d)
    BY <1>1, <1>5, <2>1, PlainRun DEF D
  <2>3. Extractable(((s \o a) \o b) \o d) = (IF a = <<>> THEN X ELSE Append(X, m)) \o D
    BY <1>7, <2>2
  <2>4. QED BY <1>5, <1>6, <1>8, <2>2, <2>3 DEF X
<1>11. QED BY <1>9, <1>10

LEMMA PiecesRun ==
  ASSUME NEW s \in Seq(Items), Flushed(s)
  PROVE  \A B \in Seq(Piece) :
           /\ s \o Told(Parts, B) \in Seq(Items) /\ Flushed(s \o Told(Parts, B))
           /\ Extractable(s \o Told(Parts, B)) = Extractable(s) \o Told(MessagesOf, B)
<1> DEFINE Good(B) == /\ s \o Told(Parts, B) \in Seq(Items) /\ Flushed(s \o Told(Parts, B))
                      /\ Extractable(s \o Told(Parts, B)) = Extractable(s) \o Told(MessagesOf, B)
           P == {B \in Seq(Piece) : Good(B)}
<1>0. /\ Told(Parts, <<>>) = <<>> /\ Told(MessagesOf, <<>>) = <<>>
      /\ \A B \in Seq(Piece), p \in Piece : Told(Parts, Append(B, p)) = Told(Parts, B) \o Parts[p]
      /\ \A B \in Seq(Piece), p \in Piece :
           Told(MessagesOf, Append(B, p)) = Told(MessagesOf, B) \o MessagesOf[p]
      /\ \A B \in Seq(Piece) : Told(Parts, B) \in Seq(Items)
      /\ \A B \in Seq(Piece) : Told(MessagesOf, B) \in Seq(Talk)
  <2>1. Tells(Parts, Piece, Items) /\ Tells(MessagesOf, Piece, Talk)
    BY PartsTell
  <2>2. /\ Told(Parts, <<>>) = <<>>
        /\ \A B \in Seq(Piece), p \in Piece : Told(Parts, Append(B, p)) = Told(Parts, B) \o Parts[p]
        /\ \A B \in Seq(Piece) : Told(Parts, B) \in Seq(Items)
    BY <2>1, ToldFacts
  <2>3. /\ Told(MessagesOf, <<>>) = <<>>
        /\ \A B \in Seq(Piece), p \in Piece :
             Told(MessagesOf, Append(B, p)) = Told(MessagesOf, B) \o MessagesOf[p]
        /\ \A B \in Seq(Piece) : Told(MessagesOf, B) \in Seq(Talk)
    BY <2>1, ToldFacts
  <2>4. QED BY <2>2, <2>3
<1>1. Extractable(s) \in Seq(Talk)
  BY ExtractRequestIs DEF Extractable, Acc
<1>2. <<>> \in P
  <2>1. s \o <<>> = s /\ Extractable(s) \o <<>> = Extractable(s) /\ <<>> \in Seq(Piece)
    BY <1>1, ConcatEmptySeq
  <2>2. Good(<<>>)
    BY <1>0, <2>1
  <2> HIDE DEF Good
  <2>3. QED BY <2>1, <2>2
<1>3. ASSUME NEW B \in Seq(Piece), NEW p \in Piece, B \in P PROVE Append(B, p) \in P
  <2> DEFINE t == Told(Parts, B)
             u == Told(MessagesOf, B)
             v == Parts[p]
             w == MessagesOf[p]
  <2>1. /\ t \in Seq(Items) /\ u \in Seq(Talk) /\ v \in Seq(Items) /\ w \in Seq(Talk)
        /\ Told(Parts, Append(B, p)) = t \o v /\ Told(MessagesOf, Append(B, p)) = u \o w
    BY <1>0, PartsTell DEF Tells
  <2>2. s \o t \in Seq(Items) /\ Flushed(s \o t) /\ Extractable(s \o t) = Extractable(s) \o u
    BY <1>3
  <2>3. /\ (s \o t) \o v \in Seq(Items) /\ Flushed((s \o t) \o v)
        /\ Extractable((s \o t) \o v) = Extractable(s \o t) \o w
    BY <2>2, PieceRun
  <2>4. Append(B, p) \in Seq(Piece)
    BY AppendProperties
  <2> HIDE DEF t, u, v, w
  <2>5. (s \o t) \o v = s \o (t \o v)
    <3>1. Thrice(s, t, v)
      BY <2>1, JoinThrice
    <3>2. QED BY <3>1 DEF Thrice
  <2>6. (Extractable(s) \o u) \o w = Extractable(s) \o (u \o w)
    <3> DEFINE X == Extractable(s)
    <3>1. X \in Seq(Talk)
      BY <1>1
    <3> HIDE DEF X
    <3>2. (X \o u) \o w = X \o (u \o w)
      <4>1. Thrice(X, u, w)
        BY <2>1, <3>1, JoinThrice
      <4>2. QED BY <4>1 DEF Thrice
    <3>3. QED BY <3>2 DEF X
  <2>7. Good(Append(B, p))
    BY <2>1, <2>2, <2>3, <2>5, <2>6
  <2>8. QED BY <2>4, <2>7
<1> HIDE DEF P
<1>4. Seq(Piece) \subseteq P
  BY <1>2, <1>3, SeqInduction
<1>5. QED BY <1>4 DEF P

------------------------------------------------------------------------------
(* What the messages say that are made of outputs, and of what the client  *)
(* said with them.                                                         *)

AnswerTo(n) == [x \in Kind("call") |-> Item("output", x.id, n)]

LEMMA OutputsTold ==
  ASSUME NEW S, NEW n \in Numbers
  PROVE  \A calls \in Seq(Kind("call")) :
           Outputs(Picked(calls, S), n) = Told(AnswersOf(S, n), calls)
<1> DEFINE C == Kind("call")
           O == Kind("output")
           f == AnswersOf(S, n)
           g == AnswerTo(n)
           P == {t \in Seq(C) : Outputs(Picked(t, S), n) = Told(f, t)}
<1>1. /\ Told(f, <<>>) = <<>>
      /\ \A t \in Seq(C), x \in C : Told(f, Append(t, x)) = Told(f, t) \o f[x]
      /\ \A t \in Seq(C) : Told(f, t) \in Seq(O)
  <2>1. Tells(f, C, O)
    BY AnswersTell
  <2> HIDE DEF f, C, O
  <2>2. QED BY <2>1, ToldFacts
<1>2. Maps(g, C, O)
  <2>1. \A x \in C : Item("output", x.id, n) \in O
    BY ItemIs DEF Kind, Items
  <2>2. QED BY <2>1 DEF Maps, AnswerTo
<1>3. \A x \in C : f[x] = IF x \in S THEN <<g[x]>> ELSE <<>>
  BY DEF AnswersOf, AnswerTo
<1>4. \A t \in Seq(C) : Outputs(t, n) = Mapped(g, t)
  <2> TAKE t \in Seq(C)
  <2>1. \A i \in DOMAIN t : t[i] \in C
    BY SeqFacts
  <2>2. \A i \in DOMAIN t : g[t[i]] = Item("output", t[i].id, n)
    BY <2>1 DEF AnswerTo
  <2>3. QED BY <2>2 DEF Outputs, Mapped
<1> HIDE DEF f, g, C, O
<1>5. <<>> \in P
  <2>1. Picked(<<>>, S) = <<>> /\ Outputs(<<>>, n) = <<>> /\ <<>> \in Seq(C)
    BY PickedEmpty DEF Outputs
  <2>2. QED BY <1>1, <2>1
<1>6. ASSUME NEW t \in Seq(C), NEW x \in C, t \in P PROVE Append(t, x) \in P
  <2>1. /\ Append(t, x) \in Seq(C) /\ Picked(t, S) \in Seq(C)
        /\ Picked(Append(t, x), S) = IF x \in S THEN Append(Picked(t, S), x) ELSE Picked(t, S)
    BY PickedStep, PickedFacts, AppendProperties
  <2>2. Outputs(Picked(t, S), n) = Told(f, t) /\ Told(f, t) \in Seq(O)
    BY <1>1, <1>6
  <2>3. Told(f, Append(t, x)) = Told(f, t) \o f[x]
    BY <1>1
  <2> DEFINE u == Picked(t, S)
             w == Told(f, t)
  <2> HIDE DEF u, w
  <2>4. CASE x \in S
    <3>1. Outputs(Append(u, x), n) = Append(Mapped(g, u), g[x])
      <4>1. Append(u, x) \in Seq(C) /\ u \in Seq(C)
        BY <2>1, AppendProperties DEF u
      <4>2. \A r \in Seq(C), y \in C : Mapped(g, Append(r, y)) = Append(Mapped(g, r), g[y])
        BY <1>2, MappedFacts
      <4>3. QED BY <1>4, <4>1, <4>2
    <3>2. Mapped(g, u) = w /\ g[x] \in O /\ w \in Seq(O)
      BY <1>2, <1>4, <2>1, <2>2 DEF Maps, u, w
    <3>3. Append(w, g[x]) = w \o <<g[x]>>
      BY <3>2, AppendIsConcat
    <3>4. QED BY <1>3, <2>1, <2>3, <2>4, <3>1, <3>2, <3>3 DEF u, w
  <2>5. CASE x \notin S
    <3>1. w \o <<>> = w
      BY <2>2, ConcatEmptySeq DEF w
    <3>2. QED BY <1>3, <2>1, <2>2, <2>3, <2>5, <3>1 DEF w
  <2>6. QED BY <2>4, <2>5
<1> HIDE DEF P
<1>7. Seq(C) \subseteq P
  BY <1>5, <1>6, SeqInduction
<1>8. QED BY <1>7 DEF P, f, C

(* A sequence of messages that say one item each says the items.           *)
LEMMA SayersTell ==
  ASSUME NEW T, T \subseteq Items, NEW f, Maps(f, T, Msg), \A x \in T : Heard[f[x]] = <<x>>
  PROVE  \A s \in Seq(T) : Mapped(f, s) \in Seq(Msg) /\ Told(Heard, Mapped(f, s)) = s
<1> DEFINE P == {s \in Seq(T) : Mapped(f, s) \in Seq(Msg) /\ Told(Heard, Mapped(f, s)) = s}
<1>1. <<>> \in P
  <2>1. Mapped(f, <<>>) = <<>> /\ <<>> \in Seq(Msg) /\ <<>> \in Seq(T)
    BY DEF Mapped
  <2>2. Told(Heard, <<>>) = <<>>
    BY HeardTells, ToldFacts
  <2>3. QED BY <2>1, <2>2
<1>2. ASSUME NEW s \in Seq(T), NEW x \in T, s \in P PROVE Append(s, x) \in P
  <2>1. Append(s, x) \in Seq(T) /\ s \o <<x>> = Append(s, x)
    BY AppendIsConcat, AppendProperties
  <2>2. Mapped(f, Append(s, x)) = Append(Mapped(f, s), f[x]) /\ Mapped(f, s) \in Seq(Msg)
    BY MappedFacts
  <2>3. f[x] \in Msg /\ Heard[f[x]] = <<x>>
    BY DEF Maps
  <2> DEFINE r == Mapped(f, s)
             m == f[x]
  <2> HIDE DEF r, m
  <2>4. Append(r, m) \in Seq(Msg) /\ Told(Heard, Append(r, m)) = Told(Heard, r) \o Heard[m]
    BY <2>2, <2>3, HeardAppend, AppendProperties DEF r, m
  <2>5. Told(Heard, r) = s
    BY <1>2 DEF r
  <2>6. QED BY <2>1, <2>2, <2>3, <2>4, <2>5 DEF r, m
<1> HIDE DEF P
<1>3. Seq(T) \subseteq P
  BY <1>1, <1>2, SeqInduction
<1>4. QED BY <1>3 DEF P

Sayer == [x \in Items |-> Message("tool", <<x>>)]
AloneSayer == [x \in Plain |-> Message(RoleOf(x), <<x>>)]

LEMMA ToolsHeard ==
  ASSUME NEW outputs \in Seq(Items)
  PROVE  /\ ToolMessages(outputs) \in Seq(Msg) /\ Told(Heard, ToolMessages(outputs)) = outputs
         /\ DOMAIN ToolMessages(outputs) = DOMAIN outputs
         /\ \A i \in DOMAIN outputs : /\ ToolMessages(outputs)[i].role = "tool"
                                      /\ ToolMessages(outputs)[i].items[1] = outputs[i]
<1>1. ASSUME NEW x \in Items
      PROVE  /\ Message("tool", <<x>>) \in Msg /\ Heard[Message("tool", <<x>>)] = <<x>>
             /\ Message("tool", <<x>>).role = "tool" /\ Message("tool", <<x>>).items[1] = x
  <2> DEFINE s == <<x>>
             m == Message("tool", s)
  <2>1. s \in Seq(Items) /\ Len(s) = 1 /\ s[1] = x
    BY SingleIs
  <2> HIDE DEF s
  <2>2. m \in Msg /\ m.role = "tool" /\ m.items = s
    BY <2>1, MessageIs DEF Roles
  <2> HIDE DEF m
  <2>3. Heard[m] = s
    BY <2>2 DEF Heard
  <2>4. QED BY <2>1, <2>2, <2>3 DEF m, s
<1>2. Maps(Sayer, Items, Msg) /\ \A x \in Items : Heard[Sayer[x]] = <<x>>
  BY <1>1 DEF Maps, Sayer
<1>3. \A i \in DOMAIN outputs : outputs[i] \in Items
  BY SeqFacts
<1>4. ToolMessages(outputs) = Mapped(Sayer, outputs)
  BY <1>3 DEF ToolMessages, Mapped, Sayer
<1>5. Mapped(Sayer, outputs) \in Seq(Msg) /\ Told(Heard, Mapped(Sayer, outputs)) = outputs
  BY <1>2, SayersTell
<1>6. ToolMessages(outputs) = [i \in DOMAIN outputs |-> Message("tool", <<outputs[i]>>)]
  BY DEF ToolMessages
<1>7. \A i \in DOMAIN outputs : /\ ToolMessages(outputs)[i].role = "tool"
                                /\ ToolMessages(outputs)[i].items[1] = outputs[i]
  <2> TAKE i \in DOMAIN outputs
  <2>1. ToolMessages(outputs)[i] = Message("tool", <<outputs[i]>>)
    BY <1>6
  <2>2. QED BY <1>1, <1>3, <2>1
<1>8. DOMAIN ToolMessages(outputs) = DOMAIN outputs
  BY <1>6
<1>9. QED BY <1>4, <1>5, <1>7, <1>8

Singles(f, g, T) == f = [x \in T |-> <<g[x]>>]

LEMMA SinglesTold ==
  ASSUME NEW T, NEW V, NEW g, Maps(g, T, V), NEW f, Singles(f, g, T)
  PROVE  \A s \in Seq(T) : Told(f, s) = Mapped(g, s)
<1> DEFINE P == {s \in Seq(T) : Told(f, s) = Mapped(g, s)}
<1>1. Tells(f, T, V) /\ \A x \in T : f[x] = <<g[x]>> /\ g[x] \in V
  BY DEF Maps, Tells, Singles
<1>2. /\ Told(f, <<>>) = <<>>
      /\ \A s \in Seq(T), x \in T : Told(f, Append(s, x)) = Told(f, s) \o f[x]
  BY <1>1, ToldFacts
<1>3. <<>> \in P
  <2>1. Mapped(g, <<>>) = <<>> /\ <<>> \in Seq(T)
    BY DEF Mapped
  <2>2. QED BY <1>2, <2>1
<1>4. ASSUME NEW s \in Seq(T), NEW x \in T, s \in P PROVE Append(s, x) \in P
  <2>1. Mapped(g, Append(s, x)) = Append(Mapped(g, s), g[x]) /\ Mapped(g, s) \in Seq(V)
    BY MappedFacts
  <2>2. Append(s, x) \in Seq(T)
    BY AppendProperties
  <2>3. Append(Mapped(g, s), g[x]) = Mapped(g, s) \o <<g[x]>>
    BY <1>1, <2>1, AppendIsConcat
  <2>4. QED BY <1>1, <1>2, <1>4, <2>1, <2>2, <2>3
<1> HIDE DEF P
<1>5. Seq(T) \subseteq P
  BY <1>3, <1>4, SeqInduction
<1>6. QED BY <1>5 DEF P

LEMMA PlainHeard ==
  ASSUME NEW s \in Seq(Plain)
  PROVE  Told(Alone, s) \in Seq(Talk) /\ Told(Alone, s) \in Seq(Msg) /\ Told(Heard, Told(Alone, s)) = s
<1>1. Plain \subseteq Items /\ Talk \subseteq Msg
  BY DEF Plain, Talk
<1>2. Maps(AloneSayer, Plain, Msg)
  BY <1>1, AloneIs DEF Maps, AloneSayer
<1>3. ASSUME NEW x \in Plain PROVE Heard[AloneSayer[x]] = <<x>>
  <2> DEFINE m == Message(RoleOf(x), <<x>>)
  <2>1. m \in Msg /\ m.items = <<x>> /\ m.role \in {"user", "assistant"}
    BY <1>1, AloneIs
  <2>2. AloneSayer[x] = m
    BY DEF AloneSayer
  <2> HIDE DEF m
  <2>3. QED BY <2>1, <2>2 DEF Heard
<1>4. Singles(Alone, AloneSayer, Plain)
  BY DEF Alone, AloneSayer, Singles
<1>5. Told(Alone, s) = Mapped(AloneSayer, s)
  BY <1>2, <1>4, SinglesTold
<1>6. Mapped(AloneSayer, s) \in Seq(Msg) /\ Told(Heard, Mapped(AloneSayer, s)) = s
  BY <1>1, <1>2, <1>3, SayersTell
<1>7. Told(Alone, s) \in Seq(Talk)
  BY AloneIs, ToldFacts
<1>8. QED BY <1>5, <1>6, <1>7

(* The instructions are a message that is not heard.                       *)
Instruction == {x \in Items : x.kind = "system"}

LEMMA InstructionIs ==
  ASSUME NEW sys \in Instruction
  PROVE  /\ <<sys>> \in Seq(Items) /\ Flushed(<<sys>>)
         /\ Extractable(<<sys>>) = <<Message("system", <<sys>>)>>
         /\ Message("system", <<sys>>) \in Talk
         /\ Extractable(<<sys>>) \in Seq(Talk) /\ Extractable(<<sys>>) \in Seq(Msg)
         /\ Told(Heard, Extractable(<<sys>>)) = <<>>
         /\ Flushed(<<>>) /\ Extractable(<<>>) = <<>>
<1> DEFINE s == <<sys>>
           m == Message("system", s)
<1>1. sys \in Items /\ sys.kind = "system"
  BY DEF Instruction
<1>2. s \in Seq(Items) /\ Len(s) = 1 /\ s[1] = sys /\ s = Append(<<>>, sys) /\ <<>> \in Seq(Items)
  BY <1>1
<1>3. Flushed(<<>>) /\ Extractable(<<>>) = <<>>
  <2>1. ExtractRequest(<<>>) = FlushCalls(NothingYet) /\ Extracted(<<>>) = NothingYet
    BY <1>2, ExtractedStep
  <2>2. FlushCalls(NothingYet) = NothingYet
    BY NothingYetIs, FlushCallsIs
  <2>3. NothingYet.messages = <<>> /\ NothingYet.calls = <<>>
    BY DEF NothingYet
  <2>4. QED BY <2>1, <2>2, <2>3 DEF Flushed, Extractable
<1> HIDE DEF s
<1>4. RoleOf(sys) = "system"
  BY <1>1 DEF RoleOf
<1>5. Flushed(s) /\ Extractable(s) = Append(<<>>, Message(RoleOf(sys), <<sys>>))
  <2>1. LET u == Append(<<>>, sys) IN
        Flushed(u) /\ Extractable(u) = Append(Extractable(<<>>), Message(RoleOf(sys), <<sys>>))
    BY <1>1, <1>2, ExtractStep
  <2>2. QED BY <1>2, <1>3, <2>1
<1>6. m \in Talk /\ m.role = "system" /\ m.items = s
  <2>1. Quiet(s)
    BY <1>1, <1>2, SeqFacts DEF Quiet, s
  <2>2. QED BY <1>2, <2>1, MessageIs DEF Roles
<1>7. Extractable(s) = <<m>>
  BY <1>4, <1>5 DEF s
<1> HIDE DEF m
<1>8. <<m>> \in Seq(Talk) /\ <<m>> \in Seq(Msg) /\ m \in Msg
  BY <1>6 DEF Talk
<1>9. Told(Heard, <<m>>) = <<>>
  <2>1. Told(Heard, <<m>>) = Heard[m]
    BY <1>8, HeardAppend, EmptySeq
  <2>2. Heard[m] = <<>>
    BY <1>6, <1>8 DEF Heard
  <2>3. QED BY <2>1, <2>2
<1>10. QED BY <1>2, <1>3, <1>5, <1>6, <1>7, <1>8, <1>9 DEF m, s

LEMMA TurnExtracted ==
  ASSUME NEW sys \in Instruction, NEW outs \in Seq(Kind("output")), NEW rest \in Seq(Plain)
  PROVE  /\ Extractable(<<sys>> \o (outs \o rest)) \in Seq(Talk)
         /\ Told(Heard, Extractable(<<sys>> \o (outs \o rest))) = rest
         /\ Extractable(rest) \in Seq(Talk) /\ Told(Heard, Extractable(rest)) = rest
<1> DEFINE s == <<sys>>
           t == s \o outs
           D == Told(Alone, rest)
           X == Extractable(s)
<1>1. /\ s \in Seq(Items) /\ Flushed(s) /\ X \in Seq(Talk) /\ X \in Seq(Msg)
      /\ Told(Heard, X) = <<>> /\ Flushed(<<>>) /\ Extractable(<<>>) = <<>>
  BY InstructionIs
<1> HIDE DEF s
<1>2. outs \in Seq(Items) /\ rest \in Seq(Items)
  <2>1. Flushed(<<>>) /\ <<>> \in Seq(Items)
    BY <1>1
  <2>2. QED BY <2>1, KindSeq, PlainRun
<1>3. t \in Seq(Items) /\ Extractable(t) = X /\ Flushed(t)
  BY <1>1, <1>2, OutputsRun, ConcatProperties
<1>4. s \o (outs \o rest) = t \o rest
  <2>1. (s \o outs) \o rest = s \o (outs \o rest)
    <3>1. Thrice(s, outs, rest)
      BY <1>1, <1>2, JoinThrice
    <3>2. QED BY <3>1 DEF Thrice
  <2>2. QED BY <2>1
<1>5. D \in Seq(Talk) /\ D \in Seq(Msg) /\ Told(Heard, D) = rest
  BY PlainHeard
<1> HIDE DEF t
<1>6. Extractable(t \o rest) = X \o D
  BY <1>3, PlainRun
<1>7. Extractable(rest) = D
  <2>1. Extractable(<<>> \o rest) = Extractable(<<>>) \o D /\ <<>> \o rest = rest /\ <<>> \o D = D
    <3>1. <<>> \in Seq(Items)
      OBVIOUS
    <3> HIDE DEF D
    <3>2. <<>> \o rest = rest /\ <<>> \o D = D
      BY <1>2, <1>5, ConcatEmptySeq
    <3>3. Extractable(<<>> \o rest) = Extractable(<<>>) \o D
      BY <3>1, PlainRun DEF D
    <3>4. QED BY <3>2, <3>3
  <2>2. QED BY <1>1, <2>1
<1> HIDE DEF D, X
<1>8. X \o D \in Seq(Talk) /\ Told(Heard, X \o D) = <<>> \o rest /\ <<>> \o rest = rest
  <2>1. Told(Heard, X \o D) = Told(Heard, X) \o Told(Heard, D)
    BY <1>1, <1>5, HeardJoin
  <2>2. QED BY <1>1, <1>2, <1>5, <2>1, ConcatProperties, ConcatEmptySeq
<1>9. QED BY <1>4, <1>5, <1>6, <1>7, <1>8 DEF s

------------------------------------------------------------------------------
(* A conversation that is continued from the store.                        *)

(* An output that the stored messages say is in one of their tool messages. *)
LEMMA HeardOutputs ==
  ASSUME NEW stored \in Seq(Msg), NEW k \in DOMAIN Told(Heard, stored),
         Told(Heard, stored)[k].kind = "output"
  PROVE  \E j \in DOMAIN stored :
           stored[j].role = "tool" /\ stored[j].items[1] = Told(Heard, stored)[k]
<1> DEFINE o == Told(Heard, stored)[k]
<1>1. PICK j \in DOMAIN stored : \E i \in DOMAIN Heard[stored[j]] : o = Heard[stored[j]][i]
  BY HeardTells, ToldMembers
<1>2. PICK i \in DOMAIN Heard[stored[j]] : o = Heard[stored[j]][i]
  BY <1>1
<1> DEFINE m == stored[j]
<1>3. m \in Msg
  BY SeqFacts
<1>4. o.kind = "output"
  OBVIOUS
<1> HIDE DEF o, m
<1>5. i \in DOMAIN Heard[m] /\ o = Heard[m][i]
  BY <1>2 DEF m
<1>6. Heard[m] = IF m.role = "system" THEN <<>> ELSE m.items
  BY <1>3 DEF Heard
<1>7. m.role # "system" /\ i \in DOMAIN m.items /\ o = m.items[i]
  BY <1>5, <1>6
<1>8. m.role = "tool" /\ Len(m.items) = 1 /\ m.items \in Seq(Items)
  BY <1>3, <1>4, <1>7 DEF Msg, Quiet
<1>9. i = 1
  BY <1>7, <1>8, SeqFacts
<1>10. QED BY <1>7, <1>8, <1>9 DEF o, m

(* If the outputs of the request include those of the conversation, then   *)
(* there are none in the conversation: they would be answered twice.       *)
LEMMA NothingRepeated ==
  ASSUME NEW stored \in Seq(Msg), NEW outputs \in Seq(Items),
         Once(stored \o ToolMessages(outputs)),
         \A k \in DOMAIN Told(Heard, stored) : Told(Heard, stored)[k].kind = "output" =>
           \E i \in DOMAIN outputs : outputs[i] = Told(Heard, stored)[k]
  PROVE  \A k \in DOMAIN Told(Heard, stored) : Told(Heard, stored)[k].kind # "output"
<1> SUFFICES ASSUME NEW k \in DOMAIN Told(Heard, stored), Told(Heard, stored)[k].kind = "output"
             PROVE  FALSE
  OBVIOUS
<1> DEFINE o == Told(Heard, stored)[k]
           b == ToolMessages(outputs)
           c == stored \o b
           n == Len(stored)
<1>1. PICK j \in DOMAIN stored : stored[j].role = "tool" /\ stored[j].items[1] = o
  BY HeardOutputs
<1>2. PICK i \in DOMAIN outputs : outputs[i] = o
  OBVIOUS
<1>3. /\ b \in Seq(Msg) /\ DOMAIN b = DOMAIN outputs
      /\ b[i].role = "tool" /\ b[i].items[1] = o
  BY <1>2, ToolsHeard
<1> HIDE DEF b, o
<1>4. /\ n \in Nat /\ Len(b) \in Nat /\ DOMAIN stored = 1..n /\ DOMAIN b = 1..Len(b)
      /\ DOMAIN c = 1..(n + Len(b))
      /\ \A x \in 1..n : c[x] = stored[x]
      /\ \A x \in 1..Len(b) : c[n + x] = b[x]
  BY <1>3, JoinFacts
<1>5. Once(c)
  BY DEF b
<1> HIDE DEF c, n
<1>6. i \in 1..Len(b) /\ j \in 1..n
  BY <1>2, <1>3, <1>4
<1>7. n + i \in DOMAIN c /\ j \in DOMAIN c /\ n + i # j
  BY <1>4, <1>6
<1>8. c[n + i] = b[i] /\ c[j] = stored[j]
  BY <1>4, <1>6
<1>9. QED BY <1>1, <1>3, <1>5, <1>7, <1>8 DEF Once

TurnPicks(sys, talk, outs, rest) ==
  Picked(<<sys>> \o (talk \o (outs \o rest)), Kind("output")) = Picked(talk, Kind("output")) \o outs

LEMMA TurnPicked ==
  ASSUME NEW sys \in Instruction, NEW outs \in Seq(Kind("output")), NEW rest \in Seq(Plain),
         NEW talk \in Seq(Items)
  PROVE  /\ outs \in Seq(Items) /\ rest \in Seq(Items) /\ outs \o rest \in Seq(Items)
         /\ <<sys>> \in Seq(Items) /\ talk \o (outs \o rest) \in Seq(Items)
         /\ Picked(<<sys>> \o (outs \o rest), Kind("output")) = outs
         /\ TurnPicks(sys, talk, outs, rest)
<1> DEFINE O == Kind("output")
           s == <<sys>>
           turn == outs \o rest
<1>1. s \in Seq(Items) /\ Flushed(<<>>) /\ <<>> \in Seq(Items)
  <2>1. <<>> \in Seq(Items)
    OBVIOUS
  <2>2. QED BY <2>1, InstructionIs
<1>2. outs \in Seq(Items) /\ rest \in Seq(Items)
  BY <1>1, KindSeq, PlainRun
<1>3. turn \in Seq(Items)
  BY <1>2, ConcatProperties
<1>4. talk \o turn \in Seq(Items)
  <2> HIDE DEF turn
  <2>1. QED BY <1>3, ConcatProperties
<1>5. Picked(s, O) = <<>>
  <2>1. \A i \in DOMAIN s : s[i] \notin O
    BY DEF Kind, Instruction
  <2> HIDE DEF s, O
  <2>2. QED BY <1>1, <2>1, PickedWhole
<1>6. Picked(outs, O) = outs
  <2>1. \A i \in DOMAIN outs : outs[i] \in O
    BY SeqFacts
  <2> HIDE DEF O
  <2>2. QED BY <1>2, <2>1, PickedWhole
<1>7. Picked(rest, O) = <<>>
  <2>1. \A i \in DOMAIN rest : rest[i] \in Plain
    BY SeqFacts
  <2>2. \A i \in DOMAIN rest : rest[i] \notin O
    BY <2>1 DEF Plain, Kind
  <2> HIDE DEF O
  <2>3. QED BY <1>2, <2>2, PickedWhole
<1> HIDE DEF s, O
<1>8. Picked(turn, O) = outs
  <2>1. Picked(outs \o rest, O) = Picked(outs, O) \o Picked(rest, O)
    BY <1>2, PickedConcat
  <2>2. outs \o <<>> = outs
    BY <1>2, ConcatEmptySeq
  <2>3. QED BY <1>6, <1>7, <2>1, <2>2
<1> HIDE DEF turn
<1>9. \A t \in Seq(Items) : Picked(s \o t, O) = Picked(t, O)
  <2> TAKE t \in Seq(Items)
  <2>1. Picked(s \o t, O) = Picked(s, O) \o Picked(t, O)
    BY <1>1, PickedConcat
  <2>2. Picked(t, O) \in Seq(Items)
    BY PickedFacts
  <2> DEFINE p == Picked(t, O)
  <2> HIDE DEF p
  <2>3. <<>> \o p = p
    BY <2>2, ConcatEmptySeq DEF p
  <2>4. QED BY <1>5, <2>1, <2>3 DEF p
<1>10. Picked(talk \o turn, O) = Picked(talk, O) \o outs
  <2>1. Picked(talk \o turn, O) = Picked(talk, O) \o Picked(turn, O)
    BY <1>3, PickedConcat
  <2>2. QED BY <1>8, <2>1
<1>11. Picked(s \o (talk \o turn), O) = Picked(talk, O) \o outs
  <2> DEFINE w == talk \o turn
  <2> HIDE DEF w
  <2>1. Picked(s \o w, O) = Picked(w, O)
    BY <1>4, <1>9 DEF w
  <2>2. QED BY <1>10, <2>1 DEF w
<1>12. Picked(s \o turn, O) = outs
  BY <1>3, <1>8, <1>9
<1>13. QED BY <1>1, <1>2, <1>3, <1>4, <1>11, <1>12 DEF s, turn, O, TurnPicks

(* The new items alone, with or without outputs.                           *)
TurnAdds(messages, talk, outs, rest) == Told(Heard, messages) = talk \o (outs \o rest)
Repeats(input, talk, outs, rest) == input = talk \o (outs \o rest)

LEMMA TurnHeard ==
  ASSUME NEW sys \in Instruction, NEW outs \in Seq(Kind("output")), NEW rest \in Seq(Plain),
         NEW body, body.instructions = <<sys>>, body.input = outs \o rest,
         NEW stored \in Seq(Msg), stored # <<>>, Merged(body, stored).ok
  PROVE  TurnAdds(Merged(body, stored).messages, Told(Heard, stored), outs, rest)
<1> DEFINE turn == outs \o rest
           items == <<sys>> \o turn
           x == ExtractRequest(items)
           replayed == RepairHistory(stored, x.outputs)
           new == NewMessages(body, x.outputs)
           talk == Told(Heard, stored)
<1>1. /\ turn \in Seq(Items) /\ <<sys>> \in Seq(Items) /\ outs \in Seq(Items)
      /\ rest \in Seq(Items)
  <2>1. <<>> \in Seq(Items)
    OBVIOUS
  <2>2. QED BY <2>1, TurnPicked
<1>2. items \in Seq(Items)
  <2> HIDE DEF turn
  <2>1. QED BY <1>1, ConcatProperties
<1>3. x.outputs = outs
  <2>1. Picked(<<sys>> \o (outs \o rest), Kind("output")) = outs
    BY <1>1, TurnPicked
  <2>2. x.outputs = Picked(items, Kind("output"))
    <3> HIDE DEF items
    <3>1. QED BY <1>2, ExtractRequestIs
  <2>3. QED BY <2>1, <2>2
<1>4. x.messages \in Seq(Msg) /\ Told(Heard, x.messages) = rest
  <2>1. x.messages = Extractable(<<sys>> \o (outs \o rest))
    BY DEF Extractable
  <2>2. x.messages \in Seq(Talk) /\ Told(Heard, x.messages) = rest
    BY <2>1, TurnExtracted
  <2>3. QED BY <2>2, MessagesAre
<1>5. Merged(body, stored) =
        CASE x.outputs = <<>> -> Accepted(stored \o x.messages)
          [] x.outputs # <<>> /\ stored = <<>> -> RepairStatelessHistory(x.messages, x.outputs)
          [] OTHER -> [replayed EXCEPT !.messages = @ \o new]
  BY DEF Merged
<1>6. talk \in Seq(Items)
  BY HeardJoin
<1> HIDE DEF items
<1>7. CASE outs = <<>>
  <2>1. Merged(body, stored).messages = stored \o x.messages
    BY <1>3, <1>5, <1>7 DEF Accepted
  <2> DEFINE y == x.messages
  <2>2. y \in Seq(Msg) /\ Told(Heard, y) = rest
    BY <1>4
  <2> HIDE DEF y, x
  <2>3. Told(Heard, stored \o y) = Told(Heard, stored) \o rest
    BY <2>2, HeardJoin
  <2>4. outs \o rest = rest
    BY <1>1, <1>7, ConcatEmptySeq
  <2>5. QED BY <2>1, <2>3, <2>4 DEF y, TurnAdds
<1>8. CASE outs # <<>>
  <2> DEFINE repaired == stored \o ToolMessages(outs)
  <2>1. Merged(body, stored) = [replayed EXCEPT !.messages = @ \o new]
    BY <1>3, <1>5, <1>8
  <2>2. replayed = Accepted(repaired) \/ replayed = Refused
    BY <1>3 DEF RepairHistory
  <2>3. replayed = Accepted(repaired)
    <3>1. replayed # Refused
      <4>1. SUFFICES ASSUME replayed = Refused PROVE FALSE
        OBVIOUS
      <4>2. Merged(body, stored).ok = FALSE
        BY <2>1, <4>1 DEF Refused
      <4>3. QED BY <4>2
    <3>2. QED BY <2>2, <3>1
  <2>4. new = x.messages
    <3> DEFINE matched == {j \in DOMAIN body.input : /\ body.input[j].kind = "output"
                 /\ \E i \in 1..(j - 1) : body.input[i].kind = "call" /\ body.input[i].id = body.input[j].id}
    <3>1. \A i \in DOMAIN turn : turn[i].kind # "call"
      <4>1. \A i \in DOMAIN turn :
              (\E k \in DOMAIN outs : turn[i] = outs[k]) \/ (\E k \in DOMAIN rest : turn[i] = rest[k])
        <5>1. /\ Len(outs) \in Nat /\ Len(rest) \in Nat
              /\ DOMAIN outs = 1..Len(outs) /\ DOMAIN rest = 1..Len(rest)
              /\ DOMAIN turn = 1..(Len(outs) + Len(rest))
              /\ \A k \in 1..Len(outs) : turn[k] = outs[k]
              /\ \A k \in 1..Len(rest) : turn[Len(outs) + k] = rest[k]
          BY <1>1, JoinFacts
        <5> HIDE DEF turn
        <5>2. TAKE i \in DOMAIN turn
        <5>3. CASE i \in 1..Len(outs)
          BY <5>1, <5>3
        <5>4. CASE i \notin 1..Len(outs)
          <6>1. i - Len(outs) \in 1..Len(rest) /\ Len(outs) + (i - Len(outs)) = i
            BY <5>1, <5>2, <5>4
          <6>2. QED BY <5>1, <6>1
        <5>5. QED BY <5>3, <5>4
      <4>2. /\ \A k \in DOMAIN outs : outs[k] \in Kind("output")
            /\ \A k \in DOMAIN rest : rest[k] \in Plain
        BY SeqFacts
      <4>3. /\ \A k \in DOMAIN outs : outs[k].kind # "call"
            /\ \A k \in DOMAIN rest : rest[k].kind # "call"
        BY <4>2 DEF Kind, Plain
      <4>4. QED BY <4>1, <4>3
    <3>2. body.input = turn /\ Len(turn) \in Nat /\ DOMAIN turn = 1..Len(turn)
      BY <1>1, SeqFacts
    <3> HIDE DEF turn
    <3>3. matched = {}
      <4>1. ASSUME NEW j \in matched PROVE FALSE
        <5>1. j \in 1..Len(turn)
          BY <3>2
        <5>2. PICK i \in 1..(j - 1) : turn[i].kind = "call"
          BY <3>2
        <5>3. i \in DOMAIN turn
          BY <3>2, <5>1, <5>2
        <5>4. QED BY <3>1, <5>2, <5>3
      <4> HIDE DEF matched
      <4>2. QED BY <4>1
    <3>4. IdSet(outs) # {}
      <4>1. Len(outs) # 0
        BY <1>1, <1>8, EmptySeq
      <4>2. 1 \in DOMAIN outs
        BY <1>1, <4>1, SeqFacts
      <4>3. QED BY <4>2 DEF IdSet
    <3>5. new = IF {body.input[j].id : j \in matched} = IdSet(outs)
                THEN ExtractRequest(SubSeq(body.input,
                       (CHOOSE j \in matched : \A i \in matched : i <= j) + 1,
                       Len(body.input))).messages
                ELSE ExtractRequest(body.instructions \o body.input).messages
      BY <1>3 DEF NewMessages
    <3> HIDE DEF matched, new
    <3>6. new = ExtractRequest(body.instructions \o body.input).messages
      BY <3>3, <3>4, <3>5
    <3>7. QED BY <3>2, <3>6 DEF items
  <2> HIDE DEF replayed, new, repaired
  <2>5. Merged(body, stored).messages = repaired \o x.messages
    BY <2>1, <2>3, <2>4 DEF Accepted
  <2> DEFINE y == x.messages
             tools == ToolMessages(outs)
  <2>6. y \in Seq(Msg) /\ Told(Heard, y) = rest
    BY <1>4
  <2>7. tools \in Seq(Msg) /\ Told(Heard, tools) = outs
    BY <1>1, ToolsHeard
  <2> HIDE DEF y, x, tools
  <2>8. stored \o tools \in Seq(Msg) /\ Told(Heard, stored \o tools) = talk \o outs
    BY <2>7, HeardJoin, ConcatProperties
  <2> DEFINE z == stored \o tools
  <2> HIDE DEF z
  <2>9. Told(Heard, z \o y) = Told(Heard, z) \o rest
    BY <2>6, <2>8, HeardJoin DEF z
  <2> HIDE DEF talk
  <2>10. (talk \o outs) \o rest = talk \o (outs \o rest)
    <3>1. Thrice(talk, outs, rest)
      BY <1>1, <1>6, JoinThrice
    <3>2. QED BY <3>1 DEF Thrice
  <2>11. QED BY <2>5, <2>8, <2>9, <2>10 DEF z, y, tools, talk, repaired, TurnAdds
<1>9. QED BY <1>7, <1>8

(* Where the outputs of a whole history with a previous response are.      *)
Repeated(input) ==
  {j \in DOMAIN input : /\ input[j].kind = "output"
                        /\ \E i \in 1..(j - 1) : input[i].kind = "call" /\ input[i].id = input[j].id}

LEMMA RepeatedIs ==
  ASSUME NEW talk \in Seq(Items), \A k \in DOMAIN talk : talk[k].kind # "output",
         NEW outs \in Seq(Kind("output")), outs # <<>>, NEW rest \in Seq(Plain),
         \A m \in DOMAIN outs :
           \E i \in DOMAIN talk : talk[i].kind = "call" /\ talk[i].id = outs[m].id
  PROVE  LET input == talk \o (outs \o rest)
             matched == Repeated(input)
             latest == CHOOSE j \in matched : \A i \in matched : i <= j
         IN  /\ {input[j].id : j \in matched} = IdSet(outs)
             /\ SubSeq(input, latest + 1, Len(input)) = rest
<1> DEFINE input == talk \o (outs \o rest)
           matched == Repeated(input)
           latest == CHOOSE j \in matched : \A i \in matched : i <= j
           n == Len(talk)
           z == Len(outs)
           y == Len(rest)
           turn == outs \o rest
<1>1. outs \in Seq(Items) /\ rest \in Seq(Items) /\ turn \in Seq(Items)
  <2>1. <<>> \in Seq(Items) /\ Flushed(<<>>)
    <3>1. <<>> \in Seq(Items)
      OBVIOUS
    <3>2. Flushed(<<>>)
      <4>1. Extracted(<<>>) = NothingYet
        BY ExtractedStep
      <4>2. QED BY <4>1 DEF Flushed, NothingYet
    <3>3. QED BY <3>1, <3>2
  <2>2. outs \in Seq(Items) /\ rest \in Seq(Items)
    BY <2>1, KindSeq, PlainRun
  <2>3. QED BY <2>2, ConcatProperties
<1>2. /\ n \in Nat /\ z \in Nat /\ y \in Nat
      /\ DOMAIN talk = 1..n /\ DOMAIN outs = 1..z /\ DOMAIN rest = 1..y
  BY <1>1, SeqFacts
<1>3. /\ Len(turn) = z + y
      /\ \A k \in 1..z : turn[k] = outs[k]
      /\ \A k \in 1..y : turn[z + k] = rest[k]
  BY <1>1, JoinFacts, ConcatProperties
<1>4. z # 0
  BY <1>1, EmptySeq
<1> HIDE DEF turn
<1>5. /\ DOMAIN input = 1..(n + Len(turn)) /\ input \in Seq(Items)
      /\ \A k \in 1..n : input[k] = talk[k]
      /\ \A k \in 1..Len(turn) : input[n + k] = turn[k]
  <2>1. input = talk \o turn
    BY DEF turn
  <2> HIDE DEF input
  <2>2. QED BY <1>1, <2>1, JoinFacts
<1> HIDE DEF input, n, z, y
<1>6. DOMAIN input = 1..(n + z + y)
  BY <1>2, <1>3, <1>5
<1>7. \A m \in 1..z : input[n + m] = outs[m] /\ n + m \in DOMAIN input
  <2> TAKE m \in 1..z
  <2>1. m \in 1..Len(turn) /\ n + m \in 1..(n + z + y)
    BY <1>2, <1>3
  <2>2. QED BY <1>3, <1>5, <1>6, <2>1
<1>8. \A m \in 1..y : input[n + z + m] = rest[m]
  <2> TAKE m \in 1..y
  <2>1. z + m \in 1..Len(turn) /\ n + (z + m) = n + z + m
    BY <1>2, <1>3
  <2>2. input[n + (z + m)] = turn[z + m]
    BY <1>5, <2>1
  <2>3. QED BY <1>3, <2>1, <2>2
<1>9. \A m \in 1..z : n + m \in matched
  <2> TAKE m \in 1..z
  <2>1. outs[m].kind = "output"
    BY <1>2, KindSeq
  <2>2. PICK i \in 1..n : talk[i].kind = "call" /\ talk[i].id = outs[m].id
    BY <1>2
  <2>3. i \in 1..(n + m - 1)
    BY <1>2
  <2>4. input[i] = talk[i]
    BY <1>5
  <2> DEFINE j == n + m
  <2>5. j \in DOMAIN input /\ input[j] = outs[m] /\ i \in 1..(j - 1)
    <3>1. input[n + m] = outs[m] /\ n + m \in DOMAIN input
      BY <1>7
    <3>2. input[j] = outs[m] /\ j \in DOMAIN input
      BY <3>1, Zenon
    <3>3. i \in 1..(j - 1)
      BY <1>2
    <3>4. QED BY <3>2, <3>3
  <2> HIDE DEF j
  <2>6. j \in Repeated(input)
    BY <2>1, <2>2, <2>4, <2>5 DEF Repeated
  <2>7. QED BY <2>6 DEF j
<1>10. \A j \in matched : \E m \in 1..z : j = n + m
  <2> TAKE j \in matched
  <2>1. j \in 1..(n + z + y) /\ input[j].kind = "output"
    BY <1>6 DEF Repeated
  <2>2. j \notin 1..n
    BY <1>2, <1>5, <2>1
  <2>3. ~ (j > n + z)
    <3>1. SUFFICES ASSUME j > n + z PROVE FALSE
      OBVIOUS
    <3>2. PICK m \in 1..y : j = n + z + m
      <4>1. j - (n + z) \in 1..y /\ j = n + z + (j - (n + z))
        BY <1>2, <2>1, <3>1
      <4>2. QED BY <4>1
    <3>3. rest[m] \in Plain
      BY <1>2, SeqFacts
    <3>4. rest[m].kind # "output"
      BY <3>3 DEF Plain
    <3>5. QED BY <1>8, <2>1, <3>2, <3>4
  <2>4. j - n \in 1..z /\ j = n + (j - n)
    BY <1>2, <2>1, <2>2, <2>3
  <2>5. QED BY <2>4
<1> HIDE DEF matched
<1> HIDE DEF latest
<1>11. {input[j].id : j \in matched} = IdSet(outs)
  <2>1. ASSUME NEW j \in matched PROVE \E m \in DOMAIN outs : input[j].id = outs[m].id
    <3>1. PICK m \in 1..z : j = n + m
      BY <1>10
    <3>2. input[j] = outs[m]
      BY <1>7, <3>1
    <3>3. QED BY <1>2, <3>2
  <2>2. ASSUME NEW m \in DOMAIN outs PROVE \E j \in matched : input[j].id = outs[m].id
    <3>1. n + m \in matched /\ input[n + m] = outs[m]
      BY <1>2, <1>7, <1>9
    <3>2. QED BY <3>1
  <2>3. IdSet(outs) = {outs[m].id : m \in DOMAIN outs}
    BY DEF IdSet
  <2>4. ASSUME NEW e \in {input[j].id : j \in matched} PROVE e \in IdSet(outs)
    <3>1. PICK j \in matched : e = input[j].id
      OBVIOUS
    <3>2. PICK m \in DOMAIN outs : input[j].id = outs[m].id
      BY <2>1
    <3>3. QED BY <2>3, <3>1, <3>2
  <2>5. ASSUME NEW e \in IdSet(outs) PROVE e \in {input[j].id : j \in matched}
    <3>1. PICK m \in DOMAIN outs : e = outs[m].id
      BY <2>3
    <3>2. PICK j \in matched : input[j].id = outs[m].id
      BY <2>2
    <3>3. QED BY <3>1, <3>2
  <2>6. QED BY <2>4, <2>5
<1>12. latest = n + z
  <2>1. z \in 1..z
    BY <1>2, <1>4
  <2>2. n + z \in matched
    BY <1>9, <2>1
  <2>3. \A i \in matched : i \in Nat /\ i <= n + z
    <3> TAKE i \in matched
    <3>1. PICK m \in 1..z : i = n + m
      BY <1>10
    <3>2. QED BY <1>2, <3>1
  <2>4. latest \in matched /\ \A i \in matched : i <= latest
    BY <2>2, <2>3 DEF latest
  <2>5. latest \in Nat /\ latest <= n + z /\ n + z <= latest
    BY <2>2, <2>3, <2>4
  <2>6. QED BY <1>2, <2>5
<1>13. SubSeq(input, latest + 1, Len(input)) = rest
  <2> DEFINE w == talk \o outs
  <2>1. w \in Seq(Items) /\ Len(w) = n + z
    BY <1>1, ConcatProperties DEF n, z
  <2>2. input = w \o rest
    <3>1. (talk \o outs) \o rest = talk \o (outs \o rest)
      <4>1. Thrice(talk, outs, rest)
        BY <1>1, JoinThrice
      <4>2. QED BY <4>1 DEF Thrice
    <3>2. QED BY <3>1 DEF input
  <2> HIDE DEF w
  <2>3. SubSeq(w \o rest, Len(w) + 1, Len(w \o rest)) = rest
    BY <1>1, <2>1, SuffixIs
  <2>4. QED BY <1>12, <2>1, <2>2, <2>3
<1>14. QED BY <1>11, <1>13 DEF input, matched, latest

(* The whole history again, with the id of the stored response.            *)
LEMMA HistoryHeard ==
  ASSUME NEW sys \in Instruction, NEW outs \in Seq(Kind("output")), outs # <<>>,
         NEW rest \in Seq(Plain), NEW stored \in Seq(Msg), stored # <<>>,
         NEW talk, talk = Told(Heard, stored),
         NEW body, body.instructions = <<sys>>, Repeats(body.input, talk, outs, rest),
         \A m \in DOMAIN outs :
           \E i \in DOMAIN talk : talk[i].kind = "call" /\ talk[i].id = outs[m].id,
         Merged(body, stored).ok
  PROVE  TurnAdds(Merged(body, stored).messages, talk, outs, rest)
<1> DEFINE O == Kind("output")
           input == talk \o (outs \o rest)
           items == <<sys>> \o input
           x == ExtractRequest(items)
           os == Picked(talk, O) \o outs
           repaired == stored \o ToolMessages(os)
           replayed == RepairHistory(stored, os)
           new == NewMessages(body, os)
<1>0. talk \in Seq(Items)
  BY HeardJoin
<1>1. /\ input \in Seq(Items) /\ <<sys>> \in Seq(Items) /\ outs \in Seq(Items)
      /\ rest \in Seq(Items) /\ Picked(items, O) = os
  <2>1. <<sys>> \in Seq(Items) /\ outs \in Seq(Items) /\ rest \in Seq(Items)
    BY <1>0, TurnPicked
  <2>2. talk \o (outs \o rest) \in Seq(Items)
    BY <1>0, TurnPicked
  <2>3. TurnPicks(sys, talk, outs, rest)
    BY <1>0, TurnPicked
  <2>4. QED BY <2>1, <2>2, <2>3 DEF TurnPicks
<1>2. x.outputs = os
  <2>1. items \in Seq(Items)
    <3> HIDE DEF input
    <3>1. QED BY <1>1, ConcatProperties
  <2> HIDE DEF items, os, O
  <2>2. x.outputs = Picked(items, O)
    BY <2>1, ExtractRequestIs DEF O
  <2>3. QED BY <1>1, <2>2
<1>3. /\ Picked(talk, O) \in Seq(Items)
      /\ \A k \in DOMAIN talk : talk[k] \in O =>
           \E i \in DOMAIN Picked(talk, O) : Picked(talk, O)[i] = talk[k]
  BY <1>0, PickedFacts
<1>4. /\ os \in Seq(Items) /\ os # <<>>
      /\ \A i \in DOMAIN Picked(talk, O) : i \in DOMAIN os /\ os[i] = Picked(talk, O)[i]
  <2> DEFINE p == Picked(talk, O)
  <2>1. p \in Seq(Items)
    BY <1>3
  <2> HIDE DEF p
  <2>2. /\ p \o outs \in Seq(Items) /\ Len(p) \in Nat /\ Len(outs) \in Nat
        /\ DOMAIN p = 1..Len(p) /\ DOMAIN (p \o outs) = 1..(Len(p) + Len(outs))
        /\ \A k \in 1..Len(p) : (p \o outs)[k] = p[k]
    BY <1>1, <2>1, JoinFacts
  <2> DEFINE q == p \o outs
  <2>3. Len(outs) # 0
    BY <1>1, EmptySeq
  <2> HIDE DEF q
  <2>4. Len(p) + Len(outs) \in DOMAIN q
    BY <2>2, <2>3 DEF q
  <2>5. q # <<>>
    BY <2>4
  <2>6. \A i \in DOMAIN p : i \in DOMAIN q
    BY <2>2 DEF q
  <2>7. QED BY <2>2, <2>5, <2>6 DEF q, p
<1>5. Merged(body, stored) = [replayed EXCEPT !.messages = @ \o new]
  <2>1. Merged(body, stored) =
          CASE x.outputs = <<>> -> Accepted(stored \o x.messages)
            [] x.outputs # <<>> /\ stored = <<>> -> RepairStatelessHistory(x.messages, x.outputs)
            [] OTHER -> [RepairHistory(stored, x.outputs) EXCEPT
                           !.messages = @ \o NewMessages(body, x.outputs)]
    BY DEF Merged, Repeats
  <2> HIDE DEF x, os
  <2>2. QED BY <1>2, <1>4, <2>1
<1> HIDE DEF x, items
<1>6. replayed = Accepted(repaired) \/ replayed = Refused
  BY DEF RepairHistory
<1>7. replayed = Accepted(repaired) /\ ValidChatToolHistory(repaired)
  <2>1. replayed # Refused
    <3>1. SUFFICES ASSUME replayed = Refused PROVE FALSE
      OBVIOUS
    <3> HIDE DEF replayed, new
    <3>2. Merged(body, stored).ok = FALSE
      BY <1>5, <3>1 DEF Refused
    <3>3. QED BY <3>2
  <2>2. replayed = IF NoDuplicateCallOutputs(Ids(os)) /\ ValidChatToolHistory(repaired)
                   THEN Accepted(repaired) ELSE Refused
    BY DEF RepairHistory
  <2> HIDE DEF replayed, repaired, os
  <2>3. QED BY <2>1, <2>2
<1> HIDE DEF os
<1>8. ToolMessages(os) \in Seq(Msg) /\ repaired \in Seq(Msg)
  <2>1. ToolMessages(os) \in Seq(Msg)
    BY <1>4, ToolsHeard
  <2>2. QED BY <2>1, ConcatProperties
<1>9. Once(repaired)
  <2> HIDE DEF repaired
  <2>1. QED BY <1>7, <1>8, ValidIsOnce
<1>10. \A k \in DOMAIN talk : talk[k].kind # "output"
  <2>1. ASSUME NEW k \in DOMAIN talk, talk[k].kind = "output"
        PROVE  \E i \in DOMAIN os : os[i] = talk[k]
    <3>1. talk[k] \in O
      BY <1>0, <2>1, SeqFacts DEF Kind
    <3> HIDE DEF O
    <3>2. PICK i \in DOMAIN Picked(talk, O) : Picked(talk, O)[i] = talk[k]
      BY <1>3, <3>1
    <3>3. QED BY <1>4, <3>2
  <2>2. QED BY <1>4, <1>9, <2>1, NothingRepeated
<1>11. os = outs
  <2>1. \A k \in DOMAIN talk : talk[k] \notin O
    BY <1>10 DEF Kind
  <2> HIDE DEF O
  <2>2. Picked(talk, O) = <<>>
    BY <1>0, <2>1, PickedWhole
  <2>3. <<>> \o outs = outs
    BY <1>1, ConcatEmptySeq
  <2>4. QED BY <2>2, <2>3 DEF os
<1>12. new = Extractable(rest)
  <2> DEFINE matched == Repeated(input)
             latest == CHOOSE j \in matched : \A i \in matched : i <= j
  <2>1. /\ {input[j].id : j \in matched} = IdSet(outs)
        /\ SubSeq(input, latest + 1, Len(input)) = rest
    BY <1>0, <1>10, RepeatedIs
  <2>2. new = IF {input[j].id : j \in matched} = IdSet(outs)
              THEN ExtractRequest(SubSeq(input, latest + 1, Len(input))).messages
              ELSE ExtractRequest(body.instructions \o body.input).messages
    BY <1>11 DEF NewMessages, Repeated, Repeats
  <2> HIDE DEF matched, latest, input, new
  <2>3. QED BY <2>1, <2>2 DEF Extractable
<1> DEFINE y == Extractable(rest)
           tools == ToolMessages(outs)
           z == stored \o tools
<1>13. Merged(body, stored).messages = z \o y
  <2> HIDE DEF replayed, new, repaired
  <2>1. Merged(body, stored).messages = repaired \o new
    BY <1>5, <1>7 DEF Accepted
  <2>2. repaired = z
    BY <1>11 DEF repaired
  <2>3. QED BY <1>12, <2>1, <2>2
<1>14. y \in Seq(Msg) /\ Told(Heard, y) = rest
  <2>1. y \in Seq(Talk) /\ Told(Heard, y) = rest
    BY TurnExtracted
  <2> HIDE DEF y
  <2>2. QED BY <2>1, MessagesAre
<1>15. tools \in Seq(Msg) /\ Told(Heard, tools) = outs
  BY <1>1, ToolsHeard
<1> HIDE DEF y, tools
<1>16. z \in Seq(Msg) /\ Told(Heard, z) = talk \o outs
  BY <1>15, HeardJoin, ConcatProperties
<1> HIDE DEF z
<1>17. Told(Heard, z \o y) = Told(Heard, z) \o rest
  BY <1>14, <1>16, HeardJoin
<1>18. (talk \o outs) \o rest = talk \o (outs \o rest)
  <2>1. Thrice(talk, outs, rest)
    BY <1>0, <1>1, JoinThrice
  <2>2. QED BY <2>1 DEF Thrice
<1>19. QED BY <1>13, <1>16, <1>17, <1>18 DEF TurnAdds

------------------------------------------------------------------------------
(* A conversation that the client brings whole.                            *)

Whole(s) == \E B \in Seq(Piece) : s = Told(Parts, B)

LEMMA OutsAre ==
  ASSUME NEW p \in Piece
  PROVE  /\ \A o \in DOMAIN OutsOf(p) : \E k \in DOMAIN p.calls :
              p.calls[k] \in p.answered /\ OutsOf(p)[o] = Item("output", p.calls[k].id, p.tag)
         /\ \A k \in DOMAIN p.calls : p.calls[k] \in p.answered =>
              \E o \in DOMAIN OutsOf(p) : OutsOf(p)[o] = Item("output", p.calls[k].id, p.tag)
<1> DEFINE C == Kind("call")
           f == AnswersOf(p.answered, p.tag)
           s == p.calls
<1>1. s \in Seq(C) /\ p.tag \in Numbers
  BY PieceIs
<1>2. Tells(f, C, Kind("output"))
  BY <1>1, AnswersTell
<1>3. OutsOf(p) = Told(f, s)
  BY DEF OutsOf
<1>4. \A x \in C : f[x] = IF x \in p.answered THEN <<Item("output", x.id, p.tag)>> ELSE <<>>
  BY DEF AnswersOf
<1> HIDE DEF C, f, s
<1>5. \A k \in DOMAIN s : s[k] \in C
  BY <1>1, SeqFacts
<1>6. ASSUME NEW o \in DOMAIN Told(f, s)
      PROVE  \E k \in DOMAIN s :
               s[k] \in p.answered /\ Told(f, s)[o] = Item("output", s[k].id, p.tag)
  <2>1. PICK k \in DOMAIN s : \E j \in DOMAIN f[s[k]] : Told(f, s)[o] = f[s[k]][j]
    BY <1>1, <1>2, ToldMembers
  <2>2. PICK j \in DOMAIN f[s[k]] : Told(f, s)[o] = f[s[k]][j]
    BY <2>1
  <2>3. s[k] \in p.answered /\ f[s[k]] = <<Item("output", s[k].id, p.tag)>>
    <3>1. s[k] \in C
      BY <1>5
    <3>2. f[s[k]] # <<>>
      <4>1. ASSUME NEW e, j \in DOMAIN e PROVE e # <<>>
        BY <4>1
      <4>2. QED BY <4>1
    <3>3. s[k] \in p.answered
      BY <1>4, <3>1, <3>2
    <3>4. QED BY <1>4, <3>1, <3>3
  <2>4. j = 1
    BY <2>2, <2>3
  <2>5. QED BY <2>2, <2>3, <2>4
<1>7. ASSUME NEW k \in DOMAIN s, s[k] \in p.answered
      PROVE  \E o \in DOMAIN Told(f, s) : Told(f, s)[o] = Item("output", s[k].id, p.tag)
  <2>1. f[s[k]] = <<Item("output", s[k].id, p.tag)>>
    BY <1>4, <1>5, <1>7
  <2>2. 1 \in DOMAIN f[s[k]] /\ f[s[k]][1] = Item("output", s[k].id, p.tag)
    BY <2>1
  <2>3. \A t \in Seq(C) : \A i \in DOMAIN t : \A x \in DOMAIN f[t[i]] :
          \E z \in DOMAIN Told(f, t) : Told(f, t)[z] = f[t[i]][x]
    BY <1>2, ToldOrder
  <2>4. \E z \in DOMAIN Told(f, s) : Told(f, s)[z] = f[s[k]][1]
    BY <1>1, <2>2, <2>3
  <2>5. QED BY <2>2, <2>4
<1>8. QED BY <1>3, <1>6, <1>7 DEF s

LEMMA PartsAre ==
  ASSUME NEW p \in Piece
  PROVE  /\ Parts[p] \in Seq(Items)
         /\ \A k \in DOMAIN p.calls : k \in DOMAIN Parts[p] /\ Parts[p][k] = p.calls[k]
         /\ \A o \in DOMAIN OutsOf(p) : \E j \in DOMAIN Parts[p] : Parts[p][j] = OutsOf(p)[o]
         /\ \A j \in DOMAIN Parts[p] : Parts[p][j].kind = "output" =>
              \E o \in DOMAIN OutsOf(p) : Parts[p][j] = OutsOf(p)[o]
         /\ \A j \in DOMAIN Parts[p] : Parts[p][j].kind = "call" =>
              \E k \in DOMAIN p.calls : Parts[p][j] = p.calls[k]
<1> DEFINE a == p.calls
           b == OutsOf(p)
           d == p.plain
           e == a \o b
           t == e \o d
<1>1. /\ a \in Seq(Kind("call")) /\ a \in Seq(Items) /\ b \in Seq(Kind("output"))
      /\ b \in Seq(Items) /\ d \in Seq(Plain) /\ d \in Seq(Items) /\ e \in Seq(Items)
  BY PieceIs
<1>2. Parts[p] = t
  BY DEF Parts
<1> HIDE DEF a, b, d
<1>3. /\ Len(a) \in Nat /\ Len(b) \in Nat /\ DOMAIN a = 1..Len(a) /\ DOMAIN b = 1..Len(b)
      /\ DOMAIN e = 1..(Len(a) + Len(b)) /\ Len(e) = Len(a) + Len(b)
      /\ \A k \in 1..Len(a) : e[k] = a[k]
      /\ \A k \in 1..Len(b) : e[Len(a) + k] = b[k]
  BY <1>1, JoinFacts, ConcatProperties
<1> HIDE DEF e
<1>4. /\ Len(d) \in Nat /\ DOMAIN d = 1..Len(d) /\ t \in Seq(Items)
      /\ DOMAIN t = 1..(Len(e) + Len(d))
      /\ \A k \in 1..Len(e) : t[k] = e[k]
      /\ \A k \in 1..Len(d) : t[Len(e) + k] = d[k]
  BY <1>1, JoinFacts
<1> HIDE DEF t
<1>5. /\ \A k \in DOMAIN a : a[k].kind = "call"
      /\ \A k \in DOMAIN b : b[k].kind = "output"
      /\ \A k \in DOMAIN d : d[k].kind \in {"user", "text"}
  <2>1. \A k \in DOMAIN d : d[k] \in Plain
    BY <1>1, SeqFacts
  <2>2. \A k \in DOMAIN d : d[k].kind \in {"user", "text"}
    BY <2>1 DEF Plain
  <2>3. QED BY <1>1, <2>2, KindSeq
<1>6. ASSUME NEW j \in DOMAIN t
      PROVE  \/ \E k \in DOMAIN a : t[j] = a[k]
             \/ \E k \in DOMAIN b : t[j] = b[k]
             \/ \E k \in DOMAIN d : t[j] = d[k]
  <2>1. CASE j \in 1..Len(a)
    <3>1. j \in 1..Len(e)
      BY <1>3, <2>1
    <3>2. QED BY <1>3, <1>4, <2>1, <3>1
  <2>2. CASE j \notin 1..Len(a) /\ j \in 1..Len(e)
    <3>1. j - Len(a) \in 1..Len(b) /\ Len(a) + (j - Len(a)) = j
      BY <1>3, <2>2
    <3>2. e[j] = b[j - Len(a)]
      BY <1>3, <3>1
    <3>3. QED BY <1>3, <1>4, <2>2, <3>1, <3>2
  <2>3. CASE j \notin 1..Len(e)
    <3>1. j - Len(e) \in 1..Len(d) /\ Len(e) + (j - Len(e)) = j
      BY <1>3, <1>4, <2>3
    <3>2. t[j] = d[j - Len(e)]
      BY <1>4, <3>1
    <3>3. QED BY <1>4, <3>1, <3>2
  <2>4. QED BY <2>1, <2>2, <2>3
<1>7. \A k \in DOMAIN a : k \in DOMAIN t /\ t[k] = a[k]
  BY <1>3, <1>4
<1>8. ASSUME NEW o \in DOMAIN b PROVE \E j \in DOMAIN t : t[j] = b[o]
  <2>1. Len(a) + o \in 1..Len(e) /\ Len(a) + o \in DOMAIN t
    BY <1>3, <1>4
  <2>2. t[Len(a) + o] = e[Len(a) + o] /\ e[Len(a) + o] = b[o]
    BY <1>3, <1>4, <2>1
  <2>3. QED BY <2>1, <2>2
<1>9. ASSUME NEW j \in DOMAIN t
      PROVE  /\ t[j].kind = "output" => \E o \in DOMAIN b : t[j] = b[o]
             /\ t[j].kind = "call" => \E k \in DOMAIN a : t[j] = a[k]
  <2>1. CASE \E k \in DOMAIN a : t[j] = a[k]
    BY <1>5, <2>1
  <2>2. CASE \E k \in DOMAIN b : t[j] = b[k]
    BY <1>5, <2>2
  <2>3. CASE \E k \in DOMAIN d : t[j] = d[k]
    BY <1>5, <2>3
  <2>4. QED BY <1>6, <2>1, <2>2, <2>3
<1>10. QED BY <1>2, <1>4, <1>7, <1>8, <1>9 DEF a, b

(* Where the items of a conversation in pieces are from.                   *)
LEMMA WholeItems ==
  ASSUME NEW B \in Seq(Piece)
  PROVE  /\ Told(Parts, B) \in Seq(Items)
         /\ \A i \in DOMAIN Told(Parts, B) : Told(Parts, B)[i].kind = "output" =>
              \E k \in DOMAIN B : \E o \in DOMAIN OutsOf(B[k]) :
                Told(Parts, B)[i] = OutsOf(B[k])[o]
         /\ \A k \in DOMAIN B : \A c \in DOMAIN B[k].calls :
              \E i \in DOMAIN Told(Parts, B) : Told(Parts, B)[i] = B[k].calls[c]
         /\ \A k \in DOMAIN B : \A o \in DOMAIN OutsOf(B[k]) :
              \E i \in DOMAIN Told(Parts, B) : Told(Parts, B)[i] = OutsOf(B[k])[o]
<1> DEFINE s == Told(Parts, B)
<1>1. Tells(Parts, Piece, Items) /\ \A k \in DOMAIN B : B[k] \in Piece
  BY PartsTell, SeqFacts
<1>2. s \in Seq(Items)
  BY <1>1, ToldFacts
<1>3. \A i \in DOMAIN s : \E k \in DOMAIN B : \E j \in DOMAIN Parts[B[k]] : s[i] = Parts[B[k]][j]
  BY <1>1, ToldMembers
<1>4. \A k \in DOMAIN B : \A j \in DOMAIN Parts[B[k]] : \E i \in DOMAIN s : s[i] = Parts[B[k]][j]
  BY <1>1, ToldOrder
<1> HIDE DEF s
<1>5. ASSUME NEW i \in DOMAIN s, s[i].kind = "output"
      PROVE  \E k \in DOMAIN B : \E o \in DOMAIN OutsOf(B[k]) : s[i] = OutsOf(B[k])[o]
  <2>1. PICK k \in DOMAIN B : \E j \in DOMAIN Parts[B[k]] : s[i] = Parts[B[k]][j]
    BY <1>3
  <2>2. PICK j \in DOMAIN Parts[B[k]] : s[i] = Parts[B[k]][j]
    BY <2>1
  <2>3. \E o \in DOMAIN OutsOf(B[k]) : Parts[B[k]][j] = OutsOf(B[k])[o]
    BY <1>1, <1>5, <2>2, PartsAre
  <2>4. QED BY <2>2, <2>3
<1>6. ASSUME NEW k \in DOMAIN B, NEW c \in DOMAIN B[k].calls
      PROVE  \E i \in DOMAIN s : s[i] = B[k].calls[c]
  <2>1. c \in DOMAIN Parts[B[k]] /\ Parts[B[k]][c] = B[k].calls[c]
    BY <1>1, PartsAre
  <2>2. QED BY <1>4, <2>1
<1>7. ASSUME NEW k \in DOMAIN B, NEW o \in DOMAIN OutsOf(B[k])
      PROVE  \E i \in DOMAIN s : s[i] = OutsOf(B[k])[o]
  <2>1. PICK j \in DOMAIN Parts[B[k]] : Parts[B[k]][j] = OutsOf(B[k])[o]
    BY <1>1, PartsAre
  <2>2. QED BY <1>4, <2>1
<1>8. QED BY <1>2, <1>5, <1>6, <1>7 DEF s

(* Every output of the conversation has its call in it.                    *)
LEMMA WholeAnswers ==
  ASSUME NEW s, Whole(s)
  PROVE  /\ s \in Seq(Items)
         /\ \A i \in DOMAIN s : s[i].kind = "output" =>
              \E j \in DOMAIN s : s[j].kind = "call" /\ s[j].id = s[i].id
<1>1. PICK B \in Seq(Piece) : s = Told(Parts, B)
  BY DEF Whole
<1>2. /\ s \in Seq(Items)
      /\ \A i \in DOMAIN s : s[i].kind = "output" =>
           \E k \in DOMAIN B : \E o \in DOMAIN OutsOf(B[k]) : s[i] = OutsOf(B[k])[o]
      /\ \A k \in DOMAIN B : \A c \in DOMAIN B[k].calls : \E i \in DOMAIN s : s[i] = B[k].calls[c]
  BY <1>1, WholeItems
<1>3. \A k \in DOMAIN B : B[k] \in Piece
  BY SeqFacts
<1>4. ASSUME NEW i \in DOMAIN s, s[i].kind = "output"
      PROVE  \E j \in DOMAIN s : s[j].kind = "call" /\ s[j].id = s[i].id
  <2>1. PICK k \in DOMAIN B : \E o \in DOMAIN OutsOf(B[k]) : s[i] = OutsOf(B[k])[o]
    BY <1>2, <1>4
  <2>2. PICK o \in DOMAIN OutsOf(B[k]) : s[i] = OutsOf(B[k])[o]
    BY <2>1
  <2>3. PICK c \in DOMAIN B[k].calls : OutsOf(B[k])[o] = Item("output", B[k].calls[c].id, B[k].tag)
    BY <1>3, <2>2, OutsAre
  <2>4. PICK j \in DOMAIN s : s[j] = B[k].calls[c]
    BY <1>2
  <2>5. s[i].id = B[k].calls[c].id
    BY <2>2, <2>3 DEF Item
  <2>6. B[k].calls[c].kind = "call"
    BY <1>3, PieceIs, KindSeq
  <2>7. QED BY <2>4, <2>5, <2>6
<1>5. QED BY <1>2, <1>4

(* repair_stateless_history: what it makes of one message, and of a piece. *)
RepliesFor(O) == [c \in Items |-> ToolMessages(Picked(O, {o \in ToSet(O) : o.id = c.id}))]
Answering(O) == [c \in Items |-> Picked(O, {o \in ToSet(O) : o.id = c.id})]
Replaying(O) == [m \in Talk |-> <<m>> \o Replay(m, O)]
FullOf(O) == [p \in Piece |-> Told(Replaying(O), MessagesOf[p])]

LEMMA AnswerPicked ==
  ASSUME NEW O \in Seq(Items), NEW i \in DOMAIN O, NEW x \in Items, O[i].id = x.id
  PROVE  LET P == Picked(O, {o \in ToSet(O) : o.id = x.id})
         IN  P \in Seq(Items) /\ \E j \in DOMAIN P : P[j] = O[i]
<1> DEFINE S == {o \in ToSet(O) : o.id = x.id}
<1>1. O[i] \in S
  BY InToSet
<1> HIDE DEF S
<1>2. /\ Picked(O, S) \in Seq(Items)
      /\ \A l \in DOMAIN O : O[l] \in S => \E j \in DOMAIN Picked(O, S) : Picked(O, S)[j] = O[l]
  BY PickedFacts
<1>3. QED BY <1>1, <1>2 DEF S

LEMMA AnsweringIs ==
  ASSUME NEW O \in Seq(Items)
  PROVE  /\ Tells(RepliesFor(O), Items, Msg) /\ Tells(Answering(O), Items, Items)
         /\ \A c \in Items : Answering(O)[c] = Told(Heard, RepliesFor(O)[c])
<1>1. ASSUME NEW c \in Items
      PROVE  LET s == Picked(O, {o \in ToSet(O) : o.id = c.id})
             IN  s \in Seq(Items) /\ ToolMessages(s) \in Seq(Msg) /\ Told(Heard, ToolMessages(s)) = s
  <2> DEFINE s == Picked(O, {o \in ToSet(O) : o.id = c.id})
  <2>1. s \in Seq(Items)
    BY PickedFacts
  <2> HIDE DEF s
  <2>2. ToolMessages(s) \in Seq(Msg) /\ Told(Heard, ToolMessages(s)) = s
    BY <2>1, ToolsHeard
  <2>3. QED BY <2>1, <2>2 DEF s
<1>2. QED BY <1>1 DEF RepliesFor, Answering, Tells

LEMMA ReplayTold ==
  ASSUME NEW m \in Talk, NEW O \in Seq(Items)
  PROVE  /\ Replay(m, O) \in Seq(Msg) /\ ToolCalls(m) \in Seq(Items)
         /\ Replay(m, O) = Told(RepliesFor(O), ToolCalls(m))
         /\ Told(Heard, Replay(m, O)) = Told(Answering(O), ToolCalls(m))
         /\ ToolCalls(m) = <<>> => Replay(m, O) = <<>>
<1> DEFINE s == ToolCalls(m)
           f == RepliesFor(O)
           h == Answering(O)
<1>1. s \in Seq(Items)
  BY ToolCallsIs DEF Talk
<1>2. Replay(m, O) = Told(f, s)
  <2>1. \A k \in DOMAIN s : s[k] \in Items
    BY <1>1, SeqFacts
  <2>2. Replay(m, O) =
          FlattenSeq([k \in DOMAIN s |->
            ToolMessages(Picked(O, {o \in ToSet(O) : o.id = s[k].id}))])
    BY DEF Replay
  <2> HIDE DEF s
  <2>3. \A k \in DOMAIN s : f[s[k]] = ToolMessages(Picked(O, {o \in ToSet(O) : o.id = s[k].id}))
    BY <2>1 DEF RepliesFor
  <2> HIDE DEF f
  <2>4. Mapped(f, s) = [k \in DOMAIN s |->
            ToolMessages(Picked(O, {o \in ToSet(O) : o.id = s[k].id}))]
    BY <2>3 DEF Mapped
  <2>5. QED BY <2>2, <2>4 DEF Told
<1>3. Tells(f, Items, Msg) /\ Tells(h, Items, Items) /\ \A c \in Items : h[c] = Told(Heard, f[c])
  BY AnsweringIs
<1> HIDE DEF s, f, h
<1>4. Told(f, s) \in Seq(Msg) /\ Told(f, <<>>) = <<>>
  BY <1>1, <1>3, ToldFacts
<1>5. \A r \in Seq(Items) : Told(Heard, Told(f, r)) = Told(h, r)
  BY <1>3, HeardTells, ToldTwice
<1>6. QED BY <1>1, <1>2, <1>4, <1>5 DEF s, f, h

LEMMA ReplayingTells ==
  ASSUME NEW O \in Seq(Items)
  PROVE  Tells(Replaying(O), Talk, Msg)
<1>1. ASSUME NEW m \in Talk PROVE <<m>> \o Replay(m, O) \in Seq(Msg)
  <2>1. <<m>> \in Seq(Msg)
    BY DEF Talk
  <2>2. Replay(m, O) \in Seq(Msg)
    BY ReplayTold
  <2>3. QED BY <2>1, <2>2, ConcatProperties
<1>2. QED BY <1>1 DEF Replaying, Tells

(* A message without calls is not replayed, and the calls of a piece are.  *)
LEMMA CallsOf ==
  /\ \A x \in Plain : ToolCalls(Message(RoleOf(x), <<x>>)) = <<>>
  /\ \A x \in Instruction : ToolCalls(Message("system", <<x>>)) = <<>>
  /\ \A s \in Seq(Kind("call")) : /\ ToolCalls(Message("assistant", s)) = s
                                  /\ Message("assistant", s) \in Talk
                                  /\ Heard[Message("assistant", s)] = s
<1>1. ASSUME NEW x \in Plain PROVE ToolCalls(Message(RoleOf(x), <<x>>)) = <<>>
  <2> DEFINE s == <<x>>
             C == Kind("call")
  <2>1. s \in Seq(Items) /\ \A i \in DOMAIN s : s[i] \notin C
    BY DEF Plain, Kind
  <2> HIDE DEF s, C
  <2>2. Picked(s, C) = <<>> /\ OfKind(s, "call") = Picked(s, C)
    BY <2>1, PickedWhole, OfKindIs DEF C
  <2>3. OfKind(s, "call") = <<>>
    BY <2>2
  <2>4. Message(RoleOf(x), s).items = s
    BY DEF Message
  <2>5. QED BY <2>3, <2>4 DEF ToolCalls, s
<1>2. ASSUME NEW x \in Instruction PROVE ToolCalls(Message("system", <<x>>)) = <<>>
  BY DEF ToolCalls, Message
<1>3. ASSUME NEW s \in Seq(Kind("call"))
      PROVE  /\ ToolCalls(Message("assistant", s)) = s /\ Message("assistant", s) \in Talk
             /\ Heard[Message("assistant", s)] = s
  <2> DEFINE C == Kind("call")
             m == Message("assistant", s)
  <2>1. s \in Seq(Items) /\ Quiet(s) /\ \A i \in DOMAIN s : s[i] \in C
    BY KindSeq
  <2> HIDE DEF C
  <2>2. Picked(s, C) = s /\ OfKind(s, "call") = Picked(s, C)
    BY <2>1, PickedWhole, OfKindIs DEF C
  <2>3. OfKind(s, "call") = s
    BY <2>2
  <2>4. m \in Talk /\ m.role = "assistant" /\ m.items = s
    BY <2>1, MessageIs DEF Roles
  <2> HIDE DEF m
  <2>5. ToolCalls(m) = s
    BY <2>3, <2>4 DEF ToolCalls
  <2>6. Heard[m] = s
    BY <2>4 DEF Heard, Talk
  <2>7. QED BY <2>4, <2>5, <2>6 DEF m
<1>4. QED BY <1>1, <1>2, <1>3

LEMMA PlainReplayed ==
  ASSUME NEW O \in Seq(Items), NEW d \in Seq(Plain)
  PROVE  Told(Replaying(O), Told(Alone, d)) = Told(Alone, d)
<1> DEFINE g == Replaying(O)
<1>1. Tells(Alone, Plain, Talk) /\ Tells(g, Talk, Msg)
  BY AloneIs, ReplayingTells
<1>2. Tells(Alone, Plain, Msg)
  BY <1>1, MessagesAre DEF Tells
<1>3. ASSUME NEW x \in Plain PROVE Alone[x] = Told(g, Alone[x])
  <2> DEFINE m == Message(RoleOf(x), <<x>>)
  <2>1. m \in Talk /\ Alone[x] = <<m>>
    BY AloneIs DEF Alone
  <2>2. Replay(m, O) = <<>>
    BY <2>1, CallsOf, ReplayTold
  <2> HIDE DEF m
  <2>3. g[m] = <<m>> \o <<>>
    BY <2>1, <2>2 DEF Replaying
  <2>4. <<m>> \in Seq(Talk) /\ <<m>> \o <<>> = <<m>>
    BY <2>1, ConcatEmptySeq
  <2> HIDE DEF g
  <2>5. Told(g, <<m>>) = g[m]
    BY <1>1, <2>1, ToldSingle
  <2>6. QED BY <2>1, <2>3, <2>4, <2>5
<1> HIDE DEF g
<1>4. \A s \in Seq(Plain) : Told(g, Told(Alone, s)) = Told(Alone, s)
  BY <1>1, <1>2, <1>3, ToldTwice
<1>5. QED BY <1>4 DEF g

LEMMA PieceReplayed ==
  ASSUME NEW O \in Seq(Items), NEW p \in Piece
  PROVE  /\ FullOf(O)[p] \in Seq(Msg)
         /\ Told(Heard, FullOf(O)[p]) = (p.calls \o Told(Answering(O), p.calls)) \o p.plain
         /\ \A k \in DOMAIN p.calls : \A i \in DOMAIN O : O[i].id = p.calls[k].id =>
              \E z \in DOMAIN FullOf(O)[p] :
                FullOf(O)[p][z].role = "tool" /\ FullOf(O)[p][z].items[1] = O[i]
<1> DEFINE a == p.calls
           d == p.plain
           m == Message("assistant", a)
           D == Told(Alone, d)
           g == Replaying(O)
           full == FullOf(O)[p]
           ans == Told(Answering(O), a)
<1>1. a \in Seq(Kind("call")) /\ a \in Seq(Items) /\ d \in Seq(Plain) /\ d \in Seq(Items)
  BY PieceIs
<1>2. MessagesOf[p] = (IF a = <<>> THEN <<>> ELSE <<m>>) \o D
  BY DEF MessagesOf
<1>3. /\ D \in Seq(Talk) /\ D \in Seq(Msg) /\ Told(Heard, D) = d /\ Told(g, D) = D
  BY <1>1, PlainHeard, PlainReplayed
<1>4. Tells(g, Talk, Msg)
  BY ReplayingTells
<1>5. m \in Talk /\ ToolCalls(m) = a /\ Heard[m] = a
  BY <1>1, CallsOf
<1>6. full = Told(g, MessagesOf[p])
  BY DEF FullOf
<1>7. Tells(Answering(O), Items, Items)
  BY AnsweringIs
<1>8. ans \in Seq(Items) /\ Told(Answering(O), <<>>) = <<>>
  BY <1>1, <1>7, ToldFacts
<1> HIDE DEF a, d, m, D, full, ans
<1>9. CASE a = <<>>
  <2>1. <<>> \o D = D
    BY <1>3, ConcatEmptySeq
  <2>2. full = D
    BY <1>2, <1>3, <1>6, <1>9, <2>1
  <2>3. ans = <<>>
    BY <1>8, <1>9 DEF ans
  <2>4. (a \o ans) \o d = d
    <3>1. <<>> \o <<>> = <<>> /\ <<>> \o d = d
      BY <1>1, ConcatEmptySeq, EmptySeq
    <3>2. QED BY <1>9, <2>3, <3>1
  <2>5. DOMAIN a = {}
    BY <1>9
  <2>6. QED BY <1>3, <2>2, <2>4, <2>5 DEF full, a, ans, d
<1>10. CASE a # <<>>
  <2> DEFINE R == Replay(m, O)
             h == <<m>> \o R
  <2>1. /\ R \in Seq(Msg) /\ R = Told(RepliesFor(O), a) /\ Told(Heard, R) = ans
    BY <1>5, ReplayTold DEF ans
  <2>2. g[m] = h
    BY <1>5 DEF Replaying
  <2> HIDE DEF g, R
  <2>3. <<m>> \in Seq(Msg) /\ <<m>> \in Seq(Talk) /\ m \in Msg
    BY <1>5 DEF Talk
  <2>4. h \in Seq(Msg) /\ Told(Heard, h) = a \o ans
    <3> DEFINE c == <<m>>
    <3>1. c \in Seq(Msg) /\ Told(Heard, c) = a
      <4>1. Told(Heard, <<m>>) = Heard[m]
        BY <2>3, HeardAppend, EmptySeq
      <4>2. QED BY <1>5, <2>3, <4>1
    <3> HIDE DEF c
    <3>2. c \o R \in Seq(Msg) /\ Told(Heard, c \o R) = a \o ans
      BY <2>1, <3>1, HeardJoin, ConcatProperties
    <3>3. QED BY <3>2 DEF c
  <2>5. full = h \o D
    <3>1. Told(g, <<m>> \o D) = Told(g, <<m>>) \o Told(g, D)
      <4> DEFINE c == <<m>>
      <4>1. c \in Seq(Talk) /\ D \in Seq(Talk) /\ Tells(g, Talk, Msg)
        BY <1>3, <1>4, <2>3 DEF g
      <4> HIDE DEF c
      <4>2. \A t \in Seq(Talk) : Told(g, c \o t) = Told(g, c) \o Told(g, t)
        BY <4>1, ToldConcat
      <4>3. QED BY <4>1, <4>2 DEF c
    <3>2. Told(g, <<m>>) = g[m]
      BY <1>4, <1>5, ToldSingle DEF g
    <3>3. MessagesOf[p] = <<m>> \o D
      BY <1>2, <1>10
    <3>4. Told(g, D) = D
      BY <1>3 DEF g
    <3>5. full = Told(g, <<m>> \o D)
      BY <1>6, <3>3 DEF g
    <3> HIDE DEF h
    <3>6. QED BY <2>2, <3>1, <3>2, <3>4, <3>5
  <2>6. /\ DOMAIN h = 1..(1 + Len(R)) /\ Len(R) \in Nat /\ DOMAIN R = 1..Len(R)
        /\ \A k \in 1..Len(R) : h[1 + k] = R[k]
    <3> DEFINE c == <<m>>
    <3>1. c \in Seq(Msg) /\ Len(c) = 1 /\ h = c \o R
      BY <2>3
    <3>2. R \in Seq(Msg)
      BY <2>1
    <3> HIDE DEF c, h
    <3>3. \A s, t \in Seq(Msg) :
            /\ DOMAIN (s \o t) = 1..(Len(s) + Len(t)) /\ Len(t) \in Nat /\ DOMAIN t = 1..Len(t)
            /\ \A k \in 1..Len(t) : (s \o t)[Len(s) + k] = t[k]
      BY JoinFacts
    <3>4. /\ DOMAIN h = 1..(Len(c) + Len(R)) /\ Len(R) \in Nat /\ DOMAIN R = 1..Len(R)
          /\ \A k \in 1..Len(R) : h[Len(c) + k] = R[k]
      BY <3>1, <3>2, <3>3
    <3>5. QED BY <3>1, <3>4
  <2> HIDE DEF h
  <2>7. full \in Seq(Msg) /\ Told(Heard, full) = (a \o ans) \o d
    BY <1>3, <2>4, <2>5, HeardJoin, ConcatProperties
  <2>8. /\ Len(h) \in Nat /\ DOMAIN h = 1..Len(h) /\ Len(D) \in Nat
        /\ DOMAIN full = 1..(Len(h) + Len(D))
        /\ \A k \in 1..Len(h) : full[k] = h[k]
    BY <1>3, <2>4, <2>5, JoinFacts
  <2>9. ASSUME NEW k \in DOMAIN a, NEW i \in DOMAIN O, O[i].id = a[k].id
        PROVE  \E z \in DOMAIN full : full[z].role = "tool" /\ full[z].items[1] = O[i]
    <3> DEFINE x == a[k]
               f == RepliesFor(O)
               P == Picked(O, {o \in ToSet(O) : o.id = x.id})
    <3>1. x \in Items /\ O[i].id = x.id /\ O[i] \in ToSet(O)
      BY <1>1, <2>9, SeqFacts, InToSet
    <3>2. f[x] = ToolMessages(P)
      BY <3>1 DEF RepliesFor
    <3> HIDE DEF x
    <3>3. P \in Seq(Items) /\ \E j \in DOMAIN P : P[j] = O[i]
      BY <2>9, <3>1, AnswerPicked DEF P
    <3> HIDE DEF P
    <3>4. PICK j \in DOMAIN P : P[j] = O[i]
      BY <3>3
    <3>5. /\ j \in DOMAIN ToolMessages(P) /\ ToolMessages(P)[j].role = "tool"
          /\ ToolMessages(P)[j].items[1] = O[i]
      BY <3>3, <3>4, ToolsHeard
    <3>6. Tells(f, Items, Msg)
      BY AnsweringIs
    <3> HIDE DEF f
    <3>7. \A s \in Seq(Items) : \A l \in DOMAIN s : \A y \in DOMAIN f[s[l]] :
            \E z \in DOMAIN Told(f, s) : Told(f, s)[z] = f[s[l]][y]
      BY <3>6, ToldOrder
    <3>8. \E z \in DOMAIN Told(f, a) : Told(f, a)[z] = f[a[k]][j]
      BY <1>1, <3>2, <3>5, <3>7 DEF x
    <3>9. PICK z \in DOMAIN R : R[z] = ToolMessages(P)[j]
      BY <2>1, <3>2, <3>8 DEF x, f
    <3>10. 1 + z \in 1..Len(h) /\ 1 + z \in DOMAIN full /\ h[1 + z] = R[z]
      BY <2>6, <2>8
    <3>11. full[1 + z] = R[z]
      BY <2>8, <3>10
    <3>12. QED BY <3>5, <3>9, <3>10, <3>11
  <2>10. QED BY <2>7, <2>9 DEF full, a, ans, d
<1>11. QED BY <1>9, <1>10

LEMMA FullTells ==
  ASSUME NEW O \in Seq(Items) PROVE Tells(FullOf(O), Piece, Msg)
<1>1. \A p \in Piece : FullOf(O)[p] \in Seq(Msg)
  BY PieceReplayed
<1>2. QED BY <1>1 DEF FullOf, Tells

(* A call of the conversation is replayed with the answer it has in it and *)
(* with no other, for otherwise a call would be answered twice.            *)
LEMMA NeverTwice ==
  ASSUME NEW B \in Seq(Piece), NEW O \in Seq(Items), Once(Told(FullOf(O), B)),
         NEW i \in DOMAIN O, NEW k \in DOMAIN B, NEW l \in DOMAIN B,
         NEW c \in DOMAIN B[k].calls, NEW d \in DOMAIN B[l].calls,
         O[i].id = B[k].calls[c].id, O[i].id = B[l].calls[d].id
  PROVE  ~(k < l)
<1> DEFINE f == FullOf(O)
<1>1. B[k] \in Piece /\ B[l] \in Piece
  BY SeqFacts
<1>2. PICK x \in DOMAIN f[B[k]] : f[B[k]][x].role = "tool" /\ f[B[k]][x].items[1] = O[i]
  BY <1>1, PieceReplayed
<1>3. PICK y \in DOMAIN f[B[l]] : f[B[l]][y].role = "tool" /\ f[B[l]][y].items[1] = O[i]
  BY <1>1, PieceReplayed
<1>4. Tells(f, Piece, Msg)
  BY FullTells
<1> HIDE DEF f
<1>5. SUFFICES ASSUME k < l PROVE FALSE
  OBVIOUS
<1>6. \A s \in Seq(Piece) : \A a, b \in DOMAIN s : a < b =>
        \A u \in DOMAIN f[s[a]] : \A v \in DOMAIN f[s[b]] :
          \E z, w \in DOMAIN Told(f, s) :
            z < w /\ Told(f, s)[z] = f[s[a]][u] /\ Told(f, s)[w] = f[s[b]][v]
  BY <1>4, ToldOrder
<1>7. \E z, w \in DOMAIN Told(f, B) :
        z < w /\ Told(f, B)[z] = f[B[k]][x] /\ Told(f, B)[w] = f[B[l]][y]
  BY <1>5, <1>6
<1>8. PICK z, w \in DOMAIN Told(f, B) :
        z < w /\ Told(f, B)[z] = f[B[k]][x] /\ Told(f, B)[w] = f[B[l]][y]
  BY <1>7
<1>9. Once(Told(f, B))
  BY DEF f
<1>10. z = w
  BY <1>2, <1>3, <1>8, <1>9 DEF Once
<1>11. Told(f, B) \in Seq(Msg)
  BY <1>4, ToldFacts
<1>12. z \in Nat
  BY <1>11, SeqFacts
<1>13. QED BY <1>8, <1>10, <1>12

(* No two pieces make the call of one of the outputs.                      *)
Makes(p, id) == \E c \in DOMAIN p.calls : p.calls[c].id = id

Apart(B, O) ==
  \A i \in DOMAIN O : \A k, l \in DOMAIN B :
    Makes(B[k], O[i].id) /\ Makes(B[l], O[i].id) => k = l

LEMMA OnceApart ==
  ASSUME NEW B \in Seq(Piece), NEW O \in Seq(Items), Once(Told(FullOf(O), B))
  PROVE  Apart(B, O)
<1>1. ASSUME NEW i \in DOMAIN O, NEW k \in DOMAIN B, NEW l \in DOMAIN B,
             Makes(B[k], O[i].id), Makes(B[l], O[i].id)
      PROVE  k = l
  <2>1. PICK c \in DOMAIN B[k].calls : B[k].calls[c].id = O[i].id
    BY <1>1 DEF Makes
  <2>2. PICK d \in DOMAIN B[l].calls : B[l].calls[d].id = O[i].id
    BY <1>1 DEF Makes
  <2>3. ~(k < l) /\ ~(l < k)
    BY <2>1, <2>2, NeverTwice
  <2>4. k \in Nat /\ l \in Nat
    BY SeqFacts
  <2>5. QED BY <2>3, <2>4
<1>2. QED BY <1>1 DEF Apart

LEMMA AnswerFound ==
  ASSUME NEW B \in Seq(Piece), NEW O, O = Picked(Told(Parts, B), Kind("output")),
         NoDuplicateCallOutputs(Ids(O)), Apart(B, O),
         NEW k \in DOMAIN B, NEW c \in DOMAIN B[k].calls
  PROVE  Answering(O)[B[k].calls[c]] = AnswersOf(B[k].answered, B[k].tag)[B[k].calls[c]]
<1> DEFINE t == Told(Parts, B)
           p == B[k]
           x == p.calls[c]
           y == Item("output", x.id, p.tag)
           S == {o \in ToSet(O) : o.id = x.id}
<1>1. /\ t \in Seq(Items)
      /\ \A i \in DOMAIN t : t[i].kind = "output" =>
           \E l \in DOMAIN B : \E o \in DOMAIN OutsOf(B[l]) : t[i] = OutsOf(B[l])[o]
      /\ \A l \in DOMAIN B : \A o \in DOMAIN OutsOf(B[l]) :
           \E i \in DOMAIN t : t[i] = OutsOf(B[l])[o]
  BY WholeItems
<1>2. \A l \in DOMAIN B : B[l] \in Piece
  BY SeqFacts
<1> HIDE DEF t
<1>3. /\ O \in Seq(Items)
      /\ \A i \in DOMAIN O : O[i] \in Kind("output") /\ \E j \in DOMAIN t : t[j] = O[i]
      /\ \A j \in DOMAIN t : t[j] \in Kind("output") => \E i \in DOMAIN O : O[i] = t[j]
  BY <1>1, PickedFacts DEF t
<1>4. p.calls \in Seq(Kind("call")) /\ NoDuplicateCallOutputs(Ids(p.calls)) /\ p.tag \in Numbers
  BY <1>2, PieceIs
<1>5. x \in Kind("call") /\ x \in Items
  BY <1>4, SeqFacts DEF Kind
<1>6. Answering(O)[x] = Picked(O, S)
  BY <1>5 DEF Answering
<1>7. AnswersOf(p.answered, p.tag)[x] = IF x \in p.answered THEN <<y>> ELSE <<>>
  BY <1>5 DEF AnswersOf
<1>8. \A i \in DOMAIN O : O[i] \in S <=> O[i].id = x.id
  BY <1>3, InToSet
<1> HIDE DEF S
<1>9. CASE x \in p.answered
  <2>1. PICK o \in DOMAIN OutsOf(p) : OutsOf(p)[o] = y
    BY <1>2, <1>9, OutsAre
  <2>2. OutsOf(p)[o] \in Kind("output")
    BY <1>2, PieceIs, SeqFacts
  <2>3. PICK j \in DOMAIN t : t[j] = y
    BY <1>1, <2>1
  <2>4. PICK i \in DOMAIN O : O[i] = y
    BY <1>3, <2>1, <2>2, <2>3
  <2>5. O[i].id = x.id
    BY <2>4 DEF Item
  <2>6. \A a \in DOMAIN O : O[a] \in S => a = i
    BY <1>8, <2>5 DEF NoDuplicateCallOutputs, Ids
  <2>7. O[i] \in S
    BY <1>8, <2>5
  <2>8. Picked(O, S) = <<O[i]>>
    BY <1>3, <2>6, <2>7, PickedOne
  <2>9. QED BY <1>6, <1>7, <1>9, <2>4, <2>8
<1>10. CASE x \notin p.answered
  <2>1. ASSUME NEW i \in DOMAIN O, O[i].id = x.id
        PROVE  FALSE
    <3>1. PICK j \in DOMAIN t : t[j] = O[i]
      BY <1>3
    <3>2. t[j].kind = "output"
      BY <1>3, <3>1 DEF Kind
    <3>3. PICK l \in DOMAIN B : \E o \in DOMAIN OutsOf(B[l]) : t[j] = OutsOf(B[l])[o]
      BY <1>1, <3>2
    <3>4. PICK o \in DOMAIN OutsOf(B[l]) : t[j] = OutsOf(B[l])[o]
      BY <3>3
    <3>5. PICK d \in DOMAIN B[l].calls :
            B[l].calls[d] \in B[l].answered /\
            OutsOf(B[l])[o] = Item("output", B[l].calls[d].id, B[l].tag)
      BY <1>2, OutsAre
    <3>6. O[i].id = B[l].calls[d].id
      BY <3>1, <3>4, <3>5 DEF Item
    <3>7. k = l
      <4>1. Makes(B[k], O[i].id)
        BY <2>1 DEF Makes
      <4>2. Makes(B[l], O[i].id)
        BY <3>6 DEF Makes
      <4>3. QED BY <4>1, <4>2 DEF Apart
    <3>8. d = c
      BY <1>4, <2>1, <3>6, <3>7 DEF NoDuplicateCallOutputs, Ids
    <3>9. QED BY <1>10, <3>5, <3>7, <3>8
  <2>2. \A i \in DOMAIN O : O[i] \notin S
    BY <1>8, <2>1
  <2>3. Picked(O, S) = <<>>
    BY <1>3, <2>2, PickedWhole
  <2>4. QED BY <1>6, <1>7, <1>10, <2>3
<1>11. QED BY <1>9, <1>10

LEMMA FullHeard ==
  ASSUME NEW B \in Seq(Piece), NEW O, O = Picked(Told(Parts, B), Kind("output")),
         NoDuplicateCallOutputs(Ids(O)), Apart(B, O)
  PROVE  Told(Heard, Told(FullOf(O), B)) = Told(Parts, B)
<1>1. O \in Seq(Items)
  BY WholeItems, PickedFacts
<1>2. ASSUME NEW k \in DOMAIN B PROVE Told(Heard, FullOf(O)[B[k]]) = Parts[B[k]]
  <2> DEFINE p == B[k]
             f == Answering(O)
             g == AnswersOf(p.answered, p.tag)
             s == p.calls
  <2>1. p \in Piece
    BY SeqFacts
  <2>2. s \in Seq(Kind("call"))
    BY <2>1, PieceIs
  <2>3. \A c \in DOMAIN s : f[s[c]] = g[s[c]]
    BY AnswerFound
  <2>4. Told(Heard, FullOf(O)[p]) = (s \o Told(f, s)) \o p.plain
    BY <1>1, <2>1, PieceReplayed
  <2>5. Parts[p] = (s \o Told(g, s)) \o p.plain
    BY <2>1 DEF Parts, OutsOf
  <2> HIDE DEF f, g, s
  <2>6. s \in Seq(ToSet(s)) /\ \A x \in ToSet(s) : f[x] = g[x]
    BY <2>2, <2>3, InToSet
  <2>7. Told(f, s) = Told(g, s)
    BY <2>6, ToldSame
  <2>8. QED BY <2>4, <2>5, <2>7
<1> DEFINE f == FullOf(O)
           H == [p \in Piece |-> Told(Heard, f[p])]
           T == ToSet(B)
<1>3. Tells(f, Piece, Msg)
  BY <1>1, FullTells
<1>4. B \in Seq(T) /\ \A x : x \in T <=> \E k \in DOMAIN B : x = B[k]
  BY InToSet
<1>5. \A k \in DOMAIN B : B[k] \in Piece
  BY SeqFacts
<1>6. \A k \in DOMAIN B : H[B[k]] = Parts[B[k]]
  BY <1>2, <1>5
<1> HIDE DEF f, T
<1>7. Tells(H, Piece, Items)
  <2>1. \A p \in Piece : f[p] \in Seq(Msg)
    BY <1>3 DEF Tells
  <2>2. \A p \in Piece : Told(Heard, f[p]) \in Seq(Items)
    BY <2>1, HeardJoin
  <2>3. QED BY <2>2 DEF Tells
<1>8. \A p \in Piece : H[p] = Told(Heard, f[p])
  OBVIOUS
<1> HIDE DEF H
<1>9. \A s \in Seq(Piece) : Told(Heard, Told(f, s)) = Told(H, s)
  BY <1>3, <1>7, <1>8, HeardTells, ToldTwice
<1>10. \A x \in T : H[x] = Parts[x]
  BY <1>4, <1>6
<1>11. Told(H, B) = Told(Parts, B)
  BY <1>4, <1>10, ToldSame
<1>12. QED BY <1>9, <1>11 DEF f

LEMMA OnceSuffix ==
  ASSUME NEW a \in Seq(Msg), NEW b \in Seq(Msg), Once(a \o b)
  PROVE  Once(b)
<1> DEFINE s == a \o b
<1>1. /\ Len(a) \in Nat /\ DOMAIN s = 1..(Len(a) + Len(b)) /\ Len(b) \in Nat /\ DOMAIN b = 1..Len(b)
      /\ \A k \in 1..Len(b) : s[Len(a) + k] = b[k]
  BY JoinFacts
<1>2. Once(s)
  OBVIOUS
<1> HIDE DEF s
<1>3. ASSUME NEW i \in DOMAIN b, NEW j \in DOMAIN b, b[i].role = "tool", b[j].role = "tool",
             b[i].items[1].id = b[j].items[1].id
      PROVE  i = j
  <2>1. Len(a) + i \in DOMAIN s /\ Len(a) + j \in DOMAIN s
    BY <1>1
  <2>2. s[Len(a) + i] = b[i] /\ s[Len(a) + j] = b[j]
    BY <1>1
  <2>3. Len(a) + i = Len(a) + j
    BY <1>2, <1>3, <2>1, <2>2 DEF Once
  <2>4. i \in Nat /\ j \in Nat
    BY <1>1
  <2>5. QED BY <1>1, <2>3, <2>4
<1>4. QED BY <1>3 DEF Once

(* A whole history that is accepted is heard as it is.                     *)
LEMMA WholeExtracted ==
  ASSUME NEW sys \in Instruction, NEW B \in Seq(Piece)
  PROVE  LET t == Told(Parts, B)
             x == ExtractRequest(<<sys>> \o t)
         IN  /\ x.messages = <<Message("system", <<sys>>)>> \o Told(MessagesOf, B)
             /\ x.outputs = Picked(t, Kind("output"))
<1> DEFINE t == Told(Parts, B)
           a == <<sys>>
           O == Kind("output")
<1>1. t \in Seq(Items)
  BY WholeItems
<1>2. a \in Seq(Items) /\ Flushed(a) /\ Extractable(a) = <<Message("system", a)>>
  BY InstructionIs
<1>3. \A i \in DOMAIN a : a[i] \notin O
  BY DEF Instruction, Kind
<1> HIDE DEF a, O
<1>4. a \o t \in Seq(Items) /\ Extractable(a \o t) = Extractable(a) \o Told(MessagesOf, B)
  BY <1>2, PiecesRun
<1>5. Picked(a, O) = <<>> /\ Picked(t, O) \in Seq(Items)
  BY <1>1, <1>2, <1>3, PickedWhole, PickedFacts
<1>6. Picked(a \o t, O) = Picked(a, O) \o Picked(t, O)
  BY <1>1, <1>2, PickedConcat
<1> HIDE DEF t
<1>7. Picked(a \o t, O) = Picked(t, O)
  BY <1>5, <1>6, ConcatEmptySeq
<1>8. ExtractRequest(a \o t).outputs = Picked(a \o t, O)
  BY <1>4, ExtractRequestIs DEF O
<1>9. QED BY <1>2, <1>4, <1>7, <1>8 DEF Extractable, a, t, O

(* repair_stateless_history goes through the messages one by one.          *)
LEMMA ReplayedIs ==
  ASSUME NEW messages \in Seq(Talk), NEW O \in Seq(Items), RepairStatelessHistory(messages, O).ok
  PROVE  /\ RepairStatelessHistory(messages, O).messages = Told(Replaying(O), messages)
         /\ NoDuplicateCallOutputs(Ids(O)) /\ Told(Replaying(O), messages) \in Seq(Msg)
         /\ Once(Told(Replaying(O), messages))
<1> DEFINE g == Replaying(O)
           R == FlattenSeq([i \in DOMAIN messages |-> <<messages[i]>> \o Replay(messages[i], O)])
<1>1. R = Told(g, messages)
  <2>1. \A i \in DOMAIN messages : messages[i] \in Talk
    BY SeqFacts
  <2>2. \A i \in DOMAIN messages : g[messages[i]] = <<messages[i]>> \o Replay(messages[i], O)
    BY <2>1 DEF Replaying
  <2> HIDE DEF g
  <2>3. Mapped(g, messages) = [i \in DOMAIN messages |-> <<messages[i]>> \o Replay(messages[i], O)]
    BY <2>2 DEF Mapped
  <2>4. QED BY <2>3 DEF Told
<1>2. Told(g, messages) \in Seq(Msg)
  BY ReplayingTells, ToldFacts
<1> HIDE DEF R, g
<1>3. /\ NoDuplicateCallOutputs(Ids(O)) /\ ValidChatToolHistory(R)
      /\ RepairStatelessHistory(messages, O).messages = R
  BY DEF RepairStatelessHistory, R, Accepted, Refused
<1>4. Once(R)
  BY <1>1, <1>2, <1>3, ValidIsOnce
<1>5. QED BY <1>1, <1>2, <1>3, <1>4 DEF g

LEMMA PieceHeard ==
  ASSUME NEW p \in Piece, OutsOf(p) = <<>>
  PROVE  Told(Heard, MessagesOf[p]) = Parts[p]
<1> DEFINE a == p.calls
           d == p.plain
           m == Message("assistant", a)
           c == <<m>>
           D == Told(Alone, d)
<1>1. a \in Seq(Kind("call")) /\ a \in Seq(Items) /\ d \in Seq(Plain) /\ d \in Seq(Items)
  BY PieceIs
<1>2. MessagesOf[p] = (IF a = <<>> THEN <<>> ELSE c) \o D
  BY DEF MessagesOf
<1>3. Parts[p] = (a \o <<>>) \o d
  BY DEF Parts
<1>4. D \in Seq(Msg) /\ Told(Heard, D) = d
  BY <1>1, PlainHeard
<1>5. c \in Seq(Msg) /\ Told(Heard, c) = a
  <2>1. m \in Talk /\ m \in Msg /\ Heard[m] = a
    BY <1>1, CallsOf DEF Talk
  <2> HIDE DEF m
  <2>2. <<m>> \in Seq(Msg)
    BY <2>1
  <2>3. \A s \in Seq(Msg) : Told(Heard, <<m>>) = Heard[m]
    BY <2>1, HeardAppend
  <2>4. QED BY <2>1, <2>2, <2>3
<1> HIDE DEF a, d, c, D
<1>6. a \o <<>> = a
  BY <1>1, ConcatEmptySeq
<1>7. CASE a = <<>>
  <2>1. <<>> \o D = D /\ <<>> \o d = d
    BY <1>1, <1>4, ConcatEmptySeq
  <2>2. QED BY <1>2, <1>3, <1>4, <1>6, <1>7, <2>1
<1>8. CASE a # <<>>
  <2>1. Told(Heard, c \o D) = Told(Heard, c) \o Told(Heard, D)
    BY <1>4, <1>5, HeardJoin
  <2>2. MessagesOf[p] = c \o D
    BY <1>2, <1>8
  <2>3. QED BY <1>3, <1>4, <1>5, <1>6, <2>1, <2>2
<1>9. QED BY <1>7, <1>8

LEMMA QuietHeard ==
  ASSUME NEW B \in Seq(Piece), Picked(Told(Parts, B), Kind("output")) = <<>>
  PROVE  Told(Heard, Told(MessagesOf, B)) = Told(Parts, B)
<1> DEFINE t == Told(Parts, B)
           H == [p \in Piece |-> Told(Heard, MessagesOf[p])]
<1>1. \A k \in DOMAIN B : B[k] \in Piece
  BY SeqFacts
<1>2. t \in Seq(Items)
  BY WholeItems
<1>3. \A i \in DOMAIN t : t[i] \notin Kind("output")
  <2>1. \A i \in DOMAIN t : t[i] \in Kind("output") =>
          \E j \in DOMAIN Picked(t, Kind("output")) : Picked(t, Kind("output"))[j] = t[i]
    BY <1>2, PickedFacts
  <2>2. DOMAIN Picked(t, Kind("output")) = {}
    OBVIOUS
  <2>3. QED BY <2>1, <2>2
<1>4. ASSUME NEW k \in DOMAIN B PROVE OutsOf(B[k]) = <<>>
  <2> DEFINE O == OutsOf(B[k])
  <2>1. O \in Seq(Kind("output"))
    BY <1>1, PieceIs
  <2>2. \A o \in DOMAIN O : \E i \in DOMAIN t : t[i] = O[o]
    BY WholeItems
  <2> HIDE DEF O, t
  <2>3. \A o \in DOMAIN O : FALSE
    BY <1>3, <2>1, <2>2, SeqFacts
  <2>4. O = <<>>
    <3>1. Len(O) \in Nat /\ DOMAIN O = 1..Len(O)
      BY <2>1, SeqFacts
    <3> DEFINE n == Len(O)
    <3> HIDE DEF n
    <3>2. n \in Nat /\ \A o \in 1..n : FALSE
      BY <2>3, <3>1 DEF n
    <3>3. Len(O) = 0
      <4>1. n = 0
        BY <3>2
      <4>2. QED BY <4>1 DEF n
    <3>4. QED BY <2>1, <3>3, EmptySeq
  <2>5. QED BY <2>4 DEF O
<1>5. ASSUME NEW p \in Piece, OutsOf(p) = <<>> PROVE Told(Heard, MessagesOf[p]) = Parts[p]
  BY <1>5, PieceHeard
<1>6. \A p \in Piece : H[p] = Told(Heard, MessagesOf[p])
  OBVIOUS
<1>7. Tells(H, Piece, Items)
  <2>1. \A p \in Piece : MessagesOf[p] \in Seq(Msg)
    BY PartsTell, MessagesAre DEF Tells
  <2>2. \A p \in Piece : Told(Heard, MessagesOf[p]) \in Seq(Items)
    BY <2>1, HeardJoin
  <2>3. QED BY <2>2 DEF Tells
<1> DEFINE T == ToSet(B)
<1>8. B \in Seq(T) /\ \A x : x \in T <=> \E k \in DOMAIN B : x = B[k]
  BY InToSet
<1> HIDE DEF H, T
<1>9. \A x \in T : H[x] = Parts[x]
  BY <1>1, <1>4, <1>5, <1>6, <1>8
<1>10. Told(H, B) = Told(Parts, B)
  BY <1>8, <1>9, ToldSame
<1>11. Tells(MessagesOf, Piece, Msg)
  BY PartsTell, MessagesAre DEF Tells
<1>12. \A s \in Seq(Piece) : Told(Heard, Told(MessagesOf, s)) = Told(H, s)
  BY <1>6, <1>7, <1>11, HeardTells, ToldTwice
<1>13. QED BY <1>10, <1>12

LEMMA WholeReplayed ==
  ASSUME NEW sys \in Instruction, NEW B \in Seq(Piece), NEW O \in Seq(Items)
  PROVE  LET messages == <<Message("system", <<sys>>)>> \o Told(MessagesOf, B)
             replayed == Told(Replaying(O), messages)
         IN  /\ messages \in Seq(Talk) /\ replayed \in Seq(Msg)
             /\ Once(replayed) => Apart(B, O)
             /\ O = Picked(Told(Parts, B), Kind("output")) /\ NoDuplicateCallOutputs(Ids(O))
                  /\ Apart(B, O) => Told(Heard, replayed) = Told(Parts, B)
<1> DEFINE m == Message("system", <<sys>>)
           c == <<m>>
           M == Told(MessagesOf, B)
           g == Replaying(O)
           f == FullOf(O)
           t == Told(Parts, B)
<1>1. c \in Seq(Talk) /\ c \in Seq(Msg) /\ m \in Talk /\ Told(Heard, c) = <<>>
  BY InstructionIs
<1>2. M \in Seq(Talk) /\ M \in Seq(Msg)
  BY PartsTell, ToldFacts, MessagesAre
<1>3. t \in Seq(Items)
  BY WholeItems
<1> HIDE DEF M, t
<1>4. Tells(g, Talk, Msg) /\ Tells(f, Piece, Msg)
  BY ReplayingTells, FullTells
<1>5. g[m] = <<m>>
  <2>1. ToolCalls(m) = <<>>
    BY CallsOf
  <2> HIDE DEF m
  <2>2. Replay(m, O) = <<>>
    BY <1>1, <2>1, ReplayTold
  <2>3. g[m] = c \o <<>>
    BY <1>1, <2>2 DEF Replaying
  <2> HIDE DEF c
  <2>4. g[m] = c
    BY <1>1, <2>3, ConcatEmptySeq
  <2>5. QED BY <2>4 DEF c
<1>6. \A p \in Piece : f[p] = Told(g, MessagesOf[p])
  BY DEF FullOf
<1> HIDE DEF g, f, m
<1>7. Told(g, c) = c
  BY <1>1, <1>4, <1>5, ToldSingle
<1> HIDE DEF c
<1>8. Told(g, c \o M) = Told(g, c) \o Told(g, M) /\ c \o M \in Seq(Talk)
  BY <1>1, <1>2, <1>4, ToldConcat, ConcatProperties
<1>9. Told(g, M) = Told(f, B)
  <2>1. \A s \in Seq(Piece) : Told(g, Told(MessagesOf, s)) = Told(f, s)
    BY <1>4, <1>6, PartsTell, ToldTwice
  <2>2. QED BY <2>1 DEF M
<1>10. Told(f, B) \in Seq(Msg)
  BY <1>4, ToldFacts
<1>11. Told(g, c \o M) = c \o Told(f, B) /\ c \o Told(f, B) \in Seq(Msg)
  BY <1>1, <1>7, <1>8, <1>9, <1>10, ConcatProperties
<1>12. ASSUME Once(c \o Told(f, B)) PROVE Apart(B, O)
  <2>1. Once(Told(f, B))
    BY <1>1, <1>10, <1>12, OnceSuffix
  <2>2. QED BY <2>1, OnceApart DEF f
<1>13. ASSUME O = Picked(t, Kind("output")), NoDuplicateCallOutputs(Ids(O)), Apart(B, O)
       PROVE  Told(Heard, c \o Told(f, B)) = t
  <2>1. Told(Heard, Told(f, B)) = t
    BY <1>13, FullHeard DEF f, t
  <2>2. Told(Heard, c \o Told(f, B)) = Told(Heard, c) \o Told(Heard, Told(f, B))
    BY <1>1, <1>10, HeardJoin
  <2>3. <<>> \o t = t
    BY <1>3, ConcatEmptySeq
  <2>4. QED BY <1>1, <2>1, <2>2, <2>3
<1>14. QED BY <1>8, <1>11, <1>12, <1>13 DEF c, m, M, g, t

LEMMA WholeHeard ==
  ASSUME NEW sys \in Instruction, NEW B \in Seq(Piece),
         NEW body, body.instructions = <<sys>>, body.input = Told(Parts, B),
         Merged(body, <<>>).ok
  PROVE  Told(Heard, Merged(body, <<>>).messages) = Told(Parts, B)
<1> DEFINE t == Told(Parts, B)
           m == Message("system", <<sys>>)
           c == <<m>>
           M == Told(MessagesOf, B)
           x == ExtractRequest(<<sys>> \o t)
           O == Picked(t, Kind("output"))
<1>1. x.messages = c \o M /\ x.outputs = O
  BY WholeExtracted
<1>2. c \in Seq(Talk) /\ c \in Seq(Msg) /\ m \in Talk /\ Told(Heard, c) = <<>>
  BY InstructionIs
<1>3. M \in Seq(Talk) /\ M \in Seq(Msg)
  BY PartsTell, ToldFacts, MessagesAre
<1>4. t \in Seq(Items) /\ O \in Seq(Items)
  BY WholeItems, PickedFacts
<1>5. Merged(body, <<>>) = CASE x.outputs = <<>> -> Accepted(<<>> \o x.messages)
                             [] x.outputs # <<>> -> RepairStatelessHistory(x.messages, x.outputs)
                             [] OTHER -> Merged(body, <<>>)
  BY DEF Merged
<1> HIDE DEF t, c, M, x
<1>6. CASE O = <<>>
  <2>1. <<>> \o (c \o M) = c \o M /\ c \o M \in Seq(Msg)
    BY <1>2, <1>3, ConcatEmptySeq, ConcatProperties
  <2>2. Merged(body, <<>>).messages = c \o M
    BY <1>1, <1>5, <1>6, <2>1 DEF Accepted
  <2>3. Told(Heard, c \o M) = Told(Heard, c) \o Told(Heard, M) /\ Told(Heard, M) \in Seq(Items)
    BY <1>2, <1>3, HeardJoin
  <2>4. Told(Heard, c \o M) = Told(Heard, M)
    BY <1>2, <2>3, ConcatEmptySeq
  <2>5. Told(Heard, M) = t
    BY <1>6, QuietHeard DEF M, t
  <2>6. QED BY <2>2, <2>4, <2>5 DEF t
<1>7. CASE O # <<>>
  <2> DEFINE g == Replaying(O)
             R == RepairStatelessHistory(c \o M, O)
  <2>1. Merged(body, <<>>) = R
    BY <1>1, <1>5, <1>7
  <2>2. c \o M \in Seq(Talk)
    BY <1>2, <1>3, ConcatProperties
  <2> HIDE DEF O
  <2>3. /\ R.messages = Told(g, c \o M) /\ NoDuplicateCallOutputs(Ids(O))
        /\ Once(Told(g, c \o M))
    BY <1>4, <2>1, <2>2, ReplayedIs
  <2>4. /\ Once(Told(g, c \o M)) => Apart(B, O)
        /\ O = Picked(t, Kind("output")) /\ NoDuplicateCallOutputs(Ids(O)) /\ Apart(B, O)
             => Told(Heard, Told(g, c \o M)) = t
    BY <1>4, WholeReplayed DEF c, M, t
  <2> HIDE DEF g, R
  <2>5. Told(Heard, Told(g, c \o M)) = t
    BY <2>3, <2>4 DEF O
  <2>6. QED BY <2>1, <2>3, <2>5 DEF t
<1>8. QED BY <1>6, <1>7

------------------------------------------------------------------------------
(* What a client knows of its conversation.                                *)

CallsBefore(s, n) == \A i \in DOMAIN s : s[i].kind = "call" => s[i].tag < n

(* The conversation ends with output, the last response, which is stored.  *)
Answered(c, t, output) ==
  /\ t \in Seq(Items) /\ Whole(t) /\ CallsBefore(t, last[c])
  /\ said[c] = t \o output
  /\ rows[last[c]].pending = PendingCallIds(output)
  /\ kept[c] => Told(Heard, rows[last[c]].messages) = said[c]

ClientTalk(c) ==
  \/ last[c] = 0 /\ said[c] = <<>>
  \/ /\ last[c] \in DOMAIN rows
     /\ \E t \in Seq(Items), output \in Replies(last[c]) : Answered(c, t, output)

(* The calls that can be answered are those of the last response.          *)
LEMMA DueNothing ==
  ASSUME NEW c \in Clients, said[c] = <<>>
  PROVE  Due(c) = <<>>
<1> DEFINE Q == {x \in ToSet(said[c]) : x.tag = last[c]}
           e == Picked(<<>>, Q)
<1>1. e = <<>>
  BY PickedEmpty
<1>2. Due(c) = OfKind(e, "call")
  BY DEF Due
<1> HIDE DEF e
<1>3. OfKind(<<>>, "call") = <<>>
  BY PickedEmpty DEF OfKind
<1>4. QED BY <1>1, <1>2, <1>3

LEMMA PickedLast ==
  ASSUME NEW t \in Seq(Items), NEW output \in Seq(Items), NEW Q, NEW C,
         \A i \in DOMAIN t : ~(t[i] \in Q /\ t[i] \in C),
         \A k \in DOMAIN output : output[k] \in Q
  PROVE  /\ Picked(t \o output, Q) \in Seq(Items)
         /\ Picked(Picked(t \o output, Q), C) = Picked(output, C)
<1> DEFINE a == Picked(t, Q)
<1>1. /\ a \in Seq(Items)
      /\ \A i \in DOMAIN a : a[i] \in Q /\ \E k \in DOMAIN t : t[k] = a[i]
  BY PickedFacts
<1>2. Picked(output, Q) = output
  BY PickedWhole
<1>3. Picked(t \o output, Q) = a \o output
  <2>1. \A e \in Seq(Items) : Picked(t \o e, Q) = Picked(t, Q) \o Picked(e, Q)
    BY PickedConcat
  <2>2. QED BY <1>2, <2>1
<1> HIDE DEF a
<1>4. Picked(a, C) = <<>>
  <2>1. \A i \in DOMAIN a : a[i] \notin C
    BY <1>1
  <2>2. QED BY <1>1, <2>1, PickedWhole
<1>5. Picked(a \o output, C) = Picked(a, C) \o Picked(output, C)
  BY <1>1, PickedConcat
<1>6. Picked(output, C) \in Seq(Items)
  BY PickedFacts
<1> DEFINE b == Picked(output, C)
<1> HIDE DEF b
<1>7. <<>> \o b = b
  BY <1>6, ConcatEmptySeq DEF b
<1>8. a \o output \in Seq(Items)
  BY <1>1, ConcatProperties
<1>9. QED BY <1>3, <1>4, <1>5, <1>7, <1>8 DEF b

LEMMA DueOfReply ==
  ASSUME NEW c \in Clients, NEW t \in Seq(Items), NEW output \in Seq(Items),
         said[c] = t \o output, CallsBefore(t, last[c]), last[c] \in Nat,
         \A k \in DOMAIN output : output[k].tag = last[c]
  PROVE  Due(c) = Picked(output, Kind("call"))
<1> DEFINE s == t \o output
           Q == {x \in ToSet(s) : x.tag = last[c]}
           C == Kind("call")
<1>1. Due(c) = OfKind(Picked(s, Q), "call")
  BY DEF Due
<1>2. ASSUME NEW k \in DOMAIN output PROVE output[k] \in Q
  <2>1. s \in Seq(Items)
    BY ConcatProperties
  <2>2. /\ DOMAIN s = 1..(Len(t) + Len(output)) /\ Len(t) \in Nat /\ Len(output) \in Nat
        /\ DOMAIN output = 1..Len(output)
        /\ \A l \in 1..Len(output) : s[Len(t) + l] = output[l]
    BY JoinFacts
  <2> HIDE DEF s
  <2>3. Len(t) + k \in DOMAIN s /\ s[Len(t) + k] = output[k]
    BY <2>2
  <2>4. output[k] \in ToSet(s)
    BY <2>1, <2>3, InToSet
  <2>5. QED BY <2>4
<1>3. ASSUME NEW i \in DOMAIN t, t[i] \in Q, t[i] \in C PROVE FALSE
  <2>1. t[i].tag = last[c] /\ t[i].kind = "call"
    BY <1>3 DEF Kind
  <2>2. t[i].tag < last[c]
    BY <2>1 DEF CallsBefore
  <2>3. last[c] < last[c]
    BY <2>1, <2>2
  <2>4. QED BY <2>3
<1> HIDE DEF Q
<1>4. Picked(s, Q) \in Seq(Items) /\ Picked(Picked(s, Q), C) = Picked(output, C)
  BY <1>2, <1>3, PickedLast
<1> HIDE DEF s
<1>5. OfKind(Picked(s, Q), "call") = Picked(Picked(s, Q), C)
  BY <1>4, OfKindIs
<1>6. QED BY <1>1, <1>4, <1>5

(* The conversation grows by pieces.                                       *)
LEMMA WholeGrows ==
  ASSUME NEW s, Whole(s), NEW p \in Piece
  PROVE  s \in Seq(Items) /\ Whole(s \o Parts[p])
<1>1. PICK B \in Seq(Piece) : s = Told(Parts, B)
  BY DEF Whole
<1>2. s \in Seq(Items)
  BY <1>1, WholeItems
<1>3. Told(Parts, Append(B, p)) = Told(Parts, B) \o Parts[p]
  BY PartsTell, ToldFacts
<1>4. Append(B, p) \in Seq(Piece)
  BY AppendProperties
<1>5. QED BY <1>1, <1>2, <1>3, <1>4 DEF Whole

LEMMA WholeEmpty == Whole(<<>>)
<1>1. <<>> \in Seq(Piece)
  OBVIOUS
<1>2. Told(Parts, <<>>) = <<>>
  BY PartsTell, ToldFacts
<1>3. QED BY <1>1, <1>2 DEF Whole

LEMMA WholePlain ==
  ASSUME NEW s, Whole(s), NEW x \in Plain
  PROVE  Whole(s \o <<x>>)
<1> DEFINE p == [calls |-> <<>>, answered |-> {}, tag |-> x.tag, plain |-> <<x>>]
<1>1. <<>> \in Seq(Kind("call")) /\ x.tag \in Numbers /\ <<x>> \in Seq(Plain)
  BY DEF Plain, Items
<1>2. NoDuplicateCallOutputs(Ids(<<>>))
  BY DEF NoDuplicateCallOutputs, Ids
<1>3. p \in Piece
  BY <1>1, <1>2 DEF Piece
<1>4. OutsOf(p) = <<>>
  <2>1. Told(AnswersOf({}, x.tag), <<>>) = <<>>
    BY <1>1, AnswersTell, ToldFacts
  <2>2. QED BY <2>1 DEF OutsOf
<1>5. Parts[p] = (<<>> \o <<>>) \o <<x>>
  BY <1>3, <1>4 DEF Parts
<1>6. Parts[p] = <<x>>
  <2>1. <<x>> \in Seq(Items)
    BY DEF Plain
  <2>2. QED BY <1>5, <2>1, ConcatEmptySeq
<1> HIDE DEF p
<1>7. QED BY <1>3, <1>6, WholeGrows

(* Calls, some answers and a message of the user, or less, are a piece.    *)
LEMMA WholeCalls ==
  ASSUME NEW t, Whole(t), NEW calls \in Seq(Kind("call")), NoDuplicateCallOutputs(Ids(calls)),
         NEW n \in Numbers, NEW S, NEW rest \in Seq(Plain),
         Outputs(Picked(calls, S), n) # <<>> \/ rest # <<>>
  PROVE  Whole((t \o calls) \o (Outputs(Picked(calls, S), n) \o rest))
<1> DEFINE C == Kind("call")
           A == S \cap C
           p == [calls |-> calls, answered |-> A, tag |-> n, plain |-> rest]
           outs == Outputs(Picked(calls, S), n)
<1>1. Picked(calls, A) = Picked(calls, S)
  <2>1. \A x \in C : x \in A <=> x \in S
    OBVIOUS
  <2> HIDE DEF A, C
  <2>2. \A s \in Seq(C) : Picked(s, A) = Picked(s, S)
    BY <2>1, PickedSame
  <2>3. QED BY <2>2 DEF C
<1>2. OutsOf(p) = outs
  BY <1>1, OutputsTold DEF OutsOf
<1>3. p \in Piece
  BY <1>2 DEF Piece
<1>4. Parts[p] = (calls \o outs) \o rest
  BY <1>2, <1>3 DEF Parts
<1>5. OutsOf(p) \in Seq(Items) /\ rest \in Seq(Items) /\ calls \in Seq(Items)
  BY <1>3, PieceIs DEF p
<1> HIDE DEF p, outs
<1>6. t \in Seq(Items) /\ Whole(t \o Parts[p])
  BY <1>3, WholeGrows
<1>7. outs \in Seq(Items)
  BY <1>2, <1>5
<1>8. Regrouped(t, calls, outs, rest)
  BY <1>5, <1>6, <1>7, JoinRegrouped
<1> DEFINE X == t \o calls
<1>9. X \in Seq(Items)
  BY <1>5, <1>6, ConcatProperties
<1>10. (X \o outs) \o rest = t \o Parts[p]
  BY <1>4, <1>8 DEF Regrouped
<1> HIDE DEF X, A, C
<1>11. (X \o outs) \o rest = X \o (outs \o rest)
  <2>1. X \in Seq(Items) /\ outs \in Seq(Items) /\ rest \in Seq(Items)
    BY <1>5, <1>7, <1>9
  <2>2. Thrice(X, outs, rest)
    BY <2>1, JoinThrice
  <2>3. QED BY <2>2 DEF Thrice
<1>12. QED BY <1>6, <1>10, <1>11 DEF X, outs

LEMMA CallsBeforeFacts ==
  /\ \A n : \A a, b \in Seq(Items) : CallsBefore(a, n) /\ CallsBefore(b, n) => CallsBefore(a \o b, n)
  /\ \A a \in Seq(Items) : \A m, n \in Nat : m < n /\ CallsBefore(a, m) => CallsBefore(a, n)
  /\ \A n : \A a \in Seq(Kind("output")) : CallsBefore(a, n)
  /\ \A n : \A a \in Seq(Plain) : CallsBefore(a, n)
<1>1. ASSUME NEW n, NEW a \in Seq(Items), NEW b \in Seq(Items), CallsBefore(a, n), CallsBefore(b, n)
      PROVE  CallsBefore(a \o b, n)
  <2> DEFINE s == a \o b
  <2>1. /\ DOMAIN s = 1..(Len(a) + Len(b)) /\ Len(a) \in Nat /\ Len(b) \in Nat
        /\ DOMAIN a = 1..Len(a) /\ DOMAIN b = 1..Len(b)
        /\ \A k \in 1..Len(a) : s[k] = a[k]
        /\ \A k \in 1..Len(b) : s[Len(a) + k] = b[k]
    BY JoinFacts
  <2> HIDE DEF s
  <2>2. ASSUME NEW i \in DOMAIN s, s[i].kind = "call" PROVE s[i].tag < n
    <3>1. CASE i \in DOMAIN a
      <4>1. s[i] = a[i]
        BY <2>1, <3>1
      <4>2. QED BY <1>1, <2>2, <3>1, <4>1 DEF CallsBefore
    <3>2. CASE i \notin DOMAIN a
      <4>1. i - Len(a) \in DOMAIN b /\ Len(a) + (i - Len(a)) = i
        BY <2>1, <3>2
      <4>2. s[i] = b[i - Len(a)]
        BY <2>1, <4>1
      <4>3. QED BY <1>1, <2>2, <4>1, <4>2 DEF CallsBefore
    <3>3. QED BY <3>1, <3>2
  <2>3. QED BY <2>2 DEF CallsBefore, s
<1>2. ASSUME NEW a \in Seq(Items), NEW m \in Nat, NEW n \in Nat, m < n, CallsBefore(a, m)
      PROVE  CallsBefore(a, n)
  <2>1. ASSUME NEW i \in DOMAIN a, a[i].kind = "call" PROVE a[i].tag < n
    <3>1. a[i] \in Items
      BY SeqFacts
    <3>2. a[i].tag \in Nat
      BY <3>1 DEF Items, Numbers
    <3>3. a[i].tag < m
      BY <1>2, <2>1 DEF CallsBefore
    <3>4. QED BY <1>2, <3>2, <3>3
  <2>2. QED BY <2>1 DEF CallsBefore
<1>3. ASSUME NEW n, NEW a \in Seq(Kind("output")) PROVE CallsBefore(a, n)
  <2>1. \A i \in DOMAIN a : a[i].kind = "output"
    BY KindSeq
  <2>2. QED BY <2>1 DEF CallsBefore
<1>4. ASSUME NEW n, NEW a \in Seq(Plain) PROVE CallsBefore(a, n)
  <2>1. \A i \in DOMAIN a : a[i] \in Plain
    BY SeqFacts
  <2>2. QED BY <2>1 DEF CallsBefore, Plain
<1>5. QED BY <1>1, <1>2, <1>3, <1>4

(* A turn answers some of the calls, and says something or not.            *)
TurnForm(c, n, turn, S, rest) ==
  /\ rest \in Seq(Plain)
  /\ rest = <<>> \/ rest = <<Item("user", NoId, n)>>
  /\ Outputs(Picked(Due(c), S), n) # <<>> \/ rest # <<>>
  /\ turn = Outputs(Picked(Due(c), S), n) \o rest

LEMMA NoOutputs ==
  ASSUME NEW n PROVE Outputs(<<>>, n) = <<>>
BY DEF Outputs

LEMMA OutputsAre ==
  ASSUME NEW calls \in Seq(Items), NEW n
  PROVE  /\ DOMAIN Outputs(calls, n) = DOMAIN calls
         /\ \A i \in DOMAIN calls : Outputs(calls, n)[i] = Item("output", calls[i].id, n)
BY DEF Outputs

LEMMA TurnForms ==
  ASSUME TypeOK, NEW c \in Clients, NEW n \in Numbers, NEW turn \in Turns(c, n)
  PROVE  \E S, rest : TurnForm(c, n, turn, S, rest)
<1> DEFINE d == Due(c)
           user == <<Item("user", NoId, n)>>
           chosen(s) == {x \in ToSet(d) : x.id \in s}
           outs(s) == Outputs(Picked(d, chosen(s)), n)
<1>1. d \in Seq(Items)
  BY DueIs
<1>2. user \in Seq(Plain) /\ user # <<>> /\ user \in Seq(Items) /\ <<>> \in Seq(Plain)
  BY ItemIs DEF Plain
<1>3. \/ turn = user
      \/ \E s \in (SUBSET IdSet(d)) \ {{}} : turn = outs(s)
      \/ \E s \in (SUBSET IdSet(d)) \ {{}} : turn = outs(s) \o user
  BY DEF Turns
<1>4. ASSUME NEW s \in (SUBSET IdSet(d)) \ {{}}
      PROVE  outs(s) # <<>> /\ outs(s) \in Seq(Items)
  <2>1. PICK i \in DOMAIN d : d[i].id \in s
    BY DEF IdSet
  <2>2. d[i] \in chosen(s)
    BY <1>1, InToSet, <2>1
  <2> DEFINE S == chosen(s)
             P == Picked(d, S)
  <2> HIDE DEF S
  <2>3. P \in Seq(Items) /\ \E j \in DOMAIN P : P[j] = d[i]
    <3>1. /\ Picked(d, S) \in Seq(Items)
          /\ \A k \in DOMAIN d : d[k] \in S => \E j \in DOMAIN Picked(d, S) : Picked(d, S)[j] = d[k]
      BY <1>1, PickedFacts
    <3>2. d[i] \in S
      BY <2>2 DEF S
    <3>3. QED BY <3>1, <3>2
  <2> HIDE DEF P
  <2>4. PICK j \in DOMAIN P : P[j] = d[i]
    BY <2>3
  <2>5. DOMAIN Outputs(P, n) = DOMAIN P /\ \A k \in DOMAIN P : Outputs(P, n)[k] = Item("output", P[k].id, n)
    BY <2>3, OutputsAre
  <2>6. Outputs(P, n) # <<>>
    <3>1. DOMAIN <<>> = {}
      OBVIOUS
    <3>2. QED BY <2>4, <2>5, <3>1
  <2>7. Outputs(P, n) \in Seq(Items)
    <3>1. ASSUME NEW k \in DOMAIN P PROVE Item("output", P[k].id, n) \in Items
      <4>1. P[k] \in Items
        BY <2>3, SeqFacts
      <4>2. P[k].id \in CallIds \cup {NoId}
        BY <4>1 DEF Items
      <4>3. QED BY <4>2, ItemIs
    <3>2. Len(P) \in Nat /\ DOMAIN P = 1..Len(P)
      BY <2>3, SeqFacts
    <3>3. Outputs(P, n) = [k \in 1..Len(P) |-> Item("output", P[k].id, n)]
      BY <3>2 DEF Outputs
    <3>4. Outputs(P, n) \in [1..Len(P) -> Items]
      BY <3>1, <3>2, <3>3
    <3>5. QED BY <3>2, <3>4, FunctionIsSeq
  <2>8. QED BY <2>6, <2>7 DEF P, S
<1> HIDE DEF d, user
<1>5. CASE turn = user
  <2>1. Picked(d, {}) = <<>>
    BY <1>1, PickedWhole
  <2>2. Outputs(Picked(d, {}), n) = <<>>
    BY <2>1, NoOutputs
  <2>3. turn = Outputs(Picked(d, {}), n) \o user
    BY <1>2, <1>5, <2>2, ConcatEmptySeq
  <2>4. TurnForm(c, n, turn, {}, user)
    BY <1>2, <2>3 DEF TurnForm, d, user
  <2>5. QED BY <2>4
<1>6. ASSUME NEW s \in (SUBSET IdSet(d)) \ {{}}, turn = outs(s)
      PROVE  \E S, rest : TurnForm(c, n, turn, S, rest)
  <2> DEFINE o == outs(s)
  <2>1. o # <<>> /\ o \in Seq(Items)
    BY <1>4
  <2> HIDE DEF o
  <2>2. o \o <<>> = o
    BY <2>1, ConcatEmptySeq
  <2>3. turn = outs(s) \o <<>> /\ outs(s) # <<>>
    BY <1>6, <2>1, <2>2 DEF o
  <2>4. TurnForm(c, n, turn, chosen(s), <<>>)
    BY <1>2, <2>3 DEF TurnForm, d
  <2>5. QED BY <2>4
<1>7. ASSUME NEW s \in (SUBSET IdSet(d)) \ {{}}, turn = outs(s) \o user
      PROVE  \E S, rest : TurnForm(c, n, turn, S, rest)
  <2>1. TurnForm(c, n, turn, chosen(s), user)
    BY <1>2, <1>7 DEF TurnForm, d, user
  <2>2. QED BY <2>1
<1>8. QED BY <1>3, <1>5, <1>6, <1>7

(* A turn after an answered one: outputs of calls of the last response, in *)
(* front of the message of the user, or one of them alone.                 *)
TurnSays(c, n, turn, output, outs, rest) ==
  /\ outs \in Seq(Kind("output")) /\ rest \in Seq(Plain)
  /\ turn = outs \o rest
  /\ \A m \in DOMAIN outs : \E i \in DOMAIN output :
       output[i].kind = "call" /\ output[i].id = outs[m].id
  /\ Whole(said[c] \o turn) /\ CallsBefore(said[c] \o turn, n)

LEMMA TurnFirst ==
  ASSUME TypeOK, NEW c \in Clients, NEW n \in Numbers, NEW turn \in Turns(c, n), said[c] = <<>>
  PROVE  turn \in Seq(Plain) /\ Whole(said[c] \o turn) /\ CallsBefore(said[c] \o turn, n)
<1> DEFINE x == Item("user", NoId, n)
<1>1. PICK S, rest : TurnForm(c, n, turn, S, rest)
  BY TurnForms
<1>2. Due(c) = <<>>
  BY DueNothing
<1>3. Outputs(Picked(Due(c), S), n) = <<>>
  BY <1>2, PickedEmpty, NoOutputs
<1>4. x \in Plain /\ <<x>> \in Seq(Items) /\ <<x>> \in Seq(Plain)
  BY ItemIs DEF Plain
<1>5. rest = <<x>> /\ turn = <<>> \o rest
  BY <1>1, <1>3 DEF TurnForm
<1> HIDE DEF x
<1>6. turn = <<x>> /\ <<>> \o turn = turn
  BY <1>4, <1>5, ConcatEmptySeq
<1>7. Whole(<<>> \o <<x>>)
  BY <1>4, WholeEmpty, WholePlain
<1>8. CallsBefore(<<x>>, n)
  BY <1>4, CallsBeforeFacts
<1>9. QED BY <1>4, <1>6, <1>7, <1>8

LEMMA ChosenOutputs ==
  ASSUME NEW calls \in Seq(Kind("call")), NEW S, NEW n \in Numbers
  PROVE  LET outs == Outputs(Picked(calls, S), n)
         IN  /\ outs \in Seq(Kind("output"))
             /\ \A m \in DOMAIN outs : \E i \in DOMAIN calls :
                  calls[i].kind = "call" /\ calls[i].id = outs[m].id
<1> DEFINE P == Picked(calls, S)
           outs == Outputs(P, n)
<1>1. outs = Told(AnswersOf(S, n), calls)
  BY OutputsTold
<1>2. outs \in Seq(Kind("output"))
  BY <1>1, AnswersTell, ToldFacts
<1>3. calls \in Seq(Items) /\ \A i \in DOMAIN calls : calls[i].kind = "call"
  BY KindSeq
<1>4. P \in Seq(Items) /\ \A m \in DOMAIN P : \E i \in DOMAIN calls : calls[i] = P[m]
  BY <1>3, PickedFacts
<1> HIDE DEF P
<1>5. DOMAIN outs = DOMAIN P /\ \A m \in DOMAIN P : outs[m] = Item("output", P[m].id, n)
  BY <1>4, OutputsAre
<1> HIDE DEF outs
<1>6. ASSUME NEW m \in DOMAIN outs
      PROVE  \E i \in DOMAIN calls : calls[i].kind = "call" /\ calls[i].id = outs[m].id
  <2>1. PICK i \in DOMAIN calls : calls[i] = P[m]
    BY <1>4, <1>5
  <2>2. outs[m].id = P[m].id
    BY <1>5 DEF Item
  <2>3. QED BY <1>3, <2>1, <2>2
<1>7. QED BY <1>2, <1>6 DEF outs, P

LEMMA TurnIs ==
  ASSUME TypeOK, NEW c \in Clients, NEW n \in Numbers, last[c] \in Numbers, last[c] < n,
         NEW turn \in Turns(c, n), NEW t \in Seq(Items), NEW output \in Replies(last[c]),
         Answered(c, t, output)
  PROVE  \E outs, rest : TurnSays(c, n, turn, output, outs, rest)
<1> DEFINE C == Kind("call")
           x == Item("user", NoId, n)
           L == last[c]
<1>1. /\ output \in Seq(Items) /\ \A k \in DOMAIN output : output[k].tag = L
      /\ \/ /\ output = <<Item("text", NoId, L)>> /\ Item("text", NoId, L) \in Items
            /\ Item("text", NoId, L).kind = "text"
         \/ output \in Seq(C) /\ NoDuplicateCallOutputs(Ids(output))
  BY ReplyForms
<1>2. said[c] = t \o output /\ Whole(t) /\ CallsBefore(t, L)
  BY DEF Answered
<1>3. PICK S, rest : TurnForm(c, n, turn, S, rest)
  BY TurnForms
<1>4. L \in Nat /\ n \in Nat /\ L < n
  BY DEF Numbers
<1>5. Due(c) = Picked(output, C)
  BY <1>1, <1>2, <1>4, DueOfReply
<1>6. CallsBefore(t, n) /\ CallsBefore(output, n)
  <2>1. CallsBefore(t, n)
    BY <1>2, <1>4, CallsBeforeFacts
  <2>2. CallsBefore(output, n)
    BY <1>1, <1>4 DEF CallsBefore
  <2>3. QED BY <2>1, <2>2
<1>7. t \o output \in Seq(Items) /\ CallsBefore(t \o output, n)
  BY <1>1, <1>6, CallsBeforeFacts, ConcatProperties
<1>8. rest \in Seq(Plain) /\ rest \in Seq(Items)
  <2>1. rest \in Seq(Plain)
    BY <1>3 DEF TurnForm
  <2>2. Plain \subseteq Items
    BY DEF Plain
  <2>3. QED BY <2>1, <2>2
<1>9. CASE output \in Seq(C) /\ NoDuplicateCallOutputs(Ids(output))
  <2> DEFINE outs == Outputs(Picked(output, S), n)
  <2>1. Due(c) = output
    <3>1. \A i \in DOMAIN output : output[i] \in C
      BY <1>9, SeqFacts
    <3> HIDE DEF C
    <3>2. Picked(output, C) = output
      BY <1>1, <3>1, PickedWhole
    <3>3. QED BY <1>5, <3>2
  <2>2. /\ outs \in Seq(Kind("output"))
        /\ \A m \in DOMAIN outs : \E i \in DOMAIN output :
             output[i].kind = "call" /\ output[i].id = outs[m].id
    BY <1>9, ChosenOutputs
  <2>3. turn = outs \o rest /\ (outs # <<>> \/ rest # <<>>)
    BY <1>3, <2>1 DEF TurnForm
  <2>4. Whole((t \o output) \o (outs \o rest))
    BY <1>2, <1>8, <1>9, <2>3, WholeCalls
  <2> HIDE DEF outs
  <2>5. outs \in Seq(Items)
    BY <2>2, KindSeq
  <2>6. CallsBefore(outs, n) /\ CallsBefore(rest, n)
    BY <1>8, <2>2, CallsBeforeFacts
  <2>7. outs \o rest \in Seq(Items) /\ CallsBefore(outs \o rest, n)
    BY <1>8, <2>5, <2>6, CallsBeforeFacts, ConcatProperties
  <2>8. CallsBefore((t \o output) \o (outs \o rest), n)
    <3> DEFINE a == t \o output
               b == outs \o rest
    <3>1. a \in Seq(Items) /\ b \in Seq(Items) /\ CallsBefore(a, n) /\ CallsBefore(b, n)
      BY <1>7, <2>7
    <3> HIDE DEF a, b
    <3>2. CallsBefore(a \o b, n)
      BY <3>1, CallsBeforeFacts
    <3>3. QED BY <3>2 DEF a, b
  <2>9. TurnSays(c, n, turn, output, outs, rest)
    BY <1>2, <1>8, <2>2, <2>3, <2>4, <2>8 DEF TurnSays
  <2>10. QED BY <2>9
<1>10. CASE output = <<Item("text", NoId, L)>> /\ Item("text", NoId, L) \in Items
            /\ Item("text", NoId, L).kind = "text"
  <2> DEFINE y == Item("text", NoId, L)
  <2>1. y \in Plain /\ output = <<y>> /\ y \notin C
    BY <1>10 DEF Plain, Kind
  <2> HIDE DEF y, C
  <2>2. Picked(output, C) = <<>>
    <3>1. \A i \in DOMAIN output : output[i] \notin C
      BY <2>1
    <3>2. QED BY <1>1, <3>1, PickedWhole
  <2>3. Outputs(Picked(Due(c), S), n) = <<>>
    BY <1>5, <2>2, PickedEmpty, NoOutputs
  <2>4. rest = <<x>> /\ turn = <<>> \o rest
    BY <1>3, <2>3 DEF TurnForm
  <2>5. x \in Plain
    <3>1. \A i \in DOMAIN rest : rest[i] \in Plain
      BY <1>8, SeqFacts
    <3>2. 1 \in DOMAIN rest /\ rest[1] = x
      BY <2>4
    <3>3. QED BY <3>1, <3>2
  <2> HIDE DEF x
  <2>6. turn = rest
    BY <1>8, <2>4, ConcatEmptySeq
  <2>7. Whole(t \o <<y>>)
    BY <1>2, <2>1, WholePlain
  <2>8. Whole((t \o <<y>>) \o <<x>>)
    BY <2>5, <2>7, WholePlain
  <2>9. CallsBefore(rest, n)
    BY <1>8, CallsBeforeFacts
  <2>10. CallsBefore((t \o output) \o rest, n)
    <3> DEFINE a == t \o output
    <3>1. a \in Seq(Items) /\ CallsBefore(a, n)
      BY <1>7
    <3> HIDE DEF a
    <3>2. CallsBefore(a \o rest, n)
      BY <1>8, <2>9, <3>1, CallsBeforeFacts
    <3>3. QED BY <3>2 DEF a
  <2>11. <<>> \in Seq(Kind("output")) /\ DOMAIN <<>> = {}
    OBVIOUS
  <2>12. said[c] \o turn = (t \o output) \o rest
    BY <1>2, <2>6
  <2>13. Whole(said[c] \o turn)
    BY <2>1, <2>4, <2>8, <2>12
  <2>14. TurnSays(c, n, turn, output, <<>>, rest)
    BY <1>8, <2>4, <2>10, <2>11, <2>12, <2>13 DEF TurnSays
  <2>15. QED BY <2>14
<1>11. QED BY <1>1, <1>9, <1>10

------------------------------------------------------------------------------
(* The ways to continue.                                                   *)

(* A whole history needs no stored response.                               *)
LEMMA WholeNeedsNoRow ==
  ASSUME NEW body, body.previous = 0, Whole(body.input)
  PROVE  FunctionOutputCallIds(body) = <<>> /\ Continued(body) = <<>>
<1> DEFINE s == body.input
           o == OfKind(s, "output")
           a == OfKind(s, "call")
           ids == Ids(o)
<1>1. /\ s \in Seq(Items)
      /\ \A i \in DOMAIN s : s[i].kind = "output" =>
           \E j \in DOMAIN s : s[j].kind = "call" /\ s[j].id = s[i].id
  BY WholeAnswers
<1> HIDE DEF s
<1>2. /\ o \in Seq(Items)
      /\ \A i \in DOMAIN o : o[i].kind = "output" /\ \E k \in DOMAIN s : s[k] = o[i]
  BY <1>1, OfKindFacts
<1>3. \A k \in DOMAIN s : s[k].kind = "call" => \E i \in DOMAIN a : a[i] = s[k]
  BY <1>1, OfKindFacts
<1>4. FunctionOutputCallIds(body) =
        IF ToSet(ids) \subseteq IdSet(a) THEN <<>> ELSE ids
  BY DEF FunctionOutputCallIds, s
<1> HIDE DEF o, a
<1>5. ASSUME NEW e \in ToSet(ids) PROVE e \in IdSet(a)
  <2>1. \E i \in DOMAIN o : e = o[i].id
    BY DEF ToSet, Ids
  <2>2. PICK i \in DOMAIN o : e = o[i].id
    BY <2>1
  <2>3. PICK k \in DOMAIN s : s[k] = o[i]
    BY <1>2
  <2>4. PICK j \in DOMAIN s : s[j].kind = "call" /\ s[j].id = s[k].id
    BY <1>1, <1>2, <2>3
  <2>5. PICK l \in DOMAIN a : a[l] = s[j]
    BY <1>3, <2>4
  <2>6. e = a[l].id
    BY <2>2, <2>3, <2>4, <2>5
  <2>7. QED BY <2>6 DEF IdSet
<1>6. FunctionOutputCallIds(body) = <<>>
  BY <1>4, <1>5
<1>7. PreviousResponse(body).row = 0
  BY <1>6 DEF PreviousResponse
<1>8. QED BY <1>6, <1>7 DEF Continued

LEMMA WholeBodyHeard ==
  ASSUME StoreInv, NEW body \in ClientBody, body.previous = 0, Whole(body.input),
         NEW sys \in Instruction, body.instructions = <<sys>>, Prepare(body).ok
  PROVE  Told(Heard, Prepare(body).messages) = body.input
<1>1. Continued(body) = <<>>
  BY WholeNeedsNoRow
<1>2. /\ Merged(body, <<>>).ok
      /\ Told(Heard, Prepare(body).messages) = Told(Heard, Merged(body, <<>>).messages)
  BY <1>1, PreparedIs
<1>3. PICK B \in Seq(Piece) : body.input = Told(Parts, B)
  BY DEF Whole
<1>4. QED BY <1>2, <1>3, WholeHeard

LEMMA TurnKinds ==
  ASSUME NEW outs \in Seq(Kind("output")), NEW rest \in Seq(Plain)
  PROVE  /\ outs \in Seq(Items) /\ outs \o rest \in Seq(Items)
         /\ OfKind(outs \o rest, "output") = outs /\ OfKind(outs \o rest, "call") = <<>>
<1> DEFINE O == Kind("output")
           C == Kind("call")
           t == outs \o rest
<1>1. outs \in Seq(Items) /\ rest \in Seq(Items)
  <2>1. Plain \subseteq Items
    BY DEF Plain
  <2>2. QED BY <2>1, KindSeq
<1>2. t \in Seq(Items)
  BY <1>1, ConcatProperties
<1>3. \A i \in DOMAIN outs : outs[i] \in O /\ outs[i] \notin C
  BY KindSeq DEF Kind
<1>4. \A i \in DOMAIN rest : rest[i] \notin O /\ rest[i] \notin C
  <2>1. \A i \in DOMAIN rest : rest[i] \in Plain
    BY SeqFacts
  <2>2. QED BY <2>1 DEF Plain, Kind
<1>5. OfKind(t, "output") = Picked(t, O) /\ OfKind(t, "call") = Picked(t, C)
  BY <1>2, OfKindIs
<1> HIDE DEF O, C
<1>6. Picked(outs, O) = outs /\ Picked(outs, C) = <<>>
  BY <1>1, <1>3, PickedWhole
<1>7. Picked(rest, O) = <<>> /\ Picked(rest, C) = <<>>
  BY <1>1, <1>4, PickedWhole
<1>8. Picked(t, O) = Picked(outs, O) \o Picked(rest, O)
  BY <1>1, PickedConcat
<1>9. Picked(t, C) = Picked(outs, C) \o Picked(rest, C)
  BY <1>1, PickedConcat
<1> HIDE DEF t
<1>10. outs \o <<>> = outs /\ <<>> \o <<>> = <<>>
  BY <1>1, ConcatEmptySeq, EmptySeq
<1>11. QED BY <1>1, <1>2, <1>5, <1>6, <1>7, <1>8, <1>9, <1>10 DEF t

(* Only one live row has any of the calls.                                 *)
LEMMA FoundIs ==
  ASSUME NEW L \in LiveRows, NEW ids, ToSet(ids) \subseteq ToSet(rows[L].pending),
         NEW id \in ToSet(ids), FindByCallIds(ids) # 0, TypeOK
  PROVE  FindByCallIds(ids) = L
<1> DEFINE with(e) == {n \in LiveRows : e \in ToSet(rows[n].pending)}
           found == {n \in LiveRows : ToSet(ids) \subseteq ToSet(rows[n].pending)}
           n == FindByCallIds(ids)
<1>1. /\ found # {} /\ \A e \in ToSet(ids) : Cardinality(with(e)) = 1
      /\ n = CHOOSE m \in found : TRUE
  BY DEF FindByCallIds
<1>2. n \in found
  BY <1>1
<1> HIDE DEF n
<1>3. Cardinality(with(id)) = 1
  BY <1>1
<1>4. n \in with(id) /\ L \in with(id)
  BY <1>2
<1> DEFINE W == with(id)
<1>5. IsFiniteSet(W)
  <2>1. DOMAIN rows \subseteq DOMAIN askers /\ askers \in Seq(Clients)
    BY DEF TypeOK
  <2>2. DOMAIN askers = 1..Len(askers) /\ Len(askers) \in Nat
    BY <2>1, SeqFacts
  <2>3. W \subseteq 1..Len(askers)
    BY <2>1, <2>2 DEF LiveRows
  <2> HIDE DEF W
  <2>4. IsFiniteSet(1..Len(askers))
    BY <2>2, FS_Interval
  <2>5. QED BY <2>3, <2>4, FS_Subset
<1> HIDE DEF W
<1>6. \E e : W = {e}
  BY <1>3, <1>5, FS_Singleton DEF W
<1>7. n \in W /\ L \in W
  BY <1>4 DEF W
<1>8. QED BY <1>6, <1>7 DEF n

(* The row of the last response, with the id or by the calls it answers.   *)
LEMMA LastById ==
  ASSUME NEW body, body.previous # 0, Live(body.previous)
  PROVE  PreviousResponse(body).row = body.previous
BY DEF PreviousResponse

LEMMA LastByCalls ==
  ASSUME TypeOK, NEW body, body.previous = 0, NEW L, Live(L),
         NEW outs \in Seq(Kind("output")), outs # <<>>, NEW rest \in Seq(Plain),
         body.input = outs \o rest, PreviousResponse(body).ok,
         \A m \in DOMAIN outs : outs[m].id \in ToSet(rows[L].pending)
  PROVE  PreviousResponse(body).row = L
<1> DEFINE ids == Ids(outs)
           t == outs \o rest
<1>1. outs \in Seq(Items) /\ OfKind(t, "output") = outs /\ OfKind(t, "call") = <<>>
  BY TurnKinds
<1> HIDE DEF t
<1>2. DOMAIN outs # {}
  <2>1. Len(outs) \in Nat /\ DOMAIN outs = 1..Len(outs)
    BY <1>1, SeqFacts
  <2>2. Len(outs) # 0
    BY <1>1, EmptySeq
  <2>3. 1 \in 1..Len(outs)
    BY <2>1, <2>2
  <2>4. QED BY <2>1, <2>3
<1>3. PICK m \in DOMAIN outs : TRUE
  BY <1>2
<1>4. outs[m].id \in ToSet(ids) /\ ids # <<>>
  <2>1. m \in DOMAIN ids /\ ids[m] = outs[m].id
    BY DEF Ids
  <2>2. ids # <<>>
    <3>1. DOMAIN <<>> = {}
      OBVIOUS
    <3>2. QED BY <2>1, <3>1
  <2> HIDE DEF ids
  <2>3. ids[m] \in ToSet(ids)
    BY <2>1 DEF ToSet
  <2>4. QED BY <2>1, <2>2, <2>3
<1>5. FunctionOutputCallIds(body) = ids
  <2>1. IdSet(<<>>) = {}
    BY DEF IdSet
  <2>2. FunctionOutputCallIds(body) =
          IF ToSet(Ids(OfKind(t, "output"))) \subseteq IdSet(OfKind(t, "call"))
          THEN <<>> ELSE Ids(OfKind(t, "output"))
    BY DEF FunctionOutputCallIds, t
  <2> HIDE DEF ids
  <2>3. Ids(OfKind(t, "output")) = ids
    BY <1>1 DEF ids
  <2>4. ~(ToSet(ids) \subseteq IdSet(OfKind(t, "call")))
    BY <1>1, <1>4, <2>1
  <2>5. QED BY <2>2, <2>3, <2>4
<1>6. ToSet(ids) \subseteq ToSet(rows[L].pending)
  <2>1. ASSUME NEW e \in ToSet(ids) PROVE e \in ToSet(rows[L].pending)
    <3>1. \E i \in DOMAIN outs : e = outs[i].id
      BY DEF ToSet, Ids
    <3>2. QED BY <3>1
  <2>2. QED BY <2>1
<1> HIDE DEF ids
<1>7. /\ PreviousResponse(body).row = FindByCallIds(ids)
      /\ PreviousResponse(body).row # 0
  BY <1>4, <1>5 DEF PreviousResponse
<1>8. L \in LiveRows
  BY DEF LiveRows, Live
<1>9. FindByCallIds(ids) # 0
  BY <1>7
<1>10. FindByCallIds(ids) = L
  BY <1>4, <1>6, <1>8, <1>9, FoundIs
<1>11. QED BY <1>7, <1>10

(* A turn is heard after what is stored with the last response.            *)
LEMMA ContinuedHeard ==
  ASSUME StoreInv, NEW body \in ClientBody, NEW sys \in Instruction, body.instructions = <<sys>>,
         NEW L, L # 0, Live(L), PreviousResponse(body).row = L, Prepare(body).ok,
         NEW outs \in Seq(Kind("output")), NEW rest \in Seq(Plain), NEW talk,
         talk = Told(Heard, rows[L].messages),
         \/ body.input = outs \o rest
         \/ /\ Repeats(body.input, talk, outs, rest) /\ outs # <<>>
            /\ \A m \in DOMAIN outs :
                 \E i \in DOMAIN talk : talk[i].kind = "call" /\ talk[i].id = outs[m].id
  PROVE  TurnAdds(Prepare(body).messages, talk, outs, rest)
<1> DEFINE stored == rows[L].messages
<1>1. L \in DOMAIN rows
  BY DEF Live
<1>2. stored \in Seq(Msg) /\ stored # <<>>
  BY <1>1 DEF StoreInv, Sound, EndsWithCalls
<1>3. Continued(body) = stored
  BY DEF Continued
<1> HIDE DEF stored
<1>4. /\ Merged(body, stored).ok
      /\ Told(Heard, Prepare(body).messages) = Told(Heard, Merged(body, stored).messages)
  BY <1>3, PreparedIs
<1>5. talk = Told(Heard, stored)
  BY DEF stored
<1>6. TurnAdds(Merged(body, stored).messages, talk, outs, rest)
  <2>1. CASE body.input = outs \o rest
    <3>1. TurnAdds(Merged(body, stored).messages, Told(Heard, stored), outs, rest)
      BY <1>2, <1>4, <2>1, TurnHeard
    <3>2. QED BY <1>5, <3>1
  <2>2. CASE /\ Repeats(body.input, talk, outs, rest) /\ outs # <<>>
             /\ \A m \in DOMAIN outs :
                  \E i \in DOMAIN talk : talk[i].kind = "call" /\ talk[i].id = outs[m].id
    BY <1>2, <1>4, <1>5, <2>2, HistoryHeard
  <2>3. QED BY <2>1, <2>2
<1>7. QED BY <1>4, <1>6 DEF TurnAdds

(* Whichever way the client asks.                                          *)
LEMMA BodyForms ==
  ASSUME NEW c, NEW n, NEW turn, NEW body \in Bodies(c, n, turn)
  PROVE  /\ body.instructions = <<Item("system", NoId, n)>>
         /\ \/ body.previous = last[c] /\ body.input = turn
            \/ body.previous = 0 /\ body.input = said[c] \o turn
            \/ OfKind(turn, "output") # <<>> /\ body.previous = 0 /\ body.input = turn
            \/ /\ OfKind(turn, "output") # <<>> /\ body.previous = last[c]
               /\ body.input = said[c] \o turn
<1> DEFINE h == said[c] \o turn
           o == OfKind(turn, "output")
<1>1. \/ body \in {Body(n, last[c], turn), Body(n, 0, h)}
      \/ o # <<>> /\ body \in {Body(n, 0, turn), Body(n, last[c], h)}
  BY DEF Bodies
<1> HIDE DEF h, o
<1>2. QED BY <1>1 DEF Body, h, o

(* Every call is among the calls.                                          *)
LEMMA CallsPicked ==
  ASSUME NEW items \in Seq(Items), NEW k \in DOMAIN items, items[k].kind = "call"
  PROVE  \E i \in DOMAIN OfKind(items, "call") : OfKind(items, "call")[i] = items[k]
<1>1. \A j \in DOMAIN items : items[j].kind = "call" =>
        \E i \in DOMAIN OfKind(items, "call") : OfKind(items, "call")[i] = items[j]
  BY OfKindFacts, SMTT(20)
<1>2. QED BY <1>1

LEMMA AnswersPending ==
  ASSUME NEW output \in Seq(Items), NEW L, rows[L].pending = PendingCallIds(output),
         NEW i \in DOMAIN output, output[i].kind = "call"
  PROVE  output[i].id \in ToSet(rows[L].pending)
<1> DEFINE a == OfKind(output, "call")
<1>1. \E k \in DOMAIN a : a[k] = output[i]
  BY CallsPicked
<1>2. rows[L].pending = Ids(a)
  BY DEF PendingCallIds
<1> HIDE DEF a
<1>3. PICK k \in DOMAIN a : a[k] = output[i]
  BY <1>1
<1>4. k \in DOMAIN Ids(a) /\ Ids(a)[k] = output[i].id
  BY <1>3 DEF Ids
<1>5. QED BY <1>2, <1>4 DEF ToSet

LEMMA SystemIs == \A n \in Numbers : Item("system", NoId, n) \in Instruction
BY DEF Item, Items, Instruction

LEMMA AskHeard ==
  ASSUME StoreInv, NEW c \in Clients, NEW n \in Numbers, last[c] < n, ClientTalk(c),
         NEW turn \in Turns(c, n), NEW body \in Bodies(c, n, turn), Prepare(body).ok,
         \/ body.previous = 0 /\ body.input = said[c] \o turn
         \/ kept[c] /\ Live(last[c])
  PROVE  Told(Heard, Prepare(body).messages) = said[c] \o turn
<1> DEFINE sys == Item("system", NoId, n)
           L == last[c]
<1>1. sys \in Instruction /\ body \in ClientBody /\ body.instructions = <<sys>>
  <2>1. sys \in Instruction
    BY SystemIs
  <2>2. body \in ClientBody
    BY BodiesAre DEF StoreInv
  <2>3. QED BY <2>1, <2>2, BodyForms
<1>2. TypeOK /\ BoundsAssumption
  BY BoundsAssumption DEF StoreInv
<1> HIDE DEF sys
<1>3. L \in 0..MaxRequests /\ DOMAIN rows \subseteq DOMAIN askers
  BY <1>2 DEF TypeOK
<1>4. CASE L = 0 /\ said[c] = <<>>
  <2>1. turn \in Seq(Plain) /\ Whole(said[c] \o turn)
    BY <1>2, <1>4, TurnFirst
  <2>2. OfKind(turn, "output") = <<>> /\ said[c] \o turn = turn
    <3>1. <<>> \in Seq(Kind("output"))
      OBVIOUS
    <3>2. Plain \subseteq Items
      BY DEF Plain
    <3>3. turn \in Seq(Items)
      BY <2>1, <3>2
    <3>4. <<>> \o turn = turn
      BY <3>3, ConcatEmptySeq
    <3>5. OfKind(<<>> \o turn, "output") = <<>>
      BY <2>1, <3>1, TurnKinds
    <3>6. QED BY <1>4, <3>4, <3>5
  <2>3. body.previous = 0 /\ body.input = said[c] \o turn
    <3> DEFINE h == said[c] \o turn
    <3>1. \/ body.previous = last[c] /\ body.input = turn
          \/ body.previous = 0 /\ body.input = h
          \/ OfKind(turn, "output") # <<>>
      BY BodyForms
    <3>2. h = turn
      BY <2>2
    <3> HIDE DEF h
    <3>3. body.previous = 0 /\ body.input = h
      BY <1>4, <2>2, <3>1, <3>2
    <3>4. QED BY <3>3 DEF h
  <2>4. QED BY <1>1, <2>1, <2>3, WholeBodyHeard
<1>5. CASE L \in DOMAIN rows /\ \E t \in Seq(Items), output \in Replies(L) : Answered(c, t, output)
  <2>1. PICK t \in Seq(Items), output \in Replies(L) : Answered(c, t, output)
    BY <1>5
  <2>2. L \in Numbers /\ L # 0
    <3>1. askers \in Seq(Clients)
      BY <1>2 DEF TypeOK
    <3>2. DOMAIN askers = 1..Len(askers) /\ Len(askers) \in Nat
      BY <3>1, SeqFacts
    <3>3. MaxRequests \in Nat
      BY BoundsAssumption
    <3>4. QED BY <1>3, <1>5, <3>2, <3>3 DEF Numbers
  <2>3. PICK outs, rest : TurnSays(c, n, turn, output, outs, rest)
    BY <1>2, <2>1, <2>2, TurnIs
  <2>4. /\ outs \in Seq(Kind("output")) /\ rest \in Seq(Plain) /\ turn = outs \o rest
        /\ \A m \in DOMAIN outs : \E i \in DOMAIN output :
             output[i].kind = "call" /\ output[i].id = outs[m].id
        /\ Whole(said[c] \o turn)
    BY <2>3 DEF TurnSays
  <2>5. CASE body.previous = 0 /\ body.input = said[c] \o turn
    BY <1>1, <2>4, <2>5, WholeBodyHeard
  <2>6. CASE kept[c] /\ Live(L) /\ ~(body.previous = 0 /\ body.input = said[c] \o turn)
    <3> DEFINE talk == said[c]
    <3>1. /\ said[c] = t \o output /\ rows[L].pending = PendingCallIds(output)
          /\ talk = Told(Heard, rows[L].messages)
      BY <2>1, <2>6 DEF Answered
    <3>2. output \in Seq(Items)
      BY <2>2, ReplyForms
    <3>3. OfKind(turn, "output") = outs
      BY <2>4, TurnKinds
    <3>4. \A m \in DOMAIN outs : outs[m].id \in ToSet(rows[L].pending)
      <4>1. \A i \in DOMAIN output : output[i].kind = "call" =>
              output[i].id \in ToSet(rows[L].pending)
        BY <3>1, <3>2, AnswersPending
      <4>2. QED BY <2>4, <4>1
    <3>5. \A m \in DOMAIN outs :
            \E i \in DOMAIN talk : talk[i].kind = "call" /\ talk[i].id = outs[m].id
      <4>1. ASSUME NEW m \in DOMAIN outs
            PROVE  \E i \in DOMAIN talk : talk[i].kind = "call" /\ talk[i].id = outs[m].id
        <5>1. PICK i \in DOMAIN output : output[i].kind = "call" /\ output[i].id = outs[m].id
          BY <2>4
        <5>2. /\ DOMAIN (t \o output) = 1..(Len(t) + Len(output)) /\ Len(t) \in Nat
              /\ Len(output) \in Nat /\ DOMAIN output = 1..Len(output)
              /\ \A k \in 1..Len(output) : (t \o output)[Len(t) + k] = output[k]
          BY <3>2, JoinFacts
        <5>3. Len(t) + i \in DOMAIN talk /\ talk[Len(t) + i] = output[i]
          BY <3>1, <5>2
        <5>4. QED BY <5>1, <5>3
      <4>2. QED BY <4>1
    <3> HIDE DEF talk
    <3>6. /\ PreviousResponse(body).row = L
          /\ \/ body.input = outs \o rest
             \/ Repeats(body.input, talk, outs, rest) /\ outs # <<>>
      <4>1. PreviousResponse(body).ok
        BY <1>1, PreparedIs
      <4>2. CASE body.previous = L /\ body.input = turn
        BY <2>2, <2>4, <2>6, <4>2, LastById
      <4>3. CASE OfKind(turn, "output") # <<>> /\ body.previous = 0 /\ body.input = turn
        <5>1. outs # <<>> /\ body.input = outs \o rest
          BY <2>4, <3>3, <4>3
        <5>2. PreviousResponse(body).row = L
          BY <1>2, <2>4, <2>6, <3>4, <4>1, <4>3, <5>1, LastByCalls
        <5>3. QED BY <5>1, <5>2
      <4>4. CASE OfKind(turn, "output") # <<>> /\ body.previous = L /\ body.input = said[c] \o turn
        <5>1. Repeats(body.input, talk, outs, rest) /\ outs # <<>>
          BY <2>4, <3>3, <4>4 DEF Repeats, talk
        <5>2. PreviousResponse(body).row = L
          BY <2>2, <2>6, <4>4, LastById
        <5>3. QED BY <5>1, <5>2
      <4> DEFINE h == said[c] \o turn
                 o == OfKind(turn, "output")
      <4>5. \/ body.previous = L /\ body.input = turn
            \/ body.previous = 0 /\ body.input = h
            \/ o # <<>> /\ body.previous = 0 /\ body.input = turn
            \/ o # <<>> /\ body.previous = L /\ body.input = h
        BY BodyForms
      <4> DEFINE goal == /\ PreviousResponse(body).row = L
                         /\ \/ body.input = outs \o rest
                            \/ Repeats(body.input, talk, outs, rest) /\ outs # <<>>
      <4>6. /\ body.previous = L /\ body.input = turn => goal
            /\ o # <<>> /\ body.previous = 0 /\ body.input = turn => goal
            /\ o # <<>> /\ body.previous = L /\ body.input = h => goal
        BY <4>2, <4>3, <4>4
      <4>7. ~(body.previous = 0 /\ body.input = h)
        BY <2>6
      <4> HIDE DEF h, o, goal
      <4>8. goal
        BY <4>5, <4>6, <4>7
      <4>9. QED BY <4>8 DEF goal
    <3>7. TurnAdds(Prepare(body).messages, talk, outs, rest)
      BY <1>1, <2>2, <2>4, <2>6, <3>1, <3>5, <3>6, ContinuedHeard
    <3>8. QED BY <2>4, <3>7 DEF TurnAdds, talk
  <2>7. QED BY <2>5, <2>6
<1>6. QED BY <1>4, <1>5 DEF ClientTalk

------------------------------------------------------------------------------
(* What is in flight, and what each client knows, is a whole conversation; *)
(* what was kept is stored as it was said.                                 *)

TalkOf(u) ==
  /\ Whole(u.said) /\ CallsBefore(u.said, u.number) /\ u.number \notin DOMAIN rows
  /\ u.kept => Told(Heard, u.messages) = u.said

TalkInv ==
  /\ \A u \in upstream : TalkOf(u)
  /\ \A u, v \in upstream : u.number = v.number => u = v
  /\ \A c \in Clients : ClientTalk(c)

LEMMA TalkStays ==
  ASSUME NEW c \in Clients, ClientTalk(c),
         last'[c] = last[c], said'[c] = said[c], kept'[c] = kept[c],
         last[c] \in DOMAIN rows => last[c] \in DOMAIN rows' /\ rows'[last[c]] = rows[last[c]]
  PROVE  ClientTalk(c)'
<1>1. CASE last[c] = 0 /\ said[c] = <<>>
  BY <1>1 DEF ClientTalk
<1>2. CASE last[c] \in DOMAIN rows /\ \E t \in Seq(Items), output \in Replies(last[c]) : Answered(c, t, output)
  <2>1. PICK t \in Seq(Items), output \in Replies(last[c]) : Answered(c, t, output)
    BY <1>2
  <2>2. Answered(c, t, output)'
    BY <1>2, <2>1 DEF Answered
  <2>3. output \in Replies(last'[c]) /\ last'[c] \in DOMAIN rows'
    BY <1>2
  <2>4. QED BY <2>2, <2>3 DEF ClientTalk
<1>3. QED BY <1>1, <1>2 DEF ClientTalk

LEMMA TalkQuiet ==
  ASSUME TalkInv, upstream' \subseteq upstream, UNCHANGED <<rows, last, said, kept>>
  PROVE  TalkInv'
<1>1. ASSUME NEW c \in Clients PROVE ClientTalk(c)'
  <2>1. ClientTalk(c)
    BY DEF TalkInv
  <2>2. /\ last'[c] = last[c] /\ said'[c] = said[c] /\ kept'[c] = kept[c]
        /\ last[c] \in DOMAIN rows => last[c] \in DOMAIN rows' /\ rows'[last[c]] = rows[last[c]]
    OBVIOUS
  <2>3. QED BY <2>1, <2>2, TalkStays
<1>2. \A u \in upstream' : TalkOf(u)'
  BY DEF TalkInv, TalkOf
<1>3. \A u, v \in upstream' : u.number = v.number => u = v
  BY DEF TalkInv
<1>4. QED BY <1>1, <1>2, <1>3 DEF TalkInv

LEMMA TalkInit == Init => TalkInv
BY DEF Init, TalkInv, ClientTalk

LEMMA TalkAsk ==
  ASSUME StoreInv, TalkInv, NEW c \in Clients, Ask(c) PROVE TalkInv'
<1> DEFINE n == Len(askers) + 1
<1>0. TypeOK /\ Len(askers) <= MaxRequests
  BY DEF StoreInv
<1>1. PICK turn \in Turns(c, n) : \E body \in Bodies(c, n, turn) :
       /\ Prepare(body).ok
       /\ upstream' = upstream \cup
            {[number |-> n, client |-> c, body |-> body, at |-> clock,
              messages |-> Prepare(body).messages, said |-> said[c] \o turn,
              kept |-> \/ body.previous = 0 /\ body.input = said[c] \o turn
                       \/ kept[c] /\ Live(last[c])]}
  BY DEF Ask
<1>2. PICK body \in Bodies(c, n, turn) :
       /\ Prepare(body).ok
       /\ upstream' = upstream \cup
            {[number |-> n, client |-> c, body |-> body, at |-> clock,
              messages |-> Prepare(body).messages, said |-> said[c] \o turn,
              kept |-> \/ body.previous = 0 /\ body.input = said[c] \o turn
                       \/ kept[c] /\ Live(last[c])]}
  BY <1>1
<1> DEFINE h == said[c] \o turn
           b == \/ body.previous = 0 /\ body.input = h
                \/ kept[c] /\ Live(last[c])
           p == Prepare(body).messages
           u == [number |-> n, client |-> c, body |-> body, at |-> clock,
                 messages |-> p, said |-> h, kept |-> b]
<1>3. upstream' = upstream \cup {u} /\ n <= MaxRequests /\ UNCHANGED <<clock, rows, last, said, kept>>
  BY <1>2 DEF Ask
<1>4. Len(askers) \in Nat /\ DOMAIN askers = 1..Len(askers) /\ n \in Numbers /\ n \in Nat
  BY <1>0, <1>3, BoundsAssumption, SeqFacts DEF TypeOK, Numbers
<1>5. n \notin DOMAIN rows /\ \A v \in upstream : v.number # n
  <2>1. n \notin DOMAIN askers
    BY <1>4
  <2>2. DOMAIN rows \subseteq DOMAIN askers
    BY <1>0 DEF TypeOK
  <2>3. \A v \in upstream : v.number \in DOMAIN askers
    BY DEF StoreInv
  <2> HIDE DEF n
  <2>4. QED BY <2>1, <2>2, <2>3
<1>6. ClientTalk(c)
  BY DEF TalkInv
<1>7. last[c] \in Nat /\ last[c] < n
  <2>1. last[c] \in 0..MaxRequests /\ DOMAIN rows \subseteq DOMAIN askers
    BY <1>0 DEF TypeOK
  <2>2. last[c] = 0 \/ last[c] \in DOMAIN rows
    BY <1>6 DEF ClientTalk
  <2>3. QED BY <1>4, <2>1, <2>2
<1> HIDE DEF n
<1>8. Whole(h) /\ CallsBefore(h, n)
  <2>1. CASE last[c] = 0 /\ said[c] = <<>>
    BY <1>0, <1>4, <2>1, TurnFirst
  <2>2. CASE last[c] \in DOMAIN rows /\ \E t \in Seq(Items), output \in Replies(last[c]) : Answered(c, t, output)
    <3>1. PICK t \in Seq(Items), output \in Replies(last[c]) : Answered(c, t, output)
      BY <2>2
    <3>2. last[c] \in Numbers
      <4>1. DOMAIN rows \subseteq DOMAIN askers
        BY <1>0 DEF TypeOK
      <4>2. last[c] \in 1..Len(askers) /\ MaxRequests \in Nat
        BY <1>4, <2>2, <4>1, BoundsAssumption
      <4>3. QED BY <1>0, <1>4, <4>2 DEF Numbers
    <3>3. PICK outs, rest : TurnSays(c, n, turn, output, outs, rest)
      BY <1>0, <1>4, <1>7, <3>1, <3>2, TurnIs
    <3>4. QED BY <3>3 DEF TurnSays
  <2>3. QED BY <1>6, <2>1, <2>2 DEF ClientTalk
<1>9. b => Told(Heard, p) = h
  BY <1>2, <1>4, <1>6, <1>7, AskHeard
<1>10. u.number = n /\ u.said = h /\ u.messages = p /\ u.kept = b
  <2> HIDE DEF h, b, p
  <2>1. QED OBVIOUS
<1> HIDE DEF u, h, b, p
<1>11. ASSUME NEW v \in upstream' PROVE TalkOf(v)'
  <2>1. CASE v \in upstream
    <3>1. TalkOf(v)
      BY <2>1 DEF TalkInv
    <3>2. QED BY <1>3, <3>1 DEF TalkOf
  <2>2. CASE v = u
    BY <1>3, <1>5, <1>8, <1>9, <1>10, <2>2 DEF TalkOf
  <2>3. QED BY <1>3, <2>1, <2>2
<1>12. \A v, w \in upstream' : v.number = w.number => v = w
  <2>1. \A v, w \in upstream : v.number = w.number => v = w
    BY DEF TalkInv
  <2>2. QED BY <1>3, <1>5, <1>10, <2>1
<1>13. ASSUME NEW d \in Clients PROVE ClientTalk(d)'
  <2>1. ClientTalk(d)
    BY DEF TalkInv
  <2>2. /\ last'[d] = last[d] /\ said'[d] = said[d] /\ kept'[d] = kept[d]
        /\ last[d] \in DOMAIN rows => last[d] \in DOMAIN rows' /\ rows'[last[d]] = rows[last[d]]
    BY <1>3
  <2>3. QED BY <2>1, <2>2, TalkStays
<1>14. QED BY <1>11, <1>12, <1>13 DEF TalkInv

LEMMA TalkFinish ==
  ASSUME StoreInv, TalkInv, NEW u \in upstream, Finish(u) PROVE TalkInv'
<1> DEFINE m(output) == Message("assistant", output)
<1>0. TypeOK /\ u \in Request /\ Sound(u.messages)
  BY DEF StoreInv, TypeOK
<1>1. PICK output \in Replies(u.number), created \in {u.at, clock} :
       /\ rows' = [n \in DOMAIN rows \cup {u.number} |->
            IF n = u.number
            THEN [messages |-> Append(u.messages, Message("assistant", output)),
                  pending |-> PendingCallIds(output),
                  created |-> created, previous |-> u.body.previous]
            ELSE rows[n]]
       /\ IF waits[u.client] = u.number
          THEN /\ said' = [said EXCEPT ![u.client] = u.said \o output]
               /\ kept' = [kept EXCEPT ![u.client] = u.kept]
               /\ last' = [last EXCEPT ![u.client] = u.number]
               /\ waits' = [waits EXCEPT ![u.client] = 0]
          ELSE UNCHANGED <<said, kept, last, waits>>
  BY DEF Finish
<1>2. upstream' = upstream \ {u}
  BY DEF Finish
<1> DEFINE s == Append(u.messages, Message("assistant", output))
           q == PendingCallIds(output)
           row == [messages |-> s, pending |-> q, created |-> created, previous |-> u.body.previous]
<1>3. rows' = [n \in DOMAIN rows \cup {u.number} |-> IF n = u.number THEN row ELSE rows[n]]
  BY <1>1
<1>4. row.messages = s /\ row.pending = q
  <2> HIDE DEF s, q
  <2>1. QED OBVIOUS
<1>5. TalkOf(u) /\ u.number \notin DOMAIN rows
  BY DEF TalkInv, TalkOf
<1> HIDE DEF row
<1>6. /\ DOMAIN rows' = DOMAIN rows \cup {u.number} /\ rows'[u.number] = row
      /\ \A n \in DOMAIN rows : rows'[n] = rows[n]
  BY <1>3, <1>5
<1>7. ASSUME NEW v \in upstream' PROVE TalkOf(v)'
  <2>1. v \in upstream /\ v # u
    BY <1>2
  <2>2. TalkOf(v) /\ v.number # u.number
    BY <2>1 DEF TalkInv
  <2>3. QED BY <1>6, <2>2 DEF TalkOf
<1>8. \A v, w \in upstream' : v.number = w.number => v = w
  BY <1>2 DEF TalkInv
<1>9. u.number \in Numbers /\ u.client \in Clients /\ u.messages \in Seq(Msg)
  <2>1. u.number \in 1..MaxRequests /\ u.client \in Clients /\ u.messages \in Seq(Msg)
    BY <1>0 DEF Request, Sound
  <2>2. QED BY <2>1, BoundsAssumption DEF Numbers
<1>10. /\ said \in [Clients -> Seq(Items)] /\ kept \in [Clients -> BOOLEAN]
       /\ last \in [Clients -> 0..MaxRequests]
  BY <1>0 DEF TypeOK
<1>11. ASSUME NEW c \in Clients, ~(c = u.client /\ waits[u.client] = u.number)
       PROVE  ClientTalk(c)'
  <2>1. ClientTalk(c)
    BY DEF TalkInv
  <2>2. last'[c] = last[c] /\ said'[c] = said[c] /\ kept'[c] = kept[c]
    BY <1>1, <1>9, <1>10, <1>11
  <2>3. last[c] \in DOMAIN rows => last[c] \in DOMAIN rows' /\ rows'[last[c]] = rows[last[c]]
    BY <1>6
  <2>4. QED BY <2>1, <2>2, <2>3, TalkStays
<1>12. ASSUME waits[u.client] = u.number PROVE ClientTalk(u.client)'
  <2> DEFINE c == u.client
  <2>1. said'[c] = u.said \o output /\ kept'[c] = u.kept /\ last'[c] = u.number
    BY <1>1, <1>9, <1>10, <1>12
  <2>2. /\ output \in Seq(Items) /\ Quiet(output)
    BY <1>9, RepliesAre
  <2>3. /\ Message("assistant", output) \in Msg /\ Message("assistant", output).role = "assistant"
        /\ Message("assistant", output).items = output
    BY <2>2, MessageIs DEF Roles
  <2>4. Told(Heard, s) = Told(Heard, u.messages) \o output
    <3> DEFINE a == Message("assistant", output)
    <3>1. a \in Msg /\ Heard[a] = output
      BY <2>3 DEF Heard
    <3> HIDE DEF a
    <3>2. Told(Heard, Append(u.messages, a)) = Told(Heard, u.messages) \o Heard[a]
      BY <1>9, <3>1, HeardAppend
    <3>3. QED BY <3>1, <3>2 DEF a
  <2>5. u.said \in Seq(Items) /\ Whole(u.said) /\ CallsBefore(u.said, u.number)
        /\ (u.kept => Told(Heard, u.messages) = u.said)
    BY <1>0, <1>5 DEF TalkOf, Request
  <2> HIDE DEF s
  <2>6. Answered(c, u.said, output)'
    <3>1. rows'[last'[c]].pending = PendingCallIds(output)
      BY <1>4, <1>6, <2>1
    <3>2. rows'[last'[c]].messages = s
      BY <1>4, <1>6, <2>1
    <3>3. kept'[c] => Told(Heard, rows'[last'[c]].messages) = said'[c]
      BY <2>1, <2>4, <2>5, <3>2
    <3> HIDE DEF c
    <3>4. QED BY <2>1, <2>5, <3>1, <3>3 DEF Answered
  <2>7. last'[c] \in DOMAIN rows' /\ output \in Replies(last'[c])
    BY <1>6, <2>1
  <2>8. QED BY <2>5, <2>6, <2>7 DEF ClientTalk
<1>13. \A c \in Clients : ClientTalk(c)'
  BY <1>11, <1>12
<1>14. QED BY <1>7, <1>8, <1>13 DEF TalkInv

LEMMA TalkInvariant == Spec => [](StoreInv /\ TalkInv)
<1>1. StoreInv /\ TalkInv /\ [Next]_vars => TalkInv'
  <2> SUFFICES ASSUME StoreInv, TalkInv, [Next]_vars PROVE TalkInv'
    OBVIOUS
  <2>1. CASE \E c \in Clients : Ask(c)
    BY <2>1, TalkAsk
  <2>2. CASE \E u \in upstream : Finish(u)
    BY <2>2, TalkFinish
  <2>3. CASE \E u \in upstream : Fail(u)
    BY <2>3, TalkQuiet DEF Fail
  <2>4. CASE (\E c \in Clients : HangUp(c)) \/ Tick \/ Crash \/ UNCHANGED vars
    BY <2>4, TalkQuiet DEF HangUp, Tick, Crash, vars
  <2>5. QED BY <2>1, <2>2, <2>3, <2>4 DEF Next
<1>2. QED BY <1>1, TalkInit, StoreInvariant, PTL DEF Spec

(* Whichever way the clients continue, a request that brings its whole     *)
(* conversation, or whose responses had not expired when they were         *)
(* continued, shows the upstream what its client said and was told, each   *)
(* item once and in order: what the stored row, the new messages and the   *)
(* repaired history add up to.                                             *)
THEOREM UpstreamHears == Spec => []UpstreamSeesConversation
<1>1. StoreInv /\ TalkInv => UpstreamSeesConversation
  <2> SUFFICES ASSUME StoreInv, TalkInv, NEW u \in upstream, u.kept
               PROVE  Spoken(u.messages) = u.said
    BY DEF UpstreamSeesConversation
  <2>1. u.messages \in Seq(Msg)
    BY DEF StoreInv, Sound
  <2>2. Told(Heard, u.messages) = u.said
    BY DEF TalkInv, TalkOf
  <2>3. QED BY <2>1, <2>2, SpokenIs
<1>2. QED BY <1>1, TalkInvariant, PTL

------------------------------------------------------------------------------
(* Calls can be answered: what is distinct is accepted.                    *)

Distinct(items) == NoDuplicateCallOutputs(Ids(items))

LEMMA DistinctIs ==
  ASSUME NEW s \in Seq(Items)
  PROVE  Distinct(s) <=> \A i, j \in DOMAIN s : s[i].id = s[j].id => i = j
BY DEF Distinct, NoDuplicateCallOutputs, Ids

LEMMA DistinctPicked ==
  ASSUME NEW s \in Seq(Items), Distinct(s), NEW S
  PROVE  Distinct(Picked(s, S))
<1> DEFINE t == Picked(s, S)
<1>1. t \in Seq(Items) /\ \E g : From(g, t, s, Len(s), S)
  BY PickedFrom
<1> HIDE DEF t
<1>2. PICK g : From(g, t, s, Len(s), S)
  BY <1>1
<1>3. Len(t) \in Nat /\ Len(s) \in Nat /\ DOMAIN t = 1..Len(t) /\ DOMAIN s = 1..Len(s)
  BY <1>1, LenProperties
<1>4. /\ \A i \in DOMAIN t : g[i] \in DOMAIN s /\ t[i] = s[g[i]]
      /\ \A i, j \in DOMAIN t : i < j => g[i] < g[j]
  BY <1>2, <1>3 DEF From
<1>5. \A i, j \in DOMAIN s : s[i].id = s[j].id => i = j
  BY DistinctIs
<1>6. ASSUME NEW i \in DOMAIN t, NEW j \in DOMAIN t, t[i].id = t[j].id PROVE i = j
  <2>1. g[i] = g[j] /\ g[i] \in Nat /\ g[j] \in Nat
    BY <1>3, <1>4, <1>5, <1>6
  <2>2. ~(i < j) /\ ~(j < i)
    BY <1>4, <2>1
  <2>3. i \in Nat /\ j \in Nat
    BY <1>3
  <2>4. QED BY <2>2, <2>3
<1>7. Distinct(t)
  BY <1>1, <1>6, DistinctIs
<1>8. QED BY <1>7 DEF t

LEMMA DistinctJoin ==
  ASSUME NEW a \in Seq(Items), NEW b \in Seq(Items)
  PROVE  /\ Distinct(a \o b) => Distinct(a)
         /\ Distinct(a) /\ Distinct(b)
              /\ (\A i \in DOMAIN a : \A j \in DOMAIN b : a[i].id # b[j].id)
            => Distinct(a \o b)
<1> DEFINE s == a \o b
<1>1. /\ s \in Seq(Items) /\ Len(a) \in Nat /\ Len(b) \in Nat
      /\ DOMAIN s = 1..(Len(a) + Len(b)) /\ DOMAIN a = 1..Len(a) /\ DOMAIN b = 1..Len(b)
      /\ \A k \in 1..Len(a) : s[k] = a[k]
      /\ \A k \in 1..Len(b) : s[Len(a) + k] = b[k]
  BY JoinFacts
<1> HIDE DEF s
<1>2. ASSUME Distinct(s) PROVE Distinct(a)
  <2>1. \A i, j \in DOMAIN s : s[i].id = s[j].id => i = j
    BY <1>1, <1>2, DistinctIs
  <2>2. \A i \in DOMAIN a : i \in DOMAIN s /\ s[i] = a[i]
    BY <1>1
  <2>3. \A i, j \in DOMAIN a : a[i].id = a[j].id => i = j
    BY <2>1, <2>2
  <2>4. QED BY <2>3, DistinctIs
<1>3. ASSUME Distinct(a), Distinct(b), \A i \in DOMAIN a : \A j \in DOMAIN b : a[i].id # b[j].id
      PROVE  Distinct(s)
  <2>1. /\ \A i, j \in DOMAIN a : a[i].id = a[j].id => i = j
        /\ \A i, j \in DOMAIN b : b[i].id = b[j].id => i = j
    BY <1>3, DistinctIs
  <2>2. \A i \in DOMAIN s : \/ i \in DOMAIN a /\ s[i] = a[i]
                            \/ \E k \in DOMAIN b : i = Len(a) + k /\ s[i] = b[k]
    <3> SUFFICES ASSUME NEW i \in DOMAIN s, i \notin DOMAIN a
                 PROVE  \E k \in DOMAIN b : i = Len(a) + k /\ s[i] = b[k]
      BY <1>1
    <3>1. i - Len(a) \in DOMAIN b /\ i = Len(a) + (i - Len(a))
      BY <1>1
    <3>2. s[i] = b[i - Len(a)]
      BY <1>1, <3>1
    <3>3. QED BY <3>1, <3>2
  <2>3. ASSUME NEW i \in DOMAIN s, NEW j \in DOMAIN s, s[i].id = s[j].id PROVE i = j
    <3>1. CASE i \in DOMAIN a /\ s[i] = a[i] /\ j \in DOMAIN a /\ s[j] = a[j]
      BY <2>1, <2>3, <3>1
    <3>2. CASE /\ \E k \in DOMAIN b : i = Len(a) + k /\ s[i] = b[k]
               /\ \E k \in DOMAIN b : j = Len(a) + k /\ s[j] = b[k]
      BY <2>1, <2>3, <3>2
    <3>3. QED BY <1>3, <2>2, <2>3, <3>1, <3>2
  <2>4. QED BY <1>1, <2>3, DistinctIs
<1>4. QED BY <1>2, <1>3 DEF s

(* Two of the items that are picked have not one id.                       *)
LEMMA TwoPicked ==
  ASSUME NEW s \in Seq(Items), NEW S, Distinct(Picked(s, S)),
         NEW z \in DOMAIN s, NEW w \in DOMAIN s, s[z] \in S, s[w] \in S, s[z].id = s[w].id
  PROVE  z = w
<1> DEFINE t == Picked(s, S)
<1>1. t \in Seq(Items) /\ \E g : From(g, t, s, Len(s), S)
  BY PickedFrom
<1>2. Distinct(t)
  OBVIOUS
<1> HIDE DEF t
<1>3. PICK g : From(g, t, s, Len(s), S)
  BY <1>1
<1>4. DOMAIN t = 1..Len(t) /\ DOMAIN s = 1..Len(s)
  BY <1>1, LenProperties
<1>5. /\ \A i \in DOMAIN t : t[i] = s[g[i]]
      /\ \A k \in DOMAIN s : s[k] \in S => \E i \in DOMAIN t : g[i] = k
  BY <1>3, <1>4 DEF From
<1>6. PICK i \in DOMAIN t : g[i] = z
  BY <1>5
<1>7. PICK j \in DOMAIN t : g[j] = w
  BY <1>5
<1>8. t[i].id = t[j].id
  BY <1>5, <1>6, <1>7
<1>9. i = j
  BY <1>1, <1>2, <1>8, DistinctIs
<1>10. QED BY <1>6, <1>7, <1>9

(* The last check of the history accepts what is sound.                    *)
LEMMA MadeCalls ==
  ASSUME NEW m \in Msg, NEW id, MakesCall(m, id)
  PROVE  id \in IdSet(ToolCalls(m))
<1> DEFINE s == m.items
<1>1. s \in Seq(Items)
  BY DEF Msg
<1>2. m.role = "assistant" /\ \E k \in DOMAIN s : s[k].kind = "call" /\ s[k].id = id
  BY DEF MakesCall
<1>3. ToolCalls(m) = OfKind(s, "call")
  BY <1>2 DEF ToolCalls
<1> HIDE DEF s
<1>4. PICK k \in DOMAIN s : s[k].kind = "call" /\ s[k].id = id
  BY <1>2
<1>5. \E i \in DOMAIN OfKind(s, "call") : OfKind(s, "call")[i] = s[k]
  BY <1>1, <1>4, CallsPicked
<1>6. QED BY <1>3, <1>4, <1>5 DEF IdSet

LEMMA SoundIsValid ==
  ASSUME NEW messages \in Seq(Msg), Behind(messages), Once(messages)
  PROVE  ValidChatToolHistory(messages)
<1>1. /\ Len(messages) \in Nat /\ DOMAIN messages = 1..Len(messages)
      /\ \A i \in DOMAIN messages : messages[i] \in Msg
  BY SeqFacts
<1>2. ASSUME NEW j \in DOMAIN messages, messages[j].role = "tool"
      PROVE  /\ \E i \in 1..(j - 1) : messages[j].items[1].id \in IdSet(ToolCalls(messages[i]))
             /\ \A i \in 1..(j - 1) : messages[i].role = "tool" =>
                  messages[i].items[1].id # messages[j].items[1].id
  <2>1. PICK i \in 1..(j - 1) : AnswersAt(messages, i, j)
    BY <1>2 DEF Behind
  <2>2. messages[i] \in Msg /\ MakesCall(messages[i], messages[j].items[1].id)
    BY <1>1, <2>1 DEF AnswersAt
  <2>3. messages[j].items[1].id \in IdSet(ToolCalls(messages[i]))
    BY <2>2, MadeCalls
  <2>4. ASSUME NEW k \in 1..(j - 1), messages[k].role = "tool",
               messages[k].items[1].id = messages[j].items[1].id
        PROVE  FALSE
    <3>1. k \in DOMAIN messages /\ k # j
      BY <1>1
    <3>2. k = j
      BY <1>2, <2>4, <3>1 DEF Once
    <3>3. QED BY <3>1, <3>2
  <2>5. QED BY <2>3, <2>4
<1>3. QED BY <1>2 DEF ValidChatToolHistory, IsTool, CallIdOf

LEMMA OncePicked ==
  ASSUME NEW T, NEW s \in Seq(T), Once(s), NEW S
  PROVE  Once(Picked(s, S))
<1> DEFINE t == Picked(s, S)
<1>1. t \in Seq(T) /\ \E g : From(g, t, s, Len(s), S)
  BY PickedFrom
<1> HIDE DEF t
<1>2. PICK g : From(g, t, s, Len(s), S)
  BY <1>1
<1>3. Len(t) \in Nat /\ Len(s) \in Nat /\ DOMAIN t = 1..Len(t) /\ DOMAIN s = 1..Len(s)
  BY <1>1, LenProperties
<1>4. /\ \A i \in DOMAIN t : g[i] \in DOMAIN s /\ t[i] = s[g[i]]
      /\ \A i, j \in DOMAIN t : i < j => g[i] < g[j]
  BY <1>2, <1>3 DEF From
<1>5. ASSUME NEW i \in DOMAIN t, NEW j \in DOMAIN t, t[i].role = "tool", t[j].role = "tool",
             t[i].items[1].id = t[j].items[1].id
      PROVE  i = j
  <2>1. g[i] = g[j] /\ g[i] \in Nat /\ g[j] \in Nat
    BY <1>3, <1>4, <1>5 DEF Once
  <2>2. ~(i < j) /\ ~(j < i)
    BY <1>4, <2>1
  <2>3. i \in Nat /\ j \in Nat
    BY <1>3
  <2>4. QED BY <2>2, <2>3
<1>6. QED BY <1>5 DEF Once, t

LEMMA OnceJoin ==
  ASSUME NEW T, NEW a \in Seq(T), NEW b \in Seq(T), Once(a), Once(b),
         \A i \in DOMAIN a : \A j \in DOMAIN b :
           ~(a[i].role = "tool" /\ b[j].role = "tool" /\ a[i].items[1].id = b[j].items[1].id)
  PROVE  Once(a \o b)
<1> DEFINE s == a \o b
<1>1. /\ Len(a) \in Nat /\ Len(b) \in Nat
      /\ DOMAIN s = 1..(Len(a) + Len(b)) /\ DOMAIN a = 1..Len(a) /\ DOMAIN b = 1..Len(b)
      /\ \A k \in 1..Len(a) : s[k] = a[k]
      /\ \A k \in 1..Len(b) : s[Len(a) + k] = b[k]
  BY JoinFacts
<1> HIDE DEF s
<1>2. \A i \in DOMAIN s : \/ i \in DOMAIN a /\ s[i] = a[i]
                          \/ \E k \in DOMAIN b : i = Len(a) + k /\ s[i] = b[k]
  <2> SUFFICES ASSUME NEW i \in DOMAIN s, i \notin DOMAIN a
               PROVE  \E k \in DOMAIN b : i = Len(a) + k /\ s[i] = b[k]
    BY <1>1
  <2>1. i - Len(a) \in DOMAIN b /\ i = Len(a) + (i - Len(a))
    BY <1>1
  <2>2. s[i] = b[i - Len(a)]
    BY <1>1, <2>1
  <2>3. QED BY <2>1, <2>2
<1>3. ASSUME NEW i \in DOMAIN s, NEW j \in DOMAIN s, s[i].role = "tool", s[j].role = "tool",
             s[i].items[1].id = s[j].items[1].id
      PROVE  i = j
  <2>1. CASE i \in DOMAIN a /\ s[i] = a[i] /\ j \in DOMAIN a /\ s[j] = a[j]
    BY <1>3, <2>1 DEF Once
  <2>2. CASE /\ \E k \in DOMAIN b : i = Len(a) + k /\ s[i] = b[k]
             /\ \E k \in DOMAIN b : j = Len(a) + k /\ s[j] = b[k]
    BY <1>3, <2>2 DEF Once
  <2>3. QED BY <1>2, <1>3, <2>1, <2>2
<1>4. QED BY <1>3 DEF Once, s

LEMMA NormalizedOnce ==
  ASSUME NEW messages \in Seq(Msg), Once(messages)
  PROVE  Once(NormalizeUpstreamRoles(messages))
<1> DEFINE system == Picked(messages, {m \in ToSet(messages) : m.role = "system"})
           R == {m \in ToSet(messages) : m.role # "system"}
           rest == Picked(messages, R)
           head == Message("system", FlattenSeq([i \in DOMAIN system |-> system[i].items]))
           T == Msg \cup {head}
<1>1. NormalizeUpstreamRoles(messages) = IF system = <<>> THEN rest ELSE <<head>> \o rest
  BY DEF NormalizeUpstreamRoles
<1>2. rest \in Seq(Msg) /\ Once(rest)
  <2> HIDE DEF R
  <2>1. QED BY PickedFacts, OncePicked
<1>3. head.role = "system"
  BY DEF Message
<1> HIDE DEF system, rest, head
<1>4. <<head>> \in Seq(T) /\ Len(<<head>>) = 1 /\ <<head>>[1] = head
  BY SingleIs
<1>5. rest \in Seq(T)
  BY <1>2
<1>6. \A i \in DOMAIN <<head>> : <<head>>[i].role = "system"
  BY <1>3
<1>7. Once(<<head>>)
  BY <1>6 DEF Once
<1> HIDE DEF T
<1>8. Once(<<head>> \o rest)
  <2> DEFINE a == <<head>>
  <2>1. a \in Seq(T) /\ Once(a) /\ \A i \in DOMAIN a : a[i].role # "tool"
    BY <1>4, <1>6, <1>7
  <2> HIDE DEF a
  <2>2. Once(a \o rest)
    BY <1>2, <1>5, <2>1, OnceJoin
  <2>3. QED BY <2>2 DEF a
<1>9. QED BY <1>1, <1>2, <1>8

(* A repaired history that answers each call once is accepted.             *)
LEMMA PayloadAccepted ==
  ASSUME NEW body \in ClientBody, NEW stored \in Seq(Msg), Behind(stored),
         stored # <<>> => \A j \in DOMAIN body.input : body.input[j].kind = "output" =>
                            MakesCall(stored[Len(stored)], body.input[j].id),
         Merged(body, stored).ok, Once(Merged(body, stored).messages),
         Merged(body, stored).messages # <<>>
  PROVE  BuildChatPayload(body, stored).ok
<1> DEFINE merged == Merged(body, stored)
           final == merged.messages
           messages == NormalizeUpstreamRoles(final)
<1>1. merged.messages # <<>> /\ merged.ok =>
        BuildChatPayload(body, stored) =
          IF ValidChatToolHistory(messages) THEN Accepted(messages) ELSE Refused
  BY DEF BuildChatPayload, Merged
<1>2. final \in Seq(Msg) /\ Behind(final) /\ Once(final)
  BY MergedIs
<1>3. merged.messages # <<>> /\ merged.ok
  OBVIOUS
<1> HIDE DEF merged, final
<1>4. messages \in Seq(Msg) /\ Behind(messages) /\ Once(messages)
  BY <1>2, NormalizedIs, NormalizedOnce
<1> HIDE DEF messages
<1>5. ValidChatToolHistory(messages)
  BY <1>4, SoundIsValid
<1>6. QED BY <1>1, <1>3, <1>5 DEF Accepted

(* The tool messages hold outputs.                                         *)
Outspoken(messages) ==
  \A i \in DOMAIN messages : messages[i].role = "tool" =>
    1 \in DOMAIN messages[i].items /\ messages[i].items[1] \in Kind("output")

LEMMA HeardOnce ==
  ASSUME NEW X \in Seq(Msg), Outspoken(X), Distinct(Picked(Told(Heard, X), Kind("output")))
  PROVE  Once(X)
<1> DEFINE t == Told(Heard, X)
<1>1. t \in Seq(Items) /\ Distinct(Picked(t, Kind("output")))
  BY HeardJoin
<1>2. \A s \in Seq(Msg) : \A i, j \in DOMAIN s : i < j =>
        \A x \in DOMAIN Heard[s[i]] : \A y \in DOMAIN Heard[s[j]] :
          \E z, w \in DOMAIN Told(Heard, s) :
            z < w /\ Told(Heard, s)[z] = Heard[s[i]][x] /\ Told(Heard, s)[w] = Heard[s[j]][y]
  BY HeardTells, ToldOrder
<1>3. ASSUME NEW i \in DOMAIN X, NEW j \in DOMAIN X, i < j,
             X[i].role = "tool", X[j].role = "tool", X[i].items[1].id = X[j].items[1].id
      PROVE  FALSE
  <2>1. X[i] \in Msg /\ X[j] \in Msg
    BY SeqFacts
  <2>2. Heard[X[i]] = X[i].items /\ Heard[X[j]] = X[j].items
    BY <1>3, <2>1 DEF Heard
  <2>3. 1 \in DOMAIN Heard[X[i]] /\ 1 \in DOMAIN Heard[X[j]]
    BY <1>3, <2>2 DEF Outspoken
  <2>4. \E z, w \in DOMAIN t : z < w /\ t[z] = Heard[X[i]][1] /\ t[w] = Heard[X[j]][1]
    BY <1>2, <1>3, <2>3
  <2> HIDE DEF t
  <2>5. PICK z, w \in DOMAIN t : z < w /\ t[z] = Heard[X[i]][1] /\ t[w] = Heard[X[j]][1]
    BY <2>4
  <2>6. t[z] \in Kind("output") /\ t[w] \in Kind("output") /\ t[z].id = t[w].id
    BY <1>3, <2>2, <2>5 DEF Outspoken
  <2>7. z = w
    BY <1>1, <2>6, TwoPicked
  <2>8. z \in Nat
    BY <1>1, SeqFacts
  <2>9. QED BY <2>5, <2>7, <2>8
<1>4. \A i \in DOMAIN X : i \in Nat
  BY SeqFacts
<1>5. ASSUME NEW i \in DOMAIN X, NEW j \in DOMAIN X, X[i].role = "tool", X[j].role = "tool",
             X[i].items[1].id = X[j].items[1].id
      PROVE  i = j
  <2>1. ~(i < j) /\ ~(j < i)
    BY <1>3, <1>5
  <2>2. QED BY <1>4, <2>1
<1>6. QED BY <1>5 DEF Once

------------------------------------------------------------------------------
(* A history whose calls are distinct is accepted.                         *)

LEMMA ReplayedAccepted ==
  ASSUME NEW messages \in Seq(Talk), NEW O \in Seq(Items), NoDuplicateCallOutputs(Ids(O)),
         IdSet(O) \subseteq UNION {IdSet(ToolCalls(messages[i])) : i \in DOMAIN messages},
         Once(Told(Replaying(O), messages))
  PROVE  RepairStatelessHistory(messages, O) = Accepted(Told(Replaying(O), messages))
<1> DEFINE g == Replaying(O)
           R == FlattenSeq([i \in DOMAIN messages |-> <<messages[i]>> \o Replay(messages[i], O)])
<1>1. R = Told(g, messages)
  <2>1. \A i \in DOMAIN messages : messages[i] \in Talk
    BY SeqFacts
  <2>2. \A i \in DOMAIN messages : g[messages[i]] = <<messages[i]>> \o Replay(messages[i], O)
    BY <2>1 DEF Replaying
  <2> HIDE DEF g
  <2>3. Mapped(g, messages) = [i \in DOMAIN messages |-> <<messages[i]>> \o Replay(messages[i], O)]
    BY <2>2 DEF Mapped
  <2>4. QED BY <2>3 DEF Told
<1>2. R \in Seq(Msg) /\ Behind(R)
  BY ReplayedBehind
<1>3. ValidChatToolHistory(R) => RepairStatelessHistory(messages, O) = Accepted(R)
  BY DEF RepairStatelessHistory
<1> HIDE DEF R
<1>4. Once(R)
  BY <1>1
<1>5. ValidChatToolHistory(R)
  BY <1>2, <1>4, SoundIsValid
<1>6. QED BY <1>1, <1>3, <1>5

LEMMA RepliesOutspoken ==
  ASSUME NEW O \in Seq(Kind("output")), NEW m \in Talk
  PROVE  Replay(m, O) \in Seq(Msg) /\ Outspoken(Replay(m, O))
<1> DEFINE f == RepliesFor(O)
           s == ToolCalls(m)
<1>1. O \in Seq(Items) /\ \A k \in DOMAIN O : O[k] \in Kind("output")
  BY KindSeq
<1>2. Replay(m, O) \in Seq(Msg) /\ s \in Seq(Items) /\ Replay(m, O) = Told(f, s)
  BY <1>1, ReplayTold
<1>3. Tells(f, Items, Msg)
  BY <1>1, AnsweringIs
<1>4. ASSUME NEW c \in Items, NEW j \in DOMAIN f[c]
      PROVE  1 \in DOMAIN f[c][j].items /\ f[c][j].items[1] \in Kind("output")
  <2> DEFINE P == Picked(O, {o \in ToSet(O) : o.id = c.id})
  <2>1. f[c] = ToolMessages(P)
    BY DEF RepliesFor
  <2>2. P \in Seq(Kind("output")) /\ P \in Seq(Items)
    BY <1>1, PickedFacts
  <2> HIDE DEF P, f
  <2>3. j \in DOMAIN P /\ f[c][j] = Message("tool", <<P[j]>>)
    BY <2>1, <2>2 DEF ToolMessages
  <2>4. P[j] \in Kind("output")
    BY <2>2, <2>3, KindSeq
  <2>5. f[c][j].items = <<P[j]>>
    BY <2>3 DEF Message
  <2>6. QED BY <2>4, <2>5
<1> HIDE DEF f, s
<1>5. ASSUME NEW i \in DOMAIN Told(f, s)
      PROVE  1 \in DOMAIN Told(f, s)[i].items /\ Told(f, s)[i].items[1] \in Kind("output")
  <2>1. \E k \in DOMAIN s : \E j \in DOMAIN f[s[k]] : Told(f, s)[i] = f[s[k]][j]
    BY <1>2, <1>3, ToldMembers
  <2>2. PICK k \in DOMAIN s : \E j \in DOMAIN f[s[k]] : Told(f, s)[i] = f[s[k]][j]
    BY <2>1
  <2>3. s[k] \in Items
    BY <1>2, SeqFacts
  <2>4. QED BY <1>4, <2>2, <2>3
<1>6. QED BY <1>2, <1>5 DEF Outspoken

LEMMA ReplayedOutspoken ==
  ASSUME NEW messages \in Seq(Talk), NEW O \in Seq(Kind("output"))
  PROVE  Outspoken(Told(Replaying(O), messages))
<1> DEFINE g == Replaying(O)
           R == Told(g, messages)
<1>1. O \in Seq(Items)
  BY KindSeq
<1>2. Tells(g, Talk, Msg)
  BY <1>1, ReplayingTells
<1>3. ASSUME NEW m \in Talk PROVE Outspoken(g[m])
  <2> DEFINE r == Replay(m, O)
  <2>1. g[m] = <<m>> \o r
    BY DEF Replaying
  <2>2. r \in Seq(Msg) /\ Outspoken(r)
    BY RepliesOutspoken
  <2> HIDE DEF r, g
  <2>3. m \in Msg /\ m.role # "tool"
    BY DEF Talk
  <2>4. /\ DOMAIN g[m] = 1..(1 + Len(r)) /\ Len(r) \in Nat /\ DOMAIN r = 1..Len(r)
        /\ g[m][1] = m /\ \A k \in 1..Len(r) : g[m][1 + k] = r[k]
    <3>1. <<m>> \in Seq(Msg) /\ Len(<<m>>) = 1 /\ <<m>>[1] = m
      BY <2>3, SingleIs
    <3> DEFINE a == <<m>>
    <3> HIDE DEF a
    <3>2. a \in Seq(Msg) /\ Len(a) = 1 /\ a[1] = m
      BY <3>1 DEF a
    <3>3. /\ DOMAIN (a \o r) = 1..(Len(a) + Len(r)) /\ Len(r) \in Nat /\ DOMAIN r = 1..Len(r)
          /\ \A k \in 1..Len(a) : (a \o r)[k] = a[k]
          /\ \A k \in 1..Len(r) : (a \o r)[Len(a) + k] = r[k]
      <4>1. r \in Seq(Msg) /\ a \in Seq(Msg)
        BY <2>2, <3>2
      <4>2. \A u, v \in Seq(Msg) :
              /\ DOMAIN (u \o v) = 1..(Len(u) + Len(v)) /\ Len(v) \in Nat /\ DOMAIN v = 1..Len(v)
              /\ \A k \in 1..Len(u) : (u \o v)[k] = u[k]
              /\ \A k \in 1..Len(v) : (u \o v)[Len(u) + k] = v[k]
        BY JoinFacts
      <4>3. QED BY <4>1, <4>2
    <3>4. g[m] = a \o r
      BY <2>1 DEF a
    <3>5. QED BY <3>2, <3>3, <3>4
  <2>5. ASSUME NEW i \in DOMAIN g[m], g[m][i].role = "tool"
        PROVE  1 \in DOMAIN g[m][i].items /\ g[m][i].items[1] \in Kind("output")
    <3>1. i # 1
      BY <2>3, <2>4, <2>5
    <3>2. i - 1 \in DOMAIN r /\ 1 + (i - 1) = i
      BY <2>4, <3>1
    <3>3. g[m][i] = r[i - 1]
      BY <2>4, <3>2
    <3>4. QED BY <2>2, <2>5, <3>2, <3>3 DEF Outspoken
  <2>6. QED BY <2>5 DEF Outspoken
<1> HIDE DEF g
<1>4. ASSUME NEW i \in DOMAIN R, R[i].role = "tool"
      PROVE  1 \in DOMAIN R[i].items /\ R[i].items[1] \in Kind("output")
  <2>1. \E k \in DOMAIN messages : \E j \in DOMAIN g[messages[k]] : R[i] = g[messages[k]][j]
    BY <1>2, ToldMembers
  <2>2. PICK k \in DOMAIN messages : \E j \in DOMAIN g[messages[k]] : R[i] = g[messages[k]][j]
    BY <2>1
  <2>3. messages[k] \in Talk
    BY SeqFacts
  <2>4. Outspoken(g[messages[k]])
    BY <1>3, <2>3
  <2>5. QED BY <1>4, <2>2, <2>4 DEF Outspoken
<1>5. QED BY <1>4 DEF Outspoken, g

LEMMA PickedJoin ==
  ASSUME NEW a \in Seq(Items), NEW b \in Seq(Items), NEW S
  PROVE  Picked(a \o b, S) = Picked(a, S) \o Picked(b, S)
<1>1. \A t \in Seq(Items) : Picked(a \o t, S) = Picked(a, S) \o Picked(t, S)
  BY PickedConcat
<1>2. QED BY <1>1

(* Of the calls of a piece each is answered once.                          *)
LEMMA PieceDistinct ==
  ASSUME NEW p \in Piece
  PROVE  Distinct(OutsOf(p))
<1> DEFINE s == p.calls
           r == Picked(s, p.answered)
<1>1. s \in Seq(Kind("call")) /\ s \in Seq(Items) /\ p.tag \in Numbers /\ Distinct(s)
  BY PieceIs DEF Distinct
<1>2. OutsOf(p) = Outputs(r, p.tag)
  BY <1>1, OutputsTold DEF OutsOf
<1> HIDE DEF s
<1>3. r \in Seq(Items) /\ Distinct(r)
  BY <1>1, PickedFacts, DistinctPicked
<1> HIDE DEF r
<1>4. /\ DOMAIN Outputs(r, p.tag) = DOMAIN r
      /\ \A i \in DOMAIN r : Outputs(r, p.tag)[i].id = r[i].id
  <2>1. \A n : /\ DOMAIN Outputs(r, n) = DOMAIN r
               /\ \A i \in DOMAIN r : Outputs(r, n)[i] = Item("output", r[i].id, n)
    BY <1>3, OutputsAre
  <2>2. ASSUME NEW i \in DOMAIN r PROVE Outputs(r, p.tag)[i].id = r[i].id
    <3>1. Outputs(r, p.tag)[i] = Item("output", r[i].id, p.tag)
      BY <2>1
    <3>2. \A id, n : Item("output", id, n).id = id
      BY DEF Item
    <3>3. QED BY <3>1, <3>2
  <2>3. QED BY <2>1, <2>2
<1>5. OutsOf(p) \in Seq(Items)
  BY PieceIs
<1>6. \A i, j \in DOMAIN OutsOf(p) : OutsOf(p)[i].id = OutsOf(p)[j].id => i = j
  BY <1>2, <1>3, <1>4, DistinctIs
<1>7. QED BY <1>5, <1>6, DistinctIs

LEMMA PartsPicked ==
  ASSUME NEW p \in Piece
  PROVE  Picked(Parts[p], Kind("output")) = OutsOf(p)
<1> DEFINE a == p.calls
           o == OutsOf(p)
           d == p.plain
           O == Kind("output")
<1>1. Parts[p] = (a \o o) \o d
  BY DEF Parts
<1>2. /\ a \in Seq(Items) /\ o \in Seq(Items) /\ d \in Seq(Items) /\ a \o o \in Seq(Items)
      /\ a \in Seq(Kind("call")) /\ o \in Seq(Kind("output")) /\ d \in Seq(Plain)
  BY PieceIs
<1> HIDE DEF a, o, d
<1>3. /\ \A i \in DOMAIN a : a[i] \notin O
      /\ \A i \in DOMAIN o : o[i] \in O
      /\ \A i \in DOMAIN d : d[i] \notin O
  <2>1. \A i \in DOMAIN a : a[i].kind = "call"
    BY <1>2, KindSeq
  <2>2. \A i \in DOMAIN o : o[i] \in O
    BY <1>2, KindSeq
  <2>3. \A i \in DOMAIN d : d[i] \in Plain
    BY <1>2, SeqFacts
  <2>4. QED BY <2>1, <2>2, <2>3 DEF Plain, Kind
<1> HIDE DEF O
<1>4. Picked(a, O) = <<>> /\ Picked(o, O) = o /\ Picked(d, O) = <<>>
  BY <1>2, <1>3, PickedWhole
<1>5. Picked(a \o o, O) = <<>> \o o
  <2>1. Picked(a \o o, O) = Picked(a, O) \o Picked(o, O)
    BY <1>2, PickedJoin
  <2>2. QED BY <1>4, <2>1
<1>6. <<>> \o o = o /\ o \o <<>> = o
  BY <1>2, ConcatEmptySeq
<1>7. Picked((a \o o) \o d, O) = Picked(a \o o, O) \o Picked(d, O)
  <2> DEFINE e == a \o o
  <2>1. e \in Seq(Items)
    BY <1>2
  <2> HIDE DEF e
  <2>2. \A s \in Seq(Items) : \A S : Picked(e \o s, S) = Picked(e, S) \o Picked(s, S)
    BY <2>1, PickedJoin
  <2>3. Picked(e \o d, O) = Picked(e, O) \o Picked(d, O)
    BY <1>2, <2>2
  <2>4. QED BY <2>3 DEF e
<1>8. QED BY <1>1, <1>4, <1>5, <1>6, <1>7 DEF o, O

(* If no id is called twice in a conversation, none is answered twice.     *)
LEMMA PieceAnswersNew ==
  ASSUME NEW t, Whole(t), NEW p \in Piece, Distinct(Picked(t \o Parts[p], Kind("call"))),
         NEW i \in DOMAIN t, t[i].kind = "output", NEW j \in DOMAIN OutsOf(p)
  PROVE  t[i].id # OutsOf(p)[j].id
<1> DEFINE q == Parts[p]
           s == t \o q
<1>1. t \in Seq(Items) /\ \E l \in DOMAIN t : t[l].kind = "call" /\ t[l].id = t[i].id
  BY WholeAnswers
<1>2. PICK l \in DOMAIN t : t[l].kind = "call" /\ t[l].id = t[i].id
  BY <1>1
<1>3. PICK d \in DOMAIN p.calls : OutsOf(p)[j] = Item("output", p.calls[d].id, p.tag)
  BY OutsAre
<1>4. q \in Seq(Items) /\ d \in DOMAIN q /\ q[d] = p.calls[d]
  BY PartsAre
<1>5. p.calls[d] \in Kind("call")
  BY PieceIs, KindSeq
<1>6. Distinct(Picked(s, Kind("call")))
  OBVIOUS
<1> HIDE DEF q
<1>7. /\ s \in Seq(Items) /\ DOMAIN s = 1..(Len(t) + Len(q)) /\ Len(t) \in Nat /\ Len(q) \in Nat
      /\ DOMAIN t = 1..Len(t) /\ DOMAIN q = 1..Len(q)
      /\ \A k \in 1..Len(t) : s[k] = t[k]
      /\ \A k \in 1..Len(q) : s[Len(t) + k] = q[k]
  BY <1>1, <1>4, JoinFacts
<1> HIDE DEF s
<1>8. s[l] = t[l] /\ s[Len(t) + d] = q[d] /\ l \in DOMAIN s /\ Len(t) + d \in DOMAIN s
      /\ l # Len(t) + d
  BY <1>4, <1>7
<1>9. s[l] \in Kind("call") /\ s[Len(t) + d] \in Kind("call")
  <2>1. t[l] \in Items
    BY <1>1, SeqFacts
  <2>2. QED BY <1>2, <1>4, <1>5, <1>8, <2>1 DEF Kind
<1>10. SUFFICES ASSUME t[i].id = OutsOf(p)[j].id PROVE FALSE
  OBVIOUS
<1>11. s[l].id = s[Len(t) + d].id
  BY <1>2, <1>3, <1>4, <1>8, <1>10 DEF Item
<1>12. l = Len(t) + d
  BY <1>6, <1>7, <1>8, <1>9, <1>11, TwoPicked
<1>13. QED BY <1>8, <1>12

LEMMA OutputsDistinct ==
  \A B \in Seq(Piece) : Distinct(Picked(Told(Parts, B), Kind("call"))) =>
    Distinct(Picked(Told(Parts, B), Kind("output")))
<1> DEFINE C == Kind("call")
           O == Kind("output")
           P == {B \in Seq(Piece) : Distinct(Picked(Told(Parts, B), C)) =>
                                      Distinct(Picked(Told(Parts, B), O))}
<1>1. /\ Told(Parts, <<>>) = <<>>
      /\ \A B \in Seq(Piece), p \in Piece : Told(Parts, Append(B, p)) = Told(Parts, B) \o Parts[p]
  BY PartsTell, ToldFacts
<1>2. <<>> \in P
  <2>1. Picked(<<>>, O) = <<>>
    BY PickedEmpty
  <2>2. Distinct(<<>>)
    BY DEF Distinct, NoDuplicateCallOutputs, Ids
  <2>3. QED BY <1>1, <2>1, <2>2
<1>3. ASSUME NEW B \in Seq(Piece), NEW p \in Piece, B \in P PROVE Append(B, p) \in P
  <2> DEFINE t == Told(Parts, B)
             q == Parts[p]
             o == OutsOf(p)
             a == Picked(t, O)
  <2>1. t \in Seq(Items) /\ q \in Seq(Items) /\ o \in Seq(Items) /\ Whole(t)
    BY WholeItems, PartsAre, PieceIs DEF Whole
  <2>2. Picked(q, O) = o /\ Distinct(o)
    BY PartsPicked, PieceDistinct
  <2>3. ASSUME Distinct(Picked(t \o q, C)), NEW i \in DOMAIN t, t[i].kind = "output",
               NEW j \in DOMAIN o
        PROVE  t[i].id # o[j].id
    BY <2>1, <2>3, PieceAnswersNew
  <2>4. Told(Parts, Append(B, p)) = t \o q
    BY <1>1
  <2>5. Distinct(Picked(t, C)) => Distinct(a)
    BY <1>3
  <2> HIDE DEF t, q, o
  <2>6. ASSUME Distinct(Picked(t \o q, C)) PROVE Distinct(Picked(t \o q, O))
    <3>1. Picked(t \o q, C) = Picked(t, C) \o Picked(q, C)
      BY <2>1, PickedJoin
    <3>2. Picked(t \o q, O) = a \o o
      <4>1. Picked(t \o q, O) = Picked(t, O) \o Picked(q, O)
        BY <2>1, PickedJoin
      <4>2. QED BY <2>2, <4>1
    <3>3. Picked(t, C) \in Seq(Items) /\ Picked(q, C) \in Seq(Items)
      BY <2>1, PickedFacts
    <3>4. Distinct(Picked(t, C))
      BY <2>6, <3>1, <3>3, DistinctJoin
    <3>5. /\ a \in Seq(Items)
          /\ \A i \in DOMAIN a : a[i] \in O /\ \E k \in DOMAIN t : t[k] = a[i]
      BY <2>1, PickedFacts
    <3> HIDE DEF a
    <3>6. \A i \in DOMAIN a : \E k \in DOMAIN t : t[k] = a[i] /\ t[k].kind = "output"
      BY <3>5 DEF Kind
    <3>7. \A i \in DOMAIN a : \A j \in DOMAIN o : a[i].id # o[j].id
      BY <2>3, <2>6, <3>6
    <3>8. Distinct(a \o o)
      BY <2>1, <2>2, <2>5, <3>4, <3>5, <3>7, DistinctJoin
    <3>9. QED BY <3>2, <3>8
  <2>7. Append(B, p) \in Seq(Piece)
    BY AppendProperties
  <2>8. QED BY <2>4, <2>6, <2>7
<1> HIDE DEF P
<1>4. Seq(Piece) \subseteq P
  BY <1>2, <1>3, SeqInduction
<1>5. QED BY <1>4 DEF P

(* If no id is called twice, no two pieces make the call of an output.     *)
LEMMA CalledTwice ==
  ASSUME NEW B \in Seq(Piece), Distinct(Picked(Told(Parts, B), Kind("call"))),
         NEW k \in DOMAIN B, NEW l \in DOMAIN B,
         NEW c \in DOMAIN B[k].calls, NEW d \in DOMAIN B[l].calls,
         B[k].calls[c].id = B[l].calls[d].id
  PROVE  ~(k < l)
<1> DEFINE s == Told(Parts, B)
<1>1. B[k] \in Piece /\ B[l] \in Piece
  BY SeqFacts
<1>2. /\ c \in DOMAIN Parts[B[k]] /\ Parts[B[k]][c] = B[k].calls[c]
      /\ d \in DOMAIN Parts[B[l]] /\ Parts[B[l]][d] = B[l].calls[d]
  BY <1>1, PartsAre
<1>3. B[k].calls[c] \in Kind("call") /\ B[l].calls[d] \in Kind("call")
  BY <1>1, PieceIs, KindSeq
<1>4. SUFFICES ASSUME k < l PROVE FALSE
  OBVIOUS
<1>5. \A r \in Seq(Piece) : \A a, b \in DOMAIN r : a < b =>
        \A u \in DOMAIN Parts[r[a]] : \A v \in DOMAIN Parts[r[b]] :
          \E z, w \in DOMAIN Told(Parts, r) :
            z < w /\ Told(Parts, r)[z] = Parts[r[a]][u] /\ Told(Parts, r)[w] = Parts[r[b]][v]
  BY PartsTell, ToldOrder
<1>6. s \in Seq(Items) /\ Distinct(Picked(s, Kind("call")))
  BY WholeItems
<1>7. \E z, w \in DOMAIN s : z < w /\ s[z] = Parts[B[k]][c] /\ s[w] = Parts[B[l]][d]
  BY <1>2, <1>4, <1>5
<1> HIDE DEF s
<1>8. PICK z, w \in DOMAIN s : z < w /\ s[z] = Parts[B[k]][c] /\ s[w] = Parts[B[l]][d]
  BY <1>7
<1>9. s[z] \in Kind("call") /\ s[w] \in Kind("call") /\ s[z].id = s[w].id
  BY <1>2, <1>3, <1>8
<1>10. z = w
  BY <1>6, <1>9, TwoPicked
<1>11. z \in Nat
  BY <1>6, SeqFacts
<1>12. QED BY <1>8, <1>10, <1>11

LEMMA CallsApart ==
  ASSUME NEW B \in Seq(Piece), Distinct(Picked(Told(Parts, B), Kind("call"))), NEW O
  PROVE  Apart(B, O)
<1>1. ASSUME NEW id, NEW k \in DOMAIN B, NEW l \in DOMAIN B, Makes(B[k], id), Makes(B[l], id)
      PROVE  k = l
  <2>1. PICK c \in DOMAIN B[k].calls : B[k].calls[c].id = id
    BY <1>1 DEF Makes
  <2>2. PICK d \in DOMAIN B[l].calls : B[l].calls[d].id = id
    BY <1>1 DEF Makes
  <2>3. ~(k < l) /\ ~(l < k)
    BY <2>1, <2>2, CalledTwice
  <2>4. k \in Nat /\ l \in Nat
    BY SeqFacts
  <2>5. QED BY <2>3, <2>4
<1>2. QED BY <1>1 DEF Apart

(* The outputs of a conversation answer calls of its messages.             *)
LEMMA OutputsCalled ==
  ASSUME NEW B \in Seq(Piece), NEW c \in Seq(Talk)
  PROVE  LET messages == c \o Told(MessagesOf, B)
             O == Picked(Told(Parts, B), Kind("output"))
         IN  IdSet(O) \subseteq UNION {IdSet(ToolCalls(messages[i])) : i \in DOMAIN messages}
<1> DEFINE M == Told(MessagesOf, B)
           t == Told(Parts, B)
           O == Picked(t, Kind("output"))
           messages == c \o M
<1>1. /\ t \in Seq(Items)
      /\ \A i \in DOMAIN t : t[i].kind = "output" =>
           \E k \in DOMAIN B : \E o \in DOMAIN OutsOf(B[k]) : t[i] = OutsOf(B[k])[o]
  BY WholeItems
<1>2. M \in Seq(Talk)
  BY PartsTell, ToldFacts
<1>3. \A k \in DOMAIN B : \A x \in DOMAIN MessagesOf[B[k]] :
        \E z \in DOMAIN M : M[z] = MessagesOf[B[k]][x]
  <2>1. \A s \in Seq(Piece) : \A i \in DOMAIN s : \A x \in DOMAIN MessagesOf[s[i]] :
          \E z \in DOMAIN Told(MessagesOf, s) : Told(MessagesOf, s)[z] = MessagesOf[s[i]][x]
    BY PartsTell, ToldOrder
  <2>2. QED BY <2>1
<1> HIDE DEF t, M
<1>4. /\ O \in Seq(Items)
      /\ \A i \in DOMAIN O : O[i] \in Kind("output") /\ \E k \in DOMAIN t : t[k] = O[i]
  BY <1>1, PickedFacts
<1> HIDE DEF O
<1>5. /\ DOMAIN messages = 1..(Len(c) + Len(M)) /\ Len(c) \in Nat /\ Len(M) \in Nat
      /\ DOMAIN M = 1..Len(M) /\ \A k \in 1..Len(M) : messages[Len(c) + k] = M[k]
  BY <1>2, JoinFacts
<1> HIDE DEF messages
<1>6. ASSUME NEW i \in DOMAIN O
      PROVE  \E j \in DOMAIN messages : O[i].id \in IdSet(ToolCalls(messages[j]))
  <2>1. PICK h \in DOMAIN t : t[h] = O[i]
    BY <1>4
  <2>2. t[h].kind = "output"
    BY <1>4, <2>1 DEF Kind
  <2>3. PICK k \in DOMAIN B : \E o \in DOMAIN OutsOf(B[k]) : t[h] = OutsOf(B[k])[o]
    BY <1>1, <2>2
  <2>4. B[k] \in Piece
    BY SeqFacts
  <2> DEFINE p == B[k]
             a == p.calls
  <2>5. PICK o \in DOMAIN OutsOf(p) : t[h] = OutsOf(p)[o]
    BY <2>3
  <2>6. PICK e \in DOMAIN a : OutsOf(p)[o] = Item("output", a[e].id, p.tag)
    BY <2>4, OutsAre
  <2>7. O[i].id = a[e].id
    BY <2>1, <2>5, <2>6 DEF Item
  <2>8. a \in Seq(Kind("call")) /\ a # <<>>
    <3>1. a \in Seq(Kind("call"))
      BY <2>4, PieceIs
    <3>2. DOMAIN <<>> = {}
      OBVIOUS
    <3>3. QED BY <2>6, <3>1, <3>2
  <2>9. 1 \in DOMAIN MessagesOf[p] /\ MessagesOf[p][1] = Message("assistant", a)
    <3> DEFINE m == Message("assistant", a)
               f == Told(Alone, p.plain)
    <3>1. m \in Talk
      BY <2>8, CallsOf
    <3>2. f \in Seq(Talk)
      BY <2>4, PieceIs, PlainHeard
    <3>3. MessagesOf[p] = <<m>> \o f
      BY <2>4, <2>8 DEF MessagesOf
    <3> HIDE DEF m, f
    <3>4. <<m>> \in Seq(Talk) /\ Len(<<m>>) = 1 /\ <<m>>[1] = m
      BY <3>1, SingleIs
    <3> DEFINE q == <<m>>
    <3>5. q \in Seq(Talk) /\ Len(q) = 1 /\ q[1] = m
      BY <3>4
    <3> HIDE DEF q
    <3>6. /\ DOMAIN (q \o f) = 1..(Len(q) + Len(f)) /\ Len(f) \in Nat
          /\ \A z \in 1..Len(q) : (q \o f)[z] = q[z]
      <4>1. \A u, v \in Seq(Talk) :
              /\ DOMAIN (u \o v) = 1..(Len(u) + Len(v)) /\ Len(v) \in Nat
              /\ \A z \in 1..Len(u) : (u \o v)[z] = u[z]
        BY JoinFacts
      <4>2. QED BY <3>2, <3>5, <4>1
    <3>7. 1 \in DOMAIN (q \o f) /\ (q \o f)[1] = m
      BY <3>5, <3>6
    <3>8. QED BY <3>3, <3>7 DEF q, m
  <2>10. ToolCalls(Message("assistant", a)) = a
    BY <2>8, CallsOf
  <2>11. PICK z \in DOMAIN M : M[z] = Message("assistant", a)
    BY <1>3, <2>9
  <2>12. Len(c) + z \in DOMAIN messages /\ messages[Len(c) + z] = M[z]
    BY <1>5
  <2>13. a[e].id \in IdSet(a)
    BY DEF IdSet
  <2>14. a[e].id \in IdSet(ToolCalls(messages[Len(c) + z]))
    BY <2>10, <2>11, <2>12, <2>13
  <2>15. QED BY <2>7, <2>12, <2>14
<1>7. IdSet(O) \subseteq UNION {IdSet(ToolCalls(messages[i])) : i \in DOMAIN messages}
  <2>1. \A x \in IdSet(O) : \E i \in DOMAIN O : x = O[i].id
    BY DEF IdSet
  <2>2. QED BY <1>6, <2>1
<1>8. QED BY <1>7 DEF messages, O, t, M

(* A whole history in which no id is called twice is accepted.             *)
LEMMA HistoryAccepted ==
  ASSUME NEW sys \in Instruction, NEW body \in ClientBody, body.instructions = <<sys>>,
         Whole(body.input), Distinct(Picked(body.input, Kind("call"))),
         Picked(body.input, Kind("output")) # <<>>
  PROVE  BuildChatPayload(body, <<>>).ok
<1>1. PICK B \in Seq(Piece) : body.input = Told(Parts, B)
  BY DEF Whole
<1> DEFINE t == Told(Parts, B)
           O == Picked(t, Kind("output"))
           c == <<Message("system", <<sys>>)>>
           messages == c \o Told(MessagesOf, B)
           R == Told(Replaying(O), messages)
           x == ExtractRequest(body.instructions \o body.input)
<1>2. Distinct(O) /\ Apart(B, O)
  BY <1>1, OutputsDistinct, CallsApart
<1>3. t \in Seq(Items) /\ O \in Seq(Items) /\ O \in Seq(Kind("output")) /\ O # <<>>
  <2>1. t \in Seq(Items)
    BY WholeItems
  <2> HIDE DEF t
  <2>2. O \in Seq(Items) /\ \A i \in DOMAIN O : O[i] \in Kind("output")
    BY <2>1, PickedFacts
  <2>3. O # <<>>
    BY <1>1 DEF t
  <2> HIDE DEF O
  <2>4. O \in Seq(Kind("output"))
    <3>1. Len(O) \in Nat /\ DOMAIN O = 1..Len(O) /\ O = [i \in 1..Len(O) |-> O[i]]
      BY <2>2, LenProperties, SeqFacts
    <3>2. O \in [1..Len(O) -> Kind("output")]
      BY <2>2, <3>1
    <3>3. QED BY <3>1, <3>2, FunctionIsSeq
  <2>5. QED BY <2>1, <2>2, <2>3, <2>4
<1>4. x.messages = messages /\ x.outputs = O
  BY <1>1, WholeExtracted
<1>5. c \in Seq(Talk)
  BY InstructionIs
<1>6. IdSet(O) \subseteq UNION {IdSet(ToolCalls(messages[i])) : i \in DOMAIN messages}
  BY <1>5, OutputsCalled
<1>7. messages \in Seq(Talk) /\ R \in Seq(Msg) /\ Told(Heard, R) = t
  BY <1>2, <1>3, WholeReplayed DEF Distinct
<1>8. O = Picked(t, Kind("output"))
  OBVIOUS
<1> HIDE DEF x, messages, c, t, O
<1>9. Outspoken(R)
  BY <1>3, <1>7, ReplayedOutspoken
<1> HIDE DEF R
<1>10. Once(R)
  BY <1>2, <1>7, <1>8, <1>9, HeardOnce
<1>11. R # <<>>
  <2>1. Told(Heard, <<>>) = <<>>
    BY HeardTells, ToldFacts
  <2>2. SUFFICES ASSUME R = <<>> PROVE FALSE
    OBVIOUS
  <2>3. t = <<>>
    BY <1>7, <2>1, <2>2
  <2>4. O = <<>>
    BY <1>8, <2>3, PickedEmpty
  <2>5. QED BY <1>3, <2>4
<1>12. RepairStatelessHistory(messages, O) = Accepted(R)
  BY <1>2, <1>3, <1>6, <1>7, <1>10, ReplayedAccepted DEF Distinct, R
<1>13. Merged(body, <<>>) = Accepted(R)
  BY <1>3, <1>4, <1>12 DEF Merged, x
<1>14. Merged(body, <<>>).ok /\ Merged(body, <<>>).messages = R
  BY <1>13 DEF Accepted
<1>15. <<>> \in Seq(Msg) /\ Behind(<<>>)
  BY DEF Behind
<1>16. QED BY <1>10, <1>11, <1>14, <1>15, PayloadAccepted

(* Whoever made the calls of the outputs is the last who made them.        *)
LEMMA AnsweredNever ==
  ASSUME NEW stored \in Seq(Msg), Behind(stored), stored # <<>>,
         Distinct(Picked(Told(Heard, stored), Kind("call"))),
         NEW j \in DOMAIN stored, stored[j].role = "tool",
         MakesCall(stored[Len(stored)], stored[j].items[1].id)
  PROVE  FALSE
<1> DEFINE id == stored[j].items[1].id
           h == Told(Heard, stored)
           n == Len(stored)
<1>1. /\ n \in Nat /\ DOMAIN stored = 1..n /\ \A i \in DOMAIN stored : stored[i] \in Msg
  BY SeqFacts
<1>2. PICK i \in 1..(j - 1) : AnswersAt(stored, i, j)
  BY DEF Behind
<1> DEFINE a == stored[i]
           b == stored[n]
<1>3. i \in DOMAIN stored /\ n \in DOMAIN stored /\ i < n
  BY <1>1
<1>4. a \in Msg /\ b \in Msg /\ MakesCall(a, id) /\ MakesCall(b, id)
  BY <1>1, <1>2, <1>3 DEF AnswersAt
<1> HIDE DEF a, b, n, id
<1>5. \A m \in Msg : MakesCall(m, id) =>
        \E x \in DOMAIN Heard[m] : Heard[m][x] \in Kind("call") /\ Heard[m][x].id = id
  <2> SUFFICES ASSUME NEW m \in Msg, MakesCall(m, id)
               PROVE  \E x \in DOMAIN Heard[m] : Heard[m][x] \in Kind("call") /\ Heard[m][x].id = id
    OBVIOUS
  <2>1. m.role = "assistant" /\ m.items \in Seq(Items)
    BY DEF MakesCall, Msg
  <2>2. Heard[m] = m.items
    BY <2>1 DEF Heard
  <2>3. PICK x \in DOMAIN m.items : m.items[x].kind = "call" /\ m.items[x].id = id
    BY DEF MakesCall
  <2>4. m.items[x] \in Items
    BY <2>1, SeqFacts
  <2>5. m.items[x] \in Kind("call")
    BY <2>3, <2>4 DEF Kind
  <2>6. QED BY <2>2, <2>3, <2>5
<1>6. PICK x \in DOMAIN Heard[a] : Heard[a][x] \in Kind("call") /\ Heard[a][x].id = id
  BY <1>4, <1>5
<1>7. PICK y \in DOMAIN Heard[b] : Heard[b][y] \in Kind("call") /\ Heard[b][y].id = id
  BY <1>4, <1>5
<1>8. \A s \in Seq(Msg) : \A k, l \in DOMAIN s : k < l =>
        \A u \in DOMAIN Heard[s[k]] : \A v \in DOMAIN Heard[s[l]] :
          \E z, w \in DOMAIN Told(Heard, s) :
            z < w /\ Told(Heard, s)[z] = Heard[s[k]][u] /\ Told(Heard, s)[w] = Heard[s[l]][v]
  BY HeardTells, ToldOrder
<1>9. \E z, w \in DOMAIN h : z < w /\ h[z] = Heard[a][x] /\ h[w] = Heard[b][y]
  BY <1>3, <1>8 DEF a, b
<1>10. h \in Seq(Items) /\ Distinct(Picked(h, Kind("call")))
  BY HeardTells, ToldFacts
<1> HIDE DEF h
<1>11. PICK z, w \in DOMAIN h : z < w /\ h[z] = Heard[a][x] /\ h[w] = Heard[b][y]
  BY <1>9
<1>12. z = w
  BY <1>6, <1>7, <1>10, <1>11, TwoPicked
<1>13. z \in Nat
  BY <1>10, SeqFacts
<1>14. QED BY <1>11, <1>12, <1>13

(* The outputs go right behind the stored messages that made their calls.  *)
LEMMA AnswersRepaired ==
  ASSUME NEW stored \in Seq(Msg), stored # <<>>, Behind(stored), Once(stored),
         NEW outs \in Seq(Kind("output")), Distinct(outs),
         \A i \in DOMAIN outs : MakesCall(stored[Len(stored)], outs[i].id),
         Distinct(Picked(Told(Heard, stored), Kind("call")))
  PROVE  LET repaired == stored \o ToolMessages(outs)
         IN  /\ repaired \in Seq(Msg) /\ Once(repaired)
             /\ RepairHistory(stored, outs) = Accepted(repaired)
<1> DEFINE m == stored[Len(stored)]
           tools == ToolMessages(outs)
           repaired == stored \o tools
<1>1. outs \in Seq(Items)
  BY KindSeq
<1>2. m \in Msg
  <2>1. Len(stored) \in Nat /\ DOMAIN stored = 1..Len(stored) /\ Len(stored) # 0
    BY SeqFacts, EmptySeq
  <2>2. Len(stored) \in 1..Len(stored)
    BY <2>1
  <2>3. QED BY <2>2, SeqFacts
<1>3. tools \in Seq(ReplyTo(m))
  BY <1>1, <1>2, ToolMessagesReply
<1>4. /\ tools \in Seq(Msg) /\ DOMAIN tools = DOMAIN outs
      /\ \A i \in DOMAIN outs : tools[i].role = "tool" /\ tools[i].items[1] = outs[i]
  BY <1>1, ToolsHeard
<1>5. repaired \in Seq(Msg) /\ Behind(repaired)
  BY <1>3, BehindReplies
<1> HIDE DEF tools
<1>6. Once(tools)
  <2>1. \A i, j \in DOMAIN outs : outs[i].id = outs[j].id => i = j
    BY <1>1, DistinctIs
  <2>2. QED BY <1>4, <2>1 DEF Once
<1>7. ASSUME NEW i \in DOMAIN stored, NEW j \in DOMAIN tools
      PROVE  ~(/\ stored[i].role = "tool" /\ tools[j].role = "tool"
               /\ stored[i].items[1].id = tools[j].items[1].id)
  <2>1. MakesCall(stored[Len(stored)], tools[j].items[1].id)
    BY <1>4
  <2>2. QED BY <2>1, AnsweredNever
<1>8. Once(repaired)
  BY <1>4, <1>6, <1>7, OnceJoin
<1>9. ValidChatToolHistory(repaired)
  BY <1>5, <1>8, SoundIsValid
<1>10. RepairHistory(stored, outs) = Accepted(repaired)
  BY <1>9 DEF RepairHistory, Distinct, tools
<1>11. QED BY <1>5, <1>8, <1>10 DEF tools

LEMMA AnswerAccepted ==
  ASSUME NEW sys \in Instruction, NEW body \in ClientBody, body.instructions = <<sys>>,
         NEW outs \in Seq(Kind("output")), body.input = outs, outs # <<>>, Distinct(outs),
         NEW stored \in Seq(Msg), stored # <<>>, Behind(stored), Once(stored),
         \A i \in DOMAIN outs : MakesCall(stored[Len(stored)], outs[i].id),
         Distinct(Picked(Told(Heard, stored), Kind("call")))
  PROVE  BuildChatPayload(body, stored).ok
<1> DEFINE x == ExtractRequest(body.instructions \o body.input)
           repaired == stored \o ToolMessages(outs)
           new == NewMessages(body, outs)
<1>1. outs \in Seq(Items) /\ outs \o <<>> = outs
  BY KindSeq, ConcatEmptySeq
<1>2. x.outputs = outs
  <2>1. <<>> \in Seq(Plain) /\ <<>> \in Seq(Items)
    OBVIOUS
  <2>2. <<sys>> \in Seq(Items) /\ Picked(<<sys>> \o (outs \o <<>>), Kind("output")) = outs
    BY <2>1, TurnPicked
  <2>3. <<sys>> \o outs \in Seq(Items)
    BY <1>1, <2>2, ConcatProperties
  <2>4. ExtractRequest(<<sys>> \o outs).outputs = Picked(<<sys>> \o outs, Kind("output"))
    BY <2>3, ExtractRequestIs
  <2>5. QED BY <1>1, <2>2, <2>4
<1>3. repaired \in Seq(Msg) /\ Once(repaired) /\ RepairHistory(stored, outs) = Accepted(repaired)
  BY AnswersRepaired
<1>4. new \in Seq(Talk)
  <2>1. Len(outs) \in Nat /\ DOMAIN outs = 1..Len(outs) /\ Len(outs) # 0
    BY <1>1, SeqFacts, EmptySeq
  <2>2. outs[1].id \in IdSet(outs)
    BY <2>1 DEF IdSet
  <2>3. QED BY <2>2, NewMessagesAre
<1> HIDE DEF x, repaired, new
<1>5. Merged(body, stored) = [Accepted(repaired) EXCEPT !.messages = @ \o new]
  BY <1>2, <1>3 DEF Merged, x, new
<1>6. Merged(body, stored).ok /\ Merged(body, stored).messages = repaired \o new
  BY <1>5 DEF Accepted
<1>7. new \in Seq(Msg) /\ \A j \in DOMAIN new : new[j].role # "tool"
  <2>1. \A j \in DOMAIN new : new[j] \in Talk
    BY <1>4, SeqFacts
  <2>2. QED BY <1>4, <2>1, MessagesAre DEF Talk
<1>8. Once(new)
  BY <1>7 DEF Once
<1>9. Once(repaired \o new)
  BY <1>3, <1>7, <1>8, OnceJoin
<1>10. repaired \o new # <<>>
  <2>1. /\ DOMAIN repaired = 1..(Len(stored) + Len(ToolMessages(outs)))
        /\ Len(stored) \in Nat /\ Len(ToolMessages(outs)) \in Nat
    <3>1. ToolMessages(outs) \in Seq(Msg)
      BY <1>1, ToolsHeard
    <3>2. QED BY <3>1, JoinFacts DEF repaired
  <2>2. Len(stored) # 0
    BY EmptySeq, LenProperties
  <2>3. 1 \in DOMAIN repaired
    BY <2>1, <2>2
  <2>4. 1 \in DOMAIN (repaired \o new)
    <3>1. /\ DOMAIN (repaired \o new) = 1..(Len(repaired) + Len(new))
          /\ Len(repaired) \in Nat /\ Len(new) \in Nat /\ DOMAIN repaired = 1..Len(repaired)
      BY <1>3, <1>7, JoinFacts
    <3>2. QED BY <2>3, <3>1
  <2>5. DOMAIN <<>> = {}
    OBVIOUS
  <2>6. QED BY <2>4, <2>5
<1>11. \A j \in DOMAIN body.input : body.input[j].kind = "output" =>
         MakesCall(stored[Len(stored)], body.input[j].id)
  OBVIOUS
<1>12. QED BY <1>6, <1>9, <1>10, <1>11, PayloadAccepted

------------------------------------------------------------------------------
(* The calls of the last response, and their answers.                      *)

AnswersAll(outs, output, n) ==
  /\ outs = Outputs(output, n) /\ outs \in Seq(Kind("output")) /\ outs # <<>> /\ Distinct(outs)
  /\ DOMAIN outs = DOMAIN output
  /\ \A i \in DOMAIN outs : outs[i].id = output[i].id

LEMMA AllAnswered ==
  ASSUME NEW output \in Seq(Kind("call")), output # <<>>, Distinct(output), NEW n \in Numbers
  PROVE  AnswersAll(Outputs(output, n), output, n)
<1> DEFINE outs == Outputs(output, n)
           C == Kind("call")
<1>1. output \in Seq(Items) /\ \A i \in DOMAIN output : output[i] \in C
  BY KindSeq, SeqFacts
<1>2. outs \in Seq(Kind("output"))
  <2>1. Outputs(Picked(output, C), n) \in Seq(Kind("output"))
    BY ChosenOutputs
  <2> HIDE DEF C
  <2>2. Picked(output, C) = output
    BY <1>1, PickedWhole
  <2>3. QED BY <2>1, <2>2
<1>3. /\ DOMAIN outs = DOMAIN output
      /\ \A i \in DOMAIN output : outs[i] = Item("output", output[i].id, n)
  BY <1>1, OutputsAre
<1>4. \A i \in DOMAIN outs : outs[i].id = output[i].id
  <2>1. \A id, m : Item("output", id, m).id = id
    BY DEF Item
  <2>2. QED BY <1>3, <2>1
<1>5. outs # <<>>
  <2>1. Len(output) \in Nat /\ DOMAIN output = 1..Len(output) /\ Len(output) # 0
    BY <1>1, SeqFacts, EmptySeq
  <2>2. 1 \in DOMAIN outs
    BY <1>3, <2>1
  <2>3. DOMAIN <<>> = {}
    OBVIOUS
  <2>4. QED BY <2>2, <2>3
<1>6. outs \in Seq(Items)
  BY <1>2, KindSeq
<1>7. Distinct(outs)
  <2>1. \A i, j \in DOMAIN output : output[i].id = output[j].id => i = j
    BY <1>1, DistinctIs
  <2> HIDE DEF outs
  <2>2. QED BY <1>3, <1>4, <1>6, <2>1, DistinctIs
<1>8. QED BY <1>2, <1>3, <1>4, <1>5, <1>7 DEF AnswersAll

DueForm(c, t, output) ==
  /\ last[c] \in DOMAIN rows /\ last[c] \in Numbers
  /\ t \in Seq(Items) /\ output \in Seq(Kind("call")) /\ output # <<>> /\ Distinct(output)
  /\ Due(c) = output /\ Answered(c, t, output)

LEMMA DueForms ==
  ASSUME StoreInv, TalkInv, NEW c \in Clients, Due(c) # <<>>
  PROVE  \E t, output : DueForm(c, t, output)
<1> DEFINE L == last[c]
           C == Kind("call")
<1>1. ClientTalk(c)
  BY DEF TalkInv
<1>2. ~(L = 0 /\ said[c] = <<>>)
  BY DueNothing
<1>3. L \in DOMAIN rows /\ \E t \in Seq(Items), output \in Replies(L) : Answered(c, t, output)
  BY <1>1, <1>2 DEF ClientTalk
<1>4. PICK t \in Seq(Items), output \in Replies(L) : Answered(c, t, output)
  BY <1>3
<1>5. L \in Numbers /\ L \in Nat
  <2>1. DOMAIN rows \subseteq DOMAIN askers /\ askers \in Seq(Clients)
    BY DEF StoreInv, TypeOK
  <2>2. DOMAIN askers = 1..Len(askers) /\ Len(askers) \in Nat /\ Len(askers) <= MaxRequests
    BY <2>1, SeqFacts DEF StoreInv
  <2>3. QED BY <1>3, <2>1, <2>2, BoundsAssumption DEF Numbers
<1>6. /\ output \in Seq(Items) /\ \A k \in DOMAIN output : output[k].tag = L
      /\ \/ output = <<Item("text", NoId, L)>> /\ Item("text", NoId, L).kind = "text"
         \/ output \in Seq(C) /\ output # <<>> /\ NoDuplicateCallOutputs(Ids(output))
  BY <1>5, ReplyForms
<1>7. Due(c) = Picked(output, C)
  <2>1. said[c] = t \o output /\ CallsBefore(t, L)
    BY <1>4 DEF Answered
  <2>2. QED BY <1>5, <1>6, <2>1, DueOfReply
<1>8. ~(output = <<Item("text", NoId, L)>> /\ Item("text", NoId, L).kind = "text")
  <2> DEFINE y == Item("text", NoId, L)
  <2> SUFFICES ASSUME output = <<y>>, y.kind = "text" PROVE FALSE
    OBVIOUS
  <2>1. y \notin C
    BY DEF Kind
  <2> HIDE DEF y, C
  <2>2. \A i \in DOMAIN output : output[i] \notin C
    BY <2>1
  <2>3. Picked(output, C) = <<>>
    BY <1>6, <2>2, PickedWhole
  <2>4. QED BY <1>7, <2>3
<1>9. output \in Seq(C) /\ output # <<>> /\ NoDuplicateCallOutputs(Ids(output))
  BY <1>6, <1>8
<1>10. Due(c) = output
  <2>1. \A i \in DOMAIN output : output[i] \in C
    BY <1>9, SeqFacts
  <2> HIDE DEF C
  <2>2. Picked(output, C) = output
    BY <1>6, <2>1, PickedWhole
  <2>3. QED BY <1>7, <2>2
<1>11. DueForm(c, t, output)
  BY <1>3, <1>4, <1>5, <1>9, <1>10 DEF DueForm, Distinct
<1>12. QED BY <1>11

LEMMA FreshIs == StoreInv => Fresh \in Numbers
<1> SUFFICES ASSUME StoreInv PROVE Fresh \in Numbers
  OBVIOUS
<1>1. askers \in Seq(Clients) /\ Len(askers) <= MaxRequests
  BY DEF StoreInv, TypeOK
<1>2. Len(askers) \in Nat
  BY <1>1, SeqFacts
<1>3. QED BY <1>1, <1>2, BoundsAssumption DEF Fresh, Numbers

LEMMA BodyIs ==
  ASSUME NEW n \in Numbers, NEW previous \in 0..MaxRequests, NEW input \in Seq(Items)
  PROVE  /\ Body(n, previous, input) \in ClientBody
         /\ Body(n, previous, input).instructions = <<Item("system", NoId, n)>>
         /\ Body(n, previous, input).previous = previous /\ Body(n, previous, input).input = input
         /\ Item("system", NoId, n) \in Instruction
<1> DEFINE sys == Item("system", NoId, n)
           b == Body(n, previous, input)
<1>1. sys \in Instruction
  BY SystemIs
<1>2. sys \in Items /\ sys.kind # "output"
  BY <1>1 DEF Instruction
<1>3. b = [instructions |-> <<sys>>, previous |-> previous, input |-> input]
  BY DEF Body
<1> HIDE DEF sys, b
<1>4. <<sys>> \in Seq(Items)
  BY <1>2
<1>5. b \in RequestBody /\ b.instructions = <<sys>> /\ b.previous = previous /\ b.input = input
  BY <1>3, <1>4 DEF RequestBody
<1>6. b \in ClientBody
  BY <1>2, <1>5 DEF ClientBody
<1>7. QED BY <1>1, <1>5, <1>6 DEF sys, b

(* With the id of the last response.                                       *)
LEMMA AnswerOk ==
  ASSUME StoreInv, NEW c \in Clients, NEW t, NEW output, DueForm(c, t, output),
         Live(last[c]), ~RepeatsCallId(Spoken(rows[last[c]].messages))
  PROVE  Prepare(Answer(c)).ok
<1> DEFINE n == Fresh
           L == last[c]
           outs == Outputs(output, n)
           body == Answer(c)
           stored == rows[L].messages
           sys == Item("system", NoId, n)
<1>1. n \in Numbers
  BY FreshIs
<1>2. /\ L \in DOMAIN rows /\ L \in Numbers /\ output \in Seq(Kind("call"))
      /\ output # <<>> /\ Distinct(output) /\ Due(c) = output
      /\ rows[L].pending = PendingCallIds(output)
  BY DEF DueForm, Answered
<1>3. AnswersAll(outs, output, n)
  BY <1>1, <1>2, AllAnswered
<1>4. body = Body(n, L, outs)
  BY <1>2 DEF Answer
<1>5. L \in 0..MaxRequests /\ L # 0
  BY <1>2 DEF StoreInv, TypeOK, Numbers
<1> HIDE DEF n, outs, body
<1>6. /\ outs \in Seq(Kind("output")) /\ outs # <<>> /\ Distinct(outs)
      /\ DOMAIN outs = DOMAIN output /\ \A i \in DOMAIN outs : outs[i].id = output[i].id
  BY <1>3 DEF AnswersAll
<1>7. outs \in Seq(Items)
  BY <1>6, KindSeq
<1>8. /\ body \in ClientBody /\ body.instructions = <<sys>> /\ body.previous = L
      /\ body.input = outs /\ sys \in Instruction
  BY <1>1, <1>4, <1>5, <1>7, BodyIs
<1> HIDE DEF sys
<1>9. OfKind(outs, "output") = outs
  <2>1. <<>> \in Seq(Plain)
    OBVIOUS
  <2>2. OfKind(outs \o <<>>, "output") = outs
    BY <1>6, <2>1, TurnKinds
  <2>3. outs \o <<>> = outs
    BY <1>7, ConcatEmptySeq
  <2>4. QED BY <2>2, <2>3
<1>10. FunctionOutputCallIds(body) = Ids(outs)
  BY <1>5, <1>8, <1>9 DEF FunctionOutputCallIds
<1>11. \A i \in DOMAIN outs : outs[i].id \in ToSet(rows[L].pending)
  <2>1. output \in Seq(Items) /\ \A i \in DOMAIN output : output[i].kind = "call"
    BY <1>2, KindSeq
  <2>2. \A i \in DOMAIN output : output[i].id \in ToSet(rows[L].pending)
    BY <1>2, <2>1, AnswersPending
  <2>3. QED BY <1>6, <2>2
<1>12. ToSet(Ids(outs)) \subseteq ToSet(rows[L].pending)
  <2>1. \A e \in ToSet(Ids(outs)) : \E i \in DOMAIN outs : e = outs[i].id
    BY DEF ToSet, Ids
  <2>2. QED BY <1>11, <2>1
<1>13. PreviousResponse(body).row = L /\ PreviousResponse(body).ok
  <2>1. PreviousResponse(body).row = L
    BY <1>5, <1>8, LastById
  <2>2. NoDuplicateCallOutputs(Ids(outs))
    BY <1>6 DEF Distinct
  <2>3. QED BY <1>5, <1>10, <1>12, <2>1, <2>2 DEF PreviousResponse
<1>14. stored \in Seq(Msg) /\ stored # <<>> /\ Behind(stored) /\ Once(stored)
       /\ \A k \in DOMAIN rows[L].pending :
            MakesCall(stored[Len(stored)], rows[L].pending[k])
  BY <1>2 DEF StoreInv, Sound, EndsWithCalls
<1>15. Distinct(Picked(Told(Heard, stored), Kind("call")))
  <2>1. Spoken(stored) = Told(Heard, stored)
    BY <1>14, SpokenIs
  <2>2. Told(Heard, stored) \in Seq(Items)
    BY <1>14, HeardTells, ToldFacts
  <2>3. OfKind(Told(Heard, stored), "call") = Picked(Told(Heard, stored), Kind("call"))
    BY <2>2, OfKindIs
  <2>4. NoDuplicateCallOutputs(Ids(OfKind(Spoken(stored), "call")))
    BY DEF RepeatsCallId
  <2> HIDE DEF stored
  <2>5. QED BY <2>1, <2>3, <2>4 DEF Distinct
<1>16. \A i \in DOMAIN outs : MakesCall(stored[Len(stored)], outs[i].id)
  <2>1. \A e \in ToSet(rows[L].pending) : \E k \in DOMAIN rows[L].pending : e = rows[L].pending[k]
    BY DEF ToSet
  <2>2. QED BY <1>11, <1>14, <2>1
<1>17. Prepare(body) = BuildChatPayload(body, stored)
  BY <1>5, <1>13 DEF Prepare
<1> HIDE DEF stored
<1>18. BuildChatPayload(body, stored).ok
  BY <1>6, <1>8, <1>14, <1>15, <1>16, AnswerAccepted
<1>19. QED BY <1>17, <1>18 DEF body

(* After the whole history.                                                *)
LEMMA FullAnswerOk ==
  ASSUME StoreInv, NEW c \in Clients, NEW t, NEW output, DueForm(c, t, output),
         ~RepeatsCallId(said[c])
  PROVE  Prepare(FullAnswer(c)).ok
<1> DEFINE n == Fresh
           outs == Outputs(output, n)
           body == FullAnswer(c)
           talk == said[c]
           h == talk \o outs
           C == Kind("call")
           O == Kind("output")
           sys == Item("system", NoId, n)
<1>1. n \in Numbers
  BY FreshIs
<1>2. /\ t \in Seq(Items) /\ Whole(t) /\ output \in Seq(C) /\ output # <<>> /\ Distinct(output)
      /\ Due(c) = output /\ talk = t \o output
  BY DEF DueForm, Answered
<1>3. AnswersAll(outs, output, n)
  BY <1>1, <1>2, AllAnswered
<1>4. body = Body(n, 0, h)
  BY <1>2 DEF FullAnswer
<1>5. talk \in Seq(Items)
  BY DEF StoreInv, TypeOK
<1>6. outs \in Seq(O) /\ outs # <<>> /\ outs \in Seq(Items)
  BY <1>3, KindSeq DEF AnswersAll
<1>7. Whole(h)
  <2>1. \A i \in DOMAIN output : output[i] \in C
    BY <1>2, SeqFacts
  <2>2. Picked(output, C) = output
    <3>1. output \in Seq(Items)
      BY <1>2, KindSeq
    <3> HIDE DEF C
    <3>2. QED BY <2>1, <3>1, PickedWhole
  <2>3. <<>> \in Seq(Plain) /\ outs \o <<>> = outs
    BY <1>6, ConcatEmptySeq
  <2>4. Whole((t \o output) \o (Outputs(Picked(output, C), n) \o <<>>))
    <3>1. Outputs(Picked(output, C), n) # <<>>
      BY <1>6, <2>2
    <3>2. QED BY <1>1, <1>2, <2>3, <3>1, WholeCalls DEF Distinct
  <2>5. QED BY <1>2, <2>2, <2>3, <2>4
<1> HIDE DEF outs, n, body
<1>8. Picked(h, C) = Picked(talk, C) /\ Picked(h, O) # <<>>
  <2>1. \A i \in DOMAIN outs : outs[i] \in O /\ outs[i] \notin C
    BY <1>6, SeqFacts DEF Kind
  <2> HIDE DEF talk, C, O
  <2>2. Picked(outs, C) = <<>> /\ Picked(outs, O) = outs
    BY <1>6, <2>1, PickedWhole
  <2>3. Picked(h, C) = Picked(talk, C) \o Picked(outs, C)
    BY <1>5, <1>6, PickedJoin
  <2>4. Picked(h, O) = Picked(talk, O) \o Picked(outs, O)
    BY <1>5, <1>6, PickedJoin
  <2>5. Picked(talk, C) \in Seq(Items) /\ Picked(talk, O) \in Seq(Items)
    BY <1>5, PickedFacts
  <2> DEFINE a == Picked(talk, O)
  <2>6. Picked(talk, C) \o <<>> = Picked(talk, C)
    BY <2>5, ConcatEmptySeq
  <2> HIDE DEF a, h
  <2>7. a \o outs # <<>>
    <3>1. a \in Seq(Items)
      BY <2>5 DEF a
    <3>2. QED BY <1>6, <3>1, ConcatEmptySeq
  <2>8. Picked(h, O) = a \o outs
    BY <2>2, <2>4 DEF a
  <2>9. QED BY <2>2, <2>3, <2>6, <2>7, <2>8
<1>9. Distinct(Picked(talk, C))
  BY <1>5, OfKindIs DEF RepeatsCallId, Distinct
<1>10. h \in Seq(Items)
  BY <1>5, <1>6, ConcatProperties
<1> HIDE DEF talk, h
<1>11. /\ body \in ClientBody /\ body.instructions = <<sys>> /\ body.previous = 0
       /\ body.input = h /\ sys \in Instruction
  <2>1. 0 \in 0..MaxRequests
    BY BoundsAssumption
  <2>2. QED BY <1>1, <1>4, <1>10, <2>1, BodyIs
<1> HIDE DEF sys
<1>12. BuildChatPayload(body, <<>>).ok
  BY <1>7, <1>8, <1>9, <1>11, HistoryAccepted
<1>13. FunctionOutputCallIds(body) = <<>>
  BY <1>7, <1>11, WholeNeedsNoRow
<1>14. PreviousResponse(body).row = 0 /\ PreviousResponse(body).ok
  BY <1>11, <1>13 DEF PreviousResponse, NoDuplicateCallOutputs
<1>15. Prepare(body) = BuildChatPayload(body, <<>>)
  BY <1>14 DEF Prepare
<1>16. QED BY <1>12, <1>15 DEF body

(* Until a response has expired its calls can be answered with its id, and *)
(* at any time with the whole history: previous_response finds the row,    *)
(* and repair_history or repair_stateless_history accepts the outputs,     *)
(* whoever else has used the store, unless the upstream used a call id     *)
(* twice in what is continued.                                             *)
THEOREM CallsAnswered == Spec => []CallsCanBeAnswered
<1>1. StoreInv /\ TalkInv => CallsCanBeAnswered
  <2> SUFFICES ASSUME StoreInv, TalkInv, NEW c \in Clients, Due(c) # <<>>
               PROVE  /\ Live(last[c]) /\ ~RepeatsCallId(Spoken(rows[last[c]].messages))
                           => Prepare(Answer(c)).ok
                      /\ ~RepeatsCallId(said[c]) => Prepare(FullAnswer(c)).ok
    BY DEF CallsCanBeAnswered
  <2>1. PICK t, output : DueForm(c, t, output)
    BY DueForms
  <2>2. ASSUME Live(last[c]), ~RepeatsCallId(Spoken(rows[last[c]].messages))
        PROVE  Prepare(Answer(c)).ok
    BY <2>1, <2>2, AnswerOk
  <2>3. ASSUME ~RepeatsCallId(said[c]) PROVE Prepare(FullAnswer(c)).ok
    BY <2>1, <2>3, FullAnswerOk
  <2>4. QED BY <2>2, <2>3
<1>2. QED BY <1>1, TalkInvariant, PTL
==============================================================================
