--------------------------- MODULE StreamText_proofs ---------------------------
(***************************************************************************)
(* What the events say: the texts of the deltas are the text of the done   *)
(* event, nothing is added to a closed item, and the response that is      *)
(* stored lists what the client saw.  The invariant relates the texts the  *)
(* struct keeps to the deltas it has sent, item by item.                   *)
(***************************************************************************)
EXTENDS StreamRefinement_proofs, FiniteSetTheorems, WellFoundedInduction

------------------------------------------------------------------------------
(* Induction, on a set of numbers.                                         *)

LEMMA SetInduction ==
  ASSUME NEW S, 0 \in S, \A n \in Nat : n \in S => n + 1 \in S
  PROVE  Nat \subseteq S
<1> SUFFICES ASSUME Nat \ S # {} PROVE FALSE
  OBVIOUS
<1> DEFINE R == OpToRel(<, Nat)
           T == Nat \ S
<1>1. IsWellFoundedOn(R, Nat)
  BY NatLessThanWellFounded
<1>2. \A x, y \in Nat : y < x => <<y, x>> \in R
  BY DEF OpToRel
<1> HIDE DEF R
<1>3. T \subseteq Nat /\ T # {}
  OBVIOUS
<1> HIDE DEF T
<1>4. PICK x \in T : \A y \in T : ~ (<<y, x>> \in R)
  BY <1>1, <1>3, WFMin
<1>5. x \in Nat /\ x # 0
  BY DEF T
<1>6. x - 1 \in Nat /\ x - 1 < x
  BY <1>5
<1>7. x - 1 \in S
  BY <1>2, <1>4, <1>5, <1>6 DEF T
<1>8. QED BY <1>4, <1>5, <1>6, <1>7 DEF T

------------------------------------------------------------------------------
(* The concatenation of texts.  Flattening(f, p, n) says that f holds the  *)
(* concatenations of the first 1, .., n texts of p.                        *)

Flattening(f, p, n) == f = [i \in 1..n |-> IF i = 1 THEN p[i] ELSE f[i - 1] \o p[i]]

LEMMA FlatteningAt ==
  ASSUME NEW f, NEW p, NEW n \in Nat, Flattening(f, p, n), NEW i \in 1..n
  PROVE  f[i] = IF i = 1 THEN p[i] ELSE f[i - 1] \o p[i]
BY DEF Flattening

LEMMA FlatteningLast ==
  ASSUME NEW f, NEW p, NEW n \in Nat, Flattening(f, p, n + 1), n # 0
  PROVE  f[n + 1] = f[n] \o p[n + 1]
<1>1. \A i \in 1..(n + 1) : f[i] = IF i = 1 THEN p[i] ELSE f[i - 1] \o p[i]
  BY DEF Flattening
<1>2. PICK m \in 1..(n + 1) : m = n + 1
  OBVIOUS
<1>3. f[m] = IF m = 1 THEN p[m] ELSE f[m - 1] \o p[m]
  BY <1>1
<1>4. m # 1 /\ m - 1 = n
  BY <1>2
<1>5. f[m] = f[n] \o p[m]
  BY <1>3, <1>4
<1>6. QED BY <1>2, <1>5

LEMMA FlatteningExists ==
  ASSUME NEW p
  PROVE  \A n \in Nat : \E f : Flattening(f, p, n)
<1> DEFINE S == {n \in Nat : \E f : Flattening(f, p, n)}
<1>1. 0 \in S
  <2> DEFINE f == [i \in 1..0 |-> p[i]]
  <2>1. Flattening(f, p, 0)
    BY DEF Flattening
  <2>2. QED BY <2>1
<1>2. ASSUME NEW n \in Nat, n \in S PROVE n + 1 \in S
  <2>1. PICK f : Flattening(f, p, n)
    BY <1>2
  <2> DEFINE last == IF n = 0 THEN p[n + 1] ELSE f[n] \o p[n + 1]
             g == [i \in 1..(n + 1) |-> IF i = n + 1 THEN last ELSE f[i]]
  <2>2. \A i \in 1..(n + 1) : g[i] = IF i = 1 THEN p[i] ELSE g[i - 1] \o p[i]
    <3>1. ASSUME NEW i \in 1..n PROVE g[i] = IF i = 1 THEN p[i] ELSE g[i - 1] \o p[i]
      <4>1. g[i] = f[i] /\ (i # 1 => g[i - 1] = f[i - 1])
        BY <3>1
      <4>2. f[i] = IF i = 1 THEN p[i] ELSE f[i - 1] \o p[i]
        BY <2>1, <3>1 DEF Flattening
      <4>3. QED BY <4>1, <4>2
    <3>2. g[n + 1] = last
      OBVIOUS
    <3>3. n # 0 => g[n] = f[n]
      OBVIOUS
    <3>4. n + 1 = 1 <=> n = 0
      OBVIOUS
    <3> HIDE DEF g
    <3>5. g[n + 1] = IF n + 1 = 1 THEN p[n + 1] ELSE g[n + 1 - 1] \o p[n + 1]
      BY <3>2, <3>3, <3>4
    <3>6. QED BY <3>1, <3>5
  <2>3. g = [i \in 1..(n + 1) |-> g[i]]
    OBVIOUS
  <2> HIDE DEF g
  <2>4. Flattening(g, p, n + 1)
    BY <2>2, <2>3 DEF Flattening
  <2>5. QED BY <2>4
<1> HIDE DEF S
<1>3. Nat \subseteq S
  BY <1>1, <1>2, SetInduction
<1>4. QED BY <1>3 DEF S

(* A concatenation depends on the texts it is made of only. *)
LEMMA FlatteningUnique ==
  ASSUME NEW p, NEW q, NEW f, NEW g, NEW m \in Nat, NEW n \in Nat,
         Flattening(f, p, m), Flattening(g, q, n),
         NEW k \in Nat, k <= m, k <= n, \A i \in 1..k : p[i] = q[i]
  PROVE  \A i \in 1..k : f[i] = g[i]
<1> DEFINE S == {i \in Nat : i \in 1..k => f[i] = g[i]}
<1>1. 0 \in S
  OBVIOUS
<1>2. ASSUME NEW i \in Nat, i \in S PROVE i + 1 \in S
  <2> SUFFICES ASSUME i + 1 \in 1..k PROVE f[i + 1] = g[i + 1]
    OBVIOUS
  <2>1. /\ f[i + 1] = IF i + 1 = 1 THEN p[i + 1] ELSE f[i + 1 - 1] \o p[i + 1]
        /\ g[i + 1] = IF i + 1 = 1 THEN q[i + 1] ELSE g[i + 1 - 1] \o q[i + 1]
    <3>1. i + 1 \in 1..m /\ i + 1 \in 1..n
      OBVIOUS
    <3>2. QED BY <3>1, FlatteningAt
  <2>2. i + 1 - 1 = i /\ p[i + 1] = q[i + 1] /\ (i + 1 # 1 => f[i] = g[i])
    BY <1>2
  <2>3. QED BY <2>1, <2>2
<1> HIDE DEF S
<1>3. Nat \subseteq S
  BY <1>1, <1>2, SetInduction
<1>4. QED BY <1>3 DEF S

LEMMA FlattenFacts ==
  ASSUME NEW n \in Nat \ {0}, NEW p, p = [i \in 1..n |-> p[i]]
  PROVE  \E f : Flattening(f, p, n) /\ FlattenSeq(p) = f[n]
<1>1. Len(p) = n
  OBVIOUS
<1> DEFINE F == CHOOSE f : f = [i \in 1..n |-> IF i = 1 THEN p[i] ELSE f[i - 1] \o p[i]]
<1>2. FlattenSeq(p) = F[n]
  BY <1>1 DEF FlattenSeq
<1>3. \E f : f = [i \in 1..n |-> IF i = 1 THEN p[i] ELSE f[i - 1] \o p[i]]
  BY FlatteningExists DEF Flattening
<1>4. Flattening(F, p, n)
  BY <1>3 DEF Flattening
<1> HIDE DEF F
<1>5. QED BY <1>2, <1>4

(* One text more. *)
LEMMA FlattenStep ==
  ASSUME NEW n \in Nat, NEW p \in [1..(n + 1) -> Text]
  PROVE  LET q == [i \in 1..n |-> p[i]] IN
         FlattenSeq(q) \in Text => FlattenSeq(p) = FlattenSeq(q) \o p[n + 1]
<1> DEFINE q == [i \in 1..n |-> p[i]]
<1> SUFFICES ASSUME FlattenSeq(q) \in Text
             PROVE  FlattenSeq(p) = FlattenSeq(q) \o p[n + 1]
  OBVIOUS
<1>1. PICK f : Flattening(f, p, n + 1) /\ FlattenSeq(p) = f[n + 1]
  BY FlattenFacts
<1>2. p[n + 1] \in Text
  OBVIOUS
<1>3. CASE n = 0
  <2>1. q = <<>> /\ Len(q) = 0
    BY <1>3
  <2>2. FlattenSeq(q) = <<>>
    BY <2>1 DEF FlattenSeq
  <2>3. f[n + 1] = p[n + 1]
    BY <1>1, <1>3 DEF Flattening
  <2>4. <<>> \o p[n + 1] = p[n + 1]
    BY <1>2, ConcatEmptySeq DEF Text
  <2>5. QED BY <1>1, <2>2, <2>3, <2>4
<1>4. CASE n # 0
  <2>1. q = [i \in 1..n |-> q[i]] /\ \A i \in 1..n : p[i] = q[i]
    OBVIOUS
  <2> HIDE DEF q
  <2>2. PICK g : Flattening(g, q, n) /\ FlattenSeq(q) = g[n]
    BY <1>4, <2>1, FlattenFacts
  <2>3. \A i \in 1..n : f[i] = g[i]
    BY <1>1, <2>1, <2>2, FlatteningUnique
  <2>4. f[n + 1] = f[n] \o p[n + 1]
    BY <1>1, <1>4, FlatteningLast
  <2>5. n \in 1..n
    BY <1>4
  <2>6. QED BY <1>1, <2>2, <2>3, <2>4, <2>5 DEF q
<1>5. QED BY <1>3, <1>4

LEMMA FlattenEmpty == ASSUME NEW p \in [1..0 -> Text] PROVE FlattenSeq(p) = <<>>
<1>1. p = <<>> /\ Len(p) = 0
  OBVIOUS
<1>2. QED BY <1>1 DEF FlattenSeq

LEMMA FlattenIsText ==
  \A n \in Nat : \A p \in [1..n -> Text] : FlattenSeq(p) \in Text
<1> DEFINE S == {n \in Nat : \A p \in [1..n -> Text] : FlattenSeq(p) \in Text}
<1>1. 0 \in S
  BY FlattenEmpty DEF Text
<1>2. ASSUME NEW n \in Nat, n \in S PROVE n + 1 \in S
  <2> SUFFICES ASSUME NEW p \in [1..(n + 1) -> Text] PROVE FlattenSeq(p) \in Text
    OBVIOUS
  <2> DEFINE q == [i \in 1..n |-> p[i]]
  <2>1. q \in [1..n -> Text] /\ p[n + 1] \in Text
    OBVIOUS
  <2>2. FlattenSeq(q) \in Text
    BY <1>2, <2>1
  <2>3. FlattenSeq(p) = FlattenSeq(q) \o p[n + 1]
    BY <2>2, FlattenStep
  <2> HIDE DEF q
  <2>4. QED BY <2>1, <2>2, <2>3, ConcatIsText
<1> HIDE DEF S
<1>3. Nat \subseteq S
  BY <1>1, <1>2, SetInduction
<1>4. QED BY <1>3 DEF S

(* The texts of a sequence that has grown by one. *)
LEMMA FlattenGrown ==
  ASSUME NEW n \in Nat, NEW p \in [1..(n + 1) -> Text], NEW q \in [1..n -> Text],
         \A i \in 1..n : p[i] = q[i]
  PROVE  FlattenSeq(p) = FlattenSeq(q) \o p[n + 1] /\ FlattenSeq(q) \in Text
<1>1. q = [i \in 1..n |-> p[i]]
  OBVIOUS
<1>2. FlattenSeq(q) \in Text
  BY FlattenIsText
<1>3. QED BY <1>1, <1>2, FlattenStep

LEMMA FlattenBlank ==
  \A n \in Nat : \A p \in [1..n -> {<<>>}] : FlattenSeq(p) = <<>>
<1> DEFINE S == {n \in Nat : \A p \in [1..n -> {<<>>}] : FlattenSeq(p) = <<>>}
<1>0. <<>> \in Text
  BY DEF Text
<1>1. 0 \in S
  <2> SUFFICES ASSUME NEW p \in [1..0 -> {<<>>}] PROVE FlattenSeq(p) = <<>>
    OBVIOUS
  <2>1. p \in [1..0 -> Text]
    BY <1>0
  <2>2. QED BY <2>1, FlattenEmpty
<1>2. ASSUME NEW n \in Nat, n \in S PROVE n + 1 \in S
  <2> SUFFICES ASSUME NEW p \in [1..(n + 1) -> {<<>>}] PROVE FlattenSeq(p) = <<>>
    OBVIOUS
  <2> DEFINE q == [i \in 1..n |-> p[i]]
  <2>1. q \in [1..n -> {<<>>}] /\ p[n + 1] = <<>>
    OBVIOUS
  <2>2. p \in [1..(n + 1) -> Text] /\ q \in [1..n -> Text] /\ \A i \in 1..n : p[i] = q[i]
    BY <1>0
  <2> HIDE DEF q
  <2>3. FlattenSeq(q) = <<>>
    BY <1>2, <2>1
  <2>4. FlattenSeq(p) = <<>> \o <<>>
    BY <2>1, <2>2, <2>3, FlattenGrown
  <2>5. QED BY <1>0, <2>4, ConcatEmptySeq DEF Text
<1> HIDE DEF S
<1>3. Nat \subseteq S
  BY <1>1, <1>2, SetInduction
<1>4. QED BY <1>3 DEF S

------------------------------------------------------------------------------
(* The texts of the deltas among the first n events, and among all.        *)

Upto(out, ix, n) == FlattenSeq([i \in 1..n |-> DeltaText(out[i], ix)])
Spoken(out, ix) == Upto(out, ix, Len(out))

(* A done event tells the text of the deltas before it; a call may have    *)
(* none, and its arguments are made canonical.                             *)
TellsText(e, text) ==
  \/ e.text = text
  \/ e.item.kind = "tool" /\ (text = <<>> \/ e.text = Canonical(text))

DonesExact(out) ==
  \A j \in DOMAIN out : out[j].type = "done" => TellsText(out[j], Upto(out, out[j].ix, j))

(* A delta of an item that was closed before. *)
Late(out, item) ==
  \E i, j \in DOMAIN out :
    /\ i < j /\ out[i].type = "done" /\ out[j].type = "delta"
    /\ out[i].ix = out[j].ix /\ out[i].item = item

LEMMA GrownUpto ==
  ASSUME NEW s, NEW u, NEW e, Grown(s, u, e), NEW ix, NEW n \in DOMAIN s.out
  PROVE  Upto(u.out, ix, n) = Upto(s.out, ix, n)
<1>1. /\ Len(s.out) \in Nat /\ DOMAIN s.out = 1..Len(s.out)
      /\ \A i \in DOMAIN s.out : u.out[i] = s.out[i]
  BY GrownFacts
<1>2. \A i \in 1..n : u.out[i] = s.out[i]
  BY <1>1
<1>3. [i \in 1..n |-> DeltaText(u.out[i], ix)] = [i \in 1..n |-> DeltaText(s.out[i], ix)]
  BY <1>2
<1>4. QED BY <1>3 DEF Upto

LEMMA GrownTexts ==
  ASSUME NEW s, NEW u, NEW e, Grown(s, u, e), NEW ix
  PROVE  /\ Spoken(s.out, ix) \in Text /\ Spoken(u.out, ix) \in Text
         /\ Spoken(u.out, ix) = Upto(u.out, ix, Len(s.out) + 1)
         /\ Spoken(u.out, ix) = IF e.type = "delta" /\ e.ix = ix
                                THEN Spoken(s.out, ix) \o e.text ELSE Spoken(s.out, ix)
<1> DEFINE n == Len(s.out)
           p == [i \in 1..(n + 1) |-> DeltaText(u.out[i], ix)]
           q == [i \in 1..n |-> DeltaText(s.out[i], ix)]
<1>1. /\ n \in Nat /\ DOMAIN s.out = 1..n /\ DOMAIN u.out = 1..(n + 1)
      /\ \A i \in 1..n : u.out[i] = s.out[i] /\ u.out[i] \in Events
      /\ u.out[n + 1] = e /\ e \in Events
  BY GrownFacts DEF Grown
<1>2. Len(u.out) = n + 1
  <2>1. u.out \in Seq(Events)
    BY AppendProperties, OutIsSeq DEF Grown
  <2>2. QED BY <1>1, <2>1, LenProperties
<1>3. Spoken(s.out, ix) = FlattenSeq(q) /\ Spoken(u.out, ix) = FlattenSeq(p)
      /\ Spoken(u.out, ix) = Upto(u.out, ix, n + 1)
  BY <1>2 DEF Spoken, Upto
<1> HIDE DEF n
<1>5. \A ev \in Events : DeltaText(ev, ix) \in Text
  BY DEF DeltaText, Events, Text
<1>6. q \in [1..n -> Text] /\ p \in [1..(n + 1) -> Text] /\ \A i \in 1..n : p[i] = q[i]
  <2>1. \A i \in 1..n : DeltaText(s.out[i], ix) \in Text /\ DeltaText(u.out[i], ix) \in Text
    BY <1>1, <1>5
  <2>2. DeltaText(u.out[n + 1], ix) \in Text
    BY <1>1, <1>5
  <2>3. \A i \in 1..(n + 1) : i \in 1..n \/ i = n + 1
    BY <1>1
  <2>4. \A i \in 1..(n + 1) : DeltaText(u.out[i], ix) \in Text
    BY <2>1, <2>2, <2>3
  <2>5. QED BY <1>1, <2>1, <2>4
<1>7. p[n + 1] = DeltaText(e, ix)
  BY <1>1
<1> HIDE DEF p, q
<1>8. FlattenSeq(p) = FlattenSeq(q) \o p[n + 1] /\ FlattenSeq(q) \in Text
      /\ FlattenSeq(p) \in Text
  <2>1. FlattenSeq(p) = FlattenSeq(q) \o p[n + 1] /\ FlattenSeq(q) \in Text
    BY <1>1, <1>6, FlattenGrown
  <2>2. n + 1 \in Nat
    BY <1>1
  <2>3. FlattenSeq(p) \in Text
    BY <1>6, <2>2, FlattenIsText
  <2>4. QED BY <2>1, <2>3
<1>9. Spoken(u.out, ix) = Spoken(s.out, ix) \o DeltaText(e, ix)
  BY <1>3, <1>7, <1>8
<1>10. Spoken(s.out, ix) \o <<>> = Spoken(s.out, ix)
  BY <1>3, <1>8, ConcatEmptySeq DEF Text
<1>11. Spoken(u.out, ix) = IF e.type = "delta" /\ e.ix = ix
                           THEN Spoken(s.out, ix) \o e.text ELSE Spoken(s.out, ix)
  BY <1>9, <1>10 DEF DeltaText
<1>12. QED BY <1>3, <1>8, <1>11 DEF n

LEMMA GrownSpoken ==
  ASSUME NEW s, NEW u, NEW e, Grown(s, u, e)
  PROVE  \A ix : Spoken(u.out, ix) = IF e.type = "delta" /\ e.ix = ix
                                     THEN Spoken(s.out, ix) \o e.text ELSE Spoken(s.out, ix)
<1>1. SUFFICES ASSUME NEW ix
               PROVE  Spoken(u.out, ix) = IF e.type = "delta" /\ e.ix = ix
                                          THEN Spoken(s.out, ix) \o e.text ELSE Spoken(s.out, ix)
  OBVIOUS
<1>2. QED BY GrownTexts

(* An item that was not announced has no deltas. *)
LEMMA NothingSpoken ==
  ASSUME NEW s, Good(s)
  PROVE  Spoken(s.out, s.next) = <<>>
<1> DEFINE n == Len(s.out)
           p == [i \in 1..n |-> DeltaText(s.out[i], s.next)]
<1>1. n \in Nat /\ DOMAIN s.out = 1..n
  BY OutIsSeq DEF Good
<1>2. \A i \in DOMAIN s.out : s.out[i].type = "delta" => s.out[i].ix # s.next
  BY NextIsNew DEF Good, Core, Announced, Known
<1>3. \A i \in 1..n : DeltaText(s.out[i], s.next) = <<>>
  BY <1>1, <1>2 DEF DeltaText
<1> HIDE DEF n
<1>4. p \in [1..n -> {<<>>}]
  BY <1>3
<1> HIDE DEF p
<1>5. FlattenSeq(p) = <<>>
  BY <1>1, <1>4, FlattenBlank
<1>6. QED BY <1>5 DEF p, n, Spoken, Upto

LEMMA GrownDonesExact ==
  ASSUME NEW s, NEW u, NEW e, Grown(s, u, e), DonesExact(s.out),
         e.type = "done" => TellsText(e, Spoken(s.out, e.ix))
  PROVE  DonesExact(u.out)
<1>1. /\ Len(s.out) \in Nat /\ DOMAIN s.out = 1..Len(s.out)
      /\ DOMAIN u.out = 1..(Len(s.out) + 1)
      /\ \A i \in DOMAIN s.out : u.out[i] = s.out[i]
      /\ u.out[Len(s.out) + 1] = e
  BY GrownFacts
<1> SUFFICES ASSUME NEW j \in DOMAIN u.out, u.out[j].type = "done"
             PROVE  TellsText(u.out[j], Upto(u.out, u.out[j].ix, j))
  BY DEF DonesExact
<1>2. CASE j \in DOMAIN s.out
  <2>1. Upto(u.out, u.out[j].ix, j) = Upto(s.out, u.out[j].ix, j)
    BY <1>2, GrownUpto
  <2>2. QED BY <1>1, <1>2, <2>1 DEF DonesExact
<1>3. CASE j = Len(s.out) + 1
  <2>1. u.out[j] = e /\ e.type = "done"
    BY <1>1, <1>3
  <2>2. Upto(u.out, e.ix, j) = Spoken(s.out, e.ix)
    BY <1>3, <2>1, GrownTexts
  <2>3. QED BY <2>1, <2>2
<1>4. QED BY <1>1, <1>2, <1>3

(* Only a delta of a closed item is late. *)
LEMMA GrownLate ==
  ASSUME NEW s, NEW u, NEW e, Grown(s, u, e), NEW item
  PROVE  /\ Late(s.out, item) => Late(u.out, item)
         /\ Late(u.out, item) =>
              \/ Late(s.out, item)
              \/ /\ e.type = "delta"
                 /\ \E i \in DOMAIN s.out :
                      s.out[i].type = "done" /\ s.out[i].ix = e.ix /\ s.out[i].item = item
<1>1. /\ Len(s.out) \in Nat /\ DOMAIN s.out = 1..Len(s.out)
      /\ DOMAIN u.out = 1..(Len(s.out) + 1)
      /\ \A i \in DOMAIN s.out : u.out[i] = s.out[i]
      /\ u.out[Len(s.out) + 1] = e
  BY GrownFacts
<1>2. Late(s.out, item) => Late(u.out, item)
  BY <1>1 DEF Late
<1>3. ASSUME Late(u.out, item)
      PROVE  \/ Late(s.out, item)
             \/ /\ e.type = "delta"
                /\ \E i \in DOMAIN s.out :
                     s.out[i].type = "done" /\ s.out[i].ix = e.ix /\ s.out[i].item = item
  <2>1. PICK i \in DOMAIN u.out, j \in DOMAIN u.out :
          /\ i < j /\ u.out[i].type = "done" /\ u.out[j].type = "delta"
          /\ u.out[i].ix = u.out[j].ix /\ u.out[i].item = item
    BY <1>3 DEF Late
  <2>2. i \in DOMAIN s.out /\ u.out[i] = s.out[i]
    BY <1>1, <2>1
  <2>3. CASE j \in DOMAIN s.out
    BY <1>1, <2>1, <2>2, <2>3 DEF Late
  <2>4. CASE j = Len(s.out) + 1
    BY <1>1, <2>1, <2>2, <2>4
  <2>5. QED BY <1>1, <2>3, <2>4
<1>4. QED BY <1>2, <1>3

LEMMA GrownNotLate ==
  ASSUME NEW s, NEW u, NEW e, Grown(s, u, e), e.type # "delta" \/ NotDone(s, e.ix), NEW item
  PROVE  Late(u.out, item) <=> Late(s.out, item)
BY GrownLate DEF NotDone

------------------------------------------------------------------------------
(* The texts the struct keeps are those it has sent.  With tools offered   *)
(* the message is sent at once, by the step that closes it; the arguments  *)
(* of a custom tool are not sent before its call is closed.                *)

ReasoningExact(s) ==
  IF s.reasoningIx = None
  THEN s.reasoning = <<>> ELSE Spoken(s.out, s.reasoningIx) = s.reasoning

(* Its done event gives all of it, unless a delta came late. *)
ReasoningTold(s) ==
  \A i \in DOMAIN s.out :
    s.out[i].type = "done" /\ s.reasoningIx # None /\ s.out[i].ix = s.reasoningIx =>
      s.out[i].text = s.reasoning \/ Late(s.out, ReasoningItem)

TextExact(s) ==
  IF s.bufferText
  THEN s.textIx # None => s.textDone
  ELSE IF s.textIx = None THEN s.content = <<>> ELSE Spoken(s.out, s.textIx) = s.content

CallExact(s, k) ==
  s.calls[k].added /\ ~s.calls[k].done =>
    Spoken(s.out, s.calls[k].ix) =
      IF IsCustom(s, s.calls[k].name) THEN <<>> ELSE s.calls[k].args

Exact(s) ==
  /\ DonesExact(s.out) /\ ReasoningExact(s) /\ ReasoningTold(s) /\ TextExact(s)
  /\ \A k \in Indices : CallExact(s, k)

Told(s) == Ready(s) /\ Exact(s)

SameTexts(s, u) ==
  /\ u.content = s.content /\ u.reasoning = s.reasoning
  /\ u.think = s.think /\ u.buffer = s.buffer
  /\ u.output = s.output /\ u.pending = s.pending

LEMMA EmitSame ==
  ASSUME NEW s \in Assembler, NEW e \in Events
  PROVE  SameMarks(s, Emit(s, e)) /\ SameTexts(s, Emit(s, e))
<1>1. Emit(s, e) \in Assembler /\ Emit(s, e) = [s EXCEPT !.out = Append(s.out, e)]
  BY EmitFacts
<1>2. QED BY <1>1 DEF Assembler, SameTexts, SameMarks

LEMMA AddItemSame ==
  ASSUME NEW s, Good(s), NEW item \in Item
  PROVE  LET u == AddItem(s, item) IN
         /\ SameMarks(s, u) /\ SameTexts(s, u) /\ u \in Assembler
         /\ Grown(s, u, Event("added", s.next, item, <<>>))
<1> DEFINE e == Event("added", s.next, item, <<>>)
           v == Emit(s, e)
           u == AddItem(s, item)
<1>1. Grown(s, u, e) /\ u \in Assembler /\ s \in Assembler
  BY AddItemGrown
<1>2. e \in Events
  BY <1>1 DEF Grown
<1>3. u = [v EXCEPT !.next = @ + 1]
  BY DEF AddItem
<1> HIDE DEF e
<1>4. v \in Assembler /\ SameMarks(s, v) /\ SameTexts(s, v)
  BY <1>1, <1>2, EmitSame, EmitFields
<1> HIDE DEF v
<1>5. SameMarks(v, u) /\ SameTexts(v, u)
  BY <1>3, <1>4 DEF Assembler, SameTexts, SameMarks
<1> HIDE DEF u
<1>6. SameMarks(s, u) /\ SameTexts(s, u)
  BY <1>4, <1>5 DEF SameTexts, SameMarks
<1>7. QED BY <1>1, <1>6 DEF u, e

(* Announcing an item says nothing. *)
LEMMA AddItemTexts ==
  ASSUME NEW s, Good(s), NEW item \in Item, DonesExact(s.out)
  PROVE  LET u == AddItem(s, item) IN
         /\ DonesExact(u.out)
         /\ \A ix : Spoken(u.out, ix) = Spoken(s.out, ix)
         /\ Spoken(u.out, s.next) = <<>>
         /\ \A it : Late(u.out, it) <=> Late(s.out, it)
<1> DEFINE e == Event("added", s.next, item, <<>>)
           u == AddItem(s, item)
<1>1. Grown(s, u, e)
  BY AddItemSame
<1>2. e.type = "added"
  BY DEF Event
<1> HIDE DEF e, u
<1>3. DonesExact(u.out)
  BY <1>1, <1>2, GrownDonesExact
<1>4. \A ix : Spoken(u.out, ix) = Spoken(s.out, ix)
  BY <1>1, <1>2, GrownTexts
<1>5. Spoken(u.out, s.next) = <<>>
  BY <1>4, NothingSpoken
<1>6. \A it : Late(u.out, it) <=> Late(s.out, it)
  BY <1>1, <1>2, GrownNotLate
<1>7. QED BY <1>3, <1>4, <1>5, <1>6 DEF u

(* The indices in the struct are those of different items, and old. *)
LEMMA IndicesDiffer ==
  ASSUME NEW s, Good(s)
  PROVE  /\ s.reasoningIx # None => s.reasoningIx # s.next
         /\ s.textIx # None => s.textIx # s.next
         /\ s.reasoningIx # None /\ s.textIx # None => s.reasoningIx # s.textIx
         /\ \A k \in Indices : s.calls[k].added =>
              /\ s.calls[k].ix # None /\ s.calls[k].ix # s.next
              /\ s.calls[k].ix # s.reasoningIx /\ s.calls[k].ix # s.textIx
              /\ \A j \in Indices : s.calls[j].ix = s.calls[k].ix => j = k
<1>1. s.reasoningIx # None => Known(s, s.reasoningIx, ReasoningItem)
  BY DEF Good, Core, ReasoningAgrees
<1>2. s.textIx # None => Known(s, s.textIx, MessageItem)
  BY DEF Good, Core, TextAgrees
<1>3. \A k \in Indices : s.calls[k].added =>
        /\ Known(s, s.calls[k].ix, ToolItem(s.calls[k])) /\ s.calls[k].ix # None
        /\ \A j \in Indices : s.calls[j].ix = s.calls[k].ix => j = k
  BY DEF Good, Core, CallsAgree
<1>4. \A ix, item : Known(s, ix, item) => ix # s.next
  BY NextIsNew
<1>5. s.reasoningIx # None /\ s.textIx # None => s.reasoningIx # s.textIx
  BY <1>1, <1>2, KnownItem, ItemTypes
<1>6. ASSUME NEW k \in Indices, s.calls[k].added
      PROVE  s.calls[k].ix # s.reasoningIx /\ s.calls[k].ix # s.textIx
  <2>1. s.calls[k] \in Call
    BY CallTyped
  <2>2. ToolItem(s.calls[k]) # ReasoningItem /\ ToolItem(s.calls[k]) # MessageItem
    BY <2>1, ItemTypes
  <2>3. /\ Known(s, s.calls[k].ix, ToolItem(s.calls[k])) /\ s.calls[k].ix # None
    BY <1>3, <1>6
  <2>4. QED BY <1>1, <1>2, <2>2, <2>3, KnownItem
<1>7. QED BY <1>1, <1>2, <1>3, <1>4, <1>5, <1>6

------------------------------------------------------------------------------
(* The reasoning and the message.                                          *)

(* A method that leaves the calls alone.  What it adds to a closed item is *)
(* reasoning, unless no tools were offered.                                *)
Pushes(s, u) ==
  /\ Moves(s, u) /\ Exact(u) /\ u.output = s.output /\ u.pending = s.pending
  /\ s.bufferText =>
       /\ u.reasoningDone = s.reasoningDone
       /\ \A item : Late(u.out, item) =>
            Late(s.out, item) \/ (item = ReasoningItem /\ s.reasoningDone)

LEMMA PushesTold == ASSUME NEW s, NEW u, Pushes(s, u) PROVE Told(u)
BY MovesReady DEF Pushes, Told

LEMMA PushesSelf == ASSUME NEW s, Told(s) PROVE Pushes(s, s)
BY MovesSelf DEF Pushes, Told

LEMMA PushesTrans ==
  ASSUME NEW s, NEW t, NEW u, Told(s), Pushes(s, t), Pushes(t, u)
  PROVE  Pushes(s, u)
<1>1. Moves(s, u)
  BY MovesTrans DEF Pushes, Told
<1>2. t.bufferText = s.bufferText
  BY DEF Pushes, Moves, Keeps
<1>3. QED BY <1>1, <1>2 DEF Pushes

(* An assignment to fields that no event is about. *)
LEMMA SetThinkPushes ==
  ASSUME NEW s, Told(s), NEW text \in Text, NEW state \in {"Detecting", "InThink", "Done"}
  PROVE  /\ Pushes(s, [s EXCEPT !.buffer = text])
         /\ Pushes(s, [s EXCEPT !.buffer = text, !.think = state])
         /\ Pushes(s, [s EXCEPT !.think = state])
<1>1. s \in Assembler
  BY DEF Told, Ready, Good
<1>2. ASSUME NEW u, SameMarks(s, u), u.out = s.out, u.reasoning = s.reasoning,
             u.content = s.content, u.output = s.output, u.pending = s.pending, Moves(s, u)
      PROVE  Pushes(s, u)
  <2>1. Exact(u)
    BY <1>2 DEF Told, Exact, ReasoningExact, ReasoningTold, TextExact, CallExact, IsCustom, SameMarks
  <2>2. QED BY <1>2, <2>1 DEF Pushes, SameMarks
<1>3. /\ Moves(s, [s EXCEPT !.buffer = text])
      /\ Moves(s, [s EXCEPT !.buffer = text, !.think = state])
      /\ Moves(s, [s EXCEPT !.think = state])
  BY SetThinkMoves DEF Told
<1>4. Pushes(s, [s EXCEPT !.buffer = text])
  <2> DEFINE u == [s EXCEPT !.buffer = text]
  <2>1. /\ SameMarks(s, u) /\ u.out = s.out /\ u.reasoning = s.reasoning
        /\ u.content = s.content /\ u.output = s.output /\ u.pending = s.pending
    BY <1>1 DEF Assembler, SameMarks
  <2>2. Moves(s, u)
    BY <1>3
  <2> HIDE DEF u
  <2>3. Pushes(s, u)
    BY <1>2, <2>1, <2>2
  <2>4. QED BY <2>3 DEF u
<1>5. Pushes(s, [s EXCEPT !.buffer = text, !.think = state])
  <2> DEFINE u == [s EXCEPT !.buffer = text, !.think = state]
  <2>1. /\ SameMarks(s, u) /\ u.out = s.out /\ u.reasoning = s.reasoning
        /\ u.content = s.content /\ u.output = s.output /\ u.pending = s.pending
    BY <1>1 DEF Assembler, SameMarks
  <2>2. Moves(s, u)
    BY <1>3
  <2> HIDE DEF u
  <2>3. Pushes(s, u)
    BY <1>2, <2>1, <2>2
  <2>4. QED BY <2>3 DEF u
<1>6. Pushes(s, [s EXCEPT !.think = state])
  <2> DEFINE u == [s EXCEPT !.think = state]
  <2>1. /\ SameMarks(s, u) /\ u.out = s.out /\ u.reasoning = s.reasoning
        /\ u.content = s.content /\ u.output = s.output /\ u.pending = s.pending
    BY <1>1 DEF Assembler, SameMarks
  <2>2. Moves(s, u)
    BY <1>3
  <2> HIDE DEF u
  <2>3. Pushes(s, u)
    BY <1>2, <2>1, <2>2
  <2>4. QED BY <2>3 DEF u
<1>7. QED BY <1>4, <1>5, <1>6

(* What the struct keeps stays exact when an event says nothing of it. *)

LEMMA GrownCallsExact ==
  ASSUME NEW s, NEW u, NEW e, Grown(s, u, e), \A k \in Indices : CallExact(s, k),
         u.calls = s.calls, u.bufferText = s.bufferText,
         e.type = "delta" =>
           \A k \in Indices : s.calls[k].added /\ ~s.calls[k].done => s.calls[k].ix # e.ix
  PROVE  \A k \in Indices : CallExact(u, k)
<1> SUFFICES ASSUME NEW k \in Indices, s.calls[k].added, ~s.calls[k].done PROVE CallExact(u, k)
  BY DEF CallExact
<1>0. \A ix : Spoken(u.out, ix) = IF e.type = "delta" /\ e.ix = ix
                                  THEN Spoken(s.out, ix) \o e.text ELSE Spoken(s.out, ix)
  BY GrownTexts
<1>1. Spoken(u.out, s.calls[k].ix) = Spoken(s.out, s.calls[k].ix)
  BY <1>0
<1>2. QED BY <1>1 DEF CallExact, IsCustom

LEMMA GrownReasoningExact ==
  ASSUME NEW s, NEW u, NEW e, Grown(s, u, e), ReasoningExact(s),
         u.reasoning = s.reasoning, u.reasoningIx = s.reasoningIx,
         e.type = "delta" => e.ix # s.reasoningIx
  PROVE  ReasoningExact(u)
<1>0. \A ix : Spoken(u.out, ix) = IF e.type = "delta" /\ e.ix = ix
                                  THEN Spoken(s.out, ix) \o e.text ELSE Spoken(s.out, ix)
  BY GrownTexts
<1>1. Spoken(u.out, s.reasoningIx) = Spoken(s.out, s.reasoningIx)
  BY <1>0
<1>2. QED BY <1>1 DEF ReasoningExact

LEMMA GrownReasoningTold ==
  ASSUME NEW s, NEW u, NEW e, Grown(s, u, e), ReasoningTold(s),
         u.reasoning = s.reasoning, u.reasoningIx = s.reasoningIx,
         e.type = "done" /\ s.reasoningIx # None /\ e.ix = s.reasoningIx => e.text = s.reasoning
  PROVE  ReasoningTold(u)
<1>1. /\ Len(s.out) \in Nat /\ DOMAIN s.out = 1..Len(s.out)
      /\ DOMAIN u.out = 1..(Len(s.out) + 1)
      /\ \A i \in DOMAIN s.out : u.out[i] = s.out[i]
      /\ u.out[Len(s.out) + 1] = e
  BY GrownFacts
<1>2. Late(s.out, ReasoningItem) => Late(u.out, ReasoningItem)
  BY GrownLate
<1>3. QED BY <1>1, <1>2 DEF ReasoningTold

LEMMA GrownTextExact ==
  ASSUME NEW s, NEW u, NEW e, Grown(s, u, e), TextExact(s),
         u.content = s.content, u.textIx = s.textIx, u.bufferText = s.bufferText,
         s.textDone => u.textDone,
         e.type = "delta" => e.ix # s.textIx
  PROVE  TextExact(u)
<1>0. \A ix : Spoken(u.out, ix) = IF e.type = "delta" /\ e.ix = ix
                                  THEN Spoken(s.out, ix) \o e.text ELSE Spoken(s.out, ix)
  BY GrownTexts
<1>1. Spoken(u.out, s.textIx) = Spoken(s.out, s.textIx)
  BY <1>0
<1>2. QED BY <1>1 DEF TextExact

(* A done event is about the item that was announced under its index. *)
LEMMA DoneIsKnown ==
  ASSUME NEW s, Good(s), NEW i \in DOMAIN s.out, s.out[i].type = "done"
  PROVE  Known(s, s.out[i].ix, s.out[i].item)
BY DEF Good, Core, Announced, Known

LEMMA LateDelta ==
  ASSUME NEW s, NEW u, NEW e, Good(s), Grown(s, u, e), NEW own, NEW item,
         Known(s, e.ix, own), Late(u.out, item)
  PROVE  Late(s.out, item) \/ (item = own /\ e.type = "delta" /\ ~NotDone(s, e.ix))
<1> SUFFICES ASSUME ~Late(s.out, item)
             PROVE  item = own /\ e.type = "delta" /\ ~NotDone(s, e.ix)
  OBVIOUS
<1>1. e.type = "delta"
  BY GrownLate
<1>2. PICK i \in DOMAIN s.out :
        s.out[i].type = "done" /\ s.out[i].ix = e.ix /\ s.out[i].item = item
  BY GrownLate
<1>3. Known(s, e.ix, item)
  BY <1>2, DoneIsKnown
<1>4. item = own
  BY <1>3, KnownItem
<1>5. ~NotDone(s, e.ix)
  BY <1>2 DEF NotDone
<1>6. QED BY <1>1, <1>4, <1>5

(* The reasoning item, announced by the first of its deltas. *)
OpenReasoning(s) ==
  IF s.reasoningIx = None
  THEN [AddItem(s, ReasoningItem) EXCEPT !.reasoningIx = s.next] ELSE s

LEMMA OpenReasoningExact ==
  ASSUME NEW s, Told(s)
  PROVE  LET t == OpenReasoning(s) IN
         /\ Good(t) /\ Exact(t) /\ t.reasoningIx # None /\ SameTexts(s, t)
         /\ t.bufferText = s.bufferText /\ t.reasoningDone = s.reasoningDone
         /\ \A item : Late(t.out, item) <=> Late(s.out, item)
<1>0. Good(s) /\ Exact(s) /\ DonesExact(s.out) /\ s \in Assembler /\ s.next \in Nat
  BY DEF Told, Ready, Good, Exact, Assembler
<1>1. CASE s.reasoningIx # None
  BY <1>0, <1>1 DEF OpenReasoning, SameTexts
<1>2. CASE s.reasoningIx = None
  <2> DEFINE a == AddItem(s, ReasoningItem)
             t == [a EXCEPT !.reasoningIx = s.next]
             e == Event("added", s.next, ReasoningItem, <<>>)
  <2>1. /\ SameMarks(s, a) /\ SameTexts(s, a) /\ a \in Assembler /\ Grown(s, a, e)
    BY <1>0, AddItemSame, ItemTypes
  <2>2. /\ DonesExact(a.out) /\ Spoken(a.out, s.next) = <<>>
        /\ \A it : Late(a.out, it) <=> Late(s.out, it)
    BY <1>0, AddItemTexts, ItemTypes
  <2>3. Good(a) /\ Known(a, s.next, ReasoningItem) /\ NotDone(a, s.next)
    BY <1>0, AddItemLeads, ItemTypes DEF Leads
  <2>4. e.type = "added"
    BY DEF Event
  <2>5. t = OpenReasoning(s)
    BY <1>2 DEF OpenReasoning
  <2> HIDE DEF a, e
  <2>6. Good(t)
    BY <1>0, <2>3, SetReasoningIx DEF Keeps, Leads
  <2>7. /\ t.out = a.out /\ t.reasoningIx = s.next /\ SameTexts(a, t) /\ t.calls = a.calls
        /\ t.bufferText = a.bufferText /\ t.reasoningDone = a.reasoningDone
        /\ t.textIx = a.textIx /\ t.textDone = a.textDone
    BY <2>1 DEF Assembler, SameTexts
  <2> HIDE DEF t
  <2>8. /\ t.calls = s.calls /\ t.bufferText = s.bufferText /\ t.reasoningDone = s.reasoningDone
        /\ t.textIx = s.textIx /\ t.textDone = s.textDone /\ SameTexts(s, t)
    BY <2>1, <2>7 DEF SameMarks, SameTexts
  <2>9. Grown(s, t, e)
    BY <2>1, <2>7 DEF Grown
  <2>10. \A k \in Indices : CallExact(t, k)
    BY <1>0, <2>4, <2>8, <2>9, GrownCallsExact DEF Exact
  <2>11. TextExact(t)
    BY <1>0, <2>4, <2>8, <2>9, GrownTextExact DEF Exact, SameTexts
  <2>12. ReasoningExact(t)
    <3>1. s.reasoning = <<>>
      BY <1>0, <1>2 DEF Exact, ReasoningExact
    <3>2. t.reasoning = <<>> /\ Spoken(t.out, t.reasoningIx) = <<>>
      BY <2>2, <2>7, <2>8, <3>1 DEF SameTexts
    <3>3. QED BY <3>2 DEF ReasoningExact
  <2>13. Exact(t)
    <3>1. ReasoningTold(t)
      BY <2>3, <2>7 DEF ReasoningTold, NotDone
    <3>2. QED BY <2>2, <2>7, <2>10, <2>11, <2>12, <3>1 DEF Exact
  <2>14. t.reasoningIx # None
    BY <1>0, <2>7 DEF None
  <2>15. QED BY <2>2, <2>5, <2>6, <2>7, <2>8, <2>13, <2>14
<1>3. QED BY <1>1, <1>2

LEMMA PushReasoningDeltaPushes ==
  ASSUME NEW s, Told(s), NEW delta \in Text, delta # <<>>
  PROVE  LET u == PushReasoningDelta(s, delta) IN
         Pushes(s, u) /\ u.think = s.think /\ u.buffer = s.buffer /\ u.content = s.content
<1> DEFINE t == OpenReasoning(s)
           v == [t EXCEPT !.reasoning = @ \o delta]
           e == Event("delta", t.reasoningIx, ReasoningItem, delta)
           u == Emit(v, e)
<1>0. PushReasoningDelta(s, delta) = u
  BY DEF PushReasoningDelta, OpenReasoning
<1>1. /\ Good(t) /\ Exact(t) /\ t.reasoningIx # None /\ SameTexts(s, t)
      /\ t.bufferText = s.bufferText /\ t.reasoningDone = s.reasoningDone
      /\ \A item : Late(t.out, item) <=> Late(s.out, item)
  BY OpenReasoningExact
<1>2. Moves(s, u)
  BY <1>0, PushReasoningDeltaMoves DEF Told
<1> HIDE DEF t
<1>3. t \in Assembler /\ t.reasoning \in Text /\ t.reasoningIx \in Nat
  BY <1>1 DEF Good, Assembler
<1>4. e \in Events /\ e.type = "delta" /\ e.ix = t.reasoningIx /\ e.text = delta
  BY <1>3, DeltaTyped, ItemTypes DEF Event
<1>5. t.reasoning \o delta \in Text
  BY <1>3, ConcatIsText
<1>6. /\ v \in Assembler /\ SameMarks(t, v) /\ v.out = t.out /\ v.content = t.content
      /\ v.think = t.think /\ v.buffer = t.buffer
      /\ v.output = t.output /\ v.pending = t.pending /\ v.reasoning = t.reasoning \o delta
  BY <1>3, <1>5 DEF Assembler, SameMarks
<1> HIDE DEF e, v
<1>7. SameMarks(v, u) /\ SameTexts(v, u) /\ u.out = Append(v.out, e)
  BY <1>4, <1>6, EmitSame, EmitFields DEF Grown
<1> HIDE DEF u
<1>8. SameMarks(t, u) /\ u.reasoning = t.reasoning \o delta /\ Grown(t, u, e)
  BY <1>3, <1>4, <1>6, <1>7 DEF SameMarks, SameTexts, Grown
<1>9. /\ u.content = s.content /\ u.think = s.think /\ u.buffer = s.buffer
      /\ u.output = s.output /\ u.pending = s.pending
      /\ u.content = t.content /\ u.bufferText = s.bufferText
      /\ u.reasoningDone = s.reasoningDone
  BY <1>1, <1>6, <1>7, <1>8 DEF SameMarks, SameTexts
<1>10. Exact(u)
  <2>1. ReasoningExact(u)
    <3>1. Spoken(t.out, t.reasoningIx) = t.reasoning
      BY <1>1 DEF Exact, ReasoningExact
    <3>2. Spoken(u.out, t.reasoningIx) = Spoken(t.out, t.reasoningIx) \o delta
      <4>1. \A ix : Spoken(u.out, ix) = IF e.type = "delta" /\ e.ix = ix
                                        THEN Spoken(t.out, ix) \o e.text ELSE Spoken(t.out, ix)
        <5>1. Grown(t, u, e)
          BY <1>8
        <5>2. QED BY <5>1, GrownTexts
      <4>2. QED BY <1>4, <4>1
    <3>3. QED BY <1>1, <1>8, <3>1, <3>2 DEF ReasoningExact, SameMarks
  <2>2. TextExact(u)
    <3>1. e.ix # t.textIx
      BY <1>1, <1>4, IndicesDiffer
    <3>2. QED BY <1>1, <1>8, <1>9, <3>1, GrownTextExact DEF Exact, SameMarks
  <2>3. \A k \in Indices : CallExact(u, k)
    <3>1. \A k \in Indices : t.calls[k].added => t.calls[k].ix # e.ix
      BY <1>1, <1>4, IndicesDiffer
    <3>2. QED BY <1>1, <1>8, <3>1, GrownCallsExact DEF Exact, SameMarks
  <2>4. DonesExact(u.out)
    BY <1>1, <1>4, <1>8, GrownDonesExact DEF Exact
  <2>5. ReasoningTold(u)
    <3>1. Good(u) /\ u.reasoningIx = t.reasoningIx
      BY <1>2, <1>8 DEF Moves, Keeps, Leads, SameMarks
    <3>2. /\ Len(t.out) \in Nat /\ DOMAIN t.out = 1..Len(t.out)
          /\ DOMAIN u.out = 1..(Len(t.out) + 1)
          /\ \A i \in DOMAIN t.out : u.out[i] = t.out[i]
          /\ u.out[Len(t.out) + 1] = e
      BY <1>8, GrownFacts
    <3> SUFFICES ASSUME NEW i \in DOMAIN u.out, u.out[i].type = "done",
                        u.out[i].ix = t.reasoningIx
                 PROVE  Late(u.out, ReasoningItem)
      BY <3>1 DEF ReasoningTold
    <3>3. Known(u, t.reasoningIx, u.out[i].item)
      BY <3>1, DoneIsKnown
    <3>4. Known(u, t.reasoningIx, ReasoningItem)
      BY <1>1, <3>1 DEF Good, Core, ReasoningAgrees
    <3>5. u.out[i].item = ReasoningItem
      BY <3>1, <3>3, <3>4, KnownItem
    <3>6. i < Len(t.out) + 1 /\ Len(t.out) + 1 \in DOMAIN u.out
      BY <1>4, <3>2
    <3>7. QED BY <1>4, <3>2, <3>5, <3>6 DEF Late
  <2>6. QED BY <2>1, <2>2, <2>3, <2>4, <2>5 DEF Exact
<1>11. ASSUME NEW item, Late(u.out, item)
       PROVE  Late(s.out, item) \/ (item = ReasoningItem /\ s.reasoningDone)
  <2>1. Known(t, e.ix, ReasoningItem) /\ (~t.reasoningDone => NotDone(t, e.ix))
    BY <1>1, <1>4 DEF Good, Core, ReasoningAgrees
  <2>2. Late(t.out, item) \/ (item = ReasoningItem /\ ~NotDone(t, e.ix))
    <3>1. Good(t) /\ Grown(t, u, e) /\ Late(u.out, item)
      BY <1>1, <1>8, <1>11
    <3>2. QED BY <2>1, <3>1, LateDelta
  <2>3. QED BY <1>1, <2>1, <2>2
<1>12. Pushes(s, u)
  BY <1>2, <1>9, <1>10, <1>11 DEF Pushes
<1>13. QED BY <1>0, <1>9, <1>12 DEF u

(* Closing the reasoning says all of it. *)
LEMMA FinishReasoningItemTells ==
  ASSUME NEW s, Told(s)
  PROVE  LET u == FinishReasoningItem(s) IN
         /\ Told(u) /\ Moves(s, u) /\ SameTexts(s, u)
         /\ u.textIx = s.textIx /\ u.textDone = s.textDone
         /\ u.reasoningIx = s.reasoningIx /\ (u.reasoningIx # None => u.reasoningDone)
         /\ s.reasoningDone => u.reasoningDone
         /\ \A item : Late(u.out, item) <=> Late(s.out, item)
<1>0. Good(s) /\ Tidy(s) /\ Exact(s) /\ s \in Assembler
  BY DEF Told, Ready, Good
<1>1. CASE s.reasoningIx = None \/ s.reasoningDone
  BY <1>1, MovesSelf DEF FinishReasoningItem, SameTexts, Told
<1>2. CASE s.reasoningIx # None /\ ~s.reasoningDone
  <2> DEFINE e == Event("done", s.reasoningIx, ReasoningItem, s.reasoning)
             v == Emit(s, e)
             u == [v EXCEPT !.reasoningDone = TRUE]
  <2>1. FinishReasoningItem(s) = u
    BY <1>2 DEF FinishReasoningItem
  <2>2. Moves(s, u)
    BY <1>0, <2>1, FinishReasoningItemKeeps, FinishReasoningItemAdvances DEF Moves
  <2>3. s.reasoningIx \in Nat \cup {None} /\ s.reasoning \in Text
    BY <1>0 DEF Assembler
  <2>4. /\ e \in Events /\ e.type = "done" /\ e.ix = s.reasoningIx
        /\ e.item = ReasoningItem /\ e.text = s.reasoning
    BY <2>3, DoneTyped, ItemTypes DEF Event
  <2> HIDE DEF e
  <2>5. v \in Assembler /\ SameMarks(s, v) /\ SameTexts(s, v) /\ v.out = Append(s.out, e)
    BY <1>0, <2>4, EmitSame, EmitFields DEF Grown
  <2> HIDE DEF v
  <2>6. /\ u.out = v.out /\ SameTexts(v, u) /\ u.calls = v.calls /\ u.bufferText = v.bufferText
        /\ u.textIx = v.textIx /\ u.textDone = v.textDone /\ u.reasoningIx = v.reasoningIx
        /\ u.reasoningDone
    BY <2>5 DEF Assembler, SameTexts
  <2> HIDE DEF u
  <2>7. /\ SameTexts(s, u) /\ u.calls = s.calls /\ u.bufferText = s.bufferText
        /\ u.textIx = s.textIx /\ u.textDone = s.textDone /\ u.reasoningIx = s.reasoningIx
        /\ u.reasoningDone /\ u.reasoning = s.reasoning /\ u.content = s.content
    BY <2>5, <2>6 DEF SameTexts, SameMarks
  <2>8. Grown(s, u, e)
    BY <1>0, <2>4, <2>5, <2>6 DEF Grown
  <2>9. DonesExact(u.out)
    <3>1. Spoken(s.out, e.ix) = e.text
      BY <1>0, <1>2, <2>4 DEF Exact, ReasoningExact
    <3>2. TellsText(e, Spoken(s.out, e.ix)) /\ DonesExact(s.out)
      BY <1>0, <3>1 DEF TellsText, Exact
    <3>3. QED BY <2>8, <3>2, GrownDonesExact
  <2>10. ReasoningExact(u) /\ ReasoningTold(u)
    <3>1. e.type # "delta" /\ ReasoningExact(s) /\ ReasoningTold(s)
      BY <1>0, <2>4 DEF Exact
    <3>2. ReasoningExact(u)
      BY <2>7, <2>8, <3>1, GrownReasoningExact
    <3>3. ReasoningTold(u)
      BY <2>4, <2>7, <2>8, <3>1, GrownReasoningTold
    <3>4. QED BY <3>2, <3>3
  <2>11. TextExact(u)
    <3>1. e.type # "delta" /\ TextExact(s)
      BY <1>0, <2>4 DEF Exact
    <3>2. QED BY <2>7, <2>8, <3>1, GrownTextExact
  <2>12. \A k \in Indices : CallExact(u, k)
    <3>1. e.type # "delta" /\ \A k \in Indices : CallExact(s, k)
      BY <1>0, <2>4 DEF Exact
    <3>2. QED BY <2>7, <2>8, <3>1, GrownCallsExact
  <2>13. \A item : Late(u.out, item) <=> Late(s.out, item)
    <3>1. e.type # "delta"
      BY <2>4
    <3>2. QED BY <2>8, <3>1, GrownNotLate
  <2>14. Told(u)
    BY <1>0, <2>2, <2>9, <2>10, <2>11, <2>12, MovesReady DEF Told, Exact
  <2>15. QED BY <2>1, <2>2, <2>7, <2>13, <2>14
<1>3. QED BY <1>1, <1>2

LEMMA CloseReasoningTells ==
  ASSUME NEW s, Told(s)
  PROVE  LET u == CloseReasoning(s) IN
         /\ Told(u) /\ Moves(s, u) /\ SameTexts(s, u)
         /\ u.textIx = s.textIx /\ u.textDone = s.textDone
         /\ s.reasoning # <<>> => u.reasoningDone
         /\ s.reasoningDone => u.reasoningDone
         /\ \A item : Late(u.out, item) <=> Late(s.out, item)
<1>1. s.reasoning # <<>> => s.reasoningIx # None
  BY DEF Told, Exact, ReasoningExact
<1>2. Moves(s, s) /\ SameTexts(s, s)
  BY MovesSelf DEF Told, SameTexts
<1>3. QED BY <1>1, <1>2, FinishReasoningItemTells DEF CloseReasoning

(* The message is announced without a text. *)
LEMMA EnsureTextStartedTells ==
  ASSUME NEW s, Told(s)
  PROVE  LET t == EnsureTextStarted(s) IN
         /\ Keeps(s, t) /\ Tends(s, t) /\ t.textIx # None /\ t.textDone = s.textDone
         /\ SameTexts(s, t) /\ DonesExact(t.out) /\ ReasoningExact(t) /\ ReasoningTold(t)
         /\ \A k \in Indices : CallExact(t, k)
         /\ s.textIx = None => Spoken(t.out, t.textIx) = <<>>
         /\ s.textIx # None => t = s
         /\ s.reasoningDone => t.reasoningDone
         /\ \A item : Late(t.out, item) <=> Late(s.out, item)
<1>0. Good(s) /\ Tidy(s) /\ Exact(s)
  BY DEF Told, Ready
<1>1. CASE s.textIx # None
  <2>1. Keeps(s, s) /\ Tends(s, s)
    BY <1>0, KeepsSelf, AdvancesSelf DEF Advances
  <2>2. QED BY <1>0, <1>1, <2>1 DEF EnsureTextStarted, SameTexts, Exact
<1>2. CASE s.textIx = None
  <2> DEFINE c == CloseReasoning(s)
             a == AddItem(c, MessageItem)
             e == Event("added", c.next, MessageItem, <<>>)
             t == [a EXCEPT !.textIx = c.next]
  <2>1. EnsureTextStarted(s) = t
    BY <1>2 DEF EnsureTextStarted
  <2>2. /\ Keeps(s, t) /\ Tends(s, t) /\ t.textIx # None /\ t.textDone = s.textDone
    BY <1>0, <2>1, EnsureTextStartedKeeps, EnsureTextStartedTends
  <2>3. /\ Told(c) /\ SameTexts(s, c) /\ (s.reasoningDone => c.reasoningDone)
        /\ \A item : Late(c.out, item) <=> Late(s.out, item)
    BY CloseReasoningTells
  <2> HIDE DEF c
  <2>4. Good(c) /\ DonesExact(c.out) /\ MessageItem \in Item
    BY <2>3, ItemTypes DEF Told, Ready, Exact
  <2>5. SameMarks(c, a) /\ SameTexts(c, a) /\ a \in Assembler /\ Grown(c, a, e)
    BY <2>4, AddItemSame
  <2>6. /\ DonesExact(a.out) /\ Spoken(a.out, c.next) = <<>>
        /\ \A it : Late(a.out, it) <=> Late(c.out, it)
    BY <2>4, AddItemTexts
  <2>7. e.type = "added"
    BY DEF Event
  <2> HIDE DEF a, e
  <2>8. /\ t.out = a.out /\ t.textIx = c.next /\ SameTexts(a, t) /\ t.calls = a.calls
        /\ t.bufferText = a.bufferText /\ t.reasoningIx = a.reasoningIx
        /\ t.reasoningDone = a.reasoningDone
    BY <2>5 DEF Assembler, SameTexts
  <2> HIDE DEF t
  <2>9. /\ SameTexts(c, t) /\ t.calls = c.calls /\ t.bufferText = c.bufferText
        /\ t.reasoningIx = c.reasoningIx /\ t.reasoningDone = c.reasoningDone
        /\ t.reasoning = c.reasoning
    BY <2>5, <2>8 DEF SameTexts, SameMarks
  <2>10. Grown(c, t, e)
    BY <2>5, <2>8 DEF Grown
  <2>11. ReasoningExact(t)
    <3>1. ReasoningExact(c) /\ e.type # "delta"
      BY <2>3, <2>7 DEF Told, Exact
    <3>2. QED BY <2>9, <2>10, <3>1, GrownReasoningExact
  <2>12. ReasoningTold(t)
    <3>1. ReasoningTold(c) /\ e.type # "done"
      BY <2>3, <2>7 DEF Told, Exact
    <3>2. QED BY <2>9, <2>10, <3>1, GrownReasoningTold
  <2>13. \A k \in Indices : CallExact(t, k)
    <3>1. e.type # "delta" /\ \A k \in Indices : CallExact(c, k)
      BY <2>3, <2>7 DEF Told, Exact
    <3>2. QED BY <2>9, <2>10, <3>1, GrownCallsExact
  <2>14. SameTexts(s, t)
    BY <2>3, <2>9 DEF SameTexts
  <2>15. DonesExact(t.out) /\ Spoken(t.out, t.textIx) = <<>>
    BY <2>6, <2>8
  <2>16. \A item : Late(t.out, item) <=> Late(s.out, item)
    BY <2>3, <2>6, <2>8
  <2>17. QED BY <1>2, <2>1, <2>2, <2>3, <2>9, <2>11, <2>12, <2>13, <2>14, <2>15, <2>16
<1>3. QED BY <1>1, <1>2

(* A delta of the message: t is s with the message opened. *)
LEMMA MessageDeltaTells ==
  ASSUME NEW t, Good(t), t.textIx # None, DonesExact(t.out), ReasoningExact(t),
         ReasoningTold(t), \A k \in Indices : CallExact(t, k), NEW text \in Text
  PROVE  LET u == Emit(t, Event("delta", t.textIx, MessageItem, text)) IN
         /\ SameMarks(t, u) /\ SameTexts(t, u) /\ u \in Assembler
         /\ DonesExact(u.out) /\ ReasoningExact(u) /\ ReasoningTold(u)
         /\ \A k \in Indices : CallExact(u, k)
         /\ Spoken(u.out, t.textIx) = Spoken(t.out, t.textIx) \o text
         /\ ~t.textDone => \A item : Late(u.out, item) <=> Late(t.out, item)
<1> DEFINE e == Event("delta", t.textIx, MessageItem, text)
           u == Emit(t, e)
<1>1. t \in Assembler /\ t.textIx \in Nat \cup {None}
  BY DEF Good, Assembler
<1>2. /\ e \in Events /\ e.type = "delta" /\ e.ix = t.textIx /\ e.text = text
  BY <1>1, DeltaTyped, ItemTypes DEF Event
<1> HIDE DEF e
<1>3. u \in Assembler /\ SameMarks(t, u) /\ SameTexts(t, u)
  BY <1>1, <1>2, EmitSame, EmitFields
<1>4. Grown(t, u, e)
  BY <1>1, <1>2, EmitFields
<1> HIDE DEF u
<1>5. DonesExact(u.out)
  BY <1>2, <1>4, GrownDonesExact
<1>6. ReasoningExact(u)
  <2>1. e.ix # t.reasoningIx
    BY <1>2, IndicesDiffer
  <2>2. u.reasoning = t.reasoning /\ u.reasoningIx = t.reasoningIx
    BY <1>3 DEF SameMarks, SameTexts
  <2>3. QED BY <1>4, <2>1, <2>2, GrownReasoningExact
<1>7. ReasoningTold(u)
  <2>1. u.reasoning = t.reasoning /\ u.reasoningIx = t.reasoningIx
    BY <1>3 DEF SameMarks, SameTexts
  <2>2. QED BY <1>2, <1>4, <2>1, GrownReasoningTold
<1>8. \A k \in Indices : CallExact(u, k)
  <2>1. \A k \in Indices : t.calls[k].added => t.calls[k].ix # e.ix
    BY <1>2, IndicesDiffer
  <2>2. u.calls = t.calls /\ u.bufferText = t.bufferText
    BY <1>3 DEF SameMarks
  <2>3. QED BY <1>4, <2>1, <2>2, GrownCallsExact
<1>9. Spoken(u.out, t.textIx) = Spoken(t.out, t.textIx) \o text
  <2>1. \A ix : Spoken(u.out, ix) = IF e.type = "delta" /\ e.ix = ix
                                    THEN Spoken(t.out, ix) \o e.text ELSE Spoken(t.out, ix)
    BY <1>4, GrownTexts
  <2>2. QED BY <1>2, <2>1
<1>10. ASSUME ~t.textDone PROVE \A item : Late(u.out, item) <=> Late(t.out, item)
  <2>1. NotDone(t, e.ix)
    BY <1>2, <1>10 DEF Good, Core, TextAgrees
  <2>2. QED BY <1>4, <2>1, GrownNotLate
<1>11. QED BY <1>3, <1>5, <1>6, <1>7, <1>8, <1>9, <1>10 DEF u, e

LEMMA PushTextDeltaPushes ==
  ASSUME NEW s, Told(s), NEW text \in Text
  PROVE  LET u == PushTextDelta(s, text) IN
         Pushes(s, u) /\ u.think = s.think /\ u.buffer = s.buffer /\ u.reasoning = s.reasoning
<1> DEFINE Longer(x) == [x EXCEPT !.content = @ \o text]
<1>0. Moves(s, PushTextDelta(s, text)) /\ Good(s) /\ Exact(s)
  BY PushTextDeltaMoves DEF Told, Ready
<1>1. ASSUME NEW x, Good(x)
      PROVE  /\ SameMarks(x, Longer(x)) /\ Longer(x).out = x.out /\ Longer(x) \in Assembler
             /\ Longer(x).next = x.next /\ Longer(x).content = x.content \o text
             /\ Longer(x).reasoning = x.reasoning /\ Longer(x).think = x.think
             /\ Longer(x).buffer = x.buffer
             /\ Longer(x).output = x.output /\ Longer(x).pending = x.pending
  <2>1. x \in Assembler /\ x.content \o text \in Text
    BY <1>1, ConcatIsText DEF Good, Assembler
  <2>2. QED BY <2>1 DEF Assembler, SameMarks
<1> HIDE DEF Longer
<1>2. CASE s.bufferText
  <2> DEFINE u == PushTextDelta(s, text)
  <2>1. u = Longer(s)
    BY <1>2 DEF PushTextDelta, Longer
  <2>2. /\ SameMarks(s, u) /\ u.out = s.out
        /\ u.reasoning = s.reasoning /\ u.think = s.think /\ u.buffer = s.buffer
        /\ u.output = s.output /\ u.pending = s.pending
    BY <1>0, <1>1, <2>1
  <2> HIDE DEF u
  <2>3. Exact(u)
    BY <1>0, <1>2, <2>2
       DEF Exact, ReasoningExact, ReasoningTold, TextExact, CallExact, IsCustom, SameMarks
  <2>4. Pushes(s, u)
    BY <1>0, <2>2, <2>3 DEF Pushes, SameMarks, u
  <2>5. QED BY <2>2, <2>4 DEF u
<1>3. CASE ~s.bufferText
  <2> DEFINE t == EnsureTextStarted(s)
             w == Longer(t)
             u == Emit(w, Event("delta", w.textIx, MessageItem, text))
  <2>1. /\ Keeps(s, t) /\ t.textIx # None /\ SameTexts(s, t)
        /\ DonesExact(t.out) /\ ReasoningExact(t) /\ ReasoningTold(t)
        /\ \A k \in Indices : CallExact(t, k)
        /\ s.textIx = None => Spoken(t.out, t.textIx) = <<>>
        /\ s.textIx # None => t = s
    BY EnsureTextStartedTells
  <2>2. PushTextDelta(s, text) =
          Emit([t EXCEPT !.content = @ \o text], Event("delta", t.textIx, MessageItem, text))
    BY <1>3 DEF PushTextDelta
  <2> HIDE DEF t
  <2>3. Good(t) /\ t.bufferText = s.bufferText /\ t \in Assembler
    BY <2>1 DEF Keeps, Leads, Good
  <2>4. /\ SameMarks(t, w) /\ w.out = t.out /\ w \in Assembler
        /\ w.next = t.next /\ w.content = t.content \o text
        /\ w.reasoning = t.reasoning /\ w.think = t.think /\ w.buffer = t.buffer
        /\ w.output = t.output /\ w.pending = t.pending
    BY <1>1, <2>3
  <2>5. PushTextDelta(s, text) = u
    BY <2>2, <2>4 DEF SameMarks, Longer
  <2> HIDE DEF w
  <2>6. Good(w)
    BY <2>3, <2>4, AssignKeeps DEF Keeps, Leads
  <2>7. /\ DonesExact(w.out) /\ ReasoningExact(w) /\ ReasoningTold(w)
        /\ \A k \in Indices : CallExact(w, k)
    BY <2>1, <2>4 DEF ReasoningExact, ReasoningTold, CallExact, IsCustom, SameMarks
  <2>8. w.textIx # None
    BY <2>1, <2>4 DEF SameMarks
  <2>9. /\ SameMarks(w, u) /\ SameTexts(w, u) /\ u \in Assembler
        /\ DonesExact(u.out) /\ ReasoningExact(u) /\ ReasoningTold(u)
        /\ \A k \in Indices : CallExact(u, k)
        /\ Spoken(u.out, w.textIx) = Spoken(w.out, w.textIx) \o text
    BY <2>6, <2>7, <2>8, MessageDeltaTells
  <2> HIDE DEF u
  <2>10. Spoken(t.out, t.textIx) = t.content
    <3>1. CASE s.textIx = None
      <4>1. s.content = <<>>
        BY <1>0, <1>3, <3>1 DEF Exact, TextExact
      <4>2. QED BY <2>1, <3>1, <4>1 DEF SameTexts
    <3>2. CASE s.textIx # None
      BY <1>0, <1>3, <2>1, <3>2 DEF Exact, TextExact
    <3>3. QED BY <3>1, <3>2
  <2>11. TextExact(u)
    BY <2>1, <2>3, <1>3, <2>4, <2>9, <2>10 DEF TextExact, SameMarks, SameTexts
  <2>12. Exact(u)
    BY <2>9, <2>11 DEF Exact
  <2>13. /\ u.think = s.think /\ u.buffer = s.buffer /\ u.reasoning = s.reasoning
         /\ u.output = s.output /\ u.pending = s.pending
    BY <2>1, <2>4, <2>9 DEF SameTexts
  <2>14. Pushes(s, u)
    BY <1>0, <1>3, <2>5, <2>12, <2>13 DEF Pushes
  <2>15. QED BY <2>5, <2>13, <2>14
<1>4. QED BY <1>2, <1>3

(* The message is closed with all of its text.  With tools offered, this   *)
(* is where it is announced and sent.                                      *)
LEMMA FinishTextItemTells ==
  ASSUME NEW s, Told(s), s.content # <<>>
  PROVE  LET u == FinishTextItem(s) IN
         /\ Told(u) /\ Keeps(s, u) /\ Tends(s, u) /\ SameTexts(s, u)
         /\ u.textDone /\ (s.reasoningDone => u.reasoningDone)
         /\ s.bufferText => \A item : Late(u.out, item) <=> Late(s.out, item)
         /\ ~s.textDone =>
              \E i \in DOMAIN u.out :
                /\ u.out[i].type = "done" /\ u.out[i].ix = u.textIx
                /\ u.out[i].item = MessageItem /\ u.out[i].text = u.content
<1>0. Good(s) /\ Tidy(s) /\ Exact(s)
  BY DEF Told, Ready
<1>1. Keeps(s, FinishTextItem(s)) /\ Tends(s, FinishTextItem(s)) /\ FinishTextItem(s).textDone
  BY <1>0, FinishTextItemKeeps, FinishTextItemTends
<1>2. CASE s.textDone
  BY <1>1, <1>2 DEF FinishTextItem, SameTexts
<1>3. CASE ~s.textDone
  <2> DEFINE t == EnsureTextStarted(s)
             d == Emit(t, Event("delta", t.textIx, MessageItem, t.content))
             v == IF t.bufferText THEN d ELSE t
             e == Event("done", v.textIx, MessageItem, v.content)
             w == Emit(v, e)
             u == [w EXCEPT !.textDone = TRUE]
  <2>1. FinishTextItem(s) = u
    BY <1>3 DEF FinishTextItem
  <2>2. /\ Keeps(s, t) /\ t.textIx # None /\ t.textDone = s.textDone
        /\ SameTexts(s, t) /\ DonesExact(t.out) /\ ReasoningExact(t) /\ ReasoningTold(t)
        /\ \A k \in Indices : CallExact(t, k)
        /\ s.textIx = None => Spoken(t.out, t.textIx) = <<>>
        /\ s.textIx # None => t = s
        /\ s.reasoningDone => t.reasoningDone
        /\ \A item : Late(t.out, item) <=> Late(s.out, item)
    BY EnsureTextStartedTells
  <2> HIDE DEF t
  <2>3. Good(t) /\ t.bufferText = s.bufferText /\ t \in Assembler /\ t.content \in Text
    BY <2>2 DEF Keeps, Leads, Good, Assembler
  <2>4. /\ v \in Assembler /\ SameMarks(t, v) /\ SameTexts(t, v)
        /\ DonesExact(v.out) /\ ReasoningExact(v) /\ ReasoningTold(v)
        /\ \A k \in Indices : CallExact(v, k)
        /\ Spoken(v.out, v.textIx) = v.content
        /\ \A item : Late(v.out, item) <=> Late(t.out, item)
    <3>1. CASE s.bufferText
      <4>1. /\ SameMarks(t, d) /\ SameTexts(t, d) /\ d \in Assembler
            /\ DonesExact(d.out) /\ ReasoningExact(d) /\ ReasoningTold(d)
            /\ \A k \in Indices : CallExact(d, k)
            /\ Spoken(d.out, t.textIx) = Spoken(t.out, t.textIx) \o t.content
            /\ ~t.textDone => \A item : Late(d.out, item) <=> Late(t.out, item)
        BY <2>2, <2>3, MessageDeltaTells
      <4>2. s.textIx = None
        BY <1>0, <1>3, <3>1 DEF Exact, TextExact
      <4>3. <<>> \o t.content = t.content
        BY <2>3, ConcatEmptySeq DEF Text
      <4> HIDE DEF d
      <4>4. Spoken(d.out, d.textIx) = d.content
        BY <2>2, <4>1, <4>2, <4>3 DEF SameMarks, SameTexts
      <4>5. v = d
        BY <2>3, <3>1
      <4>6. QED BY <1>3, <2>2, <4>1, <4>4, <4>5
    <3>2. CASE ~s.bufferText
      <4>1. v = t
        BY <2>3, <3>2
      <4>2. s.textIx # None
        BY <1>0, <3>2 DEF Exact, TextExact
      <4>3. Spoken(t.out, t.textIx) = t.content
        BY <1>0, <2>2, <3>2, <4>2 DEF Exact, TextExact
      <4>4. QED BY <2>2, <2>3, <4>1, <4>3 DEF SameMarks, SameTexts
    <3>3. QED BY <3>1, <3>2
  <2> HIDE DEF v
  <2>5. v.textIx \in Nat \cup {None} /\ v.content \in Text
    BY <2>4 DEF Assembler
  <2>6. /\ e \in Events /\ e.type = "done" /\ e.ix = v.textIx /\ e.item = MessageItem
        /\ e.text = v.content
    BY <2>5, DoneTyped, ItemTypes DEF Event
  <2> HIDE DEF e
  <2>7. w \in Assembler /\ SameMarks(v, w) /\ SameTexts(v, w) /\ w.out = Append(v.out, e)
    BY <2>4, <2>6, EmitSame, EmitFields DEF Grown
  <2> HIDE DEF w
  <2>8. /\ u.out = w.out /\ SameTexts(w, u) /\ u.calls = w.calls /\ u.bufferText = w.bufferText
        /\ u.textIx = w.textIx /\ u.textDone /\ u.reasoningIx = w.reasoningIx
        /\ u.reasoningDone = w.reasoningDone
    BY <2>7 DEF Assembler, SameTexts
  <2> HIDE DEF u
  <2>9. /\ SameTexts(v, u) /\ u.calls = v.calls /\ u.bufferText = v.bufferText
        /\ u.textIx = v.textIx /\ u.reasoningIx = v.reasoningIx
        /\ u.reasoningDone = v.reasoningDone
        /\ u.reasoning = v.reasoning /\ u.content = v.content
    BY <2>7, <2>8 DEF SameTexts, SameMarks
  <2>10. Grown(v, u, e)
    BY <2>4, <2>6, <2>7, <2>8 DEF Grown
  <2>11. DonesExact(u.out)
    <3>1. TellsText(e, Spoken(v.out, e.ix)) /\ DonesExact(v.out)
      BY <2>4, <2>6 DEF TellsText
    <3>2. QED BY <2>10, <3>1, GrownDonesExact
  <2>12. ReasoningExact(u)
    <3>1. ReasoningExact(v) /\ e.type # "delta"
      BY <2>4, <2>6
    <3>2. QED BY <2>9, <2>10, <3>1, GrownReasoningExact
  <2>13. ReasoningTold(u)
    <3>1. v.reasoningIx # None => e.ix # v.reasoningIx
      <4>1. t.reasoningIx # None => t.textIx # t.reasoningIx
        BY <2>2, <2>3, IndicesDiffer
      <4>2. QED BY <2>4, <2>6, <4>1 DEF SameMarks
    <3>2. QED BY <2>4, <2>9, <2>10, <3>1, GrownReasoningTold
  <2>14. \A k \in Indices : CallExact(u, k)
    <3>1. e.type # "delta" /\ \A k \in Indices : CallExact(v, k)
      BY <2>4, <2>6
    <3>2. QED BY <2>9, <2>10, <3>1, GrownCallsExact
  <2>15. TextExact(u)
    <3>1. Spoken(u.out, v.textIx) = Spoken(v.out, v.textIx)
      <4>1. \A ix : Spoken(u.out, ix) = IF e.type = "delta" /\ e.ix = ix
                                        THEN Spoken(v.out, ix) \o e.text ELSE Spoken(v.out, ix)
        BY <2>10, GrownTexts
      <4>2. QED BY <2>6, <4>1
    <3>2. v.textIx # None
      BY <2>2, <2>4 DEF SameMarks
    <3>3. QED BY <2>4, <2>8, <2>9, <3>1, <3>2 DEF TextExact
  <2>16. \A item : Late(u.out, item) <=> Late(s.out, item)
    <3>1. \A item : Late(u.out, item) <=> Late(v.out, item)
      BY <2>6, <2>10, GrownNotLate
    <3>2. QED BY <2>2, <2>4, <3>1
  <2>17. Told(u)
    BY <1>1, <2>1, <2>11, <2>12, <2>13, <2>14, <2>15
       DEF Told, Ready, Exact, Keeps, Leads, Tends
  <2>18. SameTexts(s, u) /\ (s.reasoningDone => u.reasoningDone)
    BY <2>2, <2>4, <2>9 DEF SameTexts, SameMarks
  <2>19. \E i \in DOMAIN u.out :
           /\ u.out[i].type = "done" /\ u.out[i].ix = u.textIx
           /\ u.out[i].item = MessageItem /\ u.out[i].text = u.content
    <3>1. /\ Len(v.out) \in Nat /\ DOMAIN u.out = 1..(Len(v.out) + 1)
          /\ u.out[Len(v.out) + 1] = e
      BY <2>10, GrownFacts
    <3>2. Len(v.out) + 1 \in DOMAIN u.out
      BY <3>1
    <3>3. QED BY <2>6, <2>9, <3>1, <3>2
  <2>20. QED BY <1>1, <2>1, <2>16, <2>17, <2>18, <2>19
<1>4. QED BY <1>2, <1>3

------------------------------------------------------------------------------
(* The leading <think> block.  Once there is reasoning, no leading block   *)
(* is looked for; once it is closed, with tools offered, none is read.     *)

ThinkAgrees(s) ==
  /\ s.reasoning # <<>> => s.think # "Detecting"
  /\ s.bufferText /\ s.reasoningDone => s.think = "Done"

Thinks(s, u) ==
  Pushes(s, u) /\ (u.think = "Detecting" => s.think = "Detecting" /\ u.reasoning = s.reasoning)

LEMMA ThinksTrans ==
  ASSUME NEW s, NEW t, NEW u, Told(s), Thinks(s, t), Thinks(t, u)
  PROVE  Thinks(s, u)
BY PushesTrans DEF Thinks

LEMMA ThinksTold == ASSUME NEW s, NEW u, Thinks(s, u) PROVE Told(u)
BY PushesTold DEF Thinks

LEMMA ThinksSelf == ASSUME NEW s, Told(s) PROVE Thinks(s, s)
BY PushesSelf DEF Thinks

LEMMA SetThinkThinks ==
  ASSUME NEW s, Told(s), NEW text \in Text, NEW state \in {"InThink", "Done"}
  PROVE  /\ Thinks(s, [s EXCEPT !.buffer = text])
         /\ Thinks(s, [s EXCEPT !.buffer = text, !.think = state])
         /\ Thinks(s, [s EXCEPT !.think = state])
         /\ [s EXCEPT !.buffer = text, !.think = state].think = state
         /\ [s EXCEPT !.think = state].think = state
         /\ [s EXCEPT !.think = state].reasoning = s.reasoning
<1>1. s \in Assembler
  BY DEF Told, Ready, Good
<1>2. /\ [s EXCEPT !.buffer = text].think = s.think
      /\ [s EXCEPT !.buffer = text].reasoning = s.reasoning
      /\ [s EXCEPT !.buffer = text, !.think = state].think = state
      /\ [s EXCEPT !.think = state].think = state
      /\ [s EXCEPT !.think = state].reasoning = s.reasoning
  BY <1>1 DEF Assembler
<1>3. /\ Pushes(s, [s EXCEPT !.buffer = text])
      /\ Pushes(s, [s EXCEPT !.buffer = text, !.think = state])
      /\ Pushes(s, [s EXCEPT !.think = state])
  BY SetThinkPushes
<1>4. state # "Detecting"
  OBVIOUS
<1>5. QED BY <1>2, <1>3, <1>4 DEF Thinks

LEMMA PushTextDeltaThinks ==
  ASSUME NEW s, Told(s), NEW text \in Text
  PROVE  LET u == PushTextDelta(s, text) IN
         Thinks(s, u) /\ u.think = s.think /\ (s.bufferText => u.out = s.out)
<1>1. s.bufferText => PushTextDelta(s, text).out = s.out
  BY DEF PushTextDelta, Told, Ready, Good, Assembler
<1>2. QED BY <1>1, PushTextDeltaPushes DEF Thinks

LEMMA PushReasoningDeltaThinks ==
  ASSUME NEW s, Told(s), NEW delta \in Text, delta # <<>>, s.think # "Detecting"
  PROVE  LET u == PushReasoningDelta(s, delta) IN Thinks(s, u) /\ u.think = s.think
BY PushReasoningDeltaPushes DEF Thinks

LEMMA PushPartsThinks ==
  ASSUME NEW s, Told(s), NEW parts \in Parts
  PROVE  Thinks(s, PushParts(s, parts)) /\ PushParts(s, parts).think = "Done"
<1> DEFINE t == IF parts.reasoning = <<>> THEN s ELSE PushReasoningDelta(s, parts.reasoning)
           u == [t EXCEPT !.buffer = <<>>, !.think = "Done"]
<1>1. parts.reasoning \in Text /\ parts.answer \in Text /\ <<>> \in Text
  BY DEF Parts, Text
<1>2. Pushes(s, t)
  BY <1>1, PushReasoningDeltaPushes, PushesSelf
<1>3. PushParts(s, parts) = IF parts.answer = <<>> THEN u ELSE PushTextDelta(u, parts.answer)
  BY DEF PushParts
<1> HIDE DEF t
<1>4. Told(t)
  BY <1>2, PushesTold
<1>5. Pushes(t, u)
  BY <1>1, <1>4, SetThinkPushes
<1>6. u.think = "Done"
  BY <1>4 DEF Told, Ready, Good, Assembler
<1> HIDE DEF u
<1>7. Pushes(s, u) /\ Told(u)
  BY <1>2, <1>5, PushesTrans, PushesTold
<1>8. Pushes(u, PushTextDelta(u, parts.answer)) /\ PushTextDelta(u, parts.answer).think = "Done"
  BY <1>1, <1>6, <1>7, PushTextDeltaPushes
<1>9. Pushes(s, PushTextDelta(u, parts.answer))
  BY <1>7, <1>8, PushesTrans
<1>10. QED BY <1>3, <1>6, <1>7, <1>8, <1>9 DEF Thinks

LEMMA AcceptInThinkContentThinks ==
  ASSUME NEW s, Told(s), NEW text \in Text, s.think = "InThink"
  PROVE  Thinks(s, AcceptInThinkContent(s, text))
<1> DEFINE joined == s.buffer \o text
           split == SplitIncompleteThinkCloseSuffix(joined)
           t == IF split.emit = <<>> THEN s ELSE PushReasoningDelta(s, split.emit)
<1>1. joined \in Text
  BY ConcatIsText DEF Told, Ready, Good, Assembler
<1>2. AcceptInThinkContent(s, text) =
        IF HasClose(joined)
        THEN PushParts(s, SplitAtThinkClose(joined)) ELSE [t EXCEPT !.buffer = split.keep]
  BY DEF AcceptInThinkContent
<1> HIDE DEF joined
<1>3. split.emit \in Text /\ split.keep \in Text
  BY <1>1, SplitSuffixIsText
<1> HIDE DEF split
<1>4. Thinks(s, t)
  BY <1>3, PushReasoningDeltaThinks, ThinksSelf
<1> HIDE DEF t
<1>5. Thinks(s, [t EXCEPT !.buffer = split.keep])
  <2>1. Thinks(t, [t EXCEPT !.buffer = split.keep])
    BY <1>3, <1>4, ThinksTold, SetThinkThinks
  <2>2. QED BY <1>4, <2>1, ThinksTrans, Zenon
<1>6. HasClose(joined) => Thinks(s, PushParts(s, SplitAtThinkClose(joined)))
  BY <1>1, SplitAtThinkCloseIsParts, PushPartsThinks
<1>7. QED BY <1>2, <1>5, <1>6

LEMMA DetectLeadingThinkThinks ==
  ASSUME NEW s, Told(s), NEW text \in Text
  PROVE  Thinks(s, DetectLeadingThink(s, text))
<1> DEFINE joined == s.buffer \o text
           inside == StripLeadingThinkOpenTag(joined)
           opened == [s EXCEPT !.buffer = <<>>, !.think = "InThink"]
           closed == [s EXCEPT !.buffer = <<>>, !.think = "Done"]
<1>1. joined \in Text /\ <<>> \in Text
  BY ConcatIsText DEF Told, Ready, Good, Assembler, Text
<1>2. DetectLeadingThink(s, text) =
        IF HasLeadingThinkBlock(joined)
        THEN PushParts(s, SplitLeadingThinkBlock(joined))
        ELSE IF HasLeadingOpen(joined)
        THEN IF inside = <<>> THEN opened ELSE AcceptInThinkContent(opened, inside)
        ELSE IF IsLeadingThinkPrefix(joined)
        THEN [s EXCEPT !.buffer = joined]
        ELSE PushTextDelta(closed, joined)
  BY DEF DetectLeadingThink
<1> HIDE DEF joined
<1>3. inside \in Text
  BY <1>1, AfterLeadingOpenIsText, TrimIsText DEF StripLeadingThinkOpenTag
<1> HIDE DEF inside
<1>4. /\ Thinks(s, opened) /\ Thinks(s, closed) /\ Thinks(s, [s EXCEPT !.buffer = joined])
      /\ opened.think = "InThink"
  <2>1. Thinks(s, closed)
    BY <1>1, SetThinkThinks
  <2>2. "InThink" \in {"InThink", "Done"}
    OBVIOUS
  <2>3. Thinks(s, opened) /\ opened.think = "InThink"
    <3>1. <<>> \in Text
      BY <1>1
    <3>2. Thinks(s, opened)
      BY <2>2, <3>1, SetThinkThinks
    <3>3. opened.think = "InThink"
      BY DEF Told, Ready, Good, Assembler
    <3>4. QED BY <3>2, <3>3
  <2>4. Thinks(s, [s EXCEPT !.buffer = joined])
    BY <1>1, <2>2, SetThinkThinks
  <2>5. QED BY <2>1, <2>3, <2>4
<1> HIDE DEF opened, closed
<1>5. Thinks(s, AcceptInThinkContent(opened, inside))
  BY <1>3, <1>4, ThinksTold, ThinksTrans, AcceptInThinkContentThinks
<1>6. Thinks(s, PushTextDelta(closed, joined))
  BY <1>1, <1>4, ThinksTold, ThinksTrans, PushTextDeltaThinks
<1>7. HasLeadingThinkBlock(joined) => Thinks(s, PushParts(s, SplitLeadingThinkBlock(joined)))
  BY <1>1, SplitLeadingThinkBlockIsParts, PushPartsThinks
<1>8. QED BY <1>2, <1>4, <1>5, <1>6, <1>7

(* With these, nothing is added to the closed reasoning. *)
Speaks(s, u) ==
  /\ Pushes(s, u) /\ ThinkAgrees(u)
  /\ s.bufferText => \A item : Late(u.out, item) => Late(s.out, item)

LEMMA SpeaksTrans ==
  ASSUME NEW s, NEW t, NEW u, Told(s), Speaks(s, t), Speaks(t, u)
  PROVE  Speaks(s, u)
<1>1. t.bufferText = s.bufferText
  BY DEF Speaks, Pushes, Moves, Keeps
<1>2. QED BY <1>1, PushesTrans DEF Speaks

LEMMA AcceptContentDeltaSpeaks ==
  ASSUME NEW s, Told(s), ThinkAgrees(s), NEW text \in Text
  PROVE  Speaks(s, AcceptContentDelta(s, text))
<1> DEFINE u == AcceptContentDelta(s, text)
<1>1. s.think \in {"Detecting", "InThink", "Done"}
  BY DEF Told, Ready, Good, Assembler
<1>2. Thinks(s, u)
  BY <1>1, PushTextDeltaThinks, DetectLeadingThinkThinks, AcceptInThinkContentThinks
  DEF AcceptContentDelta
<1>3. s.think = "Done" => u = PushTextDelta(s, text)
  BY DEF AcceptContentDelta
<1> HIDE DEF u
<1>4. s.think = "Done" => u.think = "Done" /\ (s.bufferText => u.out = s.out)
  BY <1>3, PushTextDeltaThinks
<1>5. u.bufferText = s.bufferText
  BY <1>2 DEF Thinks, Pushes, Moves, Keeps
<1>6. s.bufferText /\ s.reasoningDone => s.think = "Done"
  BY DEF ThinkAgrees
<1>7. ThinkAgrees(u)
  BY <1>2, <1>4, <1>5, <1>6 DEF ThinkAgrees, Thinks, Pushes
<1>8. ASSUME s.bufferText, NEW item, Late(u.out, item) PROVE Late(s.out, item)
  BY <1>2, <1>4, <1>6, <1>8 DEF Thinks, Pushes
<1>9. QED BY <1>2, <1>7, <1>8 DEF Speaks, Thinks, u

LEMMA FlushPendingThinkBufferSpeaks ==
  ASSUME NEW s, Told(s), ThinkAgrees(s)
  PROVE  /\ Speaks(s, FlushPendingThinkBuffer(s))
         /\ Speaks(s, DisableLeadingThinkDetection(s))
         /\ LET t == FlushPendingThinkBuffer(s) IN t.reasoning # <<>> => t.think = "Done"
         /\ DisableLeadingThinkDetection(s).think = "Done"
<1> DEFINE emptied == [s EXCEPT !.buffer = <<>>, !.think = "Done"]
           t == FlushPendingThinkBuffer(s)
<1>1. /\ s.think \in {"Detecting", "InThink", "Done"}
      /\ s.buffer \in Text /\ <<>> \in Text
  BY DEF Told, Ready, Good, Assembler, Text
<1>2. FlushPendingThinkBuffer(s) =
        CASE s.think = "Done" -> s
          [] s.think = "Detecting" ->
               IF s.buffer = <<>> THEN s ELSE PushTextDelta(emptied, s.buffer)
          [] s.think = "InThink" ->
               IF s.buffer = <<>> THEN emptied ELSE PushReasoningDelta(emptied, s.buffer)
  BY DEF FlushPendingThinkBuffer
<1>3. Thinks(s, emptied) /\ emptied.think = "Done"
  <2>1. "Done" \in {"InThink", "Done"}
    OBVIOUS
  <2>2. QED BY <1>1, <2>1, SetThinkThinks
<1> HIDE DEF emptied
<1>4. /\ Thinks(s, PushTextDelta(emptied, s.buffer))
      /\ PushTextDelta(emptied, s.buffer).think = "Done"
  BY <1>1, <1>3, ThinksTold, ThinksTrans, PushTextDeltaThinks
<1>5. s.buffer # <<>> =>
        /\ Thinks(s, PushReasoningDelta(emptied, s.buffer))
        /\ PushReasoningDelta(emptied, s.buffer).think = "Done"
  BY <1>1, <1>3, ThinksTold, ThinksTrans, PushReasoningDeltaThinks
<1>6. /\ Thinks(s, t) /\ (t.think = "Done" \/ t = s)
      /\ s.think \in {"InThink", "Done"} => t.think = "Done"
      /\ s.think = "Done" => t = s
  BY <1>1, <1>2, <1>3, <1>4, <1>5, ThinksSelf
<1> HIDE DEF t
<1>7. s.bufferText /\ s.reasoningDone => s.think = "Done"
  BY DEF ThinkAgrees
<1>8. Speaks(s, t)
  BY <1>6, <1>7 DEF Speaks, Thinks, Pushes, ThinkAgrees
<1>9. t.reasoning # <<>> => t.think = "Done"
  BY <1>1, <1>6 DEF ThinkAgrees
<1> DEFINE u == [t EXCEPT !.think = "Done"]
<1>10. Thinks(t, u) /\ u.think = "Done"
  <2>1. "Done" \in {"InThink", "Done"}
    OBVIOUS
  <2>2. QED BY <1>1, <1>6, <2>1, ThinksTold, SetThinkThinks
<1>11. u.out = t.out /\ u.reasoning = t.reasoning
  <2>1. Told(t)
    BY <1>6, ThinksTold
  <2>2. QED BY <2>1 DEF Told, Ready, Good, Assembler
<1>12. u = DisableLeadingThinkDetection(s)
  BY DEF DisableLeadingThinkDetection, t
<1> HIDE DEF u
<1>13. Speaks(t, u)
  BY <1>10, <1>11 DEF Speaks, Thinks, ThinkAgrees
<1>14. Speaks(s, u)
  BY <1>8, <1>13, SpeaksTrans
<1>15. QED BY <1>8, <1>9, <1>10, <1>12, <1>14 DEF t

------------------------------------------------------------------------------
(* The tool calls.                                                         *)

(* Exact but for call k. *)
ExactBut(s, k) ==
  /\ DonesExact(s.out) /\ ReasoningExact(s) /\ ReasoningTold(s) /\ TextExact(s)
  /\ \A j \in Indices \ {k} : CallExact(s, j)

Turns(s, u) ==
  /\ Told(u) /\ SameTexts(s, u) /\ u.bufferText = s.bufferText
  /\ s.bufferText => \A item : Late(u.out, item) => Late(s.out, item)

LEMMA TurnsTrans ==
  ASSUME NEW s, NEW t, NEW u, Turns(s, t), Turns(t, u) PROVE Turns(s, u)
BY DEF Turns, SameTexts

LEMMA TurnsSelf == ASSUME NEW s, Told(s) PROVE Turns(s, s)
BY DEF Turns, SameTexts

LEMMA CloseReasoningTurns ==
  ASSUME NEW s, Told(s)
  PROVE  Turns(s, CloseReasoning(s)) /\ CloseReasoning(s).calls = s.calls
BY CloseReasoningTells DEF Turns, Moves, Keeps

LEMMA FinishTextItemTurns ==
  ASSUME NEW s, Told(s), s.content # <<>>
  PROVE  Turns(s, FinishTextItem(s)) /\ FinishTextItem(s).calls = s.calls
BY FinishTextItemTells DEF Turns, Keeps

(* A call is announced without its arguments. *)
LEMMA StartToolTells ==
  ASSUME NEW s, Told(s), NEW k \in Indices, ~s.calls[k].added, ~s.calls[k].done,
         s.calls[k].id # NoText, s.calls[k].name # NoText
  PROVE  LET u == StartTool(s, k) IN
         /\ Ready(u) /\ ExactBut(u, k) /\ Spoken(u.out, u.calls[k].ix) = <<>>
         /\ SameTexts(s, u) /\ u.bufferText = s.bufferText /\ u.reasoningDone = s.reasoningDone
         /\ u.calls[k].added /\ ~u.calls[k].done /\ u.calls[k].name = s.calls[k].name
         /\ u.calls[k].id = s.calls[k].id /\ u.calls[k].args = s.calls[k].args
         /\ \A j \in Indices \ {k} : u.calls[j] = s.calls[j]
         /\ \A item : Late(u.out, item) <=> Late(s.out, item)
         /\ \A ix : DoneSent(u, ix) <=> DoneSent(s, ix)
         /\ Grown(s, u, Event("added", s.next, ToolItem(s.calls[k]), <<>>))
<1> DEFINE item == ToolItem(s.calls[k])
           a == AddItem(s, item)
           e == Event("added", s.next, item, <<>>)
           u == [a EXCEPT !.calls[k].ix = s.next, !.calls[k].added = TRUE]
<1>1. StartTool(s, k) = u
  BY DEF StartTool
<1>2. Good(s) /\ Exact(s) /\ Ready(s) /\ s.calls \in [Indices -> Call] /\ s.next \in Nat
  BY DEF Told, Ready, Good, Assembler
<1>3. item \in Item /\ s.calls[k] \in Call
  BY <1>2, CallTyped
<1>4. Ready(u)
  <2>1. Leads(s, u) /\ Advances(s, u)
    BY <1>1, <1>2, StartToolAdvances
  <2>2. QED BY <2>1 DEF Leads, Advances, Tends, Ready
<1> HIDE DEF item
<1>5. SameMarks(s, a) /\ SameTexts(s, a) /\ a \in Assembler /\ Grown(s, a, e)
  BY <1>2, <1>3, AddItemSame
<1>6. /\ DonesExact(a.out) /\ Spoken(a.out, s.next) = <<>>
      /\ \A it : Late(a.out, it) <=> Late(s.out, it)
  BY <1>2, <1>3, AddItemTexts DEF Exact
<1>7. e.type = "added"
  BY DEF Event
<1> HIDE DEF a, e
<1>8. /\ u.out = a.out /\ SameTexts(a, u) /\ u.bufferText = a.bufferText
      /\ u.reasoningIx = a.reasoningIx /\ u.reasoningDone = a.reasoningDone
      /\ u.textIx = a.textIx /\ u.textDone = a.textDone
      /\ u.calls = [a.calls EXCEPT ![k].ix = s.next, ![k].added = TRUE]
  BY <1>5 DEF Assembler, SameTexts
<1> HIDE DEF u
<1>9. /\ u.calls[k].ix = s.next /\ u.calls[k].added /\ u.calls[k].done = s.calls[k].done
      /\ u.calls[k].id = s.calls[k].id /\ u.calls[k].name = s.calls[k].name
      /\ u.calls[k].args = s.calls[k].args
      /\ \A j \in Indices \ {k} : u.calls[j] = s.calls[j]
  <2>1. u.calls = [s.calls EXCEPT ![k].ix = s.next, ![k].added = TRUE]
    BY <1>5, <1>8 DEF SameMarks
  <2>2. QED BY <1>2, <1>3, <2>1 DEF Call
<1>10. /\ SameTexts(s, u) /\ u.bufferText = s.bufferText
       /\ u.reasoningIx = s.reasoningIx /\ u.reasoningDone = s.reasoningDone
       /\ u.textIx = s.textIx /\ u.textDone = s.textDone
       /\ u.reasoning = s.reasoning /\ u.content = s.content
  BY <1>5, <1>8 DEF SameTexts, SameMarks
<1>11. Grown(s, u, e)
  BY <1>5, <1>8 DEF Grown
<1>12. ReasoningExact(u) /\ ReasoningTold(u) /\ TextExact(u)
  <2>1. ReasoningExact(s) /\ ReasoningTold(s) /\ TextExact(s)
    BY <1>2 DEF Exact
  <2>2. ReasoningExact(u)
    BY <1>7, <1>10, <1>11, <2>1, GrownReasoningExact
  <2>3. ReasoningTold(u)
    BY <1>7, <1>10, <1>11, <2>1, GrownReasoningTold
  <2>4. TextExact(u)
    BY <1>7, <1>10, <1>11, <2>1, GrownTextExact
  <2>5. QED BY <2>2, <2>3, <2>4
<1>13. \A j \in Indices \ {k} : CallExact(u, j)
  <2>1. \A ix : Spoken(u.out, ix) = IF e.type = "delta" /\ e.ix = ix
                                    THEN Spoken(s.out, ix) \o e.text ELSE Spoken(s.out, ix)
    BY <1>11, GrownTexts
  <2>2. \A j \in Indices : CallExact(s, j)
    BY <1>2 DEF Exact
  <2>3. QED BY <1>7, <1>9, <1>10, <2>1, <2>2 DEF CallExact, IsCustom
<1>14. ExactBut(u, k) /\ Spoken(u.out, u.calls[k].ix) = <<>>
  BY <1>6, <1>8, <1>9, <1>12, <1>13 DEF ExactBut
<1>15. \A it : Late(u.out, it) <=> Late(s.out, it)
  BY <1>6, <1>8
<1>16. \A ix : DoneSent(u, ix) <=> DoneSent(s, ix)
  <2> SUFFICES ASSUME NEW ix PROVE DoneSent(u, ix) <=> DoneSent(s, ix)
    OBVIOUS
  <2>1. /\ Len(s.out) \in Nat /\ DOMAIN s.out = 1..Len(s.out)
        /\ DOMAIN u.out = 1..(Len(s.out) + 1)
        /\ \A i \in DOMAIN s.out : u.out[i] = s.out[i]
        /\ u.out[Len(s.out) + 1] = e
    BY <1>11, GrownFacts
  <2>2. DoneSent(s, ix) => DoneSent(u, ix)
    BY <2>1 DEF DoneSent
  <2>3. ASSUME NEW i \in DOMAIN u.out, u.out[i].type = "done", u.out[i].ix = ix
        PROVE  DoneSent(s, ix)
    <3>1. i # Len(s.out) + 1
      BY <1>7, <2>1, <2>3
    <3>2. i \in DOMAIN s.out
      BY <2>1, <3>1
    <3>3. QED BY <2>1, <2>3, <3>2 DEF DoneSent
  <2>4. QED BY <2>2, <2>3 DEF DoneSent
<1>17. QED BY <1>1, <1>4, <1>9, <1>10, <1>11, <1>14, <1>15, <1>16 DEF e, item

(* A delta of call k, which is not closed. *)
LEMMA CallDeltaTells ==
  ASSUME NEW s, Ready(s), NEW k \in Indices, s.calls[k].added, NotDone(s, s.calls[k].ix),
         ExactBut(s, k), NEW text \in Text
  PROVE  LET e == Event("delta", s.calls[k].ix, ToolItem(s.calls[k]), text)
             u == Emit(s, e)
         IN  /\ Keeps(s, u) /\ Advances(s, u) /\ SameMarks(s, u) /\ SameTexts(s, u)
             /\ ExactBut(u, k) /\ NotDone(u, s.calls[k].ix) /\ u \in Assembler
             /\ Spoken(u.out, s.calls[k].ix) = Spoken(s.out, s.calls[k].ix) \o text
             /\ \A item : Late(u.out, item) <=> Late(s.out, item)
             /\ \A ix : DoneSent(u, ix) <=> DoneSent(s, ix)
<1> DEFINE e == Event("delta", s.calls[k].ix, ToolItem(s.calls[k]), text)
           u == Emit(s, e)
<1>1. /\ Good(s) /\ Tidy(s) /\ s \in Assembler
      /\ s.calls[k].ix \in Nat \cup {None} /\ ToolItem(s.calls[k]) \in Item
  BY CallTyped DEF Ready
<1>2. /\ Keeps(s, u) /\ \A ix : NotDone(s, ix) => NotDone(u, ix)
  BY <1>1, CallDeltaKeeps
<1>3. /\ e \in Events /\ e.type = "delta" /\ e.ix = s.calls[k].ix /\ e.text = text
  BY <1>1, DeltaTyped DEF Event
<1> HIDE DEF e
<1>4. Advances(s, u)
  BY <1>1, <1>3, EmitAdvances
<1>5. u \in Assembler /\ SameMarks(s, u) /\ SameTexts(s, u)
  BY <1>1, <1>3, EmitSame, EmitFields
<1>6. Grown(s, u, e)
  BY <1>1, <1>3, EmitFields
<1> HIDE DEF u
<1>7. e.ix # s.reasoningIx /\ e.ix # s.textIx
      /\ \A j \in Indices \ {k} : s.calls[j].added => s.calls[j].ix # e.ix
  BY <1>1, <1>3, IndicesDiffer
<1>8. /\ u.bufferText = s.bufferText /\ u.calls = s.calls
      /\ u.reasoningIx = s.reasoningIx /\ u.reasoningDone = s.reasoningDone
      /\ u.textIx = s.textIx /\ u.textDone = s.textDone
      /\ u.reasoning = s.reasoning /\ u.content = s.content
  BY <1>5 DEF SameTexts, SameMarks
<1>9. \A ix : Spoken(u.out, ix) = IF e.type = "delta" /\ e.ix = ix
                                  THEN Spoken(s.out, ix) \o e.text ELSE Spoken(s.out, ix)
  BY <1>6, GrownTexts
<1>10. ExactBut(u, k)
  <2>1. /\ DonesExact(s.out) /\ ReasoningExact(s) /\ ReasoningTold(s) /\ TextExact(s)
        /\ \A j \in Indices \ {k} : CallExact(s, j)
    BY DEF ExactBut
  <2>2. DonesExact(u.out)
    BY <1>3, <1>6, <2>1, GrownDonesExact
  <2>3. ReasoningExact(u)
    BY <1>6, <1>7, <1>8, <2>1, GrownReasoningExact
  <2>4. ReasoningTold(u)
    BY <1>3, <1>6, <1>8, <2>1, GrownReasoningTold
  <2>5. TextExact(u)
    BY <1>6, <1>7, <1>8, <2>1, GrownTextExact
  <2>6. \A j \in Indices \ {k} : CallExact(u, j)
    BY <1>7, <1>8, <1>9, <2>1 DEF CallExact, IsCustom
  <2>7. QED BY <2>2, <2>3, <2>4, <2>5, <2>6 DEF ExactBut
<1>11. \A item : Late(u.out, item) <=> Late(s.out, item)
  <2>1. NotDone(s, e.ix)
    BY <1>3
  <2>2. QED BY <1>6, <2>1, GrownNotLate
<1>12. \A ix : DoneSent(u, ix) <=> DoneSent(s, ix)
  <2>1. /\ Len(s.out) \in Nat /\ DOMAIN s.out = 1..Len(s.out)
        /\ DOMAIN u.out = 1..(Len(s.out) + 1)
        /\ \A i \in DOMAIN s.out : u.out[i] = s.out[i]
        /\ u.out[Len(s.out) + 1] = e
    BY <1>6, GrownFacts
  <2>2. QED BY <1>3, <2>1 DEF DoneSent
<1>13. QED BY <1>2, <1>3, <1>4, <1>5, <1>9, <1>10, <1>11, <1>12 DEF u, e

LEMMA EmitToolArgumentsTurns ==
  ASSUME NEW s, Ready(s), NEW k \in Indices, s.calls[k].added, ~s.calls[k].done,
         ExactBut(s, k), NEW part \in Text,
         IF IsCustom(s, s.calls[k].name)
         THEN Spoken(s.out, s.calls[k].ix) = <<>>
         ELSE Spoken(s.out, s.calls[k].ix) \o part = s.calls[k].args
  PROVE  LET u == EmitToolArguments(s, k, part) IN Turns(s, u) /\ u.calls = s.calls
<1> DEFINE e == Event("delta", s.calls[k].ix, ToolItem(s.calls[k]), part)
           d == Emit(s, e)
           u == EmitToolArguments(s, k, part)
<1>1. /\ Good(s) /\ s.calls[k].ix # None /\ NotDone(s, s.calls[k].ix)
  BY DEF Ready, Good, Core, CallsAgree
<1>2. u = IF part = <<>> \/ IsCustom(s, s.calls[k].name) THEN s ELSE d
  BY <1>1 DEF EmitToolArguments
<1> HIDE DEF u
<1>3. CASE part = <<>> \/ IsCustom(s, s.calls[k].name)
  <2>1. u = s
    BY <1>2, <1>3
  <2>2. CallExact(s, k)
    <3>1. Spoken(s.out, s.calls[k].ix) \in Text
      <4>1. s.out \in Seq(Events) /\ s \in Assembler
        BY <1>1, OutIsSeq DEF Good
      <4>2. Grown(s, Emit(s, Event("added", None, NoItem, <<>>)),
                  Event("added", None, NoItem, <<>>))
        <5>1. Event("added", None, NoItem, <<>>) \in Events
          BY ItemTypes DEF Event, Events, EventTypes, Text
        <5>2. QED BY <4>1, <5>1, EmitFields
      <4>3. QED BY <4>2, GrownTexts
    <3>2. Spoken(s.out, s.calls[k].ix) \o <<>> = Spoken(s.out, s.calls[k].ix)
      BY <3>1, ConcatEmptySeq DEF Text
    <3>3. QED BY <1>3, <3>2 DEF CallExact
  <2>3. Exact(s)
    BY <2>2 DEF ExactBut, Exact
  <2>4. QED BY <2>1, <2>3, TurnsSelf DEF Told, u
<1>4. CASE ~(part = <<>> \/ IsCustom(s, s.calls[k].name))
  <2>1. u = d
    BY <1>2, <1>4
  <2>2. /\ Keeps(s, d) /\ Advances(s, d) /\ SameMarks(s, d) /\ SameTexts(s, d)
        /\ ExactBut(d, k) /\ NotDone(d, s.calls[k].ix)
        /\ Spoken(d.out, s.calls[k].ix) = Spoken(s.out, s.calls[k].ix) \o part
        /\ \A item : Late(d.out, item) <=> Late(s.out, item)
    BY <1>1, CallDeltaTells
  <2> HIDE DEF d
  <2>3. CallExact(d, k)
    BY <1>4, <2>2 DEF CallExact, IsCustom, SameMarks
  <2>4. Exact(d)
    BY <2>2, <2>3 DEF ExactBut, Exact
  <2>5. Ready(d)
    BY <2>2, MovesReady DEF Moves
  <2>6. QED BY <2>1, <2>2, <2>4, <2>5 DEF Turns, Told, SameMarks, u
<1>5. QED BY <1>3, <1>4

LEMMA EnsureToolStartedTurns ==
  ASSUME NEW s, Told(s), NoneDone(s), NEW k \in Indices
  PROVE  LET u == EnsureToolStarted(s, k) IN
         /\ Turns(s, u) /\ (s.calls[k].added => u = s)
         /\ \A j \in Indices : u.calls[j].args = s.calls[j].args
<1>1. CASE s.calls[k].added \/ s.calls[k].id = NoText \/ s.calls[k].name = NoText
  BY <1>1, TurnsSelf DEF EnsureToolStarted
<1>2. CASE ~(s.calls[k].added \/ s.calls[k].id = NoText \/ s.calls[k].name = NoText)
  <2> DEFINE t == IF ~s.bufferText /\ s.content # <<>> /\ ~s.textDone
                  THEN FinishTextItem(s) ELSE s
             v == CloseReasoning(t)
             w == StartTool(v, k)
             u == EmitToolArguments(w, k, s.calls[k].args)
  <2>1. EnsureToolStarted(s, k) = u
    BY <1>2 DEF EnsureToolStarted
  <2>2. Turns(s, t) /\ t.calls = s.calls
    BY FinishTextItemTurns, TurnsSelf
  <2> HIDE DEF t
  <2>3. Told(t)
    BY <2>2 DEF Turns
  <2>4. Turns(t, v) /\ v.calls = t.calls
    BY <2>3, CloseReasoningTurns
  <2> HIDE DEF v
  <2>5. Turns(s, v) /\ Told(v) /\ v.calls = s.calls
    BY <2>2, <2>4, TurnsTrans DEF Turns
  <2>6. /\ ~v.calls[k].added /\ ~v.calls[k].done
        /\ v.calls[k].id # NoText /\ v.calls[k].name # NoText
    BY <1>2, <2>5 DEF NoneDone
  <2>7. /\ Ready(w) /\ ExactBut(w, k) /\ Spoken(w.out, w.calls[k].ix) = <<>>
        /\ SameTexts(v, w) /\ w.bufferText = v.bufferText
        /\ w.calls[k].added /\ ~w.calls[k].done
        /\ w.calls[k].args = v.calls[k].args
        /\ \A j \in Indices \ {k} : w.calls[j] = v.calls[j]
        /\ \A item : Late(w.out, item) <=> Late(v.out, item)
    BY <2>5, <2>6, StartToolTells
  <2> HIDE DEF w
  <2>8. s.calls[k].args \in Text
    BY CallTyped DEF Told, Ready
  <2>9. <<>> \o s.calls[k].args = s.calls[k].args
    BY <2>8, ConcatEmptySeq DEF Text
  <2>10. IF IsCustom(w, w.calls[k].name)
         THEN Spoken(w.out, w.calls[k].ix) = <<>>
         ELSE Spoken(w.out, w.calls[k].ix) \o s.calls[k].args = w.calls[k].args
    BY <2>5, <2>7, <2>9
  <2>11. Turns(w, u) /\ u.calls = w.calls
    BY <2>7, <2>8, <2>10, EmitToolArgumentsTurns
  <2> HIDE DEF u
  <2>12. Turns(v, u)
    BY <2>7, <2>11 DEF Turns, SameTexts
  <2>13. Turns(s, u)
    BY <2>5, <2>12, TurnsTrans
  <2>14. \A j \in Indices : u.calls[j].args = s.calls[j].args
    BY <2>5, <2>7, <2>11
  <2>15. QED BY <1>2, <2>1, <2>13, <2>14
<1>3. QED BY <1>1, <1>2

LEMMA AcceptToolDeltaTurns ==
  ASSUME NEW s, Told(s), NoneDone(s), NEW d \in ToolDelta
  PROVE  LET u == AcceptToolDelta(s, d) IN
         /\ Turns(s, u)
         /\ \A j \in Indices : u.calls[j].args =
              IF d.index = j THEN s.calls[j].args \o d.args ELSE s.calls[j].args
<1>1. CASE d.index \notin Indices
  BY <1>1, TurnsSelf DEF AcceptToolDelta
<1>2. CASE d.index \in Indices
  <2> DEFINE k == d.index
             m == Merged(s, d)
             v == EnsureToolStarted(m, k)
             w == EmitToolArguments(m, k, d.args)
  <2>1. d.args \in Text /\ Ready(s) /\ Exact(s)
    BY DEF ToolDelta, Told
  <2>2. AcceptToolDelta(s, d) =
          IF s.calls[k].added THEN EmitToolArguments(v, k, d.args) ELSE v
    BY <1>2 DEF AcceptToolDelta, Merged
  <2>3. /\ Calls(s, m) /\ m.out = s.out /\ m.reasoningIx = s.reasoningIx
        /\ m.reasoningDone = s.reasoningDone /\ m.textIx = s.textIx
        /\ m.textDone = s.textDone /\ m.bufferText = s.bufferText
        /\ m.reasoning = s.reasoning /\ m.content = s.content
        /\ m.think = s.think /\ m.buffer = s.buffer
        /\ m.output = s.output /\ m.pending = s.pending
        /\ \A j \in Indices \ {k} : m.calls[j] = s.calls[j]
        /\ m.calls[k].args = s.calls[k].args \o d.args
        /\ m.calls[k].ix = s.calls[k].ix /\ m.calls[k].added = s.calls[k].added
        /\ s.calls[k].added => m.calls[k].name = s.calls[k].name
    BY <1>2, <2>1, MergedCalls
  <2> HIDE DEF m
  <2>4. Ready(m) /\ NoneDone(m) /\ SameTexts(s, m)
    BY <2>3, CallsReady DEF SameTexts
  <2>5. ExactBut(m, k)
    <3>1. DonesExact(m.out) /\ ReasoningExact(m) /\ ReasoningTold(m) /\ TextExact(m)
      BY <2>1, <2>3 DEF Exact, ReasoningExact, ReasoningTold, TextExact
    <3>2. \A j \in Indices \ {k} : CallExact(m, j)
      BY <2>1, <2>3 DEF Exact, CallExact, IsCustom
    <3>3. QED BY <3>1, <3>2 DEF ExactBut
  <2>6. \A j \in Indices : m.calls[j].args =
          IF d.index = j THEN s.calls[j].args \o d.args ELSE s.calls[j].args
    BY <2>3
  <2>7. CASE ~s.calls[k].added
    <3>1. CallExact(m, k)
      BY <2>3, <2>7 DEF CallExact
    <3>2. Told(m)
      BY <2>4, <2>5, <3>1 DEF ExactBut, Exact, Told
    <3>3. Turns(s, m)
      BY <2>3, <2>4, <3>2 DEF Turns
    <3>4. Turns(m, v) /\ \A j \in Indices : v.calls[j].args = m.calls[j].args
      BY <1>2, <2>4, <3>2, EnsureToolStartedTurns
    <3> HIDE DEF v
    <3>5. Turns(s, v)
      BY <3>3, <3>4, TurnsTrans
    <3>6. QED BY <2>2, <2>6, <2>7, <3>4, <3>5
  <2>8. CASE s.calls[k].added
    <3>1. v = m
      BY <2>3, <2>8 DEF EnsureToolStarted
    <3>2. m.calls[k].added /\ ~m.calls[k].done
      BY <1>2, <2>3, <2>4, <2>8 DEF NoneDone
    <3>3. IF IsCustom(m, m.calls[k].name)
          THEN Spoken(m.out, m.calls[k].ix) = <<>>
          ELSE Spoken(m.out, m.calls[k].ix) \o d.args = m.calls[k].args
      <4>1. CallExact(s, k) /\ ~s.calls[k].done
        BY <1>2, <2>1 DEF Exact, NoneDone
      <4>2. Spoken(s.out, s.calls[k].ix) =
              IF IsCustom(s, s.calls[k].name) THEN <<>> ELSE s.calls[k].args
        BY <2>8, <4>1 DEF CallExact
      <4>3. IsCustom(m, m.calls[k].name) <=> IsCustom(s, s.calls[k].name)
        BY <2>3, <2>8 DEF IsCustom
      <4>4. QED BY <2>3, <4>2, <4>3
    <3>4. Turns(m, w) /\ w.calls = m.calls
      BY <1>2, <2>1, <2>4, <2>5, <3>2, <3>3, EmitToolArgumentsTurns
    <3>5. AcceptToolDelta(s, d) = w
      BY <2>2, <2>8, <3>1
    <3> HIDE DEF w, v
    <3>6. Turns(s, w)
      BY <2>3, <2>4, <3>4 DEF Turns, SameTexts
    <3>7. QED BY <2>6, <3>4, <3>5, <3>6
  <2>9. QED BY <2>7, <2>8
<1>3. QED BY <1>1, <1>2

------------------------------------------------------------------------------
(* accept.                                                                 *)

(* What a chunk's reasoning adds. *)
LEMMA AcceptReasoningFieldPushes ==
  ASSUME NEW s, Told(s), ThinkAgrees(s), NEW c \in Chunk
  PROVE  LET r == AcceptReasoningField(s, c) IN
         /\ Pushes(s, r) /\ ThinkAgrees(r)
         /\ s.bufferText /\ c.reasoning = <<>> => \A item : Late(r.out, item) => Late(s.out, item)
<1>1. CASE c.reasoning = <<>>
  BY <1>1, PushesSelf DEF AcceptReasoningField
<1>2. CASE c.reasoning # <<>>
  <2> DEFINE x == DisableLeadingThinkDetection(s)
             r == PushReasoningDelta(x, c.reasoning)
  <2>1. AcceptReasoningField(s, c) = r
    BY <1>2 DEF AcceptReasoningField
  <2>2. Pushes(s, x) /\ x.think = "Done"
    BY FlushPendingThinkBufferSpeaks DEF Speaks
  <2> HIDE DEF x
  <2>3. Told(x) /\ c.reasoning \in Text
    BY <2>2, PushesTold DEF Chunk
  <2>4. Pushes(x, r) /\ r.think = "Done"
    BY <1>2, <2>2, <2>3, PushReasoningDeltaPushes
  <2> HIDE DEF r
  <2>5. Pushes(s, r)
    BY <2>2, <2>4, PushesTrans
  <2>6. ThinkAgrees(r)
    BY <2>4 DEF ThinkAgrees
  <2>7. QED BY <1>2, <2>1, <2>5, <2>6
<1>3. QED BY <1>1, <1>2

(* The reasoning is only closed where there is some. *)
LEMMA TurnsThinkAgrees ==
  ASSUME NEW s, NEW u, Turns(s, u), s.reasoning # <<>> => s.think = "Done"
  PROVE  ThinkAgrees(u)
<1>1. u.reasoning = s.reasoning /\ u.think = s.think /\ Tidy(u)
  BY DEF Turns, SameTexts, Told, Ready
<1>2. u.reasoningDone => u.reasoning # <<>>
  BY <1>1 DEF Tidy, ReasoningTidy
<1>3. QED BY <1>1, <1>2 DEF ThinkAgrees

(* What a chunk's tool_calls add, after what is left of the buffer. *)
LEMMA AcceptCallsFieldTells ==
  ASSUME NEW s, Told(s), NoneDone(s), ThinkAgrees(s), NEW c \in Chunk
  PROVE  LET u == AcceptCallsField(s, c) IN
         /\ Told(u) /\ ThinkAgrees(u) /\ u.output = s.output /\ u.pending = s.pending
         /\ u.bufferText = s.bufferText
         /\ \A k \in Indices : u.calls[k].args = s.calls[k].args \o ArgsFor(c, k)
         /\ s.bufferText =>
              /\ u.reasoningDone => s.reasoningDone \/ c.calls
              /\ \A item : Late(u.out, item) => Late(s.out, item)
<1>0. \A k \in Indices : s.calls[k].args \in Text
  BY CallTyped DEF Told, Ready
<1>1. \A k \in Indices : s.calls[k].args \o <<>> = s.calls[k].args
  BY <1>0, ConcatEmptySeq DEF Text
<1>2. CASE ~c.calls
  <2>1. AcceptCallsField(s, c) = s
    BY <1>2 DEF AcceptCallsField
  <2>2. \A k \in Indices : ArgsFor(c, k) = <<>>
    BY <1>2 DEF ArgsFor
  <2>3. QED BY <1>1, <2>1, <2>2
<1>3. CASE c.calls
  <2> DEFINE g == FlushPendingThinkBuffer(s)
             f == CloseReasoning(g)
             u == AcceptToolDelta(f, c.delta)
  <2>1. AcceptCallsField(s, c) = u
    BY <1>3 DEF AcceptCallsField
  <2>2. Speaks(s, g) /\ (g.reasoning # <<>> => g.think = "Done")
    BY FlushPendingThinkBufferSpeaks
  <2> HIDE DEF g
  <2>3. /\ Told(g) /\ g.calls = s.calls /\ g.bufferText = s.bufferText
        /\ g.output = s.output /\ g.pending = s.pending
    BY <2>2, PushesTold DEF Speaks, Pushes, Moves, Keeps
  <2>4. Turns(g, f) /\ f.calls = g.calls
    BY <2>3, CloseReasoningTurns
  <2> HIDE DEF f
  <2>5. Told(f) /\ NoneDone(f) /\ c.delta \in ToolDelta
    BY <2>3, <2>4 DEF Turns, NoneDone, Chunk
  <2>6. /\ Turns(f, u)
        /\ \A j \in Indices : u.calls[j].args =
             IF c.delta.index = j THEN f.calls[j].args \o c.delta.args ELSE f.calls[j].args
    BY <2>5, AcceptToolDeltaTurns
  <2> HIDE DEF u
  <2>7. Turns(g, u)
    BY <2>4, <2>6, TurnsTrans
  <2>8. ThinkAgrees(u)
    BY <2>2, <2>7, TurnsThinkAgrees
  <2>9. \A k \in Indices : u.calls[k].args = s.calls[k].args \o ArgsFor(c, k)
    <3>1. f.calls = s.calls
      BY <2>3, <2>4
    <3> SUFFICES ASSUME NEW k \in Indices
                 PROVE  u.calls[k].args = s.calls[k].args \o ArgsFor(c, k)
      OBVIOUS
    <3>2. u.calls[k].args =
            IF c.delta.index = k THEN s.calls[k].args \o c.delta.args ELSE s.calls[k].args
      BY <2>6, <3>1
    <3>3. CASE c.delta.index = k
      BY <1>3, <3>2, <3>3 DEF ArgsFor
    <3>4. CASE c.delta.index # k
      BY <1>1, <3>2, <3>4 DEF ArgsFor
    <3>5. QED BY <3>3, <3>4
  <2>10. ASSUME s.bufferText, NEW item, Late(u.out, item) PROVE Late(s.out, item)
    BY <2>2, <2>3, <2>7, <2>10 DEF Turns, Speaks
  <2>11. Told(u) /\ u.output = s.output /\ u.pending = s.pending /\ u.bufferText = s.bufferText
    BY <2>3, <2>7 DEF Turns, SameTexts
  <2>12. QED BY <1>3, <2>1, <2>8, <2>9, <2>10, <2>11
<1>4. QED BY <1>2, <1>3

LEMMA AcceptTells ==
  ASSUME NEW s, Told(s), NoneDone(s), ThinkAgrees(s), NEW c \in Chunk
  PROVE  LET u == Accept(s, c) IN
         /\ Exact(u) /\ ThinkAgrees(u) /\ u.output = s.output /\ u.pending = s.pending
         /\ u.bufferText = s.bufferText
         /\ \A k \in Indices : u.calls[k].args = s.calls[k].args \o ArgsFor(c, k)
         /\ s.bufferText =>
              /\ u.reasoningDone => s.reasoningDone \/ c.calls
              /\ \A item : Late(u.out, item) =>
                   \/ Late(s.out, item)
                   \/ item = ReasoningItem /\ s.reasoningDone /\ c.reasoning # <<>>
<1> DEFINE r == AcceptReasoningField(s, c)
           t == AcceptContentField(r, c)
           u == AcceptCallsField(t, c)
           w == [u EXCEPT !.finish = c.finish]
<1>1. /\ Pushes(s, r) /\ ThinkAgrees(r)
      /\ s.bufferText /\ c.reasoning = <<>> => \A item : Late(r.out, item) => Late(s.out, item)
  BY AcceptReasoningFieldPushes
<1>2. Accept(s, c) = IF c.finish = NoText THEN u ELSE w
  BY DEF Accept
<1> HIDE DEF r
<1>3. Told(r) /\ c.content \in Text
  BY <1>1, PushesTold DEF Chunk
<1>4. Speaks(r, t)
  <2>1. Speaks(r, r)
    BY <1>1, <1>3, PushesSelf DEF Speaks
  <2>2. Speaks(r, AcceptContentDelta(r, c.content))
    BY <1>1, <1>3, AcceptContentDeltaSpeaks
  <2>3. QED BY <2>1, <2>2 DEF AcceptContentField
<1> HIDE DEF t
<1>5. /\ r.calls = s.calls /\ r.bufferText = s.bufferText
      /\ r.output = s.output /\ r.pending = s.pending
      /\ t.calls = s.calls /\ t.bufferText = s.bufferText
      /\ t.output = s.output /\ t.pending = s.pending
  BY <1>1, <1>4 DEF Speaks, Pushes, Moves, Keeps
<1>6. Told(t) /\ NoneDone(t) /\ ThinkAgrees(t)
  BY <1>4, <1>5, PushesTold DEF Speaks, NoneDone
<1>7. /\ Told(u) /\ ThinkAgrees(u) /\ u.output = t.output /\ u.pending = t.pending
      /\ u.bufferText = t.bufferText
      /\ \A k \in Indices : u.calls[k].args = t.calls[k].args \o ArgsFor(c, k)
      /\ t.bufferText =>
           /\ u.reasoningDone => t.reasoningDone \/ c.calls
           /\ \A item : Late(u.out, item) => Late(t.out, item)
  BY <1>6, AcceptCallsFieldTells
<1> HIDE DEF u
<1>8. /\ w.out = u.out /\ w.calls = u.calls /\ w.bufferText = u.bufferText
      /\ w.reasoning = u.reasoning /\ w.reasoningIx = u.reasoningIx
      /\ w.reasoningDone = u.reasoningDone /\ w.content = u.content
      /\ w.textIx = u.textIx /\ w.textDone = u.textDone /\ w.think = u.think
      /\ w.output = u.output /\ w.pending = u.pending
  BY <1>7 DEF Told, Ready, Good, Assembler
<1> HIDE DEF w
<1>9. Exact(u) /\ Exact(w) /\ ThinkAgrees(w)
  <2>1. Exact(u)
    BY <1>7 DEF Told
  <2>2. /\ ReasoningExact(w) /\ ReasoningTold(w) /\ TextExact(w) /\ DonesExact(w.out)
    BY <1>8, <2>1 DEF Exact, ReasoningExact, ReasoningTold, TextExact
  <2>3. \A k \in Indices : CallExact(w, k)
    BY <1>8, <2>1 DEF Exact, CallExact, IsCustom
  <2>4. ThinkAgrees(w)
    BY <1>7, <1>8 DEF ThinkAgrees
  <2>5. QED BY <2>1, <2>2, <2>3, <2>4 DEF Exact
<1>10. ASSUME s.bufferText
       PROVE  /\ u.reasoningDone => s.reasoningDone \/ c.calls
              /\ \A item : Late(u.out, item) =>
                   \/ Late(s.out, item)
                   \/ item = ReasoningItem /\ s.reasoningDone /\ c.reasoning # <<>>
  <2>1. t.reasoningDone = s.reasoningDone
    BY <1>1, <1>4, <1>5, <1>10 DEF Speaks, Pushes
  <2>2. ASSUME NEW item, Late(u.out, item)
        PROVE  \/ Late(s.out, item)
               \/ item = ReasoningItem /\ s.reasoningDone /\ c.reasoning # <<>>
    <3>1. Late(r.out, item)
      BY <1>4, <1>5, <1>7, <1>10, <2>2 DEF Speaks
    <3>2. QED BY <1>1, <1>10, <3>1 DEF Pushes
  <2>3. QED BY <1>5, <1>7, <1>10, <2>1, <2>2
<1>11. QED BY <1>2, <1>5, <1>7, <1>8, <1>9, <1>10

------------------------------------------------------------------------------
(* finalize: what was streamed is what is listed.                          *)

ClosedIxs(s) == {ix \in Nat : DoneSent(s, ix)}

Shown(s) ==
  {[item |-> s.out[i].item, text |-> s.out[i].text] :
     i \in {j \in DOMAIN s.out : s.out[j].type = "done"}}

(* With tools offered, the output lists the items that are closed.         *)
Listed(s) ==
  s.bufferText =>
    /\ IsFiniteSet(ClosedIxs(s)) /\ Cardinality(ClosedIxs(s)) = Len(s.output)
    /\ ~Late(s.out, ReasoningItem) => ToSet(s.output) = Shown(s)

LEMMA AppendListed ==
  ASSUME NEW o \in Seq(Output), NEW p \in Output
  PROVE  /\ Append(o, p) \in Seq(Output) /\ Len(Append(o, p)) = Len(o) + 1 /\ Len(o) \in Nat
         /\ DOMAIN o = 1..Len(o) /\ DOMAIN Append(o, p) = 1..(Len(o) + 1)
         /\ \A i \in 1..Len(o) : Append(o, p)[i] = o[i]
         /\ Append(o, p)[Len(o) + 1] = p
         /\ ToSet(Append(o, p)) = ToSet(o) \cup {p}
<1>1. /\ Append(o, p) \in Seq(Output) /\ Len(Append(o, p)) = Len(o) + 1 /\ Len(o) \in Nat
      /\ \A i \in 1..Len(o) : Append(o, p)[i] = o[i]
      /\ Append(o, p)[Len(o) + 1] = p
  BY AppendProperties, LenProperties
<1>2. DOMAIN o = 1..Len(o) /\ DOMAIN Append(o, p) = 1..(Len(o) + 1)
  BY <1>1, LenProperties
<1>3. ToSet(Append(o, p)) = ToSet(o) \cup {p}
  BY <1>1, <1>2 DEF ToSet
<1>4. QED BY <1>1, <1>2, <1>3

LEMMA AddOutputTells ==
  ASSUME NEW s, Told(s), NEW item \in Item, NEW text \in Text
  PROVE  LET u == AddOutput(s, item, text) IN
         /\ Told(u) /\ SameMarks(s, u) /\ u.out = s.out
         /\ u.output = Append(s.output, [item |-> item, text |-> text])
         /\ u.pending = s.pending /\ u.content = s.content /\ u.reasoning = s.reasoning
         /\ u.think = s.think
<1> DEFINE u == AddOutput(s, item, text)
<1>1. s \in Assembler /\ Ready(s) /\ Exact(s)
  BY DEF Told, Ready, Good
<1>2. Moves(s, u) /\ SameFields(s, u)
  BY <1>1, AddOutputMoves
<1>3. /\ u.out = s.out /\ u.output = Append(s.output, [item |-> item, text |-> text])
      /\ u.pending = s.pending /\ u.think = s.think
  BY <1>1 DEF AddOutput, Assembler
<1> HIDE DEF u
<1>4. SameMarks(s, u) /\ u.content = s.content /\ u.reasoning = s.reasoning
  BY <1>2 DEF SameFields
<1>5. Exact(u)
  BY <1>1, <1>3, <1>4
     DEF Exact, ReasoningExact, ReasoningTold, TextExact, CallExact, IsCustom, SameMarks
<1>6. Told(u)
  BY <1>2, <1>5, MovesReady DEF Told
<1>7. QED BY <1>3, <1>4, <1>6 DEF u

(* Before the calls, only the reasoning and the message can be closed. *)
LEMMA ClosedItem ==
  ASSUME NEW s, Ready(s), NoneDone(s), NEW i \in DOMAIN s.out, s.out[i].type = "done"
  PROVE  \/ s.reasoningIx # None /\ s.out[i].ix = s.reasoningIx /\ s.out[i].item = ReasoningItem
         \/ s.textIx # None /\ s.out[i].ix = s.textIx /\ s.out[i].item = MessageItem
<1>1. Good(s) /\ Owned(s)
  BY DEF Ready, Tidy
<1>2. Known(s, s.out[i].ix, s.out[i].item)
  BY <1>1, DoneIsKnown
<1>3. OwnedItem(s, s.out[i].ix, s.out[i].item)
  BY <1>1, <1>2 DEF Known, Owned
<1>4. \A k \in Indices : s.calls[k].added => s.calls[k].ix # s.out[i].ix
  BY <1>1 DEF Good, Core, CallsAgree, NoneDone, NotDone
<1>5. QED BY <1>3, <1>4 DEF OwnedItem

(* The entries of the reasoning and the message in the output. *)
ReasoningEntry(v) == [item |-> ReasoningItem, text |-> v.reasoning]
MessageEntry(v) == [item |-> MessageItem, text |-> v.content]
Opening(v) == IF v.reasoning = <<>> THEN <<>> ELSE Append(<<>>, ReasoningEntry(v))

(* v has closed the reasoning and the message, x has listed them. *)
LEMMA OpeningListed ==
  ASSUME NEW v, Told(v), NoneDone(v), NEW x, x.out = v.out, x.bufferText = v.bufferText,
         v.reasoningIx # None => v.reasoningDone, NEW shown \in BOOLEAN,
         v.bufferText => (shown <=> v.textIx # None),
         v.bufferText /\ shown =>
           /\ v.textDone
           /\ \E i \in DOMAIN v.out :
                /\ v.out[i].type = "done" /\ v.out[i].ix = v.textIx
                /\ v.out[i].item = MessageItem /\ v.out[i].text = v.content,
         x.output = (IF shown THEN Append(Opening(v), MessageEntry(v)) ELSE Opening(v))
  PROVE  Listed(x)
<1> DEFINE r == ReasoningEntry(v)
           m == MessageEntry(v)
           o == Opening(v)
<1>a. v.reasoning \in Text /\ v.content \in Text
  BY DEF Told, Ready, Good, Assembler
<1>b. r \in Output /\ m \in Output
  BY <1>a, ItemTypes DEF ReasoningEntry, MessageEntry, Output
<1>c. /\ r = [item |-> ReasoningItem, text |-> v.reasoning]
      /\ m = [item |-> MessageItem, text |-> v.content]
      /\ o = (IF v.reasoning = <<>> THEN <<>> ELSE Append(<<>>, r))
  BY DEF ReasoningEntry, MessageEntry, Opening
<1>d. x.output = (IF shown THEN Append(o, m) ELSE o)
  OBVIOUS
<1> HIDE DEF r, m, o
<1>e. o \in Seq(Output) /\ (o = <<>> \/ v.reasoning # <<>>)
  BY <1>b, <1>c
<1> USE <1>b, <1>c, <1>d, <1>e
<1> SUFFICES ASSUME v.bufferText
             PROVE  /\ IsFiniteSet(ClosedIxs(x)) /\ Cardinality(ClosedIxs(x)) = Len(x.output)
                    /\ ~Late(x.out, ReasoningItem) => ToSet(x.output) = Shown(x)
  BY DEF Listed
<1>1. /\ Ready(v) /\ Good(v) /\ Tidy(v) /\ ReasoningExact(v) /\ ReasoningTold(v)
      /\ v.reasoningIx \in Nat \cup {None} /\ v.textIx \in Nat \cup {None}
  BY DEF Told, Ready, Exact, Good, Assembler
<1>2. v.reasoning # <<>> <=> v.reasoningIx # None
  BY <1>1 DEF ReasoningExact, Tidy, ReasoningTidy
<1>3. /\ v.reasoningIx # None => DoneSent(v, v.reasoningIx)
      /\ shown => DoneSent(v, v.textIx)
  BY <1>1 DEF Tidy, ReasoningTidy, TextTidy
<1>4. \A ix : DoneSent(v, ix) =>
        \/ v.reasoningIx # None /\ ix = v.reasoningIx
        \/ v.textIx # None /\ ix = v.textIx
  BY <1>1, ClosedItem DEF DoneSent
<1> DEFINE C == IF v.reasoning = <<>> THEN {} ELSE {v.reasoningIx}
<1>5. ClosedIxs(x) = IF shown THEN C \cup {v.textIx} ELSE C
  <2>1. ClosedIxs(x) = ClosedIxs(v)
    BY DEF ClosedIxs, DoneSent
  <2>2. ASSUME NEW ix
        PROVE  ix \in ClosedIxs(v) <=> ((v.reasoningIx # None /\ ix = v.reasoningIx) \/ (shown /\ ix = v.textIx))
    <3>1. CASE ix \in Nat /\ DoneSent(v, ix)
      BY <1>4, <3>1 DEF ClosedIxs
    <3>2. CASE v.reasoningIx # None /\ ix = v.reasoningIx
      BY <1>1, <1>3, <3>2 DEF ClosedIxs
    <3>3. CASE shown /\ ix = v.textIx
      BY <1>1, <1>3, <3>3 DEF ClosedIxs
    <3>4. QED BY <3>1, <3>2, <3>3 DEF ClosedIxs
  <2>3. QED BY <1>2, <2>1, <2>2
<1>6. IsFiniteSet(C) /\ Cardinality(C) = Len(o) /\ Len(o) \in Nat
  <2>1. CASE v.reasoning = <<>>
    BY <2>1, FS_EmptySet
  <2>2. CASE v.reasoning # <<>>
    <3>1. <<>> \in Seq(Output) /\ Len(<<>>) = 0
      OBVIOUS
    <3>2. Len(Append(<<>>, r)) = Len(<<>>) + 1
      BY <3>1, AppendListed
    <3>3. o = Append(<<>>, r)
      BY <2>2
    <3>4. Len(o) = 1
      <4>1. Len(<<>>) + 1 = 1
        BY <3>1
      <4>2. QED BY <3>2, <3>3, <4>1, Zenon
    <3>5. C = {v.reasoningIx}
      BY <2>2
    <3>6. IsFiniteSet(C) /\ Cardinality(C) = 1
      BY <3>5, FS_Singleton
    <3>7. QED BY <3>4, <3>6
  <2>3. QED BY <2>1, <2>2
<1>7. shown => v.textIx \notin C
  BY <1>1, <1>2, IndicesDiffer
<1>8. IsFiniteSet(ClosedIxs(x)) /\ Cardinality(ClosedIxs(x)) = Len(x.output)
  <2>1. CASE ~shown
    BY <1>5, <1>6, <2>1
  <2>2. CASE shown
    <3>1. IsFiniteSet(C \cup {v.textIx}) /\ Cardinality(C \cup {v.textIx}) = Cardinality(C) + 1
      <4> HIDE DEF C
      <4>1. QED BY <1>6, <1>7, <2>2, FS_AddElement
    <3>2. Len(x.output) = Len(o) + 1
      BY <2>2, AppendListed
    <3>3. QED BY <1>5, <1>6, <2>2, <3>1, <3>2
  <2>3. QED BY <2>1, <2>2
<1>9. ASSUME ~Late(x.out, ReasoningItem) PROVE ToSet(x.output) = Shown(x)
  <2> DEFINE R == IF v.reasoning = <<>> THEN {} ELSE {r}
  <2>1. ToSet(o) = R
    <3>1. ToSet(<<>>) = {} /\ <<>> \in Seq(Output)
      BY DEF ToSet
    <3>2. ToSet(Append(<<>>, r)) = ToSet(<<>>) \cup {r}
      BY <3>1, AppendListed
    <3>3. QED BY <3>1, <3>2
  <2>2. ToSet(x.output) = IF shown THEN R \cup {m} ELSE R
    <3>1. ToSet(Append(o, m)) = ToSet(o) \cup {m}
      <4>1. \A a \in Seq(Output), b \in Output : ToSet(Append(a, b)) = ToSet(a) \cup {b}
        BY AppendListed
      <4>2. o \in Seq(Output) /\ m \in Output
        OBVIOUS
      <4>3. QED BY <4>1, <4>2, Zenon
    <3>2. QED BY <2>1, <3>1
  <2>3. ASSUME NEW i \in DOMAIN v.out, v.out[i].type = "done"
        PROVE  LET p == [item |-> v.out[i].item, text |-> v.out[i].text] IN
               (v.reasoning # <<>> /\ p = r) \/ (shown /\ p = m)
    <3>1. CASE v.reasoningIx # None /\ v.out[i].ix = v.reasoningIx /\ v.out[i].item = ReasoningItem
      <4>1. v.out[i].text = v.reasoning
        BY <1>1, <1>9, <2>3, <3>1 DEF ReasoningTold
      <4>2. QED BY <1>2, <3>1, <4>1
    <3>2. CASE v.textIx # None /\ v.out[i].ix = v.textIx /\ v.out[i].item = MessageItem
      <4>1. PICK j \in DOMAIN v.out :
              /\ v.out[j].type = "done" /\ v.out[j].ix = v.textIx
              /\ v.out[j].item = MessageItem /\ v.out[j].text = v.content
        BY <3>2
      <4>2. i = j
        BY <1>1, <2>3, <3>2, <4>1 DEF Good, Core, DoneOnce
      <4>3. QED BY <3>2, <4>1, <4>2
    <3>3. QED BY <1>1, <2>3, <3>1, <3>2, ClosedItem
  <2>4. v.reasoning # <<>> => r \in Shown(v)
    <3> SUFFICES ASSUME v.reasoning # <<>> PROVE r \in Shown(v)
      OBVIOUS
    <3>1. PICK i \in DOMAIN v.out : v.out[i].type = "done" /\ v.out[i].ix = v.reasoningIx
      BY <1>2, <1>3 DEF DoneSent
    <3>2. v.out[i].item = ReasoningItem
      <4>1. v.textIx # None => v.textIx # v.reasoningIx
        BY <1>1, <1>2, IndicesDiffer
      <4>2. QED BY <1>1, <3>1, <4>1, ClosedItem
    <3>3. v.out[i].text = v.reasoning
      BY <1>1, <1>2, <1>9, <3>1 DEF ReasoningTold
    <3>4. QED BY <3>1, <3>2, <3>3 DEF Shown
  <2>5. shown => m \in Shown(v)
    BY DEF Shown
  <2>6. Shown(x) = Shown(v)
    BY DEF Shown
  <2>7. \A p \in Shown(v) : (v.reasoning # <<>> /\ p = r) \/ (shown /\ p = m)
    BY <2>3 DEF Shown
  <2>8. QED BY <2>2, <2>4, <2>5, <2>6, <2>7
<1>10. QED BY <1>8, <1>9

(* A message that finalize closes. *)
LEMMA FinishShownTells ==
  ASSUME NEW u, Told(u), NoneDone(u), u.content # <<>>,
         u.reasoningIx # None => u.reasoningDone,
         u.bufferText => u.textIx = None
  PROVE  LET v == FinishTextItem(u) IN
         /\ Told(v) /\ v.calls = u.calls /\ v.bufferText = u.bufferText /\ SameTexts(u, v)
         /\ v.reasoningIx # None => v.reasoningDone
         /\ v.bufferText =>
              /\ v.textIx # None /\ v.textDone
              /\ \E i \in DOMAIN v.out :
                   /\ v.out[i].type = "done" /\ v.out[i].ix = v.textIx
                   /\ v.out[i].item = MessageItem /\ v.out[i].text = v.content
              /\ \A item : Late(v.out, item) <=> Late(u.out, item)
<1> DEFINE v == FinishTextItem(u)
<1>1. Ready(u) /\ Good(u) /\ Tidy(u) /\ u.textDone \in BOOLEAN
  BY DEF Told, Ready, Good, Assembler
<1>2. /\ Told(v) /\ Keeps(u, v) /\ SameTexts(u, v) /\ v.textDone
      /\ u.reasoningDone => v.reasoningDone
      /\ u.bufferText => \A item : Late(v.out, item) <=> Late(u.out, item)
      /\ ~u.textDone =>
           \E i \in DOMAIN v.out :
             /\ v.out[i].type = "done" /\ v.out[i].ix = v.textIx
             /\ v.out[i].item = MessageItem /\ v.out[i].text = v.content
  BY FinishTextItemTells
<1>3. v.reasoningIx = u.reasoningIx
  BY <1>1, FinishTextItemTends
<1> HIDE DEF v
<1>4. v.calls = u.calls /\ v.bufferText = u.bufferText
  BY <1>2 DEF Keeps
<1>5. v.textIx # None
  BY <1>2 DEF Told, Ready, Tidy, TextTidy
<1>6. u.bufferText => ~u.textDone
  BY <1>1 DEF Tidy, TextTidy
<1>7. QED BY <1>2, <1>3, <1>4, <1>5, <1>6 DEF v

LEMMA FinalizeTextTells ==
  ASSUME NEW s, Told(s), NoneDone(s), ThinkAgrees(s), s.output = <<>>, s.pending = <<>>,
         s.bufferText => s.textIx = None
  PROVE  LET u == FinalizeText(s) IN
         /\ Told(u) /\ u.calls = s.calls /\ u.bufferText = s.bufferText
         /\ u.pending = <<>> /\ u.output \in Seq(Output)
         /\ \A i \in DOMAIN u.output : u.output[i].item.kind # "tool"
         /\ Listed(u)
         /\ s.bufferText => \A item : Late(u.out, item) => Late(s.out, item)
<1> DEFINE t == FlushPendingThinkBuffer(s)
           u == IF t.reasoning = <<>> THEN t ELSE FinishReasoningItem(t)
           shown == u.content # <<>> /\ ~HasToolOutput(u)
           v == IF shown THEN FinishTextItem(u) ELSE u
           w == IF v.reasoning = <<>> THEN v ELSE AddOutput(v, ReasoningItem, v.reasoning)
           x == IF shown THEN AddOutput(w, MessageItem, w.content) ELSE w
<1>1. FinalizeText(s) = x
  BY DEF FinalizeText
<1>2. Speaks(s, t)
  BY FlushPendingThinkBufferSpeaks
<1> HIDE DEF t
<1>3. /\ Told(t) /\ t.calls = s.calls /\ t.bufferText = s.bufferText
      /\ t.output = <<>> /\ t.pending = <<>>
      /\ t.bufferText => t.textIx = None
      /\ s.bufferText => \A item : Late(t.out, item) => Late(s.out, item)
  BY <1>2, PushesTold DEF Speaks, Pushes, Moves, Keeps, Advances
<1>4. /\ Told(u) /\ u.calls = t.calls /\ u.bufferText = t.bufferText /\ SameTexts(t, u)
      /\ u.textIx = t.textIx /\ (u.reasoningIx # None => u.reasoningDone)
      /\ \A item : Late(u.out, item) <=> Late(t.out, item)
  <2>1. CASE t.reasoning = <<>>
    BY <1>3, <2>1 DEF SameTexts, Told, Ready, Tidy, ReasoningTidy
  <2>2. CASE t.reasoning # <<>>
    BY <1>3, <2>2, FinishReasoningItemTells DEF Moves, Keeps
  <2>3. QED BY <2>1, <2>2
<1> HIDE DEF u
<1>5. NoneDone(u) /\ (u.bufferText => u.textIx = None)
  BY <1>3, <1>4 DEF NoneDone
<1>6. /\ Told(v) /\ v.calls = u.calls /\ v.bufferText = u.bufferText /\ SameTexts(u, v)
      /\ v.reasoningIx # None => v.reasoningDone
      /\ v.bufferText => (shown <=> v.textIx # None)
      /\ v.bufferText /\ shown =>
           /\ v.textDone
           /\ \E i \in DOMAIN v.out :
                /\ v.out[i].type = "done" /\ v.out[i].ix = v.textIx
                /\ v.out[i].item = MessageItem /\ v.out[i].text = v.content
      /\ v.bufferText => \A item : Late(v.out, item) <=> Late(u.out, item)
  <2>1. CASE shown
    <3>1. v = FinishTextItem(u) /\ u.content # <<>>
      BY <2>1
    <3> HIDE DEF v
    <3>2. QED BY <1>4, <1>5, <2>1, <3>1, FinishShownTells
  <2>2. CASE ~shown
    <3>1. v = u
      BY <2>2
    <3> HIDE DEF v, shown
    <3>2. QED BY <1>4, <1>5, <2>2, <3>1 DEF SameTexts
  <2>3. QED BY <2>1, <2>2
<1>7. shown \in BOOLEAN
  OBVIOUS
<1> HIDE DEF v, shown
<1>8. /\ v.reasoning \in Text /\ v.content \in Text /\ v.output = <<>> /\ v.pending = <<>>
      /\ NoneDone(v)
  BY <1>3, <1>4, <1>5, <1>6 DEF SameTexts, NoneDone, Told, Ready, Good, Assembler
<1> DEFINE r == [item |-> ReasoningItem, text |-> v.reasoning]
           m == [item |-> MessageItem, text |-> v.content]
           o == IF v.reasoning = <<>> THEN <<>> ELSE Append(<<>>, r)
<1>9. /\ Told(w) /\ SameMarks(v, w) /\ w.out = v.out /\ w.output = o
      /\ w.pending = <<>> /\ w.content = v.content
  <2>1. CASE v.reasoning = <<>>
    BY <1>6, <1>8, <2>1 DEF SameMarks
  <2>2. CASE v.reasoning # <<>>
    <3>1. w = AddOutput(v, ReasoningItem, v.reasoning)
      BY <2>2
    <3> HIDE DEF w
    <3>2. QED BY <1>6, <1>8, <2>2, <3>1, AddOutputTells, ItemTypes
  <2>3. QED BY <2>1, <2>2
<1> HIDE DEF w
<1>10. /\ Told(x) /\ SameMarks(w, x) /\ x.out = w.out /\ x.pending = <<>>
       /\ x.output = IF shown THEN Append(o, m) ELSE o
  <2>1. CASE shown
    <3>1. x = AddOutput(w, MessageItem, w.content)
      BY <2>1
    <3> HIDE DEF x, o
    <3>2. QED BY <1>8, <1>9, <2>1, <3>1, AddOutputTells, ItemTypes
  <2>2. CASE ~shown
    BY <1>9, <2>2 DEF SameMarks
  <2>3. QED BY <2>1, <2>2
<1> HIDE DEF x
<1>11. /\ r \in Output /\ m \in Output /\ o \in Seq(Output)
       /\ r.item.kind # "tool" /\ m.item.kind # "tool"
  <2>1. r \in Output /\ m \in Output
    BY <1>8, ItemTypes DEF Output
  <2>2. r.item.kind # "tool" /\ m.item.kind # "tool"
    BY DEF ReasoningItem, MessageItem
  <2> HIDE DEF r, m
  <2>3. QED BY <2>1, <2>2
<1>12. x.bufferText = v.bufferText /\ x.out = v.out
  BY <1>9, <1>10 DEF SameMarks
<1>13. Listed(x)
  <2>1. x.output = (IF shown THEN Append(Opening(v), MessageEntry(v)) ELSE Opening(v))
    BY <1>10 DEF Opening, ReasoningEntry, MessageEntry
  <2> HIDE DEF o, r, m
  <2>2. Told(v) /\ NoneDone(v) /\ (v.reasoningIx # None => v.reasoningDone)
    BY <1>6, <1>8
  <2>3. QED BY <1>6, <1>7, <1>12, <2>1, <2>2, OpeningListed
<1>14. x.output \in Seq(Output) /\ \A i \in DOMAIN x.output : x.output[i].item.kind # "tool"
  BY <1>10, <1>11
<1>15. x.calls = s.calls /\ x.bufferText = s.bufferText
  BY <1>3, <1>4, <1>6, <1>9, <1>10 DEF SameMarks
<1>16. s.bufferText => \A item : Late(x.out, item) => Late(s.out, item)
  BY <1>3, <1>4, <1>6, <1>12
<1>17. QED BY <1>1, <1>10, <1>13, <1>14, <1>15, <1>16

------------------------------------------------------------------------------
(* finalize: one call.                                                     *)

(* The arguments, or the input of a custom tool, as they are listed. *)
ToolText(s, k) ==
  LET args == Canonical(s.calls[k].args)
  IN  IF IsCustom(s, s.calls[k].name) THEN CustomInput(args) ELSE args

LEMMA GrownShown ==
  ASSUME NEW s, NEW u, NEW e, Grown(s, u, e)
  PROVE  Shown(u) = IF e.type = "done"
                    THEN Shown(s) \cup {[item |-> e.item, text |-> e.text]} ELSE Shown(s)
<1>1. /\ Len(s.out) \in Nat /\ DOMAIN s.out = 1..Len(s.out)
      /\ DOMAIN u.out = 1..(Len(s.out) + 1)
      /\ \A i \in DOMAIN s.out : u.out[i] = s.out[i]
      /\ u.out[Len(s.out) + 1] = e
  BY GrownFacts
<1> DEFINE pair(i) == [item |-> u.out[i].item, text |-> u.out[i].text]
<1>2. Shown(u) = {pair(i) : i \in {j \in DOMAIN u.out : u.out[j].type = "done"}}
  BY DEF Shown
<1>3. Shown(s) = {pair(i) : i \in {j \in DOMAIN s.out : u.out[j].type = "done"}}
  BY <1>1 DEF Shown
<1>4. pair(Len(s.out) + 1) = [item |-> e.item, text |-> e.text]
  BY <1>1
<1>5. DOMAIN u.out = DOMAIN s.out \cup {Len(s.out) + 1}
  BY <1>1
<1> HIDE DEF pair
<1>6. QED BY <1>1, <1>2, <1>3, <1>4, <1>5

LEMMA ToolTexts ==
  ASSUME NEW s, Good(s), NEW k \in Indices
  PROVE  /\ ToolText(s, k) \in Text /\ CustomInput(Canonical(s.calls[k].args)) \in Text
         /\ ToolItem(s.calls[k]) \in Item /\ s.calls[k].ix \in Nat \cup {None}
<1>1. /\ s.calls[k].args \in Text /\ ToolItem(s.calls[k]) \in Item
      /\ s.calls[k].ix \in Nat \cup {None}
  BY CallTyped
<1>2. Canonical(s.calls[k].args) \in Text
  BY <1>1, CanonicalIsText
<1>3. CustomInput(Canonical(s.calls[k].args)) \in Text
  BY <1>2, CanonicalIsText
<1>4. QED BY <1>1, <1>2, <1>3 DEF ToolText

LEMMA EmitToolDoneShape ==
  ASSUME NEW s, Good(s), NEW k \in Indices
  PROVE  LET u == EmitToolDone(s, k)
             c == s.calls[k]
             item == ToolItem(c)
             input == CustomInput(Canonical(c.args))
             text == ToolText(s, k)
             e == Event("done", c.ix, item, text)
         IN  /\ SameFields(s, u) /\ u.pending = s.pending
             /\ u.output = Append(s.output, [item |-> item, text |-> text])
             /\ IF IsCustom(s, c.name) /\ input # <<>>
                THEN u.out = Append(Emit(s, Event("delta", c.ix, item, input)).out, e)
                ELSE u.out = Append(s.out, e)
<1> DEFINE c == s.calls[k]
           args == Canonical(c.args)
           input == CustomInput(args)
           item == ToolItem(c)
           d == Event("delta", c.ix, item, input)
           t == IF IsCustom(s, c.name) /\ input # <<>> THEN Emit(s, d) ELSE s
           text == ToolText(s, k)
           e == Event("done", c.ix, item, text)
           v == Emit(t, e)
           u == AddOutput(v, item, text)
<1>1. EmitToolDone(s, k) = u
  BY DEF EmitToolDone, ToolText
<1>2. text \in Text /\ input \in Text /\ item \in Item /\ c.ix \in Nat \cup {None}
  BY ToolTexts
<1>3. s \in Assembler
  BY DEF Good
<1> HIDE DEF text, input, item
<1>4. d \in Events /\ e \in Events
  BY <1>2, DeltaTyped, DoneTyped
<1> HIDE DEF d, e
<1>5. t \in Assembler /\ SameMarks(s, t) /\ SameTexts(s, t)
  BY <1>3, <1>4, EmitSame, EmitFields DEF SameMarks, SameTexts
<1> DEFINE out == t.out
<1>6. out = IF IsCustom(s, c.name) /\ input # <<>> THEN Emit(s, d).out ELSE s.out
  OBVIOUS
<1> HIDE DEF t
<1>7. v \in Assembler /\ SameMarks(t, v) /\ SameTexts(t, v) /\ v.out = Append(out, e)
  BY <1>4, <1>5, EmitSame, EmitFields DEF Grown
<1> HIDE DEF v, out
<1>8. /\ u.out = v.out /\ SameMarks(v, u) /\ u.pending = v.pending
      /\ u.content = v.content /\ u.reasoning = v.reasoning
      /\ u.output = Append(v.output, [item |-> item, text |-> text])
  BY <1>7 DEF AddOutput, Assembler, SameMarks
<1> HIDE DEF u
<1>9. /\ SameFields(s, u) /\ u.pending = s.pending
      /\ u.output = Append(s.output, [item |-> item, text |-> text])
  BY <1>5, <1>7, <1>8 DEF SameFields, SameMarks, SameTexts
<1>10. u.out = Append(out, e)
  BY <1>7, <1>8
<1>11. IF IsCustom(s, c.name) /\ input # <<>>
       THEN u.out = Append(Emit(s, d).out, e) ELSE u.out = Append(s.out, e)
  BY <1>6, <1>10
<1>12. QED BY <1>1, <1>9, <1>11 DEF d, e, input, text, item

(* A call that is only announced now, under its own id or a made-up one. *)
Renamed(s, k) == [s EXCEPT !.calls[k].id = IF @ = NoText THEN FallbackId[k] ELSE @]

LEMMA RenamedTells ==
  ASSUME NEW s, Told(s), NEW k \in Indices, ~s.calls[k].added
  PROVE  LET m == Renamed(s, k) IN
         /\ Told(m) /\ m.out = s.out /\ SameTexts(s, m)
         /\ m.bufferText = s.bufferText
         /\ m.calls[k].id # NoText /\ ~m.calls[k].added
         /\ m.calls[k].done = s.calls[k].done /\ m.calls[k].name = s.calls[k].name
         /\ m.calls[k].args = s.calls[k].args
         /\ \A j \in Indices \ {k} : m.calls[j] = s.calls[j]
<1> DEFINE m == Renamed(s, k)
<1>1. /\ s \in Assembler /\ s.calls[k] \in Call /\ s.calls \in [Indices -> Call]
      /\ Good(s) /\ Ready(s) /\ Exact(s)
  <2>1. Good(s) /\ Ready(s) /\ Exact(s)
    BY DEF Told, Ready
  <2>2. QED BY <2>1, CallTyped DEF Assembler
<1>2. FallbackId[k] \in Ids /\ FallbackId[k] # NoText
  BY ConstantsAssumption DEF Ids
<1>3. /\ m.out = s.out /\ m.next = s.next /\ m.terminal = s.terminal
      /\ m.finish = s.finish /\ m.reasoningIx = s.reasoningIx
      /\ m.reasoningDone = s.reasoningDone /\ m.textIx = s.textIx
      /\ m.textDone = s.textDone /\ m.bufferText = s.bufferText
      /\ m.calls = [s.calls EXCEPT ![k].id = IF @ = NoText THEN FallbackId[k] ELSE @]
  BY <1>1 DEF Assembler, Renamed
<1>4. SameTexts(s, m)
  BY <1>1 DEF Assembler, Renamed, SameTexts
<1>5. [s.calls EXCEPT ![k].id = IF @ = NoText THEN FallbackId[k] ELSE @] \in [Indices -> Call]
  BY <1>1, <1>2 DEF Call
<1>6. m \in Assembler
  BY <1>1, <1>5 DEF Assembler, Renamed
<1> HIDE DEF m
<1>7. \A j \in Indices \ {k} : m.calls[j] = s.calls[j]
  BY <1>1, <1>3
<1>8. /\ m.calls[k].id # NoText /\ m.calls[k].added = s.calls[k].added
      /\ m.calls[k].ix = s.calls[k].ix
      /\ m.calls[k].done = s.calls[k].done /\ m.calls[k].name = s.calls[k].name
      /\ m.calls[k].args = s.calls[k].args
  BY <1>1, <1>2, <1>3 DEF Call
<1>9. \A j \in Indices :
        /\ m.calls[j].ix = s.calls[j].ix /\ m.calls[j].added = s.calls[j].added
        /\ m.calls[j].done = s.calls[j].done /\ m.calls[j].name = s.calls[j].name
        /\ m.calls[j].args = s.calls[j].args
        /\ s.calls[j].added => m.calls[j].id = s.calls[j].id
  BY <1>7, <1>8
<1>10. Leads(s, m)
  <2>1. Good(s)
    BY <1>1
  <2>2. \A j \in Indices :
          /\ m.calls[j].ix = s.calls[j].ix /\ m.calls[j].added = s.calls[j].added
          /\ s.calls[j].done => m.calls[j].done
          /\ s.calls[j].added =>
               m.calls[j].id = s.calls[j].id /\ m.calls[j].name = s.calls[j].name
    BY <1>9
  <2>3. QED BY <1>3, <1>6, <2>1, <2>2, Assign
<1>11. Advances(s, m)
  <2>1. SameTurn(s, m)
    BY <1>3, <1>9 DEF SameTurn
  <2>2. \A j \in Indices :
          /\ m.calls[j].ix = s.calls[j].ix /\ m.calls[j].added = s.calls[j].added
          /\ s.calls[j].added =>
               /\ m.calls[j].id = s.calls[j].id
               /\ m.calls[j].name = s.calls[j].name
               /\ m.calls[j].done => s.calls[j].done
    BY <1>9
  <2>3. m.reasoning = s.reasoning
    BY <1>4 DEF SameTexts
  <2>4. QED BY <1>1, <1>3, <2>1, <2>2, <2>3, AssignCallAdvances
<1>12. Exact(m)
  <2>1. ReasoningExact(m) /\ ReasoningTold(m) /\ TextExact(m) /\ DonesExact(m.out)
    BY <1>1, <1>3, <1>4 DEF Exact, ReasoningExact, ReasoningTold, TextExact, SameTexts
  <2>2. \A j \in Indices : CallExact(m, j)
    BY <1>1, <1>3, <1>9 DEF Exact, CallExact, IsCustom
  <2>3. QED BY <2>1, <2>2 DEF Exact
<1>13. Told(m)
  BY <1>10, <1>11, <1>12 DEF Told, Ready, Leads, Advances, Tends
<1>14. QED BY <1>3, <1>4, <1>7, <1>8, <1>13 DEF m

Opened(s, k) == IF s.calls[k].added THEN s ELSE StartToolForFinalize(s, k)

LEMMA OpenedTells ==
  ASSUME NEW s, Told(s), NEW k \in Indices, ~s.calls[k].done, s.calls[k].name # NoText
  PROVE  LET t == Opened(s, k) IN
         /\ Ready(t) /\ ExactBut(t, k) /\ SameTexts(s, t) /\ t.bufferText = s.bufferText
         /\ t.calls[k].added /\ ~t.calls[k].done /\ t.calls[k].name = s.calls[k].name
         /\ t.calls[k].args = s.calls[k].args
         /\ \A j \in Indices \ {k} : t.calls[j] = s.calls[j]
         /\ \A item : Late(t.out, item) <=> Late(s.out, item)
         /\ \A ix : DoneSent(t, ix) <=> DoneSent(s, ix)
         /\ Shown(t) = Shown(s)
         /\ \/ Spoken(t.out, t.calls[k].ix) = <<>>
            \/ /\ ~IsCustom(t, t.calls[k].name)
               /\ Spoken(t.out, t.calls[k].ix) = t.calls[k].args
<1> DEFINE t == Opened(s, k)
<1>1. Ready(s) /\ Exact(s) /\ s.calls[k].added \in BOOLEAN
  <2>1. Ready(s) /\ Exact(s) /\ Good(s)
    BY DEF Told, Ready
  <2>2. QED BY <2>1, CallTyped
<1>2. CASE s.calls[k].added
  <2>1. t = s
    BY <1>2 DEF Opened
  <2> HIDE DEF t
  <2>2. ExactBut(s, k) /\ CallExact(s, k)
    BY <1>1 DEF Exact, ExactBut
  <2>3. QED BY <1>1, <1>2, <2>1, <2>2 DEF SameTexts, CallExact, t
<1>3. CASE ~s.calls[k].added
  <2> DEFINE m == Renamed(s, k)
             e == Event("added", m.next, ToolItem(m.calls[k]), <<>>)
  <2>1. t = StartTool(m, k)
    BY <1>3 DEF Opened, StartToolForFinalize, Renamed
  <2>2. /\ Told(m) /\ m.out = s.out /\ SameTexts(s, m) /\ m.bufferText = s.bufferText
        /\ m.calls[k].id # NoText /\ ~m.calls[k].added
        /\ m.calls[k].done = s.calls[k].done /\ m.calls[k].name = s.calls[k].name
        /\ m.calls[k].args = s.calls[k].args
        /\ \A j \in Indices \ {k} : m.calls[j] = s.calls[j]
    BY <1>3, RenamedTells
  <2> HIDE DEF t, m
  <2>3. /\ Ready(t) /\ ExactBut(t, k) /\ Spoken(t.out, t.calls[k].ix) = <<>>
        /\ SameTexts(m, t) /\ t.bufferText = m.bufferText
        /\ t.calls[k].added /\ ~t.calls[k].done /\ t.calls[k].name = m.calls[k].name
        /\ t.calls[k].args = m.calls[k].args
        /\ \A j \in Indices \ {k} : t.calls[j] = m.calls[j]
        /\ \A item : Late(t.out, item) <=> Late(m.out, item)
        /\ \A ix : DoneSent(t, ix) <=> DoneSent(m, ix)
        /\ Grown(m, t, e)
    <3>1. LET w == StartTool(m, k) IN
          /\ Ready(w) /\ ExactBut(w, k) /\ Spoken(w.out, w.calls[k].ix) = <<>>
          /\ SameTexts(m, w) /\ w.bufferText = m.bufferText /\ w.reasoningDone = m.reasoningDone
          /\ w.calls[k].added /\ ~w.calls[k].done /\ w.calls[k].name = m.calls[k].name
          /\ w.calls[k].id = m.calls[k].id /\ w.calls[k].args = m.calls[k].args
          /\ \A j \in Indices \ {k} : w.calls[j] = m.calls[j]
          /\ \A item : Late(w.out, item) <=> Late(m.out, item)
          /\ \A ix : DoneSent(w, ix) <=> DoneSent(m, ix)
          /\ Grown(m, w, Event("added", m.next, ToolItem(m.calls[k]), <<>>))
      <4>1. Told(m) /\ ~m.calls[k].added /\ ~m.calls[k].done /\ m.calls[k].id # NoText
        BY <2>2
      <4>2. m.calls[k].name # NoText
        BY <2>2
      <4>3. QED BY <4>1, <4>2, StartToolTells
    <3>2. QED BY <2>1, <3>1
  <2>4. Shown(t) = Shown(s)
    <3>1. e.type = "added"
      BY DEF Event
    <3> HIDE DEF e
    <3>2. Shown(t) = Shown(m)
      BY <2>3, <3>1, GrownShown
    <3>3. QED BY <2>2, <3>2 DEF Shown
  <2>5. \A ix : DoneSent(m, ix) <=> DoneSent(s, ix)
    BY <2>2 DEF DoneSent
  <2>6. SameTexts(s, t)
    BY <2>2, <2>3 DEF SameTexts
  <2>7. QED BY <2>2, <2>3, <2>4, <2>5, <2>6 DEF t
<1>4. QED BY <1>1, <1>2, <1>3

(* The input of a custom tool is sent before its call is closed. *)
InputSent(t, k) ==
  LET c == t.calls[k]
      input == CustomInput(Canonical(c.args))
  IN  IF IsCustom(t, c.name) /\ input # <<>>
      THEN Emit(t, Event("delta", c.ix, ToolItem(c), input)) ELSE t

LEMMA InputSentTells ==
  ASSUME NEW t, Ready(t), NEW k \in Indices, t.calls[k].added, ~t.calls[k].done, ExactBut(t, k),
         \/ Spoken(t.out, t.calls[k].ix) = <<>>
         \/ /\ ~IsCustom(t, t.calls[k].name)
            /\ Spoken(t.out, t.calls[k].ix) = t.calls[k].args
  PROVE  LET z == InputSent(t, k)
             ix == t.calls[k].ix
         IN  /\ z \in Assembler /\ SameMarks(t, z) /\ SameTexts(t, z)
             /\ ExactBut(z, k) /\ NotDone(z, ix) /\ Shown(z) = Shown(t)
             /\ \A item : Late(z.out, item) <=> Late(t.out, item)
             /\ \A i : DoneSent(z, i) <=> DoneSent(t, i)
             /\ TellsText(Event("done", ix, ToolItem(t.calls[k]), ToolText(t, k)),
                          Spoken(z.out, ix))
<1> DEFINE c == t.calls[k]
           ix == c.ix
           input == CustomInput(Canonical(c.args))
           d == Event("delta", ix, ToolItem(c), input)
           e == Event("done", ix, ToolItem(c), ToolText(t, k))
           z == InputSent(t, k)
<1>1. Good(t) /\ t \in Assembler /\ c.args \in Text /\ input \in Text
  <2>1. Good(t)
    BY DEF Ready
  <2>2. QED BY <2>1, CallTyped, ToolTexts
<1>2. NotDone(t, ix)
  BY <1>1 DEF Good, Core, CallsAgree
<1>3. e.text = ToolText(t, k) /\ e.item.kind = "tool"
  BY DEF Event, ToolItem
<1> HIDE DEF e
<1>4. CASE IsCustom(t, c.name) /\ input # <<>>
  <2>1. z = Emit(t, d)
    BY <1>4 DEF InputSent
  <2>2. ToolText(t, k) = input /\ Spoken(t.out, ix) = <<>>
    BY <1>4 DEF ToolText
  <2> HIDE DEF z, input
  <2>3. /\ SameMarks(t, z) /\ SameTexts(t, z) /\ ExactBut(z, k) /\ NotDone(z, ix)
        /\ z \in Assembler /\ Spoken(z.out, ix) = Spoken(t.out, ix) \o input
        /\ \A item : Late(z.out, item) <=> Late(t.out, item)
        /\ \A i : DoneSent(z, i) <=> DoneSent(t, i)
    BY <1>1, <1>2, <2>1, CallDeltaTells
  <2>4. Spoken(z.out, ix) = input
    BY <1>1, <2>2, <2>3 DEF Text
  <2>5. TellsText(e, Spoken(z.out, ix))
    BY <1>3, <2>2, <2>4 DEF TellsText
  <2>6. Shown(z) = Shown(t)
    <3>1. d \in Events /\ d.type = "delta"
      <4>1. ix \in Nat \cup {None} /\ ToolItem(c) \in Item
        BY <1>1, ToolTexts
      <4>2. d \in Events
        BY <1>1, <4>1, DeltaTyped
      <4>3. QED BY <4>2 DEF Event
    <3> HIDE DEF d
    <3>2. Grown(t, z, d)
      BY <1>1, <2>1, <3>1, EmitFields
    <3>3. QED BY <3>1, <3>2, GrownShown
  <2>7. QED BY <2>3, <2>5, <2>6 DEF z, e
<1>5. CASE ~(IsCustom(t, c.name) /\ input # <<>>)
  <2>1. z = t
    BY <1>5 DEF InputSent
  <2>2. IF IsCustom(t, c.name) THEN ToolText(t, k) = <<>> ELSE ToolText(t, k) = Canonical(c.args)
    BY <1>5 DEF ToolText
  <2> HIDE DEF z, input
  <2>3. TellsText(e, Spoken(z.out, ix))
    BY <1>3, <2>1, <2>2 DEF TellsText
  <2>4. SameMarks(t, z) /\ SameTexts(t, z)
    BY <2>1 DEF SameMarks, SameTexts
  <2>5. QED BY <1>1, <1>2, <2>1, <2>3, <2>4 DEF z, e
<1>6. QED BY <1>4, <1>5

LEMMA DoneCallsExact ==
  ASSUME NEW z, NEW k \in Indices, ExactBut(z, k), NEW u, NEW e, Grown(z, u, e), e.type = "done",
         u.bufferText = z.bufferText, u.calls[k].done,
         \A j \in Indices \ {k} : u.calls[j] = z.calls[j]
  PROVE  \A j \in Indices : CallExact(u, j)
<1>1. \A ix : Spoken(u.out, ix) = IF e.type = "delta" /\ e.ix = ix
                                  THEN Spoken(z.out, ix) \o e.text ELSE Spoken(z.out, ix)
  BY GrownSpoken
<1>2. \A j \in Indices \ {k} : CallExact(z, j)
  BY DEF ExactBut
<1>3. QED BY <1>1, <1>2 DEF CallExact, IsCustom

(* The done event of call k, when everything else stays. *)
LEMMA DoneTells ==
  ASSUME NEW z \in Assembler, NEW k \in Indices, ExactBut(z, k), NEW e, NEW u, Grown(z, u, e),
         e.type = "done", NotDone(z, e.ix), TellsText(e, Spoken(z.out, e.ix)),
         e.ix \in Nat, z.reasoningIx # None => e.ix # z.reasoningIx,
         u.bufferText = z.bufferText, u.content = z.content, u.reasoning = z.reasoning,
         u.reasoningIx = z.reasoningIx, u.textIx = z.textIx, u.textDone = z.textDone,
         u.calls[k].done, \A j \in Indices \ {k} : u.calls[j] = z.calls[j]
  PROVE  /\ Exact(u) /\ Shown(u) = Shown(z) \cup {[item |-> e.item, text |-> e.text]}
         /\ \A item : Late(u.out, item) <=> Late(z.out, item)
         /\ ClosedIxs(u) = ClosedIxs(z) \cup {e.ix} /\ e.ix \notin ClosedIxs(z)
<1>1. DonesExact(z.out) /\ ReasoningExact(z) /\ ReasoningTold(z) /\ TextExact(z)
  BY DEF ExactBut
<1>2. DonesExact(u.out)
  BY <1>1, GrownDonesExact
<1>3. ReasoningExact(u)
  BY <1>1, GrownReasoningExact
<1>4. ReasoningTold(u)
  BY <1>1, GrownReasoningTold
<1>5. TextExact(u)
  BY <1>1, GrownTextExact
<1>6. \A j \in Indices : CallExact(u, j)
  BY DoneCallsExact
<1>7. \A item : Late(u.out, item) <=> Late(z.out, item)
  BY GrownNotLate
<1>8. Shown(u) = Shown(z) \cup {[item |-> e.item, text |-> e.text]}
  BY GrownShown
<1>9. \A ix : DoneSent(u, ix) <=> DoneSent(z, ix) \/ ix = e.ix
  <2>1. /\ Len(z.out) \in Nat /\ DOMAIN z.out = 1..Len(z.out)
        /\ DOMAIN u.out = 1..(Len(z.out) + 1)
        /\ \A i \in DOMAIN z.out : u.out[i] = z.out[i]
        /\ u.out[Len(z.out) + 1] = e
    BY GrownFacts
  <2>2. QED BY <2>1 DEF DoneSent
<1>10. ClosedIxs(u) = ClosedIxs(z) \cup {e.ix} /\ e.ix \notin ClosedIxs(z)
  <2>1. e.ix \notin ClosedIxs(z)
    BY DEF ClosedIxs, DoneSent, NotDone
  <2>2. \A ix : ix \in ClosedIxs(u) <=> ix \in ClosedIxs(z) \/ ix = e.ix
    BY <1>9 DEF ClosedIxs
  <2>3. QED BY <2>1, <2>2
<1>11. QED BY <1>2, <1>3, <1>4, <1>5, <1>6, <1>7, <1>8, <1>10 DEF Exact

(* What the output and the pending calls gain by call k. *)
Lists(s, u, k) ==
  IF s.calls[k].name = NoText
  THEN u.output = s.output /\ u.pending = s.pending
  ELSE /\ u.output = Append(s.output, [item |-> ToolItem(u.calls[k]), text |-> ToolText(u, k)])
       /\ u.pending = Append(s.pending, u.calls[k].id)

(* Call k, whose name is known, is closed and listed. *)
LEMMA ClosedCallTells ==
  ASSUME NEW s, Told(s), Listed(s), NEW k \in Indices, ~s.calls[k].done,
         s.calls[k].name # NoText, Ready(FinalizeTool(s, k))
  PROVE  LET u == FinalizeTool(s, k) IN
         /\ Told(u) /\ Listed(u) /\ u.bufferText = s.bufferText /\ Lists(s, u, k)
         /\ u.calls[k].name = s.calls[k].name /\ u.calls[k].args = s.calls[k].args
         /\ \A j \in Indices \ {k} : u.calls[j] = s.calls[j]
         /\ \A item : Late(u.out, item) <=> Late(s.out, item)
<1> DEFINE t == Opened(s, k)
           marked == [t EXCEPT !.calls[k].done = TRUE, !.pending = Append(@, t.calls[k].id)]
           u == EmitToolDone(marked, k)
           z == InputSent(t, k)
           c == t.calls[k]
           text == ToolText(t, k)
           e == Event("done", c.ix, ToolItem(c), text)
           pair == [item |-> ToolItem(c), text |-> text]
<1>1. FinalizeTool(s, k) = u
  BY DEF FinalizeTool, Opened
<1> HIDE DEF u
<1>2. /\ Ready(t) /\ ExactBut(t, k) /\ SameTexts(s, t) /\ t.bufferText = s.bufferText
      /\ t.calls[k].added /\ ~t.calls[k].done /\ t.calls[k].name = s.calls[k].name
      /\ t.calls[k].args = s.calls[k].args
      /\ \A j \in Indices \ {k} : t.calls[j] = s.calls[j]
      /\ \A item : Late(t.out, item) <=> Late(s.out, item)
      /\ \A ix : DoneSent(t, ix) <=> DoneSent(s, ix)
      /\ Shown(t) = Shown(s)
      /\ \/ Spoken(t.out, t.calls[k].ix) = <<>>
         \/ /\ ~IsCustom(t, t.calls[k].name)
            /\ Spoken(t.out, t.calls[k].ix) = t.calls[k].args
  BY OpenedTells
<1> HIDE DEF t
<1>3. /\ Good(t) /\ t \in Assembler /\ c \in Call /\ t.calls \in [Indices -> Call]
      /\ text \in Text /\ ToolItem(c) \in Item /\ c.ix \in Nat /\ c.id \in Ids
  <2>1. Good(t)
    BY <1>2 DEF Ready
  <2>2. c \in Call /\ t \in Assembler /\ text \in Text /\ ToolItem(c) \in Item
        /\ c.ix \in Nat \cup {None}
    BY <2>1, CallTyped, ToolTexts
  <2>3. c.ix # None /\ c.id # NoText
    BY <1>2, <2>1 DEF Good, Core, CallsAgree
  <2>4. QED BY <2>1, <2>2, <2>3 DEF Assembler, Call
<1>4. /\ z \in Assembler /\ SameMarks(t, z) /\ SameTexts(t, z)
      /\ ExactBut(z, k) /\ NotDone(z, c.ix) /\ Shown(z) = Shown(t)
      /\ \A item : Late(z.out, item) <=> Late(t.out, item)
      /\ \A i : DoneSent(z, i) <=> DoneSent(t, i)
      /\ TellsText(e, Spoken(z.out, c.ix))
  BY <1>2, InputSentTells
<1>5. e \in Events /\ e.type = "done" /\ e.ix = c.ix /\ e.item = ToolItem(c) /\ e.text = text
  <2>1. e \in Events
    BY <1>3, DoneTyped
  <2>2. QED BY <2>1 DEF Event
<1> HIDE DEF z
<1>6. /\ marked.out = t.out /\ SameTexts([t EXCEPT !.pending = marked.pending], marked)
      /\ marked.pending = Append(t.pending, c.id)
      /\ marked.bufferText = t.bufferText /\ marked.next = t.next
      /\ marked.terminal = t.terminal /\ marked.finish = t.finish
      /\ marked.reasoningIx = t.reasoningIx /\ marked.reasoningDone = t.reasoningDone
      /\ marked.textIx = t.textIx /\ marked.textDone = t.textDone
      /\ marked.content = t.content /\ marked.reasoning = t.reasoning
      /\ marked.output = t.output
      /\ marked.calls = [t.calls EXCEPT ![k].done = TRUE]
  BY <1>3 DEF Assembler, SameTexts
<1>7. marked \in Assembler
  <2>1. [t.calls EXCEPT ![k].done = TRUE] \in [Indices -> Call]
    BY <1>3 DEF Call
  <2>2. t.pending \in Seq(Ids)
    BY <1>3 DEF Assembler
  <2>3. Append(t.pending, c.id) \in Seq(Ids)
    BY <1>3, <2>2, AppendProperties
  <2>4. QED BY <1>3, <2>1, <2>3 DEF Assembler
<1> HIDE DEF marked
<1>8. /\ marked.calls[k] = [c EXCEPT !.done = TRUE]
      /\ \A j \in Indices \ {k} : marked.calls[j] = t.calls[j]
  BY <1>3, <1>6
<1>9. /\ marked.calls[k].ix = c.ix /\ marked.calls[k].added = c.added /\ marked.calls[k].done
      /\ marked.calls[k].id = c.id /\ marked.calls[k].name = c.name
      /\ marked.calls[k].args = c.args
  BY <1>3, <1>8 DEF Call
<1>10. Good(marked)
  <2>1. \A j \in Indices :
          /\ marked.calls[j].ix = t.calls[j].ix /\ marked.calls[j].added = t.calls[j].added
          /\ t.calls[j].done => marked.calls[j].done
          /\ t.calls[j].added =>
               marked.calls[j].id = t.calls[j].id /\ marked.calls[j].name = t.calls[j].name
    BY <1>8, <1>9
  <2>2. Leads(t, marked)
    BY <1>3, <1>6, <1>7, <2>1, Assign
  <2>3. QED BY <2>2 DEF Leads
<1>11. /\ ToolText(marked, k) = text /\ ToolItem(marked.calls[k]) = ToolItem(c)
       /\ IsCustom(marked, marked.calls[k].name) = IsCustom(t, c.name)
  BY <1>6, <1>9 DEF ToolText, ToolItem, IsCustom
<1>12. /\ SameFields(marked, u) /\ u.pending = marked.pending
       /\ u.output = Append(marked.output, pair)
       /\ u.out = Append(z.out, e)
  <2> DEFINE input == CustomInput(Canonical(c.args))
             d == Event("delta", c.ix, ToolItem(c), input)
  <2>1. /\ SameFields(marked, u) /\ u.pending = marked.pending
        /\ u.output = Append(marked.output, pair)
        /\ IF IsCustom(t, c.name) /\ input # <<>>
           THEN u.out = Append(Emit(marked, d).out, e) ELSE u.out = Append(marked.out, e)
    <3>1. LET mc == marked.calls[k]
              mi == CustomInput(Canonical(mc.args))
              mt == ToolText(marked, k)
          IN  /\ SameFields(marked, u) /\ u.pending = marked.pending
              /\ u.output = Append(marked.output, [item |-> ToolItem(mc), text |-> mt])
              /\ IF IsCustom(marked, mc.name) /\ mi # <<>>
                 THEN u.out = Append(Emit(marked, Event("delta", mc.ix, ToolItem(mc), mi)).out,
                                     Event("done", mc.ix, ToolItem(mc), mt))
                 ELSE u.out = Append(marked.out, Event("done", mc.ix, ToolItem(mc), mt))
      BY <1>10, EmitToolDoneShape DEF u
    <3>2. marked.calls[k].args = c.args /\ marked.calls[k].ix = c.ix
      BY <1>9
    <3>3. QED BY <1>11, <3>1, <3>2
  <2>2. z.out = IF IsCustom(t, c.name) /\ input # <<>> THEN Emit(t, d).out ELSE t.out
    BY DEF InputSent, z
  <2>3. Emit(marked, d).out = Append(marked.out, d) /\ Emit(t, d).out = Append(t.out, d)
    BY <1>3, <1>7 DEF Emit, Assembler
  <2> HIDE DEF d, input, e, pair
  <2>4. QED BY <1>6, <2>1, <2>2, <2>3
<1> HIDE DEF text, e
<1>13. /\ u.calls = marked.calls /\ u.bufferText = z.bufferText /\ u.content = z.content
       /\ u.reasoning = z.reasoning /\ u.reasoningIx = z.reasoningIx
       /\ u.textIx = z.textIx /\ u.textDone = z.textDone
       /\ u.output = Append(s.output, pair) /\ u.pending = Append(s.pending, c.id)
       /\ u.bufferText = s.bufferText
  BY <1>2, <1>4, <1>6, <1>12 DEF SameFields, SameMarks, SameTexts
<1>14. /\ u.calls[k].done /\ u.calls[k].id = c.id /\ u.calls[k].name = s.calls[k].name
       /\ u.calls[k].args = s.calls[k].args
       /\ \A j \in Indices \ {k} : u.calls[j] = s.calls[j]
       /\ \A j \in Indices \ {k} : u.calls[j] = z.calls[j]
  <2>1. u.calls[k] = marked.calls[k] /\ \A j \in Indices : u.calls[j] = marked.calls[j]
    BY <1>13
  <2>2. z.calls = t.calls
    BY <1>4 DEF SameMarks
  <2>3. \A j \in Indices \ {k} : u.calls[j] = s.calls[j] /\ u.calls[j] = z.calls[j]
    BY <1>2, <1>8, <2>1, <2>2
  <2>4. QED BY <1>2, <1>9, <2>1, <2>3
<1>15. z.reasoningIx # None => e.ix # z.reasoningIx
  <2>1. z.reasoningIx = t.reasoningIx
    BY <1>4 DEF SameMarks
  <2>2. c.ix # t.reasoningIx
    BY <1>2, <1>3, IndicesDiffer
  <2>3. QED BY <1>5, <2>1, <2>2
<1>16. Grown(z, u, e)
  BY <1>4, <1>5, <1>12 DEF Grown
<1>17. /\ Exact(u) /\ Shown(u) = Shown(z) \cup {[item |-> e.item, text |-> e.text]}
       /\ \A item : Late(u.out, item) <=> Late(z.out, item)
       /\ ClosedIxs(u) = ClosedIxs(z) \cup {e.ix} /\ e.ix \notin ClosedIxs(z)
  <2>1. NotDone(z, e.ix) /\ TellsText(e, Spoken(z.out, e.ix)) /\ e.ix \in Nat
    BY <1>3, <1>4, <1>5
  <2>2. \A j \in Indices \ {k} : u.calls[j] = z.calls[j]
    BY <1>14
  <2>3. QED BY <1>4, <1>5, <1>13, <1>14, <1>15, <1>16, <2>1, <2>2, DoneTells
<1>18. Told(u)
  BY <1>1, <1>17 DEF Told
<1>19. Lists(s, u, k)
  <2>1. ToolItem(u.calls[k]) = ToolItem(c) /\ ToolText(u, k) = text
    BY <1>2, <1>13, <1>14 DEF ToolItem, ToolText, IsCustom, text
  <2>2. QED BY <1>13, <1>14, <2>1 DEF Lists
<1>20. \A item : Late(u.out, item) <=> Late(s.out, item)
  BY <1>2, <1>4, <1>17
<1>21. Listed(u)
  <2> SUFFICES ASSUME u.bufferText
               PROVE  /\ IsFiniteSet(ClosedIxs(u)) /\ Cardinality(ClosedIxs(u)) = Len(u.output)
                      /\ ~Late(u.out, ReasoningItem) => ToSet(u.output) = Shown(u)
    BY DEF Listed
  <2>1. ClosedIxs(z) = ClosedIxs(s)
    BY <1>2, <1>4 DEF ClosedIxs
  <2>2. /\ IsFiniteSet(ClosedIxs(s)) /\ Cardinality(ClosedIxs(s)) = Len(s.output)
        /\ ~Late(s.out, ReasoningItem) => ToSet(s.output) = Shown(s)
    BY <1>13 DEF Listed
  <2>3. /\ IsFiniteSet(ClosedIxs(u))
        /\ Cardinality(ClosedIxs(u)) = Cardinality(ClosedIxs(s)) + 1
    <3>1. ClosedIxs(u) = ClosedIxs(s) \cup {e.ix} /\ e.ix \notin ClosedIxs(s)
      BY <1>17, <2>1
    <3>2. /\ IsFiniteSet(ClosedIxs(s) \cup {e.ix})
          /\ Cardinality(ClosedIxs(s) \cup {e.ix}) = Cardinality(ClosedIxs(s)) + 1
      BY <2>2, <3>1, FS_AddElement
    <3>3. QED BY <3>1, <3>2
  <2>4. s.output \in Seq(Output) /\ pair \in Output
    BY <1>2, <1>3 DEF Output, SameTexts, Assembler
  <2> HIDE DEF pair
  <2>5. Len(u.output) = Len(s.output) + 1 /\ ToSet(u.output) = ToSet(s.output) \cup {pair}
    BY <1>13, <2>4, AppendListed
  <2>6. Shown(u) = Shown(s) \cup {pair}
    BY <1>2, <1>4, <1>5, <1>17 DEF pair
  <2>7. ~Late(u.out, ReasoningItem) => ToSet(u.output) = Shown(u)
    BY <1>20, <2>2, <2>5, <2>6
  <2>8. QED BY <2>2, <2>3, <2>5, <2>7
<1>22. QED BY <1>1, <1>13, <1>14, <1>18, <1>19, <1>20, <1>21

LEMMA FinalizeToolTells ==
  ASSUME NEW s, Told(s), Listed(s), Settled(s), NEW k \in Indices, ~s.calls[k].done
  PROVE  LET u == FinalizeTool(s, k) IN
         /\ Told(u) /\ Listed(u) /\ u.bufferText = s.bufferText /\ Lists(s, u, k)
         /\ u.calls[k].name = s.calls[k].name /\ u.calls[k].args = s.calls[k].args
         /\ \A j \in Indices \ {k} : u.calls[j] = s.calls[j]
         /\ \A item : Late(u.out, item) <=> Late(s.out, item)
<1> DEFINE u == FinalizeTool(s, k)
           skipped == [s EXCEPT !.calls[k].done = TRUE]
<1>1. /\ Ready(s) /\ Good(s) /\ Tidy(s) /\ Exact(s)
      /\ s.calls[k] \in Call /\ s \in Assembler /\ s.calls \in [Indices -> Call]
  <2>1. Ready(s) /\ Good(s) /\ Tidy(s) /\ Exact(s)
    BY DEF Told, Ready
  <2>2. QED BY <2>1, CallTyped DEF Assembler
<1>2. Ready(u)
  <2>1. Tidy(u)
    BY <1>1, FinalizeToolSettles DEF Tends
  <2>2. Good(u)
    BY <1>1, FinalizeToolLeads DEF Leads
  <2>3. QED BY <2>1, <2>2 DEF Ready
<1>3. CASE s.calls[k].name # NoText
  BY <1>2, <1>3, ClosedCallTells
<1>4. CASE s.calls[k].name = NoText
  <2>1. u = skipped
    BY <1>4 DEF FinalizeTool
  <2>2. /\ skipped.out = s.out /\ skipped.output = s.output /\ skipped.pending = s.pending
        /\ skipped.bufferText = s.bufferText /\ skipped.reasoning = s.reasoning
        /\ skipped.reasoningIx = s.reasoningIx /\ skipped.content = s.content
        /\ skipped.textIx = s.textIx /\ skipped.textDone = s.textDone
        /\ skipped.calls = [s.calls EXCEPT ![k].done = TRUE]
    BY <1>1 DEF Assembler
  <2> HIDE DEF u, skipped
  <2>3. /\ skipped.calls[k].done /\ skipped.calls[k].name = s.calls[k].name
        /\ skipped.calls[k].args = s.calls[k].args
        /\ \A j \in Indices \ {k} : skipped.calls[j] = s.calls[j]
    BY <1>1, <2>2 DEF Call
  <2>4. Exact(skipped)
    <3>1. /\ ReasoningExact(skipped) /\ ReasoningTold(skipped) /\ TextExact(skipped)
          /\ DonesExact(skipped.out)
      BY <1>1, <2>2 DEF Exact, ReasoningExact, ReasoningTold, TextExact
    <3>2. \A j \in Indices : CallExact(skipped, j)
      BY <1>1, <2>2, <2>3 DEF Exact, CallExact, IsCustom
    <3>3. QED BY <3>1, <3>2 DEF Exact
  <2>5. Told(u)
    BY <1>2, <2>1, <2>4 DEF Told
  <2>6. Listed(skipped)
    BY <2>2 DEF Listed, ClosedIxs, DoneSent, Shown
  <2>7. Lists(s, u, k)
    BY <1>4, <2>1, <2>2 DEF Lists
  <2>8. QED BY <2>1, <2>2, <2>3, <2>5, <2>6, <2>7 DEF u
<1>5. QED BY <1>3, <1>4

------------------------------------------------------------------------------
(* The events that tell no text, and mark_truncated_as_length.             *)

(* What the invariant needs of the texts after the task is over. *)
SameListed(s, u) ==
  /\ Exact(u) /\ u.bufferText = s.bufferText /\ u.calls = s.calls
  /\ u.output = s.output /\ u.pending = s.pending /\ u.next = s.next
  /\ Listed(s) => Listed(u)
  /\ \A item : Late(u.out, item) <=> Late(s.out, item)

LEMMA EmitOtherTells ==
  ASSUME NEW s \in Assembler, Exact(s), NEW e \in Events, e.type \notin {"delta", "done"}
  PROVE  LET u == Emit(s, e) IN
         /\ SameListed(s, u) /\ SameTexts(s, u) /\ SameMarks(s, u) /\ u \in Assembler
<1> DEFINE u == Emit(s, e)
<1>1. /\ Grown(s, u, e) /\ SameMarks(s, u) /\ SameTexts(s, u) /\ u \in Assembler
      /\ u.next = s.next
  BY EmitFields, EmitSame
<1> HIDE DEF u
<1>2. /\ u.bufferText = s.bufferText /\ u.content = s.content /\ u.reasoning = s.reasoning
      /\ u.reasoningIx = s.reasoningIx /\ u.textIx = s.textIx /\ u.textDone = s.textDone
      /\ u.calls = s.calls /\ u.output = s.output /\ u.pending = s.pending
  BY <1>1 DEF SameMarks, SameTexts
<1>3. /\ DonesExact(s.out) /\ ReasoningExact(s) /\ ReasoningTold(s) /\ TextExact(s)
      /\ \A k \in Indices : CallExact(s, k)
  BY DEF Exact
<1>4. DonesExact(u.out)
  BY <1>1, <1>3, GrownDonesExact
<1>5. ReasoningExact(u)
  BY <1>1, <1>2, <1>3, GrownReasoningExact
<1>6. ReasoningTold(u)
  BY <1>1, <1>2, <1>3, GrownReasoningTold
<1>7. TextExact(u)
  BY <1>1, <1>2, <1>3, GrownTextExact
<1>8. \A k \in Indices : CallExact(u, k)
  BY <1>1, <1>2, <1>3, GrownCallsExact
<1>9. \A item : Late(u.out, item) <=> Late(s.out, item)
  BY <1>1, GrownNotLate
<1>10. Listed(s) => Listed(u)
  <2>1. Shown(u) = Shown(s)
    BY <1>1, GrownShown
  <2>2. \A ix : DoneSent(u, ix) <=> DoneSent(s, ix)
    <3>1. /\ Len(s.out) \in Nat /\ DOMAIN s.out = 1..Len(s.out)
          /\ DOMAIN u.out = 1..(Len(s.out) + 1)
          /\ \A i \in DOMAIN s.out : u.out[i] = s.out[i]
          /\ u.out[Len(s.out) + 1] = e
      BY <1>1, GrownFacts
    <3>2. QED BY <3>1 DEF DoneSent
  <2>3. ClosedIxs(u) = ClosedIxs(s)
    BY <2>2 DEF ClosedIxs
  <2>4. QED BY <1>2, <1>9, <2>1, <2>3 DEF Listed
<1>11. QED
  BY <1>1, <1>2, <1>4, <1>5, <1>6, <1>7, <1>8, <1>9, <1>10 DEF SameListed, Exact, u

LEMMA EmitTerminalTells ==
  ASSUME NEW s \in Assembler, Exact(s), NEW status \in Terminals
  PROVE  SameListed(s, EmitTerminal(s, status))
<1> DEFINE e == Event(status, None, NoItem, <<>>)
           t == Emit(s, e)
           u == EmitTerminal(s, status)
<1>1. e \in Events /\ e.type = status
  <2>1. NoItem \in Item /\ <<>> \in Text
    BY ItemTypes DEF Text
  <2>2. QED BY <2>1 DEF Event, Events, EventTypes, None
<1>2. status \notin {"delta", "done"}
  BY DEF Terminals
<1> HIDE DEF e
<1>3. SameListed(s, t) /\ t \in Assembler
  BY <1>1, <1>2, EmitOtherTells
<1>4. u = [t EXCEPT !.terminal = status]
  BY DEF EmitTerminal, e
<1> HIDE DEF t, u
<1>5. /\ u.bufferText = t.bufferText /\ u.content = t.content /\ u.reasoning = t.reasoning
      /\ u.reasoningIx = t.reasoningIx /\ u.textIx = t.textIx /\ u.textDone = t.textDone
      /\ u.calls = t.calls /\ u.output = t.output /\ u.pending = t.pending /\ u.out = t.out
      /\ u.next = t.next
  BY <1>3, <1>4 DEF Assembler
<1>6. Exact(u)
  BY <1>3, <1>5
     DEF SameListed, Exact, ReasoningExact, ReasoningTold, TextExact, CallExact, IsCustom
<1>7. Listed(t) => Listed(u)
  BY <1>5 DEF Listed, ClosedIxs, DoneSent, Shown
<1>8. QED BY <1>3, <1>5, <1>6, <1>7 DEF SameListed, u

------------------------------------------------------------------------------
(* The output ends with the calls finalize has visited, in the order of    *)
(* their keys.                                                             *)

Visited(s, left) == {k \in Indices \ left : s.calls[k].name # NoText}
Rank(V, k) == Cardinality({j \in V : j <= k})

CallsListed(s, left) ==
  LET V == Visited(s, left)
      before == Len(s.output) - Len(s.pending)
  IN  /\ IsFiniteSet(V) /\ Len(s.pending) = Cardinality(V) /\ before >= 0
      /\ \A i \in DOMAIN s.output : s.output[i].item.kind = "tool" <=> i > before
      /\ \A k \in V :
           /\ s.output[before + Rank(V, k)] =
                [item |-> ToolItem(s.calls[k]), text |-> ToolText(s, k)]
           /\ s.pending[Rank(V, k)] = s.calls[k].id
      /\ \A i \in left, j \in Indices \ left : j < i

LEMMA RankBounds ==
  ASSUME NEW V, V \subseteq Nat, IsFiniteSet(V), NEW k \in V
  PROVE  Rank(V, k) \in 1..Cardinality(V) /\ Cardinality(V) \in Nat
<1> DEFINE S == {j \in V : j <= k}
<1>1. S \subseteq V
  OBVIOUS
<1>2. k \in S
  OBVIOUS
<1> HIDE DEF S
<1>3. IsFiniteSet(S) /\ Cardinality(S) <= Cardinality(V)
  BY <1>1, FS_Subset
<1>4. Cardinality(S) # 0
  BY <1>2, <1>3, FS_EmptySet
<1>5. Cardinality(S) \in Nat /\ Cardinality(V) \in Nat
  BY <1>3, FS_CardinalityType
<1>6. Cardinality(S) \in 1..Cardinality(V)
  BY <1>3, <1>4, <1>5
<1>7. QED BY <1>5, <1>6 DEF Rank, S

(* A key above all of V. *)
LEMMA RankAbove ==
  ASSUME NEW V, V \subseteq Nat, IsFiniteSet(V), NEW k \in Nat, \A j \in V : j < k
  PROVE  LET W == V \cup {k} IN
         /\ IsFiniteSet(W) /\ Cardinality(W) = Cardinality(V) + 1
         /\ Rank(W, k) = Cardinality(V) + 1
         /\ \A j \in V : Rank(W, j) = Rank(V, j)
<1> DEFINE W == V \cup {k}
<1>1. k \notin V
  <2> SUFFICES ASSUME k \in V PROVE FALSE
    OBVIOUS
  <2>1. k < k
    OBVIOUS
  <2>2. QED BY <2>1
<1>2. IsFiniteSet(W) /\ Cardinality(W) = Cardinality(V) + 1
  BY <1>1, FS_AddElement
<1>3. {j \in W : j <= k} = W
  <2>1. \A j \in W : j <= k
    OBVIOUS
  <2> HIDE DEF W
  <2>2. QED BY <2>1
<1>4. \A j \in V : {i \in W : i <= j} = {i \in V : i <= j}
  OBVIOUS
<1>5. Rank(W, k) = Cardinality(W)
  BY <1>3 DEF Rank
<1>6. \A j \in V : Rank(W, j) = Rank(V, j)
  BY <1>4 DEF Rank
<1>7. QED BY <1>2, <1>5, <1>6

LEMMA CallListed ==
  ASSUME NEW s \in Assembler, NEW u \in Assembler, NEW left, left \subseteq Indices,
         NEW k \in left, \A j \in left : k <= j, CallsListed(s, left), Lists(s, u, k),
         u.bufferText = s.bufferText, u.calls[k].name = s.calls[k].name,
         \A j \in Indices \ {k} : u.calls[j] = s.calls[j]
  PROVE  CallsListed(u, left \ {k})
<1> DEFINE V == Visited(s, left)
           W == Visited(u, left \ {k})
           before == Len(s.output) - Len(s.pending)
           listed(x, j) == [item |-> ToolItem(x.calls[j]), text |-> ToolText(x, j)]
<1>1. /\ IsFiniteSet(V) /\ Len(s.pending) = Cardinality(V) /\ before >= 0
      /\ \A i \in DOMAIN s.output : s.output[i].item.kind = "tool" <=> i > before
      /\ \A j \in V : /\ s.output[before + Rank(V, j)] = listed(s, j)
                      /\ s.pending[Rank(V, j)] = s.calls[j].id
      /\ \A i \in left, j \in Indices \ left : j < i
  BY DEF CallsListed
<1>2. Indices \subseteq Nat /\ V \subseteq Nat /\ k \in Nat
  BY ConstantsAssumption DEF Visited
<1>3. \A i \in left \ {k}, j \in Indices \ (left \ {k}) : j < i
  BY <1>1, <1>2
<1>4. \A j \in V : j < k /\ j \in Indices \ {k}
  BY <1>1, <1>2 DEF Visited
<1>5. \A j \in V : u.calls[j] = s.calls[j] /\ listed(u, j) = listed(s, j)
  BY <1>4 DEF ToolText, IsCustom
<1>6. \A j : j \in W <=> j \in V \/ (j = k /\ s.calls[k].name # NoText)
  BY DEF Visited
<1>7. s.output \in Seq(Output) /\ s.pending \in Seq(Ids)
  BY DEF Assembler
<1>8. CASE s.calls[k].name = NoText
  <2>1. u.output = s.output /\ u.pending = s.pending
    BY <1>8 DEF Lists
  <2>2. W = V
    BY <1>6, <1>8
  <2> HIDE DEF V
  <2>3. QED BY <1>1, <1>3, <1>5, <2>1, <2>2 DEF CallsListed
<1>9. CASE s.calls[k].name # NoText
  <2> DEFINE p == listed(u, k)
             id == u.calls[k].id
             n == Cardinality(V)
             m == Len(s.output)
  <2>1. u.output = Append(s.output, p) /\ u.pending = Append(s.pending, id)
    BY <1>9 DEF Lists
  <2>2. W = V \cup {k}
    BY <1>6, <1>9
  <2>3. p \in Output /\ p.item.kind = "tool"
    <3>1. u.output \in Seq(Output) /\ u.calls[k] \in Call
      BY DEF Assembler
    <3>2. ToolItem(u.calls[k]) \in Item /\ ToolText(u, k) \in Text
      <4>1. u.calls[k].args \in Text
        BY <3>1 DEF Call
      <4>2. Canonical(u.calls[k].args) \in Text
        BY <4>1, CanonicalIsText
      <4>3. CustomInput(Canonical(u.calls[k].args)) \in Text
        BY <4>2, CanonicalIsText
      <4>4. QED BY <3>1, <4>2, <4>3, ItemTypes DEF ToolText
    <3>3. QED BY <3>2 DEF Output, ToolItem
  <2> HIDE DEF p
  <2>4. /\ m \in Nat /\ DOMAIN s.output = 1..m /\ DOMAIN u.output = 1..(m + 1)
        /\ Len(u.output) = m + 1 /\ u.output[m + 1] = p
        /\ \A i \in 1..m : u.output[i] = s.output[i]
    <3>1. Append(s.output, p) \in Seq(Output)
      BY <1>7, <2>3, AppendListed
    <3>2. QED BY <1>7, <2>1, <2>3, AppendListed
  <2>5. /\ n \in Nat /\ Len(u.pending) = n + 1 /\ u.pending[n + 1] = id
        /\ \A i \in 1..n : u.pending[i] = s.pending[i]
    BY <1>1, <1>7, <2>1, AppendProperties, LenProperties
  <2> HIDE DEF V, W, listed, m
  <2>6. /\ IsFiniteSet(W) /\ Cardinality(W) = n + 1 /\ Rank(W, k) = n + 1
        /\ \A j \in V : Rank(W, j) = Rank(V, j)
    BY <1>1, <1>2, <1>4, <2>2, RankAbove
  <2>7. \A j \in V : Rank(V, j) \in 1..n
    BY <1>1, <1>2, RankBounds
  <2>8. Len(u.output) - Len(u.pending) = before /\ before = m - n
    <3>1. before = m - n
      BY <1>1 DEF m
    <3>2. Len(u.output) = m + 1 /\ Len(u.pending) = n + 1 /\ m \in Nat /\ n \in Nat
      BY <2>4, <2>5
    <3> HIDE DEF before, n
    <3>3. QED BY <3>1, <3>2
  <2> HIDE DEF before, n
  <2>9. ASSUME NEW i \in DOMAIN u.output
        PROVE  u.output[i].item.kind = "tool" <=> i > before
    <3>1. CASE i = m + 1
      <4>1. i > before
        BY <2>4, <2>5, <2>8, <3>1
      <4>2. QED BY <2>3, <2>4, <3>1, <4>1
    <3>2. CASE i # m + 1
      <4>1. i \in 1..m
        BY <2>4, <3>2
      <4>2. i \in DOMAIN s.output /\ u.output[i] = s.output[i]
        BY <2>4, <4>1
      <4>3. QED BY <1>1, <4>2
    <3>3. QED BY <3>1, <3>2
  <2>10. \A j \in W : /\ u.output[before + Rank(W, j)] = listed(u, j)
                      /\ u.pending[Rank(W, j)] = u.calls[j].id
    <3>1. u.output[before + Rank(W, k)] = p /\ u.pending[Rank(W, k)] = id
      <4>1. m \in Nat /\ n \in Nat
        BY <2>4, <2>5
      <4>2. Rank(W, k) = n + 1 /\ before = m - n
        BY <2>6, <2>8
      <4>3. before + Rank(W, k) = m + 1
        BY <4>1, <4>2
      <4>4. QED BY <2>4, <2>5, <4>2, <4>3
    <3>2. ASSUME NEW j \in V
          PROVE  /\ u.output[before + Rank(W, j)] = listed(u, j)
                 /\ u.pending[Rank(W, j)] = u.calls[j].id
      <4> DEFINE i == Rank(V, j)
      <4>1. Rank(W, j) = i /\ i \in 1..n
        BY <2>6, <2>7
      <4>2. s.output[before + i] = listed(s, j) /\ s.pending[i] = s.calls[j].id
        BY <1>1
      <4>3. u.calls[j] = s.calls[j] /\ listed(u, j) = listed(s, j)
        BY <1>5
      <4> HIDE DEF i
      <4>4. before + i \in 1..m
        BY <1>1, <2>4, <2>5, <2>8, <4>1
      <4>5. u.output[before + i] = s.output[before + i] /\ u.pending[i] = s.pending[i]
        BY <2>4, <2>5, <4>1, <4>4
      <4>6. QED BY <4>1, <4>2, <4>3, <4>5
    <3>3. QED BY <2>2, <3>1, <3>2 DEF p
  <2>11. QED
    BY <1>1, <1>3, <2>5, <2>6, <2>8, <2>9, <2>10 DEF CallsListed, W, listed
<1>10. QED BY <1>8, <1>9

------------------------------------------------------------------------------
(* The inductive invariant.                                                *)

AllArgs(f, k) == FlattenSeq([i \in DOMAIN f |-> ArgsFor(f[i], k)])

(* The upstream goes back to reasoning, in the chunks of f. *)
Resumes(f) ==
  \E i, j \in DOMAIN f :
    i < j /\ f[j].reasoning # <<>> /\ (f[i].content # <<>> \/ f[i].calls)

LateOnly(s, f) ==
  s.bufferText => \A item : Late(s.out, item) => item = ReasoningItem /\ Resumes(f)

(* Before finalize nothing is listed, and with tools offered only a call   *)
(* closes the reasoning.                                                   *)
Unlisted(s, f) ==
  /\ ThinkAgrees(s) /\ s.output = <<>> /\ s.pending = <<>>
  /\ s.bufferText /\ s.reasoningDone => \E i \in DOMAIN f : f[i].calls

TInv ==
  /\ Exact(asm) /\ LateOnly(asm, fed)
  /\ \A k \in Indices : asm.calls[k].args = AllArgs(fed, k)
  /\ BeforeFinalize => Unlisted(asm, fed)
  /\ phase = "finalizing" => \A k \in todo : ~asm.calls[k].done
  /\ Finishing \/ row.stored => Listed(asm) /\ CallsListed(asm, todo)
  /\ row.stored =>
       /\ row.output = asm.output /\ row.pending = asm.pending /\ todo = {}
       /\ asm.bufferText => Len(asm.output) = asm.next

LEMMA FedGrown ==
  ASSUME NEW f \in Seq(Chunk), NEW c \in Chunk
  PROVE  /\ \A k : AllArgs(Append(f, c), k) = AllArgs(f, k) \o ArgsFor(c, k)
         /\ Resumes(f) => Resumes(Append(f, c))
         /\ (\E i \in DOMAIN f : f[i].calls) /\ c.reasoning # <<>> => Resumes(Append(f, c))
         /\ (\E i \in DOMAIN f : f[i].calls) \/ c.calls =>
              \E i \in DOMAIN Append(f, c) : Append(f, c)[i].calls
<1> DEFINE n == Len(f)
           g == Append(f, c)
<1>1. /\ n \in Nat /\ DOMAIN f = 1..n /\ \A i \in 1..n : f[i] \in Chunk
  BY LenProperties
<1>2. /\ DOMAIN g = 1..(n + 1) /\ g[n + 1] = c /\ \A i \in 1..n : g[i] = f[i]
  BY <1>1, AppendProperties, LenProperties
<1> HIDE DEF g, n
<1>3. \A i \in 1..(n + 1) : g[i] \in Chunk
  BY <1>1, <1>2
<1>4. \A k : AllArgs(g, k) = AllArgs(f, k) \o ArgsFor(c, k)
  <2> SUFFICES ASSUME NEW k PROVE AllArgs(g, k) = AllArgs(f, k) \o ArgsFor(c, k)
    OBVIOUS
  <2> DEFINE p == [i \in 1..(n + 1) |-> ArgsFor(g[i], k)]
             q == [i \in 1..n |-> ArgsFor(f[i], k)]
  <2>1. \A d \in Chunk : ArgsFor(d, k) \in Text
    BY DEF ArgsFor, Chunk, ToolDelta, Text
  <2>2. p \in [1..(n + 1) -> Text] /\ q \in [1..n -> Text]
    BY <1>1, <1>3, <2>1
  <2>3. \A i \in 1..n : p[i] = q[i]
    BY <1>1, <1>2
  <2>4. p[n + 1] = ArgsFor(c, k)
    BY <1>1, <1>2
  <2>5. AllArgs(g, k) = FlattenSeq(p) /\ AllArgs(f, k) = FlattenSeq(q)
    BY <1>1, <1>2 DEF AllArgs
  <2> HIDE DEF p, q
  <2>6. FlattenSeq(p) = FlattenSeq(q) \o p[n + 1]
    BY <1>1, <2>2, <2>3, FlattenGrown
  <2>7. QED BY <2>4, <2>5, <2>6
<1>5. Resumes(f) => Resumes(g)
  <2> SUFFICES ASSUME Resumes(f) PROVE Resumes(g)
    OBVIOUS
  <2>1. PICK i \in 1..n, j \in 1..n :
          i < j /\ f[j].reasoning # <<>> /\ (f[i].content # <<>> \/ f[i].calls)
    BY <1>1 DEF Resumes
  <2>2. i \in DOMAIN g /\ j \in DOMAIN g /\ g[i] = f[i] /\ g[j] = f[j]
    BY <1>1, <1>2
  <2>3. QED BY <2>1, <2>2 DEF Resumes
<1>6. ASSUME NEW i \in DOMAIN f, f[i].calls
      PROVE  /\ i \in DOMAIN g /\ g[i].calls
             /\ c.reasoning # <<>> => Resumes(g)
  <2>1. i \in DOMAIN g /\ g[i].calls /\ i < n + 1 /\ n + 1 \in DOMAIN g
    BY <1>1, <1>2, <1>6
  <2>2. QED BY <1>2, <2>1 DEF Resumes
<1>7. c.calls => g[n + 1].calls /\ n + 1 \in DOMAIN g
  BY <1>1, <1>2
<1>8. QED BY <1>4, <1>5, <1>6, <1>7 DEF g

LEMMA InitTInv == Init => TInv
<1> SUFFICES ASSUME Init PROVE TInv
  OBVIOUS
<1>1. PICK tools \in BOOLEAN : asm = NewAssembler(tools)
  BY DEF Init
<1>2. /\ asm.out = <<>> /\ asm.reasoningIx = None /\ asm.textIx = None
      /\ ~asm.reasoningDone /\ asm.reasoning = <<>> /\ asm.content = <<>>
      /\ asm.output = <<>> /\ asm.pending = <<>>
      /\ \A k \in Indices : asm.calls[k] = NewCall
  BY <1>1 DEF NewAssembler
<1>3. DOMAIN asm.out = {} /\ phase = "spawned" /\ fed = <<>> /\ ~row.stored
  BY <1>2 DEF Init, NoRow
<1>4. Exact(asm)
  BY <1>2, <1>3
     DEF Exact, DonesExact, ReasoningExact, ReasoningTold, TextExact, CallExact, NewCall
<1>5. LateOnly(asm, fed)
  BY <1>3 DEF LateOnly, Late
<1>6. \A k \in Indices : asm.calls[k].args = AllArgs(fed, k)
  <2>1. \A k : AllArgs(fed, k) = <<>>
    <3> SUFFICES ASSUME NEW k PROVE AllArgs(fed, k) = <<>>
      OBVIOUS
    <3> DEFINE p == [i \in DOMAIN fed |-> ArgsFor(fed[i], k)]
    <3>1. p \in [1..0 -> Text]
      BY <1>3
    <3> HIDE DEF p
    <3>2. FlattenSeq(p) = <<>>
      BY <3>1, FlattenEmpty
    <3>3. QED BY <3>2 DEF AllArgs, p
  <2>2. QED BY <1>2, <2>1 DEF NewCall
<1>7. Unlisted(asm, fed)
  BY <1>2 DEF Unlisted, ThinkAgrees
<1>8. QED BY <1>3, <1>4, <1>5, <1>6, <1>7 DEF TInv, Finishing

(* Steps that leave the items and the chunks as they are. *)
LEMMA QuietTInv ==
  ASSUME TInv, SameListed(asm, asm'), UNCHANGED <<todo, row, fed>>,
         BeforeFinalize' => Unlisted(asm, fed) /\ asm'.reasoning = asm.reasoning
                            /\ asm'.think = asm.think /\ asm'.reasoningDone = asm.reasoningDone,
         phase' = "finalizing" => phase = "finalizing",
         Finishing' \/ row.stored => Finishing \/ row.stored
  PROVE  TInv'
<1>1. /\ Exact(asm') /\ asm'.bufferText = asm.bufferText /\ asm'.calls = asm.calls
      /\ asm'.output = asm.output /\ asm'.pending = asm.pending /\ asm'.next = asm.next
      /\ Listed(asm) => Listed(asm')
      /\ \A item : Late(asm'.out, item) <=> Late(asm.out, item)
  BY DEF SameListed
<1>2. LateOnly(asm', fed)
  BY <1>1 DEF TInv, LateOnly
<1>3. \A k \in Indices : asm'.calls[k].args = AllArgs(fed, k)
  BY <1>1 DEF TInv
<1>4. BeforeFinalize' => Unlisted(asm', fed)
  BY <1>1 DEF Unlisted, ThinkAgrees
<1>5. phase' = "finalizing" => \A k \in todo : ~asm'.calls[k].done
  BY <1>1 DEF TInv
<1>6. CallsListed(asm, todo) => CallsListed(asm', todo)
  BY <1>1 DEF CallsListed, Visited, ToolText, IsCustom
<1>7. Finishing' \/ row.stored => Listed(asm') /\ CallsListed(asm', todo)
  BY <1>1, <1>6 DEF TInv
<1>8. row.stored =>
        /\ row.output = asm'.output /\ row.pending = asm'.pending /\ todo = {}
        /\ asm'.bufferText => Len(asm'.output) = asm'.next
  BY <1>1 DEF TInv
<1>9. QED BY <1>1, <1>2, <1>3, <1>4, <1>5, <1>7, <1>8 DEF TInv

LEMMA SameListedSelf == ASSUME NEW s, Exact(s) PROVE SameListed(s, s)
BY DEF SameListed

(* Steps of the task that do not touch the assembler. *)
LEMMA IdleTInv ==
  ASSUME TInv, asm' = asm, UNCHANGED <<todo, row, fed>>, phase' = phase \/ BeforeFinalize,
         phase' = phase \/ BeforeFinalize'
  PROVE  TInv'
<1>1. SameListed(asm, asm')
  BY SameListedSelf DEF TInv
<1>2. BeforeFinalize' => Unlisted(asm, fed)
  BY DEF TInv, BeforeFinalize
<1>3. /\ phase' = "finalizing" => phase = "finalizing"
      /\ Finishing' \/ row.stored => Finishing \/ row.stored
  BY DEF BeforeFinalize, Finishing
<1>4. QED BY <1>1, <1>2, <1>3, QuietTInv

LEMMA StartTInv == ASSUME IInv, TInv, Start PROVE TInv'
<1> DEFINE e == Event("created", None, NoItem, <<>>)
           f == Event("in_progress", None, NoItem, <<>>)
           v == Emit(asm, e)
<1>1. phase = "spawned" /\ phase' = "acquiring" /\ asm' = Emit(v, f)
  BY DEF Start
<1>2. /\ e \in Events /\ e.type = "created"
      /\ f \in Events /\ f.type = "in_progress"
  <2>1. NoItem \in Item /\ <<>> \in Text
    BY ItemTypes DEF Text
  <2>2. QED BY <2>1 DEF Event, Events, EventTypes
<1> HIDE DEF e, f
<1>3. asm \in Assembler /\ Exact(asm)
  BY DEF IInv, TypeOK, TInv
<1>4. SameListed(asm, v) /\ SameTexts(asm, v) /\ SameMarks(asm, v) /\ v \in Assembler
  BY <1>2, <1>3, EmitOtherTells
<1> HIDE DEF v
<1>5. SameListed(v, asm') /\ SameTexts(v, asm') /\ SameMarks(v, asm')
  BY <1>1, <1>2, <1>4, EmitOtherTells DEF SameListed
<1>6. SameListed(asm, asm')
  BY <1>4, <1>5 DEF SameListed
<1>7. /\ asm'.reasoning = asm.reasoning /\ asm'.think = asm.think
      /\ asm'.reasoningDone = asm.reasoningDone
  BY <1>4, <1>5 DEF SameTexts, SameMarks
<1>8. Unlisted(asm, fed)
  BY <1>1 DEF TInv, BeforeFinalize
<1>9. UNCHANGED <<todo, row, fed>> /\ (Finishing' \/ row.stored => Finishing \/ row.stored)
  BY <1>1 DEF Start, Finishing
<1>10. QED BY <1>1, <1>6, <1>7, <1>8, <1>9, QuietTInv

LEMMA EndTInv ==
  ASSUME IInv, TInv, NEW status \in Terminals, asm' = EmitTerminal(asm, status),
         phase' = "closed", UNCHANGED <<todo, row, fed>>
  PROVE  TInv'
<1>1. asm \in Assembler /\ Exact(asm)
  BY DEF IInv, TypeOK, TInv
<1>2. SameListed(asm, asm')
  BY <1>1, EmitTerminalTells
<1>3. ~BeforeFinalize' /\ ~Finishing' /\ phase' # "finalizing"
  BY DEF BeforeFinalize, Finishing
<1>4. QED BY <1>2, <1>3, QuietTInv

LEMMA FailTInv ==
  ASSUME IInv, TInv, NEW how, phase # "closed", FailAndClose(how)
  PROVE  TInv'
<1>1. /\ asm' = EmitTerminal(asm, "failed") /\ phase' = "closed"
      /\ UNCHANGED <<todo, row, fed>>
  BY OpenIsGood DEF FailAndClose, Fail
<1>2. QED BY <1>1, EndTInv DEF Terminals

LEMMA CompleteTInv == ASSUME IInv, TInv, Complete PROVE TInv'
<1> DEFINE status == CompletionStatus(asm.finish)
<1>1. /\ asm' = EmitTerminal(asm, status) /\ phase' = "closed"
      /\ UNCHANGED <<todo, row, fed>>
  BY DEF Complete
<1>2. status \in Terminals
  BY DEF CompletionStatus, Terminals
<1> HIDE DEF status
<1>3. QED BY <1>1, <1>2, EndTInv

LEMMA AcceptTInv == ASSUME IInv, RInv, TInv, AcceptChunk PROVE TInv'
<1>1. PICK c \in Chunks : asm' = Accept(asm, c) /\ fed' = Append(fed, c)
  BY DEF AcceptChunk
<1>2. /\ phase = "streaming" /\ phase' = "streaming" /\ UNCHANGED <<todo, row>>
  BY DEF AcceptChunk
<1>3. Ready(asm) /\ NoneDone(asm) /\ c \in Chunk /\ fed \in Seq(Chunk) /\ ~row.stored
  <2>1. Ready(asm) /\ NoneDone(asm)
    BY <1>2, OpenIsReady DEF RInv, BeforeFinalize
  <2>2. c \in Chunk /\ fed \in Seq(Chunk) /\ ~row.stored
    BY <1>2, ConstantsAssumption DEF IInv, TypeOK
  <2>3. QED BY <2>1, <2>2
<1>4. Told(asm) /\ Unlisted(asm, fed) /\ ThinkAgrees(asm)
  BY <1>2, <1>3 DEF TInv, Told, BeforeFinalize, Unlisted
<1>5. /\ Exact(asm') /\ ThinkAgrees(asm') /\ asm'.output = asm.output
      /\ asm'.pending = asm.pending /\ asm'.bufferText = asm.bufferText
      /\ \A k \in Indices : asm'.calls[k].args = asm.calls[k].args \o ArgsFor(c, k)
      /\ asm.bufferText =>
           /\ asm'.reasoningDone => asm.reasoningDone \/ c.calls
           /\ \A item : Late(asm'.out, item) =>
                \/ Late(asm.out, item)
                \/ item = ReasoningItem /\ asm.reasoningDone /\ c.reasoning # <<>>
  BY <1>1, <1>3, <1>4, AcceptTells
<1>6. /\ \A k : AllArgs(fed', k) = AllArgs(fed, k) \o ArgsFor(c, k)
      /\ Resumes(fed) => Resumes(fed')
      /\ (\E i \in DOMAIN fed : fed[i].calls) /\ c.reasoning # <<>> => Resumes(fed')
      /\ (\E i \in DOMAIN fed : fed[i].calls) \/ c.calls =>
           \E i \in DOMAIN fed' : fed'[i].calls
  BY <1>1, <1>3, FedGrown
<1>7. asm.bufferText /\ asm.reasoningDone => \E i \in DOMAIN fed : fed[i].calls
  BY <1>4 DEF Unlisted
<1>8. LateOnly(asm', fed')
  BY <1>5, <1>6, <1>7 DEF TInv, LateOnly
<1>9. \A k \in Indices : asm'.calls[k].args = AllArgs(fed', k)
  BY <1>5, <1>6 DEF TInv
<1>10. Unlisted(asm', fed')
  BY <1>4, <1>5, <1>6, <1>7 DEF Unlisted
<1>11. ~Finishing' /\ ~row'.stored /\ phase' # "finalizing"
  BY <1>2, <1>3 DEF Finishing
<1>12. QED BY <1>5, <1>8, <1>9, <1>10, <1>11 DEF TInv

LEMMA TruncatedTells ==
  ASSUME NEW s, Told(s), NoneDone(s)
  PROVE  LET u == MarkTruncatedAsLength(s) IN
         /\ Told(u) /\ NoneDone(u) /\ SameTexts(s, u) /\ u.out = s.out /\ u.calls = s.calls
         /\ u.bufferText = s.bufferText /\ u.reasoningDone = s.reasoningDone
         /\ u.textIx = s.textIx
<1> DEFINE u == MarkTruncatedAsLength(s)
<1>1. Ready(s) /\ Good(s) /\ Exact(s) /\ s \in Assembler
  BY DEF Told, Ready, Good
<1>2. Good(u) /\ Advances(s, u) /\ NoneDone(u)
  BY <1>1, MarkTruncatedIsGood, MarkTruncatedAdvances
<1>3. /\ u.out = s.out /\ u.calls = s.calls /\ u.bufferText = s.bufferText
      /\ u.reasoningIx = s.reasoningIx /\ u.reasoningDone = s.reasoningDone
      /\ u.textIx = s.textIx /\ u.textDone = s.textDone /\ SameTexts(s, u)
  BY <1>1 DEF MarkTruncatedAsLength, Assembler, SameTexts
<1> HIDE DEF u
<1>4. Exact(u)
  BY <1>1, <1>3
     DEF Exact, ReasoningExact, ReasoningTold, TextExact, CallExact, IsCustom, SameTexts
<1>5. Told(u)
  BY <1>2, <1>4 DEF Told, Ready, Advances, Tends
<1>6. QED BY <1>2, <1>3, <1>5 DEF u

LEMMA BeginFinalizeTInv ==
  ASSUME IInv, RInv, TInv, phase = "streaming",
         NEW s, Told(s), NoneDone(s), SameTexts(asm, s), s.out = asm.out, s.calls = asm.calls,
         s.bufferText = asm.bufferText, s.reasoningDone = asm.reasoningDone,
         s.textIx = asm.textIx, NEW how, BeginFinalize(s, how)
  PROVE  TInv'
<1>1. /\ asm' = FinalizeText(s) /\ todo' = Indices /\ phase' = "finalizing"
      /\ row' = row /\ fed' = fed
  BY DEF BeginFinalize
<1>2. /\ asm.bufferText => asm.textIx = None
      /\ Unlisted(asm, fed) /\ ~row.stored
  BY DEF RInv, TInv, IInv, BeforeFinalize
<1>3. ThinkAgrees(s) /\ s.output = <<>> /\ s.pending = <<>> /\ (s.bufferText => s.textIx = None)
  BY <1>2 DEF Unlisted, ThinkAgrees, SameTexts
<1>4. /\ Told(asm') /\ asm'.calls = s.calls /\ asm'.bufferText = s.bufferText
      /\ asm'.pending = <<>> /\ asm'.output \in Seq(Output)
      /\ \A i \in DOMAIN asm'.output : asm'.output[i].item.kind # "tool"
      /\ Listed(asm')
      /\ s.bufferText => \A item : Late(asm'.out, item) => Late(s.out, item)
  BY <1>1, <1>3, FinalizeTextTells
<1>5. LateOnly(asm', fed')
  BY <1>1, <1>4 DEF TInv, LateOnly
<1>6. \A k \in Indices : asm'.calls[k].args = AllArgs(fed', k)
  BY <1>1, <1>4 DEF TInv
<1>7. \A k \in todo' : ~asm'.calls[k].done
  BY <1>1, <1>4 DEF NoneDone
<1>8. CallsListed(asm', todo')
  <2> DEFINE before == Len(asm'.output) - Len(asm'.pending)
  <2>1. Visited(asm', todo') = {}
    BY <1>1 DEF Visited
  <2>2. /\ Len(asm'.pending) = 0 /\ Len(asm'.output) \in Nat
        /\ DOMAIN asm'.output = 1..Len(asm'.output)
    BY <1>4, LenProperties
  <2>3. before >= 0 /\ before = Len(asm'.output)
    BY <2>2
  <2> HIDE DEF before
  <2>4. \A i \in DOMAIN asm'.output : asm'.output[i].item.kind = "tool" <=> i > before
    BY <1>4, <2>2, <2>3
  <2>5. \A i \in todo', j \in Indices \ todo' : j < i
    BY <1>1
  <2>6. QED BY <2>1, <2>2, <2>3, <2>4, <2>5, FS_EmptySet DEF CallsListed, before
<1>9. Exact(asm')
  BY <1>4 DEF Told
<1>10. QED
  BY <1>1, <1>2, <1>4, <1>5, <1>6, <1>7, <1>8, <1>9 DEF TInv, BeforeFinalize, Finishing

LEMMA FinalizeNextToolTInv == ASSUME IInv, RInv, TInv, FinalizeNextTool PROVE TInv'
<1>1. PICK k \in todo :
        /\ \A j \in todo : k <= j
        /\ asm' = FinalizeTool(asm, k) /\ todo' = todo \ {k}
  BY DEF FinalizeNextTool
<1>2. /\ phase = "finalizing" /\ phase' = "finalizing" /\ k \in Indices /\ todo \subseteq Indices
      /\ row' = row /\ fed' = fed /\ ~row.stored /\ asm \in Assembler
  BY DEF FinalizeNextTool, IInv, TypeOK
<1>3. /\ Told(asm) /\ Listed(asm) /\ Settled(asm) /\ ~asm.calls[k].done
      /\ CallsListed(asm, todo)
  <2>1. Ready(asm) /\ Settled(asm)
    BY <1>2, OpenIsReady DEF RInv, Finishing
  <2>2. QED BY <1>2, <2>1 DEF TInv, Told, Finishing
<1>4. /\ Told(asm') /\ Listed(asm') /\ asm'.bufferText = asm.bufferText /\ Lists(asm, asm', k)
      /\ asm'.calls[k].name = asm.calls[k].name /\ asm'.calls[k].args = asm.calls[k].args
      /\ \A j \in Indices \ {k} : asm'.calls[j] = asm.calls[j]
      /\ \A item : Late(asm'.out, item) <=> Late(asm.out, item)
  BY <1>1, <1>2, <1>3, FinalizeToolTells
<1>5. LateOnly(asm', fed')
  BY <1>2, <1>4 DEF TInv, LateOnly
<1>6. \A j \in Indices : asm'.calls[j].args = AllArgs(fed', j)
  BY <1>2, <1>4 DEF TInv
<1>7. \A j \in todo' : ~asm'.calls[j].done
  BY <1>1, <1>2, <1>4 DEF TInv
<1>8. CallsListed(asm', todo')
  <2>1. asm' \in Assembler
    BY <1>4 DEF Told, Ready, Good
  <2>2. QED BY <1>1, <1>2, <1>3, <1>4, <2>1, CallListed
<1>9. QED
  BY <1>2, <1>4, <1>5, <1>6, <1>7, <1>8 DEF TInv, Told, BeforeFinalize, Finishing

(* What is stored lists every item that was announced. *)
LEMMA StatePutTInv == ASSUME IInv, RInv, TInv, StatePut PROVE TInv'
<1>1. /\ phase = "finalizing" /\ todo = {} /\ phase' = "stored" /\ asm' = asm
      /\ todo' = todo /\ fed' = fed
      /\ row' = [stored |-> TRUE, content |-> asm.content,
                 output |-> asm.output, pending |-> asm.pending]
  BY DEF StatePut
<1>2. Good(asm) /\ asm.next \in Nat
  BY <1>1, OpenIsGood DEF Good, Assembler
<1>3. Listed(asm) /\ CallsListed(asm, todo) /\ Exact(asm)
  BY <1>1 DEF TInv, Finishing
<1>4. ASSUME asm.bufferText PROVE Len(asm.output) = asm.next
  <2>1. Cardinality(ClosedIxs(asm)) = Len(asm.output)
    BY <1>3, <1>4 DEF Listed
  <2>2. \A ix \in 0..(asm.next - 1) : ix \in ClosedIxs(asm)
    BY <1>1, <1>2, <1>4, AllClosed DEF ClosedIxs
  <2>3. ASSUME NEW ix \in ClosedIxs(asm) PROVE ix \in 0..(asm.next - 1)
    <3>1. PICK i \in DOMAIN asm.out : asm.out[i].type = "done" /\ asm.out[i].ix = ix
      BY <2>3 DEF ClosedIxs, DoneSent
    <3>2. Known(asm, asm.out[i].ix, asm.out[i].item)
      BY <1>2, <3>1, DoneIsKnown
    <3>3. QED BY <1>2, <3>1, <3>2 DEF Known, Good, Core, Ordered
  <2>4. ClosedIxs(asm) = 0..(asm.next - 1)
    BY <2>2, <2>3
  <2>5. Cardinality(0..(asm.next - 1)) = asm.next
    <3>1. 0 \in Int /\ asm.next - 1 \in Int
      BY <1>2
    <3>2. Cardinality(0..(asm.next - 1)) =
            IF 0 > asm.next - 1 THEN 0 ELSE asm.next - 1 - 0 + 1
      BY <3>1, FS_Interval
    <3>3. QED BY <1>2, <3>2
  <2>6. QED BY <2>1, <2>4, <2>5
<1>5. LateOnly(asm, fed) /\ \A k \in Indices : asm.calls[k].args = AllArgs(fed, k)
  BY DEF TInv
<1>6. row'.stored /\ row'.output = asm.output /\ row'.pending = asm.pending
  BY <1>1
<1>7. QED BY <1>1, <1>3, <1>4, <1>5, <1>6 DEF TInv, BeforeFinalize, Finishing

LEMMA NextTInv == IInv /\ RInv /\ TInv /\ [Next]_vars => TInv'
<1> SUFFICES ASSUME IInv, RInv, TInv, [Next]_vars
             PROVE  TInv'
  OBVIOUS
<1>1. CASE Start
  BY <1>1, StartTInv
<1>2. CASE AcquirePermit \/ UpstreamAccepted
  BY <1>2, IdleTInv DEF AcquirePermit, UpstreamAccepted, BeforeFinalize
<1>3. CASE RateLimited \/ UpstreamRefused \/ UpstreamError \/ EofEmpty \/ StatePutFails
  BY <1>3, FailTInv
     DEF RateLimited, UpstreamRefused, UpstreamError, EofEmpty, StatePutFails
<1>4. CASE AcceptChunk
  BY <1>4, AcceptTInv
<1>5. ASSUME phase = "streaming" PROVE Told(asm) /\ NoneDone(asm)
  BY <1>5, OpenIsReady DEF RInv, TInv, Told, BeforeFinalize
<1>6. CASE UpstreamDone \/ EofFinished
  <2>1. PICK how : phase = "streaming" /\ BeginFinalize(asm, how)
    BY <1>6 DEF UpstreamDone, EofFinished
  <2>2. SameTexts(asm, asm)
    BY DEF SameTexts
  <2>3. QED BY <1>5, <2>1, <2>2, BeginFinalizeTInv
<1>7. CASE EofTruncated
  <2> DEFINE s == MarkTruncatedAsLength(asm)
  <2>1. phase = "streaming" /\ BeginFinalize(s, "eof")
    BY <1>7 DEF EofTruncated
  <2>2. /\ Told(s) /\ NoneDone(s) /\ SameTexts(asm, s) /\ s.out = asm.out
        /\ s.calls = asm.calls /\ s.bufferText = asm.bufferText
        /\ s.reasoningDone = asm.reasoningDone /\ s.textIx = asm.textIx
    BY <1>5, <2>1, TruncatedTells
  <2> HIDE DEF s
  <2>3. QED BY <2>1, <2>2, BeginFinalizeTInv
<1>8. CASE FinalizeNextTool
  BY <1>8, FinalizeNextToolTInv
<1>9. CASE StatePut
  BY <1>9, StatePutTInv
<1>10. CASE Complete
  BY <1>10, CompleteTInv
<1>11. CASE Closed \/ UNCHANGED vars
  BY <1>11, IdleTInv DEF Closed, vars
<1>12. QED
  BY <1>1, <1>2, <1>3, <1>4, <1>6, <1>7, <1>8, <1>9, <1>10, <1>11 DEF Next, TaskStep

LEMMA TInvariance == Spec => [](IInv /\ RInv /\ TInv)
<1>1. Init => TInv
  BY InitTInv
<1>2. IInv /\ RInv /\ TInv /\ [Next]_vars => TInv'
  BY NextTInv
<1>3. QED BY <1>1, <1>2, RInvariance, PTL DEF Spec

------------------------------------------------------------------------------
(* The theorems.                                                           *)

(* For every upstream, however it cuts its texts and interleaves them: the *)
(* text a done event gives is what the deltas of its item add up to, up to *)
(* the canonical form of a call's arguments.                               *)
THEOREM DoneTextStreamed == Spec => []DoneTextIsStreamed
<1>1. TInv => DoneTextIsStreamed
  <2> SUFFICES ASSUME TInv, NEW j \in At("done")
               PROVE  LET e == asm.out[j]
                          text == Streamed(e.ix, j)
                      IN  \/ e.text = text
                          \/ e.item.kind = "tool" /\ (text = <<>> \/ e.text = Canonical(text))
    BY DEF DoneTextIsStreamed
  <2>1. j \in DOMAIN asm.out /\ asm.out[j].type = "done"
    BY DEF At
  <2>2. TellsText(asm.out[j], Upto(asm.out, asm.out[j].ix, j))
    BY <2>1 DEF TInv, Exact, DonesExact
  <2>3. Streamed(asm.out[j].ix, j) = Upto(asm.out, asm.out[j].ix, j)
    BY DEF Streamed, Upto
  <2>4. QED BY <2>2, <2>3 DEF TellsText
<1>2. QED BY <1>1, TInvariance, PTL

(* With tools offered, a client that has been told an item is done reads   *)
(* no further delta of it, unless it is the reasoning and the upstream     *)
(* went back to it.                                                        *)
THEOREM NothingLate == Spec => []NoLateDeltas
<1>1. TInv => NoLateDeltas
  <2> SUFFICES ASSUME TInv, asm.bufferText, NEW i \in At("done"), NEW j \in At("delta"),
                      i < j, asm.out[i].ix = asm.out[j].ix
               PROVE  asm.out[i].item = ReasoningItem /\ ResumesReasoning
    BY DEF NoLateDeltas
  <2>1. Late(asm.out, asm.out[i].item)
    BY DEF Late, At
  <2>2. asm.out[i].item = ReasoningItem /\ Resumes(fed)
    BY <2>1 DEF TInv, LateOnly
  <2>3. QED BY <2>2 DEF Resumes, ResumesReasoning
<1>2. QED BY <1>1, TInvariance, PTL

(* With tools offered, what is stored as the response's output is what the *)
(* client saw done: the same items with the same texts, and all of them.   *)
THEOREM OutputStreamed == Spec => []OutputIsWhatWasStreamed
<1>1. TInv => OutputIsWhatWasStreamed
  <2> SUFFICES ASSUME TInv, row.stored, asm.bufferText, ~ResumesReasoning
               PROVE  /\ ToSet(row.output) =
                           {[item |-> asm.out[i].item, text |-> asm.out[i].text] :
                              i \in At("done")}
                      /\ Len(row.output) = asm.next
    BY DEF OutputIsWhatWasStreamed
  <2>1. row.output = asm.output /\ Len(asm.output) = asm.next /\ Listed(asm)
    BY DEF TInv
  <2>2. ~Late(asm.out, ReasoningItem)
    BY DEF TInv, LateOnly, Resumes, ResumesReasoning
  <2>3. ToSet(asm.output) = Shown(asm)
    BY <2>1, <2>2 DEF Listed
  <2>4. QED BY <2>1, <2>3 DEF Shown, At
<1>2. QED BY <1>1, TInvariance, PTL

(* For every set of indices and every order in which their fragments       *)
(* arrive: the stored response calls every tool that was named, in the     *)
(* order of the indices, each with all the arguments of its index.         *)
THEOREM CallsStored == Spec => []StoredCallsComplete
<1>1. TInv => StoredCallsComplete
  <2> SUFFICES ASSUME TInv, row.stored
               PROVE  LET named == {k \in Indices : asm.calls[k].name # NoText}
                          before == Len(row.output) - Len(row.pending)
                          Text4(k) == IF IsCustom(asm, asm.calls[k].name)
                                      THEN CustomInput(Canonical(FedArgs(k)))
                                      ELSE Canonical(FedArgs(k))
                      IN  /\ Len(row.pending) = Cardinality(named) /\ before >= 0
                          /\ \A i \in DOMAIN row.output :
                               row.output[i].item.kind = "tool" <=> i > before
                          /\ \A k \in named : LET n == Cardinality({j \in named : j <= k}) IN
                               /\ row.output[before + n] =
                                    [item |-> ToolItem(asm.calls[k]), text |-> Text4(k)]
                               /\ row.pending[n] = asm.calls[k].id
    BY DEF StoredCallsComplete
  <2> DEFINE V == Visited(asm, todo)
             named == {k \in Indices : asm.calls[k].name # NoText}
             before == Len(asm.output) - Len(asm.pending)
  <2>1. /\ row.output = asm.output /\ row.pending = asm.pending /\ todo = {}
        /\ CallsListed(asm, todo)
    BY DEF TInv
  <2>2. V = named
    BY <2>1 DEF Visited
  <2>3. /\ Len(asm.pending) = Cardinality(V) /\ before >= 0
        /\ \A i \in DOMAIN asm.output : asm.output[i].item.kind = "tool" <=> i > before
        /\ \A k \in V :
             /\ asm.output[before + Rank(V, k)] =
                  [item |-> ToolItem(asm.calls[k]), text |-> ToolText(asm, k)]
             /\ asm.pending[Rank(V, k)] = asm.calls[k].id
    BY <2>1 DEF CallsListed
  <2>4. \A k \in Indices : ToolText(asm, k) =
          IF IsCustom(asm, asm.calls[k].name)
          THEN CustomInput(Canonical(FedArgs(k))) ELSE Canonical(FedArgs(k))
    BY DEF TInv, ToolText, AllArgs, FedArgs
  <2>5. \A k : Rank(named, k) = Cardinality({j \in named : j <= k})
    BY DEF Rank
  <2>6. \A k \in named : k \in Indices
    OBVIOUS
  <2>7. /\ Len(row.pending) = Cardinality(named) /\ Len(row.output) - Len(row.pending) >= 0
        /\ \A i \in DOMAIN row.output :
             row.output[i].item.kind = "tool" <=> i > Len(row.output) - Len(row.pending)
    <3> HIDE DEF V, named
    <3>1. QED BY <2>1, <2>2, <2>3
  <2>8. ASSUME NEW k \in named
        PROVE  LET n == Cardinality({j \in named : j <= k}) IN
               /\ row.output[Len(row.output) - Len(row.pending) + n] =
                    [item |-> ToolItem(asm.calls[k]),
                     text |-> IF IsCustom(asm, asm.calls[k].name)
                              THEN CustomInput(Canonical(FedArgs(k)))
                              ELSE Canonical(FedArgs(k))]
               /\ row.pending[n] = asm.calls[k].id
    <3>1. k \in Indices /\ k \in V
      BY <2>2, <2>6
    <3> HIDE DEF V, named
    <3>2. /\ asm.output[before + Rank(V, k)] =
               [item |-> ToolItem(asm.calls[k]), text |-> ToolText(asm, k)]
          /\ asm.pending[Rank(V, k)] = asm.calls[k].id
      BY <2>3, <3>1
    <3>3. Rank(V, k) = Cardinality({j \in named : j <= k})
      BY <2>2, <2>5
    <3>4. QED BY <2>1, <2>4, <3>1, <3>2, <3>3
  <2>9. QED BY <2>7, <2>8, Zenon
<1>2. QED BY <1>1, TInvariance, PTL
==============================================================================
