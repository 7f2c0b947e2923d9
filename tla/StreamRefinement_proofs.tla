------------------------ MODULE StreamRefinement_proofs ------------------------
(***************************************************************************)
(* The proof that the streaming task implements ResponsesStream, and that  *)
(* no message is shown in a response that calls a tool.  Where             *)
(* StreamAssembler_proofs says what a flag that is not set means, the      *)
(* invariant here says what a set flag means: the done event was sent.     *)
(***************************************************************************)
EXTENDS StreamAssembler_proofs

------------------------------------------------------------------------------
(* Whose item an output_index is, and whether it was closed.               *)

DoneSent(s, ix) == \E i \in DOMAIN s.out : s.out[i].type = "done" /\ s.out[i].ix = ix

OwnedItem(s, ix, item) ==
  \/ s.reasoningIx # None /\ ix = s.reasoningIx /\ item = ReasoningItem
  \/ s.textIx # None /\ ix = s.textIx /\ item = MessageItem
  \/ \E k \in Indices :
       s.calls[k].added /\ ix = s.calls[k].ix /\ item = ToolItem(s.calls[k])

(* Every item announced is still known to the struct, by the same index,   *)
(* id and name.                                                            *)
Owned(s) ==
  \A i \in DOMAIN s.out : s.out[i].type = "added" => OwnedItem(s, s.out[i].ix, s.out[i].item)

ReasoningTidy(s) ==
  /\ s.reasoningIx # None => s.reasoning # <<>>
  /\ s.reasoningDone => s.reasoningIx # None /\ DoneSent(s, s.reasoningIx)

TextTidy(s) == s.textDone => s.textIx # None /\ DoneSent(s, s.textIx)

CallsTidy(s) ==
  \A k \in Indices : s.calls[k].added =>
    s.calls[k].name # NoText /\ (s.calls[k].done => DoneSent(s, s.calls[k].ix))

Tidy(s) == Owned(s) /\ ReasoningTidy(s) /\ TextTidy(s) /\ CallsTidy(s)

(* No item is withdrawn or reopened. *)
Grows(s, u) ==
  /\ u.bufferText = s.bufferText /\ s.next <= u.next
  /\ \A ix : DoneSent(s, ix) => DoneSent(u, ix)

Tends(s, u) == Tidy(u) /\ Grows(s, u)

(* With tools offered, the message is not announced. *)
Advances(s, u) == Tends(s, u) /\ (s.bufferText => u.textIx = s.textIx)

LEMMA AdvancesSelf == ASSUME NEW s, Good(s), Tidy(s) PROVE Advances(s, s)
<1>1. s.next \in Nat
  BY DEF Good, Assembler
<1>2. QED BY <1>1 DEF Advances, Tends, Grows

LEMMA AdvancesTrans ==
  ASSUME NEW s, NEW t, NEW u, s.next \in Int, t.next \in Int, u.next \in Int,
         Advances(s, t), Advances(t, u)
  PROVE  Advances(s, u)
BY DEF Advances, Tends, Grows

LEMMA GrownSent ==
  ASSUME NEW s, NEW u, NEW e, Grown(s, u, e)
  PROVE  /\ \A ix : DoneSent(s, ix) => DoneSent(u, ix)
         /\ e.type = "done" => DoneSent(u, e.ix)
<1>1. /\ Len(s.out) \in Nat /\ DOMAIN s.out = 1..Len(s.out)
      /\ DOMAIN u.out = 1..(Len(s.out) + 1)
      /\ \A i \in DOMAIN s.out : u.out[i] = s.out[i]
      /\ u.out[Len(s.out) + 1] = e
  BY GrownFacts
<1>2. QED BY <1>1 DEF DoneSent

LEMMA GrownOwned ==
  ASSUME NEW s, NEW u, NEW e, Grown(s, u, e), Owned(s),
         \A ix, item : OwnedItem(s, ix, item) => OwnedItem(u, ix, item),
         e.type = "added" => OwnedItem(u, e.ix, e.item)
  PROVE  Owned(u)
<1>1. /\ Len(s.out) \in Nat /\ DOMAIN s.out = 1..Len(s.out)
      /\ DOMAIN u.out = 1..(Len(s.out) + 1)
      /\ \A i \in DOMAIN s.out : u.out[i] = s.out[i]
      /\ u.out[Len(s.out) + 1] = e
  BY GrownFacts
<1> SUFFICES ASSUME NEW i \in DOMAIN u.out, u.out[i].type = "added"
             PROVE  OwnedItem(u, u.out[i].ix, u.out[i].item)
  BY DEF Owned
<1>2. CASE i \in DOMAIN s.out
  BY <1>1, <1>2 DEF Owned
<1>3. CASE i = Len(s.out) + 1
  BY <1>1, <1>3
<1>4. QED BY <1>1, <1>2, <1>3

(* An assignment to fields that say nothing about the items. *)
LEMMA AssignAdvances ==
  ASSUME NEW s, NEW u, Tidy(s), s.next \in Nat, SameMarks(s, u),
         u.out = s.out, u.next = s.next, u.reasoning # <<>> \/ u.reasoning = s.reasoning
  PROVE  Advances(s, u)
<1>1. \A ix : DoneSent(s, ix) <=> DoneSent(u, ix)
  BY DEF DoneSent
<1>2. Owned(u)
  BY DEF Tidy, Owned, OwnedItem, SameMarks
<1>3. ReasoningTidy(u) /\ TextTidy(u) /\ CallsTidy(u)
  BY <1>1 DEF Tidy, ReasoningTidy, TextTidy, CallsTidy, SameMarks
<1>4. QED BY <1>1, <1>2, <1>3 DEF Advances, Tends, Tidy, Grows, SameMarks

(* An event that announces nothing. *)
LEMMA EmitAdvances ==
  ASSUME NEW s \in Assembler, Tidy(s), NEW e \in Events, e.type # "added"
  PROVE  Advances(s, Emit(s, e)) /\ (e.type = "done" => DoneSent(Emit(s, e), e.ix))
<1> DEFINE u == Emit(s, e)
<1>1. u \in Assembler /\ SameFields(s, u) /\ u.next = s.next /\ Grown(s, u, e)
  BY EmitFields
<1>2. s.next \in Nat
  BY DEF Assembler
<1> HIDE DEF u
<1>3. /\ \A ix : DoneSent(s, ix) => DoneSent(u, ix)
      /\ e.type = "done" => DoneSent(u, e.ix)
  BY <1>1, GrownSent
<1>4. Owned(u)
  <2>1. \A ix, item : OwnedItem(s, ix, item) => OwnedItem(u, ix, item)
    BY <1>1 DEF OwnedItem, SameFields, SameMarks
  <2>2. QED BY <1>1, <2>1, GrownOwned DEF Tidy
<1>5. ReasoningTidy(u) /\ TextTidy(u) /\ CallsTidy(u)
  BY <1>1, <1>3 DEF Tidy, ReasoningTidy, TextTidy, CallsTidy, SameFields, SameMarks
<1>6. QED
  BY <1>1, <1>2, <1>3, <1>4, <1>5 DEF u, Advances, Tends, Tidy, Grows, SameFields, SameMarks

LEMMA AddItemGrown ==
  ASSUME NEW s, Good(s), NEW item \in Item
  PROVE  LET u == AddItem(s, item)
             e == Event("added", s.next, item, <<>>)
         IN  /\ Grown(s, u, e) /\ e.type = "added" /\ e.ix = s.next /\ e.item = item
             /\ u \in Assembler /\ SameFields(s, u)
             /\ u.next = s.next + 1 /\ s.next \in Nat /\ s \in Assembler
<1> DEFINE e == Event("added", s.next, item, <<>>)
           v == Emit(s, e)
           u == AddItem(s, item)
<1>1. s \in Assembler /\ s.next \in Nat
  BY DEF Good, Assembler
<1>2. e \in Events /\ e.type = "added" /\ e.ix = s.next /\ e.item = item
  <2>1. <<>> \in Text
    BY DEF Text
  <2>2. QED BY <1>1, <2>1 DEF Event, Events, EventTypes
<1>3. u = [v EXCEPT !.next = @ + 1]
  BY DEF AddItem
<1> HIDE DEF e
<1>4. v \in Assembler /\ v.next = s.next /\ Grown(s, v, e)
  BY <1>1, <1>2, EmitFields
<1> HIDE DEF v
<1>5. u.next = s.next + 1 /\ u.out = v.out
  BY <1>1, <1>3, <1>4 DEF Assembler
<1>6. u \in Assembler /\ SameFields(s, u)
  BY AddItemLeads DEF Leads, Good
<1>7. QED BY <1>1, <1>2, <1>4, <1>5, <1>6 DEF e, Grown

------------------------------------------------------------------------------
(* The reasoning and the message.                                          *)

LEMMA ConcatNotEmpty ==
  ASSUME NEW t \in Text, NEW u \in Text, u # <<>>
  PROVE  t \o u # <<>>
<1>1. Len(u) \in Nat /\ Len(u) # 0 /\ Len(t) \in Nat
  BY LenProperties, EmptySeq DEF Text
<1>2. Len(t \o u) = Len(t) + Len(u)
  BY ConcatProperties DEF Text
<1>3. Len(<<>>) = 0
  OBVIOUS
<1>4. QED BY <1>1, <1>2, <1>3

LEMMA PushReasoningDeltaAdvances ==
  ASSUME NEW s, Good(s), Tidy(s), NEW delta \in Text, delta # <<>>
  PROVE  Advances(s, PushReasoningDelta(s, delta))
<1> DEFINE a == AddItem(s, ReasoningItem)
           t == IF s.reasoningIx = None THEN [a EXCEPT !.reasoningIx = s.next] ELSE s
           u == [t EXCEPT !.reasoning = @ \o delta]
           e == Event("delta", t.reasoningIx, ReasoningItem, delta)
<1>1. s \in Assembler /\ s.next \in Nat /\ s.reasoning \in Text
  BY DEF Good, Assembler
<1>2. s.reasoning \o delta \in Text /\ s.reasoning \o delta # <<>>
  BY <1>1, ConcatIsText, ConcatNotEmpty
<1>3. u \in Assembler /\ Advances(s, u)
  <2>1. CASE s.reasoningIx = None
    <3> DEFINE f == Event("added", s.next, ReasoningItem, <<>>)
    <3>1. /\ Grown(s, a, f) /\ f.type = "added" /\ f.ix = s.next /\ f.item = ReasoningItem
          /\ a \in Assembler /\ SameFields(s, a) /\ a.next = s.next + 1
      BY AddItemGrown, ItemTypes
    <3> HIDE DEF a, f
    <3>2. t = [a EXCEPT !.reasoningIx = s.next]
      BY <2>1
    <3>3. t \in Assembler /\ t.reasoningIx = s.next
      BY <1>1, <3>1, <3>2 DEF Assembler
    <3>4. /\ t.out = a.out /\ t.next = a.next /\ t.bufferText = a.bufferText
          /\ t.textIx = a.textIx /\ t.textDone = a.textDone /\ t.calls = a.calls
          /\ t.reasoningDone = a.reasoningDone /\ t.reasoning = a.reasoning
      BY <3>1, <3>2 DEF Assembler
    <3> HIDE DEF t
    <3>5. a.reasoning = s.reasoning
      BY <3>1 DEF SameFields
    <3>6. u \in Assembler /\ u.reasoning = s.reasoning \o delta
      BY <1>2, <3>3, <3>4, <3>5 DEF Assembler
    <3>7. /\ u.out = t.out /\ u.next = t.next /\ u.bufferText = t.bufferText
          /\ u.textIx = t.textIx /\ u.textDone = t.textDone /\ u.calls = t.calls
          /\ u.reasoningDone = t.reasoningDone /\ u.reasoningIx = t.reasoningIx
      BY <3>3 DEF Assembler
    <3> HIDE DEF u
    <3>8. /\ Grown(s, u, f) /\ u.next = s.next + 1 /\ u.bufferText = s.bufferText
          /\ u.textIx = s.textIx /\ u.textDone = s.textDone /\ u.calls = s.calls
          /\ u.reasoningDone = s.reasoningDone /\ u.reasoningIx = s.next
      BY <3>1, <3>3, <3>4, <3>7 DEF Grown, SameFields, SameMarks
    <3>9. \A ix : DoneSent(s, ix) => DoneSent(u, ix)
      BY <3>8, GrownSent
    <3>10. Owned(u)
      <4>1. \A ix, item : OwnedItem(s, ix, item) => OwnedItem(u, ix, item)
        BY <2>1, <3>8 DEF OwnedItem
      <4>2. OwnedItem(u, f.ix, f.item)
        BY <1>1, <3>1, <3>8 DEF OwnedItem, None
      <4>3. QED BY <3>8, <4>1, <4>2, GrownOwned DEF Tidy
    <3>11. ReasoningTidy(u) /\ TextTidy(u) /\ CallsTidy(u)
      BY <1>2, <2>1, <3>6, <3>8, <3>9 DEF Tidy, ReasoningTidy, TextTidy, CallsTidy
    <3>12. QED
      BY <1>1, <3>6, <3>8, <3>9, <3>10, <3>11 DEF Advances, Tends, Tidy, Grows
  <2>2. CASE s.reasoningIx # None
    <3>1. u = [s EXCEPT !.reasoning = @ \o delta]
      BY <2>2
    <3> HIDE DEF u, t
    <3>2. /\ u \in Assembler /\ SameMarks(s, u) /\ u.out = s.out /\ u.next = s.next
          /\ u.reasoning = s.reasoning \o delta
      <4>0. s.reasoning \o delta \in Text
        BY <1>1, <1>2, ConcatIsText DEF Assembler
      <4>1. u \in Assembler
        BY <1>1, <3>1, <4>0 DEF Assembler
      <4>2. u.out = s.out /\ u.next = s.next /\ u.reasoning = s.reasoning \o delta
        BY <1>1, <3>1 DEF Assembler
      <4>3. SameMarks(s, u)
        BY <1>1, <3>1 DEF Assembler, SameMarks
      <4>4. QED BY <4>1, <4>2, <4>3
    <3>3. QED BY <1>1, <1>2, <3>2, AssignAdvances
  <2>3. QED BY <2>1, <2>2
<1>4. e \in Events /\ e.type = "delta"
  <2>1. s.reasoningIx = None => a \in Assembler
    BY AddItemGrown, ItemTypes
  <2> HIDE DEF a
  <2>2. t.reasoningIx \in Nat \cup {None} /\ ReasoningItem \in Item
    BY <1>1, <2>1, ItemTypes DEF Assembler
  <2> HIDE DEF t
  <2>3. QED BY <2>2 DEF Event, Events, EventTypes
<1>5. PushReasoningDelta(s, delta) = Emit(u, e)
  BY DEF PushReasoningDelta
<1> HIDE DEF a, t, u, e
<1>6. Advances(u, Emit(u, e)) /\ Emit(u, e) \in Assembler
  BY <1>3, <1>4, EmitAdvances, EmitFields DEF Advances, Tends
<1>7. u.next \in Int /\ Emit(u, e).next \in Int
  BY <1>3, <1>6 DEF Assembler
<1>8. QED BY <1>1, <1>3, <1>5, <1>6, <1>7, AdvancesTrans

LEMMA FinishReasoningItemAdvances ==
  ASSUME NEW s, Good(s), Tidy(s)
  PROVE  LET u == FinishReasoningItem(s) IN
         /\ Advances(s, u) /\ u.reasoning = s.reasoning /\ u.textIx = s.textIx
         /\ u.reasoningIx = s.reasoningIx /\ (u.reasoningIx # None => u.reasoningDone)
<1>1. CASE s.reasoningIx = None \/ s.reasoningDone
  BY <1>1, AdvancesSelf DEF FinishReasoningItem
<1>2. CASE s.reasoningIx # None /\ ~s.reasoningDone
  <2> DEFINE e == Event("done", s.reasoningIx, ReasoningItem, s.reasoning)
             v == Emit(s, e)
             u == [v EXCEPT !.reasoningDone = TRUE]
  <2>1. FinishReasoningItem(s) = u
    BY <1>2 DEF FinishReasoningItem
  <2>2. s \in Assembler /\ s.next \in Nat
    BY DEF Good, Assembler
  <2>3. e \in Events /\ e.type = "done" /\ e.ix = s.reasoningIx /\ e.item = ReasoningItem
    <3>1. s.reasoningIx \in Nat \cup {None} /\ ReasoningItem \in Item /\ s.reasoning \in Text
      BY <2>2, ItemTypes DEF Assembler
    <3>2. QED BY <3>1 DEF Event, Events, EventTypes
  <2> HIDE DEF e
  <2>4. v \in Assembler /\ SameFields(s, v) /\ v.next = s.next
    BY <2>2, <2>3, EmitFields
  <2>5. Advances(s, v) /\ DoneSent(v, s.reasoningIx)
    BY <2>2, <2>3, EmitAdvances
  <2> HIDE DEF v
  <2>6. /\ u.reasoningDone /\ u.out = v.out /\ u.next = v.next
        /\ u.bufferText = v.bufferText /\ u.reasoningIx = v.reasoningIx
        /\ u.textIx = v.textIx /\ u.textDone = v.textDone /\ u.calls = v.calls
        /\ u.reasoning = v.reasoning
    BY <2>4 DEF Assembler
  <2> HIDE DEF u
  <2>7. \A ix : DoneSent(v, ix) <=> DoneSent(u, ix)
    BY <2>6 DEF DoneSent
  <2>8. /\ u.reasoningIx = s.reasoningIx /\ u.reasoning = s.reasoning
        /\ u.textIx = s.textIx
    BY <2>4, <2>6 DEF SameFields, SameMarks
  <2>9. Tidy(v)
    BY <2>5 DEF Advances, Tends
  <2>10. Owned(u)
    BY <2>6, <2>9 DEF Tidy, Owned, OwnedItem
  <2>11. ReasoningTidy(u) /\ TextTidy(u) /\ CallsTidy(u)
    BY <1>2, <2>5, <2>6, <2>7, <2>8, <2>9 DEF Tidy, ReasoningTidy, TextTidy, CallsTidy
  <2>12. Advances(s, u)
    BY <2>5, <2>6, <2>7, <2>10, <2>11 DEF Advances, Tends, Tidy, Grows
  <2>13. QED BY <2>1, <2>6, <2>8, <2>12
<1>3. QED
  <2>1. s.reasoningDone \in BOOLEAN
    BY DEF Good, Assembler
  <2>2. QED BY <1>1, <1>2, <2>1

LEMMA CloseReasoningAdvances ==
  ASSUME NEW s, Good(s), Tidy(s)
  PROVE  Advances(s, CloseReasoning(s)) /\ CloseReasoning(s).textIx = s.textIx
BY FinishReasoningItemAdvances, AdvancesSelf DEF CloseReasoning

LEMMA EnsureTextStartedTends ==
  ASSUME NEW s, Good(s), Tidy(s)
  PROVE  Tends(s, EnsureTextStarted(s))
<1>1. CASE s.textIx # None
  BY <1>1, AdvancesSelf DEF EnsureTextStarted, Advances
<1>2. CASE s.textIx = None
  <2> DEFINE t == CloseReasoning(s)
             a == AddItem(t, MessageItem)
             e == Event("added", t.next, MessageItem, <<>>)
             u == [a EXCEPT !.textIx = t.next]
  <2>1. EnsureTextStarted(s) = u
    BY <1>2 DEF EnsureTextStarted
  <2>2. Advances(s, t) /\ t.textIx = None /\ Good(t)
    BY <1>2, CloseReasoningAdvances, CloseReasoningKeeps, KeepsGood
  <2> HIDE DEF t
  <2>3. Tidy(t) /\ s.next \in Nat
    BY <2>2 DEF Advances, Tends, Good, Assembler
  <2>4. /\ Grown(t, a, e) /\ e.type = "added" /\ e.ix = t.next /\ e.item = MessageItem
        /\ a \in Assembler /\ SameFields(t, a) /\ a.next = t.next + 1 /\ t.next \in Nat
    BY <2>2, AddItemGrown, ItemTypes
  <2> HIDE DEF a, e
  <2>5. /\ u.textIx = t.next /\ u.out = a.out /\ u.next = a.next
        /\ u.bufferText = a.bufferText /\ u.reasoningIx = a.reasoningIx
        /\ u.reasoningDone = a.reasoningDone /\ u.textDone = a.textDone
        /\ u.calls = a.calls /\ u.reasoning = a.reasoning
    BY <2>4 DEF Assembler
  <2> HIDE DEF u
  <2>6. /\ Grown(t, u, e) /\ u.next = t.next + 1 /\ u.bufferText = t.bufferText
        /\ u.reasoningIx = t.reasoningIx /\ u.reasoningDone = t.reasoningDone
        /\ u.textDone = t.textDone /\ u.calls = t.calls /\ u.reasoning = t.reasoning
    BY <2>4, <2>5 DEF Grown, SameFields, SameMarks
  <2>7. \A ix : DoneSent(t, ix) => DoneSent(u, ix)
    BY <2>6, GrownSent
  <2>8. Owned(u)
    <3>1. \A ix, item : OwnedItem(t, ix, item) => OwnedItem(u, ix, item)
      BY <2>2, <2>6 DEF OwnedItem
    <3>2. OwnedItem(u, e.ix, e.item)
      BY <2>4, <2>5 DEF OwnedItem, None
    <3>3. QED BY <2>3, <2>6, <3>1, <3>2, GrownOwned DEF Tidy
  <2>9. ReasoningTidy(u) /\ TextTidy(u) /\ CallsTidy(u)
    BY <2>2, <2>3, <2>6, <2>7 DEF Tidy, ReasoningTidy, TextTidy, CallsTidy
  <2>10. QED
    BY <2>1, <2>2, <2>3, <2>4, <2>6, <2>7, <2>8, <2>9 DEF Advances, Tends, Tidy, Grows
<1>3. QED BY <1>1, <1>2

LEMMA PushTextDeltaAdvances ==
  ASSUME NEW s, Good(s), Tidy(s), NEW text \in Text
  PROVE  Advances(s, PushTextDelta(s, text))
<1> DEFINE Grow(t) == [t EXCEPT !.content = @ \o text]
<1>1. ASSUME NEW t, Good(t), Tidy(t)
      PROVE  /\ Advances(t, Grow(t)) /\ Grow(t) \in Assembler
             /\ Grow(t).textIx = t.textIx /\ Grow(t).bufferText = t.bufferText
  <2>1. t \in Assembler /\ t.content \o text \in Text /\ t.next \in Nat
    BY <1>1, ConcatIsText DEF Good, Assembler
  <2>2. /\ Grow(t) \in Assembler /\ SameMarks(t, Grow(t))
        /\ Grow(t).out = t.out /\ Grow(t).next = t.next /\ Grow(t).reasoning = t.reasoning
    BY <2>1 DEF Assembler, SameMarks
  <2> HIDE DEF Grow
  <2>3. QED BY <1>1, <2>1, <2>2, AssignAdvances DEF SameMarks
<1>2. CASE s.bufferText
  BY <1>1, <1>2 DEF PushTextDelta
<1>3. CASE ~s.bufferText
  <2> DEFINE t == EnsureTextStarted(s)
             e == Event("delta", Grow(t).textIx, MessageItem, text)
  <2>1. PushTextDelta(s, text) = Emit(Grow(t), Event("delta", t.textIx, MessageItem, text))
    BY <1>3 DEF PushTextDelta
  <2>2. Good(t) /\ Tends(s, t)
    BY EnsureTextStartedKeeps, EnsureTextStartedTends, KeepsGood
  <2> HIDE DEF t, Grow
  <2>3. /\ Advances(t, Grow(t)) /\ Grow(t) \in Assembler /\ Grow(t).textIx = t.textIx
    BY <1>1, <2>2 DEF Tends
  <2>4. e \in Events /\ e.type = "delta"
    <3>1. Grow(t).textIx \in Nat \cup {None} /\ MessageItem \in Item
      BY <2>3, ItemTypes DEF Assembler
    <3>2. QED BY <3>1 DEF Event, Events, EventTypes
  <2>5. PushTextDelta(s, text) = Emit(Grow(t), e)
    BY <2>1, <2>3
  <2> HIDE DEF e
  <2>6. Advances(Grow(t), Emit(Grow(t), e))
    BY <2>3, <2>4, EmitAdvances DEF Advances, Tends
  <2>7. /\ s.next \in Nat /\ t.next \in Nat /\ Grow(t).next \in Nat
        /\ Emit(Grow(t), e).next \in Nat
    BY <2>2, <2>3, <2>4, EmitFields DEF Good, Assembler
  <2>8. QED BY <1>3, <2>2, <2>3, <2>5, <2>6, <2>7 DEF Advances, Tends, Grows
<1>4. QED BY <1>2, <1>3

LEMMA FinishTextItemTends ==
  ASSUME NEW s, Good(s), Tidy(s), s.content # <<>>
  PROVE  LET u == FinishTextItem(s) IN
         /\ Tends(s, u) /\ u.textDone /\ u.reasoning = s.reasoning
         /\ u.reasoningIx = s.reasoningIx /\ (s.reasoningDone => u.reasoningDone)
<1>1. CASE s.textDone
  BY <1>1, AdvancesSelf DEF FinishTextItem, Advances
<1>2. CASE ~s.textDone
  <2> DEFINE t == EnsureTextStarted(s)
             u == IF t.bufferText
                  THEN Emit(t, Event("delta", t.textIx, MessageItem, t.content)) ELSE t
             e == Event("done", u.textIx, MessageItem, u.content)
             v == Emit(u, e)
             w == [v EXCEPT !.textDone = TRUE]
  <2>1. FinishTextItem(s) = w
    BY <1>2 DEF FinishTextItem
  <2>2. Good(t) /\ Tends(s, t) /\ t.textIx # None
    BY EnsureTextStartedKeeps, EnsureTextStartedTends, KeepsGood
  <2>3. /\ t.reasoning = s.reasoning /\ t.reasoningIx = s.reasoningIx
        /\ s.reasoningDone => t.reasoningDone
    <3> DEFINE c == CloseReasoning(s)
    <3>1. CASE s.textIx # None
      BY <3>1 DEF EnsureTextStarted
    <3>2. CASE s.textIx = None
      <4>1. /\ c.reasoning = s.reasoning /\ c.reasoningIx = s.reasoningIx
            /\ s.reasoningDone => c = s
        BY FinishReasoningItemAdvances DEF CloseReasoning
      <4>2. Good(c)
        BY CloseReasoningKeeps, KeepsGood
      <4>3. t = [AddItem(c, MessageItem) EXCEPT !.textIx = c.next]
        BY <3>2 DEF EnsureTextStarted
      <4> HIDE DEF c, t
      <4>4. SameFields(c, AddItem(c, MessageItem)) /\ AddItem(c, MessageItem) \in Assembler
        BY <4>2, AddItemGrown, ItemTypes
      <4>5. /\ t.reasoning = AddItem(c, MessageItem).reasoning
            /\ t.reasoningIx = AddItem(c, MessageItem).reasoningIx
            /\ t.reasoningDone = AddItem(c, MessageItem).reasoningDone
        BY <4>3, <4>4 DEF Assembler
      <4>6. QED BY <4>1, <4>4, <4>5 DEF SameFields, SameMarks
    <3>3. QED BY <3>1, <3>2
  <2> HIDE DEF t
  <2>4. t \in Assembler /\ Tidy(t) /\ t.textIx \in Nat \cup {None} /\ t.content \in Text
    BY <2>2 DEF Good, Assembler, Tends
  <2>5. Advances(t, u) /\ u \in Assembler /\ SameFields(t, u)
    <3> DEFINE d == Event("delta", t.textIx, MessageItem, t.content)
    <3>1. d \in Events /\ d.type = "delta" /\ d.ix = t.textIx /\ d.item = MessageItem
      <4>1. MessageItem \in Item
        BY ItemTypes
      <4>2. QED BY <2>4, <4>1, DeltaTyped
    <3> HIDE DEF d
    <3>2. Advances(t, Emit(t, d)) /\ Emit(t, d) \in Assembler /\ SameFields(t, Emit(t, d))
      BY <2>4, <3>1, EmitAdvances, EmitFields
    <3>3. Advances(t, t) /\ SameFields(t, t)
      BY <2>2, <2>4, AdvancesSelf DEF SameFields, SameMarks
    <3>4. u = IF t.bufferText THEN Emit(t, d) ELSE t
      BY DEF d
    <3>5. QED BY <2>4, <3>2, <3>3, <3>4
  <2> HIDE DEF u
  <2>6. e \in Events /\ e.type = "done" /\ e.ix = u.textIx /\ e.item = MessageItem
    <3>1. u.textIx \in Nat \cup {None} /\ MessageItem \in Item /\ u.content \in Text
      BY <2>5, ItemTypes DEF Assembler
    <3>2. QED BY <3>1, DoneTyped
  <2> HIDE DEF e
  <2>7. v \in Assembler /\ SameFields(u, v)
    BY <2>5, <2>6, EmitFields
  <2>8. Advances(u, v) /\ DoneSent(v, u.textIx)
    BY <2>5, <2>6, EmitAdvances DEF Advances, Tends
  <2> HIDE DEF v
  <2>9. /\ w.textDone /\ w.out = v.out /\ w.next = v.next
        /\ w.bufferText = v.bufferText /\ w.reasoningIx = v.reasoningIx
        /\ w.reasoningDone = v.reasoningDone /\ w.textIx = v.textIx
        /\ w.calls = v.calls /\ w.reasoning = v.reasoning
    BY <2>7 DEF Assembler
  <2> HIDE DEF w
  <2>10. /\ w.textIx = u.textIx /\ u.textIx = t.textIx
         /\ w.reasoning = t.reasoning /\ w.reasoningIx = t.reasoningIx
         /\ w.reasoningDone = t.reasoningDone
    BY <2>5, <2>7, <2>9 DEF SameFields, SameMarks
  <2>11. \A ix : DoneSent(v, ix) <=> DoneSent(w, ix)
    BY <2>9 DEF DoneSent
  <2>12. Tidy(v)
    BY <2>8 DEF Advances, Tends
  <2>13. Owned(w)
    BY <2>9, <2>12 DEF Tidy, Owned, OwnedItem
  <2>14. ReasoningTidy(w) /\ TextTidy(w) /\ CallsTidy(w)
    BY <2>2, <2>8, <2>9, <2>10, <2>11, <2>12 DEF Tidy, ReasoningTidy, TextTidy, CallsTidy
  <2>15. s.next \in Nat /\ t.next \in Nat /\ u.next \in Nat /\ v.next \in Nat
    BY <2>4, <2>5, <2>7 DEF Good, Assembler
  <2>16. Tends(s, w)
    BY <2>2, <2>5, <2>8, <2>9, <2>11, <2>13, <2>14, <2>15 DEF Advances, Tends, Tidy, Grows
  <2>17. QED BY <2>1, <2>3, <2>9, <2>10, <2>16
<1>3. QED
  <2>1. s.textDone \in BOOLEAN
    BY DEF Good, Assembler
  <2>2. QED BY <1>1, <1>2, <2>1

------------------------------------------------------------------------------
(* The leading <think> block.                                              *)

Ready(s) == Good(s) /\ Tidy(s)

(* A method that leaves the calls alone. *)
Moves(s, u) == Keeps(s, u) /\ Advances(s, u)

LEMMA MovesReady == ASSUME NEW s, NEW u, Moves(s, u) PROVE Ready(u)
BY KeepsGood DEF Moves, Ready, Advances, Tends

LEMMA MovesSelf == ASSUME NEW s, Ready(s) PROVE Moves(s, s)
BY KeepsSelf, AdvancesSelf DEF Moves, Ready

LEMMA MovesTrans ==
  ASSUME NEW s, NEW t, NEW u, Ready(s), Moves(s, t), Moves(t, u)
  PROVE  Moves(s, u)
<1>1. Ready(t) /\ Ready(u)
  BY MovesReady
<1>2. s.next \in Int /\ t.next \in Int /\ u.next \in Int
  BY <1>1 DEF Ready, Good, Assembler
<1>3. Keeps(s, u)
  BY KeepsTrans DEF Moves
<1>4. Advances(s, u)
  BY <1>2, AdvancesTrans DEF Moves
<1>5. QED BY <1>3, <1>4 DEF Moves

LEMMA SetThinkMoves ==
  ASSUME NEW s, Ready(s), NEW text \in Text, NEW state \in {"Detecting", "InThink", "Done"}
  PROVE  /\ Moves(s, [s EXCEPT !.buffer = text])
         /\ Moves(s, [s EXCEPT !.buffer = text, !.think = state])
         /\ Moves(s, [s EXCEPT !.think = state])
<1>1. s \in Assembler /\ s.next \in Nat /\ Good(s) /\ Tidy(s)
  BY DEF Ready, Good, Assembler
<1>2. ASSUME NEW u, SameMarks(s, u), u.out = s.out, u.next = s.next,
             u.reasoning = s.reasoning
      PROVE  Advances(s, u)
  BY <1>1, <1>2, AssignAdvances
<1>3. Advances(s, [s EXCEPT !.buffer = text])
  <2> DEFINE u == [s EXCEPT !.buffer = text]
  <2>1. SameMarks(s, u) /\ u.out = s.out /\ u.next = s.next /\ u.reasoning = s.reasoning
    BY <1>1 DEF Assembler, SameMarks
  <2> HIDE DEF u
  <2>2. Advances(s, u)
    BY <1>2, <2>1
  <2>3. QED BY <2>2 DEF u
<1>4. Advances(s, [s EXCEPT !.buffer = text, !.think = state])
  <2> DEFINE u == [s EXCEPT !.buffer = text, !.think = state]
  <2>1. SameMarks(s, u) /\ u.out = s.out /\ u.next = s.next /\ u.reasoning = s.reasoning
    BY <1>1 DEF Assembler, SameMarks
  <2> HIDE DEF u
  <2>2. Advances(s, u)
    BY <1>2, <2>1
  <2>3. QED BY <2>2 DEF u
<1>5. Advances(s, [s EXCEPT !.think = state])
  <2> DEFINE u == [s EXCEPT !.think = state]
  <2>1. SameMarks(s, u) /\ u.out = s.out /\ u.next = s.next /\ u.reasoning = s.reasoning
    BY <1>1 DEF Assembler, SameMarks
  <2> HIDE DEF u
  <2>2. Advances(s, u)
    BY <1>2, <2>1
  <2>3. QED BY <2>2 DEF u
<1>6. QED BY <1>1, <1>3, <1>4, <1>5, SetThink DEF Moves

LEMMA PushReasoningDeltaMoves ==
  ASSUME NEW s, Ready(s), NEW delta \in Text, delta # <<>>
  PROVE  Moves(s, PushReasoningDelta(s, delta))
BY PushReasoningDeltaKeeps, PushReasoningDeltaAdvances DEF Moves, Ready

LEMMA PushTextDeltaMoves ==
  ASSUME NEW s, Ready(s), NEW text \in Text
  PROVE  Moves(s, PushTextDelta(s, text))
BY PushTextDeltaKeeps, PushTextDeltaAdvances DEF Moves, Ready

LEMMA CloseReasoningMoves ==
  ASSUME NEW s, Ready(s)
  PROVE  Moves(s, CloseReasoning(s))
BY CloseReasoningKeeps, CloseReasoningAdvances DEF Moves, Ready

LEMMA PushPartsMoves ==
  ASSUME NEW s, Ready(s), NEW parts \in Parts
  PROVE  Moves(s, PushParts(s, parts))
<1> DEFINE t == IF parts.reasoning = <<>> THEN s ELSE PushReasoningDelta(s, parts.reasoning)
           u == [t EXCEPT !.buffer = <<>>, !.think = "Done"]
<1>1. parts.reasoning \in Text /\ parts.answer \in Text /\ <<>> \in Text
  BY DEF Parts, Text
<1>2. Moves(s, t)
  BY <1>1, PushReasoningDeltaMoves, MovesSelf
<1>3. PushParts(s, parts) = IF parts.answer = <<>> THEN u ELSE PushTextDelta(u, parts.answer)
  BY DEF PushParts
<1> HIDE DEF t
<1>4. Moves(t, u)
  BY <1>1, <1>2, MovesReady, SetThinkMoves
<1> HIDE DEF u
<1>5. Moves(s, u)
  BY <1>2, <1>4, MovesTrans
<1>6. Moves(u, PushTextDelta(u, parts.answer))
  BY <1>1, <1>5, MovesReady, PushTextDeltaMoves
<1>7. Moves(s, PushTextDelta(u, parts.answer))
  BY <1>5, <1>6, MovesTrans
<1>8. QED BY <1>3, <1>5, <1>7

LEMMA AcceptInThinkContentMoves ==
  ASSUME NEW s, Ready(s), NEW text \in Text
  PROVE  Moves(s, AcceptInThinkContent(s, text))
<1> DEFINE joined == s.buffer \o text
           split == SplitIncompleteThinkCloseSuffix(joined)
           t == IF split.emit = <<>> THEN s ELSE PushReasoningDelta(s, split.emit)
<1>1. joined \in Text
  BY ConcatIsText DEF Ready, Good, Assembler
<1>2. AcceptInThinkContent(s, text) =
        IF HasClose(joined)
        THEN PushParts(s, SplitAtThinkClose(joined)) ELSE [t EXCEPT !.buffer = split.keep]
  BY DEF AcceptInThinkContent
<1> HIDE DEF joined
<1>3. split.emit \in Text /\ split.keep \in Text
  BY <1>1, SplitSuffixIsText
<1> HIDE DEF split
<1>4. Moves(s, t)
  BY <1>3, PushReasoningDeltaMoves, MovesSelf
<1> HIDE DEF t
<1>5. Moves(t, [t EXCEPT !.buffer = split.keep])
  BY <1>3, <1>4, MovesReady, SetThinkMoves
<1>6. Moves(s, [t EXCEPT !.buffer = split.keep])
  BY <1>4, <1>5, MovesTrans
<1>7. CASE HasClose(joined)
  BY <1>1, <1>2, <1>7, SplitAtThinkCloseIsParts, PushPartsMoves
<1>8. CASE ~HasClose(joined)
  BY <1>2, <1>6, <1>8
<1>9. QED BY <1>7, <1>8

LEMMA DetectLeadingThinkMoves ==
  ASSUME NEW s, Ready(s), NEW text \in Text
  PROVE  Moves(s, DetectLeadingThink(s, text))
<1> DEFINE joined == s.buffer \o text
           inside == StripLeadingThinkOpenTag(joined)
           opened == [s EXCEPT !.buffer = <<>>, !.think = "InThink"]
           closed == [s EXCEPT !.buffer = <<>>, !.think = "Done"]
<1>1. joined \in Text /\ <<>> \in Text
  BY ConcatIsText DEF Ready, Good, Assembler, Text
<1>2. DetectLeadingThink(s, text) =
        IF HasLeadingThinkBlock(joined)
        THEN PushParts(s, SplitLeadingThinkBlock(joined))
        ELSE IF HasLeadingOpen(joined)
        THEN IF inside = <<>> THEN opened ELSE AcceptInThinkContent(opened, inside)
        ELSE IF IsLeadingThinkPrefix(joined)
        THEN [s EXCEPT !.buffer = joined]
        ELSE PushTextDelta(closed, joined)
  BY DEF DetectLeadingThink
<1> HIDE DEF joined
<1>3. inside \in Text
  BY <1>1, AfterLeadingOpenIsText, TrimIsText DEF StripLeadingThinkOpenTag
<1> HIDE DEF inside
<1>4. Moves(s, opened) /\ Moves(s, closed) /\ Moves(s, [s EXCEPT !.buffer = joined])
  BY <1>1, SetThinkMoves
<1> HIDE DEF opened, closed
<1>5. Moves(s, AcceptInThinkContent(opened, inside))
  BY <1>3, <1>4, MovesReady, MovesTrans, AcceptInThinkContentMoves
<1>6. Moves(s, PushTextDelta(closed, joined))
  BY <1>1, <1>4, MovesReady, MovesTrans, PushTextDeltaMoves
<1>7. HasLeadingThinkBlock(joined) => Moves(s, PushParts(s, SplitLeadingThinkBlock(joined)))
  BY <1>1, SplitLeadingThinkBlockIsParts, PushPartsMoves
<1>8. QED BY <1>2, <1>4, <1>5, <1>6, <1>7

LEMMA AcceptContentDeltaMoves ==
  ASSUME NEW s, Ready(s), NEW text \in Text
  PROVE  Moves(s, AcceptContentDelta(s, text))
<1>1. s.think \in {"Detecting", "InThink", "Done"}
  BY DEF Ready, Good, Assembler
<1>2. QED
  BY <1>1, PushTextDeltaMoves, DetectLeadingThinkMoves, AcceptInThinkContentMoves
  DEF AcceptContentDelta

LEMMA FlushPendingThinkBufferMoves ==
  ASSUME NEW s, Ready(s)
  PROVE  /\ Moves(s, FlushPendingThinkBuffer(s))
         /\ Moves(s, DisableLeadingThinkDetection(s))
<1> DEFINE emptied == [s EXCEPT !.buffer = <<>>, !.think = "Done"]
           t == FlushPendingThinkBuffer(s)
<1>1. /\ s.think \in {"Detecting", "InThink", "Done"}
      /\ s.buffer \in Text /\ <<>> \in Text
  BY DEF Ready, Good, Assembler, Text
<1>2. FlushPendingThinkBuffer(s) =
        CASE s.think = "Done" -> s
          [] s.think = "Detecting" ->
               IF s.buffer = <<>> THEN s ELSE PushTextDelta(emptied, s.buffer)
          [] s.think = "InThink" ->
               IF s.buffer = <<>> THEN emptied ELSE PushReasoningDelta(emptied, s.buffer)
  BY DEF FlushPendingThinkBuffer
<1>3. Moves(s, emptied)
  BY <1>1, SetThinkMoves
<1> HIDE DEF emptied
<1>4. Moves(s, PushTextDelta(emptied, s.buffer))
  BY <1>1, <1>3, MovesReady, MovesTrans, PushTextDeltaMoves
<1>5. s.buffer # <<>> => Moves(s, PushReasoningDelta(emptied, s.buffer))
  BY <1>1, <1>3, MovesReady, MovesTrans, PushReasoningDeltaMoves
<1>6. Moves(s, t)
  BY <1>1, <1>2, <1>3, <1>4, <1>5, MovesSelf
<1> HIDE DEF t
<1>7. Moves(t, [t EXCEPT !.think = "Done"])
  BY <1>6, MovesReady, SetThinkMoves, <1>1
<1>8. Moves(s, [t EXCEPT !.think = "Done"])
  BY <1>6, <1>7, MovesTrans
<1>9. QED BY <1>6, <1>8 DEF t, DisableLeadingThinkDetection

------------------------------------------------------------------------------
(* The tool calls while the upstream streams: none is done yet.            *)

NoneDone(s) == \A k \in Indices : ~s.calls[k].done

SameTurn(s, u) ==
  /\ u.reasoningIx = s.reasoningIx /\ u.reasoningDone = s.reasoningDone
  /\ u.textIx = s.textIx /\ u.textDone = s.textDone /\ u.bufferText = s.bufferText
  /\ \A j \in Indices : u.calls[j].name = s.calls[j].name

(* The assignment of a call's fields, before it is announced or after. *)
LEMMA AssignCallAdvances ==
  ASSUME NEW s, NEW u, Ready(s),
         u.out = s.out, u.next = s.next, u.reasoning = s.reasoning,
         u.reasoningIx = s.reasoningIx, u.reasoningDone = s.reasoningDone,
         u.textIx = s.textIx, u.textDone = s.textDone, u.bufferText = s.bufferText,
         \A j \in Indices :
           /\ u.calls[j].ix = s.calls[j].ix /\ u.calls[j].added = s.calls[j].added
           /\ s.calls[j].added =>
                /\ u.calls[j].id = s.calls[j].id /\ u.calls[j].name = s.calls[j].name
                /\ u.calls[j].done => s.calls[j].done
  PROVE  Advances(s, u)
<1>1. s.next \in Nat /\ Tidy(s)
  BY DEF Ready, Good, Assembler
<1>2. \A ix : DoneSent(s, ix) <=> DoneSent(u, ix)
  BY DEF DoneSent
<1>3. \A ix, item : OwnedItem(s, ix, item) => OwnedItem(u, ix, item)
  BY DEF OwnedItem, ToolItem
<1>4. Owned(u)
  BY <1>1, <1>3 DEF Tidy, Owned
<1>5. ReasoningTidy(u) /\ TextTidy(u)
  BY <1>1, <1>2 DEF Tidy, ReasoningTidy, TextTidy
<1>6. CallsTidy(u)
  BY <1>1, <1>2 DEF Tidy, CallsTidy
<1>7. QED BY <1>1, <1>2, <1>4, <1>5, <1>6 DEF Advances, Tends, Tidy, Grows

LEMMA StartToolAdvances ==
  ASSUME NEW s, Ready(s), NEW k \in Indices, ~s.calls[k].added, ~s.calls[k].done,
         s.calls[k].id # NoText, s.calls[k].name # NoText
  PROVE  LET u == StartTool(s, k) IN
         /\ Leads(s, u) /\ Advances(s, u) /\ SameTurn(s, u) /\ u.calls[k].added
         /\ \A j \in Indices :
              /\ u.calls[j].done = s.calls[j].done
              /\ j # k => u.calls[j].added = s.calls[j].added
<1> DEFINE item == ToolItem(s.calls[k])
           a == AddItem(s, item)
           e == Event("added", s.next, item, <<>>)
           u == [a EXCEPT !.calls[k].ix = s.next, !.calls[k].added = TRUE]
<1>1. StartTool(s, k) = u
  BY DEF StartTool
<1>2. Good(s) /\ Tidy(s) /\ item \in Item
  BY CallTyped DEF Ready
<1>3. /\ Grown(s, a, e) /\ e.type = "added" /\ e.ix = s.next /\ e.item = item
      /\ a \in Assembler /\ SameFields(s, a) /\ a.next = s.next + 1 /\ s.next \in Nat
      /\ s \in Assembler
  BY <1>2, AddItemGrown
<1>4. Leads(s, u)
  BY <1>1, <1>2, StartToolLeads
<1> HIDE DEF a, e
<1>5. /\ u.out = a.out /\ u.next = a.next /\ u.reasoningIx = a.reasoningIx
      /\ u.reasoningDone = a.reasoningDone /\ u.textIx = a.textIx
      /\ u.textDone = a.textDone /\ u.bufferText = a.bufferText
      /\ u.reasoning = a.reasoning
      /\ u.calls = [a.calls EXCEPT ![k].ix = s.next, ![k].added = TRUE]
  BY <1>3 DEF Assembler
<1> HIDE DEF u
<1>6. /\ u.calls[k].ix = s.next /\ u.calls[k].added
      /\ u.calls[k].id = s.calls[k].id /\ u.calls[k].name = s.calls[k].name
      /\ u.calls[k].done = s.calls[k].done
      /\ \A j \in Indices \ {k} : u.calls[j] = s.calls[j]
  <2>1. s.calls \in [Indices -> Call] /\ s.calls[k] \in Call
    BY <1>3 DEF Assembler
  <2>2. u.calls = [s.calls EXCEPT ![k].ix = s.next, ![k].added = TRUE]
    BY <1>3, <1>5 DEF SameFields, SameMarks
  <2>3. QED BY <2>1, <2>2 DEF Call
<1>7. /\ Grown(s, u, e) /\ u.next = s.next + 1 /\ u.reasoningIx = s.reasoningIx
      /\ u.reasoningDone = s.reasoningDone /\ u.textIx = s.textIx
      /\ u.textDone = s.textDone /\ u.bufferText = s.bufferText
      /\ u.reasoning = s.reasoning
  BY <1>3, <1>5 DEF Grown, SameFields, SameMarks
<1>8. \A ix : DoneSent(s, ix) => DoneSent(u, ix)
  BY <1>7, GrownSent
<1>9. Owned(u)
  <2>1. ASSUME NEW ix, NEW it, OwnedItem(s, ix, it) PROVE OwnedItem(u, ix, it)
    <3>1. \A j \in Indices : s.calls[j].added => u.calls[j] = s.calls[j]
      BY <1>6
    <3>2. QED BY <1>7, <2>1, <3>1 DEF OwnedItem
  <2>2. OwnedItem(u, e.ix, e.item)
    BY <1>3, <1>6 DEF OwnedItem, ToolItem
  <2>3. QED BY <1>2, <1>7, <2>1, <2>2, GrownOwned DEF Tidy
<1>10. ReasoningTidy(u) /\ TextTidy(u)
  BY <1>2, <1>7, <1>8 DEF Tidy, ReasoningTidy, TextTidy
<1>11. CallsTidy(u)
  BY <1>2, <1>6, <1>8 DEF Tidy, CallsTidy
<1>12. Advances(s, u)
  BY <1>3, <1>7, <1>8, <1>9, <1>10, <1>11 DEF Advances, Tends, Tidy, Grows
<1>13. SameTurn(s, u)
  BY <1>6, <1>7 DEF SameTurn
<1>14. QED BY <1>1, <1>4, <1>6, <1>12, <1>13

LEMMA EmitToolArgumentsMoves ==
  ASSUME NEW s, Ready(s), NEW k \in Indices, NEW part \in Text
  PROVE  Moves(s, EmitToolArguments(s, k, part))
<1> DEFINE e == Event("delta", s.calls[k].ix, ToolItem(s.calls[k]), part)
<1>1. Good(s) /\ Tidy(s)
  BY DEF Ready
<1>2. e \in Events /\ e.type = "delta" /\ e.ix = s.calls[k].ix /\ e.item = ToolItem(s.calls[k])
  <2>1. ToolItem(s.calls[k]) \in Item /\ s.calls[k].ix \in Nat \cup {None}
    BY <1>1, CallTyped
  <2>2. QED BY <2>1, DeltaTyped
<1>3. EmitToolArguments(s, k, part) = s \/ EmitToolArguments(s, k, part) = Emit(s, e)
  BY DEF EmitToolArguments
<1> HIDE DEF e
<1>4. Advances(s, Emit(s, e)) /\ Advances(s, s)
  <2>1. s \in Assembler
    BY <1>1 DEF Good
  <2>2. QED BY <1>1, <1>2, <2>1, EmitAdvances, AdvancesSelf
<1>5. Keeps(s, EmitToolArguments(s, k, part))
  BY <1>1, EmitToolArgumentsKeeps
<1>6. QED BY <1>3, <1>4, <1>5 DEF Moves

(* A step of one call while none is done. *)
Calls(s, u) == Leads(s, u) /\ Advances(s, u) /\ NoneDone(u)

LEMMA CallsTrans ==
  ASSUME NEW s, NEW t, NEW u, Ready(s), Calls(s, t), Calls(t, u)
  PROVE  Calls(s, u)
<1>1. s.next \in Int /\ t.next \in Int /\ u.next \in Int
  BY DEF Ready, Calls, Leads, Good, Assembler
<1>2. QED BY <1>1, AdvancesTrans DEF Calls, Leads

LEMMA MovesCalls ==
  ASSUME NEW s, NEW u, NoneDone(s), Moves(s, u)
  PROVE  Calls(s, u)
BY DEF Moves, Keeps, Calls, NoneDone

LEMMA CallsReady == ASSUME NEW s, NEW u, Calls(s, u) PROVE Ready(u) /\ NoneDone(u)
BY DEF Calls, Leads, Ready, Advances, Tends

LEMMA EnsureToolStartedCalls ==
  ASSUME NEW s, Ready(s), NoneDone(s), NEW k \in Indices
  PROVE  Calls(s, EnsureToolStarted(s, k))
<1>1. CASE s.calls[k].added \/ s.calls[k].id = NoText \/ s.calls[k].name = NoText
  BY <1>1, MovesSelf, MovesCalls DEF EnsureToolStarted
<1>2. CASE ~(s.calls[k].added \/ s.calls[k].id = NoText \/ s.calls[k].name = NoText)
  <2> DEFINE t == IF ~s.bufferText /\ s.content # <<>> /\ ~s.textDone
                  THEN FinishTextItem(s) ELSE s
             v == CloseReasoning(t)
             u == StartTool(v, k)
  <2>1. EnsureToolStarted(s, k) = EmitToolArguments(u, k, s.calls[k].args)
    BY <1>2 DEF EnsureToolStarted
  <2>2. Moves(s, t)
    <3>1. ASSUME ~s.bufferText, s.content # <<>> PROVE Moves(s, FinishTextItem(s))
      BY <3>1, FinishTextItemKeeps, FinishTextItemTends DEF Moves, Ready, Advances
    <3>2. QED BY <3>1, MovesSelf
  <2> HIDE DEF t
  <2>3. Moves(t, v)
    BY <2>2, MovesReady, CloseReasoningMoves
  <2>4. Moves(s, v)
    BY <2>2, <2>3, MovesTrans
  <2> HIDE DEF v
  <2>5. Ready(v) /\ v.calls = s.calls /\ Calls(s, v)
    BY <2>4, MovesReady, MovesCalls DEF Moves, Keeps
  <2>6. Leads(v, u) /\ Advances(v, u) /\ \A j \in Indices : u.calls[j].done = v.calls[j].done
    BY <1>2, <2>5, StartToolAdvances DEF NoneDone
  <2> HIDE DEF u
  <2>7. Calls(v, u)
    BY <2>5, <2>6 DEF Calls, NoneDone
  <2>8. Ready(u) /\ NoneDone(u) /\ s.calls[k].args \in Text
    BY <2>7, CallsReady, CallTyped DEF Ready
  <2>9. Calls(u, EmitToolArguments(u, k, s.calls[k].args))
    BY <2>8, EmitToolArgumentsMoves, MovesCalls
  <2>10. QED BY <2>1, <2>5, <2>7, <2>9, CallsTrans
<1>3. QED BY <1>1, <1>2

(* The fragments of a delta become part of their call. *)
Merged(s, d) == [s EXCEPT !.calls[d.index] = MergeToolDelta(s.calls[d.index], d)]

LEMMA MergedCalls ==
  ASSUME NEW s, Ready(s), NoneDone(s), NEW d \in ToolDelta, d.index \in Indices
  PROVE  LET m == Merged(s, d)
             k == d.index
         IN  /\ Calls(s, m) /\ m.out = s.out /\ m.reasoningIx = s.reasoningIx
             /\ m.reasoningDone = s.reasoningDone /\ m.textIx = s.textIx
             /\ m.textDone = s.textDone /\ m.bufferText = s.bufferText
             /\ m.reasoning = s.reasoning /\ m.content = s.content
             /\ m.think = s.think /\ m.buffer = s.buffer
             /\ m.output = s.output /\ m.pending = s.pending
             /\ \A j \in Indices \ {k} : m.calls[j] = s.calls[j]
             /\ m.calls[k].args = s.calls[k].args \o d.args
             /\ m.calls[k].ix = s.calls[k].ix /\ m.calls[k].added = s.calls[k].added
             /\ s.calls[k].added => m.calls[k].name = s.calls[k].name
<1> DEFINE k == d.index
           c == MergeToolDelta(s.calls[k], d)
           m == [s EXCEPT !.calls[k] = c]
<1>1. /\ d.args \in Text
      /\ d.id \in Ids \cup {NoText} /\ d.name \in Names \cup {NoText}
  BY DEF ToolDelta, Ids
<1>2. s.calls[k] \in Call /\ s \in Assembler /\ s.calls \in [Indices -> Call] /\ Good(s)
  <2>1. s.calls[k] \in Call /\ s \in Assembler /\ Good(s)
    BY CallTyped DEF Ready
  <2>2. QED BY <2>1 DEF Assembler
<1>3. /\ c \in Call /\ c.args = s.calls[k].args \o d.args
      /\ c.ix = s.calls[k].ix /\ c.added = s.calls[k].added /\ c.done = s.calls[k].done
      /\ s.calls[k].added /\ s.calls[k].id # NoText =>
           c.id = s.calls[k].id /\ c.name = s.calls[k].name
  <2>1. s.calls[k].args \o d.args \in Text
    BY <1>1, <1>2, ConcatIsText DEF Call
  <2>2. QED BY <1>1, <1>2, <2>1 DEF MergeToolDelta, Call
<1>4. m = Merged(s, d)
  BY DEF Merged
<1> HIDE DEF c
<1>5. /\ m \in Assembler /\ m.calls = [s.calls EXCEPT ![k] = c]
      /\ m.out = s.out /\ m.next = s.next /\ m.terminal = s.terminal
      /\ m.finish = s.finish /\ m.reasoningIx = s.reasoningIx
      /\ m.reasoningDone = s.reasoningDone /\ m.textIx = s.textIx
      /\ m.textDone = s.textDone /\ m.bufferText = s.bufferText
      /\ m.reasoning = s.reasoning /\ m.content = s.content
      /\ m.think = s.think /\ m.buffer = s.buffer
      /\ m.output = s.output /\ m.pending = s.pending
  <2>1. [s.calls EXCEPT ![k] = c] \in [Indices -> Call]
    BY <1>2, <1>3
  <2>2. QED BY <1>2, <2>1 DEF Assembler
<1> HIDE DEF m
<1>6. \A j \in Indices : m.calls[j] = IF j = k THEN c ELSE s.calls[j]
  BY <1>2, <1>5
<1>7. \A j \in Indices : s.calls[j].added => s.calls[j].id # NoText
  BY <1>2 DEF Good, Core, CallsAgree
<1>8. \A j \in Indices :
        /\ m.calls[j].ix = s.calls[j].ix /\ m.calls[j].added = s.calls[j].added
        /\ m.calls[j].done = s.calls[j].done
        /\ s.calls[j].added =>
             m.calls[j].id = s.calls[j].id /\ m.calls[j].name = s.calls[j].name
  BY <1>3, <1>6, <1>7
<1>9. Calls(s, m)
  <2>1. Leads(s, m)
    BY <1>2, <1>5, <1>8, Assign
  <2>2. \A j \in Indices :
          /\ m.calls[j].ix = s.calls[j].ix /\ m.calls[j].added = s.calls[j].added
          /\ s.calls[j].added =>
               /\ m.calls[j].id = s.calls[j].id /\ m.calls[j].name = s.calls[j].name
               /\ m.calls[j].done => s.calls[j].done
    BY <1>8
  <2>3. /\ m.out = s.out /\ m.next = s.next /\ m.reasoning = s.reasoning
        /\ m.reasoningIx = s.reasoningIx /\ m.reasoningDone = s.reasoningDone
        /\ m.textIx = s.textIx /\ m.textDone = s.textDone /\ m.bufferText = s.bufferText
    BY <1>5
  <2>4. Advances(s, m)
    BY <2>2, <2>3, AssignCallAdvances
  <2>5. NoneDone(m)
    BY <1>8 DEF NoneDone
  <2>6. QED BY <2>1, <2>4, <2>5 DEF Calls
<1>10. \A j \in Indices \ {k} : m.calls[j] = s.calls[j]
  BY <1>6
<1>11. /\ m.calls[k].args = s.calls[k].args \o d.args
       /\ m.calls[k].ix = s.calls[k].ix /\ m.calls[k].added = s.calls[k].added
       /\ s.calls[k].added => m.calls[k].name = s.calls[k].name
  BY <1>3, <1>6, <1>7
<1>12. QED BY <1>4, <1>5, <1>9, <1>10, <1>11

LEMMA AcceptToolDeltaCalls ==
  ASSUME NEW s, Ready(s), NoneDone(s), NEW d \in ToolDelta
  PROVE  Calls(s, AcceptToolDelta(s, d))
<1>1. CASE d.index \notin Indices
  BY <1>1, MovesSelf, MovesCalls DEF AcceptToolDelta
<1>2. CASE d.index \in Indices
  <2> DEFINE k == d.index
             m == Merged(s, d)
             v == EnsureToolStarted(m, k)
  <2>1. d.args \in Text
    BY DEF ToolDelta
  <2>2. AcceptToolDelta(s, d) =
          IF s.calls[k].added THEN EmitToolArguments(v, k, d.args) ELSE v
    BY <1>2 DEF AcceptToolDelta, Merged
  <2>3. Calls(s, m)
    BY <1>2, MergedCalls
  <2> HIDE DEF m
  <2>4. Calls(m, v)
    BY <1>2, <2>3, CallsReady, EnsureToolStartedCalls
  <2> HIDE DEF v
  <2>5. Calls(v, EmitToolArguments(v, k, d.args))
    BY <1>2, <2>1, <2>4, CallsReady, EmitToolArgumentsMoves, MovesCalls
  <2>6. QED BY <2>2, <2>3, <2>4, <2>5, CallsTrans
<1>3. QED BY <1>1, <1>2

------------------------------------------------------------------------------
(* accept and mark_truncated_as_length.                                    *)

LEMMA SetFinishCalls ==
  ASSUME NEW s, Ready(s), NoneDone(s), NEW f
  PROVE  Advances(s, [s EXCEPT !.finish = f]) /\ NoneDone([s EXCEPT !.finish = f])
<1> DEFINE w == [s EXCEPT !.finish = f]
<1>1. /\ w.out = s.out /\ w.next = s.next /\ w.reasoning = s.reasoning
      /\ w.reasoningIx = s.reasoningIx /\ w.reasoningDone = s.reasoningDone
      /\ w.textIx = s.textIx /\ w.textDone = s.textDone /\ w.calls = s.calls
      /\ w.bufferText = s.bufferText
  BY DEF Ready, Good, Assembler
<1> HIDE DEF w
<1>2. Advances(s, w) /\ NoneDone(w)
  BY <1>1, AssignCallAdvances DEF NoneDone
<1>3. QED BY <1>2 DEF w

LEMMA AcceptAdvances ==
  ASSUME NEW s, Ready(s), NoneDone(s), NEW c \in Chunk
  PROVE  Advances(s, Accept(s, c)) /\ NoneDone(Accept(s, c))
<1> DEFINE r == AcceptReasoningField(s, c)
           t == AcceptContentField(r, c)
           f == CloseReasoning(FlushPendingThinkBuffer(t))
           u == AcceptCallsField(t, c)
           w == [u EXCEPT !.finish = c.finish]
<1>1. c.reasoning \in Text /\ c.content \in Text /\ c.delta \in ToolDelta
  BY DEF Chunk
<1>2. Moves(s, r)
  <2>1. CASE c.reasoning = <<>>
    BY <2>1, MovesSelf DEF AcceptReasoningField
  <2>2. CASE c.reasoning # <<>>
    BY <1>1, <2>2, FlushPendingThinkBufferMoves, PushReasoningDeltaMoves, MovesTrans,
       MovesReady DEF AcceptReasoningField
  <2>3. QED BY <2>1, <2>2
<1> HIDE DEF r
<1>3. Moves(r, t)
  BY <1>1, <1>2, MovesReady, AcceptContentDeltaMoves, MovesSelf DEF AcceptContentField
<1> HIDE DEF t
<1>4. Ready(t) /\ Calls(s, t) /\ NoneDone(t)
  BY <1>2, <1>3, MovesTrans, MovesReady, MovesCalls, CallsReady
<1>5. Ready(f) /\ Calls(t, f) /\ NoneDone(f)
  BY <1>4, FlushPendingThinkBufferMoves, CloseReasoningMoves, MovesTrans, MovesReady,
     MovesCalls, CallsReady
<1>6. Calls(t, u)
  <2>1. u = IF c.calls THEN AcceptToolDelta(f, c.delta) ELSE t
    BY DEF AcceptCallsField
  <2> HIDE DEF f, u
  <2>2. Calls(t, AcceptToolDelta(f, c.delta))
    BY <1>1, <1>4, <1>5, AcceptToolDeltaCalls, CallsTrans
  <2>3. Calls(t, t)
    BY <1>4, MovesSelf, MovesCalls
  <2>4. QED BY <2>1, <2>2, <2>3
<1>7. Accept(s, c) = IF c.finish = NoText THEN u ELSE w
  BY DEF Accept, r, t
<1> HIDE DEF f, u
<1>8. Calls(s, u) /\ Ready(u) /\ NoneDone(u)
  BY <1>4, <1>6, CallsTrans, CallsReady
<1>9. Advances(u, w) /\ NoneDone(w)
  BY <1>8, SetFinishCalls
<1>10. s.next \in Int /\ u.next \in Int /\ w.next \in Int
  BY <1>8 DEF Ready, Good, Assembler
<1> HIDE DEF w
<1>11. Advances(s, w)
  BY <1>8, <1>9, <1>10, AdvancesTrans DEF Calls
<1>12. QED BY <1>7, <1>8, <1>9, <1>11 DEF Calls

LEMMA MarkTruncatedAdvances ==
  ASSUME NEW s, Ready(s), NoneDone(s)
  PROVE  Advances(s, MarkTruncatedAsLength(s)) /\ NoneDone(MarkTruncatedAsLength(s))
BY SetFinishCalls, AdvancesSelf DEF MarkTruncatedAsLength, Ready

------------------------------------------------------------------------------
(* finalize closes what was announced.                                     *)

Blank(s, k) == s.calls[k].name \in BlankNames \cup {NoText}

(* With tools offered, a message is only shown when no call has a name.    *)
HeldBack(s) ==
  s.bufferText /\ s.textIx # None => s.textDone /\ \A k \in Indices : Blank(s, k)

Settled(s) == (s.reasoningIx # None => s.reasoningDone) /\ HeldBack(s)

LEMMA AddOutputMoves ==
  ASSUME NEW s, Ready(s), NEW item \in Item, NEW text \in Text
  PROVE  Moves(s, AddOutput(s, item, text)) /\ SameFields(s, AddOutput(s, item, text))
<1> DEFINE u == AddOutput(s, item, text)
<1>1. s.next \in Nat /\ Good(s) /\ Tidy(s) /\ s \in Assembler
  BY DEF Ready, Good, Assembler
<1>2. Keeps(s, u) /\ SameFields(s, u)
  BY <1>1, AddOutputKeeps
<1>3. u.out = s.out /\ u.next = s.next
  BY <1>1 DEF AddOutput, Assembler
<1> HIDE DEF u
<1>4. Advances(s, u)
  BY <1>1, <1>2, <1>3, AssignAdvances DEF SameFields
<1>5. QED BY <1>2, <1>4 DEF Moves, u

LEMMA FinalizeTextSettles ==
  ASSUME NEW s, Ready(s), NoneDone(s), s.bufferText => s.textIx = None
  PROVE  Tends(s, FinalizeText(s)) /\ Settled(FinalizeText(s)) /\ NoneDone(FinalizeText(s))
<1> DEFINE t == FlushPendingThinkBuffer(s)
           u == IF t.reasoning = <<>> THEN t ELSE FinishReasoningItem(t)
           shown == u.content # <<>> /\ ~HasToolOutput(u)
           v == IF shown THEN FinishTextItem(u) ELSE u
           w == IF v.reasoning = <<>> THEN v ELSE AddOutput(v, ReasoningItem, v.reasoning)
           x == IF shown THEN AddOutput(w, MessageItem, w.content) ELSE w
<1>1. FinalizeText(s) = x
  BY DEF FinalizeText
<1>2. Moves(s, t) /\ Ready(t)
  BY FlushPendingThinkBufferMoves, MovesReady
<1> HIDE DEF t
<1>3. Moves(t, u) /\ (u.reasoningIx # None => u.reasoningDone)
  <2>1. CASE t.reasoning = <<>>
    BY <1>2, <2>1, MovesSelf DEF Ready, Tidy, ReasoningTidy
  <2>2. CASE t.reasoning # <<>>
    BY <1>2, <2>2, FinishReasoningItemAdvances, FinishReasoningItemKeeps DEF Ready, Moves
  <2>3. QED BY <2>1, <2>2
<1> HIDE DEF u
<1>4. Moves(s, u) /\ Ready(u) /\ u.calls = s.calls /\ u.bufferText = s.bufferText
      /\ (u.bufferText => u.textIx = None)
  <2>1. Moves(s, u) /\ Ready(u)
    BY <1>2, <1>3, MovesTrans, MovesReady
  <2>2. QED BY <2>1 DEF Moves, Keeps, Advances
<1>5. /\ Keeps(u, v) /\ Tends(u, v) /\ (v.reasoningIx # None => v.reasoningDone)
      /\ v.bufferText /\ v.textIx # None => v.textDone /\ \A k \in Indices : Blank(v, k)
  <2>1. CASE shown
    <3>1. \A k \in Indices : Blank(u, k)
      BY <1>4, <2>1 DEF HasToolOutput, NoneDone, Blank
    <3>2. Keeps(u, v)
      BY <1>4, <2>1, FinishTextItemKeeps DEF Ready
    <3>3. /\ Tends(u, v) /\ v.textDone /\ v.reasoningIx = u.reasoningIx
          /\ u.reasoningDone => v.reasoningDone
      BY <1>4, <2>1, FinishTextItemTends DEF Ready
    <3> HIDE DEF v, shown
    <3>4. \A k \in Indices : Blank(v, k)
      BY <3>1, <3>2 DEF Keeps, Blank
    <3>5. QED BY <1>3, <3>2, <3>3, <3>4
  <2>2. CASE ~shown
    <3>1. v = u
      BY <2>2
    <3> HIDE DEF v, shown
    <3>2. QED BY <1>3, <1>4, <3>1, MovesSelf DEF Moves, Advances
  <2>3. QED BY <2>1, <2>2
<1> HIDE DEF v, shown
<1>6. Ready(v) /\ NoneDone(v) /\ Settled(v)
  BY <1>4, <1>5 DEF Keeps, Leads, Ready, Tends, NoneDone, Settled, HeldBack
<1>7. ASSUME NEW y, Ready(y), Settled(y), NEW item \in Item, NEW text \in Text
      PROVE  LET z == AddOutput(y, item, text) IN Moves(y, z) /\ Settled(z) /\ Ready(z)
  BY <1>7, AddOutputMoves, MovesReady
  DEF Settled, HeldBack, Blank, SameFields, SameMarks
<1>8. Moves(v, w) /\ Settled(w) /\ Ready(w)
  <2>1. v.reasoning \in Text /\ ReasoningItem \in Item
    BY <1>6, ItemTypes DEF Ready, Good, Assembler
  <2>2. QED BY <1>6, <1>7, <2>1, MovesSelf
<1> HIDE DEF w
<1>9. Moves(w, x) /\ Settled(x) /\ Ready(x)
  <2>1. w.content \in Text /\ MessageItem \in Item
    BY <1>8, ItemTypes DEF Ready, Good, Assembler
  <2>2. QED BY <1>7, <1>8, <2>1, MovesSelf
<1> HIDE DEF x
<1>10. Moves(v, x)
  BY <1>6, <1>8, <1>9, MovesTrans
<1>11. NoneDone(x)
  BY <1>6, <1>10 DEF Moves, Keeps, NoneDone
<1>12. s.next \in Int /\ u.next \in Int /\ v.next \in Int /\ x.next \in Int
  BY <1>4, <1>6, <1>9 DEF Ready, Good, Assembler
<1>13. Tends(s, x)
  BY <1>4, <1>5, <1>10, <1>12 DEF Moves, Advances, Tends, Grows
<1>14. QED BY <1>1, <1>9, <1>11, <1>13

(* The events of a call that finalize closes. *)
LEMMA EmitToolDoneGrows ==
  ASSUME NEW s, Good(s), Owned(s), NEW k \in Indices
  PROVE  LET u == EmitToolDone(s, k) IN
         /\ SameMarks(s, u) /\ u.next = s.next /\ u.reasoning = s.reasoning
         /\ Owned(u) /\ DoneSent(u, s.calls[k].ix)
         /\ \A ix : DoneSent(s, ix) => DoneSent(u, ix)
<1> DEFINE c == s.calls[k]
           args == Canonical(c.args)
           input == CustomInput(args)
           item == ToolItem(c)
           d == Event("delta", c.ix, item, input)
           t == IF IsCustom(s, c.name) /\ input # <<>> THEN Emit(s, d) ELSE s
           text == IF IsCustom(s, c.name) THEN input ELSE args
           e == Event("done", c.ix, item, text)
           v == Emit(t, e)
           u == AddOutput(v, item, text)
<1>1. EmitToolDone(s, k) = u
  BY DEF EmitToolDone
<1>2. /\ c.args \in Text /\ item \in Item /\ c.ix \in Nat \cup {None} /\ s \in Assembler
  BY CallTyped
<1>3. args \in Text /\ input \in Text /\ text \in Text
  <2>1. args \in Text
    BY <1>2, CanonicalIsText
  <2>2. input \in Text
    BY <2>1, CanonicalIsText
  <2>3. QED BY <2>1, <2>2
<1> HIDE DEF args, input, text, item
<1>4. d \in Events /\ d.type = "delta" /\ d.ix = c.ix /\ d.item = item
  BY <1>2, <1>3 DEF Event, Events, EventTypes
<1>5. e \in Events /\ e.type = "done" /\ e.ix = c.ix /\ e.item = item
  BY <1>2, <1>3 DEF Event, Events, EventTypes
<1> HIDE DEF d, e
<1>6. ASSUME NEW r \in Assembler, NEW f \in Events, f.type # "added", Owned(r)
      PROVE  LET z == Emit(r, f) IN
             /\ z \in Assembler /\ SameFields(r, z) /\ z.next = r.next /\ Owned(z)
             /\ \A ix : DoneSent(r, ix) => DoneSent(z, ix)
             /\ f.type = "done" => DoneSent(z, f.ix)
  <2> DEFINE z == Emit(r, f)
  <2>1. z \in Assembler /\ SameFields(r, z) /\ z.next = r.next /\ Grown(r, z, f)
    BY <1>6, EmitFields
  <2> HIDE DEF z
  <2>2. \A ix, it : OwnedItem(r, ix, it) => OwnedItem(z, ix, it)
    BY <2>1 DEF OwnedItem, SameFields, SameMarks
  <2>3. Owned(z)
    BY <1>6, <2>1, <2>2, GrownOwned
  <2>4. QED BY <2>1, <2>3, GrownSent DEF z
<1>7. /\ t \in Assembler /\ SameFields(s, t) /\ t.next = s.next /\ Owned(t)
      /\ \A ix : DoneSent(s, ix) => DoneSent(t, ix)
  BY <1>2, <1>4, <1>6 DEF SameFields, SameMarks
<1> HIDE DEF t
<1>8. /\ v \in Assembler /\ SameFields(t, v) /\ v.next = t.next /\ Owned(v)
      /\ \A ix : DoneSent(t, ix) => DoneSent(v, ix)
      /\ DoneSent(v, c.ix)
  BY <1>5, <1>6, <1>7
<1> HIDE DEF v
<1>9. SameFields(v, u) /\ u.next = v.next /\ u.out = v.out
  BY <1>8 DEF AddOutput, Assembler, SameFields, SameMarks
<1> HIDE DEF u
<1>10. /\ Owned(u) /\ \A ix : DoneSent(v, ix) => DoneSent(u, ix)
  BY <1>8, <1>9 DEF Owned, OwnedItem, DoneSent, SameFields, SameMarks
<1>11. SameFields(s, u) /\ u.next = s.next
  BY <1>7, <1>8, <1>9 DEF SameFields, SameMarks
<1>12. QED BY <1>1, <1>7, <1>8, <1>10, <1>11 DEF SameFields

(* One turn of finalize's loop. *)
LEMMA FinalizeToolSettles ==
  ASSUME NEW s, Ready(s), Settled(s), NEW k \in Indices
  PROVE  LET u == FinalizeTool(s, k) IN
         /\ Tends(s, u) /\ Settled(u)
         /\ u.calls[k].added => u.calls[k].done
         /\ \A j \in Indices : j # k =>
              u.calls[j].added = s.calls[j].added /\ u.calls[j].done = s.calls[j].done
<1> DEFINE named == [s EXCEPT !.calls[k].id = IF @ = NoText THEN FallbackId[k] ELSE @]
           t == IF s.calls[k].added THEN s ELSE StartToolForFinalize(s, k)
           marked == [t EXCEPT !.calls[k].done = TRUE, !.pending = Append(@, t.calls[k].id)]
           skipped == [s EXCEPT !.calls[k].done = TRUE]
<1>1. /\ s.calls[k] \in Call /\ s \in Assembler /\ s.calls \in [Indices -> Call]
      /\ s.calls[k].done \in BOOLEAN /\ s.calls[k].added \in BOOLEAN
      /\ Good(s) /\ Tidy(s) /\ s.next \in Nat
  <2>1. s.calls[k] \in Call /\ s \in Assembler /\ Good(s) /\ Tidy(s)
    BY CallTyped DEF Ready
  <2>2. QED BY <2>1 DEF Assembler, Call
<1>2. FinalizeTool(s, k) =
        CASE s.calls[k].done -> s
          [] ~s.calls[k].done /\ s.calls[k].name = NoText -> skipped
          [] OTHER -> EmitToolDone(marked, k)
  BY DEF FinalizeTool
<1>3. CASE s.calls[k].done
  BY <1>1, <1>2, <1>3, AdvancesSelf DEF Advances
<1>4. CASE ~s.calls[k].done /\ s.calls[k].name = NoText
  <2>1. /\ skipped.out = s.out /\ skipped.next = s.next /\ skipped.reasoning = s.reasoning
        /\ skipped.reasoningIx = s.reasoningIx /\ skipped.reasoningDone = s.reasoningDone
        /\ skipped.textIx = s.textIx /\ skipped.textDone = s.textDone
        /\ skipped.bufferText = s.bufferText
        /\ skipped.calls = [s.calls EXCEPT ![k].done = TRUE]
    BY <1>1 DEF Assembler
  <2>2. FinalizeTool(s, k) = skipped
    BY <1>2, <1>4
  <2> HIDE DEF skipped
  <2>3. ~s.calls[k].added
    BY <1>1, <1>4 DEF Tidy, CallsTidy
  <2>4. /\ skipped.calls[k].added = s.calls[k].added /\ skipped.calls[k].ix = s.calls[k].ix
        /\ skipped.calls[k].name = s.calls[k].name /\ skipped.calls[k].done
        /\ \A j \in Indices : j # k => skipped.calls[j] = s.calls[j]
    BY <1>1, <2>1 DEF Call
  <2>5. Advances(s, skipped)
    <3>1. \A j \in Indices :
            /\ skipped.calls[j].ix = s.calls[j].ix
            /\ skipped.calls[j].added = s.calls[j].added
            /\ s.calls[j].added =>
                 /\ skipped.calls[j].id = s.calls[j].id
                 /\ skipped.calls[j].name = s.calls[j].name
                 /\ skipped.calls[j].done => s.calls[j].done
      BY <2>3, <2>4
    <3>2. QED BY <2>1, <3>1, AssignCallAdvances
  <2>6. Settled(skipped)
    BY <2>1, <2>4 DEF Settled, HeldBack, Blank
  <2>7. QED BY <2>2, <2>3, <2>4, <2>5, <2>6 DEF Advances
<1>5. CASE ~s.calls[k].done /\ s.calls[k].name # NoText
  <2>1. FinalizeTool(s, k) = EmitToolDone(marked, k)
    BY <1>2, <1>5
  <2>2. /\ Good(t) /\ Tends(s, t) /\ SameTurn(s, t) /\ t.calls[k].added /\ ~t.calls[k].done
        /\ \A j \in Indices : j # k =>
             t.calls[j].added = s.calls[j].added /\ t.calls[j].done = s.calls[j].done
    <3>1. CASE s.calls[k].added
      BY <1>1, <1>5, <3>1, AdvancesSelf DEF Advances, SameTurn
    <3>2. CASE ~s.calls[k].added
      <4>1. FallbackId[k] \in Ids /\ FallbackId[k] # NoText
        BY ConstantsAssumption DEF Ids
      <4>2. /\ named.out = s.out /\ named.next = s.next /\ named.terminal = s.terminal
            /\ named.finish = s.finish /\ named.reasoningIx = s.reasoningIx
            /\ named.reasoningDone = s.reasoningDone /\ named.textIx = s.textIx
            /\ named.textDone = s.textDone /\ named.bufferText = s.bufferText
            /\ named.reasoning = s.reasoning
            /\ named.calls = [s.calls EXCEPT ![k].id = IF @ = NoText THEN FallbackId[k] ELSE @]
        BY <1>1 DEF Assembler
      <4>3. [s.calls EXCEPT ![k].id = IF @ = NoText THEN FallbackId[k] ELSE @]
              \in [Indices -> Call]
        BY <1>1, <4>1 DEF Call
      <4>4. named \in Assembler
        BY <1>1, <4>3 DEF Assembler
      <4>5. t = StartTool(named, k)
        BY <3>2 DEF StartToolForFinalize
      <4> HIDE DEF named, t
      <4>6. /\ named.calls[k].id # NoText
            /\ \A j \in Indices :
                 /\ named.calls[j].ix = s.calls[j].ix /\ named.calls[j].added = s.calls[j].added
                 /\ named.calls[j].done = s.calls[j].done
                 /\ named.calls[j].name = s.calls[j].name
                 /\ s.calls[j].added => named.calls[j].id = s.calls[j].id
        BY <1>1, <3>2, <4>1, <4>2 DEF Call
      <4>7. Leads(s, named)
        <5>1. Good(s)
          BY <1>1
        <5>2. \A j \in Indices :
                /\ named.calls[j].ix = s.calls[j].ix /\ named.calls[j].added = s.calls[j].added
                /\ s.calls[j].done => named.calls[j].done
                /\ s.calls[j].added =>
                     named.calls[j].id = s.calls[j].id /\ named.calls[j].name = s.calls[j].name
          BY <4>6
        <5>3. QED BY <4>2, <4>4, <5>1, <5>2, Assign
      <4>8. Advances(s, named) /\ SameTurn(s, named)
        <5>1. SameTurn(s, named)
          BY <4>2, <4>6 DEF SameTurn
        <5>2. \A j \in Indices :
                /\ named.calls[j].ix = s.calls[j].ix
                /\ named.calls[j].added = s.calls[j].added
                /\ s.calls[j].added =>
                     /\ named.calls[j].id = s.calls[j].id
                     /\ named.calls[j].name = s.calls[j].name
                     /\ named.calls[j].done => s.calls[j].done
          BY <4>6
        <5>3. QED BY <4>2, <5>1, <5>2, AssignCallAdvances
      <4>9. Ready(named)
        BY <4>7, <4>8 DEF Ready, Leads, Advances, Tends
      <4>10. ~named.calls[k].added /\ ~named.calls[k].done /\ named.calls[k].name # NoText
        BY <1>5, <3>2, <4>6
      <4>11. /\ Leads(named, t) /\ Advances(named, t) /\ SameTurn(named, t)
             /\ t.calls[k].added
             /\ \A j \in Indices :
                  /\ t.calls[j].done = named.calls[j].done
                  /\ j # k => t.calls[j].added = named.calls[j].added
        BY <4>5, <4>6, <4>9, <4>10, StartToolAdvances
      <4>12. s.next \in Int /\ named.next \in Int /\ t.next \in Int
        BY <1>1, <4>4, <4>11 DEF Leads, Good, Assembler
      <4>13. Advances(s, t)
        BY <4>8, <4>11, <4>12, AdvancesTrans
      <4>14. SameTurn(s, t)
        BY <4>8, <4>11 DEF SameTurn
      <4>15. QED BY <4>6, <4>10, <4>11, <4>13, <4>14 DEF Leads, Advances
    <3>3. QED BY <1>1, <3>1, <3>2
  <2> HIDE DEF t
  <2>3. t.calls[k] \in Call /\ t \in Assembler /\ t.calls \in [Indices -> Call] /\ Tidy(t)
    <3>1. t.calls[k] \in Call /\ t \in Assembler
      BY <2>2, CallTyped
    <3>2. QED BY <2>2, <3>1 DEF Assembler, Tends
  <2>4. Append(t.pending, t.calls[k].id) \in Seq(Ids)
    <3>1. t.calls[k].id \in Ids
      BY <2>2, <2>3 DEF Good, Core, CallsAgree, Call
    <3>2. t.pending \in Seq(Ids)
      BY <2>3 DEF Assembler
    <3>3. QED BY <3>1, <3>2, AppendProperties
  <2>5. /\ marked.out = t.out /\ marked.next = t.next /\ marked.terminal = t.terminal
        /\ marked.finish = t.finish /\ marked.reasoningIx = t.reasoningIx
        /\ marked.reasoningDone = t.reasoningDone /\ marked.textIx = t.textIx
        /\ marked.textDone = t.textDone /\ marked.bufferText = t.bufferText
        /\ marked.reasoning = t.reasoning
        /\ marked.calls = [t.calls EXCEPT ![k].done = TRUE]
    BY <2>3 DEF Assembler
  <2>6. [t.calls EXCEPT ![k].done = TRUE] \in [Indices -> Call]
    BY <2>3 DEF Call
  <2>7. marked \in Assembler
    BY <2>3, <2>4, <2>6 DEF Assembler
  <2> HIDE DEF marked
  <2>8. /\ marked.calls[k].done
        /\ \A j \in Indices :
             /\ marked.calls[j].ix = t.calls[j].ix /\ marked.calls[j].added = t.calls[j].added
             /\ marked.calls[j].id = t.calls[j].id /\ marked.calls[j].name = t.calls[j].name
             /\ j # k => marked.calls[j].done = t.calls[j].done
    <3>1. /\ marked.calls[k] = [t.calls[k] EXCEPT !.done = TRUE]
          /\ \A j \in Indices : j # k => marked.calls[j] = t.calls[j]
      BY <2>3, <2>5
    <3>2. /\ marked.calls[k].ix = t.calls[k].ix /\ marked.calls[k].added = t.calls[k].added
          /\ marked.calls[k].id = t.calls[k].id /\ marked.calls[k].name = t.calls[k].name
          /\ marked.calls[k].done
      BY <2>3, <3>1 DEF Call
    <3>3. QED BY <3>1, <3>2
  <2>9. Good(marked)
    <3>1. \A j \in Indices :
            /\ marked.calls[j].ix = t.calls[j].ix /\ marked.calls[j].added = t.calls[j].added
            /\ t.calls[j].done => marked.calls[j].done
            /\ t.calls[j].added =>
                 marked.calls[j].id = t.calls[j].id /\ marked.calls[j].name = t.calls[j].name
      BY <2>8
    <3>2. Leads(t, marked)
      BY <2>2, <2>5, <2>7, <3>1, Assign
    <3>3. QED BY <3>2 DEF Leads
  <2>10. Owned(marked)
    <3>1. \A ix, item : OwnedItem(t, ix, item) => OwnedItem(marked, ix, item)
      BY <2>5, <2>8 DEF OwnedItem, ToolItem
    <3>2. QED BY <2>3, <2>5, <3>1 DEF Tidy, Owned
  <2> DEFINE u == EmitToolDone(marked, k)
  <2>11. /\ SameMarks(marked, u) /\ u.next = marked.next /\ u.reasoning = marked.reasoning
         /\ Owned(u) /\ DoneSent(u, marked.calls[k].ix)
         /\ \A ix : DoneSent(marked, ix) => DoneSent(u, ix)
    BY <2>9, <2>10, EmitToolDoneGrows
  <2> HIDE DEF u
  <2>12. /\ u.next = t.next /\ u.bufferText = t.bufferText
         /\ u.reasoning = t.reasoning /\ u.reasoningIx = t.reasoningIx
         /\ u.reasoningDone = t.reasoningDone /\ u.textIx = t.textIx
         /\ u.textDone = t.textDone /\ u.calls = marked.calls
    BY <2>5, <2>11 DEF SameMarks
  <2>13. \A ix : DoneSent(t, ix) => DoneSent(u, ix)
    BY <2>5, <2>11 DEF DoneSent
  <2>14. ReasoningTidy(u) /\ TextTidy(u)
    BY <2>3, <2>12, <2>13 DEF Tidy, ReasoningTidy, TextTidy
  <2>15. CallsTidy(u)
    BY <2>3, <2>8, <2>11, <2>12, <2>13 DEF Tidy, CallsTidy
  <2>16. Tends(s, u)
    BY <2>2, <2>11, <2>12, <2>13, <2>14, <2>15 DEF Tends, Tidy, Grows
  <2>17. Settled(u)
    BY <2>2, <2>8, <2>12 DEF Settled, HeldBack, Blank, SameTurn
  <2>18. QED BY <2>1, <2>2, <2>8, <2>12, <2>16, <2>17 DEF u
<1>6. QED BY <1>1, <1>3, <1>4, <1>5

------------------------------------------------------------------------------
(* Events that close nothing: those of start, and the terminal one.        *)

(* u shows the client the same items as s. *)
SameItems(s, u) ==
  /\ u.next = s.next /\ u.bufferText = s.bufferText
  /\ \A ix : DoneSent(u, ix) <=> DoneSent(s, ix)

LEMMA EmitOtherQuiet ==
  ASSUME NEW s \in Assembler, Tidy(s), NEW e \in Events, e.type \notin {"added", "done"}
  PROVE  LET u == Emit(s, e) IN
         Tidy(u) /\ SameItems(s, u) /\ SameFields(s, u) /\ u \in Assembler
<1> DEFINE u == Emit(s, e)
<1>1. u \in Assembler /\ SameFields(s, u) /\ u.next = s.next /\ Grown(s, u, e)
  BY EmitFields
<1>2. Advances(s, u)
  BY EmitAdvances
<1> HIDE DEF u
<1>3. /\ Len(s.out) \in Nat /\ DOMAIN s.out = 1..Len(s.out)
      /\ DOMAIN u.out = 1..(Len(s.out) + 1)
      /\ \A i \in DOMAIN s.out : u.out[i] = s.out[i]
      /\ u.out[Len(s.out) + 1] = e
  BY <1>1, GrownFacts
<1>4. \A ix : DoneSent(u, ix) <=> DoneSent(s, ix)
  BY <1>3 DEF DoneSent
<1>5. QED BY <1>1, <1>2, <1>4 DEF u, Advances, Tends, SameItems, SameFields, SameMarks

LEMMA EmitTerminalQuiet ==
  ASSUME NEW s, Ready(s), NEW status \in Terminals
  PROVE  LET u == EmitTerminal(s, status) IN
         /\ Tidy(u) /\ SameItems(s, u) /\ u.terminal = status
         /\ u.textIx = s.textIx /\ u.textDone = s.textDone /\ u.calls = s.calls
<1> DEFINE e == Event(status, None, NoItem, <<>>)
           v == Emit(s, e)
           u == [v EXCEPT !.terminal = status]
<1>1. e \in Events /\ e.type \notin {"added", "done"}
  <2>1. NoItem \in Item /\ <<>> \in Text
    BY ItemTypes DEF Text
  <2>2. QED BY <2>1 DEF Event, Events, EventTypes, Terminals
<1>2. u = EmitTerminal(s, status)
  BY DEF EmitTerminal
<1> HIDE DEF e
<1>3. Tidy(v) /\ SameItems(s, v) /\ SameFields(s, v) /\ v \in Assembler
  BY <1>1, EmitOtherQuiet DEF Ready, Good
<1> HIDE DEF v
<1>4. /\ u.out = v.out /\ u.next = v.next /\ u.reasoning = v.reasoning
      /\ u.reasoningIx = v.reasoningIx /\ u.reasoningDone = v.reasoningDone
      /\ u.textIx = v.textIx /\ u.textDone = v.textDone
      /\ u.bufferText = v.bufferText /\ u.calls = v.calls /\ u.terminal = status
  BY <1>3 DEF Assembler
<1> HIDE DEF u
<1>5. \A ix : DoneSent(u, ix) <=> DoneSent(v, ix)
  BY <1>4 DEF DoneSent
<1>6. Tidy(u)
  BY <1>3, <1>4, <1>5
  DEF Tidy, Owned, OwnedItem, ReasoningTidy, TextTidy, CallsTidy
<1>7. QED
  BY <1>2, <1>3, <1>4, <1>5, <1>6 DEF SameItems, SameFields, SameMarks

------------------------------------------------------------------------------
(* The invariant of the task.  Before finalize no call is done and, with   *)
(* tools offered, no message is shown; from then on the reasoning and the  *)
(* message are closed, and so is every call the loop has visited.          *)

BeforeFinalize == phase \in {"spawned", "acquiring", "connecting", "streaming"}

RInv ==
  /\ Tidy(asm) /\ HeldBack(asm)
  /\ phase = "spawned" => asm.next = 0
  /\ BeforeFinalize => NoneDone(asm) /\ (asm.bufferText => asm.textIx = None)
  /\ Finishing =>
       /\ Settled(asm)
       /\ \A k \in Indices \ todo : asm.calls[k].added => asm.calls[k].done

LEMMA InitRInv == Init => RInv
<1> SUFFICES ASSUME Init PROVE RInv
  OBVIOUS
<1>1. PICK tools \in BOOLEAN : asm = NewAssembler(tools)
  BY DEF Init
<1>2. /\ asm.out = <<>> /\ asm.next = 0 /\ asm.reasoningIx = None /\ asm.textIx = None
      /\ ~asm.reasoningDone /\ ~asm.textDone
      /\ \A k \in Indices : asm.calls[k] = NewCall
  BY <1>1 DEF NewAssembler
<1>3. Tidy(asm)
  <2>1. Owned(asm)
    BY <1>2 DEF Owned
  <2>2. ReasoningTidy(asm) /\ TextTidy(asm) /\ CallsTidy(asm)
    BY <1>2 DEF ReasoningTidy, TextTidy, CallsTidy, NewCall
  <2>3. QED BY <2>1, <2>2 DEF Tidy
<1>4. phase = "spawned"
  BY DEF Init
<1>5. QED BY <1>2, <1>3, <1>4 DEF RInv, HeldBack, BeforeFinalize, Finishing, NoneDone, NewCall

LEMMA OpenIsReady == ASSUME IInv, RInv, phase # "closed" PROVE Ready(asm)
BY OpenIsGood DEF RInv, Ready

(* What each action does to the items, beside keeping the invariant. *)
LEMMA FailRInv ==
  ASSUME IInv, RInv, NEW how, phase # "closed", FailAndClose(how)
  PROVE  RInv' /\ SameItems(asm, asm') /\ asm'.terminal = "failed"
<1>1. asm' = EmitTerminal(asm, "failed") /\ phase' = "closed"
  BY OpenIsGood DEF FailAndClose, Fail
<1>2. /\ Tidy(asm') /\ SameItems(asm, asm') /\ asm'.terminal = "failed"
      /\ asm'.textIx = asm.textIx /\ asm'.textDone = asm.textDone /\ asm'.calls = asm.calls
  BY <1>1, OpenIsReady, EmitTerminalQuiet DEF Terminals
<1>3. HeldBack(asm')
  BY <1>2 DEF RInv, HeldBack, Blank, SameItems
<1>4. QED BY <1>1, <1>2, <1>3 DEF RInv, BeforeFinalize, Finishing

LEMMA CompleteRInv ==
  ASSUME IInv, RInv, Complete
  PROVE  /\ RInv' /\ SameItems(asm, asm')
         /\ asm'.terminal \in {"completed", "incomplete"}
<1> DEFINE status == CompletionStatus(asm.finish)
<1>1. asm' = EmitTerminal(asm, status) /\ phase' = "closed" /\ phase = "stored"
  BY DEF Complete
<1>2. status \in {"completed", "incomplete"}
  BY DEF CompletionStatus
<1> HIDE DEF status
<1>3. /\ Tidy(asm') /\ SameItems(asm, asm') /\ asm'.terminal = status
      /\ asm'.textIx = asm.textIx /\ asm'.textDone = asm.textDone /\ asm'.calls = asm.calls
  BY <1>1, <1>2, OpenIsReady, EmitTerminalQuiet DEF Terminals
<1>4. HeldBack(asm')
  BY <1>3 DEF RInv, HeldBack, Blank, SameItems
<1>5. QED BY <1>1, <1>2, <1>3, <1>4 DEF RInv, BeforeFinalize, Finishing

LEMMA StartRInv ==
  ASSUME IInv, RInv, Start
  PROVE  RInv' /\ SameItems(asm, asm')
<1> DEFINE e == Event("created", None, NoItem, <<>>)
           f == Event("in_progress", None, NoItem, <<>>)
           v == Emit(asm, e)
<1>1. phase = "spawned" /\ phase' = "acquiring" /\ asm' = Emit(v, f)
  BY DEF Start
<1>2. /\ e \in Events /\ e.type = "created"
      /\ f \in Events /\ f.type = "in_progress"
  <2>1. NoItem \in Item /\ <<>> \in Text
    BY ItemTypes DEF Text
  <2>2. QED BY <2>1 DEF Event, Events, EventTypes
<1> HIDE DEF e, f
<1>3. asm \in Assembler /\ Tidy(asm)
  BY <1>1, OpenIsReady DEF Ready, Good
<1>4. Tidy(v) /\ SameItems(asm, v) /\ SameFields(asm, v) /\ v \in Assembler
  BY <1>2, <1>3, EmitOtherQuiet
<1> HIDE DEF v
<1>5. Tidy(asm') /\ SameItems(v, asm') /\ SameFields(v, asm')
  BY <1>1, <1>2, <1>4, EmitOtherQuiet
<1>6. SameItems(asm, asm') /\ SameFields(asm, asm')
  BY <1>4, <1>5 DEF SameItems, SameFields, SameMarks
<1>7. HeldBack(asm')
  BY <1>6 DEF RInv, HeldBack, Blank, SameItems, SameFields, SameMarks
<1>8. NoneDone(asm') /\ (asm'.bufferText => asm'.textIx = None)
  BY <1>1, <1>6 DEF RInv, BeforeFinalize, NoneDone, SameFields, SameMarks
<1>9. QED BY <1>1, <1>5, <1>6, <1>7, <1>8 DEF RInv, BeforeFinalize, Finishing

LEMMA AcceptRInv ==
  ASSUME IInv, RInv, AcceptChunk
  PROVE  RInv' /\ Grows(asm, asm')
<1>1. PICK c \in Chunks : asm' = Accept(asm, c)
  BY DEF AcceptChunk
<1>2. phase = "streaming" /\ phase' = "streaming"
  BY DEF AcceptChunk
<1>3. Ready(asm) /\ NoneDone(asm) /\ (asm.bufferText => asm.textIx = None)
  BY <1>2, OpenIsReady DEF RInv, BeforeFinalize
<1>4. Advances(asm, asm') /\ NoneDone(asm')
  BY <1>1, <1>3, AcceptAdvances, ConstantsAssumption
<1>5. asm'.bufferText => asm'.textIx = None
  BY <1>3, <1>4 DEF Advances, Tends, Grows
<1>6. QED
  BY <1>2, <1>4, <1>5 DEF RInv, Advances, Tends, HeldBack, BeforeFinalize, Finishing

LEMMA BeginFinalizeRInv ==
  ASSUME IInv, RInv, phase = "streaming", NEW s, Ready(s), Advances(asm, s), NoneDone(s),
         NEW how, BeginFinalize(s, how)
  PROVE  RInv' /\ Grows(asm, asm')
<1>1. asm' = FinalizeText(s) /\ todo' = Indices /\ phase' = "finalizing"
  BY DEF BeginFinalize
<1>2. s.bufferText => s.textIx = None
  BY DEF RInv, BeforeFinalize, Advances, Tends, Grows
<1>3. Tends(s, asm') /\ Settled(asm')
  BY <1>1, <1>2, FinalizeTextSettles
<1>4. Good(asm') /\ Good(asm)
  BY <1>1, OpenIsGood, FinalizeTextLeads DEF Leads, Ready
<1>5. asm.next \in Int /\ s.next \in Int /\ asm'.next \in Int
  BY <1>4 DEF Good, Ready, Assembler
<1>6. Grows(asm, asm')
  BY <1>3, <1>5 DEF Tends, Advances, Grows
<1>7. QED BY <1>1, <1>3, <1>6 DEF RInv, Tends, Settled, BeforeFinalize, Finishing

LEMMA FinalizeNextToolRInv ==
  ASSUME IInv, RInv, FinalizeNextTool
  PROVE  RInv' /\ Grows(asm, asm')
<1>1. PICK k \in todo : asm' = FinalizeTool(asm, k) /\ todo' = todo \ {k}
  BY DEF FinalizeNextTool
<1>2. phase = "finalizing" /\ phase' = "finalizing" /\ k \in Indices /\ todo \subseteq Indices
  BY DEF FinalizeNextTool, IInv, TypeOK
<1>3. Ready(asm) /\ Settled(asm)
  BY <1>2, OpenIsReady DEF RInv, Finishing
<1>4. /\ Tends(asm, asm') /\ Settled(asm')
      /\ asm'.calls[k].added => asm'.calls[k].done
      /\ \A j \in Indices : j # k =>
           asm'.calls[j].added = asm.calls[j].added /\ asm'.calls[j].done = asm.calls[j].done
  BY <1>1, <1>2, <1>3, FinalizeToolSettles
<1>5. ASSUME NEW j \in Indices \ todo', asm'.calls[j].added
      PROVE  asm'.calls[j].done
  BY <1>1, <1>2, <1>4, <1>5 DEF RInv, Finishing
<1>6. QED BY <1>2, <1>4, <1>5 DEF RInv, Tends, Settled, BeforeFinalize, Finishing

LEMMA NextRInv == IInv /\ RInv /\ [Next]_vars => RInv'
<1> SUFFICES ASSUME IInv, RInv, [Next]_vars
             PROVE  RInv'
  OBVIOUS
<1>1. CASE Start
  BY <1>1, StartRInv
<1>2. CASE AcquirePermit
  BY <1>2 DEF AcquirePermit, RInv, BeforeFinalize, Finishing
<1>3. CASE RateLimited
  BY <1>3, FailRInv DEF RateLimited
<1>4. CASE UpstreamRefused
  BY <1>4, FailRInv DEF UpstreamRefused
<1>5. CASE UpstreamAccepted
  BY <1>5 DEF UpstreamAccepted, RInv, BeforeFinalize, Finishing
<1>6. CASE AcceptChunk
  BY <1>6, AcceptRInv
<1>7. CASE UpstreamError
  BY <1>7, FailRInv DEF UpstreamError
<1>8. CASE UpstreamDone \/ EofFinished
  <2>1. PICK how : phase = "streaming" /\ BeginFinalize(asm, how)
    BY <1>8 DEF UpstreamDone, EofFinished
  <2>2. Ready(asm) /\ NoneDone(asm)
    BY <2>1, OpenIsReady DEF RInv, BeforeFinalize
  <2>3. QED BY <2>1, <2>2, AdvancesSelf, BeginFinalizeRInv DEF Ready
<1>9. CASE EofTruncated
  <2> DEFINE s == MarkTruncatedAsLength(asm)
  <2>1. phase = "streaming" /\ BeginFinalize(s, "eof")
    BY <1>9 DEF EofTruncated
  <2>2. Ready(asm) /\ NoneDone(asm)
    BY <2>1, OpenIsReady DEF RInv, BeforeFinalize
  <2>3. Good(s) /\ Advances(asm, s) /\ NoneDone(s)
    BY <2>2, MarkTruncatedIsGood, MarkTruncatedAdvances DEF Ready
  <2> HIDE DEF s
  <2>4. QED BY <2>1, <2>3, BeginFinalizeRInv DEF Ready, Advances, Tends
<1>10. CASE EofEmpty
  BY <1>10, FailRInv DEF EofEmpty
<1>11. CASE FinalizeNextTool
  BY <1>11, FinalizeNextToolRInv
<1>12. CASE StatePut
  BY <1>12 DEF StatePut, RInv, BeforeFinalize, Finishing
<1>13. CASE StatePutFails
  BY <1>13, FailRInv DEF StatePutFails
<1>14. CASE Complete
  BY <1>14, CompleteRInv
<1>15. CASE Closed \/ UNCHANGED vars
  BY <1>15 DEF Closed, vars, RInv, BeforeFinalize, Finishing
<1>16. QED
  BY <1>1, <1>2, <1>3, <1>4, <1>5, <1>6, <1>7, <1>8, <1>9, <1>10, <1>11, <1>12, <1>13,
     <1>14, <1>15 DEF Next, TaskStep

------------------------------------------------------------------------------
(* The refinement.  Stage and Items are what Stream substitutes for stage  *)
(* and items.                                                              *)

Stage == CASE phase = "spawned" -> "new"
           [] phase = "closed" -> asm.terminal
           [] OTHER -> "open"

Items == [n \in 1..asm.next |-> IF IsDone(n - 1) THEN "done" ELSE "open"]

LEMMA IsDoneSent == \A ix : IsDone(ix) <=> DoneSent(asm, ix)
BY DEF IsDone, DoneSent, At

LEMMA ItemsTyped ==
  ASSUME asm.next \in Nat
  PROVE  /\ Items \in Seq({"open", "done"}) /\ Len(Items) = asm.next
         /\ DOMAIN Items = 1..asm.next
         /\ \A n \in 1..asm.next : Items[n] = IF DoneSent(asm, n - 1) THEN "done" ELSE "open"
<1>1. \A n \in 1..asm.next : Items[n] = IF DoneSent(asm, n - 1) THEN "done" ELSE "open"
  BY IsDoneSent DEF Items
<1>2. DOMAIN Items = 1..asm.next
  BY DEF Items
<1>3. Items \in [1..asm.next -> {"open", "done"}]
  BY DEF Items
<1>4. Items \in Seq({"open", "done"})
  BY <1>3, IsASeq DEF Items
<1>5. Len(Items) = asm.next
  BY <1>2, <1>4, LenProperties
<1>6. QED BY <1>1, <1>2, <1>4, <1>5

LEMMA SameItemsSame ==
  ASSUME SameItems(asm, asm')
  PROVE  Items' = Items
<1>1. \A ix : IsDone(ix)' <=> IsDone(ix)
  BY DEF SameItems, IsDone, DoneSent, At
<1>2. asm'.next = asm.next
  BY DEF SameItems
<1>3. QED BY <1>1, <1>2 DEF Items

LEMMA NextTyped == ASSUME IInv PROVE asm.next \in Nat
BY DEF IInv, TypeOK, Assembler

(* Announcing and closing items, with the stream open and nothing stored.  *)
LEMMA GrowsExtends ==
  ASSUME IInv, IInv', Grows(asm, asm'), ~row.stored, row' = row,
         phase \notin {"spawned", "closed"}, phase' \notin {"spawned", "closed"}
  PROVE  Stream!Extend
<1>1. asm.next \in Nat /\ (asm.next \in Nat)'
  BY NextTyped DEF IInv, TypeOK, Assembler
<1>2. /\ Len(Items) = asm.next /\ DOMAIN Items = 1..asm.next
      /\ \A n \in 1..asm.next : Items[n] = IF DoneSent(asm, n - 1) THEN "done" ELSE "open"
  BY <1>1, ItemsTyped
<1>3. /\ Items' \in Seq({"open", "done"}) /\ Len(Items') = asm'.next
      /\ \A n \in 1..asm'.next :
           Items'[n] = IF DoneSent(asm', n - 1) THEN "done" ELSE "open"
  <2>1. (asm.next \in Nat)' => (/\ Items \in Seq({"open", "done"}) /\ Len(Items) = asm.next
           /\ DOMAIN Items = 1..asm.next
           /\ \A n \in 1..asm.next :
                Items[n] = IF DoneSent(asm, n - 1) THEN "done" ELSE "open")'
    BY ItemsTyped, PTL
  <2>2. QED BY <1>1, <2>1
<1>4. /\ asm'.bufferText = asm.bufferText /\ asm.next <= asm'.next
      /\ \A ix : DoneSent(asm, ix) => DoneSent(asm', ix)
  BY DEF Grows
<1>5. Len(Items') >= Len(Items)
  BY <1>1, <1>2, <1>3, <1>4
<1>6. \A n \in DOMAIN Items : Items[n] = "done" => Items'[n] = "done"
  BY <1>1, <1>2, <1>3, <1>4
<1>7. Stage = "open" /\ Stage' = "open"
  BY DEF Stage
<1>8. QED BY <1>3, <1>4, <1>5, <1>6, <1>7 DEF Stream!Extend, Items, Stage

(* When finalize's loop has ended every announced item is closed, if the   *)
(* request offered tools.                                                  *)
LEMMA AllClosed ==
  ASSUME IInv, RInv, phase = "finalizing", todo = {}, asm.bufferText,
         NEW ix \in 0..(asm.next - 1)
  PROVE  DoneSent(asm, ix)
<1>1. Good(asm) /\ Tidy(asm) /\ Settled(asm)
  BY OpenIsGood DEF RInv, Finishing
<1>2. PICK i \in DOMAIN asm.out : asm.out[i].type = "added" /\ asm.out[i].ix = ix
  BY <1>1 DEF Good, Core, Ordered
<1>3. OwnedItem(asm, ix, asm.out[i].item)
  BY <1>1, <1>2 DEF Tidy, Owned
<1>4. CASE asm.reasoningIx # None /\ ix = asm.reasoningIx
  BY <1>1, <1>4 DEF Settled, Tidy, ReasoningTidy
<1>5. CASE asm.textIx # None /\ ix = asm.textIx
  BY <1>1, <1>5 DEF Settled, HeldBack, Tidy, TextTidy
<1>6. CASE \E k \in Indices : asm.calls[k].added /\ ix = asm.calls[k].ix
  <2>1. PICK k \in Indices : asm.calls[k].added /\ ix = asm.calls[k].ix
    BY <1>6
  <2>2. asm.calls[k].done
    BY <2>1 DEF RInv, Finishing
  <2>3. QED BY <1>1, <2>1, <2>2 DEF Tidy, CallsTidy
<1>7. QED BY <1>3, <1>4, <1>5, <1>6 DEF OwnedItem

LEMMA StatePutStores ==
  ASSUME IInv, RInv, StatePut
  PROVE  Stream!Store
<1>1. /\ phase = "finalizing" /\ todo = {} /\ phase' = "stored" /\ asm' = asm
      /\ row'.stored = TRUE /\ ~row.stored
  BY OpenIsGood DEF StatePut
<1>2. asm.bufferText => \A n \in DOMAIN Items : Items[n] = "done"
  <2> SUFFICES ASSUME asm.bufferText, NEW n \in DOMAIN Items PROVE Items[n] = "done"
    OBVIOUS
  <2>1. n \in 1..asm.next /\ asm.next \in Nat
    BY NextTyped, ItemsTyped
  <2>2. n - 1 \in 0..(asm.next - 1)
    BY <2>1
  <2>3. DoneSent(asm, n - 1)
    BY <1>1, <2>2, AllClosed
  <2>4. QED BY <2>1, <2>3, ItemsTyped
<1>3. SameItems(asm, asm')
  BY <1>1 DEF SameItems
<1>4. Stage = "open" /\ Stage' = "open" /\ Items' = Items
  BY <1>1, <1>3, SameItemsSame DEF Stage
<1>5. QED BY <1>1, <1>2, <1>4 DEF Stream!Store, Items, Stage

LEMMA FailFails ==
  ASSUME IInv, RInv, NEW how, phase \notin {"spawned", "stored", "closed"}, FailAndClose(how)
  PROVE  Stream!Fail
<1>1. SameItems(asm, asm') /\ asm'.terminal = "failed"
  BY FailRInv
<1>2. phase' = "closed" /\ row' = row /\ ~row.stored
  BY OpenIsGood DEF FailAndClose
<1>3. /\ Stage = "open" /\ Stage' = "failed" /\ Items' = Items
      /\ asm'.bufferText = asm.bufferText
  BY <1>1, <1>2, SameItemsSame DEF Stage, SameItems
<1>4. QED BY <1>2, <1>3 DEF Stream!Fail, Items, Stage

(* A step of the task that the client does not see. *)
LEMMA SilentStutters ==
  ASSUME asm' = asm, row' = row, phase' = phase \/
         (phase \notin {"spawned", "closed"} /\ phase' \notin {"spawned", "closed"})
  PROVE  UNCHANGED Stream!vars
<1>1. SameItems(asm, asm')
  BY DEF SameItems
<1>2. Stage' = Stage /\ Items' = Items
  BY <1>1, SameItemsSame DEF Stage
<1>3. QED BY <1>2 DEF Stream!vars, Items, Stage

LEMMA StepRefines ==
  ASSUME IInv, IInv', RInv, [Next]_vars
  PROVE  [Stream!Next]_(Stream!vars)
<1>1. CASE Start
  <2>1. SameItems(asm, asm') /\ phase = "spawned" /\ phase' = "acquiring" /\ row' = row
    BY <1>1, StartRInv DEF Start
  <2>2. /\ Stage = "new" /\ Stage' = "open" /\ Items' = Items
        /\ asm'.bufferText = asm.bufferText
    BY <2>1, SameItemsSame DEF Stage, SameItems
  <2>3. Stream!Create
    BY <2>1, <2>2 DEF Stream!Create, Items, Stage
  <2>4. QED BY <2>3 DEF Stream!Next
<1>2. CASE AcquirePermit \/ UpstreamAccepted
  BY <1>2, SilentStutters DEF AcquirePermit, UpstreamAccepted
<1>3. CASE RateLimited \/ UpstreamRefused \/ UpstreamError \/ EofEmpty \/ StatePutFails
  <2>1. PICK how : FailAndClose(how) /\ phase \notin {"spawned", "stored", "closed"}
    BY <1>3 DEF RateLimited, UpstreamRefused, UpstreamError, EofEmpty, StatePutFails
  <2>2. QED BY <2>1, FailFails DEF Stream!Next
<1>4. CASE AcceptChunk
  <2>1. Grows(asm, asm') /\ phase = "streaming" /\ phase' = "streaming" /\ row' = row
    BY <1>4, AcceptRInv DEF AcceptChunk
  <2>2. QED BY <2>1, OpenIsGood, GrowsExtends DEF Stream!Next
<1>5. CASE UpstreamDone \/ EofFinished \/ EofTruncated
  <2>1. PICK s, how : /\ phase = "streaming" /\ BeginFinalize(s, how)
                      /\ s = asm \/ s = MarkTruncatedAsLength(asm)
    BY <1>5 DEF UpstreamDone, EofFinished, EofTruncated
  <2>2. Ready(asm) /\ NoneDone(asm)
    BY <2>1, OpenIsReady DEF RInv, BeforeFinalize
  <2>3. Good(s) /\ Advances(asm, s) /\ NoneDone(s)
    BY <2>1, <2>2, AdvancesSelf, MarkTruncatedIsGood, MarkTruncatedAdvances DEF Ready
  <2>4. Grows(asm, asm')
    BY <2>1, <2>3, BeginFinalizeRInv DEF Ready, Advances, Tends
  <2>5. phase' = "finalizing" /\ row' = row
    BY <2>1 DEF BeginFinalize
  <2>6. QED BY <2>1, <2>4, <2>5, OpenIsGood, GrowsExtends DEF Stream!Next
<1>6. CASE FinalizeNextTool
  <2>1. Grows(asm, asm') /\ phase = "finalizing" /\ phase' = "finalizing" /\ row' = row
    BY <1>6, FinalizeNextToolRInv DEF FinalizeNextTool
  <2>2. QED BY <2>1, OpenIsGood, GrowsExtends DEF Stream!Next
<1>7. CASE StatePut
  BY <1>7, StatePutStores DEF Stream!Next
<1>8. CASE Complete
  <2>1. SameItems(asm, asm') /\ asm'.terminal \in {"completed", "incomplete"}
    BY <1>8, CompleteRInv
  <2>2. phase = "stored" /\ phase' = "closed" /\ row' = row /\ row.stored
    BY <1>8, OpenIsGood DEF Complete
  <2>3. /\ Stage = "open" /\ Stage' \in {"completed", "incomplete"} /\ Items' = Items
        /\ asm'.bufferText = asm.bufferText
    BY <2>1, <2>2, SameItemsSame DEF Stage, SameItems
  <2>4. Stream!Finish
    BY <2>2, <2>3 DEF Stream!Finish, Items, Stage
  <2>5. QED BY <2>4 DEF Stream!Next
<1>9. CASE Closed \/ UNCHANGED vars
  BY <1>9, SilentStutters DEF Closed, vars
<1>10. QED
  BY <1>1, <1>2, <1>3, <1>4, <1>5, <1>6, <1>7, <1>8, <1>9 DEF Next, TaskStep

LEMMA InitRefines ==
  ASSUME IInv, RInv, Init
  PROVE  Stream!Init
<1>1. asm.bufferText \in BOOLEAN /\ row.stored = FALSE /\ phase = "spawned" /\ asm.next = 0
  BY DEF Init, NoRow, RInv, IInv, TypeOK, Assembler
<1>2. Stage = "new"
  BY <1>1 DEF Stage
<1>3. Items = <<>>
  <2>1. Items \in Seq({"open", "done"}) /\ Len(Items) = 0
    BY <1>1, ItemsTyped
  <2>2. QED BY <2>1, EmptySeq
<1>4. QED BY <1>1, <1>2, <1>3 DEF Stream!Init, Items, Stage

------------------------------------------------------------------------------
(* The theorems.                                                           *)

LEMMA RInvariance == Spec => [](IInv /\ RInv)
<1>1. Init => IInv /\ RInv
  BY InitIInv, InitRInv
<1>2. IInv /\ RInv /\ [Next]_vars => (IInv /\ RInv)'
  BY NextIInv, NextRInv
<1>3. QED BY <1>1, <1>2, PTL DEF Spec

(* For every alphabet, set of indices, ids and names and every upstream,   *)
(* the task behaves as ResponsesStream promises its client: items are      *)
(* announced and closed and never reopened, the response is stored with    *)
(* every item closed, and it ends once, as it was stored.                  *)
THEOREM TaskImplementsStream == Spec => ImplementsResponsesStream
<1>1. Init /\ IInv /\ RInv => Stream!Init
  BY InitRefines
<1>2. IInv /\ IInv' /\ RInv /\ [Next]_vars => [Stream!Next]_(Stream!vars)
  BY StepRefines
<1>3. QED
  BY <1>1, <1>2, RInvariance, PTL DEF Spec, ImplementsResponsesStream, Stream!Spec

(* With tools offered, no response that calls a tool shows a message,      *)
(* however the upstream interleaves its text with its calls.               *)
THEOREM MessageHeldBack == Spec => []TextHeldBack
<1>1. IInv /\ RInv => TextHeldBack
  <2> SUFFICES ASSUME IInv, RInv, asm.bufferText, NEW i \in At("added"), NEW j \in At("added"),
                      asm.out[i].item.kind = "message", asm.out[j].item.kind = "tool"
               PROVE  asm.out[j].item.name \in BlankNames
    BY DEF TextHeldBack
  <2>1. /\ OwnedItem(asm, asm.out[i].ix, asm.out[i].item)
        /\ OwnedItem(asm, asm.out[j].ix, asm.out[j].item)
    BY DEF RInv, Tidy, Owned, At
  <2>2. asm.textIx # None
    <3>1. ReasoningItem.kind = "reasoning" /\ \A c : ToolItem(c).kind = "tool"
      BY DEF ReasoningItem, ToolItem
    <3>2. asm.out[i].item # ReasoningItem /\ \A c : asm.out[i].item # ToolItem(c)
      BY <3>1
    <3>3. QED BY <2>1, <3>2 DEF OwnedItem
  <2>3. PICK k \in Indices : asm.calls[k].added /\ asm.out[j].item = ToolItem(asm.calls[k])
    BY <2>1 DEF OwnedItem, ReasoningItem, MessageItem
  <2>4. Blank(asm, k) /\ asm.calls[k].name # NoText
    BY <2>2, <2>3 DEF RInv, HeldBack, Tidy, CallsTidy
  <2>5. QED BY <2>3, <2>4 DEF Blank, ToolItem
<1>2. QED BY <1>1, RInvariance, PTL
==============================================================================
