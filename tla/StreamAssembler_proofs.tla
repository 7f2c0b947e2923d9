------------------------ MODULE StreamAssembler_proofs ------------------------
(***************************************************************************)
(* Proofs about StreamAssembler, for every alphabet, every set of indices, *)
(* ids and names, every set of chunks and every length of a stream.        *)
(***************************************************************************)
EXTENDS StreamAssembler, SequenceTheorems, TLAPS

------------------------------------------------------------------------------
(* The helpers on texts return texts.                                      *)

LEMMA SubSeqIsText ==
  ASSUME NEW t \in Text, NEW m \in Nat \ {0}, NEW n \in Int, n <= Len(t)
  PROVE  SubSeq(t, m, n) \in Text
<1>1. \A i \in m..n : t[i] \in Char
  BY ElementOfSeq DEF Text
<1>2. QED BY <1>1, SubSeqProperties, m \in Int DEF Text

LEMMA TrimStartIsText == ASSUME NEW t \in Text PROVE TrimStart(t) \in Text
<1>1. CASE \E k \in DOMAIN t : InkStart(t, k)
  <2> DEFINE k == CHOOSE k \in DOMAIN t : InkStart(t, k)
  <2>1. k \in 1..Len(t)
    BY <1>1, LenProperties DEF Text
  <2>2. Len(t) \in Nat
    BY LenProperties DEF Text
  <2>3. SubSeq(t, k, Len(t)) \in Text
    BY <2>1, <2>2, SubSeqIsText
  <2>4. QED BY <1>1, <2>3 DEF TrimStart
<1>2. CASE ~ \E k \in DOMAIN t : InkStart(t, k)
  BY <1>2 DEF TrimStart, Text
<1>3. QED BY <1>1, <1>2

LEMMA TrimEndIsText == ASSUME NEW t \in Text PROVE TrimEnd(t) \in Text
<1>1. CASE \E k \in DOMAIN t : InkEnd(t, k)
  <2> DEFINE k == CHOOSE k \in DOMAIN t : InkEnd(t, k)
  <2>1. k \in 1..Len(t)
    BY <1>1, LenProperties DEF Text
  <2>2. Len(t) \in Nat
    BY LenProperties DEF Text
  <2>3. SubSeq(t, 1, k) \in Text
    BY <2>1, <2>2, SubSeqIsText
  <2>4. QED BY <1>1, <2>3 DEF TrimEnd
<1>2. CASE ~ \E k \in DOMAIN t : InkEnd(t, k)
  BY <1>2 DEF TrimEnd, Text
<1>3. QED BY <1>1, <1>2

LEMMA TrimIsText == ASSUME NEW t \in Text PROVE Trim(t) \in Text
BY TrimStartIsText, TrimEndIsText DEF Trim

LEMMA SkipIsText == ASSUME NEW t \in Text, NEW n \in Nat PROVE Skip(t, n) \in Text
<1>1. Len(t) \in Nat
  BY LenProperties DEF Text
<1>2. SubSeq(t, n + 1, Len(t)) \in Text
  BY <1>1, SubSeqIsText
<1>3. QED BY <1>2 DEF Skip

LEMMA ConcatIsText == ASSUME NEW t \in Text, NEW u \in Text PROVE t \o u \in Text
BY ConcatProperties DEF Text

Parts == [reasoning : Text, answer : Text]

LEMMA SplitAtThinkCloseIsParts ==
  ASSUME NEW t \in Text, HasClose(t)
  PROVE  SplitAtThinkClose(t) \in Parts
<1> DEFINE k == CHOOSE i \in DOMAIN t : CloseAt(t, i)
<1>1. k \in 1..Len(t) /\ Len(t) \in Nat
  BY LenProperties DEF Text, HasClose
<1>2. SubSeq(t, 1, k - 1) \in Text
  BY <1>1, SubSeqIsText
<1>3. TrimStart(Skip(t, k + 1)) \in Text
  BY <1>1, SkipIsText, TrimStartIsText
<1>4. QED BY <1>2, <1>3 DEF SplitAtThinkClose, Parts

LEMMA AfterLeadingOpenIsText ==
  ASSUME NEW t \in Text PROVE AfterLeadingOpen(t) \in Text
BY TrimStartIsText, SkipIsText DEF AfterLeadingOpen

LEMMA SplitLeadingThinkBlockIsParts ==
  ASSUME NEW t \in Text, HasLeadingThinkBlock(t)
  PROVE  SplitLeadingThinkBlock(t) \in Parts
<1>1. SplitAtThinkClose(AfterLeadingOpen(t)) \in Parts
  BY AfterLeadingOpenIsText, SplitAtThinkCloseIsParts DEF HasLeadingThinkBlock
<1>2. QED BY <1>1, TrimIsText DEF SplitLeadingThinkBlock, Parts

LEMMA SplitSuffixIsText ==
  ASSUME NEW t \in Text
  PROVE  /\ SplitIncompleteThinkCloseSuffix(t).emit \in Text
         /\ SplitIncompleteThinkCloseSuffix(t).keep \in Text
<1>1. Len(t) \in Nat /\ (t # <<>> => Len(t) \in Nat \ {0})
  BY LenProperties, EmptySeq DEF Text
<1>2. CASE EndsInCloseSuffix(t)
  <2>1. SubSeq(t, 1, Len(t) - 1) \in Text
    BY <1>1, SubSeqIsText
  <2>2. SubSeq(t, Len(t), Len(t)) \in Text
    BY <1>1, <1>2, SubSeqIsText DEF EndsInCloseSuffix
  <2>3. QED BY <1>2, <2>1, <2>2 DEF SplitIncompleteThinkCloseSuffix
<1>3. CASE ~EndsInCloseSuffix(t)
  BY <1>3 DEF SplitIncompleteThinkCloseSuffix, Text
<1>4. QED BY <1>2, <1>3

LEMMA CanonicalIsText ==
  ASSUME NEW t \in Text
  PROVE  Canonical(t) \in Text /\ CustomInput(t) \in Text
BY TrimIsText DEF Canonical, CustomInput, Text

------------------------------------------------------------------------------
(* What holds of the events emitted so far, whatever the assembler does    *)
(* next.                                                                   *)

Events == [type : EventTypes, ix : Nat \cup {None}, item : Item, text : Text]

Known(s, ix, item) ==
  \E i \in DOMAIN s.out :
    s.out[i].type = "added" /\ s.out[i].ix = ix /\ s.out[i].item = item

NotDone(s, ix) == \A i \in DOMAIN s.out : s.out[i].type = "done" => s.out[i].ix # ix

(* The indices of the announced items are 0, 1, .., next - 1 in this order. *)
Ordered(s) ==
  /\ \A i, j \in DOMAIN s.out :
       s.out[i].type = "added" /\ s.out[j].type = "added" /\ i < j
         => s.out[i].ix < s.out[j].ix
  /\ \A i \in DOMAIN s.out : s.out[i].type = "added" => s.out[i].ix \in 0..(s.next - 1)
  /\ \A n \in 0..(s.next - 1) : \E i \in DOMAIN s.out :
       s.out[i].type = "added" /\ s.out[i].ix = n

Announced(s) ==
  \A j \in DOMAIN s.out : s.out[j].type \in {"delta", "done"} =>
    \E i \in DOMAIN s.out :
      i < j /\ s.out[i].type = "added" /\ s.out[i].ix = s.out[j].ix
            /\ s.out[i].item = s.out[j].item

DoneOnce(s) ==
  \A i, j \in DOMAIN s.out :
    s.out[i].type = "done" /\ s.out[j].type = "done" /\ s.out[i].ix = s.out[j].ix => i = j

(* The struct's fields agree with the events: an index it keeps was        *)
(* announced for that item, and a flag it has not set yet means that no    *)
(* done event was sent.                                                    *)
ReasoningAgrees(s) ==
  s.reasoningIx # None =>
    Known(s, s.reasoningIx, ReasoningItem) /\ (~s.reasoningDone => NotDone(s, s.reasoningIx))

TextAgrees(s) ==
  s.textIx # None =>
    Known(s, s.textIx, MessageItem) /\ (~s.textDone => NotDone(s, s.textIx))

CallsAgree(s) ==
  \A k \in Indices :
    /\ s.calls[k].added <=> s.calls[k].ix # None
    /\ s.calls[k].added =>
         /\ s.calls[k].id # NoText
         /\ Known(s, s.calls[k].ix, ToolItem(s.calls[k]))
         /\ ~s.calls[k].done => NotDone(s, s.calls[k].ix)
         /\ \A j \in Indices : s.calls[j].ix = s.calls[k].ix => j = k

Core(s) ==
  /\ Ordered(s) /\ Announced(s) /\ DoneOnce(s)
  /\ ReasoningAgrees(s) /\ TextAgrees(s) /\ CallsAgree(s)

Unfinished(s) ==
  s.terminal = NoText /\ \A i \in DOMAIN s.out : s.out[i].type \notin Terminals

Good(s) == s \in Assembler /\ Core(s) /\ Unfinished(s)

(* One call of a method: a good assembler becomes a good one, and only     *)
(* accept and mark_truncated_as_length touch finish_reason.                *)
Leads(s, t) == Good(t) /\ t.finish = s.finish

LEMMA ItemTypes ==
  /\ ReasoningItem \in Item /\ MessageItem \in Item /\ NoItem \in Item
  /\ \A c \in Call : ToolItem(c) \in Item
  /\ ReasoningItem # MessageItem
  /\ \A c \in Call : ToolItem(c) # ReasoningItem /\ ToolItem(c) # MessageItem
BY DEF ReasoningItem, MessageItem, NoItem, ToolItem, Item, Call

LEMMA OutIsSeq ==
  ASSUME NEW s \in Assembler
  PROVE  /\ s.out \in Seq(Events) /\ Len(s.out) \in Nat /\ DOMAIN s.out = 1..Len(s.out)
         /\ \A i \in DOMAIN s.out : s.out[i] \in Events
<1>1. s.out \in Seq(Events)
  BY DEF Assembler, Events
<1>2. QED BY <1>1, LenProperties, ElementOfSeq

LEMMA EmitFacts ==
  ASSUME NEW s \in Assembler, NEW e \in Events
  PROVE  /\ Emit(s, e) \in Assembler
         /\ Emit(s, e) = [s EXCEPT !.out = Append(s.out, e)]
         /\ DOMAIN Append(s.out, e) = 1..(Len(s.out) + 1)
         /\ \A i \in DOMAIN s.out : Append(s.out, e)[i] = s.out[i]
         /\ Append(s.out, e)[Len(s.out) + 1] = e
<1>1. s.out \in Seq(Events) /\ Append(s.out, e) \in Seq(Events)
  BY OutIsSeq, AppendProperties
<1>2. Emit(s, e) = [s EXCEPT !.out = Append(s.out, e)]
  BY DEF Emit
<1>3. Emit(s, e) \in Assembler
  BY <1>1, <1>2 DEF Assembler, Events
<1>4. QED BY <1>1, <1>2, <1>3, AppendProperties, LenProperties

LEMMA DeltaTyped ==
  ASSUME NEW ix \in Nat \cup {None}, NEW item \in Item, NEW text \in Text
  PROVE  LET e == Event("delta", ix, item, text)
         IN  e \in Events /\ e.type = "delta" /\ e.ix = ix /\ e.item = item
BY DEF Event, Events, EventTypes

LEMMA DoneTyped ==
  ASSUME NEW ix \in Nat \cup {None}, NEW item \in Item, NEW text \in Text
  PROVE  LET e == Event("done", ix, item, text)
         IN  e \in Events /\ e.type = "done" /\ e.ix = ix /\ e.item = item
BY DEF Event, Events, EventTypes

------------------------------------------------------------------------------
(* The elementary steps the methods are made of.                           *)

(* u differs from s by the event e at the end. *)
Grown(s, u, e) == s \in Assembler /\ e \in Events /\ u.out = Append(s.out, e)

LEMMA GrownFacts ==
  ASSUME NEW s, NEW u, NEW e, Grown(s, u, e)
  PROVE  /\ Len(s.out) \in Nat /\ DOMAIN s.out = 1..Len(s.out)
         /\ DOMAIN u.out = 1..(Len(s.out) + 1)
         /\ \A i \in DOMAIN s.out : u.out[i] = s.out[i] /\ u.out[i] \in Events
         /\ u.out[Len(s.out) + 1] = e
         /\ \A ix, item : Known(s, ix, item) => Known(u, ix, item)
         /\ \A ix : NotDone(s, ix) /\ (e.type = "done" => e.ix # ix) => NotDone(u, ix)
<1>1. /\ Len(s.out) \in Nat /\ DOMAIN s.out = 1..Len(s.out)
      /\ DOMAIN u.out = 1..(Len(s.out) + 1)
      /\ \A i \in DOMAIN s.out : u.out[i] = s.out[i] /\ u.out[i] \in Events
      /\ u.out[Len(s.out) + 1] = e
  <2>1. s \in Assembler /\ e \in Events /\ u.out = Append(s.out, e)
    BY DEF Grown
  <2>2. /\ Len(s.out) \in Nat /\ DOMAIN s.out = 1..Len(s.out)
        /\ \A i \in DOMAIN s.out : s.out[i] \in Events
    BY <2>1, OutIsSeq
  <2>3. /\ DOMAIN u.out = 1..(Len(s.out) + 1)
        /\ \A i \in DOMAIN s.out : u.out[i] = s.out[i]
        /\ u.out[Len(s.out) + 1] = e
    BY ONLY <2>1, EmitFacts
  <2>4. QED BY <2>2, <2>3
<1>2. QED BY <1>1 DEF Known, NotDone

LEMMA GrownOrdered ==
  ASSUME NEW s, NEW u, NEW e, Grown(s, u, e), Ordered(s),
         e.type # "added", u.next = s.next
  PROVE  Ordered(u)
<1>1. /\ DOMAIN s.out = 1..Len(s.out) /\ DOMAIN u.out = 1..(Len(s.out) + 1)
      /\ Len(s.out) \in Nat /\ u.out[Len(s.out) + 1] = e
      /\ \A i \in 1..Len(s.out) : u.out[i] = s.out[i]
  BY GrownFacts
<1>2. \A i \in DOMAIN u.out : u.out[i].type = "added" => i \in DOMAIN s.out /\ u.out[i] = s.out[i]
  BY <1>1
<1>3. \A i \in DOMAIN s.out : i \in DOMAIN u.out /\ u.out[i] = s.out[i]
  BY <1>1
<1>4. QED BY <1>2, <1>3 DEF Ordered

LEMMA GrownAnnounced ==
  ASSUME NEW s, NEW u, NEW e, Grown(s, u, e), Announced(s),
         e.type \in {"delta", "done"} => Known(s, e.ix, e.item)
  PROVE  Announced(u)
<1> SUFFICES ASSUME NEW j \in DOMAIN u.out, u.out[j].type \in {"delta", "done"}
             PROVE  \E i \in DOMAIN u.out :
                      i < j /\ u.out[i].type = "added" /\ u.out[i].ix = u.out[j].ix
                            /\ u.out[i].item = u.out[j].item
  BY DEF Announced
<1>1. CASE j = Len(s.out) + 1
  <2>1. PICK i \in DOMAIN s.out :
          s.out[i].type = "added" /\ s.out[i].ix = e.ix /\ s.out[i].item = e.item
    BY <1>1, GrownFacts DEF Known
  <2>2. QED BY <1>1, <2>1, GrownFacts
<1>2. CASE j \in DOMAIN s.out
  <2>1. PICK i \in DOMAIN s.out :
          i < j /\ s.out[i].type = "added" /\ s.out[i].ix = s.out[j].ix
                /\ s.out[i].item = s.out[j].item
    BY <1>2, GrownFacts DEF Announced
  <2>2. QED BY <1>2, <2>1, GrownFacts
<1>3. QED BY <1>1, <1>2, GrownFacts

LEMMA GrownDoneOnce ==
  ASSUME NEW s, NEW u, NEW e, Grown(s, u, e), DoneOnce(s),
         e.type = "done" => NotDone(s, e.ix)
  PROVE  DoneOnce(u)
BY GrownFacts DEF DoneOnce, NotDone

(* An assignment to fields that the events say nothing about. *)
LEMMA Assign ==
  ASSUME NEW s, NEW u \in Assembler, Good(s),
         u.out = s.out, u.next = s.next, u.terminal = s.terminal, u.finish = s.finish,
         u.reasoningIx = s.reasoningIx, u.reasoningDone = s.reasoningDone,
         u.textIx = s.textIx, u.textDone = s.textDone,
         \A k \in Indices :
           /\ u.calls[k].ix = s.calls[k].ix /\ u.calls[k].added = s.calls[k].added
           /\ s.calls[k].done => u.calls[k].done
           /\ s.calls[k].added => u.calls[k].id = s.calls[k].id /\ u.calls[k].name = s.calls[k].name
  PROVE  Leads(s, u)
<1>1. Ordered(u) /\ Announced(u) /\ DoneOnce(u)
  BY DEF Good, Core, Ordered, Announced, DoneOnce
<1>2. ReasoningAgrees(u) /\ TextAgrees(u)
  BY DEF Good, Core, ReasoningAgrees, TextAgrees, Known, NotDone
<1>3. CallsAgree(u)
  <2>1. \A ix, item : Known(s, ix, item) <=> Known(u, ix, item)
    BY DEF Known
  <2>2. \A ix : NotDone(s, ix) <=> NotDone(u, ix)
    BY DEF NotDone
  <2>3. \A k \in Indices : u.calls[k].done \in BOOLEAN /\ s.calls[k].done \in BOOLEAN
    BY DEF Good, Assembler, Call
  <2>4. ASSUME NEW k \in Indices, s.calls[k].added
        PROVE  ToolItem(u.calls[k]) = ToolItem(s.calls[k]) /\ u.calls[k].id = s.calls[k].id
    BY <2>4 DEF ToolItem
  <2>5. QED BY <2>1, <2>2, <2>3, <2>4 DEF Good, Core, CallsAgree
<1>4. Unfinished(u)
  BY DEF Good, Unfinished
<1>5. QED BY <1>1, <1>2, <1>3, <1>4 DEF Good, Core, Leads

LEMMA EmitDelta ==
  ASSUME NEW s, Good(s), NEW e \in Events,
         e.type \in {"created", "in_progress", "delta"},
         e.type = "delta" => Known(s, e.ix, e.item)
  PROVE  Leads(s, Emit(s, e))
<1> DEFINE u == Emit(s, e)
<1>1. u \in Assembler /\ u = [s EXCEPT !.out = Append(s.out, e)]
  BY EmitFacts DEF Good
<1>2. /\ u.out = Append(s.out, e) /\ u.next = s.next /\ u.terminal = s.terminal
      /\ u.finish = s.finish /\ u.reasoningIx = s.reasoningIx
      /\ u.reasoningDone = s.reasoningDone /\ u.textIx = s.textIx
      /\ u.textDone = s.textDone /\ u.calls = s.calls
  BY <1>1 DEF Good, Assembler
<1>3. Grown(s, u, e)
  BY <1>2 DEF Good, Grown
<1> HIDE DEF u
<1>4. Ordered(u) /\ Announced(u) /\ DoneOnce(u)
  BY <1>2, <1>3, GrownOrdered, GrownAnnounced, GrownDoneOnce DEF Good, Core
<1>5. ReasoningAgrees(u) /\ TextAgrees(u)
  BY <1>2, <1>3, GrownFacts DEF Good, Core, ReasoningAgrees, TextAgrees
<1>6. CallsAgree(u)
  <2>1. /\ \A ix, item : Known(s, ix, item) => Known(u, ix, item)
        /\ \A ix : NotDone(s, ix) => NotDone(u, ix)
    BY <1>3, GrownFacts
  <2>2. QED BY <1>2, <2>1 DEF Good, Core, CallsAgree
<1>7. Unfinished(u)
  <2>1. \A i \in DOMAIN u.out : i \in DOMAIN s.out \/ u.out[i] = e
    BY <1>3, GrownFacts
  <2>2. QED BY <1>2, <1>3, <2>1, GrownFacts DEF Good, Unfinished, Terminals
<1>8. QED BY <1>1, <1>2, <1>4, <1>5, <1>6, <1>7 DEF Good, Core, Leads, u

(* The fields the events do not determine. *)
SameMarks(s, u) ==
  /\ u.terminal = s.terminal /\ u.finish = s.finish /\ u.bufferText = s.bufferText
  /\ u.reasoningIx = s.reasoningIx /\ u.reasoningDone = s.reasoningDone
  /\ u.textIx = s.textIx /\ u.textDone = s.textDone /\ u.calls = s.calls

SameFields(s, u) ==
  SameMarks(s, u) /\ u.content = s.content /\ u.reasoning = s.reasoning

LEMMA EmitFields ==
  ASSUME NEW s \in Assembler, NEW e \in Events
  PROVE  /\ Emit(s, e) \in Assembler /\ SameFields(s, Emit(s, e))
         /\ Emit(s, e).next = s.next /\ Grown(s, Emit(s, e), e)
<1>1. Emit(s, e) \in Assembler /\ Emit(s, e) = [s EXCEPT !.out = Append(s.out, e)]
  BY EmitFacts
<1>2. QED BY <1>1 DEF Assembler, SameFields, SameMarks, Grown

(* The index an item is given is new. *)
LEMMA NextIsNew ==
  ASSUME NEW s, Good(s)
  PROVE  /\ \A ix, item : Known(s, ix, item) => ix # s.next
         /\ NotDone(s, s.next)
<1>1. s.next \in Nat
  BY DEF Good, Assembler
<1>2. \A ix, item : Known(s, ix, item) => ix # s.next
  BY <1>1 DEF Good, Core, Ordered, Known
<1>3. NotDone(s, s.next)
  BY <1>2 DEF Good, Core, Announced, Known, NotDone
<1>4. QED BY <1>2, <1>3

LEMMA AddItemLeads ==
  ASSUME NEW s, Good(s), NEW item \in Item
  PROVE  /\ Leads(s, AddItem(s, item)) /\ SameFields(s, AddItem(s, item))
         /\ Known(AddItem(s, item), s.next, item) /\ NotDone(AddItem(s, item), s.next)
         /\ \A ix, it : Known(s, ix, it) => Known(AddItem(s, item), ix, it)
<1> DEFINE e == Event("added", s.next, item, <<>>)
           u == AddItem(s, item)
<1>1. /\ e \in Events /\ e.type = "added" /\ e.ix = s.next /\ e.item = item
      /\ s \in Assembler /\ s.next \in Nat
  <2>1. s.next \in Nat /\ s \in Assembler
    BY DEF Good, Assembler
  <2>2. <<>> \in Text
    BY DEF Text
  <2>3. QED BY <2>1, <2>2 DEF Event, Events, EventTypes
<1> HIDE DEF e
<1>2. /\ Emit(s, e) \in Assembler /\ SameFields(s, Emit(s, e))
      /\ Emit(s, e).next = s.next /\ Grown(s, Emit(s, e), e)
  BY <1>1, EmitFields
<1>3. u = [Emit(s, e) EXCEPT !.next = s.next + 1]
  BY <1>2 DEF AddItem, e, Assembler
<1> HIDE DEF u
<1>4. u \in Assembler /\ SameFields(s, u) /\ u.next = s.next + 1 /\ Grown(s, u, e)
  <2> DEFINE v == Emit(s, e)
  <2>1. v \in Assembler /\ u = [v EXCEPT !.next = s.next + 1] /\ s.next + 1 \in Nat
    BY <1>1, <1>2, <1>3
  <2>2. SameFields(s, v) /\ v.out = Append(s.out, e)
    BY <1>2 DEF Grown
  <2> HIDE DEF v
  <2>3. u \in Assembler
    BY <2>1 DEF Assembler
  <2>4. SameFields(v, u) /\ u.next = s.next + 1 /\ u.out = v.out
    BY <2>1 DEF SameFields, SameMarks, Assembler
  <2>5. QED BY <1>1, <2>2, <2>3, <2>4 DEF SameFields, SameMarks, Grown
<1>5. Ordered(u)
  <2> DEFINE n == Len(s.out)
  <2>1. /\ n \in Nat /\ DOMAIN s.out = 1..n /\ DOMAIN u.out = 1..(n + 1)
        /\ \A i \in 1..n : u.out[i] = s.out[i]
        /\ u.out[n + 1] = e
    BY <1>4, GrownFacts
  <2>a. /\ \A i, j \in 1..n :
             s.out[i].type = "added" /\ s.out[j].type = "added" /\ i < j
               => s.out[i].ix < s.out[j].ix
        /\ \A i \in 1..n : s.out[i].type = "added" => s.out[i].ix \in 0..(s.next - 1)
    BY <2>1 DEF Good, Core, Ordered
  <2> HIDE DEF n
  <2>2. \A i, j \in DOMAIN u.out :
          u.out[i].type = "added" /\ u.out[j].type = "added" /\ i < j
            => u.out[i].ix < u.out[j].ix
    <3> SUFFICES ASSUME NEW i \in 1..(n + 1), NEW j \in 1..(n + 1),
                        u.out[i].type = "added", u.out[j].type = "added", i < j
                 PROVE  u.out[i].ix < u.out[j].ix
      BY <2>1
    <3>1. i \in 1..n /\ (j \in 1..n \/ j = n + 1)
      BY <2>1
    <3>2. CASE j \in 1..n
      BY <2>1, <2>a, <3>1, <3>2
    <3>3. CASE j = n + 1
      <4>1. u.out[j].ix = s.next /\ u.out[i] = s.out[i]
        BY <1>1, <2>1, <3>1, <3>3
      <4>2. s.out[i].ix \in 0..(s.next - 1)
        BY <2>a, <3>1, <4>1
      <4>3. QED BY <1>1, <4>1, <4>2
    <3>4. QED BY <3>1, <3>2, <3>3
  <2>3. \A i \in DOMAIN u.out : u.out[i].type = "added" => u.out[i].ix \in 0..(u.next - 1)
    <3> SUFFICES ASSUME NEW i \in 1..(n + 1), u.out[i].type = "added"
                 PROVE  u.out[i].ix \in 0..(u.next - 1)
      BY <2>1
    <3>1. CASE i \in 1..n
      <4>1. u.out[i].ix \in 0..(s.next - 1)
        BY <2>1, <2>a, <3>1
      <4>2. u.next = s.next + 1
        BY <1>4
      <4>3. QED BY <1>1, <4>1, <4>2
    <3>2. CASE i = n + 1
      <4>1. u.out[i].ix = s.next /\ u.next = s.next + 1
        BY <1>1, <1>4, <2>1, <3>2
      <4>2. QED BY <1>1, <4>1
    <3>3. QED BY <2>1, <3>1, <3>2
  <2>4. \A ix \in 0..(u.next - 1) : \E i \in DOMAIN u.out :
          u.out[i].type = "added" /\ u.out[i].ix = ix
    <3> SUFFICES ASSUME NEW ix \in 0..(u.next - 1)
                 PROVE  \E i \in DOMAIN u.out : u.out[i].type = "added" /\ u.out[i].ix = ix
      OBVIOUS
    <3>1. CASE ix = s.next
      BY <1>1, <1>4, <3>1, GrownFacts
    <3>2. CASE ix \in 0..(s.next - 1)
      BY <1>4, <3>2, GrownFacts DEF Good, Core, Ordered
    <3>3. QED BY <1>1, <1>4, <3>1, <3>2
  <2>5. QED BY <2>2, <2>3, <2>4 DEF Ordered
<1>6. /\ \A ix, it : Known(s, ix, it) => Known(u, ix, it)
      /\ \A ix : NotDone(s, ix) => NotDone(u, ix)
  BY <1>1, <1>4, GrownFacts
<1>7. Announced(u) /\ DoneOnce(u)
  BY <1>1, <1>4, GrownAnnounced, GrownDoneOnce DEF Good, Core
<1>8. ReasoningAgrees(u) /\ TextAgrees(u) /\ CallsAgree(u)
  <2>1. ReasoningAgrees(u)
    BY <1>4, <1>6 DEF Good, Core, ReasoningAgrees, SameFields, SameMarks
  <2>2. TextAgrees(u)
    BY <1>4, <1>6 DEF Good, Core, TextAgrees, SameFields, SameMarks
  <2>3. CallsAgree(u)
    BY <1>4, <1>6 DEF Good, Core, CallsAgree, SameFields, SameMarks
  <2>4. QED BY <2>1, <2>2, <2>3
<1>9. Unfinished(u)
  BY <1>1, <1>4, GrownFacts DEF Good, Unfinished, Terminals, SameFields, SameMarks
<1>10. Known(u, s.next, item)
  BY <1>1, <1>4, GrownFacts DEF Known
<1>11. NotDone(u, s.next)
  BY <1>6, NextIsNew
<1>12. Leads(s, u) /\ SameFields(s, u)
  BY <1>4, <1>5, <1>7, <1>8, <1>9 DEF Leads, Good, Core, SameFields, SameMarks
<1>13. QED BY <1>6, <1>10, <1>11, <1>12 DEF u

(* An index stands for one item. *)
LEMMA KnownItem ==
  ASSUME NEW s, Good(s), NEW ix, NEW item, NEW other, Known(s, ix, item), Known(s, ix, other)
  PROVE  item = other
<1>1. PICK i \in DOMAIN s.out :
        s.out[i].type = "added" /\ s.out[i].ix = ix /\ s.out[i].item = item
  BY DEF Known
<1>2. PICK j \in DOMAIN s.out :
        s.out[j].type = "added" /\ s.out[j].ix = ix /\ s.out[j].item = other
  BY DEF Known
<1>3. s.next \in Nat /\ DOMAIN s.out = 1..Len(s.out) /\ Len(s.out) \in Nat
  BY OutIsSeq DEF Good, Assembler
<1>4. ix \in 0..(s.next - 1)
  BY <1>1 DEF Good, Core, Ordered
<1>5. ~(i < j) /\ ~(j < i)
  BY <1>1, <1>2, <1>3, <1>4 DEF Good, Core, Ordered
<1>6. i = j
  BY <1>3, <1>5
<1>7. QED BY <1>1, <1>2, <1>6

Keeps(s, t) ==
  /\ Leads(s, t) /\ t.calls = s.calls /\ t.bufferText = s.bufferText

LEMMA EmitDeltaKeeps ==
  ASSUME NEW s, Good(s), NEW e \in Events,
         e.type \in {"created", "in_progress", "delta"},
         e.type = "delta" => Known(s, e.ix, e.item)
  PROVE  Keeps(s, Emit(s, e)) /\ SameFields(s, Emit(s, e))
BY EmitDelta, EmitFields DEF Keeps, SameFields, SameMarks, Good

LEMMA EmitDone ==
  ASSUME NEW s, NEW u \in Assembler, NEW e, Good(s), Grown(s, u, e),
         e.type = "done", Known(s, e.ix, e.item), NotDone(s, e.ix),
         u.next = s.next, u.terminal = s.terminal, u.finish = s.finish,
         u.reasoningIx = s.reasoningIx, u.textIx = s.textIx, u.calls = s.calls,
         s.reasoningIx # None /\ ~u.reasoningDone => ~s.reasoningDone /\ e.ix # s.reasoningIx,
         s.textIx # None /\ ~u.textDone => ~s.textDone /\ e.ix # s.textIx,
         \A k \in Indices : s.calls[k].added /\ ~s.calls[k].done => s.calls[k].ix # e.ix
  PROVE  Leads(s, u)
<1>1. Ordered(u) /\ Announced(u) /\ DoneOnce(u)
  BY GrownOrdered, GrownAnnounced, GrownDoneOnce DEF Good, Core
<1>2. /\ \A ix, item : Known(s, ix, item) => Known(u, ix, item)
      /\ \A ix : NotDone(s, ix) /\ e.ix # ix => NotDone(u, ix)
  BY GrownFacts
<1>3. ReasoningAgrees(u)
  BY <1>2 DEF Good, Core, ReasoningAgrees
<1>4. TextAgrees(u)
  BY <1>2 DEF Good, Core, TextAgrees
<1>5. CallsAgree(u)
  BY <1>2 DEF Good, Core, CallsAgree
<1>6. Unfinished(u)
  BY GrownFacts DEF Good, Unfinished, Terminals
<1>7. QED BY <1>1, <1>3, <1>4, <1>5, <1>6 DEF Good, Core, Leads

(* Giving the reasoning, or the message, its index. *)
LEMMA SetReasoningIx ==
  ASSUME NEW s, Good(s), NEW n \in Nat, Known(s, n, ReasoningItem), NotDone(s, n)
  PROVE  Keeps(s, [s EXCEPT !.reasoningIx = n])
<1> DEFINE u == [s EXCEPT !.reasoningIx = n]
<1>1. u \in Assembler /\ u.reasoningIx = n
  BY DEF Good, Assembler
<1>2. /\ u.out = s.out /\ u.next = s.next /\ u.terminal = s.terminal
      /\ u.finish = s.finish /\ u.reasoningDone = s.reasoningDone
      /\ u.textIx = s.textIx /\ u.textDone = s.textDone /\ u.calls = s.calls
      /\ u.bufferText = s.bufferText
  BY DEF Good, Assembler
<1> HIDE DEF u
<1>3. Ordered(u) /\ Announced(u) /\ DoneOnce(u) /\ Unfinished(u)
  BY <1>2 DEF Good, Core, Ordered, Announced, DoneOnce, Unfinished
<1>4. ReasoningAgrees(u) /\ TextAgrees(u)
  BY <1>1, <1>2 DEF Good, Core, ReasoningAgrees, TextAgrees, Known, NotDone
<1>5. CallsAgree(u)
  BY <1>2 DEF Good, Core, CallsAgree, Known, NotDone
<1>6. QED BY <1>1, <1>2, <1>3, <1>4, <1>5 DEF Good, Core, Leads, Keeps, u

LEMMA SetTextIx ==
  ASSUME NEW s, Good(s), NEW n \in Nat, Known(s, n, MessageItem), NotDone(s, n)
  PROVE  Keeps(s, [s EXCEPT !.textIx = n])
<1> DEFINE u == [s EXCEPT !.textIx = n]
<1>1. u \in Assembler /\ u.textIx = n
  BY DEF Good, Assembler
<1>2. /\ u.out = s.out /\ u.next = s.next /\ u.terminal = s.terminal
      /\ u.finish = s.finish /\ u.reasoningDone = s.reasoningDone
      /\ u.reasoningIx = s.reasoningIx /\ u.textDone = s.textDone /\ u.calls = s.calls
      /\ u.bufferText = s.bufferText
  BY DEF Good, Assembler
<1> HIDE DEF u
<1>3. Ordered(u) /\ Announced(u) /\ DoneOnce(u) /\ Unfinished(u)
  BY <1>2 DEF Good, Core, Ordered, Announced, DoneOnce, Unfinished
<1>4. ReasoningAgrees(u) /\ TextAgrees(u)
  BY <1>1, <1>2 DEF Good, Core, ReasoningAgrees, TextAgrees, Known, NotDone
<1>5. CallsAgree(u)
  BY <1>2 DEF Good, Core, CallsAgree, Known, NotDone
<1>6. QED BY <1>1, <1>2, <1>3, <1>4, <1>5 DEF Good, Core, Leads, Keeps, u

(* An assignment to the texts, the think state or the output. *)
LEMMA AssignKeeps ==
  ASSUME NEW s, NEW u \in Assembler, Good(s), SameMarks(s, u),
         u.out = s.out, u.next = s.next
  PROVE  Keeps(s, u)
BY Assign DEF Keeps, SameMarks

------------------------------------------------------------------------------
(* The methods about the reasoning and the message.                        *)

LEMMA PushReasoningDeltaKeeps ==
  ASSUME NEW s, Good(s), NEW delta \in Text
  PROVE  Keeps(s, PushReasoningDelta(s, delta))
<1> DEFINE t == IF s.reasoningIx = None
                THEN [AddItem(s, ReasoningItem) EXCEPT !.reasoningIx = s.next]
                ELSE s
           u == [t EXCEPT !.reasoning = @ \o delta]
           e == Event("delta", t.reasoningIx, ReasoningItem, delta)
<1>1. Keeps(s, t) /\ t.reasoningIx # None
  <2>1. CASE s.reasoningIx = None
    <3> DEFINE a == AddItem(s, ReasoningItem)
    <3>1. /\ Leads(s, a) /\ SameFields(s, a)
          /\ Known(a, s.next, ReasoningItem) /\ NotDone(a, s.next)
      BY AddItemLeads, ItemTypes
    <3>2. Good(a) /\ s.next \in Nat
      BY <3>1 DEF Leads, Good, Assembler
    <3> HIDE DEF a
    <3>3. Keeps(a, [a EXCEPT !.reasoningIx = s.next])
      BY <3>1, <3>2, SetReasoningIx
    <3>4. t = [a EXCEPT !.reasoningIx = s.next] /\ t.reasoningIx = s.next
      BY <2>1, <3>2 DEF a, Good, Assembler
    <3> HIDE DEF t
    <3>5. QED BY <3>1, <3>2, <3>3, <3>4 DEF Keeps, Leads, SameFields, SameMarks, None
  <2>2. CASE s.reasoningIx # None
    BY <2>2 DEF Keeps, Leads
  <2>3. QED BY <2>1, <2>2
<1>2. Good(t) /\ t \in Assembler
  BY <1>1 DEF Keeps, Leads, Good
<1> HIDE DEF t
<1>3. Keeps(t, u) /\ Known(u, t.reasoningIx, ReasoningItem)
  <2>1. t.reasoning \o delta \in Text
    BY <1>2, ConcatIsText DEF Assembler
  <2>2. u \in Assembler /\ SameMarks(t, u) /\ u.out = t.out /\ u.next = t.next
    BY <1>2, <2>1 DEF Assembler, SameMarks
  <2>3. Known(t, t.reasoningIx, ReasoningItem)
    BY <1>1, <1>2 DEF Good, Core, ReasoningAgrees
  <2>4. QED BY <1>2, <2>2, <2>3, AssignKeeps DEF Known
<1>4. e \in Events /\ e.type = "delta" /\ e.ix = t.reasoningIx /\ e.item = ReasoningItem
  <2>1. t.reasoningIx \in Nat \cup {None} /\ ReasoningItem \in Item
    BY <1>2, ItemTypes DEF Assembler
  <2>2. QED BY <2>1, DeltaTyped
<1>5. Good(u)
  BY <1>3 DEF Keeps, Leads
<1> HIDE DEF e, u
<1>6. Keeps(u, Emit(u, e))
  BY <1>3, <1>4, <1>5, EmitDeltaKeeps
<1>7. PushReasoningDelta(s, delta) = Emit(u, e)
  BY DEF PushReasoningDelta, t, u, e
<1>8. QED BY <1>1, <1>3, <1>6, <1>7 DEF Keeps, Leads

LEMMA FinishReasoningItemKeeps ==
  ASSUME NEW s, Good(s)
  PROVE  LET u == FinishReasoningItem(s) IN
         /\ Keeps(s, u) /\ u.content = s.content
         /\ u.textIx = s.textIx /\ u.textDone = s.textDone
<1>1. CASE s.reasoningIx = None \/ s.reasoningDone
  BY <1>1 DEF FinishReasoningItem, Keeps, Leads
<1>2. CASE s.reasoningIx # None /\ ~s.reasoningDone
  <2> DEFINE e == Event("done", s.reasoningIx, ReasoningItem, s.reasoning)
             v == Emit(s, e)
             u == [v EXCEPT !.reasoningDone = TRUE]
  <2>0. s \in Assembler
    BY DEF Good
  <2>1. e \in Events /\ e.type = "done" /\ e.ix = s.reasoningIx /\ e.item = ReasoningItem
    <3>1. s.reasoningIx \in Nat \cup {None} /\ ReasoningItem \in Item /\ s.reasoning \in Text
      BY <2>0, ItemTypes DEF Assembler
    <3>2. QED BY <3>1 DEF Event, Events, EventTypes
  <2> HIDE DEF e
  <2>2. v \in Assembler /\ SameFields(s, v) /\ v.next = s.next /\ Grown(s, v, e)
    BY <2>0, <2>1, EmitFields
  <2> HIDE DEF v
  <2>3. u \in Assembler /\ u.reasoningDone
    BY <2>2 DEF Assembler
  <2>4. /\ u.out = v.out /\ u.next = v.next /\ u.terminal = v.terminal
        /\ u.finish = v.finish /\ u.reasoningIx = v.reasoningIx
        /\ u.textIx = v.textIx /\ u.textDone = v.textDone /\ u.calls = v.calls
        /\ u.bufferText = v.bufferText /\ u.content = v.content
    BY <2>2 DEF Assembler
  <2> HIDE DEF u
  <2>5. Grown(s, u, e)
    BY <2>2, <2>4 DEF Grown
  <2>6. Known(s, s.reasoningIx, ReasoningItem) /\ NotDone(s, s.reasoningIx)
    BY <1>2 DEF Good, Core, ReasoningAgrees
  <2>7. s.textIx # None => s.textIx # s.reasoningIx
    BY <2>6, KnownItem, ItemTypes DEF Good, Core, TextAgrees
  <2>8. \A k \in Indices : s.calls[k].added => s.calls[k].ix # s.reasoningIx
    <3> SUFFICES ASSUME NEW k \in Indices, s.calls[k].added
                 PROVE  s.calls[k].ix # s.reasoningIx
      OBVIOUS
    <3>1. Known(s, s.calls[k].ix, ToolItem(s.calls[k])) /\ s.calls[k] \in Call
      BY DEF Good, Core, CallsAgree, Assembler
    <3>2. QED BY <2>6, <3>1, KnownItem, ItemTypes
  <2>9. Leads(s, u)
    <3>1. /\ u.next = s.next /\ u.terminal = s.terminal /\ u.finish = s.finish
          /\ u.reasoningIx = s.reasoningIx /\ u.textIx = s.textIx /\ u.calls = s.calls
          /\ u.textDone = s.textDone
      BY <2>2, <2>4 DEF SameFields, SameMarks
    <3>2. QED BY <2>1, <2>3, <2>5, <2>6, <2>7, <2>8, <3>1, EmitDone
  <2>10. FinishReasoningItem(s) = u
    BY <1>2 DEF FinishReasoningItem, e, u, v
  <2>11. QED BY <2>2, <2>4, <2>9, <2>10 DEF Keeps, SameFields, SameMarks
<1>3. QED
  <2>1. s.reasoningDone \in BOOLEAN
    BY DEF Good, Assembler
  <2>2. QED BY <1>1, <1>2, <2>1

LEMMA CloseReasoningKeeps ==
  ASSUME NEW s, Good(s)
  PROVE  LET u == CloseReasoning(s) IN
         /\ Keeps(s, u) /\ u.content = s.content
         /\ u.textIx = s.textIx /\ u.textDone = s.textDone
BY FinishReasoningItemKeeps DEF CloseReasoning, Keeps, Leads

LEMMA EnsureTextStartedKeeps ==
  ASSUME NEW s, Good(s)
  PROVE  LET u == EnsureTextStarted(s) IN
         /\ Keeps(s, u) /\ u.content = s.content
         /\ u.textIx # None /\ u.textDone = s.textDone
<1>1. CASE s.textIx # None
  BY <1>1 DEF EnsureTextStarted, Keeps, Leads
<1>2. CASE s.textIx = None
  <2> DEFINE t == CloseReasoning(s)
             a == AddItem(t, MessageItem)
             u == [a EXCEPT !.textIx = t.next]
  <2>1. /\ Keeps(s, t) /\ t.content = s.content
        /\ t.textIx = s.textIx /\ t.textDone = s.textDone
    BY CloseReasoningKeeps
  <2>2. EnsureTextStarted(s) = u
    BY <1>2 DEF EnsureTextStarted
  <2> HIDE DEF t
  <2>3. Good(t) /\ t.next \in Nat
    BY <2>1 DEF Keeps, Leads, Good, Assembler
  <2>4. /\ Leads(t, a) /\ SameFields(t, a)
        /\ Known(a, t.next, MessageItem) /\ NotDone(a, t.next)
    BY <2>3, AddItemLeads, ItemTypes
  <2> HIDE DEF a
  <2>5. Good(a) /\ a \in Assembler
    BY <2>4 DEF Leads, Good
  <2>6. Keeps(a, u)
    BY <2>3, <2>4, <2>5, SetTextIx
  <2>7. u.textIx = t.next /\ u.content = a.content /\ u.textDone = a.textDone
    BY <2>5 DEF Assembler
  <2> HIDE DEF u
  <2>8. Keeps(s, u)
    BY <2>1, <2>4, <2>6 DEF Keeps, Leads, SameFields, SameMarks
  <2>9. u.content = s.content /\ u.textDone = s.textDone /\ u.textIx # None
    BY <2>1, <2>3, <2>4, <2>7 DEF SameFields, SameMarks, None
  <2>10. QED BY <2>2, <2>8, <2>9
<1>3. QED BY <1>1, <1>2

(* A delta of the message, whose index is set. *)
LEMMA MessageDeltaKeeps ==
  ASSUME NEW s, Good(s), s.textIx # None, NEW text \in Text
  PROVE  LET u == Emit(s, Event("delta", s.textIx, MessageItem, text)) IN
         /\ Keeps(s, u) /\ SameFields(s, u)
<1> DEFINE e == Event("delta", s.textIx, MessageItem, text)
<1>1. s.textIx \in Nat \cup {None} /\ MessageItem \in Item
  BY ItemTypes DEF Good, Assembler
<1>2. e \in Events /\ e.type = "delta" /\ e.ix = s.textIx /\ e.item = MessageItem
  BY <1>1, DeltaTyped
<1> HIDE DEF e
<1>3. Known(s, s.textIx, MessageItem)
  BY DEF Good, Core, TextAgrees
<1>4. Keeps(s, Emit(s, e)) /\ SameFields(s, Emit(s, e))
  BY <1>2, <1>3, EmitDeltaKeeps
<1>5. QED BY <1>4 DEF e

LEMMA PushTextDeltaKeeps ==
  ASSUME NEW s, Good(s), NEW text \in Text
  PROVE  Keeps(s, PushTextDelta(s, text))
<1> DEFINE Grow(t) == [t EXCEPT !.content = @ \o text]
<1>1. ASSUME NEW t, Good(t)
      PROVE  Keeps(t, Grow(t)) /\ Grow(t).textIx = t.textIx
  <2>1. t \in Assembler /\ t.content \o text \in Text
    BY <1>1, ConcatIsText DEF Good, Assembler
  <2>2. /\ Grow(t) \in Assembler /\ SameMarks(t, Grow(t))
        /\ Grow(t).out = t.out /\ Grow(t).next = t.next
    BY <2>1 DEF Assembler, SameMarks
  <2> HIDE DEF Grow
  <2>3. QED BY <1>1, <2>2, AssignKeeps DEF SameMarks
<1>2. CASE s.bufferText
  BY <1>1, <1>2 DEF PushTextDelta
<1>3. CASE ~s.bufferText
  <2> DEFINE t == EnsureTextStarted(s)
  <2>1. PushTextDelta(s, text) = Emit(Grow(t), Event("delta", t.textIx, MessageItem, text))
    BY <1>3 DEF PushTextDelta
  <2>2. Keeps(s, t) /\ t.textIx # None
    BY EnsureTextStartedKeeps
  <2> HIDE DEF t, Grow
  <2>3. Good(t)
    BY <2>2 DEF Keeps, Leads
  <2>4. Keeps(t, Grow(t)) /\ Grow(t).textIx = t.textIx
    BY <1>1, <2>3
  <2>5. Good(Grow(t))
    BY <2>4 DEF Keeps, Leads
  <2>6. Keeps(Grow(t), PushTextDelta(s, text))
    BY <2>1, <2>2, <2>4, <2>5, MessageDeltaKeeps
  <2>7. QED BY <2>2, <2>4, <2>6 DEF Keeps, Leads
<1>4. QED BY <1>2, <1>3

LEMMA FinishTextItemKeeps ==
  ASSUME NEW s, Good(s)
  PROVE  Keeps(s, FinishTextItem(s)) /\ FinishTextItem(s).content = s.content
<1>1. CASE s.content = <<>> \/ s.textDone
  BY <1>1 DEF FinishTextItem, Keeps, Leads
<1>2. CASE s.content # <<>> /\ ~s.textDone
  <2> DEFINE t == EnsureTextStarted(s)
             u == IF t.bufferText
                  THEN Emit(t, Event("delta", t.textIx, MessageItem, t.content)) ELSE t
             e == Event("done", u.textIx, MessageItem, u.content)
             v == Emit(u, e)
             w == [v EXCEPT !.textDone = TRUE]
  <2>1. FinishTextItem(s) = w
    BY <1>2 DEF FinishTextItem
  <2>2. /\ Keeps(s, t) /\ t.content = s.content
        /\ t.textIx # None /\ t.textDone = s.textDone
    BY EnsureTextStartedKeeps
  <2> HIDE DEF t
  <2>3. Good(t) /\ t.content \in Text
    BY <2>2 DEF Keeps, Leads, Good, Assembler
  <2>4. Keeps(t, u) /\ SameFields(t, u)
    <3>1. CASE t.bufferText
      BY <2>2, <2>3, <3>1, MessageDeltaKeeps
    <3>2. CASE ~t.bufferText
      BY <2>3, <3>2 DEF Keeps, Leads, SameFields, SameMarks
    <3>3. QED BY <3>1, <3>2
  <2> HIDE DEF u
  <2>5. Good(u) /\ u \in Assembler /\ u.textIx # None /\ ~u.textDone /\ u.content = s.content
    BY <1>2, <2>2, <2>4 DEF Keeps, Leads, Good, SameFields, SameMarks
  <2>6. e \in Events /\ e.type = "done" /\ e.ix = u.textIx /\ e.item = MessageItem
    <3>1. u.textIx \in Nat \cup {None} /\ MessageItem \in Item /\ u.content \in Text
      BY <2>5, ItemTypes DEF Assembler
    <3>2. QED BY <3>1 DEF Event, Events, EventTypes
  <2> HIDE DEF e
  <2>7. v \in Assembler /\ SameFields(u, v) /\ v.next = u.next /\ Grown(u, v, e)
    BY <2>5, <2>6, EmitFields
  <2> HIDE DEF v
  <2>8. w \in Assembler /\ w.textDone
    BY <2>7 DEF Assembler
  <2>9. /\ w.out = v.out /\ w.next = v.next /\ w.terminal = v.terminal
        /\ w.finish = v.finish /\ w.reasoningIx = v.reasoningIx
        /\ w.textIx = v.textIx /\ w.reasoningDone = v.reasoningDone /\ w.calls = v.calls
        /\ w.bufferText = v.bufferText /\ w.content = v.content
    BY <2>7 DEF Assembler
  <2> HIDE DEF w
  <2>10. Grown(u, w, e)
    BY <2>7, <2>9 DEF Grown
  <2>11. Known(u, u.textIx, MessageItem) /\ NotDone(u, u.textIx)
    BY <2>5 DEF Good, Core, TextAgrees
  <2>12. u.reasoningIx # None => u.reasoningIx # u.textIx
    BY <2>5, <2>11, KnownItem, ItemTypes DEF Good, Core, ReasoningAgrees
  <2>13. \A k \in Indices : u.calls[k].added => u.calls[k].ix # u.textIx
    <3> SUFFICES ASSUME NEW k \in Indices, u.calls[k].added
                 PROVE  u.calls[k].ix # u.textIx
      OBVIOUS
    <3>1. Known(u, u.calls[k].ix, ToolItem(u.calls[k])) /\ u.calls[k] \in Call
      BY <2>5 DEF Good, Core, CallsAgree, Assembler
    <3>2. QED BY <2>5, <2>11, <3>1, KnownItem, ItemTypes
  <2>14. Leads(u, w)
    <3>1. /\ w.next = u.next /\ w.terminal = u.terminal /\ w.finish = u.finish
          /\ w.reasoningIx = u.reasoningIx /\ w.textIx = u.textIx /\ w.calls = u.calls
          /\ w.reasoningDone = u.reasoningDone
      BY <2>7, <2>9 DEF SameFields, SameMarks
    <3>2. QED BY <2>5, <2>6, <2>8, <2>10, <2>11, <2>12, <2>13, <3>1, EmitDone
  <2>15. Keeps(s, w) /\ w.content = s.content
    BY <2>2, <2>4, <2>5, <2>7, <2>9, <2>14 DEF Keeps, Leads, SameFields, SameMarks
  <2>16. QED BY <2>1, <2>15
<1>3. QED
  <2>1. s.textDone \in BOOLEAN
    BY DEF Good, Assembler
  <2>2. QED BY <1>1, <1>2, <2>1

------------------------------------------------------------------------------
(* The methods about the leading <think> block.                            *)

LEMMA KeepsTrans ==
  ASSUME NEW s, NEW t, NEW u, Keeps(s, t), Keeps(t, u)
  PROVE  Keeps(s, u)
BY DEF Keeps, Leads

LEMMA KeepsGood ==
  ASSUME NEW s, NEW t, Keeps(s, t)
  PROVE  Good(t)
BY DEF Keeps, Leads

LEMMA KeepsSelf == ASSUME NEW s, Good(s) PROVE Keeps(s, s)
BY DEF Keeps, Leads

LEMMA SetThink ==
  ASSUME NEW s, Good(s), NEW text \in Text, NEW state \in {"Detecting", "InThink", "Done"}
  PROVE  /\ Keeps(s, [s EXCEPT !.buffer = text])
         /\ Keeps(s, [s EXCEPT !.buffer = text, !.think = state])
         /\ Keeps(s, [s EXCEPT !.think = state])
<1>0. s \in Assembler
  BY DEF Good
<1>1. Keeps(s, [s EXCEPT !.buffer = text])
  <2> DEFINE u == [s EXCEPT !.buffer = text]
  <2>1. u \in Assembler /\ SameMarks(s, u) /\ u.out = s.out /\ u.next = s.next
    BY <1>0 DEF Assembler, SameMarks
  <2> HIDE DEF u
  <2>2. Keeps(s, u)
    BY <2>1, AssignKeeps
  <2>3. QED BY <2>2 DEF u
<1>2. Keeps(s, [s EXCEPT !.buffer = text, !.think = state])
  <2> DEFINE u == [s EXCEPT !.buffer = text, !.think = state]
  <2>1. u \in Assembler /\ SameMarks(s, u) /\ u.out = s.out /\ u.next = s.next
    BY <1>0 DEF Assembler, SameMarks
  <2> HIDE DEF u
  <2>2. Keeps(s, u)
    BY <2>1, AssignKeeps
  <2>3. QED BY <2>2 DEF u
<1>3. Keeps(s, [s EXCEPT !.think = state])
  <2> DEFINE u == [s EXCEPT !.think = state]
  <2>1. u \in Assembler /\ SameMarks(s, u) /\ u.out = s.out /\ u.next = s.next
    BY <1>0 DEF Assembler, SameMarks
  <2> HIDE DEF u
  <2>2. Keeps(s, u)
    BY <2>1, AssignKeeps
  <2>3. QED BY <2>2 DEF u
<1>4. QED BY <1>1, <1>2, <1>3

LEMMA PushPartsKeeps ==
  ASSUME NEW s, Good(s), NEW parts \in Parts
  PROVE  Keeps(s, PushParts(s, parts))
<1> DEFINE t == IF parts.reasoning = <<>> THEN s ELSE PushReasoningDelta(s, parts.reasoning)
           u == [t EXCEPT !.buffer = <<>>, !.think = "Done"]
<1>1. parts.reasoning \in Text /\ parts.answer \in Text /\ <<>> \in Text
  BY DEF Parts, Text
<1>2. Keeps(s, t)
  BY <1>1, PushReasoningDeltaKeeps, KeepsSelf
<1>3. PushParts(s, parts) = IF parts.answer = <<>> THEN u ELSE PushTextDelta(u, parts.answer)
  BY DEF PushParts
<1> HIDE DEF t
<1>4. Keeps(t, u)
  BY <1>1, <1>2, KeepsGood, SetThink
<1> HIDE DEF u
<1>5. Keeps(s, u)
  BY <1>2, <1>4, KeepsTrans
<1>6. Keeps(u, PushTextDelta(u, parts.answer))
  BY <1>1, <1>5, KeepsGood, PushTextDeltaKeeps
<1>7. Keeps(s, PushTextDelta(u, parts.answer))
  BY <1>5, <1>6, KeepsTrans
<1>8. QED BY <1>3, <1>5, <1>7

LEMMA AcceptInThinkContentKeeps ==
  ASSUME NEW s, Good(s), NEW text \in Text
  PROVE  Keeps(s, AcceptInThinkContent(s, text))
<1> DEFINE joined == s.buffer \o text
           split == SplitIncompleteThinkCloseSuffix(joined)
           t == IF split.emit = <<>> THEN s ELSE PushReasoningDelta(s, split.emit)
<1>1. joined \in Text
  BY ConcatIsText DEF Good, Assembler
<1>2. AcceptInThinkContent(s, text) =
        IF HasClose(joined)
        THEN PushParts(s, SplitAtThinkClose(joined)) ELSE [t EXCEPT !.buffer = split.keep]
  BY DEF AcceptInThinkContent
<1> HIDE DEF joined
<1>3. split.emit \in Text /\ split.keep \in Text
  BY <1>1, SplitSuffixIsText
<1> HIDE DEF split
<1>4. Keeps(s, t)
  BY <1>3, PushReasoningDeltaKeeps, KeepsSelf
<1> HIDE DEF t
<1>5. Keeps(t, [t EXCEPT !.buffer = split.keep])
  BY <1>3, <1>4, KeepsGood, SetThink
<1>6. Keeps(s, [t EXCEPT !.buffer = split.keep])
  BY <1>4, <1>5, KeepsTrans
<1>7. CASE HasClose(joined)
  BY <1>1, <1>2, <1>7, SplitAtThinkCloseIsParts, PushPartsKeeps
<1>8. CASE ~HasClose(joined)
  BY <1>2, <1>6, <1>8
<1>9. QED BY <1>7, <1>8

LEMMA DetectLeadingThinkKeeps ==
  ASSUME NEW s, Good(s), NEW text \in Text
  PROVE  Keeps(s, DetectLeadingThink(s, text))
<1> DEFINE joined == s.buffer \o text
           inside == StripLeadingThinkOpenTag(joined)
           opened == [s EXCEPT !.buffer = <<>>, !.think = "InThink"]
           closed == [s EXCEPT !.buffer = <<>>, !.think = "Done"]
<1>1. joined \in Text /\ <<>> \in Text
  BY ConcatIsText DEF Good, Assembler, Text
<1>2. DetectLeadingThink(s, text) =
        IF HasLeadingThinkBlock(joined)
        THEN PushParts(s, SplitLeadingThinkBlock(joined))
        ELSE IF HasLeadingOpen(joined)
        THEN IF inside = <<>> THEN opened ELSE AcceptInThinkContent(opened, inside)
        ELSE IF IsLeadingThinkPrefix(joined)
        THEN [s EXCEPT !.buffer = joined]
        ELSE PushTextDelta(closed, joined)
  BY DEF DetectLeadingThink
<1> HIDE DEF joined
<1>3. inside \in Text
  BY <1>1, AfterLeadingOpenIsText, TrimIsText DEF StripLeadingThinkOpenTag
<1> HIDE DEF inside
<1>4. Keeps(s, opened) /\ Keeps(s, closed) /\ Keeps(s, [s EXCEPT !.buffer = joined])
  BY <1>1, SetThink
<1> HIDE DEF opened, closed
<1>5. Keeps(s, AcceptInThinkContent(opened, inside))
  BY <1>3, <1>4, KeepsGood, KeepsTrans, AcceptInThinkContentKeeps
<1>6. Keeps(s, PushTextDelta(closed, joined))
  BY <1>1, <1>4, KeepsGood, KeepsTrans, PushTextDeltaKeeps
<1>7. HasLeadingThinkBlock(joined) => Keeps(s, PushParts(s, SplitLeadingThinkBlock(joined)))
  BY <1>1, SplitLeadingThinkBlockIsParts, PushPartsKeeps
<1>8. QED BY <1>2, <1>4, <1>5, <1>6, <1>7

LEMMA AcceptContentDeltaKeeps ==
  ASSUME NEW s, Good(s), NEW text \in Text
  PROVE  Keeps(s, AcceptContentDelta(s, text))
<1>1. s.think \in {"Detecting", "InThink", "Done"}
  BY DEF Good, Assembler
<1>2. QED
  BY <1>1, PushTextDeltaKeeps, DetectLeadingThinkKeeps, AcceptInThinkContentKeeps
  DEF AcceptContentDelta

LEMMA FlushPendingThinkBufferKeeps ==
  ASSUME NEW s, Good(s)
  PROVE  /\ Keeps(s, FlushPendingThinkBuffer(s))
         /\ Keeps(s, DisableLeadingThinkDetection(s))
<1> DEFINE emptied == [s EXCEPT !.buffer = <<>>, !.think = "Done"]
           t == FlushPendingThinkBuffer(s)
<1>1. /\ s.think \in {"Detecting", "InThink", "Done"}
      /\ s.buffer \in Text /\ <<>> \in Text
  BY DEF Good, Assembler, Text
<1>2. FlushPendingThinkBuffer(s) =
        CASE s.think = "Done" -> s
          [] s.think = "Detecting" ->
               IF s.buffer = <<>> THEN s ELSE PushTextDelta(emptied, s.buffer)
          [] s.think = "InThink" ->
               IF s.buffer = <<>> THEN emptied ELSE PushReasoningDelta(emptied, s.buffer)
  BY DEF FlushPendingThinkBuffer
<1>3. Keeps(s, emptied)
  BY <1>1, SetThink
<1> HIDE DEF emptied
<1>4. Keeps(s, PushTextDelta(emptied, s.buffer))
  BY <1>1, <1>3, KeepsGood, KeepsTrans, PushTextDeltaKeeps
<1>5. Keeps(s, PushReasoningDelta(emptied, s.buffer))
  BY <1>1, <1>3, KeepsGood, KeepsTrans, PushReasoningDeltaKeeps
<1>6. Keeps(s, t)
  BY <1>1, <1>2, <1>3, <1>4, <1>5, KeepsSelf
<1> HIDE DEF t
<1>7. Keeps(t, [t EXCEPT !.think = "Done"])
  BY <1>6, KeepsGood, SetThink, <1>1
<1>8. Keeps(s, [t EXCEPT !.think = "Done"])
  BY <1>6, <1>7, KeepsTrans
<1>9. QED BY <1>6, <1>8 DEF t, DisableLeadingThinkDetection

------------------------------------------------------------------------------
(* The methods about the tool calls.                                       *)

LEMMA CallTyped ==
  ASSUME NEW s, Good(s), NEW k \in Indices
  PROVE  /\ s.calls[k] \in Call /\ s \in Assembler /\ ToolItem(s.calls[k]) \in Item
         /\ s.calls[k].ix \in Nat \cup {None} /\ s.calls[k].args \in Text
         /\ s.calls[k].added \in BOOLEAN /\ s.calls[k].done \in BOOLEAN
<1>1. s.calls[k] \in Call /\ s \in Assembler
  BY DEF Good, Assembler
<1>2. QED BY <1>1, ItemTypes DEF Call

LEMMA CallDeltaKeeps ==
  ASSUME NEW s, Good(s), NEW k \in Indices, s.calls[k].added, NEW text \in Text
  PROVE  LET u == Emit(s, Event("delta", s.calls[k].ix, ToolItem(s.calls[k]), text)) IN
         /\ Keeps(s, u) /\ SameFields(s, u)
         /\ \A ix : NotDone(s, ix) => NotDone(u, ix)
<1> DEFINE e == Event("delta", s.calls[k].ix, ToolItem(s.calls[k]), text)
<1>1. /\ s.calls[k].ix \in Nat \cup {None} /\ ToolItem(s.calls[k]) \in Item
      /\ s \in Assembler
  BY CallTyped
<1>2. /\ e \in Events /\ e.type = "delta" /\ e.ix = s.calls[k].ix
      /\ e.item = ToolItem(s.calls[k])
  BY <1>1, DeltaTyped
<1> HIDE DEF e
<1>3. Known(s, s.calls[k].ix, ToolItem(s.calls[k]))
  BY DEF Good, Core, CallsAgree
<1>4. Keeps(s, Emit(s, e)) /\ SameFields(s, Emit(s, e))
  BY <1>2, <1>3, EmitDeltaKeeps
<1>5. Grown(s, Emit(s, e), e)
  BY <1>1, <1>2, EmitFields
<1>6. \A ix : NotDone(s, ix) => NotDone(Emit(s, e), ix)
  BY <1>2, <1>5, GrownFacts
<1>7. QED BY <1>4, <1>6 DEF e

LEMMA EmitToolArgumentsKeeps ==
  ASSUME NEW s, Good(s), NEW k \in Indices, NEW part \in Text
  PROVE  Keeps(s, EmitToolArguments(s, k, part))
<1>1. CASE part = <<>> \/ ~s.calls[k].added \/ IsCustom(s, s.calls[k].name)
             \/ s.calls[k].ix = None
  BY <1>1, KeepsSelf DEF EmitToolArguments
<1>2. CASE ~(part = <<>> \/ ~s.calls[k].added \/ IsCustom(s, s.calls[k].name)
             \/ s.calls[k].ix = None)
  <2>1. s.calls[k].added
    BY <1>2, CallTyped
  <2>2. EmitToolArguments(s, k, part) =
          Emit(s, Event("delta", s.calls[k].ix, ToolItem(s.calls[k]), part))
    BY <1>2 DEF EmitToolArguments
  <2>3. QED BY <2>1, <2>2, CallDeltaKeeps
<1>3. QED BY <1>1, <1>2

(* Announcing a call that has its id and its name. *)
LEMMA StartToolLeads ==
  ASSUME NEW s, Good(s), NEW k \in Indices, ~s.calls[k].added, s.calls[k].id # NoText
  PROVE  LET u == StartTool(s, k) IN
         /\ Leads(s, u) /\ u.bufferText = s.bufferText /\ u.calls[k].added
         /\ u.calls[k].done = s.calls[k].done /\ NotDone(u, u.calls[k].ix)
<1> DEFINE item == ToolItem(s.calls[k])
           a == AddItem(s, item)
           u == [a EXCEPT !.calls[k].ix = s.next, !.calls[k].added = TRUE]
<1>1. StartTool(s, k) = u
  BY DEF StartTool
<1>2. item \in Item /\ s \in Assembler /\ s.next \in Nat
  <2>1. item \in Item /\ s \in Assembler
    BY CallTyped
  <2>2. QED BY <2>1 DEF Assembler
<1>3. /\ Leads(s, a) /\ SameFields(s, a)
      /\ Known(a, s.next, item) /\ NotDone(a, s.next)
      /\ \A ix, it : Known(s, ix, it) => Known(a, ix, it)
  BY <1>2, AddItemLeads
<1> HIDE DEF a
<1>4. Good(a) /\ a \in Assembler /\ a.calls = s.calls
  BY <1>3 DEF Leads, Good, SameFields, SameMarks
<1>5. /\ u \in Assembler
      /\ u.out = a.out /\ u.next = a.next /\ u.terminal = a.terminal
      /\ u.finish = a.finish /\ u.reasoningIx = a.reasoningIx
      /\ u.reasoningDone = a.reasoningDone /\ u.textIx = a.textIx
      /\ u.textDone = a.textDone /\ u.bufferText = a.bufferText
      /\ u.calls = [a.calls EXCEPT ![k].ix = s.next, ![k].added = TRUE]
  <2>1. a.calls \in [Indices -> Call]
    BY <1>4 DEF Assembler
  <2>2. u.calls = [a.calls EXCEPT ![k].ix = s.next, ![k].added = TRUE]
    BY <1>4 DEF Assembler
  <2>3. [a.calls EXCEPT ![k].ix = s.next, ![k].added = TRUE] \in [Indices -> Call]
    BY <1>2, <2>1 DEF Call
  <2>4. QED BY <1>4, <2>2, <2>3 DEF Assembler
<1> HIDE DEF u
<1>6. /\ u.calls[k].ix = s.next /\ u.calls[k].added
      /\ u.calls[k].id = s.calls[k].id /\ u.calls[k].name = s.calls[k].name
      /\ u.calls[k].done = s.calls[k].done
      /\ \A j \in Indices \ {k} : u.calls[j] = s.calls[j]
  <2>1. s.calls \in [Indices -> Call] /\ s.calls[k] \in Call
    BY <1>2 DEF Assembler
  <2>2. u.calls = [s.calls EXCEPT ![k].ix = s.next, ![k].added = TRUE]
    BY <1>4, <1>5
  <2>3. QED BY <2>1, <2>2 DEF Call
<1>7. Ordered(u) /\ Announced(u) /\ DoneOnce(u) /\ Unfinished(u)
  BY <1>4, <1>5 DEF Good, Core, Ordered, Announced, DoneOnce, Unfinished
<1>8. ReasoningAgrees(u) /\ TextAgrees(u)
  BY <1>4, <1>5 DEF Good, Core, ReasoningAgrees, TextAgrees, Known, NotDone
<1>9. /\ \A ix, it : Known(a, ix, it) <=> Known(u, ix, it)
      /\ \A ix : NotDone(a, ix) <=> NotDone(u, ix)
  BY <1>5 DEF Known, NotDone
<1>10. CallsAgree(u)
  <2>1. ToolItem(u.calls[k]) = item
    BY <1>6 DEF ToolItem
  <2>2. \A j \in Indices : s.calls[j].added => s.calls[j].ix # s.next
    BY NextIsNew DEF Good, Core, CallsAgree
  <2>3. \A j \in Indices : j # k => s.calls[j].ix # s.next
    BY <1>2, <2>2 DEF Good, Core, CallsAgree, None
  <2> SUFFICES ASSUME NEW j \in Indices
               PROVE  /\ u.calls[j].added <=> u.calls[j].ix # None
                      /\ u.calls[j].added =>
                           /\ u.calls[j].id # NoText
                           /\ Known(u, u.calls[j].ix, ToolItem(u.calls[j]))
                           /\ ~u.calls[j].done => NotDone(u, u.calls[j].ix)
                           /\ \A i \in Indices : u.calls[i].ix = u.calls[j].ix => i = j
    BY DEF CallsAgree
  <2>4. CASE j = k
    <3>1. /\ u.calls[k].id # NoText /\ u.calls[k].ix # None
          /\ Known(u, u.calls[k].ix, ToolItem(u.calls[k])) /\ NotDone(u, u.calls[k].ix)
      BY <1>2, <1>3, <1>6, <1>9, <2>1 DEF None
    <3>2. \A i \in Indices : u.calls[i].ix = u.calls[k].ix => i = k
      BY <1>6, <2>3
    <3>3. QED BY <1>6, <2>4, <3>1, <3>2
  <2>5. CASE j # k
    <3>1. u.calls[j] = s.calls[j] /\ a.calls[j] = s.calls[j]
      BY <1>4, <1>6, <2>5
    <3>2. u.calls[j].added <=> u.calls[j].ix # None
      BY <3>1 DEF Good, Core, CallsAgree
    <3>3. ASSUME u.calls[j].added
          PROVE  /\ u.calls[j].id # NoText
                 /\ Known(u, u.calls[j].ix, ToolItem(u.calls[j]))
                 /\ ~u.calls[j].done => NotDone(u, u.calls[j].ix)
                 /\ \A i \in Indices : u.calls[i].ix = u.calls[j].ix => i = j
      <4>1. /\ u.calls[j].id # NoText
            /\ Known(a, u.calls[j].ix, ToolItem(u.calls[j]))
            /\ ~u.calls[j].done => NotDone(a, u.calls[j].ix)
            /\ \A i \in Indices : a.calls[i].ix = a.calls[j].ix => i = j
        BY <1>4, <3>1, <3>3 DEF Good, Core, CallsAgree
      <4>2. \A i \in Indices : u.calls[i].ix = u.calls[j].ix => i = j
        BY <1>4, <1>6, <2>3, <2>5, <3>1, <4>1
      <4>3. QED BY <1>9, <4>1, <4>2
    <3>4. QED BY <3>2, <3>3
  <2>6. QED BY <2>4, <2>5
<1>11. Good(u) /\ u.finish = s.finish /\ u.bufferText = s.bufferText
  BY <1>3, <1>5, <1>7, <1>8, <1>10 DEF Good, Core, SameFields, SameMarks
<1>12. NotDone(u, u.calls[k].ix)
  BY <1>3, <1>6, <1>9
<1>13. QED BY <1>1, <1>6, <1>11, <1>12 DEF Leads

LEMMA EnsureToolStartedLeads ==
  ASSUME NEW s, Good(s), NEW k \in Indices
  PROVE  Leads(s, EnsureToolStarted(s, k))
<1>1. CASE s.calls[k].added \/ s.calls[k].id = NoText \/ s.calls[k].name = NoText
  BY <1>1 DEF EnsureToolStarted, Leads
<1>2. CASE ~(s.calls[k].added \/ s.calls[k].id = NoText \/ s.calls[k].name = NoText)
  <2> DEFINE t == IF ~s.bufferText /\ s.content # <<>> /\ ~s.textDone
                  THEN FinishTextItem(s) ELSE s
             v == CloseReasoning(t)
             u == StartTool(v, k)
  <2>1. EnsureToolStarted(s, k) = EmitToolArguments(u, k, s.calls[k].args)
    BY <1>2 DEF EnsureToolStarted
  <2>2. Keeps(s, t)
    BY FinishTextItemKeeps, KeepsSelf
  <2> HIDE DEF t
  <2>3. Keeps(t, v)
    BY <2>2, KeepsGood, CloseReasoningKeeps
  <2>4. Keeps(s, v)
    BY <2>2, <2>3, KeepsTrans
  <2> HIDE DEF v
  <2>5. Good(v) /\ v.calls = s.calls
    BY <2>4 DEF Keeps, Leads
  <2>6. Leads(v, u)
    BY <1>2, <2>5, StartToolLeads
  <2> HIDE DEF u
  <2>7. Good(u) /\ s.calls[k].args \in Text
    BY <2>6, CallTyped DEF Leads
  <2>8. Keeps(u, EmitToolArguments(u, k, s.calls[k].args))
    BY <2>7, EmitToolArgumentsKeeps
  <2>9. QED BY <2>1, <2>4, <2>6, <2>8 DEF Keeps, Leads
<1>3. QED BY <1>1, <1>2

LEMMA AcceptToolDeltaLeads ==
  ASSUME NEW s, Good(s), NEW d \in ToolDelta
  PROVE  Leads(s, AcceptToolDelta(s, d))
<1>1. CASE d.index \notin Indices
  BY <1>1 DEF AcceptToolDelta, Leads
<1>2. CASE d.index \in Indices
  <2> DEFINE k == d.index
             c == MergeToolDelta(s.calls[k], d)
             m == [s EXCEPT !.calls[k] = c]
             v == EnsureToolStarted(m, k)
  <2>1. /\ d.args \in Text
        /\ d.id \in Ids \cup {NoText} /\ d.name \in Names \cup {NoText}
    BY DEF ToolDelta, Ids
  <2>2. s.calls[k] \in Call /\ s \in Assembler /\ s.calls \in [Indices -> Call]
    <3>1. s.calls[k] \in Call /\ s \in Assembler
      BY <1>2, CallTyped
    <3>2. QED BY <3>1 DEF Assembler
  <2>3. /\ c \in Call
        /\ c.ix = s.calls[k].ix /\ c.added = s.calls[k].added /\ c.done = s.calls[k].done
        /\ s.calls[k].added /\ s.calls[k].id # NoText =>
             c.id = s.calls[k].id /\ c.name = s.calls[k].name
    <3>1. s.calls[k].args \o d.args \in Text
      BY <2>1, <2>2, ConcatIsText DEF Call
    <3>2. QED BY <2>1, <2>2, <3>1 DEF MergeToolDelta, Call
  <2>4. AcceptToolDelta(s, d) =
          IF s.calls[k].added THEN EmitToolArguments(v, k, d.args) ELSE v
    BY <1>2 DEF AcceptToolDelta
  <2> HIDE DEF c
  <2>5. /\ m \in Assembler /\ m.calls = [s.calls EXCEPT ![k] = c]
        /\ m.out = s.out /\ m.next = s.next /\ m.terminal = s.terminal
        /\ m.finish = s.finish /\ m.reasoningIx = s.reasoningIx
        /\ m.reasoningDone = s.reasoningDone /\ m.textIx = s.textIx
        /\ m.textDone = s.textDone
    <3>1. [s.calls EXCEPT ![k] = c] \in [Indices -> Call]
      BY <2>2, <2>3
    <3>2. QED BY <2>2, <3>1 DEF Assembler
  <2> HIDE DEF m
  <2>6. \A j \in Indices :
          /\ m.calls[j].ix = s.calls[j].ix /\ m.calls[j].added = s.calls[j].added
          /\ s.calls[j].done => m.calls[j].done
          /\ s.calls[j].added =>
               m.calls[j].id = s.calls[j].id /\ m.calls[j].name = s.calls[j].name
    <3>1. \A j \in Indices : s.calls[j].added => s.calls[j].id # NoText
      BY DEF Good, Core, CallsAgree
    <3>2. \A j \in Indices : m.calls[j] = IF j = k THEN c ELSE s.calls[j]
      BY <1>2, <2>2, <2>5
    <3>3. QED BY <1>2, <2>3, <3>1, <3>2
  <2>7. Leads(s, m)
    BY <2>5, <2>6, Assign
  <2>8. Leads(m, v)
    BY <1>2, <2>7, EnsureToolStartedLeads DEF Leads
  <2> HIDE DEF v
  <2>9. Keeps(v, EmitToolArguments(v, k, d.args))
    BY <1>2, <2>1, <2>8, EmitToolArgumentsKeeps DEF Leads
  <2>10. QED BY <2>4, <2>7, <2>8, <2>9 DEF Leads, Keeps
<1>3. QED BY <1>1, <1>2

------------------------------------------------------------------------------
(* accept, finalize and fail.                                              *)

LEMMA SetFinish ==
  ASSUME NEW s, Good(s), NEW f \in FinishReasons \cup {NoText, "length"}
  PROVE  Good([s EXCEPT !.finish = f]) /\ [s EXCEPT !.finish = f].finish = f
<1> DEFINE w == [s EXCEPT !.finish = f]
<1>1. w \in Assembler /\ w.finish = f
  BY DEF Good, Assembler
<1>2. /\ w.out = s.out /\ w.next = s.next /\ w.terminal = s.terminal
      /\ w.reasoningIx = s.reasoningIx /\ w.reasoningDone = s.reasoningDone
      /\ w.textIx = s.textIx /\ w.textDone = s.textDone /\ w.calls = s.calls
  BY DEF Good, Assembler
<1> HIDE DEF w
<1>3. Core(w)
  BY <1>2 DEF Good, Core, Ordered, Announced, DoneOnce, ReasoningAgrees, TextAgrees,
    CallsAgree, Known, NotDone
<1>4. Unfinished(w)
  BY <1>2 DEF Good, Unfinished
<1>5. QED BY <1>1, <1>3, <1>4 DEF Good, w

LEMMA AcceptIsGood ==
  ASSUME NEW s, Good(s), NEW c \in Chunk
  PROVE  /\ Good(Accept(s, c))
         /\ Accept(s, c).finish = IF c.finish = NoText THEN s.finish ELSE c.finish
<1> DEFINE r == AcceptReasoningField(s, c)
           t == AcceptContentField(r, c)
           f == CloseReasoning(FlushPendingThinkBuffer(t))
           u == AcceptCallsField(t, c)
           w == [u EXCEPT !.finish = c.finish]
<1>1. /\ c.reasoning \in Text /\ c.content \in Text /\ c.delta \in ToolDelta
      /\ c.finish \in FinishReasons \cup {NoText}
  BY DEF Chunk
<1>2. Keeps(s, r)
  BY <1>1, FlushPendingThinkBufferKeeps, PushReasoningDeltaKeeps, KeepsSelf, KeepsTrans,
     KeepsGood DEF AcceptReasoningField
<1> HIDE DEF r
<1>3. Keeps(r, t)
  BY <1>1, <1>2, KeepsGood, AcceptContentDeltaKeeps, KeepsSelf DEF AcceptContentField
<1> HIDE DEF t
<1>4. Good(t) /\ Keeps(s, t)
  BY <1>2, <1>3, KeepsTrans, KeepsGood
<1>5. Good(f) /\ Keeps(t, f)
  BY <1>4, FlushPendingThinkBufferKeeps, CloseReasoningKeeps, KeepsTrans, KeepsGood
<1>6. Leads(t, u)
  <2>1. u = IF c.calls THEN AcceptToolDelta(f, c.delta) ELSE t
    BY DEF AcceptCallsField
  <2> HIDE DEF f, u
  <2>2. Leads(f, AcceptToolDelta(f, c.delta))
    BY <1>1, <1>5, AcceptToolDeltaLeads
  <2>3. QED BY <1>4, <1>5, <2>1, <2>2 DEF Leads, Keeps
<1>7. Accept(s, c) = IF c.finish = NoText THEN u ELSE w
  BY DEF Accept, r, t
<1> HIDE DEF f, u
<1>8. Good(u) /\ u \in Assembler /\ u.finish = s.finish
  BY <1>4, <1>6 DEF Leads, Keeps, Good
<1>9. Good(w) /\ w.finish = c.finish
  BY <1>1, <1>8, SetFinish
<1>10. QED BY <1>7, <1>8, <1>9

LEMMA MarkTruncatedIsGood ==
  ASSUME NEW s, Good(s)
  PROVE  /\ Good(MarkTruncatedAsLength(s))
         /\ s.finish = NoText => MarkTruncatedAsLength(s).finish = "length"
BY SetFinish DEF MarkTruncatedAsLength

LEMMA AddOutputKeeps ==
  ASSUME NEW s, Good(s), NEW item \in Item, NEW text \in Text
  PROVE  Keeps(s, AddOutput(s, item, text)) /\ SameFields(s, AddOutput(s, item, text))
<1> DEFINE u == AddOutput(s, item, text)
<1>1. s \in Assembler
  BY DEF Good
<1>2. Append(s.output, [item |-> item, text |-> text]) \in Seq(Output)
  <2>1. s.output \in Seq(Output)
    BY <1>1 DEF Assembler
  <2>2. [item |-> item, text |-> text] \in Output
    BY DEF Output
  <2>3. QED BY <2>1, <2>2, AppendProperties
<1>3. /\ u \in Assembler /\ SameMarks(s, u) /\ u.out = s.out /\ u.next = s.next
      /\ SameFields(s, u)
  BY <1>1, <1>2 DEF AddOutput, Assembler, SameMarks, SameFields
<1>4. QED BY <1>3, AssignKeeps

LEMMA FinalizeTextLeads ==
  ASSUME NEW s, Good(s)
  PROVE  Leads(s, FinalizeText(s))
<1> DEFINE t == FlushPendingThinkBuffer(s)
           u == IF t.reasoning = <<>> THEN t ELSE FinishReasoningItem(t)
           shown == u.content # <<>> /\ ~HasToolOutput(u)
           v == IF shown THEN FinishTextItem(u) ELSE u
           w == IF v.reasoning = <<>> THEN v ELSE AddOutput(v, ReasoningItem, v.reasoning)
<1>1. FinalizeText(s) = IF shown THEN AddOutput(w, MessageItem, w.content) ELSE w
  BY DEF FinalizeText
<1>2. Keeps(s, t)
  BY FlushPendingThinkBufferKeeps
<1> HIDE DEF t
<1>3. Keeps(s, u)
  BY <1>2, FinishReasoningItemKeeps, KeepsGood, KeepsTrans
<1> HIDE DEF u, shown
<1>4. Keeps(s, v)
  BY <1>3, FinishTextItemKeeps, KeepsGood, KeepsTrans
<1> HIDE DEF v
<1>5. Good(v) /\ v.reasoning \in Text /\ ReasoningItem \in Item /\ MessageItem \in Item
  <2>1. Good(v)
    BY <1>4, KeepsGood
  <2>2. QED BY <2>1, ItemTypes DEF Good, Assembler
<1>6. Keeps(s, w)
  BY <1>4, <1>5, AddOutputKeeps, KeepsTrans
<1> HIDE DEF w
<1>7. Good(w) /\ w.content \in Text
  <2>1. Good(w)
    BY <1>6, KeepsGood
  <2>2. QED BY <2>1 DEF Good, Assembler
<1>8. Keeps(s, AddOutput(w, MessageItem, w.content))
  BY <1>5, <1>6, <1>7, AddOutputKeeps, KeepsTrans
<1>9. QED BY <1>1, <1>6, <1>8 DEF Keeps

(* The done event of a call that finalize has just marked. *)
LEMMA EmitToolDoneLeads ==
  ASSUME NEW s, Good(s), NEW k \in Indices,
         s.calls[k].added, s.calls[k].done, NotDone(s, s.calls[k].ix)
  PROVE  Leads(s, EmitToolDone(s, k))
<1> DEFINE c == s.calls[k]
           args == Canonical(c.args)
           input == CustomInput(args)
           item == ToolItem(c)
           t == IF IsCustom(s, c.name) /\ input # <<>>
                THEN Emit(s, Event("delta", c.ix, item, input)) ELSE s
           text == IF IsCustom(s, c.name) THEN input ELSE args
           e == Event("done", c.ix, item, text)
           u == Emit(t, e)
<1>1. /\ c.args \in Text /\ item \in Item /\ c.ix \in Nat \cup {None}
  BY CallTyped
<1>2. args \in Text /\ input \in Text /\ text \in Text
  <2>1. args \in Text
    BY <1>1, CanonicalIsText
  <2>2. input \in Text
    BY <2>1, CanonicalIsText
  <2>3. QED BY <2>1, <2>2
<1>3. EmitToolDone(s, k) = AddOutput(u, item, text)
  BY DEF EmitToolDone
<1> HIDE DEF args, input, text
<1>4. Keeps(s, t) /\ SameFields(s, t) /\ NotDone(t, c.ix)
  <2>1. CASE IsCustom(s, c.name) /\ input # <<>>
    BY <1>2, <2>1, CallDeltaKeeps
  <2>2. CASE ~(IsCustom(s, c.name) /\ input # <<>>)
    BY <2>2, KeepsSelf DEF SameFields, SameMarks
  <2>3. QED BY <2>1, <2>2
<1>5. e \in Events /\ e.type = "done" /\ e.ix = c.ix /\ e.item = item
  BY <1>1, <1>2, DoneTyped
<1> HIDE DEF t, e
<1>6. Good(t) /\ t \in Assembler /\ t.calls = s.calls
  BY <1>4 DEF Keeps, Leads, Good
<1>7. u \in Assembler /\ SameFields(t, u) /\ u.next = t.next /\ Grown(t, u, e)
  BY <1>5, <1>6, EmitFields
<1> HIDE DEF u
<1>8. Known(t, c.ix, item) /\ \A j \in Indices : t.calls[j].added /\ j # k => t.calls[j].ix # c.ix
  BY <1>6 DEF Good, Core, CallsAgree
<1>9. t.textIx # None => t.textIx # c.ix
  BY <1>6, <1>8, CallTyped, KnownItem, ItemTypes DEF Good, Core, TextAgrees
<1>10. t.reasoningIx # None => t.reasoningIx # c.ix
  BY <1>6, <1>8, CallTyped, KnownItem, ItemTypes DEF Good, Core, ReasoningAgrees
<1>11. Leads(t, u)
  <2>1. /\ u.terminal = t.terminal /\ u.finish = t.finish
        /\ u.reasoningIx = t.reasoningIx /\ u.textIx = t.textIx /\ u.calls = t.calls
        /\ u.textDone = t.textDone /\ u.reasoningDone = t.reasoningDone
    BY <1>7 DEF SameFields, SameMarks
  <2>2. \A j \in Indices : t.calls[j].added /\ ~t.calls[j].done => t.calls[j].ix # e.ix
    BY <1>5, <1>6, <1>8
  <2>3. QED BY <1>4, <1>5, <1>6, <1>7, <1>8, <1>9, <1>10, <2>1, <2>2, EmitDone
<1>12. Keeps(u, AddOutput(u, item, text))
  BY <1>1, <1>2, <1>11, AddOutputKeeps DEF Leads
<1>13. QED BY <1>3, <1>4, <1>11, <1>12 DEF Keeps, Leads

LEMMA FinalizeToolLeads ==
  ASSUME NEW s, Good(s), NEW k \in Indices
  PROVE  Leads(s, FinalizeTool(s, k))
<1> DEFINE named == [s EXCEPT !.calls[k].id = IF @ = NoText THEN FallbackId[k] ELSE @]
           t == IF s.calls[k].added THEN s ELSE StartToolForFinalize(s, k)
           marked == [t EXCEPT !.calls[k].done = TRUE, !.pending = Append(@, t.calls[k].id)]
           skipped == [s EXCEPT !.calls[k].done = TRUE]
<1>1. /\ s.calls[k] \in Call /\ s \in Assembler /\ s.calls \in [Indices -> Call]
      /\ s.calls[k].done \in BOOLEAN /\ s.calls[k].added \in BOOLEAN
  <2>1. s.calls[k] \in Call /\ s \in Assembler
    BY CallTyped
  <2>2. QED BY <2>1 DEF Assembler, Call
<1>2. FinalizeTool(s, k) =
        CASE s.calls[k].done -> s
          [] ~s.calls[k].done /\ s.calls[k].name = NoText -> skipped
          [] OTHER -> EmitToolDone(marked, k)
  BY DEF FinalizeTool
<1>3. Leads(s, skipped)
  <2>1. /\ skipped.out = s.out /\ skipped.next = s.next /\ skipped.terminal = s.terminal
        /\ skipped.finish = s.finish /\ skipped.reasoningIx = s.reasoningIx
        /\ skipped.reasoningDone = s.reasoningDone /\ skipped.textIx = s.textIx
        /\ skipped.textDone = s.textDone
        /\ skipped.calls = [s.calls EXCEPT ![k].done = TRUE]
    BY <1>1 DEF Assembler
  <2>2. [s.calls EXCEPT ![k].done = TRUE] \in [Indices -> Call]
    BY <1>1 DEF Call
  <2>3. skipped \in Assembler
    BY <1>1, <2>2 DEF Assembler
  <2> HIDE DEF skipped
  <2>4. \A j \in Indices :
          /\ skipped.calls[j].ix = s.calls[j].ix /\ skipped.calls[j].added = s.calls[j].added
          /\ s.calls[j].done => skipped.calls[j].done
          /\ s.calls[j].added =>
               skipped.calls[j].id = s.calls[j].id /\ skipped.calls[j].name = s.calls[j].name
    BY <1>1, <2>1 DEF Call
  <2>5. QED BY <2>1, <2>3, <2>4, Assign
<1> HIDE DEF skipped
<1>4. CASE s.calls[k].done \/ s.calls[k].name = NoText
  <2>1. FinalizeTool(s, k) = s \/ FinalizeTool(s, k) = skipped
    BY <1>1, <1>2, <1>4
  <2>2. QED BY <1>3, <2>1 DEF Leads
<1>5. CASE ~s.calls[k].done /\ s.calls[k].name # NoText
  <2>1. FinalizeTool(s, k) = EmitToolDone(marked, k)
    BY <1>2, <1>5
  <2>2. /\ Leads(s, t) /\ t.calls[k].added /\ ~t.calls[k].done
        /\ NotDone(t, t.calls[k].ix)
    <3>1. CASE s.calls[k].added
      BY <1>5, <3>1 DEF Leads, Good, Core, CallsAgree
    <3>2. CASE ~s.calls[k].added
      <4>1. FallbackId[k] \in Ids /\ FallbackId[k] # NoText
        BY ConstantsAssumption DEF Ids
      <4>2. /\ named.out = s.out /\ named.next = s.next /\ named.terminal = s.terminal
            /\ named.finish = s.finish /\ named.reasoningIx = s.reasoningIx
            /\ named.reasoningDone = s.reasoningDone /\ named.textIx = s.textIx
            /\ named.textDone = s.textDone
            /\ named.calls = [s.calls EXCEPT ![k].id = IF @ = NoText THEN FallbackId[k] ELSE @]
        BY <1>1 DEF Assembler
      <4>3. [s.calls EXCEPT ![k].id = IF @ = NoText THEN FallbackId[k] ELSE @]
              \in [Indices -> Call]
        BY <1>1, <4>1 DEF Call
      <4>4. named \in Assembler
        BY <1>1, <4>3 DEF Assembler
      <4>5. t = StartTool(named, k)
        BY <3>2 DEF StartToolForFinalize
      <4> HIDE DEF named, t
      <4>6. /\ named.calls[k].id # NoText
            /\ \A j \in Indices :
                 /\ named.calls[j].ix = s.calls[j].ix /\ named.calls[j].added = s.calls[j].added
                 /\ named.calls[j].done = s.calls[j].done
                 /\ s.calls[j].added =>
                      named.calls[j].id = s.calls[j].id /\ named.calls[j].name = s.calls[j].name
        BY <1>1, <3>2, <4>1, <4>2 DEF Call
      <4>7. Leads(s, named)
        BY <4>2, <4>4, <4>6, Assign
      <4>8. /\ Leads(named, t) /\ t.calls[k].added
            /\ t.calls[k].done = named.calls[k].done /\ NotDone(t, t.calls[k].ix)
        BY <3>2, <4>5, <4>6, <4>7, StartToolLeads DEF Leads
      <4>9. QED BY <1>5, <4>6, <4>7, <4>8 DEF Leads
    <3>3. QED BY <1>1, <3>1, <3>2
  <2> HIDE DEF t
  <2>3. Good(t) /\ t.calls[k] \in Call /\ t \in Assembler /\ t.calls \in [Indices -> Call]
    <3>1. Good(t) /\ t.calls[k] \in Call /\ t \in Assembler
      BY <2>2, CallTyped DEF Leads
    <3>2. QED BY <3>1 DEF Assembler
  <2>4. Append(t.pending, t.calls[k].id) \in Seq(Ids)
    <3>1. t.calls[k].id \in Ids
      BY <2>2, <2>3 DEF Good, Core, CallsAgree, Call
    <3>2. t.pending \in Seq(Ids)
      BY <2>3 DEF Assembler
    <3>3. QED BY <3>1, <3>2, AppendProperties
  <2>5. /\ marked.out = t.out /\ marked.next = t.next /\ marked.terminal = t.terminal
        /\ marked.finish = t.finish /\ marked.reasoningIx = t.reasoningIx
        /\ marked.reasoningDone = t.reasoningDone /\ marked.textIx = t.textIx
        /\ marked.textDone = t.textDone
        /\ marked.calls = [t.calls EXCEPT ![k].done = TRUE]
    BY <2>3 DEF Assembler
  <2>6. [t.calls EXCEPT ![k].done = TRUE] \in [Indices -> Call]
    BY <2>3 DEF Call
  <2>7. marked \in Assembler
    BY <2>3, <2>4, <2>6 DEF Assembler
  <2> HIDE DEF marked
  <2>8. /\ marked.calls[k].done
        /\ \A j \in Indices :
             /\ marked.calls[j].ix = t.calls[j].ix /\ marked.calls[j].added = t.calls[j].added
             /\ t.calls[j].done => marked.calls[j].done
             /\ t.calls[j].added =>
                  marked.calls[j].id = t.calls[j].id /\ marked.calls[j].name = t.calls[j].name
    BY <2>3, <2>5 DEF Call
  <2>9. Leads(t, marked)
    BY <2>3, <2>5, <2>7, <2>8, Assign
  <2>10. NotDone(marked, marked.calls[k].ix)
    BY <2>2, <2>5, <2>8 DEF NotDone
  <2>11. Leads(marked, EmitToolDone(marked, k))
    BY <2>2, <2>8, <2>9, <2>10, EmitToolDoneLeads DEF Leads
  <2>12. QED BY <2>1, <2>2, <2>9, <2>11 DEF Leads
<1>6. QED BY <1>1, <1>4, <1>5

------------------------------------------------------------------------------
(* The terminal event.                                                     *)

Ended(s) ==
  /\ s \in Assembler /\ Core(s) /\ s.terminal \in Terminals
  /\ Len(s.out) \in DOMAIN s.out
  /\ \A i \in DOMAIN s.out : s.out[i].type \in Terminals <=> i = Len(s.out)

LEMMA EmitTerminalEnds ==
  ASSUME NEW s, Good(s), NEW status \in Terminals
  PROVE  /\ Ended(EmitTerminal(s, status))
         /\ EmitTerminal(s, status).terminal = status
<1> DEFINE e == Event(status, None, NoItem, <<>>)
           v == Emit(s, e)
           u == [v EXCEPT !.terminal = status]
<1>1. e \in Events /\ e.type = status /\ status \notin {"added", "delta", "done"}
  <2>1. NoItem \in Item /\ <<>> \in Text
    BY ItemTypes DEF Text
  <2>2. QED BY <2>1 DEF Event, Events, EventTypes, Terminals
<1>2. u = EmitTerminal(s, status)
  BY DEF EmitTerminal
<1> HIDE DEF e
<1>3. s \in Assembler
  BY DEF Good
<1>4. v \in Assembler /\ SameFields(s, v) /\ v.next = s.next /\ Grown(s, v, e)
  BY <1>1, <1>3, EmitFields
<1> HIDE DEF v
<1>5. u \in Assembler /\ u.terminal = status
  BY <1>4 DEF Assembler, Terminals
<1>6. /\ u.out = v.out /\ u.next = v.next /\ u.reasoningIx = v.reasoningIx
      /\ u.reasoningDone = v.reasoningDone /\ u.textIx = v.textIx
      /\ u.textDone = v.textDone /\ u.calls = v.calls
  BY <1>4 DEF Assembler
<1> HIDE DEF u
<1>7. Grown(s, u, e) /\ u.next = s.next
  BY <1>4, <1>6 DEF Grown
<1>8. Ordered(u) /\ Announced(u) /\ DoneOnce(u)
  BY <1>1, <1>7, GrownOrdered, GrownAnnounced, GrownDoneOnce DEF Good, Core
<1>9. /\ \A ix, item : Known(s, ix, item) => Known(u, ix, item)
      /\ \A ix : NotDone(s, ix) => NotDone(u, ix)
  BY <1>1, <1>7, GrownFacts
<1>10. /\ u.reasoningIx = s.reasoningIx /\ u.reasoningDone = s.reasoningDone
       /\ u.textIx = s.textIx /\ u.textDone = s.textDone /\ u.calls = s.calls
  BY <1>4, <1>6 DEF SameFields, SameMarks
<1>11. ReasoningAgrees(u) /\ TextAgrees(u)
  BY <1>9, <1>10 DEF Good, Core, ReasoningAgrees, TextAgrees
<1>12. CallsAgree(u)
  BY <1>9, <1>10 DEF Good, Core, CallsAgree
<1>13. /\ Len(u.out) \in DOMAIN u.out
       /\ \A i \in DOMAIN u.out : u.out[i].type \in Terminals <=> i = Len(u.out)
  <2> DEFINE n == Len(s.out)
  <2>1. /\ n \in Nat /\ DOMAIN s.out = 1..n /\ DOMAIN u.out = 1..(n + 1)
        /\ \A i \in 1..n : u.out[i] = s.out[i]
        /\ u.out[n + 1] = e
    BY <1>7, GrownFacts
  <2>2. \A i \in 1..n : s.out[i].type \notin Terminals
    BY <2>1 DEF Good, Unfinished
  <2> HIDE DEF n
  <2>3. Len(u.out) = n + 1
    BY <1>5, <2>1, OutIsSeq
  <2>4. QED BY <1>1, <2>1, <2>2, <2>3
<1>14. QED BY <1>2, <1>5, <1>8, <1>11, <1>12, <1>13 DEF Ended, Core

LEMMA EmitTerminalFinish ==
  ASSUME NEW s, Good(s), NEW status \in Terminals
  PROVE  EmitTerminal(s, status).finish = s.finish
BY DEF EmitTerminal, Emit, Good, Assembler

------------------------------------------------------------------------------
(* The inductive invariant.  The assembler agrees with its events, a       *)
(* terminal event ends the task, the row is stored between StatePut and a  *)
(* successful end, and a finish_reason comes from the upstream unless the  *)
(* stream was cut short.                                                   *)

FinishFed == \E i \in DOMAIN fed : fed[i].finish # NoText

Finishing == phase \in {"finalizing", "stored"}

IInv ==
  /\ TypeOK
  /\ IF phase = "closed" THEN Ended(asm) ELSE Good(asm)
  /\ row.stored <=>
       phase = "stored" \/ (phase = "closed" /\ asm.terminal \in {"completed", "incomplete"})
  /\ asm.finish # NoText => FinishFed \/ asm.finish = "length"
  /\ Finishing => ended = "done" \/ (ended = "eof" /\ asm.finish # NoText)
  /\ phase = "closed" /\ asm.terminal = "completed" => ended = "done" \/ FinishFed

LEMMA InitIInv == Init => IInv
<1> SUFFICES ASSUME Init PROVE IInv
  OBVIOUS
<1>1. PICK tools \in BOOLEAN : asm = NewAssembler(tools)
  BY DEF Init
<1>2. asm \in Assembler
  <2>1. NewCall \in Call /\ <<>> \in Text /\ <<>> \in Seq(Output) /\ <<>> \in Seq(Ids)
        /\ <<>> \in Seq(Events)
    BY DEF NewCall, Call, Text
  <2>2. QED BY <1>1, <2>1 DEF NewAssembler, Assembler, Events
<1>3. /\ asm.out = <<>> /\ asm.next = 0 /\ asm.terminal = NoText /\ asm.finish = NoText
      /\ asm.reasoningIx = None /\ asm.textIx = None
      /\ \A k \in Indices : asm.calls[k] = NewCall
  BY <1>1 DEF NewAssembler
<1>4. Core(asm)
  <2>1. DOMAIN asm.out = {}
    BY <1>3
  <2>2. Ordered(asm) /\ Announced(asm) /\ DoneOnce(asm)
    BY <1>3, <2>1 DEF Ordered, Announced, DoneOnce
  <2>3. ReasoningAgrees(asm) /\ TextAgrees(asm) /\ CallsAgree(asm)
    BY <1>3 DEF ReasoningAgrees, TextAgrees, CallsAgree, NewCall
  <2>4. QED BY <2>2, <2>3 DEF Core
<1>5. Unfinished(asm)
  BY <1>3 DEF Unfinished
<1>6. phase = "spawned" /\ todo = {} /\ row = NoRow /\ fed = <<>> /\ ended = "no"
  BY DEF Init
<1>7. TypeOK
  BY <1>2, <1>6 DEF TypeOK, NoRow, Text
<1>8. QED BY <1>2, <1>3, <1>4, <1>5, <1>6, <1>7 DEF IInv, Good, Finishing, NoRow

LEMMA OpenIsGood ==
  ASSUME IInv, phase # "closed"
  PROVE  /\ Good(asm) /\ asm.terminal = NoText
         /\ row.stored <=> phase = "stored"
BY DEF IInv, Good, Unfinished

(* FailAndClose ends the task in every phase but "stored". *)
LEMMA FailIInv ==
  ASSUME IInv, NEW how \in {"no", "done", "eof", "error"},
         phase # "closed", phase # "stored", FailAndClose(how)
  PROVE  IInv'
<1>1. Good(asm) /\ asm.terminal = NoText /\ ~row.stored
  BY OpenIsGood
<1>2. asm' = EmitTerminal(asm, "failed")
  BY <1>1 DEF FailAndClose, Fail
<1>3. Ended(asm') /\ asm'.terminal = "failed"
  BY <1>1, <1>2, EmitTerminalEnds DEF Terminals
<1>4. /\ phase' = "closed" /\ ended' = how
      /\ UNCHANGED <<todo, row, fed>>
  BY DEF FailAndClose
<1>5. TypeOK'
  BY <1>3, <1>4 DEF IInv, TypeOK, Ended
<1>6. asm'.finish # NoText => FinishFed' \/ asm'.finish = "length"
  <2>1. asm'.finish = asm.finish
    BY <1>1, <1>2, EmitTerminalFinish DEF Terminals
  <2>2. QED BY <1>4, <2>1 DEF IInv, FinishFed
<1>7. ~(row.stored)' /\ asm'.terminal \notin {"completed", "incomplete"}
  BY <1>1, <1>3, <1>4
<1>8. QED BY <1>3, <1>4, <1>5, <1>6, <1>7 DEF IInv, Finishing

(* The beginning of finalize. *)
LEMMA BeginFinalizeIInv ==
  ASSUME IInv, phase = "streaming", NEW s, Good(s),
         s.finish # NoText => FinishFed \/ s.finish = "length",
         NEW how \in {"done", "eof"}, how = "eof" => s.finish # NoText,
         BeginFinalize(s, how)
  PROVE  IInv'
<1>1. /\ asm' = FinalizeText(s) /\ todo' = Indices /\ phase' = "finalizing"
      /\ ended' = how /\ UNCHANGED <<row, fed>>
  BY DEF BeginFinalize
<1>2. Good(asm') /\ asm'.finish = s.finish
  BY <1>1, FinalizeTextLeads DEF Leads
<1>3. TypeOK'
  BY <1>1, <1>2 DEF IInv, TypeOK, Good
<1>4. ~row.stored
  BY OpenIsGood
<1>5. QED BY <1>1, <1>2, <1>3, <1>4 DEF IInv, Finishing, FinishFed

LEMMA NextIInv == IInv /\ [Next]_vars => IInv'
<1> SUFFICES ASSUME IInv, [Next]_vars
             PROVE  IInv'
  OBVIOUS
<1>1. CASE Start
  <2>1. /\ phase = "spawned" /\ phase' = "acquiring"
        /\ asm' = Emit(Emit(asm, Event("created", None, NoItem, <<>>)),
                       Event("in_progress", None, NoItem, <<>>))
        /\ UNCHANGED <<todo, row, fed, ended>>
    BY <1>1 DEF Start
  <2> DEFINE e == Event("created", None, NoItem, <<>>)
             f == Event("in_progress", None, NoItem, <<>>)
  <2>2. /\ e \in Events /\ e.type = "created"
        /\ f \in Events /\ f.type = "in_progress"
    <3>1. NoItem \in Item /\ <<>> \in Text
      BY ItemTypes DEF Text
    <3>2. QED BY <3>1 DEF Event, Events, EventTypes
  <2>3. asm' = Emit(Emit(asm, e), f)
    BY <2>1
  <2> HIDE DEF e, f
  <2>4. Leads(asm, Emit(asm, e))
    BY <2>1, <2>2, OpenIsGood, EmitDelta
  <2>5. Leads(Emit(asm, e), asm')
    BY <2>2, <2>3, <2>4, EmitDelta DEF Leads
  <2>6. Good(asm') /\ asm'.finish = asm.finish
    BY <2>4, <2>5 DEF Leads
  <2>7. TypeOK'
    BY <2>1, <2>6 DEF IInv, TypeOK, Good
  <2>8. FinishFed' <=> FinishFed
    BY <2>1 DEF FinishFed
  <2>9. QED BY <2>1, <2>6, <2>7, <2>8, OpenIsGood DEF IInv, Finishing
<1>2. CASE AcquirePermit
  BY <1>2 DEF AcquirePermit, IInv, TypeOK, Finishing, FinishFed
<1>3. CASE RateLimited
  BY <1>3, FailIInv DEF RateLimited
<1>4. CASE UpstreamRefused
  BY <1>4, FailIInv DEF UpstreamRefused
<1>5. CASE UpstreamAccepted
  BY <1>5 DEF UpstreamAccepted, IInv, TypeOK, Finishing, FinishFed
<1>6. CASE AcceptChunk
  <2>1. PICK c \in Chunks : asm' = Accept(asm, c) /\ fed' = Append(fed, c)
    BY <1>6 DEF AcceptChunk
  <2>2. phase = "streaming" /\ UNCHANGED <<phase, todo, row, ended>>
    BY <1>6 DEF AcceptChunk
  <2>3. c \in Chunk
    BY ConstantsAssumption
  <2>4. /\ Good(asm')
        /\ asm'.finish = IF c.finish = NoText THEN asm.finish ELSE c.finish
    BY <2>1, <2>2, <2>3, OpenIsGood, AcceptIsGood
  <2>5. /\ fed' \in Seq(Chunk)
        /\ FinishFed => FinishFed'
        /\ c.finish # NoText => FinishFed'
    <3>1. fed \in Seq(Chunk)
      BY DEF IInv, TypeOK
    <3>2. /\ fed' \in Seq(Chunk) /\ DOMAIN fed = 1..Len(fed) /\ Len(fed) \in Nat
          /\ DOMAIN fed' = 1..(Len(fed) + 1) /\ fed'[Len(fed) + 1] = c
          /\ \A i \in DOMAIN fed : fed'[i] = fed[i]
      BY <2>1, <2>3, <3>1, AppendProperties, LenProperties
    <3>3. QED BY <3>2 DEF FinishFed
  <2>6. TypeOK'
    BY <2>2, <2>4, <2>5 DEF IInv, TypeOK, Good
  <2>7. asm'.finish # NoText => FinishFed' \/ asm'.finish = "length"
    BY <2>4, <2>5 DEF IInv
  <2>8. QED BY <2>2, <2>4, <2>6, <2>7 DEF IInv, Finishing
<1>7. CASE UpstreamError
  BY <1>7, FailIInv DEF UpstreamError
<1>8. CASE UpstreamDone
  BY <1>8, BeginFinalizeIInv, OpenIsGood DEF UpstreamDone, IInv
<1>9. CASE EofFinished
  BY <1>9, BeginFinalizeIInv, OpenIsGood DEF EofFinished, IInv
<1>10. CASE EofTruncated
  <2>1. /\ phase = "streaming" /\ asm.finish = NoText
        /\ BeginFinalize(MarkTruncatedAsLength(asm), "eof")
    BY <1>10 DEF EofTruncated
  <2>2. Good(MarkTruncatedAsLength(asm)) /\ MarkTruncatedAsLength(asm).finish = "length"
    BY <2>1, OpenIsGood, MarkTruncatedIsGood
  <2>3. QED BY <2>1, <2>2, BeginFinalizeIInv DEF NoText
<1>11. CASE EofEmpty
  BY <1>11, FailIInv DEF EofEmpty
<1>12. CASE FinalizeNextTool
  <2>1. PICK k \in todo : asm' = FinalizeTool(asm, k) /\ todo' = todo \ {k}
    BY <1>12 DEF FinalizeNextTool
  <2>2. phase = "finalizing" /\ UNCHANGED <<phase, row, fed, ended>>
    BY <1>12 DEF FinalizeNextTool
  <2>3. k \in Indices
    BY DEF IInv, TypeOK
  <2>4. Good(asm') /\ asm'.finish = asm.finish
    BY <2>1, <2>2, <2>3, OpenIsGood, FinalizeToolLeads DEF Leads
  <2>5. QED BY <2>1, <2>2, <2>4 DEF IInv, TypeOK, Good, Finishing, FinishFed
<1>13. CASE StatePut
  <2>1. /\ phase = "finalizing" /\ phase' = "stored" /\ UNCHANGED <<asm, todo, fed, ended>>
        /\ row' = [stored |-> TRUE, content |-> asm.content,
                   output |-> asm.output, pending |-> asm.pending]
    BY <1>13 DEF StatePut
  <2>2. /\ asm.content \in Text /\ asm.output \in Seq(Output) /\ asm.pending \in Seq(Ids)
    BY DEF IInv, TypeOK, Assembler
  <2>3. TypeOK'
    BY <2>1, <2>2 DEF IInv, TypeOK
  <2>4. Good(asm) /\ phase' # "closed"
    BY <2>1, OpenIsGood
  <2>5. (IF phase = "closed" THEN Ended(asm) ELSE Good(asm))'
    BY <2>1, <2>4
  <2>6. row'.stored /\ phase' = "stored"
    BY <2>1
  <2>7. FinishFed' <=> FinishFed
    BY <2>1 DEF FinishFed
  <2>8. /\ (asm.finish # NoText => FinishFed \/ asm.finish = "length")'
        /\ Finishing' => (ended = "done" \/ (ended = "eof" /\ asm.finish # NoText))'
    BY <2>1, <2>7 DEF IInv, Finishing
  <2>9. QED BY <2>1, <2>3, <2>5, <2>6, <2>8 DEF IInv
<1>14. CASE StatePutFails
  <2>1. ended \in {"no", "done", "eof", "error"}
    BY DEF IInv, TypeOK
  <2>2. QED BY <1>14, <2>1, FailIInv DEF StatePutFails
<1>15. CASE Complete
  <2> DEFINE status == CompletionStatus(asm.finish)
  <2>1. /\ phase = "stored" /\ phase' = "closed" /\ UNCHANGED <<todo, row, fed, ended>>
        /\ asm' = EmitTerminal(asm, status)
    BY <1>15 DEF Complete
  <2>2. /\ status \in {"completed", "incomplete"}
        /\ status = "completed" => asm.finish # "length"
    BY DEF CompletionStatus, IncompleteReasons
  <2> HIDE DEF status
  <2>3. Good(asm) /\ row.stored
    BY <2>1, OpenIsGood
  <2>4. Ended(asm') /\ asm'.terminal = status /\ asm'.finish = asm.finish
    BY <2>1, <2>2, <2>3, EmitTerminalEnds, EmitTerminalFinish DEF Terminals
  <2>5. TypeOK'
    BY <2>1, <2>4 DEF IInv, TypeOK, Ended
  <2>6. asm'.terminal = "completed" => ended' = "done" \/ FinishFed'
    BY <2>1, <2>2, <2>4 DEF IInv, Finishing, FinishFed
  <2>7. QED BY <2>1, <2>2, <2>3, <2>4, <2>5, <2>6 DEF IInv, Finishing, FinishFed
<1>16. CASE UNCHANGED vars
  BY <1>16 DEF vars, IInv, TypeOK, Finishing, FinishFed
<1>17. CASE Closed
  BY <1>16, <1>17 DEF Closed
<1>18. QED
  BY <1>1, <1>2, <1>3, <1>4, <1>5, <1>6, <1>7, <1>8, <1>9, <1>10, <1>11, <1>12,
     <1>13, <1>14, <1>15, <1>16, <1>17 DEF Next, TaskStep

------------------------------------------------------------------------------
(* The theorems.                                                           *)

LEMMA Invariance == Spec => []IInv
BY InitIInv, NextIInv, PTL DEF Spec

(* Type correctness of the assembler and of the task that drives it. *)
THEOREM TypeCorrect == Spec => []TypeOK
<1>1. IInv => TypeOK
  BY DEF IInv
<1>2. QED BY <1>1, Invariance, PTL

LEMMA IInvCore == IInv => Core(asm)
BY DEF IInv, Good, Ended

(* Whatever the upstream sends, a closed stream has one terminal event and *)
(* it is the last.                                                         *)
THEOREM TerminalLast == Spec => []TerminalIsLast
<1>1. IInv => TerminalIsLast
  <2> SUFFICES ASSUME IInv PROVE TerminalIsLast
    OBVIOUS
  <2>1. CASE phase = "closed"
    BY <2>1 DEF IInv, Ended, TerminalIsLast
  <2>2. CASE phase # "closed"
    BY <2>2 DEF IInv, Good, Unfinished, TerminalIsLast
  <2>3. QED BY <2>1, <2>2
<1>2. QED BY <1>1, Invariance, PTL

(* For any number of items, output indices are unique and contiguous. *)
THEOREM IndicesUnique == Spec => []OutputIndicesUnique
<1>1. IInv => OutputIndicesUnique
  <2> SUFFICES ASSUME IInv PROVE OutputIndicesUnique
    OBVIOUS
  <2>1. Ordered(asm)
    BY IInvCore DEF Core
  <2>2. \A i, j \in At("added") : i < j => asm.out[i].ix < asm.out[j].ix
    BY <2>1 DEF Ordered, At
  <2>3. {asm.out[i].ix : i \in At("added")} = 0..(asm.next - 1)
    BY <2>1 DEF Ordered, At
  <2>4. QED BY <2>2, <2>3 DEF OutputIndicesUnique
<1>2. QED BY <1>1, Invariance, PTL

(* Every delta and done event follows the announcement of its item, and no *)
(* item is done twice, whatever ids, names and indices the upstream sends. *)
THEOREM EventsAnnounced == Spec => []ItemsAnnounced
<1>1. IInv => ItemsAnnounced
  <2> SUFFICES ASSUME IInv PROVE ItemsAnnounced
    OBVIOUS
  <2>1. Announced(asm) /\ DoneOnce(asm)
    BY IInvCore DEF Core
  <2>2. ASSUME NEW j \in At("delta") \cup At("done")
        PROVE  \E i \in At("added") :
          i < j /\ asm.out[i].ix = asm.out[j].ix /\ asm.out[i].item = asm.out[j].item
    BY <2>1 DEF Announced, At
  <2>3. \A i, j \in At("done") : asm.out[i].ix = asm.out[j].ix => i = j
    BY <2>1 DEF DoneOnce, At
  <2>4. QED BY <2>2, <2>3 DEF ItemsAnnounced
<1>2. QED BY <1>1, Invariance, PTL

(* A response reported finished was stored, one reported failed was not. *)
THEOREM StoredFinished == Spec => []StoredIffFinished
<1>1. IInv => StoredIffFinished
  <2> SUFFICES ASSUME IInv PROVE StoredIffFinished
    OBVIOUS
  <2>1. CASE phase = "closed"
    BY <2>1 DEF IInv, StoredIffFinished
  <2>2. CASE phase # "closed"
    BY <2>2, OpenIsGood DEF StoredIffFinished, NoText
  <2>3. QED BY <2>1, <2>2
<1>2. QED BY <1>1, Invariance, PTL

(* "completed" is only ever said of a stream that the upstream finished. *)
THEOREM TruncationReported == Spec => []NoSilentTruncation
<1>1. IInv => NoSilentTruncation
  <2> SUFFICES ASSUME IInv PROVE NoSilentTruncation
    OBVIOUS
  <2>1. CASE phase = "closed"
    BY <2>1 DEF IInv, NoSilentTruncation, FinishFed
  <2>2. CASE phase # "closed"
    BY <2>2, OpenIsGood DEF NoSilentTruncation, NoText
  <2>3. QED BY <2>1, <2>2
<1>2. QED BY <1>1, Invariance, PTL
==============================================================================
