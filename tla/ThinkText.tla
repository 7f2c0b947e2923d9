------------------------------ MODULE ThinkText ------------------------------
(***************************************************************************)
(* The text helpers of src/src/conversion/text.rs that recognise a leading *)
(* <think>...</think> block in the upstream's answer.                      *)
(*                                                                         *)
(* A text is a sequence over a small alphabet: "<think>" is the two        *)
(* characters "<" "think>", and "</think>" is "<" "/think>".  Both tags    *)
(* begin with the same character and both can be cut in two by a chunk     *)
(* boundary, which is all that the splitting code depends on.  "ws" is a   *)
(* whitespace character and Letters are the visible characters.            *)
(***************************************************************************)
EXTENDS Naturals, Sequences

CONSTANT Letters

ASSUME LettersAssumption ==
  Letters \cap {"ws", "<", "think>", "/think>"} = {}

Char == Letters \cup {"ws", "<", "think>", "/think>"}
Text == Seq(Char)

THINK_OPEN_TAG == <<"<", "think>">>
THINK_CLOSE_TAG == <<"<", "/think>">>

(* t.trim().is_empty() *)
IsBlank(t) == \A i \in DOMAIN t : t[i] = "ws"

InkStart(t, k) == t[k] # "ws" /\ \A i \in 1..(k - 1) : t[i] = "ws"
InkEnd(t, k) == t[k] # "ws" /\ \A i \in (k + 1)..Len(t) : t[i] = "ws"

TrimStart(t) ==
  IF \E k \in DOMAIN t : InkStart(t, k)
  THEN SubSeq(t, CHOOSE k \in DOMAIN t : InkStart(t, k), Len(t))
  ELSE <<>>

TrimEnd(t) ==
  IF \E k \in DOMAIN t : InkEnd(t, k)
  THEN SubSeq(t, 1, CHOOSE k \in DOMAIN t : InkEnd(t, k))
  ELSE <<>>

Trim(t) == TrimEnd(TrimStart(t))

(* The text after the first n characters. *)
Skip(t, n) == SubSeq(t, n + 1, Len(t))

TagAt(t, tag, k) == SubSeq(t, k, k + 1) = tag

(* t.find(THINK_CLOSE_TAG) = Some(k) *)
CloseAt(t, k) ==
  /\ k + 1 <= Len(t)
  /\ TagAt(t, THINK_CLOSE_TAG, k)
  /\ \A i \in 1..(k - 1) : ~TagAt(t, THINK_CLOSE_TAG, i)

HasClose(t) == \E k \in DOMAIN t : CloseAt(t, k)

(* split_at_think_close: what precedes the first close tag, and what       *)
(* follows it less the separating whitespace.                              *)
SplitAtThinkClose(t) ==
  LET k == CHOOSE i \in DOMAIN t : CloseAt(t, i)
  IN  [reasoning |-> SubSeq(t, 1, k - 1), answer |-> TrimStart(Skip(t, k + 1))]

(* split_incomplete_think_close_suffix: the part to keep back because it   *)
(* may be the beginning of a close tag, and the part that is safe to emit. *)
EndsInCloseSuffix(t) == t # <<>> /\ t[Len(t)] = "<"

(* Mutant: nothing is kept back at the end of a chunk. *)
KeepsNothingBack(t) == [emit |-> t, keep |-> <<>>]

SplitIncompleteThinkCloseSuffix(t) ==
  IF EndsInCloseSuffix(t)
  THEN [emit |-> SubSeq(t, 1, Len(t) - 1), keep |-> SubSeq(t, Len(t), Len(t))]
  ELSE [emit |-> t, keep |-> <<>>]

(* The leading tag, after leading whitespace. *)
HasLeadingOpen(t) ==
  LET u == TrimStart(t) IN Len(u) >= 2 /\ TagAt(u, THINK_OPEN_TAG, 1)

AfterLeadingOpen(t) == Skip(TrimStart(t), 2)

HasLeadingThinkBlock(t) == HasLeadingOpen(t) /\ HasClose(AfterLeadingOpen(t))

SplitLeadingThinkBlock(t) ==
  LET parts == SplitAtThinkClose(AfterLeadingOpen(t))
  IN  [parts EXCEPT !.reasoning = Trim(@)]

StripLeadingThinkOpenTag(t) == Trim(AfterLeadingOpen(t))

(* What is left after the leading whitespace could still grow into "<think>". *)
IsLeadingThinkPrefix(t) ==
  TrimStart(t) \in {<<>>, <<"<">>, THINK_OPEN_TAG}
==============================================================================
