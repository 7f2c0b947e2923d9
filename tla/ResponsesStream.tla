--------------------------- MODULE ResponsesStream ---------------------------
(***************************************************************************)
(* What one streaming response promises its client, whatever the upstream  *)
(* does: the stream is created, its items are announced in order and       *)
(* closed, never reopened or withdrawn, and it ends once.  It ends         *)
(* "completed" or "incomplete" only after the response was stored for      *)
(* continuation with every announced item closed, and "failed" only if it  *)
(* was not stored.                                                         *)
(*                                                                         *)
(* strict is FALSE for a request without tools.  If the upstream calls a   *)
(* tool all the same, such a response may be stored with an open message.  *)
(***************************************************************************)
EXTENDS Naturals, Sequences

VARIABLES
  strict,  \* the request offered tools
  stage,   \* "new", "open", or how the stream ended
  items,   \* "open" or "done" for each output index
  stored   \* the response can be continued

vars == <<strict, stage, items, stored>>

Init ==
  /\ strict \in BOOLEAN
  /\ stage = "new"
  /\ items = <<>>
  /\ stored = FALSE

Create ==
  /\ stage = "new"
  /\ stage' = "open"
  /\ UNCHANGED <<strict, items, stored>>

(* Items are announced and closed, and a closed item stays closed. *)
Extend ==
  /\ stage = "open"
  /\ ~stored
  /\ items' \in Seq({"open", "done"})
  /\ Len(items') >= Len(items)
  /\ \A n \in DOMAIN items : items[n] = "done" => items'[n] = "done"
  /\ UNCHANGED <<strict, stage, stored>>

Store ==
  /\ stage = "open"
  /\ ~stored
  /\ strict => \A n \in DOMAIN items : items[n] = "done"
  /\ stored' = TRUE
  /\ UNCHANGED <<strict, stage, items>>

Finish ==
  /\ stage = "open"
  /\ stored
  /\ stage' \in {"completed", "incomplete"}
  /\ UNCHANGED <<strict, items, stored>>

Fail ==
  /\ stage = "open"
  /\ ~stored
  /\ stage' = "failed"
  /\ UNCHANGED <<strict, items, stored>>

Next == Create \/ Extend \/ Store \/ Finish \/ Fail

Spec == Init /\ [][Next]_vars
==============================================================================
