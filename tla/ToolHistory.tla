----------------------------- MODULE ToolHistory -----------------------------
(***************************************************************************)
(* How a /v1/responses request becomes the messages of a Chat Completions  *)
(* request: src/src/conversion/responses_to_chat.rs, with the checks of    *)
(* src/src/codex_chat_history.rs.                                          *)
(*                                                                         *)
(* The input items are of five kinds: "user", "system" and "text" (an      *)
(* assistant message) become messages, "call" is any of the three call     *)
(* items and "output" any of their outputs.  Their contents are abstracted *)
(* to a tag that says which request or response an item was first part of. *)
(* A message holds the items it was made of: one, or for an assistant      *)
(* message with tool_calls its calls.                                      *)
(***************************************************************************)
EXTENDS Naturals, Sequences, SequencesExt

NoId == ""
Item(kind, id, tag) == [kind |-> kind, id |-> id, tag |-> tag]
Message(role, items) == [role |-> role, items |-> items]

(* HistoryError, or the messages. *)
Refused == [ok |-> FALSE, messages |-> <<>>]
Accepted(messages) == [ok |-> TRUE, messages |-> messages]

Ids(items) == [i \in DOMAIN items |-> items[i].id]
IdSet(items) == {items[i].id : i \in DOMAIN items}

(* The elements of s that are in S, in their order. *)
Picked(s, S) ==
  LET pick[n \in 0..Len(s)] ==
        IF n = 0 THEN <<>> ELSE IF s[n] \in S THEN Append(pick[n - 1], s[n]) ELSE pick[n - 1]
  IN  pick[Len(s)]

OfKind(items, kind) == Picked(items, {x \in ToSet(items) : x.kind = kind})

------------------------------------------------------------------------------
(* extract_request: consecutive calls become one assistant message; the    *)
(* outputs are set aside.                                                  *)

RoleOf(item) ==
  CASE item.kind = "system" -> "system"
    [] item.kind = "text" -> "assistant"
    [] OTHER -> "user"

FlushCalls(acc) ==
  IF acc.calls = <<>>
  THEN acc
  ELSE [acc EXCEPT !.messages = Append(@, Message("assistant", acc.calls)),
                   !.calls = <<>>]

ExtractItem(acc, item) ==
  LET flushed == FlushCalls(acc)
  IN  CASE item.kind = "call" -> [acc EXCEPT !.calls = Append(@, item)]
        [] item.kind = "output" -> [flushed EXCEPT !.outputs = Append(@, item)]
        [] OTHER ->
             [flushed EXCEPT !.messages = Append(@, Message(RoleOf(item), <<item>>))]

NothingYet == [messages |-> <<>>, calls |-> <<>>, outputs |-> <<>>]

ExtractRequest(items) ==
  LET after[n \in 0..Len(items)] ==
        IF n = 0 THEN NothingYet ELSE ExtractItem(after[n - 1], items[n])
  IN  FlushCalls(after[Len(items)])

ToolMessages(outputs) == [i \in DOMAIN outputs |-> Message("tool", <<outputs[i]>>)]

------------------------------------------------------------------------------
(* The checks of the history.                                              *)

(* ensure_no_duplicate_call_outputs *)
NoDuplicateCallOutputs(ids) == \A i, j \in DOMAIN ids : ids[i] = ids[j] => i = j

ToolCalls(message) == IF message.role = "assistant" THEN OfKind(message.items, "call") ELSE <<>>

IsTool(message) == message.role = "tool"
CallIdOf(message) == message.items[1].id

(* validate_chat_tool_history: an output comes after its call, and once. *)
ValidChatToolHistory(messages) ==
  \A j \in DOMAIN messages : IsTool(messages[j]) =>
    /\ \E i \in 1..(j - 1) : CallIdOf(messages[j]) \in IdSet(ToolCalls(messages[i]))
    /\ \A i \in 1..(j - 1) : IsTool(messages[i]) => CallIdOf(messages[i]) # CallIdOf(messages[j])

(* repair_history: the outputs go after the stored messages. *)
RepairHistory(messages, outputs) ==
  LET repaired == messages \o ToolMessages(outputs)
  IN  IF NoDuplicateCallOutputs(Ids(outputs)) /\ ValidChatToolHistory(repaired)
      THEN Accepted(repaired) ELSE Refused

(* Mutant: as with a stored response, the outputs go last. *)
RepairAtTheEnd(messages, outputs) == RepairHistory(messages, outputs)

(* repair_stateless_history: each output goes after the message that calls *)
(* for it, in the order of the calls.                                      *)
Replay(m, outputs) ==
  LET of(call) == {o \in ToSet(outputs) : o.id = call.id}
  IN  FlattenSeq([k \in DOMAIN ToolCalls(m) |->
        ToolMessages(Picked(outputs, of(ToolCalls(m)[k])))])

RepairStatelessHistory(messages, outputs) ==
  LET repaired == FlattenSeq([i \in DOMAIN messages |->
                    <<messages[i]>> \o Replay(messages[i], outputs)])
      called == UNION {IdSet(ToolCalls(messages[i])) : i \in DOMAIN messages}
  IN  IF /\ NoDuplicateCallOutputs(Ids(outputs))
         /\ IdSet(outputs) \subseteq called
         /\ ValidChatToolHistory(repaired)
      THEN Accepted(repaired) ELSE Refused

(* normalize_upstream_roles: the system messages are joined and go first. *)
NormalizeUpstreamRoles(messages) ==
  LET system == Picked(messages, {m \in ToSet(messages) : m.role = "system"})
      rest == Picked(messages, {m \in ToSet(messages) : m.role # "system"})
  IN  IF system = <<>>
      THEN rest
      ELSE <<Message("system", FlattenSeq([i \in DOMAIN system |-> system[i].items]))>> \o rest

------------------------------------------------------------------------------
(* trim_self_contained_continuation_suffix: when the input repeats the     *)
(* call of every output, all up to the last output is already in the       *)
(* stored messages or in the outputs; only what follows is new.            *)
NewMessages(body, outputs) ==
  LET input == body.input
      matched == {j \in DOMAIN input : /\ input[j].kind = "output"
                    /\ \E i \in 1..(j - 1) : input[i].kind = "call" /\ input[i].id = input[j].id}
      latest == CHOOSE j \in matched : \A i \in matched : i <= j
  IN  IF {input[j].id : j \in matched} = IdSet(outputs)
      THEN ExtractRequest(SubSeq(input, latest + 1, Len(input))).messages
      ELSE ExtractRequest(body.instructions \o input).messages

(* build_chat_payload.  stored is the sequence of messages of the stored   *)
(* response, or <<>> when there is none.                                   *)
BuildChatPayload(body, stored) ==
  LET x == ExtractRequest(body.instructions \o body.input)
      replayed == RepairHistory(stored, x.outputs)
      merged ==
        CASE x.outputs = <<>> -> Accepted(stored \o x.messages)
          [] x.outputs # <<>> /\ stored = <<>> -> RepairStatelessHistory(x.messages, x.outputs)
          [] OTHER -> [replayed EXCEPT !.messages = @ \o NewMessages(body, x.outputs)]
      messages == NormalizeUpstreamRoles(
        IF merged.messages = <<>> THEN <<Message("user", <<>>)>> ELSE merged.messages)
  IN  IF merged.ok /\ ValidChatToolHistory(messages) THEN Accepted(messages) ELSE Refused

(* Mutant: a history that contains its calls is looked up all the same. *)
EveryOutputCallId(body) == Ids(OfKind(body.input, "output"))

(* function_output_call_ids of src/src/conversion/mod.rs: the outputs that *)
(* need a stored response.                                                 *)
FunctionOutputCallIds(body) ==
  LET ids == Ids(OfKind(body.input, "output"))
  IN  IF body.previous = 0 /\ ToSet(ids) \subseteq IdSet(OfKind(body.input, "call"))
      THEN <<>> ELSE ids
==============================================================================
