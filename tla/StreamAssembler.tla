--------------------------- MODULE StreamAssembler ---------------------------
(***************************************************************************)
(* One streaming /v1/responses request: the StreamAssembler of             *)
(* src/src/conversion/stream_chat_to_responses.rs and the task of          *)
(* src/src/server.rs (stream_response) that drives it.                     *)
(*                                                                         *)
(* The assembler turns the upstream's Chat Completions deltas into the     *)
(* Responses events the client reads.  `asm` is the StreamAssembler struct *)
(* together with asm.out, everything emitted so far on the channel to the  *)
(* client.  Its methods are operators from one assembler record to the     *)
(* next, because a method's events and assignments are never interleaved   *)
(* with another's: a single task owns the assembler.  The task's loop is   *)
(* the next-state relation.                                                *)
(*                                                                         *)
(* One event stands for a group the code always emits back to back: "added" *)
(* is output_item.added with its part.added, "done" is the text.done,      *)
(* part.done and output_item.done of an item.  The sequence number of an   *)
(* event is its place in asm.out.                                          *)
(***************************************************************************)
EXTENDS Integers, Sequences, SequencesExt, ThinkText

CONSTANTS
  Indices,       \* values of a tool-call delta's "index", a set of naturals
  CallIds,       \* the tool-call ids the upstream may send
  FallbackId,    \* FallbackId[k] is the id call_{k} made up by the adapter
  Names,         \* the tool names the upstream may send
  BlankNames,    \* those of Names that are only whitespace
  CustomNames,   \* those of Names that are custom tools of the request
  FinishReasons, \* the finish_reason values the upstream may send
  Chunks,        \* the chunks the upstream may send
  MaxChunks      \* bound: chunks per stream

None == -1
NoText == ""     \* an absent or empty id, name or finish_reason

Ids == CallIds \cup {FallbackId[k] : k \in Indices}

ToolDelta == [index : Indices \cup {None}, id : CallIds \cup {NoText},
              name : Names \cup {NoText}, args : Text]

(* One choice of an upstream chunk.  calls is TRUE when the delta has a    *)
(* tool_calls array; its entry is `delta`.  An empty array and an entry    *)
(* without an index (which accept_tool_delta skips) are delta.index = None.*)
(* An array of several entries is several chunks: what the code does       *)
(* between two entries changes nothing the second time.                    *)
Chunk == [reasoning : Text, content : Text, calls : BOOLEAN,
          delta : ToolDelta, finish : FinishReasons \cup {NoText}]

IncompleteReasons == {"length", "max_tokens", "content_filter", "safety"}

ASSUME ConstantsAssumption ==
  /\ Indices \subseteq Nat
  /\ FallbackId \in [Indices -> STRING]
  /\ NoText \notin CallIds /\ \A k \in Indices : FallbackId[k] # NoText
  /\ NoText \notin Names /\ BlankNames \subseteq Names /\ CustomNames \subseteq Names
  /\ NoText \notin FinishReasons
  /\ Chunks \subseteq Chunk
  /\ MaxChunks \in Nat

VARIABLES
  asm,    \* the StreamAssembler
  phase,  \* where the task is
  todo,   \* tool_calls keys the loop of finalize has still to visit
  row,    \* the row StateStore holds for this response, or NoRow
  fed,    \* history: the chunks accepted so far
  ended   \* history: how the upstream's stream ended

vars == <<asm, phase, todo, row, fed, ended>>

NoRow == [stored |-> FALSE, content |-> <<>>, output |-> <<>>, pending |-> <<>>]

------------------------------------------------------------------------------
(* The assembler's record.                                                 *)

NewCall == [ix |-> None, id |-> NoText, name |-> NoText, args |-> <<>>,
            added |-> FALSE, done |-> FALSE]

NewAssembler(tools) ==
  [content |-> <<>>, reasoning |-> <<>>, calls |-> [k \in Indices |-> NewCall],
   finish |-> NoText, next |-> 0, textIx |-> None, reasoningIx |-> None,
   textDone |-> FALSE, reasoningDone |-> FALSE, terminal |-> NoText,
   think |-> "Detecting", buffer |-> <<>>, bufferText |-> tools,
   output |-> <<>>, pending |-> <<>>, out |-> <<>>]

ReasoningItem == [kind |-> "reasoning", id |-> NoText, name |-> NoText]
MessageItem == [kind |-> "message", id |-> NoText, name |-> NoText]
ToolItem(c) == [kind |-> "tool", id |-> c.id, name |-> c.name]
NoItem == [kind |-> "none", id |-> NoText, name |-> NoText]

Event(type, ix, item, text) ==
  [type |-> type, ix |-> ix, item |-> item, text |-> text]

Emit(s, e) == [s EXCEPT !.out = Append(@, e)]

(* Mutant: next_output_index is not advanced. *)
AddItemSameIndex(s, item) == Emit(s, Event("added", s.next, item, <<>>))

(* allocate_output_index and the output_item.added event that follows it.  *)
AddItem(s, item) ==
  [Emit(s, Event("added", s.next, item, <<>>)) EXCEPT !.next = @ + 1]

------------------------------------------------------------------------------
(* Reasoning and message items.                                            *)

PushReasoningDelta(s, delta) ==
  LET t == IF s.reasoningIx = None
           THEN [AddItem(s, ReasoningItem) EXCEPT !.reasoningIx = s.next]
           ELSE s
  IN  Emit([t EXCEPT !.reasoning = @ \o delta],
           Event("delta", t.reasoningIx, ReasoningItem, delta))

FinishReasoningItem(s) ==
  IF s.reasoningIx = None \/ s.reasoningDone
  THEN s
  ELSE [Emit(s, Event("done", s.reasoningIx, ReasoningItem, s.reasoning))
          EXCEPT !.reasoningDone = TRUE]

(* `if !self.reasoning.is_empty() && !self.reasoning_done` at its callers. *)
CloseReasoning(s) ==
  IF s.reasoning # <<>> /\ ~s.reasoningDone THEN FinishReasoningItem(s) ELSE s

EnsureTextStarted(s) ==
  IF s.textIx # None
  THEN s
  ELSE LET t == CloseReasoning(s)
       IN  [AddItem(t, MessageItem) EXCEPT !.textIx = t.next]

(* Mutant: the text is streamed although tools were offered. *)
PushTextDeltaUnbuffered(s, text) ==
  LET t == EnsureTextStarted(s)
  IN  Emit([t EXCEPT !.content = @ \o text],
           Event("delta", t.textIx, MessageItem, text))

PushTextDelta(s, text) ==
  IF s.bufferText
  THEN [s EXCEPT !.content = @ \o text]
  ELSE LET t == EnsureTextStarted(s)
       IN  Emit([t EXCEPT !.content = @ \o text],
                Event("delta", t.textIx, MessageItem, text))

(* Mutant: the buffered text is done without having been streamed. *)
FinishTextItemNoDelta(s) ==
  LET t == EnsureTextStarted(s)
  IN  IF s.content = <<>> \/ s.textDone
      THEN s
      ELSE [Emit(t, Event("done", t.textIx, MessageItem, t.content))
              EXCEPT !.textDone = TRUE]

FinishTextItem(s) ==
  IF s.content = <<>> \/ s.textDone
  THEN s
  ELSE LET t == EnsureTextStarted(s)
           u == IF t.bufferText
                THEN Emit(t, Event("delta", t.textIx, MessageItem, t.content))
                ELSE t
       IN  [Emit(u, Event("done", u.textIx, MessageItem, u.content))
              EXCEPT !.textDone = TRUE]

------------------------------------------------------------------------------
(* The leading <think> block.                                              *)

PushParts(s, parts) ==
  LET t == IF parts.reasoning = <<>> THEN s ELSE PushReasoningDelta(s, parts.reasoning)
      u == [t EXCEPT !.buffer = <<>>, !.think = "Done"]
  IN  IF parts.answer = <<>> THEN u ELSE PushTextDelta(u, parts.answer)

AcceptInThinkContent(s, text) ==
  LET joined == s.buffer \o text
      split == SplitIncompleteThinkCloseSuffix(joined)
      t == IF split.emit = <<>> THEN s ELSE PushReasoningDelta(s, split.emit)
  IN  IF HasClose(joined)
      THEN PushParts(s, SplitAtThinkClose(joined))
      ELSE [t EXCEPT !.buffer = split.keep]

DetectLeadingThink(s, text) ==
  LET joined == s.buffer \o text
      inside == StripLeadingThinkOpenTag(joined)
      opened == [s EXCEPT !.buffer = <<>>, !.think = "InThink"]
  IN  IF HasLeadingThinkBlock(joined)
      THEN PushParts(s, SplitLeadingThinkBlock(joined))
      ELSE IF HasLeadingOpen(joined)
      THEN IF inside = <<>> THEN opened ELSE AcceptInThinkContent(opened, inside)
      ELSE IF IsLeadingThinkPrefix(joined)
      THEN [s EXCEPT !.buffer = joined]
      ELSE PushTextDelta([s EXCEPT !.buffer = <<>>, !.think = "Done"], joined)

AcceptContentDelta(s, text) ==
  CASE s.think = "Done" -> PushTextDelta(s, text)
    [] s.think = "Detecting" -> DetectLeadingThink(s, text)
    [] s.think = "InThink" -> AcceptInThinkContent(s, text)

FlushPendingThinkBuffer(s) ==
  LET emptied == [s EXCEPT !.buffer = <<>>, !.think = "Done"]
  IN  CASE s.think = "Done" -> s
        [] s.think = "Detecting" ->
             IF s.buffer = <<>> THEN s ELSE PushTextDelta(emptied, s.buffer)
        [] s.think = "InThink" ->
             IF s.buffer = <<>> THEN emptied ELSE PushReasoningDelta(emptied, s.buffer)

DisableLeadingThinkDetection(s) ==
  [FlushPendingThinkBuffer(s) EXCEPT !.think = "Done"]

------------------------------------------------------------------------------
(* Tool calls.                                                             *)

(* canonicalize_json_string_if_parseable.  A letter stands for a complete  *)
(* JSON value, so a text parses when it is one letter amid whitespace, and *)
(* compacting it drops the whitespace.                                     *)
Canonical(args) ==
  IF Len(Trim(args)) = 1 /\ Trim(args)[1] \in Letters THEN Trim(args) ELSE args

(* is_custom_tool_chat_name: a request without tools has no custom tool. *)
IsCustom(s, name) == s.bufferText /\ name \in CustomNames

(* custom_tool_input_from_chat_arguments. *)
CustomInput(args) == IF IsBlank(args) THEN <<>> ELSE args

EmitToolArguments(s, k, part) ==
  LET c == s.calls[k]
  IN  IF part = <<>> \/ ~c.added \/ IsCustom(s, c.name) \/ c.ix = None
      THEN s
      ELSE Emit(s, Event("delta", c.ix, ToolItem(c), part))

StartTool(s, k) ==
  [AddItem(s, ToolItem(s.calls[k]))
     EXCEPT !.calls[k].ix = s.next, !.calls[k].added = TRUE]

(* Mutant: arguments that came before the id and the name are not sent. *)
EnsureToolStartedDropsArgs(s, k) ==
  LET c == s.calls[k]
  IN  IF c.added \/ c.id = NoText \/ c.name = NoText
      THEN s ELSE StartTool(CloseReasoning(s), k)

EnsureToolStarted(s, k) ==
  LET c == s.calls[k]
      t == IF ~s.bufferText /\ s.content # <<>> /\ ~s.textDone
           THEN FinishTextItem(s) ELSE s
  IN  IF c.added \/ c.id = NoText \/ c.name = NoText
      THEN s
      ELSE EmitToolArguments(StartTool(CloseReasoning(t), k), k, c.args)

(* Mutant: a call's id still changes after its item was announced. *)
MergeToolDeltaLateId(c, d) ==
  [c EXCEPT !.id = IF d.id # NoText THEN d.id ELSE @,
            !.name = IF d.name # NoText /\ ~c.added THEN d.name ELSE @,
            !.args = @ \o d.args]

(* Mutant: a new fragment of the arguments replaces the former ones. *)
MergeToolDeltaLastArgs(c, d) ==
  [c EXCEPT !.id = IF d.id # NoText /\ (~c.added \/ c.id = NoText) THEN d.id ELSE @,
            !.name = IF d.name # NoText /\ ~c.added THEN d.name ELSE @,
            !.args = IF d.args = <<>> THEN @ ELSE d.args]

(* The id and the name of a call can change until its item is announced.   *)
MergeToolDelta(c, d) ==
  [c EXCEPT !.id = IF d.id # NoText /\ (~c.added \/ c.id = NoText) THEN d.id ELSE @,
            !.name = IF d.name # NoText /\ ~c.added THEN d.name ELSE @,
            !.args = @ \o d.args]

AcceptToolDelta(s, d) ==
  IF d.index \notin Indices
  THEN s
  ELSE LET merged == [s EXCEPT !.calls[d.index] = MergeToolDelta(@, d)]
           started == EnsureToolStarted(merged, d.index)
       IN  IF s.calls[d.index].added
           THEN EmitToolArguments(started, d.index, d.args)
           ELSE started

HasToolOutput(s) ==
  \E k \in Indices :
    /\ ~s.calls[k].done
    /\ s.calls[k].name \notin BlankNames \cup {NoText}

HasSubstantiveOutput(s) ==
  \/ ~IsBlank(s.content) \/ ~IsBlank(s.reasoning) \/ ~IsBlank(s.buffer)
  \/ \E k \in Indices :
       \/ s.calls[k].added
       \/ ~IsBlank(s.calls[k].args)
       \/ s.calls[k].name \notin BlankNames \cup {NoText}

------------------------------------------------------------------------------
(* accept: one upstream chunk.                                             *)

AcceptReasoningField(s, c) ==
  IF c.reasoning = <<>>
  THEN s ELSE PushReasoningDelta(DisableLeadingThinkDetection(s), c.reasoning)

AcceptContentField(s, c) ==
  IF c.content = <<>> THEN s ELSE AcceptContentDelta(s, c.content)

AcceptCallsField(s, c) ==
  IF c.calls
  THEN AcceptToolDelta(CloseReasoning(FlushPendingThinkBuffer(s)), c.delta)
  ELSE s

Accept(s, c) ==
  LET t == AcceptCallsField(AcceptContentField(AcceptReasoningField(s, c), c), c)
  IN  IF c.finish = NoText THEN t ELSE [t EXCEPT !.finish = c.finish]

(* Mutant: a stream that breaks off is not marked. *)
MarkNothing(s) == s

MarkTruncatedAsLength(s) ==
  IF s.finish = NoText THEN [s EXCEPT !.finish = "length"] ELSE s

------------------------------------------------------------------------------
(* finalize, in the order of its three parts, and fail.                    *)

AddOutput(s, item, text) ==
  [s EXCEPT !.output = Append(@, [item |-> item, text |-> text])]

(* Mutant: the message of a response that calls a tool is put in its output. *)
FinalizeTextKeepsMessage(s) ==
  LET t == FlushPendingThinkBuffer(s)
      u == IF t.reasoning = <<>> THEN t ELSE FinishReasoningItem(t)
      v == IF u.content # <<>> /\ ~HasToolOutput(u) THEN FinishTextItem(u) ELSE u
      w == IF v.reasoning = <<>> THEN v ELSE AddOutput(v, ReasoningItem, v.reasoning)
  IN  IF w.content = <<>> THEN w ELSE AddOutput(w, MessageItem, w.content)

(* Mutant: the reasoning item is left open. *)
FinalizeTextOpenReasoning(s) ==
  LET t == FlushPendingThinkBuffer(s)
      shown == t.content # <<>> /\ ~HasToolOutput(t)
      v == IF shown THEN FinishTextItem(t) ELSE t
      w == IF v.reasoning = <<>> THEN v ELSE AddOutput(v, ReasoningItem, v.reasoning)
  IN  IF shown THEN AddOutput(w, MessageItem, w.content) ELSE w

FinalizeText(s) ==
  LET t == FlushPendingThinkBuffer(s)
      u == IF t.reasoning = <<>> THEN t ELSE FinishReasoningItem(t)
      shown == u.content # <<>> /\ ~HasToolOutput(u)
      v == IF shown THEN FinishTextItem(u) ELSE u
      w == IF v.reasoning = <<>> THEN v ELSE AddOutput(v, ReasoningItem, v.reasoning)
  IN  IF shown THEN AddOutput(w, MessageItem, w.content) ELSE w

(* Mutant: a call without an id is given none. *)
StartToolWithoutId(s, k) == StartTool(s, k)

(* start_tool_for_finalize. *)
StartToolForFinalize(s, k) ==
  StartTool([s EXCEPT !.calls[k].id = IF @ = NoText THEN FallbackId[k] ELSE @], k)

(* Mutant: the input of a custom tool is sent after its done event. *)
EmitToolDoneThenDelta(s, k) ==
  LET c == s.calls[k]
      args == Canonical(c.args)
      input == CustomInput(args)
      text == IF IsCustom(s, c.name) THEN input ELSE args
      t == Emit(s, Event("done", c.ix, ToolItem(c), text))
      u == IF IsCustom(s, c.name) /\ input # <<>>
           THEN Emit(t, Event("delta", c.ix, ToolItem(c), input)) ELSE t
  IN  AddOutput(u, ToolItem(c), text)

EmitToolDone(s, k) ==
  LET c == s.calls[k]
      args == Canonical(c.args)
      input == CustomInput(args)
      item == ToolItem(c)
      t == IF IsCustom(s, c.name) /\ input # <<>>
           THEN Emit(s, Event("delta", c.ix, item, input)) ELSE s
      text == IF IsCustom(s, c.name) THEN input ELSE args
  IN  AddOutput(Emit(t, Event("done", c.ix, item, text)), item, text)

FinalizeTool(s, k) ==
  LET t == IF s.calls[k].added THEN s ELSE StartToolForFinalize(s, k)
      marked == [t EXCEPT !.calls[k].done = TRUE,
                          !.pending = Append(@, t.calls[k].id)]
  IN  CASE s.calls[k].done -> s
        [] ~s.calls[k].done /\ s.calls[k].name = NoText ->
             [s EXCEPT !.calls[k].done = TRUE]
        [] OTHER -> EmitToolDone(marked, k)

(* completion_status. *)
CompletionStatus(finish) ==
  IF finish \in IncompleteReasons THEN "incomplete" ELSE "completed"

EmitTerminal(s, status) ==
  [Emit(s, Event(status, None, NoItem, <<>>)) EXCEPT !.terminal = status]

Fail(s) == IF s.terminal # NoText THEN s ELSE EmitTerminal(s, "failed")
------------------------------------------------------------------------------
(* The task spawned by stream_response.                                    *)

Init ==
  /\ \E tools \in BOOLEAN : asm = NewAssembler(tools)
  /\ phase = "spawned"
  /\ todo = {}
  /\ row = NoRow
  /\ fed = <<>>
  /\ ended = "no"

(* assembler.start(): response.created and response.in_progress. *)
Start ==
  /\ phase = "spawned"
  /\ asm' = Emit(Emit(asm, Event("created", None, NoItem, <<>>)),
                 Event("in_progress", None, NoItem, <<>>))
  /\ phase' = "acquiring"
  /\ UNCHANGED <<todo, row, fed, ended>>

AcquirePermit ==
  /\ phase = "acquiring"
  /\ phase' = "connecting"
  /\ UNCHANGED <<asm, todo, row, fed, ended>>

(* Mutant: an error path sends [DONE] without response.failed. *)
CloseSilently(how) ==
  /\ phase' = "closed"
  /\ ended' = how
  /\ UNCHANGED <<asm, todo, row, fed>>

(* fail(..) followed by [DONE] and the end of the task: the response to    *)
(* every error of the task.                                                *)
FailAndClose(how) ==
  /\ asm' = Fail(asm)
  /\ phase' = "closed"
  /\ ended' = how
  /\ UNCHANGED <<todo, row, fed>>

(* try_acquire_owned found no permit. *)
RateLimited == phase = "acquiring" /\ FailAndClose("no")

(* chat_stream returned an error or a non-2xx status. *)
UpstreamRefused == phase = "connecting" /\ FailAndClose("no")

UpstreamAccepted ==
  /\ phase = "connecting"
  /\ phase' = "streaming"
  /\ UNCHANGED <<asm, todo, row, fed, ended>>

AcceptChunk ==
  /\ phase = "streaming"
  /\ Len(fed) < MaxChunks
  /\ \E c \in Chunks : asm' = Accept(asm, c) /\ fed' = Append(fed, c)
  /\ UNCHANGED <<phase, todo, row, ended>>

(* event: error, a JSON error, data that is not JSON, or a failed read. *)
UpstreamError == phase = "streaming" /\ FailAndClose("error")

(* finalize up to its loop over the tool calls. *)
BeginFinalize(s, how) ==
  /\ asm' = FinalizeText(s)
  /\ todo' = Indices
  /\ phase' = "finalizing"
  /\ ended' = how
  /\ UNCHANGED <<row, fed>>

UpstreamDone == phase = "streaming" /\ BeginFinalize(asm, "done")

(* The body ended without [DONE]. *)
EofFinished ==
  /\ phase = "streaming"
  /\ asm.finish # NoText
  /\ BeginFinalize(asm, "eof")

EofTruncated ==
  /\ phase = "streaming"
  /\ asm.finish = NoText
  /\ HasSubstantiveOutput(asm)
  /\ BeginFinalize(MarkTruncatedAsLength(asm), "eof")

EofEmpty ==
  /\ phase = "streaming"
  /\ asm.finish = NoText
  /\ ~HasSubstantiveOutput(asm)
  /\ FailAndClose("eof")

(* One turn of finalize's loop, in the order of the BTreeMap's keys. *)
FinalizeNextTool ==
  /\ phase = "finalizing"
  /\ \E k \in todo :
       /\ \A j \in todo : k <= j
       /\ asm' = FinalizeTool(asm, k)
       /\ todo' = todo \ {k}
  /\ UNCHANGED <<phase, row, fed, ended>>

(* state_put succeeded; its error makes finalize return and the task fail. *)
StatePut ==
  /\ phase = "finalizing"
  /\ todo = {}
  /\ row' = [stored |-> TRUE, content |-> asm.content,
             output |-> asm.output, pending |-> asm.pending]
  /\ phase' = "stored"
  /\ UNCHANGED <<asm, todo, fed, ended>>

(* Mutant: the error of state_put is ignored. *)
StatePutErrorIgnored ==
  /\ phase = "finalizing"
  /\ todo = {}
  /\ phase' = "stored"
  /\ UNCHANGED <<asm, todo, row, fed, ended>>

StatePutFails ==
  /\ phase = "finalizing"
  /\ todo = {}
  /\ FailAndClose(ended)

(* Mutant: the terminal event is only sent when there was a finish_reason. *)
CompleteIfFinished ==
  /\ phase = "stored"
  /\ asm.finish # NoText
  /\ asm' = EmitTerminal(asm, CompletionStatus(asm.finish))
  /\ phase' = "closed"
  /\ UNCHANGED <<todo, row, fed, ended>>

Complete ==
  /\ phase = "stored"
  /\ asm' = EmitTerminal(asm, CompletionStatus(asm.finish))
  /\ phase' = "closed"
  /\ UNCHANGED <<todo, row, fed, ended>>

(* [DONE] has been sent and the task has returned. *)
Closed == phase = "closed" /\ UNCHANGED vars

TaskStep ==
  \/ Start \/ AcquirePermit \/ RateLimited
  \/ UpstreamAccepted \/ UpstreamRefused
  \/ AcceptChunk \/ UpstreamError \/ UpstreamDone
  \/ EofFinished \/ EofTruncated \/ EofEmpty
  \/ FinalizeNextTool \/ StatePut \/ StatePutFails \/ Complete

Next == TaskStep \/ Closed

Spec == Init /\ [][Next]_vars

(* The runtime polls the task, and the client's read timeout ends a silent *)
(* upstream: some step is always taken.                                    *)
FairSpec == Spec /\ WF_vars(TaskStep)

------------------------------------------------------------------------------
(* Type invariant.                                                         *)

Item == [kind : {"reasoning", "message", "tool", "none"},
         id : Ids \cup {NoText}, name : Names \cup {NoText}]

Terminals == {"completed", "incomplete", "failed"}
EventTypes == {"created", "in_progress", "added", "delta", "done"} \cup Terminals

Call == [ix : Nat \cup {None}, id : Ids \cup {NoText}, name : Names \cup {NoText},
         args : Text, added : BOOLEAN, done : BOOLEAN]

Output == [item : Item, text : Text]

Assembler ==
  [content : Text, reasoning : Text, calls : [Indices -> Call],
   finish : FinishReasons \cup {NoText, "length"}, next : Nat,
   textIx : Nat \cup {None}, reasoningIx : Nat \cup {None},
   textDone : BOOLEAN, reasoningDone : BOOLEAN, terminal : Terminals \cup {NoText},
   think : {"Detecting", "InThink", "Done"}, buffer : Text, bufferText : BOOLEAN,
   output : Seq(Output), pending : Seq(Ids),
   out : Seq([type : EventTypes, ix : Nat \cup {None}, item : Item, text : Text])]

(* The type of every variable of the streaming task and of the struct it   *)
(* owns.                                                                   *)
TypeOK ==
  /\ asm \in Assembler
  /\ phase \in {"spawned", "acquiring", "connecting", "streaming",
                "finalizing", "stored", "closed"}
  /\ todo \subseteq Indices
  /\ row \in [stored : BOOLEAN, content : Text, output : Seq(Output), pending : Seq(Ids)]
  /\ fed \in Seq(Chunk)
  /\ ended \in {"no", "done", "eof", "error"}

------------------------------------------------------------------------------
(* Safety.  `At` is the set of places in the client's event stream where   *)
(* events of one type stand.                                               *)

At(type) == {i \in DOMAIN asm.out : asm.out[i].type = type}

(* However the stream ends, the client reads exactly one terminal event,   *)
(* it is the last one before [DONE], and no stream is closed without it    *)
(* (the "silent disconnect" docs/COMPATIBILITY.md promises to avoid).      *)
TerminalIsLast ==
  /\ \A i \in DOMAIN asm.out :
       asm.out[i].type \in Terminals => i = Len(asm.out) /\ phase = "closed"
  /\ phase = "closed" => \E i \in DOMAIN asm.out : asm.out[i].type \in Terminals

(* Output indices are handed out once each, in the order the items are     *)
(* announced: two items never share an output_index and none is skipped.   *)
OutputIndicesUnique ==
  /\ \A i, j \in At("added") : i < j => asm.out[i].ix < asm.out[j].ix
  /\ {asm.out[i].ix : i \in At("added")} = 0..(asm.next - 1)

(* Every delta and every done event is about an item announced before it   *)
(* under the same output_index, call id and name, even when the upstream   *)
(* changes the id or the name of a call halfway; an item is done once.     *)
ItemsAnnounced ==
  /\ \A j \in At("delta") \cup At("done") : \E i \in At("added") :
       i < j /\ asm.out[i].ix = asm.out[j].ix /\ asm.out[i].item = asm.out[j].item
  /\ \A i, j \in At("done") : asm.out[i].ix = asm.out[j].ix => i = j

(* The texts of the deltas of item ix among the first n events. *)
DeltaText(e, ix) == IF e.type = "delta" /\ e.ix = ix THEN e.text ELSE <<>>
Streamed(ix, n) == FlattenSeq([i \in 1..n |-> DeltaText(asm.out[i], ix)])

(* What a client assembles from the deltas of an item is the text the done *)
(* event gives: no fragment is lost, doubled or reordered, whichever chunk *)
(* announced the item.  A call announced only at finalize has no deltas.   *)
DoneTextIsStreamed ==
  \A j \in At("done") :
    LET e == asm.out[j]
        text == Streamed(e.ix, j)
    IN  \/ e.text = text
        \/ e.item.kind = "tool" /\ (text = <<>> \/ e.text = Canonical(text))

(* The arguments fed for key k, in order. *)
ArgsFor(c, k) == IF c.calls /\ c.delta.index = k THEN c.delta.args ELSE <<>>
FedArgs(k) == FlattenSeq([i \in DOMAIN fed |-> ArgsFor(fed[i], k)])

(* The stored output ends with its tool calls, one pending call for each   *)
(* named key in the order of the keys, and each call carries all the       *)
(* argument fragments of its key, in order.                                *)
StoredCallsComplete ==
  row.stored =>
    LET named == {k \in Indices : asm.calls[k].name # NoText}
        before == Len(row.output) - Len(row.pending)
        Text4(k) == IF IsCustom(asm, asm.calls[k].name)
                    THEN CustomInput(Canonical(FedArgs(k))) ELSE Canonical(FedArgs(k))
    IN  /\ Len(row.pending) = Cardinality(named) /\ before >= 0
        /\ \A i \in DOMAIN row.output : row.output[i].item.kind = "tool" <=> i > before
        /\ \A k \in named : LET n == Cardinality({j \in named : j <= k}) IN
             /\ row.output[before + n] = [item |-> ToolItem(asm.calls[k]), text |-> Text4(k)]
             /\ row.pending[n] = asm.calls[k].id

(* The upstream resumes its reasoning after it has answered or called.     *)
ResumesReasoning ==
  \E i, j \in DOMAIN fed :
    i < j /\ fed[j].reasoning # <<>> /\ (fed[i].content # <<>> \/ fed[i].calls)

(* With tools offered, nothing is added to a message or a call the client  *)
(* has been told is done; nor to the reasoning, unless the upstream goes   *)
(* back to reasoning after it began to answer.                             *)
NoLateDeltas ==
  asm.bufferText =>
    \A i \in At("done"), j \in At("delta") :
      i < j /\ asm.out[i].ix = asm.out[j].ix =>
        asm.out[i].item = ReasoningItem /\ ResumesReasoning

(* The final response lists exactly the items the client saw done, with    *)
(* the same texts, and none is left open.                                  *)
OutputIsWhatWasStreamed ==
  row.stored /\ asm.bufferText /\ ~ResumesReasoning =>
    /\ ToSet(row.output) = {[item |-> asm.out[i].item, text |-> asm.out[i].text] :
                               i \in At("done")}
    /\ Len(row.output) = asm.next

(* "Tool-enabled streaming text buffering to avoid content-before-tool     *)
(* adoption issues" (docs/ROADMAP.md): the client is never shown a message *)
(* in a response that calls a tool.                                        *)
TextHeldBack ==
  asm.bufferText =>
    \A i, j \in At("added") :
      asm.out[i].item.kind = "message" /\ asm.out[j].item.kind = "tool" =>
        asm.out[j].item.name \in BlankNames

(* A response the client sees completed or incomplete can be continued:    *)
(* its row was stored first.  One that failed left no row.                 *)
StoredIffFinished ==
  /\ asm.terminal \in {"completed", "incomplete"} => row.stored
  /\ asm.terminal = "failed" => ~row.stored

(* An upstream that breaks off without a finish_reason is never reported   *)
(* as a completed response.                                                *)
NoSilentTruncation ==
  asm.terminal = "completed" =>
    ended = "done" \/ \E i \in DOMAIN fed : fed[i].finish # NoText

(* A text less its whitespace. *)
Ink(t) == FlattenSeq([i \in DOMAIN t |-> IF t[i] = "ws" THEN <<>> ELSE <<t[i]>>])
Fed == FlattenSeq([i \in DOMAIN fed |-> fed[i].content])
OnlyContent == \A i \in DOMAIN fed : fed[i].reasoning = <<>> /\ ~fed[i].calls

(* t may open the block, and ends in "<" and whitespace.  The chunk that   *)
(* opens the block is trimmed: if it ends like this and the next one       *)
(* begins with "/think>", the stream closes the block where the whole      *)
(* answer has no tag.                                                      *)
OpensBare(t) == "think>" \in ToSet(t) /\ EndsInCloseSuffix(TrimEnd(t)) /\ ~EndsInCloseSuffix(t)
NoneOpensBare == \A i \in DOMAIN fed : ~OpensBare(fed[i].content)

(* What build_response (chat_to_responses.rs) makes of a whole answer that *)
(* comes without a reasoning field.                                        *)
WholeAnswer(t) ==
  IF HasLeadingThinkBlock(t)
  THEN SplitLeadingThinkBlock(t)
  ELSE [reasoning |-> <<>>, answer |-> t]

(* The answer opens a leading block and never closes it. *)
UnclosedBlock(t) == HasLeadingOpen(t) /\ ~HasClose(AfterLeadingOpen(t))

(* However the upstream cuts its answer into chunks, in particular inside  *)
(* a tag, the reasoning and the answer the stream makes of it are, up to   *)
(* whitespace, those that build_response finds in the whole answer (an     *)
(* answer without a leading tag is kept to the letter).  An answer that    *)
(* opens the block and never closes it is told otherwise: build_response   *)
(* leaves all of it, the tag included, in the message, while the stream    *)
(* stays inside the block and finalize flushes it, so all that follows the *)
(* tag is reasoning and there is no message, wherever the cuts fall.  Left *)
(* out is a chunk that opens the block and ends in "<" and whitespace.     *)
ChunkingInvisible ==
  row.stored /\ OnlyContent /\ NoneOpensBare =>
    /\ UnclosedBlock(Fed) =>
         Ink(asm.reasoning) = Ink(AfterLeadingOpen(Fed)) /\ row.content = <<>>
    /\ ~UnclosedBlock(Fed) =>
         LET whole == WholeAnswer(Fed)
         IN  Ink(asm.reasoning) = Ink(whole.reasoning) /\ Ink(row.content) = Ink(whole.answer)
    /\ ~HasLeadingOpen(Fed) => row.content = Fed /\ asm.reasoning = <<>>

------------------------------------------------------------------------------
(* Liveness: a stream that was started is brought to its end, whatever the *)
(* upstream sends or fails to send, by one of the task's error paths if    *)
(* not by finalize.                                                        *)
EventuallyClosed == <>(phase = "closed")

------------------------------------------------------------------------------
(* The task implements ResponsesStream.                                    *)

IsDone(ix) == \E i \in At("done") : asm.out[i].ix = ix

Stream == INSTANCE ResponsesStream WITH
  strict <- asm.bufferText,
  stage <- CASE phase = "spawned" -> "new"
             [] phase = "closed" -> asm.terminal
             [] OTHER -> "open",
  items <- [n \in 1..asm.next |-> IF IsDone(n - 1) THEN "done" ELSE "open"],
  stored <- row.stored

(* Every step of the task is a step of ResponsesStream: items are only     *)
(* announced and closed, the row is written with everything closed, and    *)
(* the stream ends as the row says.                                        *)
ImplementsResponsesStream == Stream!Spec
==============================================================================
