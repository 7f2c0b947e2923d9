----------------------------- MODULE Continuation -----------------------------
(***************************************************************************)
(* Conversations of several turns over the state store: src/src/state.rs,  *)
(* previous_response of src/src/server.rs, and what a finished response    *)
(* leaves in the store (build_response and finalize).                      *)
(*                                                                         *)
(* A client continues its conversation in one of four ways the adapter     *)
(* supports: with the previous_response_id or without it, sending the new  *)
(* items alone or after its whole history.  What is read from the store is *)
(* read before the upstream is awaited, and the answer is stored after, so *)
(* a client that gave up and asked again, or another client, may come      *)
(* between.  The store outlives the process; a row can be found until it   *)
(* is older than the TTL and is never deleted.                             *)
(***************************************************************************)
EXTENDS ToolHistory, FiniteSets

CONSTANTS
  Clients,
  CallIds,      \* ids the upstream, or the adapter for it, gives to tool calls
  Ttl,          \* CODEX_MIMO_STATE_TTL_SECONDS, in steps of the clock
  MaxRequests,  \* bound: requests that reach the upstream
  MaxCalls,     \* bound: tool calls in one response
  MaxClock      \* bound: steps of the clock

ASSUME BoundsAssumption ==
  /\ NoId \notin CallIds
  /\ Ttl \in Nat /\ MaxRequests \in Nat /\ MaxCalls \in Nat /\ MaxClock \in Nat

VARIABLES
  clock,     \* now_ts()
  askers,    \* who sent each request; a request and its response have one number
  rows,      \* the table `responses`: a row for each number that was stored
  upstream,  \* requests that wait for the upstream
  waits,     \* the request each client waits for, or 0
  last,      \* the last response each client got, or 0
  said,      \* the conversation, as each client knows it
  kept       \* history: nothing of it expired while it was continued by id

vars == <<clock, askers, rows, upstream, waits, last, said, kept>>

Init ==
  /\ clock = 0
  /\ askers = <<>>
  /\ rows = <<>>
  /\ upstream = {}
  /\ waits = [c \in Clients |-> 0]
  /\ last = [c \in Clients |-> 0]
  /\ said = [c \in Clients |-> <<>>]
  /\ kept = [c \in Clients |-> TRUE]

------------------------------------------------------------------------------
(* The state store.                                                        *)

(* created_at >= now_ts() - ttl_seconds, written without the subtraction. *)
Live(n) == n \in DOMAIN rows /\ rows[n].created + Ttl >= clock

LiveRows == {n \in DOMAIN rows : Live(n)}

(* Mutant: the first of several rows with the call is taken. *)
FindFirstByCallIds(ids) ==
  LET found == {n \in LiveRows : ToSet(ids) \subseteq ToSet(rows[n].pending)}
  IN  IF found = {} THEN 0 ELSE CHOOSE n \in found : \A m \in found : m >= n

(* find_by_call_ids: the one live row in which all the calls are pending,  *)
(* 0 when there is none or when any of the calls is pending in two.  The   *)
(* scan's order and its early returns do not change that.                  *)
FindByCallIds(ids) ==
  LET with(id) == {n \in LiveRows : id \in ToSet(rows[n].pending)}
      found == {n \in LiveRows : ToSet(ids) \subseteq ToSet(rows[n].pending)}
  IN  IF found # {} /\ \A id \in ToSet(ids) : Cardinality(with(id)) = 1
      THEN CHOOSE n \in found : TRUE ELSE 0

(* previous_response: the row to continue, 0 for none, or an error. *)
PreviousResponse(body) ==
  LET ids == FunctionOutputCallIds(body)
      n == IF body.previous # 0
           THEN IF Live(body.previous) THEN body.previous ELSE 0
           ELSE IF ids = <<>> THEN 0 ELSE FindByCallIds(ids)
  IN  [row |-> n,
       ok |-> /\ NoDuplicateCallOutputs(ids)
              /\ n = 0 => ids = <<>>
              /\ n # 0 => ToSet(ids) \subseteq ToSet(rows[n].pending)]

(* What both handlers do with a request before they call the upstream. *)
Prepare(body) ==
  LET previous == PreviousResponse(body)
  IN  IF previous.ok
      THEN BuildChatPayload(body, IF previous.row = 0 THEN <<>> ELSE rows[previous.row].messages)
      ELSE Refused

------------------------------------------------------------------------------
(* The client's side, as the protocol has it.                              *)

(* The calls of the last response; only they can be answered. *)
Due(c) ==
  OfKind(Picked(said[c], {x \in ToSet(said[c]) : x.tag = last[c]}), "call")

Outputs(calls, n) == [i \in DOMAIN calls |-> Item("output", calls[i].id, n)]

(* A turn says something, or answers some of the calls, or both. *)
Turns(c, n) ==
  LET user == <<Item("user", NoId, n)>>
      some == {Outputs(Picked(Due(c), {x \in ToSet(Due(c)) : x.id \in s}), n) :
                 s \in (SUBSET IdSet(Due(c))) \ {{}}}
  IN  {user} \cup some \cup {outs \o user : outs \in some}

Body(n, previous, input) ==
  [instructions |-> <<Item("system", NoId, n)>>, previous |-> previous, input |-> input]

(* The new items with previous_response_id, the whole history without it,  *)
(* and with outputs also the new items without it and the whole history    *)
(* with it.  Without outputs these two are not continuations: one begins a *)
(* new conversation, the other says everything twice.                      *)
Bodies(c, n, turn) ==
  {Body(n, last[c], turn), Body(n, 0, said[c] \o turn)} \cup
  IF OfKind(turn, "output") = <<>>
  THEN {} ELSE {Body(n, 0, turn), Body(n, last[c], said[c] \o turn)}

------------------------------------------------------------------------------
(* A request that is refused changes nothing, and the client may try       *)
(* another way.  `said` is what the client means the upstream to see.      *)
Ask(c) ==
  LET n == Len(askers) + 1 IN
  /\ waits[c] = 0
  /\ n <= MaxRequests
  /\ \E turn \in Turns(c, n) : \E body \in Bodies(c, n, turn) :
       /\ Prepare(body).ok
       /\ upstream' = upstream \cup
            {[number |-> n, client |-> c, body |-> body, at |-> clock,
              messages |-> Prepare(body).messages, said |-> said[c] \o turn,
              kept |-> \/ body.previous = 0 /\ body.input = said[c] \o turn
                       \/ kept[c] /\ Live(last[c])]}
  /\ askers' = Append(askers, c)
  /\ waits' = [waits EXCEPT ![c] = n]
  /\ UNCHANGED <<clock, rows, last, said, kept>>

(* The output of a response: its calls, or else its message. *)
Replies(n) ==
  {<<Item("text", NoId, n)>>} \cup
  {[i \in DOMAIN ids |-> Item("call", ids[i], n)] :
     ids \in {s \in SeqOf(CallIds, MaxCalls) : s # <<>> /\ NoDuplicateCallOutputs(s)}}

(* Mutant: an item that is no call is pending too. *)
EveryIdPending(output) == Ids(output)

PendingCallIds(output) == Ids(OfKind(output, "call"))

(* The upstream answered, and the response was stored before the client    *)
(* was told.  A stream is dated when it begins, a whole response when it   *)
(* ends.                                                                   *)
Finish(u) ==
  /\ \E output \in Replies(u.number), created \in {u.at, clock} :
       /\ rows' = [n \in DOMAIN rows \cup {u.number} |->
            IF n = u.number
            THEN [messages |-> Append(u.messages, Message("assistant", output)),
                  pending |-> PendingCallIds(output),
                  created |-> created, previous |-> u.body.previous]
            ELSE rows[n]]
       /\ IF waits[u.client] = u.number
          THEN /\ said' = [said EXCEPT ![u.client] = u.said \o output]
               /\ kept' = [kept EXCEPT ![u.client] = u.kept]
               /\ last' = [last EXCEPT ![u.client] = u.number]
               /\ waits' = [waits EXCEPT ![u.client] = 0]
          ELSE UNCHANGED <<said, kept, last, waits>>
  /\ upstream' = upstream \ {u}
  /\ UNCHANGED <<clock, askers>>

(* The upstream or the store failed, or a handler was dropped with its     *)
(* client: nothing is stored.                                              *)
Fail(u) ==
  /\ upstream' = upstream \ {u}
  /\ waits' = [waits EXCEPT ![u.client] = IF @ = u.number THEN 0 ELSE @]
  /\ UNCHANGED <<clock, askers, rows, last, said, kept>>

(* The client hangs up; the task of its stream goes on. *)
HangUp(c) ==
  /\ waits[c] # 0
  /\ waits' = [waits EXCEPT ![c] = 0]
  /\ UNCHANGED <<clock, askers, rows, upstream, last, said, kept>>

Tick ==
  /\ clock < MaxClock
  /\ clock' = clock + 1
  /\ UNCHANGED <<askers, rows, upstream, waits, last, said, kept>>

Crash ==
  /\ upstream # {}
  /\ upstream' = {}
  /\ waits' = [c \in Clients |-> 0]
  /\ UNCHANGED <<clock, askers, rows, last, said, kept>>

Next ==
  \/ \E c \in Clients : Ask(c) \/ HangUp(c)
  \/ \E u \in upstream : Finish(u) \/ Fail(u)
  \/ Tick \/ Crash

Spec == Init /\ [][Next]_vars

------------------------------------------------------------------------------
Numbers == 1..(MaxRequests + 1)  \* those of all requests, and of one more that could be asked
Items == [kind : {"user", "system", "text", "call", "output"},
          id : CallIds \cup {NoId}, tag : Numbers]
Messages == Seq([role : {"system", "user", "assistant", "tool"}, items : Seq(Items)])
Row == [messages : Messages, pending : Seq(CallIds), created : 0..MaxClock,
        previous : 0..MaxRequests]
Request == [number : 1..MaxRequests, client : Clients, at : 0..MaxClock, kept : BOOLEAN,
            body : [instructions : Seq(Items), previous : 0..MaxRequests, input : Seq(Items)],
            messages : Messages, said : Seq(Items)]

(* The type of the store, of the requests in flight and of the clients. *)
TypeOK ==
  /\ clock \in 0..MaxClock
  /\ askers \in Seq(Clients)
  /\ DOMAIN rows \subseteq DOMAIN askers /\ \A n \in DOMAIN rows : rows[n] \in Row
  /\ upstream \subseteq Request
  /\ waits \in [Clients -> 0..MaxRequests]
  /\ last \in [Clients -> 0..MaxRequests]
  /\ said \in [Clients -> Seq(Items)]
  /\ kept \in [Clients -> BOOLEAN]

------------------------------------------------------------------------------
(* What the messages of a payload say, instructions aside. *)
Spoken(messages) ==
  LET rest == Picked(messages, {m \in ToSet(messages) : m.role # "system"})
  IN  FlattenSeq([i \in DOMAIN rest |-> rest[i].items])

(* Whichever way a client continues, and whoever else uses the same call   *)
(* ids, retries or has left requests behind: a request that is accepted    *)
(* shows the upstream the client's conversation, each item once and in     *)
(* order, as long as it brings all of it or its responses had not expired  *)
(* when they were continued.                                               *)
UpstreamSeesConversation ==
  \A u \in upstream :
    u.kept => Spoken(u.messages) = u.said

(* In what is sent to the upstream, and in what is stored to be sent       *)
(* later, the outputs stand right behind the message that made their       *)
(* calls, wherever they stood in the request and whether the calls came    *)
(* from the store or from the request, and no call is answered twice: a    *)
(* chat completions server refuses anything else.                          *)
OutputsFollowCalls ==
  LET Answers(messages, i, j) ==
        /\ messages[i].role = "assistant"
        /\ \E k \in DOMAIN messages[i].items :
             messages[i].items[k].kind = "call" /\ messages[i].items[k].id = messages[j].items[1].id
        /\ \A k \in (i + 1)..(j - 1) : messages[k].role = "tool"
      Sound(messages) ==
        LET tools == {j \in DOMAIN messages : messages[j].role = "tool"}
        IN  /\ \A j \in tools : \E i \in 1..(j - 1) : Answers(messages, i, j)
            /\ \A i, j \in tools : messages[i].items[1].id = messages[j].items[1].id => i = j
  IN  /\ \A u \in upstream : Sound(u.messages)
      /\ \A n \in DOMAIN rows : Sound(rows[n].messages)

Fresh == Len(askers) + 1

(* The answer to all the calls of the last response, with its id, and      *)
(* without it after the whole history.                                     *)
Answer(c) == Body(Fresh, last[c], Outputs(Due(c), Fresh))
FullAnswer(c) == Body(Fresh, 0, said[c] \o Outputs(Due(c), Fresh))

RepeatsCallId(items) == ~NoDuplicateCallOutputs(Ids(OfKind(items, "call")))

(* The calls of the last response can be answered, with its id until it    *)
(* expires, with the whole history at any time, unless the upstream used a *)
(* call id twice in the conversation that is continued: the stored one, or *)
(* the history.  These differ when a response had expired and the client   *)
(* began anew or, by its call ids, went on with another's conversation     *)
(* (see NeverAnothersResponse).                                            *)
CallsCanBeAnswered ==
  \A c \in Clients : Due(c) # <<>> =>
    /\ Live(last[c]) /\ ~RepeatsCallId(Spoken(rows[last[c]].messages)) => Prepare(Answer(c)).ok
    /\ ~RepeatsCallId(said[c]) => Prepare(FullAnswer(c)).ok

(* docs/VALIDATION.zh-CN.md lists as a reason to stop and repair the       *)
(* adapter that the continuation of a tool output fails under a valid      *)
(* previous_response_id.                                                   *)
ValidContinuationSucceeds ==
  \A c \in Clients : Due(c) # <<>> /\ Live(last[c]) => Prepare(Answer(c)).ok

(* It lists too that a tool output is matched to another stored response:  *)
(* nothing of another client's conversation is ever sent with this one's.  *)
NeverAnothersResponse ==
  \A u \in upstream : \A i \in DOMAIN Spoken(u.messages) :
    askers[Spoken(u.messages)[i].tag] = u.client
==============================================================================
