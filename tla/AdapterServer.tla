---------------------------- MODULE AdapterServer ----------------------------
(***************************************************************************)
(* The HTTP server of src/src/server.rs and src/src/main.rs: concurrent    *)
(* /v1/responses requests, streaming and not, that share one semaphore and *)
(* a SQLite state store, with clients that hang up, upstreams that fail,   *)
(* a graceful shutdown, a crash and a restart.                             *)
(*                                                                         *)
(* A streaming request is a task of its own (module StreamAssembler); here *)
(* only its beginning and its end matter.  What separates two steps is an  *)
(* await of the code: between two awaits a handler or task is one step.    *)
(* Requests refused before any of this (bad JSON, bad route, bad token,    *)
(* oversized body) never touch the shared state and are not modelled here. *)
(***************************************************************************)
EXTENDS Naturals, Sequences, FiniteSets

CONSTANTS
  Requests,               \* the requests clients may send, each once
  CliLimit,               \* --max-concurrency, or 0 when it is not given
  EnvLimit,               \* CODEX_MIMO_MAX_CONCURRENCY of the profile, or 0
  DefaultMaxConcurrency,  \* config.rs: DEFAULT_MAX_CONCURRENCY
  MaxStarts               \* bound: times the adapter is started

ASSUME LimitsAssumption ==
  /\ IsFiniteSet(Requests)
  /\ CliLimit \in Nat /\ EnvLimit \in Nat
  /\ DefaultMaxConcurrency \in Nat \ {0}
  /\ MaxStarts \in Nat \ {0}

VARIABLES
  server,   \* "up", "draining" after ctrl-c, or "down"
  starts,   \* how many times the adapter was started
  permits,  \* permits left in AppState.capacity
  kind,     \* "stream" or "whole" for each request
  pc,       \* where the adapter is with each request
  client,   \* "waiting" for the reply, "gone", or not there yet
  queue,    \* sent by the adapter, not yet read by the client
  view,     \* read by the client
  rows      \* requests whose response is in the state store

vars == <<server, starts, permits, kind, pc, client, queue, view, rows>>

(* run_server sizes the semaphore from the command line alone. *)
MaxConcurrency == IF CliLimit # 0 THEN CliLimit ELSE DefaultMaxConcurrency

Init ==
  /\ server = "up"
  /\ starts = 1
  /\ permits = MaxConcurrency
  /\ kind \in [Requests -> {"stream", "whole"}]
  /\ pc = [r \in Requests |-> "idle"]
  /\ client = [r \in Requests |-> "none"]
  /\ queue = [r \in Requests |-> <<>>]
  /\ view = [r \in Requests |-> <<>>]
  /\ rows = {}

------------------------------------------------------------------------------
(* Sending on the channel of a client that hung up is not an error: the    *)
(* result of tx.send is ignored.                                           *)
Send(r, events) ==
  queue' = [queue EXCEPT ![r] = IF client[r] = "gone" THEN <<>> ELSE @ \o events]

Goto(r, l) == pc' = [pc EXCEPT ![r] = l]

Acquire == permits > 0 /\ permits' = permits - 1
Release == permits' = permits + 1

Accepts(r, k) ==
  /\ server = "up"
  /\ pc[r] = "idle" /\ kind[r] = k
  /\ client' = [client EXCEPT ![r] = "waiting"]

Reply(events) == events \o <<"[DONE]">>

(* The streaming handler: the history or the media guard refuses the       *)
(* request with a whole failed stream, or the task is spawned.             *)
RefuseStream(r) ==
  /\ Accepts(r, "stream")
  /\ Goto(r, "ended")
  /\ queue' = [queue EXCEPT ![r] = Reply(<<"created", "failed">>)]
  /\ UNCHANGED <<server, starts, permits, kind, view, rows>>

SpawnStream(r) ==
  /\ Accepts(r, "stream")
  /\ Goto(r, "spawned")
  /\ UNCHANGED <<server, starts, permits, kind, queue, view, rows>>

(* The task up to its first await: the events of start() come first, then  *)
(* the permit.                                                             *)
StartStream(r) ==
  /\ pc[r] = "spawned"
  /\ Acquire
  /\ Send(r, <<"created">>)
  /\ Goto(r, "upstream")
  /\ UNCHANGED <<server, starts, kind, client, view, rows>>

(* Mutant: the task fails before assembler.start(). *)
LimitStreamUnannounced(r) ==
  /\ pc[r] = "spawned"
  /\ permits = 0
  /\ Send(r, Reply(<<"failed">>))
  /\ Goto(r, "ended")
  /\ UNCHANGED <<server, starts, permits, kind, client, view, rows>>

LimitStream(r) ==
  /\ pc[r] = "spawned"
  /\ permits = 0
  /\ Send(r, Reply(<<"created", "failed">>))
  /\ Goto(r, "ended")
  /\ UNCHANGED <<server, starts, permits, kind, client, view, rows>>

(* Mutant: the task returns without [DONE]. *)
EndStreamNotDone(r, store, status) ==
  /\ pc[r] = "upstream" /\ kind[r] = "stream"
  /\ Release
  /\ rows' = IF store THEN rows \cup {r} ELSE rows
  /\ Send(r, <<status>>)
  /\ Goto(r, "ended")
  /\ UNCHANGED <<server, starts, kind, client, view>>

(* Mutant: a task cannot end while its channel has no reader. *)
EndStreamToReader(r, store, status) ==
  /\ pc[r] = "upstream" /\ kind[r] = "stream"
  /\ client[r] = "waiting"
  /\ Release
  /\ rows' = IF store THEN rows \cup {r} ELSE rows
  /\ Send(r, Reply(<<status>>))
  /\ Goto(r, "ended")
  /\ UNCHANGED <<server, starts, kind, client, view>>

(* The end of the task, whether or not the client is still there.  The     *)
(* permit is dropped when the task returns.                                *)
EndStream(r, store, status) ==
  /\ pc[r] = "upstream" /\ kind[r] = "stream"
  /\ Release
  /\ rows' = IF store THEN rows \cup {r} ELSE rows
  /\ Send(r, Reply(<<status>>))
  /\ Goto(r, "ended")
  /\ UNCHANGED <<server, starts, kind, client, view>>

(* Mutants: completed without a row, failed with one. *)
FinishStreamUnstored(r) == EndStream(r, FALSE, "completed")
FailStreamStored(r) == EndStream(r, TRUE, "failed")

(* finalize stored the response; or the upstream, or the store, failed. *)
FinishStream(r) == EndStream(r, TRUE, "completed")
FailStream(r) == EndStream(r, FALSE, "failed")

------------------------------------------------------------------------------
(* complete_response has one await, the upstream call, and gives the       *)
(* permit back right after it.                                             *)
RefuseWhole(r) ==
  /\ Accepts(r, "whole")
  /\ Goto(r, "ended")
  /\ queue' = [queue EXCEPT ![r] = <<"failed">>]
  /\ UNCHANGED <<server, starts, permits, kind, view, rows>>

StartWhole(r) ==
  /\ Accepts(r, "whole")
  /\ Acquire
  /\ Goto(r, "upstream")
  /\ UNCHANGED <<server, starts, kind, queue, view, rows>>

LimitWhole(r) ==
  /\ Accepts(r, "whole")
  /\ permits = 0
  /\ Goto(r, "ended")
  /\ queue' = [queue EXCEPT ![r] = <<"error">>]
  /\ UNCHANGED <<server, starts, permits, kind, view, rows>>

EndWhole(r, store, status) ==
  /\ pc[r] = "upstream" /\ kind[r] = "whole"
  /\ Release
  /\ rows' = IF store THEN rows \cup {r} ELSE rows
  /\ Send(r, <<status>>)
  /\ Goto(r, "ended")
  /\ UNCHANGED <<server, starts, kind, client, view>>

FinishWhole(r) == EndWhole(r, TRUE, "completed")
FailWhole(r) == EndWhole(r, FALSE, "failed")

------------------------------------------------------------------------------
(* The client.                                                             *)

IsEnd(r, e) == e = "[DONE]" \/ kind[r] = "whole"
Answered(r) == view[r] # <<>> /\ IsEnd(r, view[r][Len(view[r])])

(* Mutant: ctrl-c cuts the open connections. *)
DeliverWhileUp(r) ==
  /\ server = "up"
  /\ client[r] = "waiting" /\ queue[r] # <<>>
  /\ view' = [view EXCEPT ![r] = Append(@, Head(queue[r]))]
  /\ queue' = [queue EXCEPT ![r] = Tail(@)]
  /\ UNCHANGED <<server, starts, permits, kind, pc, client, rows>>

Deliver(r) ==
  /\ server # "down"
  /\ client[r] = "waiting" /\ queue[r] # <<>>
  /\ view' = [view EXCEPT ![r] = Append(@, Head(queue[r]))]
  /\ queue' = [queue EXCEPT ![r] = Tail(@)]
  /\ UNCHANGED <<server, starts, permits, kind, pc, client, rows>>

(* Mutant: the permit of a dropped handler is not given back. *)
HangUpKeepsPermit(r) ==
  /\ client[r] = "waiting" /\ ~Answered(r) /\ server # "down"
  /\ client' = [client EXCEPT ![r] = "gone"]
  /\ queue' = [queue EXCEPT ![r] = <<>>]
  /\ IF pc[r] = "upstream" /\ kind[r] = "whole"
     THEN Goto(r, "dropped") ELSE UNCHANGED pc
  /\ UNCHANGED <<server, starts, permits, kind, view, rows>>

(* The client hangs up.  A handler that waits for the upstream is dropped  *)
(* with its permit; a spawned stream task is not told.                     *)
HangUp(r) ==
  /\ client[r] = "waiting" /\ ~Answered(r) /\ server # "down"
  /\ client' = [client EXCEPT ![r] = "gone"]
  /\ queue' = [queue EXCEPT ![r] = <<>>]
  /\ IF pc[r] = "upstream" /\ kind[r] = "whole"
     THEN Release /\ Goto(r, "dropped")
     ELSE UNCHANGED <<permits, pc>>
  /\ UNCHANGED <<server, starts, kind, view, rows>>

------------------------------------------------------------------------------
(* The process.                                                            *)

(* ctrl-c: no new requests; open connections are served to their end. *)
Shutdown ==
  /\ server = "up"
  /\ server' = "draining"
  /\ UNCHANGED <<starts, permits, kind, pc, client, queue, view, rows>>

Running == {r \in Requests : pc[r] \in {"spawned", "upstream"}}

(* What is in memory is lost: tasks, permits, unread events. *)
Stop ==
  /\ server' = "down"
  /\ pc' = [r \in Requests |-> IF r \in Running THEN "lost" ELSE pc[r]]
  /\ queue' = [r \in Requests |-> <<>>]
  /\ UNCHANGED <<starts, permits, kind, client, view, rows>>

(* A task whose client is gone does not hold up the exit. *)
Exit ==
  /\ server = "draining"
  /\ \A r \in Requests : client[r] = "waiting" => Answered(r)
  /\ Stop

Crash == server # "down" /\ Stop

(* Mutant: a restart adds its permits to those of the former process. *)
RestartAddsPermits ==
  /\ server = "down"
  /\ starts < MaxStarts
  /\ starts' = starts + 1
  /\ server' = "up"
  /\ permits' = permits + MaxConcurrency
  /\ client' = [r \in Requests |-> IF client[r] = "waiting" THEN "gone" ELSE client[r]]
  /\ UNCHANGED <<kind, pc, queue, view, rows>>

Restart ==
  /\ server = "down"
  /\ starts < MaxStarts
  /\ starts' = starts + 1
  /\ server' = "up"
  /\ permits' = MaxConcurrency
  /\ client' = [r \in Requests |-> IF client[r] = "waiting" THEN "gone" ELSE client[r]]
  /\ UNCHANGED <<kind, pc, queue, view, rows>>

------------------------------------------------------------------------------
(* What the adapter and the network do for request r; a client may also    *)
(* hang up or never come.                                                  *)
Handle(r) ==
  \/ StartStream(r) \/ LimitStream(r) \/ FinishStream(r) \/ FailStream(r)
  \/ FinishWhole(r) \/ FailWhole(r) \/ Deliver(r)

Arrive(r) ==
  \/ RefuseStream(r) \/ SpawnStream(r)
  \/ RefuseWhole(r) \/ StartWhole(r) \/ LimitWhole(r)

(* Nothing is left to do and the adapter has been started often enough. *)
Finished == server = "down" /\ starts = MaxStarts /\ UNCHANGED vars

Next ==
  \/ \E r \in Requests : Arrive(r) \/ Handle(r) \/ HangUp(r)
  \/ Shutdown \/ Exit \/ Crash \/ Restart \/ Finished

Spec == Init /\ [][Next]_vars

(* Tokio polls every ready task, the request timeout (the read timeout for *)
(* streams) makes every upstream call answer or fail, and a waiting client *)
(* reads what it is sent.  Ctrl-c, crashes, restarts, arrivals and hangups *)
(* are never forced; a draining server that can exit does.                 *)
Fairness == (\A r \in Requests : WF_vars(Handle(r))) /\ WF_vars(Exit)

FairSpec == Spec /\ Fairness

------------------------------------------------------------------------------
Events == {"created", "completed", "failed", "error", "[DONE]"}

(* The type of every variable of the server. *)
TypeOK ==
  /\ server \in {"up", "draining", "down"}
  /\ starts \in 1..MaxStarts
  /\ permits \in 0..MaxConcurrency
  /\ kind \in [Requests -> {"stream", "whole"}]
  /\ pc \in [Requests -> {"idle", "spawned", "upstream", "ended", "dropped", "lost"}]
  /\ client \in [Requests -> {"none", "waiting", "gone"}]
  /\ queue \in [Requests -> Seq(Events)]
  /\ view \in [Requests -> Seq(Events)]
  /\ rows \subseteq Requests

InUpstream == {r \in Requests : pc[r] = "upstream"}

(* No permit is lost or made up, whichever way a request ends: answered,   *)
(* failed, or with a client that hung up while the upstream was at work.   *)
(* In particular the upstream never sees more than the limit at once.      *)
PermitsConserved ==
  server # "down" => permits + Cardinality(InUpstream) = MaxConcurrency

Told(r, e) == \E i \in DOMAIN view[r] : view[r][i] = e

(* A client that was told its response completed can continue it, also     *)
(* after a crash: the row was written first.                               *)
CompletedIsStored == \A r \in Requests : Told(r, "completed") => r \in rows

(* A client that was told its request failed finds no response of it.      *)
FailedIsNotStored ==
  \A r \in Requests : Told(r, "failed") \/ Told(r, "error") => r \notin rows

IsReply(k, s) ==
  IF k = "whole"
  THEN s \in {<<"completed">>, <<"failed">>, <<"error">>}
  ELSE s \in {Reply(<<"created", "completed">>), Reply(<<"created", "failed">>)}

(* As long as the adapter runs, what was sent to a waiting client is a     *)
(* whole reply once the request has ended: one terminal event between      *)
(* created and [DONE], or one body.                                        *)
ReplyIsWhole ==
  server # "down" => \A r \in Requests :
    client[r] = "waiting" /\ pc[r] = "ended" => IsReply(kind[r], view[r] \o queue[r])

(* README.md: "Maximum concurrent upstream requests, read at startup."  A  *)
(* limit set in the profile and not on the command line should hold.       *)
ConfiguredLimit ==
  IF CliLimit # 0 THEN CliLimit
  ELSE IF EnvLimit # 0 THEN EnvLimit ELSE DefaultMaxConcurrency

ConfiguredLimitHolds == Cardinality(InUpstream) <= ConfiguredLimit

------------------------------------------------------------------------------
(* A client that waits gets its whole reply, unless the adapter stops.     *)
WaitingIsAnswered ==
  \A r \in Requests :
    client[r] = "waiting" ~> Answered(r) \/ client[r] = "gone" \/ server = "down"

(* A request leaves the upstream, and gives its permit back, even when     *)
(* nobody waits for it any more.                                           *)
UpstreamIsLeft == \A r \in Requests : pc[r] = "upstream" ~> pc[r] # "upstream"

(* ctrl-c ends the process once the open connections are served.           *)
DrainingEnds == server = "draining" ~> server = "down"
==============================================================================
