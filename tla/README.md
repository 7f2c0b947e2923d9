# Specifications of codex-mimo-adapter

The adapter is a local HTTP server. It takes the OpenAI *Responses* requests of the
Codex client, sends them as *Chat Completions* requests to an upstream model, and
turns the answers, streamed or whole, back into Responses objects and events. It
keeps what is needed to continue a conversation in a SQLite table. This directory
models the parts of it whose behaviour over time matters, checks them with TLC on
small instances and proves some of their invariants with TLAPS.

Paths below are relative to the repository (`src/server.rs` is `src/src/server.rs`
in `PROJECT.json`).

## 1. Inventory

| Part | State | Operations | Hard behaviour | Modelled in |
|---|---|---|---|---|
| Stream assembler, `conversion/stream_chat_to_responses.rs` | one struct per stream: texts so far, tool calls by index, output indices, what was announced and done, the `<think>` machine, the held-back text | `start`, `accept`, `mark_truncated_as_length`, `finalize`, `fail` | any order of reasoning, text and fragments of interleaved tool calls; ids and names that come late or change; a tag cut in two; text held back until it is known whether a tool is called | `StreamAssembler`, `ThinkText` |
| Streaming task, `server.rs:288-573` | the assembler, a permit, a channel | one task per request, ten ways out | every way out must send one terminal event and `[DONE]`; `state_put` can fail after item events were sent; the client can be gone | `StreamAssembler` (one task), `AdapterServer` (many) |
| HTTP server and process, `server.rs`, `main.rs` | a semaphore, the open connections | streaming and whole requests, ctrl-c | dropped handlers and spawned tasks release permits differently; graceful shutdown waits for connections, not for tasks; crash | `AdapterServer` |
| State store, `state.rs` | the table `responses` | `put`, `get`, `find_by_call_ids` | rows expire one by one; the lookup by call id must be unique; read before the upstream is awaited, written after | `Continuation` |
| History, `codex_chat_history.rs`, `conversion/responses_to_chat.rs`, `conversion/mod.rs` | none | merge the stored messages with the input, put outputs behind their calls, check | four ways to continue, call ids used by several conversations, retries, partial answers | `ToolHistory`, `Continuation` |
| Whole answers, `conversion/chat_to_responses.rs` | none | `build_response`, `completion_status` | must agree with the streamed form (it does not on a `<think>` that is never closed) | what it stores in `Continuation`; the status and the `<think>` split in `StreamAssembler` |
| Tool names, `conversion/tool_context.rs` | maps built per request | `build_with_input`: plain, namespaced, custom and search tools to chat names and back | names that collide once sanitised, flattened, cut or numbered | `ToolNames` |
| Upstream client and SSE parser, `upstream.rs` | byte remainder between reads | `chat`, `chat_stream`, `parse_chat_sse_bytes` | events, CR LF pairs and characters cut anywhere, a byte that is not UTF-8 | the parser in `SseParser`; the client's outcomes are choices of `StreamAssembler` |
| Registry and refresh, `project.rs`, `server.rs:648-793`, `main.rs` | `project-registry.toml`, an env file per project, the map of loaded projects | `init`, `global-init`, `registry clean`, start, `/admin/refresh`, `auth print-local-token` | unlocked read-change-write by two processes, a file that is truncated before it is written, a refresh with an older registry | `Registry` |
| `init`, `init.rs` | the registry, then a list of files | log, write through a temporary file, delete; roll back | a failure of any step, of the log or of the rollback itself; a crash between two steps | `InitTransaction`; registry and env file in `Registry` |
| Configuration and `check`, `config.rs`, `project.rs:335-411`, `main.rs:161-267` | the env files | choose flag, env file or environment; find the project a directory or thread means | the adapter and `check` read the same files at other times, in other directories and environments | `Profiles`; the concurrency limit also in `AdapterServer` |
| Media guard and multimodal input | none | scan one JSON value | - | its refusal is an action of `AdapterServer` |
| Windows launcher, `launcher/*.cs` | the child process, two fields, the form | start, stop, restart, check, clean, exit, timer, `Exited` callback | handlers that interleave at their awaits | `Launcher` |
| Command line and scripts | none | one-shot | - | no |

How they interact: a request passes the router, reads the store (`previous_response`),
becomes a payload (`build_chat_payload`), takes a permit, waits for the upstream, and
its answer is stored before the client is told. Handlers share only the semaphore, the
store and the map of projects. A stream's task owns its assembler and speaks to the
client through an unbounded channel whose send errors are ignored.

What makes the parts correct, in short: a client can parse what it is sent and gets an
end; what it saw is what was stored; what was stored is what the upstream sees next;
permits come back. The hazards, each at its line, are in `PROJECT.json`.

## 2. Modules

### `ThinkText`
The pure text helpers of `conversion/text.rs` that split off `<think>` blocks. A text is a
sequence of *tokens*: letters, `ws`, `<`, `think>`, `/think>`. The close tag is two tokens,
so it can be cut in the middle; the code can cut it at each of its bytes, and treats all
those cuts alike (any proper prefix at the end of the buffer is kept back).

### `StreamAssembler`
`asm` is the Rust struct plus `asm.out`, everything emitted. Methods are operators from a
record to a record, because one task owns the struct and no other code runs between a
method's assignments; the task's loop is the next-state relation. Steps:
`Start`, `AcquirePermit`/`RateLimited`, `UpstreamAccepted`/`UpstreamRefused`,
`AcceptChunk`, `UpstreamDone`/`EofFinished`/`EofTruncated`/`EofEmpty`/`UpstreamError`,
`FinalizeNextTool` (one turn of the loop), `StatePut`/`StatePutFails`, `Complete`.
Groups of events the code always emits back to back are one event. Usage numbers, item
ids and JSON layout are left out. `Canonical` stands for re-serialising arguments: in
the model only one letter amid whitespace parses, and loses the whitespace: enough to tell the streamed
arguments from the canonical ones.

### `ResponsesStream`
What one stream promises: created, items announced in order and closed, never reopened,
stored at most once, ended once, and ended as the store says. `StreamAssembler`
implements it under the mapping at its end (`items` by output index, `stage` from the
task's phase and the terminal event). A request without tools is allowed to be stored
with an open message when the upstream calls a tool it was not offered: the code does
leave that message open.

### `AdapterServer`
All requests of one process and its restarts. `pc`, `client`, `queue` and `view` are
functions of the request; `permits` is the semaphore; `rows` survives a crash. A step is
what a handler or task does between two awaits. A whole request's handler is dropped with
its permit when the client hangs up; a stream's task is not told. `Exit` waits for open
connections only, so a task without a client is lost with the runtime.

### `ToolHistory` and `Continuation`
`ToolHistory` is the conversion of a request to messages, as operators. An input item is a
kind, a call id and a *tag*, the number of the request or response it was first part of; a
message is a role and the items it was made of, so that one can ask which conversation
any part of a payload came from. Consecutive calls become one assistant message, outputs
are set aside and put behind the stored messages (`RepairHistory`) or behind the calls in
the request (`RepairStatelessHistory`), system messages are joined at the front, and the
part of a self-contained history that is already stored is cut off (`NewMessages`).
Contents, reasoning items, agent messages, tools and sampling parameters are left out, as
is the text an answer may have next to its tool calls (stored, but not shown to the client).

`Continuation` adds the store, its clock, the upstream and the clients. A client asks in
one of the ways the repository's tests and docs use: new items with
`previous_response_id`; new outputs without it (lookup by call id); its whole history
without it; its whole history with it when it brings outputs. It may hang up and ask
again while the first request is still with the upstream; its orphan still stores a row. `said` is the
conversation as the client means it, `kept` remembers whether everything it relied on in
the store was live when it was continued. Refused requests change nothing.
A stream's row is dated when the stream began, a whole response's when it ended; `Finish`
allows both.

### `Registry`
Commands (`tool`, one record per process), the files they share (`registry`, `env`) and the
adapter (`server`, `loaded`, the handlers in `refresh`). A project is its id, which is the
hash of its root; an env file is its local token, a new number each time `init` writes it.
`ProjectRegistry::save` is `Truncate` then `Write`, because `fs::write` is; a registry that is
missing or cut off loads as the empty one, as `ProjectRegistry::load` does. `init` is
`InitProject` (load and insert), `Truncate`, `Write`, `WriteEnv`, then `End` or `Rollback`;
`global-init` is `InitGlobal`, `WriteEnv` and the same ends; `registry clean` is `CleanLoad`,
`CleanCheck`, `Truncate`, `Write`. Any of them can be killed between two steps. A refresh is
`RefreshAuthorize` (read lock), `RefreshLoad` (no lock), `RefreshApply` (write lock).
Left out: env files that exist but cannot be used and a project moved to another root (both in
`Profiles`), failures to open a store or a client, the `--local-token` option (it gives every
runtime one token). The env files a start or refresh reads are read in one step.

### `Profiles`
The same files seen by whole commands: what is in an env file, which source of a setting wins
(`Choose`, `ChooseMimoApiKey`), which profiles are valid, and which project `check` speaks for
(`ResolveProject`: the environment's id, the directory, the Codex thread, the only entry).
Users edit, empty, delete and copy env files; the adapter is started and refreshed with any flags
and environment. A project id is the hash of its root, so the directory stands for it. One numeric
setting stands for all, since all go through the same functions.

### `InitTransaction`
`apply_writes_with_rollback`, one step per thing that can fail: `LogChange`, `WriteTemp`,
`ReplacePath`, `RemoveFile`, and on the way back `Truncate`, `Restore`, `LogUndone`. A file is
"none", "old", "new" or "partial". A crash is a behaviour that stops: the files are then what the
last state says, so what `FilesStayWhole` says of every state it says of crashes.

### `SseParser`
`parse_chat_sse_bytes` over a network that cuts anywhere. Bytes are tokens; "c1" and "c2" are the two bytes
of one character, "bad" is a byte that is not UTF-8. `Render` is the upstream's side and
`Meaning` the reference: what the events mean before they are bytes. The code's way to
them is `ValidUpTo`, `SplitBlocks`, `SseEventFromBlock` and `SseDataFromBlock`.

### `ToolNames`
`ToolContext` as a record; taking up a tool is one step, and each child of a namespace one more (the loop of
`add_namespace`), so the properties hold in the middle of it too. A name is a sequence of characters; `Decimal` gives the digits
of a number. The run has one illegal character, a blank and digits, and a longest chat name of 5 characters instead of 64. `MaxNumber` bounds the
numbers behind a name (`NumbersLeft`); in the run they suffice for every tool.

### `Launcher`
The form's methods are async and run on one UI thread, so a step is what a method does between two
awaits and a *flow* is a method that waits (`flow`: its kind and where it waits). `ui` has the two
fields `_adapter` and `_stoppingAdapter`, the busy and button flags, `_exitRequested`, the timer and whether the
form is open; `live`, `killed`, `raised` and `queue` follow a process from its end over the `Exited` event to
the posted callback. `overlapped` and `killFailed` remember what the properties exclude.
Health and port probes may answer anything, since another program may hold the port.

`MCParts` runs `SseParser`, `ToolNames`, `InitTransaction` and `Profiles` in one instance. They share
no state: a behaviour chooses one and leaves the others where they began.

The `MC*` modules give the constants that are not plain values, and the symmetry sets.
Operators with a comment beginning "Mutant:" are small bugs the code could have; no
specification uses them. `PROJECT.json` pairs each with the property that notices it.

## 3. Runs

| Run | Instance | What it shows |
|---|---|---|
| `stream` | up to 3 of 14 chunks about items (2 tool keys, 3 names: a function, a custom tool, a blank; 2 ids, one of which equals a fallback id), or up to 4 of 11 that cut a tagged answer anywhere; with and without tools | everything about one stream: exactly one terminal event, last; unique output indices; each event about an announced item; the deltas of an item add up to its done text; stored calls complete; nothing after an item's done; text held back until no call can follow; stored iff completed; truncation reported; where an answer is cut does not change what of it is told as reasoning and what as text, which is what `build_response` makes of it unless a leading block is never closed (section 3 names the cuts left out); the stream ends; it implements `ResponsesStream` |
| `server` | 3 requests, 2 permits, 2 starts | permits are conserved; told completed implies stored, also after a crash; told failed implies not stored; what a waiting client is sent is a whole reply; waiting clients are answered, the upstream is left, a draining server exits |
| `continuation` | 2 clients, 2 call ids, 3 requests, up to 2 calls per answer, TTL 0 with one tick | the upstream sees each client's own conversation, every item once and in order; outputs stand right behind their calls; calls of the last answer can be answered |
| `registry` | 2 projects and the global profile, 2 commands at a time, 1 refresh at a time, 2 env files written | commands that do not overlap keep every initialised project registered; the global token that is printed is accepted; an adapter that keeps being refreshed comes to serve what is registered |
| `launcher` | 2 flows, 2 processes | no field points to a disposed process; a child that runs stays within reach; the stop button is offered; an awaited process is not disposed; a busy form becomes free |
| `parts` | 3 events of 8 kinds; 4 tools of 12; 2 writes and a deletion; 3 directories, 2 tokens, 1 edit by hand | events are parsed as sent wherever they are cut; chat names are usable and lead back to their tool; all changes of a transaction or none, and whole files until its rollback begins; `check` sends a token the adapter accepts |
| `env_limit` | 2 requests, profile limit 1, default 2 | violated, see findings |
| `reused_call_id` | 1 client, 1 call id | violated, see findings |
| `expired_row` | 2 clients, 1 call id | violated, see findings |
| `new_project_refresh` | 2 projects, 1 command at a time | violated, see findings |
| `unloaded` | 2 projects, 1 command, 2 refreshes at a time | violated, see findings |
| `exit_leaves_child` | 2 flows, 1 process | violated, see findings |

Why the bounds are enough. Two keys are needed for interleaved calls, and the assembler
never relates three. Three chunks open an item, feed it and switch away; a fourth is
needed only to cut both tags of a `<think>` block. The constraint `Bounded` keeps the two kinds of
stream apart; only `AcceptChunk` can leave it, and where it can, another step is enabled that
stays inside, so no fair behaviour ends there. Three requests with two permits reach a full
semaphore with one request refused and one orphan. Three requests in `continuation` are a
first turn, a continuation, and either a retry, another client, or a second continuation;
two call ids per answer allow partial answers, and two clients that share them allow
ambiguity. TTL 0 with one tick is expiry; a longer TTL only adds ticks in which nothing
happens. The runs of `Continuation` do not check deadlock: their instances stop when the
requests are used up.
Two projects are one that is changed and one that is only carried along by a save; two
env files written are one each, or one project initialised twice, or a project and the
global profile. Two commands can overlap, which `EntriesSurvive` leaves out because overlapping
commands do lose entries: the later save restores what the earlier load saw. It leaves out a kill inside
`fs::write` too, which cuts the file off.
Two flows and two processes are a handler that interrupts another, and a new process beside an old one
whose `Exited` event is late; with one process the callbacks would have nothing to confuse.
Three events put a cut inside the second with a neighbour on either side. Four tools are a name, a
collision, a collision with the number that one got, and the tool they are mistaken for. Three
changes have one that fails with one before and one after it. Three directories are a project, one
inside it and one beside it; two edits by hand pass as well (707 157 states) but take longer.

Fairness. `StreamAssembler` assumes that the task takes some step while it can: Tokio polls
a ready task, and reqwest's read timeout turns a silent upstream into an error.
`AdapterServer` assumes it of every request, and that a draining server that can exit does.
Nothing forces arrivals, hangups, ctrl-c, crashes or restarts. Both take for granted that
an upstream stream ends: the client has a read timeout but no total one, so an upstream
that sends for ever keeps its permit for ever. That is an assumption about the upstream,
not a promise of the code (`upstream.rs:56`).

`Registry` assumes no fairness: `RefreshCatchesUp` says what follows if refreshes keep being
applied. `Launcher` assumes that probes, one-shot commands and processes that were told to end do
end (the probes have timeouts, the commands are `init`, `check` and `clean-registry` of the adapter itself), that the UI thread runs what is posted to it,
and that the user answers the one modal question a busy handler asks: `clean-registry` waits at "cleaning" for its preview, then for the
answer (`LauncherForm.cs:649`), then for the command, and `BusyEnds` takes for granted that all three come. Nothing
forces a click, a tick of the timer, a crash or the end of a process that was not killed. The parts in `parts`
need none: their properties are invariants.

Qualifications inside properties. `NoLateDeltas` leaves out an upstream that goes back to
reasoning after it began to answer, where the code does send reasoning deltas after that
item's done event. `TextHeldBack` leaves out blank tool names, for which two tests of the
code disagree. `CallsCanBeAnswered` leaves out the case that the upstream used a
call id twice in the conversation that is continued, the stored one or the client's history (see findings). These two differ
when a response had expired and the client, by its call ids, went on with a conversation of another client; with four requests
(4.2 million states, too many for a run) the calls of such a row can be unanswerable though the client's own history repeats no id. `UpstreamSeesConversation` leaves out conversations continued by an id or a call
after that response expired. `ChildrenAreManaged` leaves out a start in flight together with another
start or an exit, which the launcher does not exclude (see findings), and `CallbackSparesAwaited` a `Kill`
that threw. `NamesComeBack` leaves out functions declared with blanks around their name and, among tools with
one flat name, which of them the replay takes: the code takes either. It also leaves out a tool search whose name a tool declared
before it took (a function `tool.search` becomes `tool_search`): the search is then offered as `tool_search_2` and its call
is replayed as `tool_search` (responses_to_chat.rs:416), the function. The property did not leave this out until the run had a tool of that kind. `AllOrNothing` after an error
needs the log and the rollback's own writes to work, and is about the files of the transaction only: `init` saves the registry before it
(`init.rs:113`) and leaves it saved when the transaction fails. `FilesStayWhole` ends where a rollback begins, as that truncates files in place. `CheckIsAccepted` needs every profile on the disk to
be loaded as it is, and no `--local-token`. `ChunkingInvisible` compares texts up to whitespace, as each piece is trimmed on
its own, and leaves out an answer with a chunk that may open the block and ends in `<` and whitespace: that whitespace is trimmed, so
if the next chunk begins with `/think>` the stream closes the block where the whole answer has no tag. Of all other answers it says
what the stream makes of them. If the leading block is closed or there is none, that is what `build_response` makes of the whole answer. If the
answer opens `<think>` and never closes it, the two disagree, and the property says how (see the end of section 4).

## 4. Findings

- `env_limit`: `run_server` sizes the semaphore from `--max-concurrency` or the default and
  ignores `CODEX_MIMO_MAX_CONCURRENCY`, which `config.rs` parses and the README documents.
- `reused_call_id`: a tool call without an id is named `call_0`, `call_1`, ... in every turn.
  The second turn's answer is refused as a duplicate output although its
  `previous_response_id` is live.
- `expired_row`: `find_by_call_ids` drops expired rows before it looks for ambiguity, so when
  one of two responses with the same pending call id expires, the output of its client is
  joined to the other client's conversation.
- `new_project_refresh`: the README's command to load a new project sends the token of the
  directory it is run in. Without a global profile, in the new project's directory, that token
  belongs to the project that is not loaded yet, and the refresh is refused.
- `unloaded`: a refresh can read the registry while an `init` rewrites it, and then unloads
  every project. With a global profile another refresh repairs that (`GlobalTokenAccepted`,
  `RefreshCatchesUp`); without one no token is accepted any more until a restart.

- `exit_leaves_child`: exit chosen while a start waits for its probes finds no process to stop; the
  start then launches the adapter and the launcher closes over it, although its README says that
  exit stops it first.

The quoted texts of the repository are in `PROJECT.json`.

Seen while modelling, without a run: the chunks `<think>< ` and `/think>` close the block in the stream (`text.rs:172-177` trims
what follows the opening tag in its chunk), and do not in the whole answer, where the blank keeps `<` and `/think>` apart (the proof of
`ChunkingInvisible` failed on this, outside the bound of the run at that time); an answer that opens `<think>` and never closes it, as one cut
off by its length limit may, is told as reasoning without a message by the stream, which stays in think mode until `finalize` flushes it, while in a whole answer
`split_leading_think_block` finds no block (`text.rs:162`) and `build_response` leaves all of it, the tag included, in the message
(`chat_to_responses.rs:34-39`): `ChunkingInvisible` states both sides, and as no text of the repository says which is meant
(docs/USAGE.zh-CN.md speaks of `<think>...</think>` only) it is no finding; a tool search in the history is replayed under its own name even if
a function took that name first; a log line that cannot be written ends
`apply_writes_with_rollback` without a rollback; one byte that is not UTF-8 keeps everything after it
in the remainder until the stream ends; `CODEX_MIMO_HOST` and `CODEX_MIMO_PORT` of a profile are parsed
and not used by `run_server`, like the limit; README line 141 says an empty local token skips
authorisation, `server.rs:648-656` accepts no empty token; a start takes `CODEX_MIMO_LOCAL_TOKEN` from the
process environment, a refresh and `check` do not.

## 5. Proofs

`StreamAssembler_proofs` proves, for all sets of chunks, ids and names, any number of tool keys and any
number of chunks: `TypeCorrect`, `TerminalLast`, `IndicesUnique`, `EventsAnnounced`,
`StoredFinished`, `TruncationReported`, each as `Spec => []` of the property with the
corresponding name. The assumptions are those of `ConstantsAssumption`.

The properties are about the event stream, and are not inductive: that an item is done
once depends on the flags `reasoning_done`, `text_done` and `call.done` agreeing with what
was emitted. `Core` says so: indices ascend (`Ordered`), events are announced (`Announced`),
no item is done twice (`DoneOnce`), and each of the three kinds of flags agrees with the
stream (`ReasoningAgrees`, `TextAgrees`, `CallsAgree`). `Good` adds the type and that no
terminal event was sent. Each method is shown to lead from a good assembler to a good
one, by lemmas on the three operations everything is built of (emit a delta, announce an
item, close an item), and each step of the task to keep `IInv`.

`StreamRefinement_proofs` proves that the task implements `ResponsesStream` (`TaskImplementsStream`) and that a
response that calls a tool shows no message (`MessageHeldBack`). `IInv` is not enough: it says what a flag that is not
set means, and here it matters what a set flag means. `RInv` adds `Tidy`: every announced item is still known to the
struct by its index, id and name (`Owned`), and a set flag means that the done event was sent. It also says that before finalize
no call is done and, with tools offered, no message is shown; that from then on reasoning and message are closed, and with
them every call the loop has visited; and that a message shown beside calls has only blank-named ones (`HeldBack`). Each method is shown
to keep `Tidy` and to withdraw and reopen nothing (`Advances`, `Moves`, `Calls`). Then each action maps to one of the promise: `Start`
to `Create`, the chunks and the finalize loop to `Extend`, `StatePut` to `Store`, `Complete` to `Finish`, every failure to `Fail`, and
the permit and the connection to a stutter. `Store` is where `RInv` pays: that all announced items are closed follows from
`Owned`, because each belongs to the reasoning, the message or a visited call (`AllClosed`).

`StreamText_proofs` proves what the texts add up to, again for every alphabet, chunking and number of tool keys:
`DoneTextStreamed`, `NothingLate`, `OutputStreamed` and `CallsStored`. These properties compare sums: the text of a
done event with the deltas before it, the stored arguments with all fragments fed. None is inductive. `TInv` says what each
buffer holds at any moment: `Exact`, that the reasoning, the message and each announced call are the deltas sent
for them so far, and that whatever is done was done with that text; `LateOnly`, that the only item with deltas after its done event is
the reasoning, and then only after a chunk that resumed it; that the arguments kept for a key are the fragments fed for it; and, once
`finalize` runs, `Listed` and `CallsListed`: the output lists the closed items, the calls last, and the call of
key `k` stands at the rank of `k` among the named keys visited so far. Before `finalize`, `Unlisted` says that the output is empty and that, with tools
offered, reasoning which was closed was followed by a call, so that more of it is a resumption; this is the invariant that needed the
`<think>` parser to be in step with what is closed (`ThinkAgrees`). `IInv` and `RInv` of the two modules above are used in every
step: a delta sums up only for an index nobody else uses. The sums are `FlattenSeq`, which the module first
shows to be the function its recursive definition describes and to grow with its last piece (`FlattenFacts`, `FlattenGrown`);
induction is stated over a subset of `Nat` (`SetInduction`), because the library's theorem takes an operator.

`StreamThink_proofs` proves `ChunksInvisible`: the stream, which sees the answer piece by piece and cannot take back what it has
told, makes of an answer what its whole text alone settles: what the functions on the whole answer do, or, for a block that is never
closed, all of it as reasoning. The property speaks of the end; `SInv` says for every
prefix `F` of the answer what the assembler has made of it (`View`): `Waiting`, nothing told and all of `F` in the buffer, because it
may still become `<think>`; `Inside`, the block is open, the reasoning is what `SplitIncompleteThinkCloseSuffix` lets go of `F` after the
tag and the buffer is what it keeps; `Block`, the tag has been closed and both texts are those of `SplitAtThinkClose`; `Plain`, the
answer has no block and is told as it is. When the answer ends, `finalize` flushes what is kept (`WholeTold`): an answer that is still
`Inside` becomes reasoning to the last character (`FlushUnclosed`). The steps between these rest on lemmas about the text functions: an opening tag stays
the opening tag whatever follows (`OpenGrows`), the first closing tag stays the first (`CloseGrows`), and the closing tag of a joined
text is the one found after what was kept back, because what was let go ends in nothing a tag can begin with (`CloseLater`,
`KeepLater`). Texts are compared without their whitespace (`Ink`), which trimming leaves alone (`InkTrim`) and which distributes over
joining (`InkConcat`).

`AdapterServer_proofs` proves, for any finite set of requests and any limit, `TypeCorrect`,
`PermitsNeverLeak`, `CompletedStored`, `FailedNotStored` and `RepliesWhole`. The invariant is the type, the
count of permits, that nothing runs while the process is down, and `Honest`: whatever is
queued for or was read by a client agrees with the rows, and a request still in the
upstream has neither a row nor a terminal event. Permits are counted with the cardinality
of the set of requests in the upstream; each step adds or removes at most one.
`ReplyIsWhole` speaks of ended requests only; `Progress` says what a waiting client was sent before, by how far its
request is, and that reading moves events from the queue to the view and changes nothing in between.

`Registry_proofs` proves, for any finite number of projects, commands and handlers, `TypeCorrect`
(the type, which no run repeats), `GlobalAccepted` and `RegistryKeepsEntries`. The first of
the two follows from `GlobalLoaded`: the global runtime is loaded at the start and no refresh
touches it. `EntriesSurvive` is not inductive, because the registry is truncated in every save: `EInv` says that
while nothing has disturbed the commands at most one of them is running, and that what is in the file, or what the running
command is about to write, covers every initialised project.

`Registry_proofs` also proves `CheckAccepted` of `Profiles`, for any directories and tree of them, environments and flags. `CheckIsAccepted` compares
the token found by `check` on the disk with those of the runtimes; that the profile was loaded from the same file is its
hypothesis, but not that it was understood in the same way. `Faithful` says so: what the adapter holds of a profile is
made from the file it was loaded from, with the flags of the process and in some environment. That the environment may differ between
start, refresh and `check` and still does not matter is the content of the proof: the token of a project's own
file outranks it.

It proves of `InitTransaction`, for any sequence of changes, `Atomic` and `PrefixMade`. The invariant says
that the snapshots are those of the first files, in order (`SnapshotsOK`), and where the files stand
between (`DiskOK`): before the rollback, the changes up to `doing` are made and no others; in it, those with a snapshot
are made and the others are as before.

It proves of `ToolNames`, for any tools, names and longest length, `NamesUsable` and `CallsComeBack`. The decimal digits are a
constant: all that is assumed is that they are legal, have no underscore, differ from number to number and fit (`NumbersAssumption`). Two numbered
names of one base then differ, as the last underscore of each stands before its number (`LastMark`, `NumberedDistinct`), so by
the pigeonhole principle some number is free (`FreeNumber`). The invariant `ContextOK` says that the names in use are those of the chat tools, once each, that each has
a spec and an original name that agree, and that a search is offered only while its own name is in use, by it or by another tool; the last is what keeps
the fixed name of a replayed search an offered one.

`Launcher_proofs` proves, for any number of flows and processes, `TypeCorrect`, `ChildrenManaged`, `StopOffered` and
`AwaitedSpared`. `Managed` adds to `ChildrenAreManaged` that at most one start is in flight,
that then nothing runs that was not killed, and that an exit was then not asked for; both, like the property, only until a start overlaps another start or an exit: without this a
start could replace a running adapter. `Spared` says that a process which is in `_adapter` and awaited is in
`_stoppingAdapter`; `AwaitedSpared` is about steps and follows because only the callback takes an event out of the queue
of an open form.

`Continuation_proofs` proves, for any clients, call ids, TTL and number of turns and calls, `ContinuationTyped`,
`OutputsBehindCalls`, `UpstreamHears` and `CallsAnswered`. `OutputsFollowCalls` is not inductive: a continuation puts its outputs behind *all* the stored
messages, which is right only if those end with the calls. `StoreInv` adds that every stored row ends with an assistant message
that makes each of its pending calls (`EndsWithCalls`). The rest of the argument is about the conversion: outputs never become
messages by themselves (`ExtractRequestIs`, by induction over the items), messages of which every output is behind its call stay so
when they are joined, extended by replies to the last of them, concatenated, or lose messages that are not the
assistant's (`BehindJoin`, `BehindReplies`, `BehindFlatten`, `BehindPicked`), and the last check of `build_chat_payload` makes each
call answered once (`ValidIsOnce`). What lets the first be applied is that a row is continued only
when all outputs are among its pending calls (`PreparedIs`), whichever way it was found. The recursive functions of `ToolHistory`
are shown to exist (`Recursion`) and to compute what their definitions say before anything is proved about them.

`UpstreamHears` is the longest proof of the project: what an accepted request shows the upstream is what the client means,
whichever way it continues. The messages come out of filters, replays, merged outputs and a prefix test, so
the proof speaks of what messages *say*: `Told(Heard, messages)`, their items without the instructions.
A conversation is `Whole`: a sequence of pieces, each some calls, the outputs of some of them and plain items. `TalkInv` says of a
request in flight that its conversation is whole, its calls were made before it and no row has its number yet, and, as long as the
conversation is `kept`, that its messages say it; that no two requests have one number; and of every client that its last
response is stored with its calls pending and, when `kept`, with messages that say all that was said (`ClientTalk`). The step that
matters is `Ask`, with a lemma per way of continuing. By an id, the stored messages and those of the turn are joined (`TurnHeard`).
With outputs alone, the row found by their call ids can only be the client's own: its row has the calls, and a second one with them would have
been refused as ambiguous (`LastByCalls`). With an id *and* the history, the repeated prefix is dropped and nothing else (`HistoryHeard`). With the whole
history and no id, no row is used (`WholeNeedsNoRow`) and the calls are replayed from the request itself: since no call is answered twice, each output finds its own call
and the messages of each piece say that piece (`WholeHeard`). Many facts are lists of three or more parts put together; a predicate such
as `TurnAdds` names each such list.

`CallsAnswered` says that a request is *not* refused, so each check has to be shown to pass. It follows from the same two
invariants: a client that has calls due got them in its last response, whose row ends with them (`DueForms`). With the id, the row
is found and all the ids are pending in it; no stored message answers one of them already, since a stored answer has its
call before it, and with the call of the last message that would be one id called twice (`AnsweredNever`). So the
outputs go behind the stored messages and the result is valid (`AnswersRepaired`, `SoundIsValid`, which is the converse of
what `OutputsBehindCalls` takes from that check). With the whole history no row is used;
every output has its call there (`OutputsCalled`), no two pieces make the same call (`CallsApart`), no call is answered
twice (`OutputsDistinct`), and as the replayed messages say exactly the history (`WholeReplayed`), they contain no
answer twice either (`HistoryAccepted`). An earlier form, which looked at the client's history only, held at the bounds of the run; the proof
failed at `AnsweredNever`, and TLC at larger bounds showed why (see the qualifications in section 3).

Model-checked only: liveness (TLAPS does not reach fairness here) and `EventsIntact` of `SseParser`, which declares a
recursive operator.

## 6. Not modelled

The media guard and the multimodal input (stateless scans of one JSON value by string patterns; the
guard's refusal is an action of `AdapterServer`), parsing and layout of JSON, the conversion of contents,
sampling parameters and reasoning items, the text of the files `init` writes and its prompts, the HTTP
client below the outcomes it hands the task, the credential store and the layout of the launcher, the scripts,
the parsing of the command line. None of them keeps state over time; what they do is a function of one
value, better shown by unit tests than by a model.

Also left out, and stateful: a profile that becomes unreadable while the adapter starts (`main.rs:106`); an upstream
that sends for ever (`upstream.rs:56`); the growth of stored conversations
(`responses_to_chat.rs:103` and `:513`), where the repository does not say what is meant.

Collapsed inside modelled definitions, as no property depends on them: the unwrapping of `{"input": ...}` for a custom tool
(`stream_chat_to_responses.rs:751-763`) in `CustomInput`; the 400 answers for a payload that cannot be converted
(`server.rs:223`, `:319`), which are the other refusals in `RefuseWhole` and `RefuseStream`; the branches of a refresh and of a start for env files that
exist and cannot be used (`server.rs:728-780`, `main.rs:106-118`); a `Kill` that threw although the process then exited
(`LauncherForm.cs:402-403`), after which it is released.
