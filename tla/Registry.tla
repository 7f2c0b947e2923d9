------------------------------- MODULE Registry -------------------------------
(***************************************************************************)
(* The project registry: src/src/project.rs, the commands that change it   *)
(* (run_init and run_global_init of src/src/init.rs, clean-registry), and  *)
(* the running adapter, which loads it when it starts (run_server of       *)
(* src/src/main.rs) and on POST /admin/refresh (src/src/server.rs).        *)
(*                                                                         *)
(* Commands are processes of their own.  They share files with each other  *)
(* and with the adapter, and nothing is locked: a command loads the whole  *)
(* registry, changes it and writes it back, in two steps, because          *)
(* fs::write truncates the file first.  A registry that is missing or cut  *)
(* off loads as the empty one.  A root is identified with its project id,  *)
(* which is its hash; an env file is abstracted to its local token.        *)
(***************************************************************************)
EXTENDS Integers, FiniteSets

CONSTANTS
  Projects,  \* project ids, which sort as numbers
  Tools,     \* command processes
  Handlers,  \* handlers of /admin/refresh
  MaxTokens  \* bound: env files written

Global == 0     \* GLOBAL_PROJECT_ID
Nobody == -1
Profiles == Projects \cup {Global}
NoToken == 0

ASSUME RegistryAssumption ==
  /\ Projects \subseteq Nat \ {Global}
  /\ MaxTokens \in Nat

VARIABLES
  registry,  \* the ids project-registry.toml loads as
  env,       \* the token in the env file of each profile, or NoToken
  tokens,    \* local tokens made up so far
  tool,      \* where each command is
  server,    \* "down", "starting" or "up"
  loaded,    \* the token of each runtime in AppState.projects, or NoToken
  read,      \* the registry as run_server read it
  refresh,   \* where each handler of /admin/refresh is
  started,   \* history: the global token when the adapter came up
  disturbed  \* history: two commands overlapped, or one was killed in fs::write

vars == <<registry, env, tokens, tool, server, loaded, read, refresh, started, disturbed>>
files == <<registry, env, tokens>>
commands == <<registry, env, tokens, tool, disturbed>>
adapter == <<server, loaded, read, refresh, started>>

Idle == [at |-> "idle", for |-> Nobody, seen |-> {}, was |-> NoToken]
Resting == [at |-> "idle", seen |-> {}]

Init ==
  /\ registry = {}
  /\ env = [q \in Profiles |-> NoToken]
  /\ tokens = 0
  /\ tool = [t \in Tools |-> Idle]
  /\ server = "down"
  /\ loaded = [q \in Profiles |-> NoToken]
  /\ read = {}
  /\ refresh = [h \in Handlers |-> Resting]
  /\ started = NoToken
  /\ disturbed = FALSE

------------------------------------------------------------------------------
(* The commands.                                                           *)

Alone(t) == \A u \in Tools \ {t} : tool[u].at = "idle"

Begin(t, state) ==
  /\ tool[t].at = "idle"
  /\ tool' = [tool EXCEPT ![t] = state]
  /\ disturbed' = (disturbed \/ ~Alone(t))
  /\ UNCHANGED <<files, adapter>>

(* run_init loads the registry and adds its project. *)
InitProject(t, p) ==
  Begin(t, [Idle EXCEPT !.at = "saving", !.for = p, !.seen = registry \cup {p}])

(* run_global_init does not touch the registry. *)
InitGlobal(t) == Begin(t, [Idle EXCEPT !.at = "files", !.for = Global])

(* clean_stale_registry. *)
CleanLoad(t) == Begin(t, [Idle EXCEPT !.at = "checking", !.seen = registry])

(* stale_project_ids: the projects without an env file. *)
Stale(ids) == {p \in ids : env[p] = NoToken}

(* Mutant: what the adapter has not loaded is stale, too. *)
StaleIfNotLoaded(t) ==
  /\ tool[t].at = "checking"
  /\ LET stale == {p \in tool[t].seen : env[p] = NoToken \/ loaded[p] = NoToken}
     IN  tool' = [tool EXCEPT ![t] = IF stale = {} THEN Idle
                    ELSE [@ EXCEPT !.at = "saving", !.seen = tool[t].seen \ stale]]
  /\ UNCHANGED <<files, adapter, disturbed>>

CleanCheck(t) ==
  /\ tool[t].at = "checking"
  /\ LET stale == Stale(tool[t].seen)
     IN  tool' = [tool EXCEPT ![t] = IF stale = {} THEN Idle
                    ELSE [@ EXCEPT !.at = "saving", !.seen = tool[t].seen \ stale]]
  /\ UNCHANGED <<files, adapter, disturbed>>

(* ProjectRegistry::save is fs::write: truncate, then write. *)
Truncate(t) ==
  /\ tool[t].at = "saving"
  /\ registry' = {}
  /\ tool' = [tool EXCEPT ![t].at = "writing"]
  /\ UNCHANGED <<env, tokens, adapter, disturbed>>

Write(t) ==
  /\ tool[t].at = "writing"
  /\ registry' = tool[t].seen
  /\ tool' = [tool EXCEPT ![t] = IF @.for = Nobody THEN Idle ELSE [@ EXCEPT !.at = "files"]]
  /\ UNCHANGED <<env, tokens, adapter, disturbed>>

(* The writes of init come after the registry.  Each file is replaced in   *)
(* one rename; the env file is one of them, with a new token.              *)
WriteEnv(t) ==
  LET q == tool[t].for IN
  /\ tool[t].at = "files"
  /\ tokens < MaxTokens
  /\ tokens' = tokens + 1
  /\ env' = [env EXCEPT ![q] = tokens + 1]
  /\ tool' = [tool EXCEPT ![t] = [@ EXCEPT !.at = "rest", !.was = env[q]]]
  /\ UNCHANGED <<registry, adapter, disturbed>>

(* An earlier write failed; or the last one succeeded, or the rollback did *)
(* not.                                                                    *)
End(t) ==
  /\ tool[t].at \in {"files", "rest"}
  /\ tool' = [tool EXCEPT ![t] = Idle]
  /\ UNCHANGED <<files, adapter, disturbed>>

(* A later write failed: the env file gets its former contents back, or is *)
(* removed if there was none.                                              *)
Rollback(t) ==
  /\ tool[t].at = "rest"
  /\ env' = [env EXCEPT ![tool[t].for] = tool[t].was]
  /\ tool' = [tool EXCEPT ![t] = Idle]
  /\ UNCHANGED <<registry, tokens, adapter, disturbed>>

Kill(t) ==
  /\ tool[t].at # "idle"
  /\ tool' = [tool EXCEPT ![t] = Idle]
  /\ disturbed' = (disturbed \/ tool[t].at = "writing")
  /\ UNCHANGED <<files, adapter>>

(* The user deletes a project. *)
Delete(p) ==
  /\ env[p] # NoToken
  /\ env' = [env EXCEPT ![p] = NoToken]
  /\ UNCHANGED <<registry, tokens, tool, adapter, disturbed>>

------------------------------------------------------------------------------
(* The adapter.                                                            *)

StartLoad ==
  /\ server = "down"
  /\ server' = "starting"
  /\ read' = registry
  /\ UNCHANGED <<commands, loaded, refresh, started>>

(* run_server gives up when there is nothing to serve. *)
StartApply ==
  LET runtimes == [q \in Profiles |-> IF q \in read \cup {Global} THEN env[q] ELSE NoToken]
  IN  /\ server = "starting"
      /\ IF \E q \in Profiles : runtimes[q] # NoToken
         THEN /\ server' = "up" /\ loaded' = runtimes /\ started' = env[Global]
         ELSE server' = "down" /\ UNCHANGED <<loaded, started>>
      /\ read' = {}
      /\ UNCHANGED <<commands, refresh>>

Stop ==
  /\ server = "up"
  /\ server' = "down"
  /\ loaded' = [q \in Profiles |-> NoToken]
  /\ refresh' = [h \in Handlers |-> Resting]
  /\ started' = NoToken
  /\ UNCHANGED <<commands, read>>

(* authorize_adapter: the token of any loaded profile. *)
Accepted(token) == token # NoToken /\ \E q \in Profiles : loaded[q] = token

(* admin_refresh, called with a token of a loaded profile. *)
RefreshAuthorize(h) ==
  /\ server = "up"
  /\ refresh[h].at = "idle"
  /\ \E q \in Profiles : Accepted(loaded[q])
  /\ refresh' = [refresh EXCEPT ![h].at = "authorized"]
  /\ UNCHANGED <<commands, server, loaded, read, started>>

(* The registry is read before the write lock is taken. *)
RefreshLoad(h) ==
  /\ refresh[h].at = "authorized"
  /\ refresh' = [refresh EXCEPT ![h] = [at |-> "read", seen |-> registry]]
  /\ UNCHANGED <<commands, server, loaded, read, started>>

Refresh(h, unload) ==
  /\ refresh[h].at = "read"
  /\ loaded' = [q \in Profiles |->
       IF q \in unload THEN NoToken
       ELSE IF loaded[q] = NoToken /\ q \in refresh[h].seen THEN env[q] ELSE loaded[q]]
  /\ refresh' = [refresh EXCEPT ![h] = Resting]
  /\ UNCHANGED <<commands, server, read, started>>

(* Mutants: the global profile is no exception; nothing is unloaded. *)
RefreshUnloadsGlobal(h) == Refresh(h, Profiles \ refresh[h].seen)
RefreshOnlyAdds(h) == Refresh(h, {})

(* With the write lock: unload what is not registered, load what is and    *)
(* has an env file; what is loaded is not read again.                      *)
RefreshApply(h) == Refresh(h, Projects \ refresh[h].seen)

------------------------------------------------------------------------------
ToolStep(t) ==
  \/ \E p \in Projects : InitProject(t, p)
  \/ InitGlobal(t) \/ CleanLoad(t)
  \/ CleanCheck(t) \/ Truncate(t) \/ Write(t)
  \/ WriteEnv(t) \/ End(t) \/ Rollback(t) \/ Kill(t)

Handle(h) == RefreshAuthorize(h) \/ RefreshLoad(h) \/ RefreshApply(h)

Next ==
  \/ \E t \in Tools : ToolStep(t)
  \/ \E p \in Projects : Delete(p)
  \/ \E h \in Handlers : Handle(h)
  \/ StartLoad \/ StartApply \/ Stop

Spec == Init /\ [][Next]_vars

------------------------------------------------------------------------------
Token == 0..MaxTokens

(* The type of the files, the commands and the adapter; an adapter that is *)
(* not up has nothing loaded and handles nothing.                          *)
TypeOK ==
  /\ registry \subseteq Projects /\ read \subseteq Projects
  /\ env \in [Profiles -> Token] /\ loaded \in [Profiles -> Token]
  /\ tokens \in Token /\ started \in Token
  /\ tool \in [Tools -> [at : {"idle", "checking", "saving", "writing", "files", "rest"},
                         for : Profiles \cup {Nobody}, seen : SUBSET Projects, was : Token]]
  /\ server \in {"down", "starting", "up"}
  /\ refresh \in [Handlers -> [at : {"idle", "authorized", "read"}, seen : SUBSET Projects]]
  /\ disturbed \in BOOLEAN
  /\ server # "up" => /\ \A q \in Profiles : loaded[q] = NoToken
                      /\ \A h \in Handlers : refresh[h] = Resting

Writing == \E t \in Tools : tool[t].at = "writing"

(* project.rs: "A valid entry is never removed".  Whatever sequence of     *)
(* init, failed init, deletion and clean-registry ran, one after another,  *)
(* a project that has its env file is registered.  Commands that overlap   *)
(* lose entries: the later write restores what the earlier load saw; and   *)
(* one that is killed inside fs::write leaves a file cut off.              *)
EntriesSurvive ==
  ~disturbed /\ ~Writing => \A p \in Projects : env[p] # NoToken => p \in registry

(* load_adapter_token_secret, run in a directory: the global token, that   *)
(* of the project the directory is in, or that of the first registered     *)
(* project with an env file.                                               *)
PrintedToken(dir) ==
  LET candidates == {p \in registry : env[p] # NoToken}
  IN  IF env[Global] # NoToken THEN env[Global]
      ELSE IF dir \in Projects /\ env[dir] # NoToken THEN env[dir]
      ELSE IF candidates = {} THEN NoToken
      ELSE env[CHOOSE p \in candidates : \A r \in candidates : p <= r]

(* With a global profile that was not initialised again since the adapter  *)
(* came up, the token that is printed in any directory is accepted,        *)
(* whatever was registered, cleaned, refreshed or read half-written: a     *)
(* refresh can always be repaired by another.                              *)
GlobalTokenAccepted ==
  server = "up" /\ started # NoToken /\ started = env[Global] =>
    \A dir \in Projects \cup {Nobody} : Accepted(PrintedToken(dir))

Refreshed == \E h \in Handlers : RefreshApply(h)

(* An adapter that keeps being refreshed comes to serve exactly what is    *)
(* registered, even if it meets a registry that is being written, or one   *)
(* that changed between its read and its lock: what is registered for good *)
(* is loaded for good, what is not registered any more is unloaded.        *)
RefreshCatchesUp ==
  \A p \in Projects : []<><<Refreshed>>_vars =>
    /\ <>[](server = "up" /\ p \in registry /\ env[p] # NoToken) => <>[](loaded[p] # NoToken)
    /\ <>[](server = "up" /\ p \notin registry) => <>[](loaded[p] = NoToken)

(* server.rs, admin_refresh: "Remove projects that no longer exist in the  *)
(* registry."  A project that is registered, with nobody adding or         *)
(* removing it, is not unloaded.                                           *)
RegisteredStaysLoaded ==
  [][\A p \in Projects :
       loaded[p] # NoToken /\ loaded'[p] = NoToken /\ server' = "up" =>
         p \notin registry /\ ~Writing]_vars

(* README.md: "To load a newly initialized project without restarting the  *)
(* adapter, call" refresh with the token that auth print-local-token       *)
(* prints.  In the directory of the new project, this token should be      *)
(* accepted, with or without a global profile.                             *)
NewProjectCanBeLoaded ==
  server = "up" /\ loaded[Global] = env[Global] /\ (\A t \in Tools : tool[t].at = "idle") =>
    \A p \in registry : env[p] # NoToken /\ loaded[p] = NoToken => Accepted(PrintedToken(p))
==============================================================================
