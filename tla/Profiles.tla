------------------------------- MODULE Profiles -------------------------------
(***************************************************************************)
(* Where the settings come from: the env files of the projects and of the  *)
(* global profile, the process environment, the flags and the defaults     *)
(* (src/src/config.rs), for the adapter, which loads every profile when it *)
(* starts or is refreshed (src/src/main.rs, src/src/server.rs), and for    *)
(* `check`, which has to find the one profile that is meant by where it is *)
(* called from (resolve_project in src/src/project.rs).                    *)
(*                                                                         *)
(* A project id is the hash of a root, so a directory stands for its id.   *)
(* Between the steps of this module, which are whole commands, Registry    *)
(* has the steps of a command.  A setting is a Value; `limit` stands for   *)
(* all the settings that are parsed as numbers.                            *)
(***************************************************************************)
EXTENDS Naturals, Integers, FiniteSets

CONSTANTS
  Dirs,          \* directories
  ParentDir,     \* ParentDir[d] is the directory above d, or NoDir
  Environments,  \* the process environments commands are run in
  Flags,         \* the flags the adapter is started with
  MaxSecrets,    \* bound: local tokens made up by init
  MaxEdits       \* bound: changes made to env files by hand

GlobalProfile == 0  \* GLOBAL_PROJECT_ID
NoDir == -3
Unset == -2         \* the setting is not there
Blank == -1         \* it is there and empty
ApiKey == 0         \* a value: the MiMo API key; as a number, zero
ForeignToken == MaxSecrets + 1  \* a local token that no init made up
Value == {Unset, Blank, ApiKey, ForeignToken} \cup 1..MaxSecrets
Given(v) == v \notin {Unset, Blank}

Settings == [token : Value, key : Value, limit : Value]
NoSettings == [token |-> Unset, key |-> Unset, limit |-> Unset]
NoEnvFile == [there |-> FALSE, id |-> Unset, process |-> FALSE, set |-> NoSettings]
Roots == Dirs \cup {GlobalProfile}

ASSUME ProfilesAssumption ==
  /\ Dirs \subseteq Nat \ {GlobalProfile}
  /\ ParentDir \in [Dirs -> Dirs \cup {NoDir}]
  /\ Environments \subseteq Settings /\ Flags \subseteq Settings
  /\ MaxSecrets \in Nat /\ MaxEdits \in Nat

VARIABLES
  file,      \* the env file in each root
  entries,   \* the projects in the registry
  secrets,   \* local tokens made up so far
  edits,     \* changes by hand so far
  process,   \* the adapter: whether it is up, its environment and its flags
  runtimes   \* per root, whether it is loaded, from which file, and its config

profileVars == <<file, entries, secrets, edits, process, runtimes>>
filesOnDisk == <<file, entries, secrets, edits>>

NotLoaded == [loaded |-> FALSE, from |-> NoEnvFile, config |-> NoSettings]
NoProcess == [up |-> FALSE, env |-> NoSettings, flags |-> NoSettings]

ProfilesInit ==
  /\ file = [d \in Roots |-> NoEnvFile]
  /\ entries = {}
  /\ secrets = 0 /\ edits = 0
  /\ process = NoProcess
  /\ runtimes = [d \in Roots |-> NotLoaded]

-------------------------------------------------------------------------------
(* Config::from_sources.                                                   *)

(* choose_optional_string: flag, then env file, then process environment.  *)
Choose(flag, inFile, inEnv) ==
  IF flag # Unset THEN flag ELSE IF inFile # Unset THEN inFile ELSE inEnv

(* choose_mimo_api_key.  A blank key in the file hides the environment's,  *)
(* unless the file says that the environment has it.                       *)
ChooseMimoApiKey(flag, f, inEnv) ==
  IF Given(flag) THEN flag
  ELSE IF Given(f.set.key) THEN f.set.key
  ELSE IF f.process THEN inEnv
  ELSE Choose(Unset, f.set.key, inEnv)

FromSources(f, env, flags) ==
  [token |-> Choose(flags.token, f.set.token, env.token),
   key |-> ChooseMimoApiKey(flags.key, f, env.key),
   limit |-> Choose(flags.limit, f.set.limit, env.limit)]

(* It is an error when the key is missing, a number does not parse, or     *)
(* validate refuses: the token is the key, or the limit is zero.           *)
Valid(c) == Given(c.key) /\ c.limit \notin {Blank, 0} /\ c.token # c.key

WithoutToken(env) == [env EXCEPT !.token = Unset]

-------------------------------------------------------------------------------
(* The commands that change files, and the user's own changes.             *)

(* run_init stores the key in the file, or with --api-key-stdin a note     *)
(* that the environment has it; the limit is the default.                  *)
WriteProfile(d, id, inEnv) ==
  /\ secrets < MaxSecrets
  /\ secrets' = secrets + 1
  /\ file' = [file EXCEPT ![d] =
       [there |-> TRUE, id |-> id, process |-> inEnv,
        set |-> [token |-> secrets + 1, key |-> IF inEnv THEN Unset ELSE ApiKey, limit |-> 1]]]
  /\ UNCHANGED <<edits, process, runtimes>>

RunInit(d, inEnv) == WriteProfile(d, d, inEnv) /\ entries' = entries \cup {d}

RunGlobalInit == WriteProfile(GlobalProfile, Unset, TRUE) /\ UNCHANGED entries

(* clean_stale_registry, for commands that do not overlap. *)
CleanRegistry ==
  /\ entries' = {d \in entries : file[d].there /\ file[d].id = d}
  /\ entries' # entries
  /\ UNCHANGED <<file, secrets, edits, process, runtimes>>

ByHand(d, f) ==
  /\ edits < MaxEdits
  /\ edits' = edits + 1
  /\ f # file[d]
  /\ file' = [file EXCEPT ![d] = f]
  /\ UNCHANGED <<entries, secrets, process, runtimes>>

(* A setting is changed, emptied or removed, also the project id; a file   *)
(* is deleted; a project is copied, with its file, to another directory.   *)
EditFile(d) ==
  /\ file[d].there
  /\ \/ \E v \in {Unset, Blank, ApiKey} :
          \/ ByHand(d, [file[d] EXCEPT !.set.token = v])
          \/ ByHand(d, [file[d] EXCEPT !.set.key = v])
          \/ ByHand(d, [file[d] EXCEPT !.set.limit = v])
     \/ ByHand(d, [file[d] EXCEPT !.id = Unset])
     \/ ByHand(d, NoEnvFile)

CopyProject(d, e) == file[d].there /\ ByHand(e, file[d])

-------------------------------------------------------------------------------
(* The adapter.                                                            *)

Load(d, env, flags) ==
  [loaded |-> TRUE, from |-> file[d], config |-> FromSources(file[d], env, flags)]

(* run_server: the profiles with an env file, all of which must be valid.  *)
Found == {d \in entries \cup {GlobalProfile} : file[d].there}
CanRun(env, flags) ==
  Found # {} /\ \A d \in Found : Valid(FromSources(file[d], env, flags))

Run(env, flags) ==
  /\ ~process.up
  /\ CanRun(env, flags)
  /\ process' = [up |-> TRUE, env |-> env, flags |-> flags]
  /\ runtimes' = [d \in Roots |-> IF d \in Found THEN Load(d, env, flags) ELSE NotLoaded]
  /\ UNCHANGED filesOnDisk

RunFails(env, flags) == ~process.up /\ ~CanRun(env, flags) /\ UNCHANGED profileVars

Quit ==
  /\ process.up
  /\ process' = NoProcess
  /\ runtimes' = [d \in Roots |-> NotLoaded]
  /\ UNCHANGED filesOnDisk

(* runtime_accepts_token for any of the loaded profiles. *)
AcceptedToken(t) == Given(t) /\ \E d \in Roots : runtimes[d].loaded /\ runtimes[d].config.token = t

RefreshWith(env) ==
  LET good(d) == file[d].there /\ Valid(FromSources(file[d], env, process.flags))
  IN  /\ process.up
      /\ \E d \in Roots : AcceptedToken(runtimes[d].config.token)
      /\ runtimes' = [d \in Roots |->
           IF d = GlobalProfile THEN runtimes[d]
           ELSE IF d \notin entries THEN NotLoaded
           ELSE IF ~runtimes[d].loaded /\ good(d) THEN Load(d, env, process.flags)
           ELSE runtimes[d]]
      /\ UNCHANGED <<filesOnDisk, process>>

(* admin_refresh skips what cannot be loaded, and does not take a token    *)
(* from the process environment as run_server does.                        *)
AdminRefresh == RefreshWith(WithoutToken(process.env))

-------------------------------------------------------------------------------
(* check.                                                                  *)

(* Where a command is called: its directory, CODEX_MIMO_PROJECT_ID, the    *)
(* directory that Codex noted for the thread, and the environment.         *)
Calls == [cwd : Dirs, id : Dirs \cup {Unset}, thread : Dirs \cup {NoDir}, env : Environments]

(* ProjectPaths::discover_from: the nearest directory with an env file.    *)
Above[d \in Dirs] == {d} \cup IF ParentDir[d] = NoDir THEN {} ELSE Above[ParentDir[d]]

DiscoverFrom(d) ==
  LET found == {e \in Above[d] : file[e].there}
  IN  IF found = {} THEN NoDir ELSE CHOOSE e \in found : found \subseteq Above[e]

(* Mutant: a project that was found is not checked against the registry.   *)
TakenAsFound(d) == IF d # NoDir /\ file[d].there THEN d ELSE NoDir

(* validate_recovered_project: the id in the file is registered, and with  *)
(* this root.                                                              *)
Validated(d) ==
  IF d # NoDir /\ file[d].there /\ file[d].id \in entries /\ file[d].id = d THEN d ELSE NoDir

ResolveProject(c) ==
  LET here == DiscoverFrom(c.cwd)
      ofThread == IF c.thread = NoDir THEN NoDir ELSE DiscoverFrom(c.thread)
  IN  CASE c.id # Unset -> IF c.id \in entries THEN Validated(c.id) ELSE NoDir
        [] c.id = Unset /\ here # NoDir -> Validated(here)
        [] c.id = Unset /\ here = NoDir /\ ofThread # NoDir -> Validated(ofThread)
        [] OTHER -> IF Cardinality(entries) = 1
                    THEN Validated(CHOOSE d \in entries : TRUE) ELSE NoDir

(* run_check: the token sent to /v1/models.  The global profile's, if      *)
(* there is one, else the resolved project's; Unset when check does not    *)
(* get so far.                                                             *)
CheckedToken(c) ==
  LET d == ResolveProject(c)
      config == FromSources(file[d], WithoutToken(c.env), NoSettings)
  IN  IF file[GlobalProfile].there THEN file[GlobalProfile].set.token
      ELSE IF d = NoDir THEN Unset
      ELSE IF Valid(config) THEN config.token ELSE Unset

-------------------------------------------------------------------------------
ProfilesNext ==
  \/ \E d \in Dirs, inEnv \in BOOLEAN : RunInit(d, inEnv)
  \/ RunGlobalInit \/ CleanRegistry
  \/ \E d \in Roots : EditFile(d)
  \/ \E d, e \in Dirs : CopyProject(d, e)
  \/ \E env \in Environments, flags \in Flags : Run(env, flags) \/ RunFails(env, flags)
  \/ Quit \/ AdminRefresh

ProfilesSpec == ProfilesInit /\ [][ProfilesNext]_profileVars

(* Every profile on the disk is loaded as it is on the disk.               *)
UpToDate ==
  \A d \in entries \cup {GlobalProfile} :
    file[d].there => runtimes[d].loaded /\ runtimes[d].from = file[d]

(* server.rs, admin_refresh: "Keep the local token project-scoped so       *)
(* unrelated process environments cannot change adapter authentication".   *)
(* Wherever `check` is called, in a copy of a project, above or below one, *)
(* in a Codex thread or with any environment, the token it sends is one    *)
(* that an adapter with the profiles of the disk accepts, whether it was   *)
(* started or refreshed, and in what environment; unless --local-token     *)
(* overrides them.  So a failing /v1/models means what check says.         *)
CheckIsAccepted ==
  process.up /\ process.flags.token = Unset /\ UpToDate =>
    \A c \in Calls : Given(CheckedToken(c)) => AcceptedToken(CheckedToken(c))
===============================================================================
