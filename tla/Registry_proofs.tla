---------------------------- MODULE Registry_proofs ----------------------------
(***************************************************************************)
(* Proofs about the commands and the profiles they leave, and about the    *)
(* names of tools.  Registry, for any set of projects, commands and        *)
(* refresh handlers and any number of env files written; InitTransaction,  *)
(* for any list of writes and deletions; Profiles, for any directories and *)
(* any tree of them, any environments and flags, and any number of inits   *)
(* and edits; ToolNames, for any names and any number of tools.  The four  *)
(* share no state.                                                         *)
(***************************************************************************)
EXTENDS Registry, InitTransaction, Profiles, ToolNames, SequenceTheorems, FiniteSetTheorems,
        WellFoundedInduction, TLAPS

------------------------------------------------------------------------------
(* Registry.                                                               *)

LEMMA ProfilesFacts ==
  /\ Global \notin Projects /\ Nobody \notin Profiles /\ Nobody \notin Projects
  /\ NoToken \in Token /\ Global \in Profiles /\ Projects \subseteq Profiles
  BY RegistryAssumption DEF Global, Nobody, Profiles, NoToken, Token

------------------------------------------------------------------------------
(* The type.                                                               *)

Command == [at : {"idle", "checking", "saving", "writing", "files", "rest"},
            for : Profiles \cup {Nobody}, seen : SUBSET Projects, was : Token]

(* The files and the commands; a command that writes an env file has one   *)
(* to write.                                                               *)
CommandsOK ==
  /\ registry \subseteq Projects
  /\ env \in [Profiles -> Token] /\ tokens \in Token
  /\ tool \in [Tools -> Command] /\ disturbed \in BOOLEAN
  /\ \A t \in Tools : tool[t].at \in {"files", "rest"} => tool[t].for # Nobody
  /\ \A t \in Tools : tool[t].at = "checking" => tool[t].for = Nobody

AdapterOK ==
  /\ read \subseteq Projects
  /\ loaded \in [Profiles -> Token] /\ started \in Token
  /\ server \in {"down", "starting", "up"}
  /\ refresh \in [Handlers -> [at : {"idle", "authorized", "read"}, seen : SUBSET Projects]]
  /\ server # "up" => /\ \A q \in Profiles : loaded[q] = NoToken
                      /\ \A h \in Handlers : refresh[h] = Resting

LEMMA Typed == CommandsOK /\ AdapterOK => TypeOK
  BY DEF CommandsOK, AdapterOK, TypeOK, Command

LEMMA InitTyped == Init => CommandsOK /\ AdapterOK
<1> SUFFICES ASSUME Init PROVE CommandsOK /\ AdapterOK
  OBVIOUS
<1>1. 0 \in Token /\ NoToken \in Token
  BY ProfilesFacts DEF NoToken
<1>2. Idle \in Command /\ Idle.at = "idle"
  BY <1>1 DEF Idle, Command
<1>3. CommandsOK
  BY <1>1, <1>2 DEF Init, CommandsOK
<1>4. AdapterOK
  BY <1>1 DEF Init, AdapterOK, Resting
<1>5. QED BY <1>3, <1>4

LEMMA ToolStepTyped ==
  ASSUME CommandsOK, NEW t \in Tools, ToolStep(t)
  PROVE  CommandsOK'
<1> USE ProfilesFacts DEF CommandsOK
<1>1. Idle \in Command /\ Idle.at = "idle"
  BY DEF Command, Idle
<1>2. ASSUME NEW p \in Projects, InitProject(t, p)
      PROVE  CommandsOK'
  BY <1>1, <1>2 DEF InitProject, Begin, Command, Idle, files
<1>3. CASE InitGlobal(t)
  BY <1>1, <1>3 DEF InitGlobal, Begin, Command, Idle, files
<1>4. CASE CleanLoad(t)
  BY <1>1, <1>4 DEF CleanLoad, Begin, Command, Idle, files
<1>5. CASE CleanCheck(t)
  BY <1>1, <1>5 DEF CleanCheck, Command, files
<1>6. CASE Truncate(t)
  BY <1>1, <1>6 DEF Truncate, Command
<1>7. CASE Write(t)
  BY <1>1, <1>7 DEF Write, Command
<1>8. CASE WriteEnv(t)
  <2>1. tokens + 1 \in Token
    BY <1>8, RegistryAssumption DEF WriteEnv, Token
  <2>2. tool[t].for \in Profiles /\ env[tool[t].for] \in Token
    BY <1>8 DEF Command, WriteEnv
  <2>3. QED BY <1>8, <2>1, <2>2 DEF WriteEnv, Command
<1>9. CASE End(t)
  BY <1>1, <1>9 DEF End, files
<1>10. CASE Rollback(t)
  BY <1>1, <1>10 DEF Rollback, Command
<1>11. CASE Kill(t)
  BY <1>1, <1>11 DEF Kill, files
<1>12. QED
  BY <1>2, <1>3, <1>4, <1>5, <1>6, <1>7, <1>8, <1>9, <1>10, <1>11 DEF ToolStep

(* What the adapter does. *)
AdapterStep == StartLoad \/ StartApply \/ Stop \/ \E h \in Handlers : Handle(h)

LEMMA AdapterStepTyped ==
  ASSUME CommandsOK, AdapterOK, AdapterStep
  PROVE  AdapterOK'
<1> USE ProfilesFacts DEF CommandsOK, AdapterOK
<1>1. CASE StartLoad
  BY <1>1 DEF StartLoad
<1>2. CASE StartApply
  BY <1>2 DEF StartApply
<1>3. CASE Stop
  BY <1>3 DEF Stop, Resting
<1>4. ASSUME NEW h \in Handlers, RefreshAuthorize(h)
      PROVE  AdapterOK'
  BY <1>4 DEF RefreshAuthorize
<1>5. ASSUME NEW h \in Handlers, RefreshLoad(h)
      PROVE  AdapterOK'
  <2>1. server = "up"
    BY <1>5 DEF RefreshLoad, Resting
  <2>2. QED BY <1>5, <2>1 DEF RefreshLoad
<1>6. ASSUME NEW h \in Handlers, RefreshApply(h)
      PROVE  AdapterOK'
  <2>1. server = "up"
    BY <1>6 DEF RefreshApply, Refresh, Resting
  <2>2. QED BY <1>6, <2>1 DEF RefreshApply, Refresh, Resting
<1>7. QED
  BY <1>1, <1>2, <1>3, <1>4, <1>5, <1>6 DEF AdapterStep, Handle

(* A step of the adapter does not touch the files and the commands, nor a  *)
(* command or a deletion the adapter.                                      *)
LEMMA StepFrames ==
  ASSUME [Next]_vars
  PROVE  \/ AdapterStep /\ UNCHANGED commands
         \/ (\E t \in Tools : ToolStep(t)) /\ UNCHANGED adapter
         \/ (\E p \in Projects : Delete(p)) /\ UNCHANGED adapter
         \/ UNCHANGED vars
<1>1. AdapterStep => UNCHANGED commands
  BY DEF AdapterStep, Handle, StartLoad, StartApply, Stop, RefreshAuthorize, RefreshLoad,
         RefreshApply, Refresh
<1>2. \A t \in Tools : ToolStep(t) => UNCHANGED adapter
  BY DEF ToolStep, InitProject, InitGlobal, CleanLoad, Begin, CleanCheck, Truncate,
         Write, WriteEnv, End, Rollback, Kill
<1>3. \A p \in Projects : Delete(p) => UNCHANGED adapter
  BY DEF Delete
<1>4. QED BY <1>1, <1>2, <1>3 DEF Next, AdapterStep

LEMMA StepTyped ==
  ASSUME CommandsOK, AdapterOK, [Next]_vars
  PROVE  CommandsOK' /\ AdapterOK'
<1>1. CASE UNCHANGED vars
  BY <1>1 DEF vars, CommandsOK, AdapterOK
<1>2. ASSUME NEW t \in Tools, ToolStep(t), UNCHANGED adapter
      PROVE  CommandsOK' /\ AdapterOK'
  BY <1>2, ToolStepTyped DEF adapter, AdapterOK
<1>3. ASSUME NEW p \in Projects, Delete(p)
      PROVE  CommandsOK' /\ AdapterOK'
  BY <1>3, ProfilesFacts DEF Delete, adapter, CommandsOK, AdapterOK
<1>4. CASE AdapterStep /\ UNCHANGED commands
  BY <1>4, AdapterStepTyped DEF commands, CommandsOK
<1>5. QED BY <1>1, <1>2, <1>3, <1>4, StepFrames

(* Every reachable state of the registry, the commands and the adapter is  *)
(* well typed; an adapter that is not up has loaded nothing and handles    *)
(* nothing.                                                                *)
THEOREM TypeCorrect == Spec => []TypeOK
<1>1. CommandsOK /\ AdapterOK /\ [Next]_vars => (CommandsOK /\ AdapterOK)'
  BY StepTyped
<1>2. QED BY <1>1, InitTyped, Typed, PTL DEF Spec

------------------------------------------------------------------------------
(* The global profile.                                                     *)

(* No refresh unloads or reloads it. *)
GlobalLoaded == server = "up" => loaded[Global] = started

LEMMA GlobalStays ==
  ASSUME CommandsOK, AdapterOK, GlobalLoaded, [Next]_vars
  PROVE  GlobalLoaded'
<1> USE ProfilesFacts DEF CommandsOK, AdapterOK, GlobalLoaded
<1>1. CASE UNCHANGED adapter
  BY <1>1 DEF adapter
<1>2. CASE AdapterStep
  <2>1. CASE StartLoad
    BY <2>1 DEF StartLoad
  <2>2. CASE StartApply
    BY <2>2 DEF StartApply
  <2>3. CASE Stop
    BY <2>3 DEF Stop
  <2>4. ASSUME NEW h \in Handlers, RefreshAuthorize(h) \/ RefreshLoad(h)
        PROVE  GlobalLoaded'
    BY <2>4 DEF RefreshAuthorize, RefreshLoad
  <2>5. ASSUME NEW h \in Handlers, RefreshApply(h)
        PROVE  GlobalLoaded'
    <3>1. Global \notin refresh[h].seen /\ Global \notin Projects \ refresh[h].seen
      OBVIOUS
    <3>2. loaded'[Global] = loaded[Global] /\ server' = server /\ started' = started
      BY <2>5, <3>1 DEF RefreshApply, Refresh
    <3>3. QED BY <3>2
  <2>6. QED BY <1>2, <2>1, <2>2, <2>3, <2>4, <2>5 DEF AdapterStep, Handle
<1>3. QED
  BY <1>1, <1>2, StepFrames DEF Next, vars

(* With a global profile that was not initialised again since the adapter  *)
(* came up, the token that auth print-local-token prints is accepted, in   *)
(* any directory and whatever happened to the registry.                    *)
THEOREM GlobalAccepted == Spec => []GlobalTokenAccepted
<1>1. Init => CommandsOK /\ AdapterOK /\ GlobalLoaded
  BY InitTyped DEF Init, GlobalLoaded
<1>2. CommandsOK /\ AdapterOK /\ GlobalLoaded /\ [Next]_vars
      => (CommandsOK /\ AdapterOK /\ GlobalLoaded)'
  BY StepTyped, GlobalStays
<1>3. CommandsOK /\ AdapterOK /\ GlobalLoaded => GlobalTokenAccepted
  BY ProfilesFacts DEF GlobalLoaded, GlobalTokenAccepted, PrintedToken, Accepted, NoToken
<1>4. QED BY <1>1, <1>2, <1>3, PTL DEF Spec

------------------------------------------------------------------------------
(* Commands one after another keep the registry.                           *)

Covers(ids) == \A p \in Projects : env[p] # NoToken => p \in ids

(* A command will write no less than the projects that have an env file,   *)
(* and writes no env file of a project it has not registered.              *)
Keeps(t) ==
  /\ tool[t].at \in {"checking", "saving", "writing"} => Covers(tool[t].seen)
  /\ tool[t].at \in {"saving", "writing"} /\ tool[t].for \in Projects =>
       tool[t].for \in tool[t].seen
  /\ tool[t].at \in {"files", "rest"} /\ tool[t].for \in Projects =>
       tool[t].for \in registry

(* All that matters of a command that runs alone. *)
Safe(t) == Keeps(t) /\ (tool[t].at # "writing" => Covers(registry))

Undisturbed ==
  /\ \A t, u \in Tools : tool[t].at # "idle" /\ tool[u].at # "idle" => t = u
  /\ \A t \in Tools : Keeps(t)
  /\ ~Writing => Covers(registry)

EInv == CommandsOK /\ (~disturbed => Undisturbed)

LEMMA ToolStepKeeps ==
  ASSUME EInv, NEW t \in Tools, ToolStep(t), ~disturbed'
  PROVE  Undisturbed'
<1> USE ProfilesFacts DEF CommandsOK
<1>1. ~disturbed /\ Undisturbed /\ CommandsOK /\ tool \in [Tools -> Command]
  BY DEF EInv, ToolStep, InitProject, InitGlobal, CleanLoad, Begin, CleanCheck, Truncate,
         Write, WriteEnv, End, Rollback, Kill
<1>2. /\ \A u \in Tools \ {t} : tool'[u] = tool[u]
      /\ DOMAIN tool' = Tools
  BY <1>1 DEF ToolStep, InitProject, InitGlobal, CleanLoad, Begin, CleanCheck, Truncate,
         Write, WriteEnv, End, Rollback, Kill, Command
<1>3. \A u \in Tools \ {t} : tool[u].at = "idle" /\ tool'[u].at = "idle"
  <2>1. CASE tool[t].at = "idle"
    BY <1>1, <1>2, <2>1 DEF ToolStep, InitProject, InitGlobal, CleanLoad, Begin, Alone,
         CleanCheck, Truncate, Write, WriteEnv, End, Rollback, Kill
  <2>2. CASE tool[t].at # "idle"
    BY <1>1, <1>2, <2>2 DEF Undisturbed
  <2>3. QED BY <2>1, <2>2
<1>4. Safe(t)
  BY <1>1, <1>3 DEF Undisturbed, Safe, Writing
<1>5. SUFFICES Safe(t)'
  BY <1>3 DEF Undisturbed, Keeps, Safe, Writing
<1> USE DEF Safe, Keeps, Covers
<1>6. ASSUME NEW p \in Projects, InitProject(t, p)
      PROVE  Safe(t)'
  BY <1>1, <1>4, <1>6 DEF InitProject, Begin, Idle, files
<1>7. CASE InitGlobal(t)
  BY <1>1, <1>4, <1>7 DEF InitGlobal, Begin, Idle, files
<1>8. CASE CleanLoad(t)
  BY <1>1, <1>4, <1>8 DEF CleanLoad, Begin, Idle, files
<1>9. CASE CleanCheck(t)
  <2>1. \A p \in Projects : env[p] # NoToken => p \notin Stale(tool[t].seen)
    BY DEF Stale
  <2>2. QED BY <1>1, <1>4, <1>9, <2>1 DEF CleanCheck, Command, Idle, files
<1>10. CASE Truncate(t)
  BY <1>1, <1>4, <1>10 DEF Truncate
<1>11. CASE Write(t)
  BY <1>1, <1>4, <1>11 DEF Write, Idle
<1>12. CASE WriteEnv(t)
  BY <1>1, <1>4, <1>12 DEF WriteEnv
<1>13. CASE End(t)
  BY <1>1, <1>4, <1>13 DEF End, Idle, files
<1>14. CASE Rollback(t)
  BY <1>1, <1>4, <1>14 DEF Rollback, Idle
<1>15. CASE Kill(t)
  BY <1>1, <1>4, <1>15 DEF Kill, Idle, files
<1>16. QED
  BY <1>6, <1>7, <1>8, <1>9, <1>10, <1>11, <1>12, <1>13, <1>14, <1>15 DEF ToolStep

LEMMA StepKeeps ==
  ASSUME EInv, AdapterOK, [Next]_vars
  PROVE  EInv'
<1>1. CommandsOK /\ CommandsOK'
  BY StepTyped DEF EInv
<1>2. ASSUME ~disturbed' PROVE Undisturbed'
  <2>1. ASSUME NEW t \in Tools, ToolStep(t)
        PROVE  Undisturbed'
    BY <1>2, <2>1, ToolStepKeeps
  <2>2. ASSUME NEW p \in Projects, Delete(p)
        PROVE  Undisturbed'
    <3>1. /\ UNCHANGED <<registry, tool, disturbed>>
          /\ \A q \in Projects : env'[q] # NoToken => env[q] # NoToken
      BY <1>1, <2>2, ProfilesFacts DEF Delete, CommandsOK
    <3>2. QED BY <1>2, <3>1 DEF EInv, Undisturbed, Keeps, Covers, Writing
  <2>3. CASE UNCHANGED commands
    BY <1>2, <2>3 DEF commands, EInv, Undisturbed, Keeps, Covers, Writing
  <2>4. UNCHANGED vars => UNCHANGED commands
    BY DEF vars, commands
  <2>5. QED BY <2>1, <2>2, <2>3, <2>4, StepFrames
<1>3. QED BY <1>1, <1>2 DEF EInv

(* As long as commands run one after another and none is killed while it   *)
(* writes a file, no sequence of init, failed or killed init, deletion and *)
(* clean-registry takes a project that has its env file out of the         *)
(* registry.                                                               *)
THEOREM RegistryKeepsEntries == Spec => []EntriesSurvive
<1>1. Init => EInv /\ AdapterOK
  <2>1. Init => Undisturbed
    BY ProfilesFacts DEF Init, Undisturbed, Keeps, Covers, Idle
  <2>2. QED BY <2>1, InitTyped DEF EInv
<1>2. EInv /\ AdapterOK /\ [Next]_vars => (EInv /\ AdapterOK)'
  BY StepKeeps, StepTyped DEF EInv
<1>3. EInv => EntriesSurvive
  BY DEF EInv, Undisturbed, Covers, EntriesSurvive
<1>4. QED BY <1>1, <1>2, <1>3, PTL DEF Spec

------------------------------------------------------------------------------
(* InitTransaction.                                                        *)

Contents == {"none", "old", "new", "partial"}
Original == [file : Files, original : Contents]
Busy == {"log", "apply", "replace", "failed", "ok"}
UndoingStages == {"undo", "restore", "undone"}

TxnTypeOK ==
  /\ before \in [Files -> Contents] /\ disk \in [Files -> Contents]
  /\ temps \subseteq Files
  /\ applied \in Seq(Original)
  /\ doing \in 1..(Len(Changes) + 1)
  /\ stage \in Busy \cup UndoingStages \cup {"error", "dead"}
  /\ undoing \in BOOLEAN /\ spoiled \in BOOLEAN

(* The snapshots are those of the first files, in order.                   *)
SnapshotsOK ==
  /\ Len(applied) <= Len(Changes)
  /\ \A i \in 1..Len(applied) : applied[i] = [file |-> i, original |-> before[i]]

(* Where the command is, and what it has left.                             *)
StagesOK ==
  /\ stage \in Busy => ~undoing
  /\ stage \in UndoingStages => undoing
  /\ stage \in {"apply", "replace"} => doing <= Len(Changes)
  /\ stage \in {"log", "apply", "ok"} => temps = {}
  /\ stage = "replace" => Changes[doing] = "write" /\ temps = {doing}
  /\ stage = "ok" => doing > Len(Changes)
  /\ stage = "restore" => applied # <<>>
  /\ stage = "error" /\ ~spoiled => undoing /\ applied = <<>>

(* The changes with a snapshot are made, the others are not: the file that *)
(* is being restored excepted.                                             *)
DiskOK ==
  /\ ~undoing => Len(applied) = doing - 1
  /\ ~undoing \/ ~spoiled =>
       \A f \in Files :
         \/ stage \in {"restore", "dead"} /\ undoing /\ f = Len(applied)
         \/ disk[f] = IF f <= Len(applied) THEN Target(f) ELSE before[f]

TxnInv == TxnTypeOK /\ SnapshotsOK /\ StagesOK /\ DiskOK

LEMMA ChangesFacts ==
  /\ Len(Changes) \in Nat /\ Files = 1..Len(Changes)
  /\ \A f \in Files : Changes[f] \in {"write", "delete"} /\ Target(f) \in Contents
  BY ChangesAreChanges DEF Files, Target, Contents

LEMMA AppliedFacts ==
  ASSUME TxnInv
  PROVE  /\ applied \in Seq(Original) /\ Len(applied) \in 0..Len(Changes)
         /\ applied # <<>> =>
              /\ Len(applied) \in 1..Len(Changes)
              /\ Snapshot = [file |-> Len(applied), original |-> before[Len(applied)]]
<1>1. applied \in Seq(Original) /\ Len(applied) \in Nat /\ Len(applied) <= Len(Changes)
  BY LenProperties DEF TxnInv, TxnTypeOK, SnapshotsOK
<1>2. applied # <<>> => Len(applied) # 0
  BY <1>1, EmptySeq
<1>3. Len(applied) # 0 => Len(applied) \in 1..Len(applied)
  BY <1>1
<1>4. Len(applied) # 0 => Snapshot = [file |-> Len(applied), original |-> before[Len(applied)]]
  BY <1>3 DEF TxnInv, SnapshotsOK, Snapshot
<1>5. QED BY <1>1, <1>2, <1>4, ChangesFacts

LEMMA TxnInitHolds == TxnInit => TxnInv
<1> SUFFICES ASSUME TxnInit PROVE TxnInv
  OBVIOUS
<1> USE ChangesFacts DEF TxnInit
<1>1. applied \in Seq(Original) /\ Len(applied) = 0
  OBVIOUS
<1>2. TxnTypeOK
  <2>1. before \in [Files -> Contents] /\ disk \in [Files -> Contents]
    BY DEF Contents
  <2>2. doing \in 1..(Len(Changes) + 1)
    OBVIOUS
  <2>3. QED BY <1>1, <2>1, <2>2 DEF TxnTypeOK, Busy
<1>3. SnapshotsOK /\ DiskOK
  BY <1>1 DEF SnapshotsOK, DiskOK
<1>4. StagesOK
  BY DEF StagesOK, Busy, UndoingStages
<1>5. QED BY <1>2, <1>3, <1>4 DEF TxnInv

(* Steps that leave the files and the snapshots alone. *)
LEMMA QuietStep ==
  ASSUME TxnInv,
         \/ LogFails \/ LogChange \/ WriteTemp \/ ApplyFails \/ FinishTransaction \/ BeginRollback
         \/ LogUndone \/ ReturnError \/ TxnCrash \/ TxnOver
  PROVE  TxnInv'
<1> USE ChangesFacts DEF TxnInv, TxnTypeOK, SnapshotsOK, StagesOK, DiskOK, At, Busy, UndoingStages
<1>1. CASE LogFails
  BY <1>1 DEF LogFails
<1>2. CASE LogChange
  BY <1>2 DEF LogChange
<1>3. CASE WriteTemp
  <2>1. doing \in Files /\ temps = {}
    BY <1>3 DEF WriteTemp
  <2>2. QED BY <1>3, <2>1 DEF WriteTemp
<1>4. CASE ApplyFails
  <2>1. doing \in Files /\ temps' \subseteq Files
    BY <1>4 DEF ApplyFails
  <2>2. QED BY <1>4, <2>1 DEF ApplyFails
<1>5. CASE FinishTransaction
  BY <1>5 DEF FinishTransaction
<1>6. CASE BeginRollback
  BY <1>6 DEF BeginRollback
<1>7. CASE LogUndone
  BY <1>7 DEF LogUndone
<1>8. CASE ReturnError
  BY <1>8 DEF ReturnError
<1>9. CASE TxnCrash
  BY <1>9 DEF TxnCrash
<1>10. CASE TxnOver
  BY <1>10 DEF TxnOver, txnVars
<1>11. QED BY <1>1, <1>2, <1>3, <1>4, <1>5, <1>6, <1>7, <1>8, <1>9, <1>10

(* The snapshots after a change was made, and after one was undone. *)
LEMMA AppliedSnapshot ==
  ASSUME TxnInv, stage \in {"apply", "replace"}, Applied(doing)
  PROVE  /\ applied' \in Seq(Original) /\ Len(applied') = Len(applied) + 1
         /\ Len(applied') = doing
         /\ \A i \in 1..Len(applied') :
              applied'[i] = [file |-> i, original |-> before[i]]
<1> DEFINE new == [file |-> doing, original |-> disk[doing]]
<1>1. doing \in Files /\ doing = Len(applied) + 1 /\ disk[doing] = before[doing]
  BY ChangesFacts DEF TxnInv, TxnTypeOK, StagesOK, DiskOK, Busy
<1>2. new \in Original /\ applied \in Seq(Original) /\ applied' = Append(applied, new)
  BY <1>1 DEF Applied, TxnInv, TxnTypeOK, Original
<1>3. new = [file |-> Len(applied) + 1, original |-> before[Len(applied) + 1]]
  BY <1>1
<1> HIDE DEF new
<1>4. QED BY <1>1, <1>2, <1>3, AppendProperties DEF TxnInv, SnapshotsOK

LEMMA UndoneSnapshot ==
  ASSUME TxnInv, applied # <<>>, Undone
  PROVE  /\ applied' \in Seq(Original) /\ Len(applied') = Len(applied) - 1
         /\ Len(applied) \in 1..Len(Changes)
         /\ Snapshot = [file |-> Len(applied), original |-> before[Len(applied)]]
         /\ \A i \in 1..Len(applied') :
              applied'[i] = [file |-> i, original |-> before[i]]
<1> DEFINE n == Len(applied)
<1>1. applied \in Seq(Original) /\ n \in 1..Len(Changes) /\ n \in Nat
  BY AppliedFacts, ChangesFacts
<1>2. applied' = SubSeq(applied, 1, n - 1)
  BY DEF Undone
<1>3. /\ applied' \in Seq(Original) /\ Len(applied') = n - 1
      /\ \A i \in 1..(n - 1) : applied'[i] = applied[i]
  <2>1. n - 1 \in Int /\ n - 1 <= n /\ n - 1 >= 0 /\ \A i \in 1..n : applied[i] \in Original
    BY <1>1, ChangesFacts, ElementOfSeq
  <2> HIDE DEF n
  <2>2. \A i \in 1..(n - 1) : applied[i] \in Original
    BY <1>1, <2>1
  <2>3. QED BY <1>1, <1>2, <2>1, <2>2, SubSeqProperties
<1>4. \A i \in 1..(n - 1) : applied[i] = [file |-> i, original |-> before[i]]
  BY <1>1, ChangesFacts DEF TxnInv, SnapshotsOK
<1>5. QED BY <1>1, <1>3, <1>4, AppliedFacts

LEMMA ReplaceKeeps ==
  ASSUME TxnInv, \/ ReplacePath
                 \/ RemoveFile
  PROVE  TxnInv'
<1> USE ChangesFacts
<1>1. /\ stage \in {"apply", "replace"} /\ doing \in Files /\ ~undoing
      /\ disk' = [disk EXCEPT ![doing] = Target(doing)]
      /\ temps' = {} /\ stage' = "log" /\ doing' = doing + 1
      /\ UNCHANGED <<before, undoing, spoiled>>
      /\ Applied(doing)
  <2>1. doing \in Files /\ stage \in {"apply", "replace"} /\ ~undoing
    BY DEF ReplacePath, RemoveFile, At, TxnInv, TxnTypeOK, StagesOK, Busy
  <2>2. CASE ReplacePath
    <3>1. Changes[doing] = "write" /\ temps = {doing} /\ temps' = temps \ {doing}
      BY <2>2 DEF ReplacePath, At, TxnInv, StagesOK
    <3>2. Target(doing) = "new" /\ temps' = {}
      BY <3>1 DEF Target
    <3>3. QED BY <2>1, <2>2, <3>2 DEF ReplacePath, Applied
  <2>3. CASE RemoveFile
    <3>1. Target(doing) = "none" /\ temps' = {}
      BY <2>3 DEF RemoveFile, At, TxnInv, StagesOK, Target
    <3>2. QED BY <2>1, <2>3, <3>1 DEF RemoveFile, Applied
  <2>4. QED BY <2>2, <2>3
<1>2. /\ applied' \in Seq(Original) /\ Len(applied') = Len(applied) + 1
      /\ Len(applied') = doing
      /\ \A i \in 1..Len(applied') : applied'[i] = [file |-> i, original |-> before[i]]
  BY <1>1, AppliedSnapshot
<1>3. TxnTypeOK' /\ SnapshotsOK' /\ StagesOK'
  BY <1>1, <1>2 DEF TxnInv, TxnTypeOK, SnapshotsOK, StagesOK, Busy, UndoingStages
<1>4. \A f \in Files : disk'[f] = IF f <= Len(applied') THEN Target(f) ELSE before'[f]
  BY <1>1, <1>2 DEF TxnInv, TxnTypeOK, DiskOK, Busy, UndoingStages
<1>5. DiskOK'
  <2>1. ~undoing' /\ Len(applied') = doing' - 1
    BY <1>1, <1>2 DEF TxnInv, TxnTypeOK
  <2>2. Target(1)' = Target(1) /\ \A f : Target(f)' = Target(f)
    BY DEF Target
  <2>3. QED BY <1>4, <2>1, <2>2 DEF DiskOK
<1>6. QED BY <1>3, <1>5 DEF TxnInv

LEMMA TruncateKeeps ==
  ASSUME TxnInv, TruncateTarget
  PROVE  TxnInv'
<1> USE ChangesFacts
<1>1. /\ Len(applied) \in 1..Len(Changes) /\ Snapshot.file = Len(applied)
      /\ stage = "undo" /\ stage' = "restore"
      /\ disk' = [disk EXCEPT ![Len(applied)] = "partial"]
      /\ UNCHANGED <<before, temps, applied, doing, undoing, spoiled>>
  <2>1. applied # <<>> /\ disk' = [disk EXCEPT ![Snapshot.file] = "partial"]
    BY DEF TruncateTarget
  <2>2. Len(applied) \in 1..Len(Changes) /\ Snapshot.file = Len(applied)
    BY <2>1, AppliedFacts
  <2>3. QED BY <2>1, <2>2 DEF TruncateTarget
<1>2. undoing
  BY <1>1 DEF TxnInv, StagesOK, UndoingStages
<1>3. TxnTypeOK' /\ SnapshotsOK' /\ StagesOK'
  BY <1>1, <1>2 DEF TruncateTarget, TxnInv, TxnTypeOK, SnapshotsOK, StagesOK, Busy,
                        UndoingStages, Contents
<1>4. DiskOK'
  BY <1>1, <1>2 DEF TxnInv, TxnTypeOK, DiskOK, Target
<1>5. QED BY <1>3, <1>4 DEF TxnInv

LEMMA RestoreKeeps ==
  ASSUME TxnInv, Restore \/ RestoreFails
  PROVE  TxnInv'
<1> USE ChangesFacts
<1>1. applied # <<>> /\ Undone /\ stage \in {"undo", "restore"} /\ undoing
  BY DEF Restore, RestoreFails, TxnInv, StagesOK, UndoingStages
<1>2. /\ applied' \in Seq(Original) /\ Len(applied') = Len(applied) - 1
      /\ Len(applied) \in 1..Len(Changes)
      /\ Snapshot = [file |-> Len(applied), original |-> before[Len(applied)]]
      /\ \A i \in 1..Len(applied') : applied'[i] = [file |-> i, original |-> before[i]]
  BY <1>1, UndoneSnapshot
<1>3. /\ stage' = "undone" /\ UNCHANGED <<before, temps, doing, undoing>>
      /\ \/ UNCHANGED spoiled /\ disk' = [disk EXCEPT ![Len(applied)] = before[Len(applied)]]
         \/ spoiled' = TRUE /\ UNCHANGED disk
  BY <1>2 DEF Restore, RestoreFails, Undone
<1>4. TxnTypeOK' /\ SnapshotsOK' /\ StagesOK'
  <2>1. spoiled' \in BOOLEAN /\ disk' \in [Files -> Contents]
    BY <1>2, <1>3 DEF TxnInv, TxnTypeOK
  <2>2. TxnTypeOK' /\ StagesOK'
    BY <1>1, <1>2, <1>3, <2>1 DEF TxnInv, TxnTypeOK, StagesOK, Busy, UndoingStages
  <2>3. SnapshotsOK'
    BY <1>2, <1>3 DEF SnapshotsOK
  <2>4. QED BY <2>2, <2>3
<1>5. DiskOK'
  <2>1. CASE spoiled'
    BY <1>1, <1>3, <2>1 DEF DiskOK
  <2>2. CASE ~spoiled'
    <3>1. ~spoiled /\ disk' = [disk EXCEPT ![Len(applied)] = before[Len(applied)]]
      BY <1>3, <2>2 DEF TxnInv, TxnTypeOK
    <3>2. \A f \in Files \ {Len(applied)} :
             disk[f] = IF f <= Len(applied) THEN Target(f) ELSE before[f]
      BY <1>1, <3>1 DEF TxnInv, DiskOK
    <3>3. \A f \in Files : disk'[f] = IF f <= Len(applied') THEN Target(f) ELSE before[f]
      BY <1>2, <3>1, <3>2 DEF TxnInv, TxnTypeOK
    <3>4. QED BY <1>1, <1>3, <3>3 DEF DiskOK, Target
  <2>3. QED BY <2>1, <2>2
<1>6. QED BY <1>4, <1>5 DEF TxnInv

LEMMA TxnStepKeeps ==
  ASSUME TxnInv, [TxnNext]_txnVars
  PROVE  TxnInv'
<1>1. CASE UNCHANGED txnVars
  BY <1>1 DEF txnVars, TxnInv, TxnTypeOK, SnapshotsOK, StagesOK, DiskOK, Target
<1>2. QED BY <1>1, QuietStep, ReplaceKeeps, TruncateKeeps, RestoreKeeps DEF TxnNext

(* Every reachable state of the transaction satisfies the invariant.       *)
LEMMA TxnInvariant == TxnSpec => []TxnInv
  BY TxnInitHolds, TxnStepKeeps, PTL DEF TxnSpec

(* The transaction of init makes all its changes, or none when it reports  *)
(* an error and the log and the rollback itself worked: for any list of    *)
(* changes, among which the registry is not.                               *)
THEOREM Atomic == TxnSpec => []AllOrNothing
<1>1. TxnInv => AllOrNothing
  BY ChangesFacts DEF TxnInv, TxnTypeOK, StagesOK, DiskOK, AllOrNothing, Busy
<1>2. QED BY <1>1, TxnInvariant, PTL

(* Until a rollback begins, and after a crash before it, a prefix of the   *)
(* changes is made, and no file is cut off.                                *)
THEOREM PrefixMade == TxnSpec => []FilesStayWhole
<1>1. TxnInv => FilesStayWhole
  <2> SUFFICES ASSUME TxnInv, ~undoing PROVE FilesStayWhole
    BY DEF FilesStayWhole
  <2>1. Len(applied) \in 0..Len(Changes)
    BY AppliedFacts
  <2>2. \A f \in Files : disk[f] = IF f <= Len(applied) THEN Target(f) ELSE before[f]
    BY DEF TxnInv, DiskOK
  <2>3. QED BY <2>1, <2>2 DEF FilesStayWhole
<1>2. QED BY <1>1, TxnInvariant, PTL
------------------------------------------------------------------------------
(* Profiles.                                                               *)

(* What the adapter holds of a profile was made, with the flags it was     *)
(* started with, from the env file that profile had when it was loaded.    *)
(* Which environment it was made in differs between start and refresh.     *)
Faithful(d) ==
  runtimes[d].loaded =>
    \E e : runtimes[d].config = FromSources(runtimes[d].from, e, process.flags)

ProfilesInv ==
  /\ entries \subseteq Dirs
  /\ ~process.up => \A d \in Roots : ~runtimes[d].loaded
  /\ \A d \in Roots : Faithful(d)

LEMMA LoadIsFaithful ==
  ASSUME NEW d, NEW e, NEW flags
  PROVE  /\ Load(d, e, flags).loaded
         /\ Load(d, e, flags).config = FromSources(Load(d, e, flags).from, e, flags)
BY DEF Load

LEMMA InitProfilesInv == ProfilesInit => ProfilesInv
BY DEF ProfilesInit, ProfilesInv, Faithful, NotLoaded

(* The commands change files and entries only. *)
LEMMA FilesProfilesInv ==
  ASSUME ProfilesInv, entries' \subseteq Dirs, UNCHANGED <<process, runtimes>>
  PROVE  ProfilesInv'
BY DEF ProfilesInv, Faithful

LEMMA RunProfilesInv ==
  ASSUME ProfilesInv, NEW e, NEW flags, Run(e, flags)
  PROVE  ProfilesInv'
<1>1. /\ process' = [up |-> TRUE, env |-> e, flags |-> flags] /\ entries' = entries
      /\ \A d \in Roots : runtimes'[d] = IF d \in Found THEN Load(d, e, flags) ELSE NotLoaded
  BY DEF Run, filesOnDisk
<1>2. process'.up /\ process'.flags = flags
  BY <1>1
<1>3. ASSUME NEW d \in Roots
      PROVE  Faithful(d)'
  <2>1. CASE d \in Found
    BY <1>1, <1>2, <2>1, LoadIsFaithful DEF Faithful
  <2>2. CASE d \notin Found
    BY <1>1, <2>2 DEF Faithful, NotLoaded
  <2>3. QED BY <2>1, <2>2
<1>4. QED BY <1>1, <1>2, <1>3 DEF ProfilesInv

LEMMA RefreshProfilesInv ==
  ASSUME ProfilesInv, AdminRefresh
  PROVE  ProfilesInv'
<1>1. /\ process.up /\ UNCHANGED <<process, entries>>
      /\ \A d \in Roots :
           \/ runtimes'[d] = runtimes[d]
           \/ runtimes'[d] = NotLoaded
           \/ runtimes'[d] = Load(d, WithoutToken(process.env), process.flags)
  BY DEF AdminRefresh, RefreshWith, filesOnDisk
<1>2. ASSUME NEW d \in Roots
      PROVE  Faithful(d)'
  <2>1. CASE runtimes'[d] = runtimes[d]
    BY <1>1, <2>1 DEF ProfilesInv, Faithful
  <2>2. CASE runtimes'[d] = NotLoaded
    BY <2>2 DEF Faithful, NotLoaded
  <2>3. CASE runtimes'[d] = Load(d, WithoutToken(process.env), process.flags)
    BY <1>1, <2>3, LoadIsFaithful DEF Faithful
  <2>4. QED BY <1>1, <2>1, <2>2, <2>3
<1>3. QED BY <1>1, <1>2 DEF ProfilesInv

LEMMA NextProfilesInv == ProfilesInv /\ [ProfilesNext]_profileVars => ProfilesInv'
<1> SUFFICES ASSUME ProfilesInv, [ProfilesNext]_profileVars PROVE ProfilesInv'
  OBVIOUS
<1>1. CASE (\E d \in Dirs, inEnv \in BOOLEAN : RunInit(d, inEnv)) \/ RunGlobalInit
  BY <1>1, FilesProfilesInv DEF RunInit, RunGlobalInit, WriteProfile, ProfilesInv
<1>2. CASE CleanRegistry
  BY <1>2, FilesProfilesInv DEF CleanRegistry, ProfilesInv
<1>3. CASE (\E d \in Roots : EditFile(d)) \/ (\E d, e \in Dirs : CopyProject(d, e))
  BY <1>3, FilesProfilesInv DEF EditFile, CopyProject, ByHand, ProfilesInv
<1>4. CASE \E e \in Environments, flags \in Flags : Run(e, flags)
  BY <1>4, RunProfilesInv
<1>5. CASE (\E e \in Environments, flags \in Flags : RunFails(e, flags)) \/ UNCHANGED profileVars
  BY <1>5, FilesProfilesInv DEF RunFails, profileVars, ProfilesInv
<1>6. CASE Quit
  BY <1>6 DEF Quit, ProfilesInv, Faithful, NotLoaded, NoProcess, filesOnDisk
<1>7. CASE AdminRefresh
  BY <1>7, RefreshProfilesInv
<1>8. QED BY <1>1, <1>2, <1>3, <1>4, <1>5, <1>6, <1>7 DEF ProfilesNext

LEMMA ProfilesInvariance == ProfilesSpec => []ProfilesInv
BY InitProfilesInv, NextProfilesInv, PTL DEF ProfilesSpec

(* The token of a file that is loaded as it is on the disk is accepted: no *)
(* environment takes precedence over it.                                   *)
LEMMA FileTokenAccepted ==
  ASSUME ProfilesInv, UpToDate, process.flags.token = Unset,
         NEW d \in entries \cup {GlobalProfile}, file[d].there,
         Given(file[d].set.token)
  PROVE  AcceptedToken(file[d].set.token)
<1>1. d \in Roots
  BY DEF ProfilesInv, Roots
<1>2. runtimes[d].loaded /\ runtimes[d].from = file[d]
  BY DEF UpToDate
<1>3. PICK e : runtimes[d].config = FromSources(file[d], e, process.flags)
  BY <1>1, <1>2 DEF ProfilesInv, Faithful
<1>4. runtimes[d].config.token = Choose(Unset, file[d].set.token, e.token)
  BY <1>3 DEF FromSources
<1>5. runtimes[d].config.token = file[d].set.token
  BY <1>4 DEF Choose, Given
<1>6. QED BY <1>1, <1>2, <1>5 DEF AcceptedToken

(* Whichever way a project is found, it is a registered one. *)
LEMMA ResolvedIsRegistered ==
  ASSUME NEW c, ResolveProject(c) # NoDir
  PROVE  ResolveProject(c) \in entries /\ file[ResolveProject(c)].there
<1>1. \A d : Validated(d) # NoDir => Validated(d) \in entries /\ file[Validated(d)].there
  BY DEF Validated
<1>2. \/ ResolveProject(c) = NoDir
      \/ \E d : ResolveProject(c) = Validated(d)
  BY DEF ResolveProject
<1>3. QED BY <1>1, <1>2

(* A token that check sends is one the adapter accepts, wherever and in    *)
(* whatever environment check is called, and however the adapter, started  *)
(* without a token flag, came to hold the profiles of the disk.            *)
THEOREM CheckAccepted == ProfilesSpec => []CheckIsAccepted
<1>1. ProfilesInv => CheckIsAccepted
  <2> SUFFICES ASSUME ProfilesInv, process.flags.token = Unset, UpToDate,
                      NEW c \in Calls, Given(CheckedToken(c))
               PROVE  AcceptedToken(CheckedToken(c))
    BY DEF CheckIsAccepted
  <2> DEFINE d == ResolveProject(c)
             config == FromSources(file[d], WithoutToken(c.env), NoSettings)
  <2>1. CASE file[GlobalProfile].there
    <3>1. CheckedToken(c) = file[GlobalProfile].set.token
      BY <2>1 DEF CheckedToken
    <3>2. QED BY <2>1, <3>1, FileTokenAccepted
  <2>2. CASE ~file[GlobalProfile].there
    <3>1. d # NoDir /\ CheckedToken(c) = config.token
      BY <2>2 DEF CheckedToken, Given
    <3>2. d \in entries /\ file[d].there
      BY <3>1, ResolvedIsRegistered
    <3>3. config.token = Choose(NoSettings.token, file[d].set.token, WithoutToken(c.env).token)
      BY DEF FromSources
    <3>4. NoSettings.token = Unset /\ WithoutToken(c.env).token = Unset
      BY ProfilesAssumption DEF NoSettings, WithoutToken, Calls, Settings
    <3>5. config.token = file[d].set.token
      BY <3>1, <3>3, <3>4 DEF Choose, Given
    <3>6. QED BY <3>1, <3>2, <3>5, FileTokenAccepted
  <2>3. QED BY <2>1, <2>2
<1>2. QED BY <1>1, ProfilesInvariance, PTL

------------------------------------------------------------------------------
(* ToolNames: the least and the greatest of a set of numbers.              *)

LEMMA LeastOf ==
  ASSUME NEW S, S \subseteq Nat, S # {}
  PROVE  Min(S) \in S /\ \A y \in S : Min(S) <= y
<1> DEFINE R == OpToRel(<, Nat)
<1>1. IsWellFoundedOn(R, Nat)
  BY NatLessThanWellFounded
<1>2. \A x, y \in Nat : y < x => <<y, x>> \in R
  BY DEF OpToRel
<1> HIDE DEF R
<1>3. PICK x \in S : \A y \in S : ~ (<<y, x>> \in R)
  BY <1>1, WFMin
<1>4. ASSUME NEW y \in S PROVE x <= y
  <2>1. x \in Nat /\ y \in Nat
    OBVIOUS
  <2>2. ~ (y < x)
    BY <1>2, <1>3, <2>1
  <2>3. QED BY <2>1, <2>2
<1>5. QED BY <1>4 DEF Min

LEMMA GreatestOf ==
  ASSUME NEW n \in Nat, NEW S, S \subseteq 0..n, S # {}
  PROVE  Max(S) \in S /\ \A y \in S : Max(S) >= y
<1> DEFINE T == {n - y : y \in S}
<1>1. T \subseteq Nat
  OBVIOUS
<1>2. PICK z \in S : TRUE
  OBVIOUS
<1>3. n - z \in T
  BY <1>2
<1> HIDE DEF T
<1>4. Min(T) \in T /\ \A w \in T : Min(T) <= w
  BY <1>1, <1>3, LeastOf
<1>5. PICK x \in S : Min(T) = n - x
  BY <1>4 DEF T
<1>6. ASSUME NEW y \in S PROVE x >= y
  <2>1. n - y \in T
    BY DEF T
  <2>2. n - x <= n - y
    BY <1>4, <1>5, <2>1
  <2>3. x \in Nat /\ y \in Nat
    OBVIOUS
  <2>4. QED BY <2>2, <2>3
<1>7. QED BY <1>6 DEF Max

(* Names.                                                                  *)
ChatNames == {s \in Seq(Legal) : Len(s) \in 1..MaxLen}

LEMMA TrimIsName ==
  ASSUME NEW s \in Seq(Characters)
  PROVE  Trim(s) \in Seq(Characters)
<1> DEFINE solid == {i \in DOMAIN s : s[i] # Space}
<1>1. CASE solid = {}
  BY <1>1 DEF Trim
<1>2. CASE solid # {}
  <2>1. solid \subseteq 0..Len(s) /\ solid \subseteq 1..Len(s) /\ solid \subseteq Nat
    OBVIOUS
  <2>2. Trim(s) = SubSeq(s, Min(solid), Max(solid))
    BY <1>2 DEF Trim
  <2> HIDE DEF solid
  <2>3. Len(s) \in Nat
    OBVIOUS
  <2>4. Min(solid) \in solid
    BY <1>2, <2>1, LeastOf
  <2>5. Min(solid) \in solid /\ Max(solid) \in solid
    BY <1>2, <2>1, <2>3, <2>4, GreatestOf
  <2>6. Min(solid) \in 1..Len(s) /\ Max(solid) \in 1..Len(s)
    BY <2>1, <2>5
  <2>7. QED BY <2>2, <2>6
<1>3. QED BY <1>1, <1>2

LEMMA TakeIsName ==
  ASSUME NEW S, NEW s \in Seq(S), NEW n \in Nat
  PROVE  /\ Take(s, n) \in Seq(S)
         /\ Len(Take(s, n)) = IF n < Len(s) THEN n ELSE Len(s)
         /\ Len(s) <= n => Take(s, n) = s
  BY DEF Take

LEMMA SanitizedIsChatName ==
  ASSUME NEW original \in Seq(Characters)
  PROVE  Sanitized(original) \in ChatNames
<1> DEFINE legal == [i \in DOMAIN original |-> IF original[i] \in Legal THEN original[i] ELSE Underscore]
           base == Take(legal, MaxLen)
<1>1. legal \in Seq(Legal)
  BY NamesAssumption
<1>2. MaxLen \in Nat /\ MaxLen >= 1
  BY BoundsAssumption
<1>3. Sanitized(original) = IF base = <<>> THEN ToolWord ELSE base
  BY DEF Sanitized
<1> HIDE DEF legal
<1>4. base \in Seq(Legal) /\ Len(base) <= MaxLen
  BY <1>1, <1>2, TakeIsName
<1> HIDE DEF base
<1>5. base # <<>> => Len(base) >= 1
  BY <1>4
<1>6. ToolWord \in Seq(Legal) /\ Len(ToolWord) \in 1..MaxLen
  BY NamesAssumption
<1>7. QED BY <1>2, <1>3, <1>4, <1>5, <1>6 DEF ChatNames

LEMMA SearchNameKept == Sanitized(ToolSearchName) = ToolSearchName
<1> DEFINE s == ToolSearchName
<1>1. s \in Seq(Legal) /\ Len(s) \in 1..MaxLen /\ MaxLen \in Nat
  BY NamesAssumption, BoundsAssumption
<1> HIDE DEF s
<1>2. [i \in DOMAIN s |-> IF s[i] \in Legal THEN s[i] ELSE Underscore] = s
  BY <1>1
<1>3. Take(s, MaxLen) = s
  BY <1>1, TakeIsName
<1>4. s # <<>>
  BY <1>1
<1>5. QED BY <1>2, <1>3, <1>4 DEF Sanitized, s

LEMMA NumberFacts ==
  ASSUME NEW n \in 2..MaxNumber
  PROVE  /\ Decimal[n] \in Seq(Legal) /\ Len(Decimal[n]) \in Nat
         /\ \A i \in 1..Len(Decimal[n]) : Decimal[n][i] # Underscore
         /\ MaxLen - 1 - Len(Decimal[n]) \in Nat
<1>1. Decimal[n] \in Seq(Legal \ {Underscore}) /\ Len(Decimal[n]) < MaxLen /\ MaxLen \in Nat
  BY NumbersAssumption, BoundsAssumption
<1>2. QED BY <1>1

LEMMA NumberedIsChatName ==
  ASSUME NEW base \in ChatNames, NEW n \in 2..MaxNumber
  PROVE  Numbered(base, n) \in ChatNames
<1> DEFINE keep == MaxLen - 1 - Len(Decimal[n])
           head == Take(base, keep)
           d == Decimal[n]
<1>1. d \in Seq(Legal) /\ keep \in Nat /\ MaxLen \in Nat /\ base \in Seq(Legal) /\ Underscore \in Legal
  BY NumberFacts, NamesAssumption, BoundsAssumption DEF ChatNames
<1>2. Numbered(base, n) = head \o <<Underscore>> \o d /\ keep = MaxLen - 1 - Len(d)
  BY DEF Numbered
<1> HIDE DEF d, keep
<1>3. head \in Seq(Legal) /\ Len(head) <= keep
  <2>1. Take(base, keep) \in Seq(Legal)
    BY <1>1, TakeIsName
  <2>2. Len(Take(base, keep)) = IF keep < Len(base) THEN keep ELSE Len(base)
    BY <1>1, TakeIsName
  <2>3. Len(base) \in Nat
    BY <1>1
  <2>4. QED BY <1>1, <2>1, <2>2, <2>3
<1> HIDE DEF head
<1>4. <<Underscore>> \in Seq(Legal)
  BY <1>1
<1>5. head \o <<Underscore>> \o d \in Seq(Legal) /\ Len(head \o <<Underscore>> \o d) = Len(head) + 1 + Len(d)
  BY <1>1, <1>3, <1>4
<1>6. QED BY <1>1, <1>3, <1>2, <1>5 DEF ChatNames

(* The last underscore of a numbered name is the one before its number.    *)
LEMMA LastMark ==
  ASSUME NEW h \in Seq(Legal), NEW d \in Seq(Legal), \A i \in 1..Len(d) : d[i] # Underscore
  PROVE  LET s == h \o <<Underscore>> \o d
         IN /\ s \in Seq(Legal) /\ Len(s) = Len(h) + 1 + Len(d)
            /\ s[Len(h) + 1] = Underscore
            /\ \A i \in 1..Len(d) : s[Len(h) + 1 + i] = d[i]
<1>1. Underscore \in Legal
  BY NamesAssumption
<1>2. QED BY <1>1

LEMMA NumberedDistinct ==
  ASSUME NEW base \in ChatNames, NEW m \in 2..MaxNumber, NEW n \in 2..MaxNumber,
         Numbered(base, m) = Numbered(base, n)
  PROVE  m = n
<1> DEFINE d == Decimal[m]
           e == Decimal[n]
           g == Take(base, MaxLen - 1 - Len(d))
           h == Take(base, MaxLen - 1 - Len(e))
           s == g \o <<Underscore>> \o d
<1>1. /\ d \in Seq(Legal) /\ \A i \in 1..Len(d) : d[i] # Underscore
      /\ e \in Seq(Legal) /\ \A i \in 1..Len(e) : e[i] # Underscore
      /\ g \in Seq(Legal) /\ h \in Seq(Legal)
  <2>1. base \in Seq(Legal)
    BY DEF ChatNames
  <2>2. MaxLen - 1 - Len(d) \in Nat /\ MaxLen - 1 - Len(e) \in Nat
    BY NumberFacts
  <2>3. g \in Seq(Legal)
    BY <2>1, <2>2, TakeIsName
  <2>4. h \in Seq(Legal)
    BY <2>1, <2>2, TakeIsName
  <2>5. QED BY <2>3, <2>4, NumberFacts
<1>2. s = h \o <<Underscore>> \o e
  BY DEF Numbered
<1>3. (d = e) => (m = n)
  BY NumbersAssumption
<1> HIDE DEF d, e, g, h, s
<1>4. /\ s \in Seq(Legal) /\ Len(s) = Len(g) + 1 + Len(d) /\ s[Len(g) + 1] = Underscore
      /\ \A i \in 1..Len(d) : s[Len(g) + 1 + i] = d[i]
  BY <1>1, LastMark DEF s
<1>5. /\ Len(s) = Len(h) + 1 + Len(e) /\ s[Len(h) + 1] = Underscore
      /\ \A i \in 1..Len(e) : s[Len(h) + 1 + i] = e[i]
  BY <1>1, <1>2, LastMark
<1>6. Len(g) + 1 + Len(d) = Len(h) + 1 + Len(e)
  BY <1>4, <1>5
<1>7. Len(d) = Len(e)
  <2> USE <1>1
  <2>1. CASE Len(d) < Len(e)
    <3> DEFINE k == Len(e) - Len(d)
    <3>1. Len(d) \in Nat /\ Len(e) \in Nat /\ Len(g) \in Nat /\ Len(h) \in Nat
      OBVIOUS
    <3>2. k \in 1..Len(e)
      BY <2>1, <3>1
    <3>3. Len(g) + 1 = Len(h) + 1 + k
      BY <1>6, <3>1
    <3> HIDE DEF k
    <3>4. s[Len(h) + 1 + k] = e[k] /\ e[k] # Underscore
      BY <1>1, <1>4, <1>5, <3>2
    <3>5. QED BY <1>4, <1>5, <3>3, <3>4
  <2>2. CASE Len(e) < Len(d)
    <3> DEFINE k == Len(d) - Len(e)
    <3>1. Len(e) \in Nat /\ Len(d) \in Nat /\ Len(h) \in Nat /\ Len(g) \in Nat
      OBVIOUS
    <3>2. k \in 1..Len(d)
      BY <2>2, <3>1
    <3>3. Len(h) + 1 = Len(g) + 1 + k
      BY <1>6, <3>1
    <3> HIDE DEF k
    <3>4. s[Len(g) + 1 + k] = d[k] /\ d[k] # Underscore
      BY <1>1, <1>4, <1>5, <3>2
    <3>5. QED BY <1>4, <1>5, <3>3, <3>4
  <2>3. QED BY <2>1, <2>2
<1>8. Len(g) = Len(h)
  BY <1>1, <1>4, <1>5, <1>7
<1>9. \A i \in 1..Len(d) : d[i] = e[i]
  BY <1>4, <1>5, <1>7, <1>8
<1>10. d = e
  BY <1>1, <1>7, <1>9
<1>11. QED BY <1>3, <1>10

LEMMA FreeNumber ==
  ASSUME NEW used, IsFiniteSet(used), Cardinality(used) + 2 <= MaxNumber,
         NEW base \in ChatNames
  PROVE  \E n \in 2..MaxNumber : Numbered(base, n) \notin used
<1> SUFFICES ASSUME \A n \in 2..MaxNumber : Numbered(base, n) \in used PROVE FALSE
  OBVIOUS
<1> DEFINE f == [n \in 2..MaxNumber |-> Numbered(base, n)]
<1>1. f \in [2..MaxNumber -> used]
  OBVIOUS
<1>2. MaxNumber \in Nat /\ Cardinality(used) \in Nat
  BY BoundsAssumption, FS_CardinalityType
<1>3. IsFiniteSet(2..MaxNumber) /\ Cardinality(2..MaxNumber) = MaxNumber - 1
  BY <1>2, FS_Interval
<1>4. \A m, n \in 2..MaxNumber : f[m] = f[n] => m = n
  BY NumberedDistinct
<1> HIDE DEF f
<1>5. Cardinality(used) < Cardinality(2..MaxNumber)
  BY <1>2, <1>3
<1>6. \E m, n \in 2..MaxNumber : m # n /\ f[m] = f[n]
  BY <1>1, <1>3, <1>5, FS_PigeonHole
<1>7. QED BY <1>4, <1>6

LEMMA SafeNameIsFree ==
  ASSUME NEW used, IsFiniteSet(used), Cardinality(used) + 2 <= MaxNumber,
         NEW original \in Seq(Characters)
  PROVE  SafeName(used, original) \in ChatNames \ used
<1> DEFINE base == Sanitized(original)
           free == {n \in 2..MaxNumber : Numbered(base, n) \notin used}
<1>1. base \in ChatNames
  BY SanitizedIsChatName
<1>2. SafeName(used, original) = IF base \notin used THEN base ELSE Numbered(base, Min(free))
  BY DEF SafeName
<1> HIDE DEF base
<1>3. free # {} /\ free \subseteq Nat
  BY <1>1, FreeNumber
<1>4. Min(free) \in free
  BY <1>3, LeastOf
<1>5. Numbered(base, Min(free)) \in ChatNames \ used
  BY <1>1, <1>4, NumberedIsChatName
<1>6. QED BY <1>1, <1>2, <1>5

(* The context: each name in use is that of one chat tool, and has a spec  *)
(* and an original name that agree.                                        *)
IsContext(c) ==
  c = [chatTools |-> c.chatTools, used |-> c.used, reverseNames |-> c.reverseNames,
       specs |-> c.specs, namespaced |-> c.namespaced]

ChatToolsOK(c) ==
  /\ c.chatTools \in Seq(ChatNames) /\ IsFiniteSet(c.used)
  /\ \A i \in 1..Len(c.chatTools) : c.chatTools[i] \in c.used
  /\ \A chat \in c.used : \E i \in 1..Len(c.chatTools) : c.chatTools[i] = chat
  /\ \A i, j \in 1..Len(c.chatTools) : c.chatTools[i] = c.chatTools[j] => i = j

SpecOf(spec, original) ==
  \/ spec.kind = "namespace" /\ spec.namespace # NoNamespace
  \/ spec.kind = "function" /\ spec.namespace = NoNamespace /\ original = Trim(spec.name)
  \/ spec.kind = "custom" /\ spec.namespace = NoNamespace /\ original = spec.name
  \/ /\ spec.kind = "tool_search" /\ spec.namespace = NoNamespace
     /\ original = spec.name /\ spec.name = ToolSearchName

SpecsOK(c) ==
  /\ DOMAIN c.specs = c.used /\ DOMAIN c.reverseNames = c.used
  /\ \A chat \in c.used : SpecOf(c.specs[chat], c.reverseNames[chat])
  /\ \A chat \in c.used : c.specs[chat].kind = "tool_search" => ToolSearchName \in c.used

(* The names of a namespace lead to its functions. *)
NamespacedOK(c) ==
  /\ \A chat \in c.used : c.specs[chat].kind = "namespace" =>
       <<c.specs[chat].namespace, c.specs[chat].name>> \in DOMAIN c.namespaced
  /\ \A key \in DOMAIN c.namespaced :
       LET chat == c.namespaced[key]
       IN /\ chat \in c.used /\ c.specs[chat].kind = "namespace"
          /\ key = <<c.specs[chat].namespace, c.specs[chat].name>>

ContextOK(c) == IsContext(c) /\ ChatToolsOK(c) /\ SpecsOK(c) /\ NamespacedOK(c)

OpenOK ==
  /\ open \in [namespace : Seq(Characters), children : Seq(Seq(Characters))]
  /\ open.children # <<>> => open.namespace # NoNamespace

(* A tool with a new chat name joins the context. *)
LEMMA ToolAdded ==
  ASSUME NEW c, ContextOK(c), NEW original, NEW spec, NEW d, IsContext(d),
         spec.chatName \in ChatNames \ c.used, SpecOf(spec, original),
         spec.kind = "tool_search" => ToolSearchName \in d.used,
         d.chatTools = Append(c.chatTools, spec.chatName),
         d.used = c.used \cup {spec.chatName},
         d.reverseNames = Insert(c.reverseNames, spec.chatName, original),
         d.specs = Insert(c.specs, spec.chatName, spec),
         IF spec.kind = "namespace"
         THEN d.namespaced = Insert(c.namespaced, <<spec.namespace, spec.name>>, spec.chatName)
         ELSE d.namespaced = c.namespaced
  PROVE  ContextOK(d)
<1> DEFINE new == spec.chatName
<1>1. new \in ChatNames /\ new \notin c.used
  OBVIOUS
<1>2. ChatToolsOK(d)
  <2>1. c.chatTools \in Seq(ChatNames) /\ IsFiniteSet(c.used)
    BY DEF ContextOK, ChatToolsOK
  <2>2. d.chatTools = Append(c.chatTools, new) /\ d.used = c.used \cup {new}
    OBVIOUS
  <2> HIDE DEF new
  <2> DEFINE n == Len(c.chatTools)
  <2>3. /\ d.chatTools \in Seq(ChatNames) /\ Len(d.chatTools) = n + 1 /\ n \in Nat
        /\ \A i \in 1..n : d.chatTools[i] = c.chatTools[i]
        /\ d.chatTools[n + 1] = new
    BY <1>1, <2>1, <2>2
  <2> HIDE DEF n
  <2>4. IsFiniteSet(d.used)
    BY <2>1, <2>2, FS_AddElement
  <2>5. /\ \A i \in 1..n : c.chatTools[i] \in c.used
        /\ \A chat \in c.used : \E i \in 1..n : c.chatTools[i] = chat
        /\ \A i, j \in 1..n : c.chatTools[i] = c.chatTools[j] => i = j
    BY DEF ContextOK, ChatToolsOK, n
  <2>6. \A i \in 1..(n + 1) : i \in 1..n \/ i = n + 1
    BY <2>3
  <2>7. 1..n \subseteq 1..(n + 1) /\ n + 1 \in 1..(n + 1)
    BY <2>3
  <2>8. \A i \in 1..(n + 1) : d.chatTools[i] \in d.used
    BY <2>2, <2>3, <2>5, <2>6
  <2>9. \A chat \in d.used : \E i \in 1..(n + 1) : d.chatTools[i] = chat
    BY <2>2, <2>3, <2>5, <2>7
  <2>10. ASSUME NEW i \in 1..(n + 1), NEW j \in 1..(n + 1), d.chatTools[i] = d.chatTools[j]
         PROVE  i = j
    BY <1>1, <2>3, <2>5, <2>6, <2>10
  <2>11. QED BY <2>3, <2>4, <2>8, <2>9, <2>10 DEF ChatToolsOK
<1>3. /\ DOMAIN c.specs = c.used /\ DOMAIN c.reverseNames = c.used
      /\ \A chat \in c.used : SpecOf(c.specs[chat], c.reverseNames[chat])
      /\ \A chat \in c.used : c.specs[chat].kind = "tool_search" => ToolSearchName \in c.used
  BY DEF ContextOK, SpecsOK
<1>4. /\ DOMAIN d.specs = d.used /\ DOMAIN d.reverseNames = d.used
      /\ d.specs[new] = spec /\ d.reverseNames[new] = original
      /\ \A chat \in c.used : d.specs[chat] = c.specs[chat] /\ d.reverseNames[chat] = c.reverseNames[chat]
  <2>1. DOMAIN d.specs = d.used /\ d.specs[new] = spec
    BY <1>3 DEF Insert
  <2>2. DOMAIN d.reverseNames = d.used /\ d.reverseNames[new] = original
    BY <1>3 DEF Insert
  <2>3. \A chat \in c.used : d.specs[chat] = c.specs[chat]
    BY <1>1, <1>3 DEF Insert
  <2>4. \A chat \in c.used : d.reverseNames[chat] = c.reverseNames[chat]
    BY <1>1, <1>3 DEF Insert
  <2>5. QED BY <2>1, <2>2, <2>3, <2>4
<1>5. SpecsOK(d)
  <2>1. ASSUME NEW chat \in d.used PROVE SpecOf(d.specs[chat], d.reverseNames[chat])
    <3>1. CASE chat = new
      BY <1>4, <3>1
    <3>2. CASE chat \in c.used
      BY <1>3, <1>4, <3>2
    <3>3. QED BY <3>1, <3>2
  <2>2. ASSUME NEW chat \in d.used, d.specs[chat].kind = "tool_search"
        PROVE  ToolSearchName \in d.used
    <3>1. CASE chat = new
      BY <1>4, <2>2, <3>1
    <3>2. CASE chat \in c.used
      BY <1>3, <1>4, <2>2, <3>2
    <3>3. QED BY <3>1, <3>2
  <2>3. QED BY <1>4, <2>1, <2>2 DEF SpecsOK
<1>6. NamespacedOK(d)
  <2> DEFINE Key(s) == <<s.namespace, s.name>>
  <2>1. /\ \A chat \in c.used : c.specs[chat].kind = "namespace" =>
             Key(c.specs[chat]) \in DOMAIN c.namespaced
        /\ \A key \in DOMAIN c.namespaced :
             /\ c.namespaced[key] \in c.used /\ c.specs[c.namespaced[key]].kind = "namespace"
             /\ key = Key(c.specs[c.namespaced[key]])
    BY DEF ContextOK, NamespacedOK
  <2>2. CASE spec.kind = "namespace"
    <3>1. /\ DOMAIN d.namespaced = DOMAIN c.namespaced \cup {Key(spec)}
          /\ d.namespaced[Key(spec)] = new
          /\ \A k \in DOMAIN c.namespaced \ {Key(spec)} : d.namespaced[k] = c.namespaced[k]
      BY <2>2 DEF Insert
    <3> HIDE DEF Key
    <3>2. ASSUME NEW chat \in d.used, d.specs[chat].kind = "namespace"
          PROVE  Key(d.specs[chat]) \in DOMAIN d.namespaced
      <4>1. CASE chat = new
        BY <1>4, <3>1, <4>1
      <4>2. CASE chat \in c.used
        BY <1>4, <2>1, <3>1, <3>2, <4>2
      <4>3. QED BY <4>1, <4>2
    <3>3. ASSUME NEW key \in DOMAIN d.namespaced
          PROVE  /\ d.namespaced[key] \in d.used /\ d.specs[d.namespaced[key]].kind = "namespace"
                 /\ key = Key(d.specs[d.namespaced[key]])
      <4>1. CASE key = Key(spec)
        BY <1>4, <2>2, <3>1, <4>1
      <4>2. CASE key \in DOMAIN c.namespaced \ {Key(spec)}
        BY <1>4, <2>1, <3>1, <4>2
      <4>3. QED BY <3>1, <4>1, <4>2
    <3>4. QED BY <3>2, <3>3 DEF NamespacedOK, Key
  <2>3. CASE spec.kind # "namespace"
    <3>1. d.namespaced = c.namespaced
      BY <2>3
    <3> HIDE DEF Key
    <3>2. ASSUME NEW chat \in d.used, d.specs[chat].kind = "namespace"
          PROVE  Key(d.specs[chat]) \in DOMAIN d.namespaced
      <4>1. chat \in c.used
        BY <1>4, <2>3, <3>2
      <4>2. QED BY <1>4, <2>1, <3>1, <3>2, <4>1
    <3>3. ASSUME NEW key \in DOMAIN d.namespaced
          PROVE  /\ d.namespaced[key] \in d.used /\ d.specs[d.namespaced[key]].kind = "namespace"
                 /\ key = Key(d.specs[d.namespaced[key]])
      BY <1>4, <2>1, <3>1
    <3>4. QED BY <3>2, <3>3 DEF NamespacedOK, Key
  <2>4. QED BY <2>2, <2>3
<1>7. QED BY <1>2, <1>5, <1>6 DEF ContextOK

LEMMA ChatToolFields ==
  ASSUME NEW c, IsContext(c), NEW original, NEW spec
  PROVE  AddChatTool(c, original, spec) =
           [chatTools |-> Append(c.chatTools, spec.chatName),
            used |-> c.used \cup {spec.chatName},
            reverseNames |-> Insert(c.reverseNames, spec.chatName, original),
            specs |-> Insert(c.specs, spec.chatName, spec),
            namespaced |-> c.namespaced]
<1> DEFINE v1 == Append(c.chatTools, spec.chatName)
           v2 == c.used \cup {spec.chatName}
           v3 == Insert(c.reverseNames, spec.chatName, original)
           v4 == Insert(c.specs, spec.chatName, spec)
<1>1. AddChatTool(c, original, spec) =
        [c EXCEPT !.chatTools = v1, !.used = v2, !.reverseNames = v3, !.specs = v4]
  BY DEF AddChatTool
<1> HIDE DEF v1, v2, v3, v4
<1>2. ASSUME NEW d,
             d = [c EXCEPT !.chatTools = v1, !.used = v2, !.reverseNames = v3, !.specs = v4]
      PROVE  d = [chatTools |-> v1, used |-> v2, reverseNames |-> v3, specs |-> v4,
                  namespaced |-> c.namespaced]
  <2>1. d = [[[[c EXCEPT !.chatTools = v1] EXCEPT !.used = v2] EXCEPT !.reverseNames = v3]
               EXCEPT !.specs = v4]
    BY <1>2 DEF IsContext
  <2>2. QED BY <2>1 DEF IsContext
<1>3. QED BY <1>1, <1>2 DEF v1, v2, v3, v4

(* Each way a tool is added keeps the context. *)
LEMMA PlainAdded ==
  ASSUME NEW c, ContextOK(c), Cardinality(c.used) + 2 <= MaxNumber,
         NEW kind, NEW original \in Seq(Characters), NEW name,
         \/ kind = "function" /\ original = Trim(name)
         \/ kind = "custom" /\ original = name
         \/ kind = "tool_search" /\ original = name /\ name = ToolSearchName
  PROVE  ContextOK(AddPlain(c, kind, original, name))
<1>1. CASE original = <<>>
  BY <1>1 DEF AddPlain
<1>2. CASE original # <<>>
  <2> DEFINE chat == SafeName(c.used, original)
             spec == [kind |-> kind, name |-> name, namespace |-> NoNamespace, chatName |-> chat]
             d == AddChatTool(c, original, spec)
  <2>1. IsFiniteSet(c.used)
    BY DEF ContextOK, ChatToolsOK
  <2>2. chat \in ChatNames \ c.used
    BY <2>1, SafeNameIsFree
  <2>3. AddPlain(c, kind, original, name) = d
    BY <1>2 DEF AddPlain
  <2>4. kind = "tool_search" => ToolSearchName \in c.used \cup {chat}
    BY SearchNameKept DEF SafeName
  <2>5. IsContext(c)
    BY DEF ContextOK
  <2> HIDE DEF chat
  <2>6. /\ spec.chatName = chat /\ spec.kind = kind /\ kind # "namespace"
        /\ SpecOf(spec, original)
    BY DEF SpecOf
  <2> HIDE DEF spec
  <2>7. /\ IsContext(d) /\ d.chatTools = Append(c.chatTools, spec.chatName)
        /\ d.used = c.used \cup {spec.chatName}
        /\ d.reverseNames = Insert(c.reverseNames, spec.chatName, original)
        /\ d.specs = Insert(c.specs, spec.chatName, spec)
        /\ d.namespaced = c.namespaced
    BY <2>5, ChatToolFields DEF IsContext
  <2> HIDE DEF d
  <2>8. ContextOK(d)
    BY <2>2, <2>4, <2>6, <2>7, ToolAdded
  <2>9. QED BY <2>3, <2>8
<1>3. QED BY <1>1, <1>2

LEMMA NamespacedAdded ==
  ASSUME NEW c, ContextOK(c), Cardinality(c.used) + 2 <= MaxNumber,
         NEW namespace \in Seq(Characters), namespace # NoNamespace,
         NEW name \in Seq(Characters)
  PROVE  ContextOK(AddNamespaced(c, namespace, name))
<1> DEFINE original == Flat(namespace, name)
           chat == SafeName(c.used, original)
           spec == [kind |-> "namespace", name |-> name, namespace |-> namespace, chatName |-> chat]
           e == [c EXCEPT !.namespaced = Insert(@, <<namespace, name>>, chat)]
           d == AddChatTool(e, original, spec)
<1>1. IsFiniteSet(c.used) /\ IsContext(c)
  BY DEF ContextOK, ChatToolsOK
<1>2. original \in Seq(Characters)
  BY NamesAssumption DEF Flat
<1>3. AddNamespaced(c, namespace, name) = d
  BY DEF AddNamespaced
<1> HIDE DEF original
<1>4. chat \in ChatNames \ c.used
  BY <1>1, <1>2, SafeNameIsFree
<1> HIDE DEF chat
<1>5. /\ spec.chatName = chat /\ spec.kind = "namespace" /\ spec.namespace = namespace
      /\ spec.name = name /\ SpecOf(spec, original)
  BY DEF SpecOf
<1> HIDE DEF spec
<1>6. /\ IsContext(e) /\ e.chatTools = c.chatTools /\ e.used = c.used
      /\ e.reverseNames = c.reverseNames /\ e.specs = c.specs
      /\ e.namespaced = Insert(c.namespaced, <<namespace, name>>, chat)
  BY <1>1 DEF IsContext
<1> HIDE DEF e
<1>7. /\ IsContext(d) /\ d.chatTools = Append(c.chatTools, spec.chatName)
      /\ d.used = c.used \cup {spec.chatName}
      /\ d.reverseNames = Insert(c.reverseNames, spec.chatName, original)
      /\ d.specs = Insert(c.specs, spec.chatName, spec)
      /\ d.namespaced = Insert(c.namespaced, <<namespace, name>>, chat)
  BY <1>6, ChatToolFields DEF IsContext
<1> HIDE DEF d
<1>8. ContextOK(d)
  BY <1>4, <1>5, <1>7, ToolAdded
<1>9. QED BY <1>3, <1>8

(* The context is kept by every step. *)
ToolInv == ContextOK(context) /\ OpenOK

LEMMA ToolsKept == ToolSpec => []ToolInv
<1>1. ToolInit => ToolInv
  <2> SUFFICES ASSUME ToolInit PROVE ContextOK(context) /\ OpenOK
    BY DEF ToolInv
  <2>1. /\ context.chatTools = <<>> /\ context.used = {} /\ context.reverseNames = <<>>
        /\ context.specs = <<>> /\ context.namespaced = <<>> /\ IsContext(context)
    BY DEF ToolInit, IsContext
  <2>2. ChatToolsOK(context)
    BY <2>1, FS_EmptySet DEF ChatToolsOK
  <2>3. SpecsOK(context) /\ NamespacedOK(context)
    BY <2>1 DEF SpecsOK, NamespacedOK
  <2>4. OpenOK
    BY DEF ToolInit, OpenOK, NoChildren, NoNamespace
  <2>5. QED BY <2>1, <2>2, <2>3, <2>4 DEF ContextOK
<1>2. ToolInv /\ [ToolNext]_toolVars => ToolInv'
  <2> SUFFICES ASSUME ContextOK(context), OpenOK, [ToolNext]_toolVars
               PROVE  ContextOK(context') /\ OpenOK'
    BY DEF ToolInv
  <2>1. CASE BuildWithInput
    <3>1. PICK t \in ToolDefs :
            /\ context' = AddResponseTool(context, t)
            /\ open' = IF t.type = "namespace" /\ Trim(t.name) # <<>>
                       THEN [namespace |-> Trim(t.name), children |-> t.children]
                       ELSE NoChildren
      BY <2>1 DEF BuildWithInput
    <3>2. Cardinality(context.used) + 2 <= MaxNumber
      BY <2>1 DEF BuildWithInput, NumbersLeft
    <3>3. /\ t.type \in {"function", "custom", "namespace", "tool_search"}
          /\ t.name \in Seq(Characters) /\ t.children \in Seq(Seq(Characters))
      BY ToolDefsAssumption
    <3>4. Trim(t.name) \in Seq(Characters)
      BY <3>3, TrimIsName
    <3>5. ToolSearchName \in Seq(Characters)
      BY NamesAssumption
    <3>6. ContextOK(AddResponseTool(context, t))
      <4>1. CASE t.type = "namespace"
        BY <4>1 DEF AddResponseTool
      <4>2. CASE t.type = "custom"
        BY <3>2, <3>4, <4>2, PlainAdded DEF AddResponseTool
      <4>3. CASE t.type = "tool_search"
        BY <3>2, <3>5, <4>3, PlainAdded DEF AddResponseTool
      <4>4. CASE t.type = "function"
        BY <3>2, <3>4, <4>4, PlainAdded DEF AddResponseTool
      <4>5. QED BY <3>3, <4>1, <4>2, <4>3, <4>4
    <3>7. OpenOK'
      BY <3>1, <3>3, <3>4 DEF OpenOK, NoChildren, NoNamespace
    <3>8. QED BY <3>1, <3>6, <3>7
  <2>2. CASE AddNamespace
    <3> DEFINE child == Head(open.children)
    <3>1. /\ open.children # <<>> /\ Cardinality(context.used) + 2 <= MaxNumber
          /\ context' = IF Trim(child) = <<>> THEN context
                        ELSE AddNamespaced(context, open.namespace, child)
          /\ open' = [open EXCEPT !.children = Tail(@)]
      BY <2>2 DEF AddNamespace, NumbersLeft
    <3>2. /\ open.children \in Seq(Seq(Characters)) /\ open.namespace \in Seq(Characters)
          /\ open.namespace # NoNamespace
      BY <3>1 DEF OpenOK
    <3>3. child \in Seq(Characters) /\ Tail(open.children) \in Seq(Seq(Characters))
      BY <3>1, <3>2
    <3> HIDE DEF child
    <3>4. ContextOK(AddNamespaced(context, open.namespace, child))
      BY <3>1, <3>2, <3>3, NamespacedAdded
    <3>5. OpenOK'
      BY <3>1, <3>2, <3>3 DEF OpenOK
    <3>6. QED BY <3>1, <3>4, <3>5
  <2>3. CASE Built \/ UNCHANGED toolVars
    BY <2>3 DEF Built, toolVars, OpenOK
  <2>4. QED BY <2>1, <2>2, <2>3 DEF ToolNext
<1>3. QED BY <1>1, <1>2, PTL DEF ToolSpec

(* However many tools a request declares and whatever their names: no two  *)
(* chat tools have the same name, and each name is legal and short enough. *)
THEOREM NamesUsable == ToolSpec => []ChatNamesUsable
<1>1. ToolInv => ChatNamesUsable
  <2> SUFFICES ASSUME ContextOK(context) PROVE ChatNamesUsable
    BY DEF ToolInv
  <2> DEFINE s == context.chatTools
  <2>1. /\ s \in Seq(ChatNames) /\ DOMAIN s = 1..Len(s)
        /\ \A i, j \in 1..Len(s) : s[i] = s[j] => i = j
    BY DEF ContextOK, ChatToolsOK
  <2>2. ASSUME NEW i \in DOMAIN s
        PROVE  Len(s[i]) \in 1..MaxLen /\ ToSet(s[i]) \subseteq Legal
    <3>1. s[i] \in ChatNames
      BY <2>1
    <3>2. QED BY <3>1 DEF ChatNames, ToSet
  <2>3. QED BY <2>1, <2>2 DEF ChatNamesUsable
<1>2. QED BY <1>1, ToolsKept, PTL

(* A call that the client replays gets the chat name of an offered tool,   *)
(* and unless another tool has the same flat name, of the one called.      *)
THEOREM CallsComeBack == ToolSpec => []NamesComeBack
<1>1. ToolInv => NamesComeBack
  <2> SUFFICES ASSUME ContextOK(context), NEW chat \in DOMAIN context.specs,
                      LET item == ResponseToolItem(context, chat)
                      IN item.namespace # NoNamespace \/ item.name = Trim(item.name),
                      NEW back \in ReplayedNames(context, ResponseToolItem(context, chat))
               PROVE  LET item == ResponseToolItem(context, chat)
                          rivals == {o \in DOMAIN context.specs :
                             /\ \/ context.reverseNames[o] = context.reverseNames[chat]
                                \/ item.type = "tool_search" /\ o = ToolSearchName
                             /\ ResponseToolItem(context, o) # item}
                      IN /\ back \in ToSet(context.chatTools)
                         /\ item.namespace # NoNamespace \/ rivals = {} =>
                              ResponseToolItem(context, back) = item
    BY DEF NamesComeBack, ToolInv
  <2> DEFINE c == context
             spec == c.specs[chat]
             item == ResponseToolItem(c, chat)
  <2>1. /\ DOMAIN c.specs = c.used /\ DOMAIN c.reverseNames = c.used
        /\ SpecOf(spec, c.reverseNames[chat])
        /\ spec.kind = "tool_search" => ToolSearchName \in c.used
    BY DEF ContextOK, SpecsOK
  <2>2. \A o \in c.used : o \in ToSet(c.chatTools)
    BY DEF ContextOK, ChatToolsOK, ToSet
  <2>3. /\ item.type = IF spec.kind = "namespace" THEN "function" ELSE spec.kind
        /\ item.name = spec.name /\ item.namespace = spec.namespace
    BY DEF ResponseToolItem
  <2>4. CASE spec.kind = "namespace"
    <3> DEFINE key == <<spec.namespace, spec.name>>
    <3>1. item.type = "function" /\ item.namespace = spec.namespace /\ spec.namespace # NoNamespace
      BY <2>1, <2>3, <2>4 DEF SpecOf
    <3>2. key \in DOMAIN c.namespaced
      BY <2>1, <2>4 DEF ContextOK, NamespacedOK
    <3>3. back = c.namespaced[key]
      BY <2>3, <3>1, <3>2 DEF ReplayedNames, ChatNameForResponseFunction
    <3>4. /\ back \in c.used /\ c.specs[back].kind = "namespace"
          /\ c.specs[back].namespace = spec.namespace /\ c.specs[back].name = spec.name
      BY <3>2, <3>3 DEF ContextOK, NamespacedOK
    <3>5. ResponseToolItem(c, back) = item
      BY <2>1, <2>4, <3>4 DEF ResponseToolItem
    <3>6. QED BY <2>2, <3>4, <3>5
  <2>5. CASE spec.kind = "tool_search"
    <3>1. item.type = "tool_search" /\ item.namespace = NoNamespace
      BY <2>1, <2>3, <2>5 DEF SpecOf
    <3>2. back = ToolSearchName /\ back \in c.used
      BY <2>1, <2>5, <3>1 DEF ReplayedNames
    <3>3. QED BY <2>1, <2>2, <3>1, <3>2
  <2>6. CASE spec.kind \in {"function", "custom"}
    <3>1. /\ item.type # "tool_search" /\ item.namespace = NoNamespace
          /\ c.reverseNames[chat] = item.name
      BY <2>1, <2>3, <2>6 DEF SpecOf
    <3>2. back \in c.used /\ c.reverseNames[back] = item.name
      BY <2>1, <3>1 DEF ReplayedNames, ChatNameForResponseFunction
    <3>3. QED BY <2>1, <2>2, <3>1, <3>2
  <2>7. QED BY <2>1, <2>4, <2>5, <2>6 DEF SpecOf
<1>2. QED BY <1>1, ToolsKept, PTL
==============================================================================
