---------------------------- MODULE InitTransaction ----------------------------
(***************************************************************************)
(* The transaction in which init and global-init write their files         *)
(* (apply_writes_with_rollback in init.rs): the changes are applied one    *)
(* after the other, and when one fails those before it are undone, the     *)
(* last one first.  A file is written to a temporary one that is then      *)
(* moved over it; undoing writes it in place.  Every step may fail, also   *)
(* the line written to the log, and the process may die between any two.   *)
(***************************************************************************)
EXTENDS Naturals, Sequences

CONSTANTS
  Changes   \* the changes in their order: "write" or "delete", each to a file of its own

ASSUME ChangesAreChanges == Changes \in Seq({"write", "delete"})

Files == 1..Len(Changes)

VARIABLES
  before,    \* the files when the command began
  disk,      \* the files: "none", "old", "new", or "partial"
  temps,     \* changes whose temporary file is on the disk
  applied,   \* snapshots of the changes applied and not undone
  doing,     \* the change being applied
  stage,     \* where the command is
  undoing,   \* the rollback has begun
  spoiled    \* a log line or a step of the rollback failed

txnVars == <<before, disk, temps, applied, doing, stage, undoing, spoiled>>

Target(f) == IF Changes[f] = "write" THEN "new" ELSE "none"

TxnInit ==
  /\ before \in [Files -> {"none", "old"}]
  /\ disk = before
  /\ temps = {}
  /\ applied = <<>> /\ doing = 1
  /\ stage = "log"
  /\ undoing = FALSE /\ spoiled = FALSE

At(s) == stage = s /\ doing <= Len(Changes)

-------------------------------------------------------------------------------
(* One change: log it, take the snapshot, replace or remove the file.      *)

(* A log line that cannot be written ends the command at once.             *)
LogFails ==
  /\ At("log") \/ stage \in {"failed", "undone"}
  /\ stage' = "error" /\ spoiled' = TRUE
  /\ UNCHANGED <<before, disk, temps, applied, doing, undoing>>

LogChange ==
  /\ At("log")
  /\ stage' = "apply"
  /\ UNCHANGED <<before, disk, temps, applied, doing, undoing, spoiled>>

Applied(f) ==
  /\ applied' = Append(applied, [file |-> f, original |-> disk[f]])
  /\ doing' = doing + 1
  /\ stage' = "log"

(* Mutant: the file is written where it is.                                *)
WriteTempInPlace ==
  /\ At("apply") /\ Changes[doing] = "write"
  /\ disk' = [disk EXCEPT ![doing] = "partial"]
  /\ temps' = temps \cup {doing}
  /\ stage' = "replace"
  /\ UNCHANGED <<before, applied, doing, undoing, spoiled>>

WriteTemp ==
  /\ At("apply") /\ Changes[doing] = "write"
  /\ temps' = temps \cup {doing}
  /\ stage' = "replace"
  /\ UNCHANGED <<before, disk, applied, doing, undoing, spoiled>>

ReplacePath ==
  /\ At("replace")
  /\ disk' = [disk EXCEPT ![doing] = "new"]
  /\ temps' = temps \ {doing}
  /\ Applied(doing)
  /\ UNCHANGED <<before, undoing, spoiled>>

RemoveFile ==
  /\ At("apply") /\ Changes[doing] = "delete"
  /\ disk' = [disk EXCEPT ![doing] = "none"]
  /\ Applied(doing)
  /\ UNCHANGED <<before, temps, undoing, spoiled>>

(* The snapshot, the temporary file, the move or the removal fails.  Only  *)
(* a failed move tries to remove the temporary file; nothing can fail when *)
(* the file to delete is not there.                                        *)
ApplyFails ==
  /\ At("apply") \/ At("replace")
  /\ Changes[doing] = "write" \/ disk[doing] = "old"
  /\ \/ temps' = temps
     \/ stage = "apply" /\ Changes[doing] = "write" /\ temps' = temps \cup {doing}
     \/ stage = "replace" /\ temps' = temps \ {doing}
  /\ stage' = "failed"
  /\ UNCHANGED <<before, disk, applied, doing, undoing, spoiled>>

FinishTransaction ==
  /\ stage = "log" /\ doing > Len(Changes)
  /\ stage' = "ok"
  /\ UNCHANGED <<before, disk, temps, applied, doing, undoing, spoiled>>

-------------------------------------------------------------------------------
(* Rollback: log, undo the last snapshot, log again, and so on.            *)

(* Mutant: the loop runs over the snapshots without the last one.          *)
BeginRollbackShort ==
  /\ stage = "failed"
  /\ stage' = "undo" /\ undoing' = TRUE
  /\ applied' = IF applied = <<>> THEN applied ELSE SubSeq(applied, 1, Len(applied) - 1)
  /\ UNCHANGED <<before, disk, temps, doing, spoiled>>

BeginRollback ==
  /\ stage = "failed"
  /\ stage' = "undo" /\ undoing' = TRUE
  /\ UNCHANGED <<before, disk, temps, applied, doing, spoiled>>

Snapshot == applied[Len(applied)]

(* fs::write truncates the file first.                                     *)
TruncateTarget ==
  /\ stage = "undo" /\ applied # <<>> /\ Snapshot.original # "none"
  /\ disk' = [disk EXCEPT ![Snapshot.file] = "partial"]
  /\ stage' = "restore"
  /\ UNCHANGED <<before, temps, applied, doing, undoing, spoiled>>

Undone ==
  /\ applied' = SubSeq(applied, 1, Len(applied) - 1)
  /\ stage' = "undone"

Restore ==
  /\ \/ stage = "restore"
     \/ stage = "undo" /\ applied # <<>> /\ Snapshot.original = "none"
  /\ disk' = [disk EXCEPT ![Snapshot.file] = Snapshot.original]
  /\ Undone
  /\ UNCHANGED <<before, temps, doing, undoing, spoiled>>

RestoreFails ==
  /\ stage \in {"undo", "restore"} /\ applied # <<>>
  /\ Undone
  /\ spoiled' = TRUE
  /\ UNCHANGED <<before, disk, temps, doing, undoing>>

LogUndone ==
  /\ stage = "undone"
  /\ stage' = "undo"
  /\ UNCHANGED <<before, disk, temps, applied, doing, undoing, spoiled>>

ReturnError ==
  /\ stage = "undo" /\ applied = <<>>
  /\ stage' = "error"
  /\ UNCHANGED <<before, disk, temps, applied, doing, undoing, spoiled>>

TxnCrash ==
  /\ stage \notin {"ok", "error", "dead"}
  /\ stage' = "dead"
  /\ UNCHANGED <<before, disk, temps, applied, doing, undoing, spoiled>>

TxnOver == stage \in {"ok", "error", "dead"} /\ UNCHANGED txnVars

TxnNext ==
  \/ LogFails \/ LogChange \/ WriteTemp \/ ReplacePath \/ RemoveFile \/ ApplyFails \/ FinishTransaction
  \/ BeginRollback \/ TruncateTarget \/ Restore \/ RestoreFails \/ LogUndone \/ ReturnError
  \/ TxnCrash \/ TxnOver

TxnSpec == TxnInit /\ [][TxnNext]_txnVars

-------------------------------------------------------------------------------
(* Properties.                                                             *)

(* The transaction of init makes all its changes or, when it reports an    *)
(* error, none: the promise of tests/cli_distribution_flow.rs:312, for a   *)
(* failure at any change.  It needs the log and the rollback itself to     *)
(* work: a log line that cannot be written leaves the changes made so far. *)
(* The registry is no file of the transaction: init saves it before        *)
(* (init.rs:113) and does not take it back.                                *)
AllOrNothing ==
  /\ stage = "ok" => (\A f \in Files : disk[f] = Target(f)) /\ temps = {}
  /\ stage = "error" /\ ~spoiled => disk = before

(* Until a rollback begins, and after a crash before it, the first changes *)
(* are made and the others are not; no file is cut off.                    *)
FilesStayWhole ==
  ~undoing => \E done \in 0..Len(Changes) :
                \A f \in Files : disk[f] = IF f <= done THEN Target(f) ELSE before[f]
===============================================================================
