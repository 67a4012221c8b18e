---------------------------- MODULE NativeWorker ----------------------------
(***************************************************************************)
(* native_tool_worker.py: one process of it, and the files of a product    *)
(* workspace.  A process runs a tool on a copy of the workspace and        *)
(* publishes the changed files under a journal, or it rolls back a journal *)
(* that it finds, or acknowledges one.                                     *)
(*                                                                         *)
(* No lock keeps a second process away.  What is here of it is what this   *)
(* one can meet on the disk: "the other" is a process whose transaction    *)
(* the journal may name.  The same module with the two exchanged is the    *)
(* other one.                                                              *)
(***************************************************************************)
EXTENDS Naturals, Sequences, SequencesExt

CONSTANTS
  Order,    \* the files of the workspace, sorted by _commit_priority
  Content, Absent,
  Outputs   \* what operations may write: a content for each file, or Absent

File == Range(Order)

VARIABLES
  root,     \* the workspace
  journal,  \* state of .designstudio-native-transaction.json, if it names this
            \* process's transaction, and if it names the other's
  otherJournal,
  shadow,   \* the copy in the stage directory
  backup,   \* the backup directory of the transaction
  listed, existed,  \* its entries, and those that say "existed"
  otherBackup, otherListed, otherExisted,
  sameBackups, \* both transactions are one, with one backup directory
  proc,     \* the process: a tool, a recovery, an acknowledgement
  step, at, \* what it is doing, and its place in the list of files
  reply,    \* its response.json
  verdict   \* it ended with exit code 0

transaction == <<backup, listed, existed>>
otherTransaction == <<otherBackup, otherListed, otherExisted>>
journals == <<journal, otherJournal>>
running == <<proc, step, at, reply, verdict>>

NoFiles == [f \in File |-> Absent]

Launch(p, s) == proc' = p /\ step' = s /\ at' = Len(Order) /\ verdict' = FALSE
Exit(success) == proc' = "none" /\ step' = "ended" /\ at' = 0 /\ verdict' = success
Fails == Exit(FALSE) /\ reply' = IF proc = "tool" THEN "error" ELSE reply
Continue(s) == step' = s /\ UNCHANGED <<proc, at, reply, verdict>>

-----------------------------------------------------------------------------
(* Rolling back: _rollback_journal and what removes journal and backups.   *)
(* "restore" is _recover_pending_transaction, "rollback" and "revert" the  *)
(* handler of _commit_shadow for a signal and for an error.                *)
Pending == journal # "none" \/ otherJournal # "none"

(* The entries and the backups are those of the journal that is there.     *)
Load ==
  IF otherJournal # "none"
  THEN /\ backup' = otherBackup /\ listed' = otherListed /\ existed' = otherExisted
       /\ sameBackups' = TRUE
  ELSE UNCHANGED <<transaction, sameBackups>>

NothingPending ==
  /\ step = "recover" /\ ~Pending
  /\ IF proc = "tool" THEN Continue("copy") ELSE Exit(TRUE) /\ UNCHANGED reply
  /\ UNCHANGED <<root, journals, shadow, transaction, otherTransaction, sameBackups>>

ReadJournal ==
  /\ step = "recover" /\ Pending /\ Load /\ Continue("restore")
  /\ UNCHANGED <<root, journals, shadow, otherTransaction>>

Restoring == step \in {"restore", "rollback", "revert"}

RestoredExisting(f) == IF f \in existed THEN backup[f] ELSE root[f]  \* mutant
Restored(f) == IF f \in existed THEN backup[f] ELSE Absent

Restore ==
  /\ Restoring /\ at > 0
  /\ LET f == Order[at] IN
     /\ f \in existed => backup[f] # Absent
     /\ root' = IF f \in listed THEN [root EXCEPT ![f] = Restored(f)] ELSE root
  /\ at' = at - 1
  /\ UNCHANGED <<journals, shadow, transaction, otherTransaction, sameBackups, proc, step, reply, verdict>>

(* A backup or, in a recovery, the journal is gone: another process has    *)
(* removed it.                                                             *)
RestoreFails ==
  /\ \/ Restoring /\ at > 0 /\ Order[at] \in existed /\ backup[Order[at]] = Absent
     \/ step = "restore" /\ at = 0 /\ ~Pending
  /\ Fails
  /\ UNCHANGED <<root, journals, shadow, transaction, otherTransaction, sameBackups>>

(* The journal is removed when every file is back, then the backups.       *)
Cleanup == CASE step = "restore" -> "restored"
             [] step = "rollback" -> "rolled back"
             [] step = "revert" -> "reverted"

Drop ==
  /\ Restoring /\ at = 0 /\ (step = "restore" => Pending)
  /\ journal' = "none" /\ otherJournal' = "none" /\ Continue(Cleanup)
  /\ UNCHANGED <<root, shadow, transaction, otherTransaction, sameBackups>>

SweepsEarly == step \in {"restored", "rolled back", "reverted", "acknowledged"} \/ (Restoring /\ at = 0)  \* mutant
Sweeps == step \in {"restored", "rolled back", "reverted", "acknowledged"}

Sweep ==
  /\ Sweeps
  /\ backup' = NoFiles /\ otherBackup' = IF sameBackups THEN NoFiles ELSE otherBackup
  /\ IF proc = "tool" /\ step = "restored" THEN Continue("copy")
     ELSE Exit(proc # "tool") /\ reply' = IF step = "reverted" THEN "error" ELSE reply
  /\ UNCHANGED <<root, journals, shadow, listed, existed, otherListed, otherExisted, sameBackups>>

(* _ack_pending_transaction.                                               *)
Acknowledge ==
  /\ step = "ack"
  /\ IF "published" \in {journal, otherJournal}
     THEN journal' = "none" /\ otherJournal' = "none" /\ Load /\ Continue("acknowledged")
     ELSE Fails /\ UNCHANGED <<journals, transaction, sameBackups>>
  /\ UNCHANGED <<root, shadow, otherTransaction>>

-----------------------------------------------------------------------------
(* The tool: execute_transaction.                                          *)
CopyWorkspace ==
  /\ step = "copy" /\ shadow' = root /\ Continue("work")
  /\ UNCHANGED <<root, journals, transaction, otherTransaction, sameBackups>>

(* The registered operation creates and changes files of the copy, or says *)
(* that it did not succeed.                                                *)
Written(r) == [f \in File |-> IF r[f] = Absent THEN shadow[f] ELSE r[f]]

Work ==
  /\ step = "work" /\ Continue("stage") /\ \E r \in Outputs : shadow' = Written(r)
  /\ UNCHANGED <<root, journals, transaction, otherTransaction, sameBackups>>

RefuseRequest ==
  /\ step = "work" /\ Fails
  /\ UNCHANGED <<root, journals, shadow, transaction, otherTransaction, sameBackups>>

(* _commit_shadow.                                                         *)
ChangedFiles == {f \in File : shadow[f] # Absent /\ shadow[f] # root[f]}

NothingChanged ==
  /\ step = "stage" /\ ChangedFiles = {} /\ reply' = "unchanged" /\ Exit(TRUE)
  /\ UNCHANGED <<root, journals, shadow, transaction, otherTransaction, sameBackups>>

ExistingOfAll == {f \in File : root[f] # Absent}  \* mutant
Existing == {f \in ChangedFiles : root[f] # Absent}

BackUp ==
  /\ step = "stage" /\ ChangedFiles # {} /\ Continue("prepare")
  /\ listed' = ChangedFiles /\ existed' = Existing /\ sameBackups' = FALSE
  /\ backup' = [f \in File |-> IF f \in ChangedFiles THEN root[f] ELSE Absent]
  /\ UNCHANGED <<root, journals, shadow, otherTransaction>>

(* _atomic_json replaces the journal that is there, whose ever it is.      *)
Prepare ==
  /\ step = "prepare" /\ journal' = "prepared" /\ otherJournal' = "none"
  /\ step' = "publish" /\ at' = 1
  /\ UNCHANGED <<root, shadow, transaction, otherTransaction, sameBackups, proc, reply, verdict>>

Publish ==
  /\ step = "publish" /\ at <= Len(Order) /\ at' = at + 1
  /\ LET f == Order[at] IN root' = IF f \in listed THEN [root EXCEPT ![f] = shadow[f]] ELSE root
  /\ UNCHANGED <<journals, shadow, transaction, otherTransaction, sameBackups, proc, step, reply,
                 verdict>>

PublishedAll == at > Len(Order)

Mark ==
  /\ step = "publish" /\ PublishedAll /\ Continue("respond")
  /\ journal' = "published" /\ otherJournal' = "none"
  /\ UNCHANGED <<root, shadow, transaction, otherTransaction, sameBackups>>

WriteResponse ==
  /\ step = "respond" /\ reply' = "ok" /\ Exit(TRUE)
  /\ UNCHANGED <<root, journals, shadow, transaction, otherTransaction, sameBackups>>

WorkerStep ==
  /\ proc # "none"
  /\ \/ NothingPending \/ ReadJournal \/ Restore \/ RestoreFails \/ Drop \/ Sweep \/ Acknowledge
     \/ CopyWorkspace \/ Work \/ RefuseRequest \/ NothingChanged \/ BackUp \/ Prepare \/ Publish \/ Mark
     \/ WriteResponse

-----------------------------------------------------------------------------
(* What interrupts a process.  Inside the try of _commit_shadow a signal   *)
(* or an error begins a rollback, which another one ends half way.         *)
RollBack(s) == step' = s /\ at' = Len(Order) /\ UNCHANGED <<proc, reply, verdict>>

Interrupted ==
  /\ \/ step = "publish" /\ RollBack("rollback")
     \/ /\ step = "publish" => at \in {1, Len(Order) + 1}
        /\ Exit(FALSE) /\ UNCHANGED reply
  /\ UNCHANGED <<root, journals, shadow, transaction, otherTransaction, sameBackups>>

ToolRaises ==
  /\ proc # "none"
  /\ \/ step = "publish" /\ RollBack("revert")
     \/ (step = "publish" => PublishedAll) /\ Fails
  /\ UNCHANGED <<root, journals, shadow, transaction, otherTransaction, sameBackups>>

Killed ==
  /\ proc # "none" /\ Exit(FALSE)
  /\ UNCHANGED <<root, journals, shadow, transaction, otherTransaction, sameBackups, reply>>
=============================================================================
