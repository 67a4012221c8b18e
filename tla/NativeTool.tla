----------------------------- MODULE NativeTool -----------------------------
(***************************************************************************)
(* The transaction of a FreeCAD tool on a product workspace: the worker    *)
(* processes of NativeWorker and runTrustedNativeTool of                   *)
(* AppDesignStudioGui.cpp, the host that starts a tool, stops it, and then *)
(* has the journal acknowledged or rolled back by further processes of the *)
(* same program.                                                           *)
(*                                                                         *)
(* One file operation is one step, and between any two of them the process *)
(* can be signalled, killed or fail, the host can die, and the user, whose *)
(* events the host goes on to serve, can save a file.  The host knows its  *)
(* worker by a pointer of its own process: after it has died, a new one    *)
(* begins its calls beside a worker that lives on, the stray.              *)
(***************************************************************************)
EXTENDS NativeWorker

CONSTANTS
  Initial,  \* the workspace before the first call
  None, Lost,
  MaxToolCalls, MaxToolFaults, MaxSaves

ASSUME NativeConstants ==
  /\ Order \in Seq(File) /\ Order # <<>> /\ IsInjective(Order)
  /\ Initial \in [File -> Content \cup {Absent}] /\ Outputs \subseteq [File -> Content \cup {Absent}]
  /\ Absent \notin Content /\ Lost \notin Content \cup {Absent}
  /\ None \notin [File -> Content \cup {Absent, Lost}]
  /\ {MaxToolCalls, MaxToolFaults, MaxSaves} \subseteq Nat

VARIABLES
  strayShadow, strayProc, strayStep, strayAt, strayReply, strayVerdict,
            \* a process beside which a call was begun; its transaction and its
            \* journal are the "other" ones
  crossed,  \* history: it has changed the workspace, the journal or the backups
  host, why, stop,   \* the host, what it recovers from, and Stop was pressed
  answer,   \* what the last call answered
  base, touched, \* history: the revision a call began with, the files saved under
  intact,        \* a transaction, and no rolling back of what is published has begun
  toolCalls, toolFaults, saves

files == <<root, journal, shadow, transaction>>
stray == <<strayShadow, strayProc, strayStep, strayAt, strayReply, strayVerdict>>
others == <<otherJournal, otherTransaction, sameBackups, stray, crossed>>
hosted == <<host, why, stop, answer>>
history == <<base, touched, intact>>
toolBounds == <<toolCalls, toolFaults, saves>>
nativeVars == <<files, others, running, hosted, history, toolBounds>>

Stray == INSTANCE NativeWorker WITH
  shadow <- strayShadow, proc <- strayProc, step <- strayStep, at <- strayAt,
  reply <- strayReply, verdict <- strayVerdict,
  journal <- otherJournal, otherJournal <- journal,
  backup <- otherBackup, listed <- otherListed, existed <- otherExisted,
  otherBackup <- backup, otherListed <- listed, otherExisted <- existed

(* What the workspace is when the journal is rolled back.                  *)
Undo(f) == IF f \in existed THEN backup[f] ELSE Absent
Revision == [f \in File |-> IF journal # "none" /\ f \in listed THEN Undo(f) ELSE root[f]]

NativeInit ==
  /\ root = Initial
  /\ shadow = NoFiles /\ backup = NoFiles /\ journal = "none" /\ listed = {} /\ existed = {}
  /\ proc = "none" /\ step = "ended" /\ at = 0 /\ reply = "none" /\ verdict = FALSE
  /\ otherJournal = "none" /\ otherBackup = NoFiles /\ otherListed = {} /\ otherExisted = {}
  /\ strayShadow = NoFiles /\ strayProc = "none" /\ strayStep = "ended" /\ strayAt = 0
  /\ strayReply = "none" /\ strayVerdict = FALSE /\ sameBackups = FALSE /\ crossed = FALSE
  /\ host = "idle" /\ why = "none" /\ stop = FALSE /\ answer = "none"
  /\ base = root /\ touched = {} /\ intact = FALSE
  /\ toolCalls = 0 /\ toolFaults = 0 /\ saves = 0

-----------------------------------------------------------------------------
(* The host begins a call.  Its pointer says that no worker is active; one *)
(* that a host before it has started may be.                               *)
LeaveBehind ==
  /\ strayProc = "none" /\ otherJournal = "none"
  /\ strayShadow' = shadow /\ strayProc' = proc /\ strayStep' = step /\ strayAt' = at
  /\ strayReply' = reply /\ strayVerdict' = verdict
  /\ otherBackup' = backup /\ otherListed' = listed /\ otherExisted' = existed
  /\ sameBackups' = (journal # "none")

Begin ==
  /\ host = "idle" /\ toolCalls < MaxToolCalls /\ toolCalls' = toolCalls + 1
  /\ IF proc = "none" THEN UNCHANGED <<stray, otherTransaction, sameBackups>> ELSE LeaveBehind
  /\ Launch("tool", "recover") /\ reply' = "none"
  /\ host' = "waiting" /\ stop' = FALSE /\ answer' = "none" /\ base' = Revision
  /\ UNCHANGED <<files, otherJournal, crossed, why, touched, intact, toolFaults, saves>>

-----------------------------------------------------------------------------
(* The processes.                                                          *)
Aside == UNCHANGED <<stray, crossed, hosted, base, touched>>

Process ==
  /\ WorkerStep /\ Aside /\ UNCHANGED toolBounds
  /\ intact' = IF journal = "published" THEN intact /\ ~Restoring ELSE journal' = "published"

ToolFault == toolFaults < MaxToolFaults /\ toolFaults' = toolFaults + 1 /\ UNCHANGED <<toolCalls, saves>>

Terminate == proc = "tool" /\ stop /\ Interrupted /\ Aside /\ UNCHANGED <<intact, toolBounds>>
Fail == ToolRaises /\ ToolFault /\ Aside /\ UNCHANGED intact
KillTool == Killed /\ ToolFault /\ Aside /\ UNCHANGED intact

(* The stray goes on, fails or dies, and no host waits for it.             *)
StrayProcess ==
  /\ Stray!WorkerStep \/ Stray!ToolRaises
  /\ crossed' = (crossed \/ <<root, journal, otherJournal, backup>>' # <<root, journal, otherJournal, backup>>)
  /\ IF crossed' THEN base' = NoFiles /\ touched' = {} /\ intact' = FALSE ELSE UNCHANGED history
  /\ UNCHANGED <<shadow, running, hosted, toolBounds>>

-----------------------------------------------------------------------------
(* The host: runTrustedNativeTool and cancelTrustedNativeTool.             *)
StopTool ==
  /\ host = "waiting" /\ ~stop /\ stop' = TRUE
  /\ UNCHANGED <<files, others, running, host, why, answer, history, toolBounds>>

PatientWhilePublishing == stop /\ step # "publish"  \* mutant
OutOfPatience == stop

(* A stopped worker that is still there after 500 ms is killed.            *)
Escalate ==
  /\ host = "waiting" /\ OutOfPatience /\ proc = "tool" /\ Exit(FALSE)
  /\ UNCHANGED <<files, others, reply, hosted, history, toolBounds>>

Recover(w) == host' = "recovering" /\ why' = w /\ Launch("recover", "recover") /\ UNCHANGED answer
Return(a) == host' = "idle" /\ answer' = a /\ why' = "none" /\ UNCHANGED <<proc, step, at, verdict>>

NeverAck == FALSE  \* mutant
NeedsAck == reply = "ok"

(* The worker has ended: what its end means, and the reload of the         *)
(* document, which can fail.                                               *)
Collect ==
  /\ host = "waiting" /\ proc = "none" /\ stop' = FALSE /\ reply' = "none"
  /\ IF stop THEN Recover("stop")
     ELSE IF reply \in {"none", "error"} THEN Recover("failure")
     ELSE \/ Recover("reload")
          \/ IF NeedsAck THEN host' = "acking" /\ Launch("ack", "ack") /\ UNCHANGED <<why, answer>>
             ELSE Return(IF reply = "ok" THEN "committed" ELSE "unchanged")
  /\ UNCHANGED <<files, others, history, toolBounds>>

AckEnds ==
  /\ host = "acking" /\ proc = "none"
  /\ IF verdict THEN Return("committed") ELSE Recover("ack")
  /\ UNCHANGED <<files, others, reply, stop, history, toolBounds>>

Believed == TRUE  \* mutant: the exit code of the recovery is not looked at
Recovered == verdict

RecoveryEnds ==
  /\ host = "recovering" /\ proc = "none"
  /\ Return(IF ~Recovered THEN "blocked"
            ELSE CASE why = "stop" -> "preserved"
                   [] why = "ack" -> "unacknowledged"
                   [] OTHER -> "failed")
  /\ UNCHANGED <<files, others, reply, stop, history, toolBounds>>

(* The host dies without its processes, and starts again.                  *)
HostDies ==
  /\ host # "down" /\ ToolFault
  /\ host' = "down" /\ why' = "none" /\ stop' = FALSE /\ answer' = "none"
  /\ UNCHANGED <<files, others, running, history>>

HostStarts ==
  /\ host = "down" /\ host' = "idle"
  /\ UNCHANGED <<files, others, running, why, stop, answer, history, toolBounds>>

(* The user saves a file while the host serves events.                     *)
Undisturbed == proc = "none" /\ journal = "none" /\ host = "idle"

Save(f) ==
  /\ host \in {"idle", "waiting"} /\ saves < MaxSaves /\ saves' = saves + 1
  /\ \E c \in Content \ {root[f]} : root' = [root EXCEPT ![f] = c]
  /\ touched' = IF Undisturbed THEN touched ELSE touched \cup {f}
  /\ UNCHANGED <<journal, shadow, transaction, others, running, hosted, base, intact, toolCalls, toolFaults>>

-----------------------------------------------------------------------------
HostStep == Escalate \/ Collect \/ AckEnds \/ RecoveryEnds

NativeNext ==
  \/ Begin \/ Process \/ Terminate \/ Fail \/ KillTool \/ StrayProcess
  \/ StopTool \/ HostStep \/ HostDies \/ HostStarts
  \/ \E f \in File : Save(f)

NativeSpec == NativeInit /\ [][NativeNext]_nativeVars

(* A recovery or an acknowledgement ends, by itself or killed after ten    *)
(* seconds, and the host goes on with what it waits for.  The tool has no  *)
(* time limit.                                                             *)
ControlStep == proc \in {"recover", "ack"} /\ Process

NativeFairSpec == NativeSpec /\ WF_nativeVars(ControlStep) /\ WF_nativeVars(HostStep)

-----------------------------------------------------------------------------
Steps == {"ended", "recover", "restore", "restored", "rollback", "rolled back", "revert", "reverted", "ack",
          "acknowledged", "copy", "work", "stage", "prepare", "publish", "respond"}
Procs == {"none", "tool", "recover", "ack"}
JournalStates == {"none", "prepared", "published"}
Replies == {"none", "ok", "unchanged", "error"}

(* Every variable keeps to its type, and what lists entries lists them of  *)
(* files that were copied.                                                 *)
NativeTypeOK ==
  /\ {root, shadow, backup, base, strayShadow, otherBackup} \subseteq [File -> Content \cup {Absent}]
  /\ {journal, otherJournal} \subseteq JournalStates
  /\ existed \subseteq listed /\ listed \subseteq File /\ touched \subseteq File
  /\ otherExisted \subseteq otherListed /\ otherListed \subseteq File
  /\ {proc, strayProc} \subseteq Procs /\ {step, strayStep} \subseteq Steps
  /\ {at, strayAt} \subseteq 0..(Len(Order) + 1)
  /\ {reply, strayReply} \subseteq Replies
  /\ {verdict, strayVerdict, stop, intact, sameBackups, crossed} \subseteq BOOLEAN
  /\ host \in {"down", "idle", "waiting", "acking", "recovering"}
  /\ why \in {"none", "stop", "failure", "reload", "ack"}
  /\ answer \in {"none", "committed", "unchanged", "preserved", "failed", "unacknowledged", "blocked"}
  /\ toolCalls \in 0..MaxToolCalls /\ toolFaults \in 0..MaxToolFaults /\ saves \in 0..MaxSaves

(* The files that a call under the host's supervision answers for: not     *)
(* those saved under it, and none when a stray has changed any.            *)
Supervised == IF crossed THEN {} ELSE File \ touched

(* "replay the durable journal": whenever there is a journal, whoever left *)
(* it, the bytes it needs are there.                                       *)
JournalBacked ==
  /\ journal # "none" => \A f \in existed : backup[f] # Absent
  /\ otherJournal # "none" => \A f \in otherExisted : otherBackup[f] # Absent

(* A call that is answered, other than that its recovery failed, leaves no *)
(* journal that a later call would roll back over the user's work.         *)
AnsweredClean == host = "idle" /\ answer \notin {"none", "blocked"} => ~Pending

(* Both, until a stray changes the workspace beside a newer call: a        *)
(* journal can be rolled back, and is there only when it is to be.         *)
JournalSound == ~crossed => JournalBacked /\ AnsweredClean

Masked(r) == [f \in File |-> IF f \in Supervised THEN r[f] ELSE Lost]

Revisions == INSTANCE WorkspaceRevision WITH
  revision <- Masked(Revision), result <- Masked(shadow),
  offered <- IF journal = "published" /\ intact /\ ~crossed THEN Masked(shadow) ELSE None

(* The workspace with its journal implements the abstract one: wherever a  *)
(* process or the host is stopped, the files are all of the approved       *)
(* revision or all of the accepted result, until a stray overruns them.    *)
RevisionSpec == Revisions!Spec

(* What the host tells the user about the workspace is so: "last approved  *)
(* revision preserved", failed, or committed.                              *)
AnswersTrue ==
  [][answer' # answer =>
       /\ answer' \in {"preserved", "failed"} => \A f \in Supervised' : root'[f] = base[f]
       /\ answer' = "committed" => \A f \in Supervised' : Revision'[f] = shadow[f]]_nativeVars

(* Stop ends the call, whatever the tool does.                             *)
StopEndsCall == host = "waiting" /\ stop ~> host \in {"idle", "down"}

(* What the host does with a call: it ends one that is stopped, and answers *)
(* with the truth.                                                         *)
HostAnswers == AnswersTrue /\ StopEndsCall

(* "transaction recovered", as the answer to a failed acknowledgement      *)
(* reads, means that the workspace is at the revision before the call.     *)
RecoveredMeansBefore ==
  [][answer' # answer /\ answer' = "unacknowledged" =>
       \A f \in Supervised' : root'[f] = base[f]]_nativeVars
=============================================================================
