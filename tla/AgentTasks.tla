----------------------------- MODULE AgentTasks -----------------------------
(***************************************************************************)
(* Tasks of agents and jobs in designstudio-agentd (lib.rs): agent/start,  *)
(* progress, cancel and recover, analysis/start, generation/submit and the *)
(* cancellation of jobs.  The daemon runs none of them: runners outside it *)
(* report, under a budget, and may be lost.                                *)
(*                                                                         *)
(* Every handler changes the record in memory and then persists the whole  *)
(* state, which may fail before or after state.json is replaced; the       *)
(* change stays in memory and the caller is answered with an error.  Steps,*)
(* seconds and cost are one counter, since they are checked alike.         *)
(***************************************************************************)
EXTENDS Naturals

CONSTANTS
  AgentTask, AgentJob,
  Budget,         \* of a task
  MaxTaskFaults   \* bound on failed writes and deaths of the daemon

ASSUME TaskConstants ==
  AgentTask \cap AgentJob = {} /\ Budget \in Nat \ {0} /\ MaxTaskFaults \in Nat

MaxRecoveries == 3
Item == AgentTask \cup AgentJob

VARIABLES
  opened,      \* a daemon has the workspace open
  known,       \* the records in its memory
  filed,       \* those of state.json
  answered,    \* history: the last record of each that a caller was answered with
  taskFaults

taskVars == <<opened, known, filed, answered, taskFaults>>

Absent == [status |-> "absent", used |-> 0, recoveries |-> 0]
Queued == [Absent EXCEPT !.status = "queued"]
NoItems == [i \in Item |-> Absent]

TasksInit ==
  /\ opened = TRUE /\ known = NoItems /\ filed = NoItems /\ answered = NoItems
  /\ taskFaults = 0

TaskFault == taskFaults < MaxTaskFaults /\ taskFaults' = taskFaults + 1

(* The handler's change of one record, persisted and answered, or not.     *)
PersistTask(i, record) ==
  /\ opened /\ known' = [known EXCEPT ![i] = record]
  /\ \/ filed' = known' /\ answered' = [answered EXCEPT ![i] = record] /\ UNCHANGED taskFaults
     \/ TaskFault /\ filed' \in {filed, known'} /\ UNCHANGED answered
  /\ UNCHANGED opened

Active(i) == known[i].status \in {"queued", "running"}

(* agent_start, analysis_start and generation_submit make a new identity.  *)
StartTask(i) == known[i] = Absent /\ filed[i] = Absent /\ PersistTask(i, Queued)

AgentProgress(t, used, complete) ==
  /\ Active(t) /\ used >= known[t].used
  /\ PersistTask(t, [known[t] EXCEPT !.used = used,
                                     !.status = IF complete THEN "succeeded" ELSE "running"])

CancelTask(i) == Active(i) /\ PersistTask(i, [known[i] EXCEPT !.status = "cancelled"])

StartedOver(t) == [known[t] EXCEPT !.status = "queued", !.recoveries = @ + 1, !.used = 0]
                  \* mutant: the budget is given anew
Requeued(t) == [known[t] EXCEPT !.status = "queued", !.recoveries = @ + 1]

(* Nothing tells an interrupted task from one that its runner is still at. *)
AgentRecover(t) ==
  /\ known[t].status = "running" /\ known[t].recoveries < MaxRecoveries
  /\ PersistTask(t, Requeued(t))

(* Any other handler persists the whole state as well.                     *)
PersistOther ==
  /\ opened /\ filed' = known /\ UNCHANGED <<opened, known, answered, taskFaults>>

(* project_open, of a daemon that has a workspace open or of a new one.    *)
OpenTasks ==
  /\ opened' = TRUE /\ known' = filed /\ UNCHANGED <<filed, answered, taskFaults>>

TasksLost ==
  /\ opened /\ TaskFault /\ opened' = FALSE /\ known' = NoItems /\ UNCHANGED <<filed, answered>>

TasksNext ==
  \/ \E i \in Item : StartTask(i) \/ CancelTask(i)
  \/ \E t \in AgentTask, used \in 0..Budget, complete \in BOOLEAN : AgentProgress(t, used, complete)
  \/ \E t \in AgentTask : AgentRecover(t)
  \/ PersistOther \/ OpenTasks \/ TasksLost

TasksSpec == TasksInit /\ [][TasksNext]_taskVars

-----------------------------------------------------------------------------
TaskRecord ==
  [status : {"absent", "queued", "running", "cancelled", "succeeded"},
   used : 0..Budget, recoveries : 0..MaxRecoveries]

TasksTypeOK ==
  /\ opened \in BOOLEAN /\ {known, filed, answered} \subseteq [Item -> TaskRecord]
  /\ taskFaults \in 0..MaxTaskFaults

(* What a record may become: an ended one nothing else, an active one      *)
(* never less spent, nor with fewer recoveries, nor queued again without.  *)
MayBecome(old, new) ==
  /\ old.status \in {"cancelled", "succeeded"} => new = old
  /\ old.status \in {"queued", "running"} =>
       /\ new.status # "absent" /\ new.used >= old.used /\ new.recoveries >= old.recoveries
       /\ old.status = "running" /\ new.status = "queued" => new.recoveries > old.recoveries

(* "agent/* tasks enforce step, elapsed-time and cost budgets with         *)
(* explicit cancellation and at most three recovery attempts" (README of   *)
(* the daemon), and no failed write, death or reopening gives any of it    *)
(* back: what is on disk follows from what callers were answered, and what *)
(* is in memory from what is on disk.                                      *)
TasksKept ==
  \A i \in Item : /\ MayBecome(answered[i], filed[i])
                  /\ opened => MayBecome(filed[i], known[i])
=============================================================================
