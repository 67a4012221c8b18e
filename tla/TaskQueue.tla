----------------------------- MODULE TaskQueue -----------------------------
(***************************************************************************)
(* The Anti-Gravity task queue (swarm/antigravity): one server over a      *)
(* SQLite file, and agents that push, claim, complete and fail tasks.      *)
(*                                                                         *)
(* The server runs one tool at a time, and a tool is one transaction,      *)
(* followed by one that appends to the event log; the server can die       *)
(* between the two, and an agent that gets no answer may report again.     *)
(***************************************************************************)
EXTENDS Naturals, FiniteSets

CONSTANTS
  Task,       \* 1..n, in the order of created_at
  Agent, Nobody,
  Blocker,    \* blocked_by of each task, or 0
  Priority, Kind, Capable,  \* priority and task_type; what each agent can do
  MaxRetries, \* MAX_RETRIES
  MaxRepeats, MaxVanished, MaxDeaths

ASSUME QueueConstants ==
  /\ IsFiniteSet(Task) /\ Task = 1..Cardinality(Task)
  /\ Nobody \notin Agent
  /\ Blocker \in [Task -> Task \cup {0}]
  /\ Priority \in [Task -> 1..10] /\ DOMAIN Kind = Task
  /\ DOMAIN Capable = Agent
  /\ {MaxRetries, MaxRepeats, MaxVanished, MaxDeaths} \subseteq Nat

VARIABLES
  task,     \* the table of tasks
  logged,   \* the last event of each task
  owed,     \* the event of the transaction just committed
  works,    \* the task an agent has claimed and not reported to its end
  starts,   \* history: how often a task was handed out
  repeats, vanished, deaths

queueVars == <<task, logged, owed, works, starts, repeats, vanished, deaths>>

Event == {"task_pushed", "task_completed", "task_failed"}
NoRow == [status |-> "none", agent |-> Nobody, retries |-> 0, backoff |-> FALSE]
NoEvent == <<>>

QueueInit ==
  /\ task = [t \in Task |-> NoRow] /\ logged = [t \in Task |-> NoEvent] /\ owed = NoEvent
  /\ works = [a \in Agent |-> 0] /\ starts = [t \in Task |-> 0]
  /\ repeats = 0 /\ vanished = 0 /\ deaths = 0

Serving == owed = NoEvent
Owe(t, kind) == owed' = <<t, kind>>

(* ag_task_push.                                                           *)
Push(t) ==
  /\ Serving /\ task[t].status = "none" /\ \A s \in Task : s < t => task[s].status # "none"
  /\ task' = [task EXCEPT ![t].status = "pending"]
  /\ Owe(t, "task_pushed")
  /\ UNCHANGED <<logged, works, starts, repeats, vanished, deaths>>

(* ag_task_claim: the first pending task by priority and age.              *)
Unblocked(t) == Blocker[t] = 0 \/ task[Blocker[t]].status = "completed"

Open(t) == task[t].status \in {"pending", "in_progress"}  \* mutant
Pending(t) == task[t].status = "pending"

DueTooLong(t) == task[t].backoff \/ task[t].retries = 0  \* mutant: retry_after compared backwards
Due(t) == ~task[t].backoff

Claimable(a) == {t \in Task : Pending(t) /\ Due(t) /\ Unblocked(t) /\ Kind[t] \in Capable[a]}

Before(s, t) == Priority[s] < Priority[t] \/ (Priority[s] = Priority[t] /\ s <= t)

Claim(a) ==
  /\ Serving /\ works[a] = 0
  /\ \E t \in Claimable(a) :
       /\ \A s \in Claimable(a) : Before(t, s)
       /\ task' = [task EXCEPT ![t].status = "in_progress", ![t].agent = a]
       /\ works' = [works EXCEPT ![a] = t]
       /\ starts' = [starts EXCEPT ![t] = @ + 1]
  /\ UNCHANGED <<logged, owed, repeats, vanished, deaths>>

(* A report reaches its end, or the agent hears nothing and repeats it.    *)
Reported(a) ==
  \/ works' = [works EXCEPT ![a] = 0] /\ UNCHANGED repeats
  \/ repeats < MaxRepeats /\ repeats' = repeats + 1 /\ UNCHANGED works

(* ag_task_complete.                                                       *)
Exists(t) == task[t].status # "none"  \* mutant: whatever its status
InProgress(t) == task[t].status = "in_progress"

Said(t) == TRUE  \* mutant: the event goes out whatever task_complete returned
Done(t) == InProgress(t)

Complete(a) ==
  /\ Serving /\ works[a] # 0 /\ Reported(a)
  /\ LET t == works[a] IN
     /\ task' = IF InProgress(t) THEN [task EXCEPT ![t].status = "completed"] ELSE task
     /\ IF Done(t) THEN Owe(t, "task_completed") ELSE UNCHANGED owed
  /\ UNCHANGED <<logged, starts, vanished, deaths>>

(* ag_task_fail, which does not look at the status.                        *)
ExhaustedLate(t) == task[t].retries > MaxRetries  \* mutant
Exhausted(t) == task[t].retries >= MaxRetries

Failed(t) ==
  IF Exhausted(t) THEN [task EXCEPT ![t].status = "failed"]
  ELSE [task EXCEPT ![t] = [status |-> "pending", agent |-> Nobody, retries |-> @.retries + 1,
                            backoff |-> TRUE]]

FailTask(a) ==
  /\ Serving /\ works[a] # 0 /\ Reported(a)
  /\ task' = Failed(works[a]) /\ Owe(works[a], "task_failed")
  /\ UNCHANGED <<logged, starts, vanished, deaths>>

(* event_push, and a server that dies before it and is started again.      *)
PushEvent ==
  /\ owed # NoEvent /\ logged' = [logged EXCEPT ![owed[1]] = <<owed[2]>>] /\ owed' = NoEvent
  /\ UNCHANGED <<task, works, starts, repeats, vanished, deaths>>

ServerDies ==
  /\ owed # NoEvent /\ deaths < MaxDeaths /\ deaths' = deaths + 1 /\ owed' = NoEvent
  /\ UNCHANGED <<task, logged, works, starts, repeats, vanished>>

(* retry_after passes; an agent is gone with what it had.                  *)
BackoffEnds(t) ==
  /\ task[t].backoff /\ task' = [task EXCEPT ![t].backoff = FALSE]
  /\ UNCHANGED <<logged, owed, works, starts, repeats, vanished, deaths>>

Vanish(a) ==
  /\ works[a] # 0 /\ vanished < MaxVanished /\ vanished' = vanished + 1
  /\ works' = [works EXCEPT ![a] = 0]
  /\ UNCHANGED <<task, logged, owed, starts, repeats, deaths>>

QueueNext ==
  \/ PushEvent \/ ServerDies
  \/ \E t \in Task : Push(t) \/ BackoffEnds(t)
  \/ \E a \in Agent : Claim(a) \/ Complete(a) \/ FailTask(a) \/ Vanish(a)

QueueSpec == QueueInit /\ [][QueueNext]_queueVars

(* The server answers, agents ask and report, and backoffs pass.           *)
QueueFairness ==
  /\ WF_queueVars(PushEvent)
  /\ \A t \in Task : WF_queueVars(BackoffEnds(t))
  /\ \A a \in Agent : WF_queueVars(Claim(a)) /\ WF_queueVars(Complete(a) \/ FailTask(a))

-----------------------------------------------------------------------------
(* Every variable keeps to its type.                                       *)
QueueTypeOK ==
  /\ task \in [Task -> [status : {"none", "pending", "in_progress", "completed", "failed"},
                        agent : Agent \cup {Nobody}, retries : 0..MaxRetries, backoff : BOOLEAN]]
  /\ logged \in [Task -> {NoEvent} \cup {<<k>> : k \in Event}]
  /\ owed \in {NoEvent} \cup Task \X Event
  /\ works \in [Agent -> Task \cup {0}] /\ starts \in [Task -> Nat]
  /\ repeats \in 0..MaxRepeats /\ vanished \in 0..MaxVanished /\ deaths \in 0..MaxDeaths

(* "up to 3 retries, then permanently failed": a task is handed out at     *)
(* most once more than it may be retried, even when reports are repeated.  *)
StartsBounded == \A t \in Task : starts[t] <= MaxRetries + 1

(* A permanently failed task stays failed, whoever reports on it late.     *)
FailedForever ==
  [][\A t \in Task : task[t].status = "failed" => task'[t].status = "failed"]_queueVars

(* As long as no report is repeated, only the agent that claimed a task    *)
(* works on it, and what is completed has no report outstanding that       *)
(* would put it back in the queue.                                         *)
OneWorker ==
  repeats = 0 =>
    \A a \in Agent : works[a] # 0 =>
      task[works[a]].status = "in_progress" /\ task[works[a]].agent = a

(* While the server lives, whoever polls the events learns of a task that  *)
(* it is completed exactly when it is.                                     *)
LogTells ==
  deaths = 0 /\ Serving =>
    \A t \in Task : task[t].status = "completed" <=> logged[t] = <<"task_completed">>

(* The three: what the queue hands out, and what it tells of it.           *)
TasksSound == StartsBounded /\ OneWorker /\ LogTells

(* A task that nothing blocks comes to its end, unless the agent that has  *)
(* it is gone, or what it was blocked by is taken up once more.            *)
TasksEnd ==
  \A t \in Task :
    Pending(t) /\ Unblocked(t) ~>
      \/ task[t].status \in {"completed", "failed"} \/ ~Unblocked(t)
      \/ task[t].status = "in_progress" /\ \A a \in Agent : works[a] # t
=============================================================================
