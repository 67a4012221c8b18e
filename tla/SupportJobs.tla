---------------------------- MODULE SupportJobs ----------------------------
(***************************************************************************)
(* Support structures for an enclosure, refined in the cloud: the desktop  *)
(* (SupportJobClient.cpp) sends the specification it read to the gateway   *)
(* (support_jobs.py), polls the job, fetches its result and has FreeCAD    *)
(* (interaction_structure.py) build it, which reads the specification      *)
(* again.  The gateway keeps its jobs in memory, under a key made of the   *)
(* specification, and asks a worker from a background task.                *)
(***************************************************************************)
EXTENDS Naturals, Sequences

CONSTANTS
  Specification, NoSpecification,                                \* contents of the specification
  MaxSubmits, MaxEdits, MaxRestarts            \* bounds

ASSUME SupportConstants ==
  NoSpecification \notin Specification /\ Specification # {} /\ {MaxSubmits, MaxEdits, MaxRestarts} \subseteq Nat

VARIABLES
  file,      \* the specification in the workspace
  desk,      \* the desktop's call: where it is, what it read, its job, what it fetched
  jobs,      \* the gateway's jobs, in the order of creation
  tasks,      \* the background task of each job
  built,     \* the specification whose structure the enclosure has
  submits, edits, restarts

supportVars == <<file, desk, jobs, tasks, built, submits, edits, restarts>>
Bounds == <<submits, edits, restarts>>

Terminal == {"completed", "cancelled", "failed"}
JobStatus == {"queued", "running", "lost"} \cup Terminal
Idle == [at |-> "idle", spec |-> NoSpecification, job |-> 0, result |-> NoSpecification]

SupportInit ==
  /\ file \in Specification /\ desk = Idle /\ jobs = << >> /\ tasks = << >> /\ built = NoSpecification
  /\ submits = 0 /\ edits = 0 /\ restarts = 0

-----------------------------------------------------------------------------
(* The desktop.  A request is answered, or the desktop hears nothing of it *)
(* whether or not the gateway has carried it out, and gives up.            *)
Submit ==
  /\ desk.at = "idle" /\ submits < MaxSubmits
  /\ submits' = submits + 1 /\ desk' = [Idle EXCEPT !.at = "creating", !.spec = file]
  /\ UNCHANGED <<file, jobs, tasks, built, edits, restarts>>

Forgetful(s) == {i \in DOMAIN jobs : jobs[i].spec = s /\ jobs[i].status \in {"queued", "running"}}  \* mutant
Existing(s) == {i \in DOMAIN jobs : jobs[i].spec = s /\ jobs[i].status # "lost"}

AnsweredBlank(d) == desk' \in {[d EXCEPT !.job = 0], Idle}  \* mutant
Answered(d) == desk' \in {d, Idle}

(* create_support_job: the job of that specification, whatever became of   *)
(* it, or a new one with its background task.                              *)
CreateJob ==
  /\ desk.at = "creating"
  /\ \/ \E i \in Existing(desk.spec) :
          Answered([desk EXCEPT !.at = "waiting", !.job = i]) /\ UNCHANGED <<jobs, tasks>>
     \/ /\ Existing(desk.spec) = {}
        /\ jobs' = Append(jobs, [spec |-> desk.spec, status |-> "queued", result |-> NoSpecification])
        /\ tasks' = Append(tasks, "due")
        /\ Answered([desk EXCEPT !.at = "waiting", !.job = Len(jobs) + 1])
  /\ UNCHANGED <<file, built>> /\ UNCHANGED Bounds

GiveUp ==
  /\ desk.at \in {"creating", "waiting", "fetching"} /\ desk' = Idle
  /\ UNCHANGED <<file, jobs, tasks, built>> /\ UNCHANGED Bounds

Poll ==
  /\ desk.at = "waiting"
  /\ CASE jobs[desk.job].status = "completed" -> desk' = [desk EXCEPT !.at = "fetching"]
       [] jobs[desk.job].status \in {"failed", "cancelled", "lost"} -> desk' = Idle
       [] OTHER -> UNCHANGED desk
  /\ UNCHANGED <<file, jobs, tasks, built>> /\ UNCHANGED Bounds

(* The overall timeout, and cancel_support_job if the request arrives.     *)
CancelsAny(status) == status # "lost"  \* mutant: whatever the job has come to
Cancels(status) == status \notin Terminal \cup {"lost"}

CancelConfirmed(i) ==  \* mutant
  Cancels(jobs[i].status) /\ jobs' = [jobs EXCEPT ![i].status = "cancelled"]
CancelSent(i) ==
  \/ UNCHANGED jobs
  \/ Cancels(jobs[i].status) /\ jobs' = [jobs EXCEPT ![i].status = "cancelled"]

TimedOut ==
  /\ desk.at = "waiting" /\ desk' = Idle /\ CancelSent(desk.job)
  /\ UNCHANGED <<file, tasks, built>> /\ UNCHANGED Bounds

Fetch ==
  /\ desk.at = "fetching"
  /\ IF jobs[desk.job].status = "completed"
     THEN desk' = [desk EXCEPT !.at = "building", !.result = jobs[desk.job].result]
     ELSE desk' = Idle
  /\ UNCHANGED <<file, jobs, tasks, built>> /\ UNCHANGED Bounds

(* FreeCAD reads the specification and takes the result made for it.       *)
AnyMatch(result) == result # NoSpecification  \* mutant
Matches(result) == result = file

BuildStructure ==
  /\ desk.at = "building" /\ desk' = Idle
  /\ IF Matches(desk.result) THEN built' = desk.result ELSE UNCHANGED built
  /\ UNCHANGED <<file, jobs, tasks>> /\ UNCHANGED Bounds

EditFile ==
  /\ edits < MaxEdits /\ edits' = edits + 1
  /\ file' \in Specification \ {file}
  /\ UNCHANGED <<desk, jobs, tasks, built, submits, restarts>>

-----------------------------------------------------------------------------
(* The gateway.  run_remote begins with a queued job; the worker may not   *)
(* be configured.                                                          *)
RunRemote(i) ==
  /\ tasks[i] = "due"
  /\ IF jobs[i].status = "queued"
     THEN \/ /\ tasks' = [tasks EXCEPT ![i] = "asked"]
             /\ jobs' = [jobs EXCEPT ![i].status = "running"]
          \/ /\ tasks' = [tasks EXCEPT ![i] = "over"]
             /\ jobs' = [jobs EXCEPT ![i].status = "failed"]
     ELSE tasks' = [tasks EXCEPT ![i] = "over"] /\ UNCHANGED jobs
  /\ UNCHANGED <<file, desk, built>> /\ UNCHANGED Bounds

UncheckedAnswer(i, result) == TRUE  \* mutant
RightAnswer(i, result) == result = jobs[i].spec

StillWanted(i) == jobs[i].status # "cancelled"

Settle(i, status, result) ==
  IF StillWanted(i) THEN jobs' = [jobs EXCEPT ![i].status = status, ![i].result = result]
  ELSE UNCHANGED jobs

(* The worker answers, with a result for some specification, or not.       *)
WorkerAnswers(i) ==
  /\ tasks[i] = "asked" /\ tasks' = [tasks EXCEPT ![i] = "over"]
  /\ \E result \in Specification \cup {NoSpecification} :
       IF result # NoSpecification /\ RightAnswer(i, result) THEN Settle(i, "completed", result)
       ELSE Settle(i, "failed", NoSpecification)
  /\ UNCHANGED <<file, desk, built>> /\ UNCHANGED Bounds

(* An answer of another shape ends the task with an error it does not        *)
(* catch, and the job stays as it is.                                      *)
TaskDies(i) ==
  /\ tasks[i] = "asked" /\ tasks' = [tasks EXCEPT ![i] = "over"]
  /\ UNCHANGED <<file, desk, jobs, built>> /\ UNCHANGED Bounds

(* The gateway is started again and knows nothing of its jobs.             *)
RestartGateway ==
  /\ restarts < MaxRestarts /\ restarts' = restarts + 1
  /\ jobs' = [i \in DOMAIN jobs |-> [jobs[i] EXCEPT !.status = "lost"]]
  /\ tasks' = [i \in DOMAIN tasks |-> "over"]
  /\ UNCHANGED <<file, desk, built, submits, edits>>

DeskStep == CreateJob \/ GiveUp \/ Poll \/ TimedOut \/ Fetch \/ BuildStructure

SupportNext ==
  \/ Submit \/ DeskStep \/ EditFile \/ RestartGateway
  \/ \E i \in DOMAIN jobs : RunRemote(i) \/ WorkerAnswers(i) \/ TaskDies(i)

SupportSpec == SupportInit /\ [][SupportNext]_supportVars

(* The desktop goes on, and its clock with it.                             *)
SupportFairness ==
  /\ WF_supportVars(CreateJob \/ Fetch \/ BuildStructure)
  /\ WF_supportVars(TimedOut)

-----------------------------------------------------------------------------
(* Every variable keeps to its type; the gateway is asked once at most for *)
(* a specification, and starts one job for it.                             *)
SupportTypeOK ==
  /\ file \in Specification /\ built \in Specification \cup {NoSpecification}
  /\ desk \in [at : {"idle", "creating", "waiting", "fetching", "building"},
               spec : Specification \cup {NoSpecification}, job : Nat, result : Specification \cup {NoSpecification}]
  /\ desk.at \in {"waiting", "fetching"} => desk.job \in DOMAIN jobs
  /\ jobs \in Seq([spec : Specification, status : JobStatus, result : Specification \cup {NoSpecification}])
  /\ tasks \in Seq({"due", "asked", "over"}) /\ Len(tasks) = Len(jobs)
  /\ submits \in 0..MaxSubmits /\ edits \in 0..MaxEdits /\ restarts \in 0..MaxRestarts

(* The worker is not asked twice at a time for one specification, however  *)
(* often the desktop loses an answer and submits it again.                 *)
AskedOnce ==
  \A i, j \in DOMAIN jobs :
    i # j /\ jobs[i].spec = jobs[j].spec => "lost" \in {jobs[i].status, jobs[j].status}

(* A job that is completed has the result of what was asked, and whoever   *)
(* fetches it has that too.                                                *)
ResultTrue ==
  /\ \A i \in DOMAIN jobs : jobs[i].status = "completed" => jobs[i].result = jobs[i].spec
  /\ desk.at = "building" => desk.result = desk.spec

(* Both: one computation for each specification, and the right one.        *)
ResultsSound == AskedOnce /\ ResultTrue

(* A job that has ended stays as it ended: a late answer does not complete *)
(* a cancelled one and a late cancellation does not take a result away.    *)
TerminalStays ==
  [][\A i \in DOMAIN jobs : jobs[i].status \in Terminal => jobs'[i].status \in {jobs[i].status, "lost"}]_supportVars

(* The enclosure only ever gets the structure of the specification that is *)
(* in the workspace then, even if it was edited while the worker computed. *)
BuiltForFile == [][built' # built => built' = file]_supportVars

(* A submission ends, whatever becomes of its job.                         *)
SubmissionEnds == desk.at # "idle" ~> desk.at = "idle"
=============================================================================
