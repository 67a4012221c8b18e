------------------------------ MODULE Campaign ------------------------------
(***************************************************************************)
(* cloud/eight-mi300x-campaign/campaign.py: the scheduler that runs the    *)
(* jobs of a campaign on GPU lanes, saves its state, and resumes after its *)
(* own death.                                                              *)
(*                                                                         *)
(* All lanes run on one event loop.  A step of the loop ends at an await,  *)
(* so a claim is one action; the report of a job and the decision to retry *)
(* it are two, because each saves the state and the controller may die     *)
(* between them, but no other lane runs in between (turn).  At the time    *)
(* limit the tasks of the lanes are cancelled, twice, and what that does   *)
(* depends on where a lane waits.                                          *)
(***************************************************************************)
EXTENDS Naturals, FiniteSets, Sequences, SequencesExt

CONSTANTS
  Lane, NoLane,
  Order,        \* config["jobs"], a sequence of job identifiers
  NoJob,
  Needs,        \* depends_on of each job
  Compatible, Preferred,   \* GPUs a job may run on, and the one it prefers
  Long,         \* jobs with long_job
  Allowed,      \* max_attempts of each job
  Version, NoFile,         \* contents of an output, and none
  NoStartAfter, MaxRuntime, MaxTime,   \* policy, and a bound on the age modelled
  MaxStarts, MaxTampers    \* bounds on starts and on changed artifacts

Job == Range(Order)

ASSUME CampaignConstants ==
  /\ IsInjective(Order) /\ Order \in Seq(Job)
  /\ NoJob \notin Job /\ NoLane \notin Lane /\ NoFile \notin Version
  /\ Needs \in [Job -> SUBSET Job]
  /\ Compatible \in [Job -> SUBSET Lane] /\ Preferred \in [Job -> Lane]
  /\ Long \subseteq Job /\ Allowed \in [Job -> Nat \ {0}]
  /\ {NoStartAfter, MaxRuntime, MaxTime, MaxStarts, MaxTampers} \subseteq Nat

VARIABLES
  up,         \* the controller: "down", "running", or "ended" with a manifest
  stopping,   \* self.cancelled
  limit,      \* of wait_for: "none", "reached", or "over" when the lanes are told to stop
  record,     \* self.state["jobs"]
  saved,      \* the same in state.json
  job,        \* what each lane runs
  process,    \* the command of each lane: "stopped" by a signal, or "reaped" when it had ended
  orphans,    \* the jobs whose commands outlive the controller or lane that ran them
  left,       \* lanes that returned
  doomed,     \* lanes whose task is cancelled and has not noticed it
  dropped,    \* lanes whose task has ended by that
  turn,       \* the lane between its two saves
  file,       \* the output of each job in the run directory
  age,        \* now - self.started_monotonic
  starts, tampers

loop == <<up, stopping, limit, starts, doomed, dropped>>
disk == <<file, tampers>>
vars == <<loop, record, saved, job, process, orphans, left, turn, disk, age>>

Final == {"succeeded", "failed"}  \* failed, timed_out or cancelled: no step tells them apart
Status == Final \cup {"pending", "running"}

Fresh == [status |-> "pending", attempts |-> 0, blamed |-> FALSE,
          output |-> NoFile]

Idle == [l \in Lane |-> NoJob]

Init ==
  /\ up = "down" /\ stopping = FALSE /\ limit = "none" /\ age = 0 /\ starts = 0
  /\ record = [j \in Job |-> Fresh] /\ saved = record
  /\ job = Idle /\ process = [l \in Lane |-> "none"] /\ orphans = {}
  /\ left = {} /\ doomed = {} /\ dropped = {} /\ turn = NoLane
  /\ file = [j \in Job |-> NoFile] /\ tampers = 0

Running == up = "running" /\ turn = NoLane

-----------------------------------------------------------------------------
(* prepare: what ran is pending again, and so is what succeeded but whose  *)
(* output is not the one recorded.                                         *)
UntrustedAll(r, j) == r.status = "succeeded"  \* mutant: every success is done again
Untrusted(r, j) == r.status = "succeeded" /\ file[j] # r.output
Recovered(r, j) ==
  IF r.status = "running" \/ Untrusted(r, j) THEN [r EXCEPT !.status = "pending"] ELSE r

Start ==
  /\ up # "running" /\ starts < MaxStarts /\ starts' = starts + 1
  /\ up' = "running" /\ stopping' = FALSE /\ limit' = "none" /\ age' = 0
  /\ record' = [j \in Job |-> Recovered(saved[j], j)]
  /\ saved' = record'
  /\ left' = {} /\ doomed' = {} /\ dropped' = {}
  /\ UNCHANGED <<job, process, orphans, turn, disk>>

-----------------------------------------------------------------------------
(* claim.                                                                  *)
UnfinishedNeeds(r, j) == {n \in Needs[j] : r[n].status # "succeeded"}  \* mutant
NoNeeds(r, j) == {}  \* mutant
FailedNeeds(r, j) == {n \in Needs[j] : r[n].status \in Final \ {"succeeded"}}

Position(j) == CHOOSE i \in DOMAIN Order : Order[i] = j

(* One pass over the jobs fails each that is pending and depends on one    *)
(* that ended without success, or that the pass failed before: the set J.  *)
FailsInPass(r, J) ==
  \A j \in Job :
    j \in J <=> /\ r[j].status = "pending"
                /\ FailedNeeds(r, j) # {} \/ \E n \in Needs[j] \cap J : Position(n) < Position(j)

Blamed(r, J) ==
  [j \in Job |-> IF j \in J THEN [r[j] EXCEPT !.status = "failed", !.blamed = TRUE] ELSE r[j]]

(* The same job by job, in the order of the configuration: what any such J *)
(* comes to.                                                               *)
Visited(r, j) ==
  IF r[j].status = "pending" /\ FailedNeeds(r, j) # {} THEN Blamed(r, {j}) ELSE r
Pass(r) ==
  LET after[i \in 0..Len(Order)] == IF i = 0 THEN r ELSE Visited(after[i - 1], Order[i])
  IN  after[Len(Order)]

NotFailed(r, j) == FailedNeeds(r, j) = {}  \* mutant: no need has failed
Ready(r, j) == \A n \in Needs[j] : r[n].status = "succeeded"

AnyStatus(r) == r.status \in {"pending", "running"}  \* mutant
Free(r) == r.status = "pending"

Candidates(r, l) ==
  {j \in Job : /\ Free(r[j]) /\ Ready(r, j) /\ l \in Compatible[j]
               /\ age >= NoStartAfter => j \notin Long}

Rank(l, j) == Position(j) + (IF Preferred[j] = l THEN 0 ELSE Len(Order))
Best(l, J) == CHOOSE j \in J : \A k \in J : Rank(l, j) <= Rank(l, k)

Waiting(l) == Running /\ l \notin left \cup doomed \cup dropped /\ job[l] = NoJob

(* A claim, and the start of the command.                                  *)
Claim(l) ==
  /\ Waiting(l) /\ ~stopping
  /\ \E J \in SUBSET Job :
       LET r == Blamed(record, J)
           j == Best(l, Candidates(r, l))
       IN
         /\ FailsInPass(record, J) /\ Candidates(r, l) # {}
         /\ record' = [r EXCEPT ![j] = [status |-> "running", attempts |-> @.attempts + 1,
                                        blamed |-> FALSE, output |-> NoFile]]
         /\ saved' = record'
         /\ job' = [job EXCEPT ![l] = j]
  /\ process' = [process EXCEPT ![l] = "alive"]
  /\ UNCHANGED <<loop, orphans, left, turn, disk, age>>

(* Nothing to claim: the lane returns, or asks again later.                *)
Poll(l) ==
  /\ Waiting(l) /\ ~stopping
  /\ \E J \in SUBSET Job :
       LET r == Blamed(record, J) IN
         /\ FailsInPass(record, J) /\ Candidates(r, l) = {}
         /\ record' = r
         /\ IF \A j \in Job : r[j].status \in Final THEN left' = left \cup {l}
            ELSE UNCHANGED left
  /\ UNCHANGED <<loop, saved, job, process, orphans, turn, disk, age>>

Leave(l) ==
  /\ Waiting(l) /\ stopping
  /\ left' = left \cup {l}
  /\ UNCHANGED <<loop, record, saved, job, process, orphans, turn, disk, age>>

-----------------------------------------------------------------------------
(* The commands.  One that is stopped, at its time-out or when its lane is *)
(* cancelled, has a signal and ten seconds.                                *)
Works(l) == process[l] \in {"alive", "stopped"}

Write(l) ==
  /\ Works(l)
  /\ \E v \in Version : file' = [file EXCEPT ![job[l]] = v]
  /\ UNCHANGED <<loop, record, saved, job, process, orphans, left, turn, tampers, age>>

Exit(l) ==
  /\ process[l] = "alive"
  /\ \E how \in {"ok", "failed", "stopped"} : process' = [process EXCEPT ![l] = how]
  /\ UNCHANGED <<loop, record, saved, job, orphans, left, turn, disk, age>>

OrphanWrites ==
  /\ \E o \in orphans, v \in Version : file' = [file EXCEPT ![o] = v]
  /\ UNCHANGED <<loop, record, saved, job, process, orphans, left, turn, tampers, age>>

OrphanExits ==
  /\ \E o \in orphans : orphans' = orphans \ {o}
  /\ UNCHANGED <<loop, record, saved, job, process, left, turn, disk, age>>

-----------------------------------------------------------------------------
(* run_job after the command: its exit, its outputs, and the first save.   *)
Outcome(l) ==
  IF process[l] = "ok" /\ file[job[l]] # NoFile THEN "succeeded" ELSE "failed"

Report(l) ==
  /\ Running /\ l \notin doomed /\ process[l] \notin {"none", "alive"}
  /\ LET status == Outcome(l) IN
       record' = [record EXCEPT ![job[l]].status = status,
                                ![job[l]].output = IF status = "succeeded"
                                                   THEN file[job[l]] ELSE NoFile]
  /\ saved' = record'
  /\ process' = [process EXCEPT ![l] = "none"]
  /\ turn' = l
  /\ UNCHANGED <<loop, job, orphans, left, disk, age>>

(* lane after run_job.                                                     *)
MayRetryOnceMore(j) == record[j].attempts <= Allowed[j]  \* mutant
MayRetry(j) == record[j].attempts < Allowed[j]

Retry(l) ==
  /\ up = "running" /\ turn = l /\ turn' = NoLane
  /\ LET j == job[l] IN
     IF record[j].status # "succeeded" /\ MayRetry(j)
     THEN record' = [record EXCEPT ![j].status = "pending"] /\ saved' = record'
     ELSE UNCHANGED <<record, saved>>
  /\ job' = [job EXCEPT ![l] = NoJob]
  /\ UNCHANGED <<loop, process, orphans, left, disk, age>>

-----------------------------------------------------------------------------
(* SIGINT and SIGTERM set self.cancelled.                                  *)
Signal ==
  /\ up = "running" /\ ~stopping /\ stopping' = TRUE
  /\ UNCHANGED <<up, limit, starts, doomed, dropped, record, saved, job, process, orphans, left,
                 turn, disk, age>>

(* At the limit wait_for cancels what gather waits for, and goes on to     *)
(* wait: until a task has ended by it, or all have returned.  Only then    *)
(* self.cancelled is set, and the tasks are cancelled once more.           *)
Limit ==
  /\ Running /\ left # Lane /\ limit = "none" /\ age >= MaxRuntime
  /\ limit' = "reached" /\ doomed' = Lane \ left
  /\ UNCHANGED <<up, stopping, starts, dropped, record, saved, job, process, orphans, left, turn,
                 disk, age>>

LimitEnds ==
  /\ Running /\ limit = "reached" /\ (dropped # {} \/ left = Lane)
  /\ limit' = "over" /\ stopping' = TRUE /\ doomed' = Lane \ (left \cup dropped)
  /\ UNCHANGED <<up, starts, dropped, record, saved, job, process, orphans, left, turn, disk, age>>

(* A lane notices that it is cancelled.  While it waits for its command it *)
(* signals that and goes on as with any end of it; while it awaits the     *)
(* heartbeat it goes on as if nothing had happened; anywhere else its task *)
(* ends, the record stays as it is, and a command that was given time to   *)
(* end is left alone.                                                      *)
Notices(l) == Running /\ l \in doomed /\ doomed' = doomed \ {l}

StopCommand(l) ==
  /\ Notices(l) /\ process[l] \in {"alive", "ok", "failed"}
  /\ process' = [process EXCEPT ![l] = IF process[l] = "alive" THEN "stopped" ELSE "reaped"]
  /\ UNCHANGED <<up, stopping, limit, starts, dropped, record, saved, job, orphans, left, turn,
                 disk, age>>

Swallow(l) ==
  /\ Notices(l) /\ process[l] \notin {"none", "alive"}
  /\ UNCHANGED <<up, stopping, limit, starts, dropped, record, saved, job, process, orphans, left,
                 turn, disk, age>>

DropLane(l) ==
  /\ Notices(l) /\ process[l] \in {"none", "alive", "stopped", "reaped"}
  /\ dropped' = dropped \cup {l}
  /\ \/ UNCHANGED orphans
     \/ Works(l) /\ orphans' = orphans \cup {job[l]}
  /\ job' = [job EXCEPT ![l] = NoJob] /\ process' = [process EXCEPT ![l] = "none"]
  /\ UNCHANGED <<up, stopping, limit, starts, record, saved, left, turn, disk, age>>

(* Every lane has ended: the manifest is written.                          *)
Finish ==
  /\ Running /\ left \cup dropped = Lane /\ limit # "reached"
  /\ up' = "ended" /\ limit' = "none" /\ age' = 0
  /\ left' = {} /\ doomed' = {} /\ dropped' = {}
  /\ UNCHANGED <<stopping, starts, record, saved, job, process, orphans, turn, disk>>

(* The controller dies, alone or with commands, which run in sessions of   *)
(* their own.                                                              *)
Crash ==
  /\ up = "running" /\ up' = "down"
  /\ \E survivors \in SUBSET {l \in Lane : Works(l)} :
       orphans' = orphans \cup {job[l] : l \in survivors}
  /\ stopping' = FALSE /\ limit' = "none" /\ turn' = NoLane /\ age' = 0
  /\ left' = {} /\ doomed' = {} /\ dropped' = {}
  /\ record' = [j \in Job |-> Fresh]  \* what was in memory
  /\ job' = Idle /\ process' = [l \in Lane |-> "none"]
  /\ UNCHANGED <<starts, saved, disk>>

Tamper ==
  /\ tampers < MaxTampers /\ tampers' = tampers + 1 /\ up # "running"
  /\ \E j \in Job, v \in Version \cup {NoFile} : file' = [file EXCEPT ![j] = v]
  /\ UNCHANGED <<loop, record, saved, job, process, orphans, left, turn, age>>

Tick ==
  /\ up = "running" /\ age < MaxTime /\ age' = age + 1
  /\ UNCHANGED <<loop, record, saved, job, process, orphans, left, turn, disk>>

LaneStep(l) ==
  \/ Claim(l) \/ Poll(l) \/ Leave(l) \/ Report(l) \/ Retry(l)
  \/ StopCommand(l) \/ Swallow(l) \/ DropLane(l)
RunStep == Limit \/ LimitEnds \/ Finish

Next ==
  \/ Start \/ Signal \/ RunStep \/ Crash \/ Tamper \/ Tick \/ OrphanWrites \/ OrphanExits
  \/ \E l \in Lane : LaneStep(l) \/ Write(l) \/ Exit(l)

(* The event loop serves every lane and run itself, and a command ends or  *)
(* times out.                                                              *)
Fairness == WF_vars(RunStep) /\ \A l \in Lane : WF_vars(LaneStep(l)) /\ WF_vars(Exit(l))

Spec == Init /\ [][Next]_vars
FairSpec == Spec /\ Fairness

-----------------------------------------------------------------------------
JobRecord == [status : Status, attempts : Nat, blamed : BOOLEAN,
              output : Version \cup {NoFile}]

(* Every variable keeps to its type; a lane has a command exactly while it *)
(* runs a job, and no two lanes run the same one.                          *)
TypeOK ==
  /\ up \in {"down", "running", "ended"} /\ stopping \in BOOLEAN
  /\ limit \in {"none", "reached", "over"} /\ {doomed, dropped} \subseteq SUBSET Lane
  /\ record \in [Job -> JobRecord] /\ saved \in [Job -> JobRecord]
  /\ job \in [Lane -> Job \cup {NoJob}]
  /\ process \in [Lane -> {"none", "alive", "ok", "failed", "stopped", "reaped"}]
  /\ \A l \in Lane : process[l] # "none" => job[l] # NoJob
  /\ \A l, k \in Lane : job[l] = job[k] => l = k \/ job[l] = NoJob
  /\ orphans \subseteq Job
  /\ left \subseteq Lane /\ turn \in Lane \cup {NoLane}
  /\ file \in [Job -> Version \cup {NoFile}]
  /\ age \in 0..MaxTime
  /\ starts \in 0..MaxStarts /\ tampers \in 0..MaxTampers

(* No command works on what its job depends on before that has succeeded,  *)
(* over retries, cancellation and resumption.                              *)
NeedsFirst ==
  \A l \in Lane : Works(l) => \A n \in Needs[job[l]] : record[n].status = "succeeded"

(* "retries only where max_attempts explicitly permits it": every attempt  *)
(* beyond that was one that a resumption took up again.                    *)
AttemptsBounded ==
  \A j \in Job : record[j].attempts < Allowed[j] + starts

(* A job that is failed for its dependencies depends on one that ended     *)
(* without success, not on one that is only being retried.                 *)
BlameJustified ==
  \A j \in Job : record[j].status = "failed" /\ record[j].blamed /\ turn = NoLane =>
    \E n \in Needs[j] : record[n].status \in Final \ {"succeeded"}

(* Jobs run in their order, as often as they may, and fail for a reason;   *)
(* no two lanes run the same one.                                          *)
CampaignSound == TypeOK /\ NeedsFirst /\ AttemptsBounded /\ BlameJustified

(* What state.json holds as succeeded is not done again while its output   *)
(* is the recorded one, whatever stops or kills the controller.            *)
FinishedStays ==
  [][\A j \in Job : saved[j].status = "succeeded" /\ file[j] = saved[j].output
       => saved'[j].status = "succeeded"]_vars

(* A controller that is not killed ends, with every job succeeded or       *)
(* failed for good unless it is signalled or reaches the limit.  It ends   *)
(* after the limit too, but for one case: every lane has gone on after it, *)
(* and a long job waits that may no longer start.                          *)
Barred == age >= NoStartAfter /\ \E j \in Long : record[j].status = "pending"

CampaignSettles ==
  up = "running" ~>
    \/ up = "down"
    \/ up = "ended" /\ (stopping \/ \A j \in Job : record[j].status \in Final)
    \/ limit = "reached" /\ doomed \cup dropped = {} /\ ~stopping /\ Barred
=============================================================================
