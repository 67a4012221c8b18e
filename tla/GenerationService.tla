------------------------- MODULE GenerationService -------------------------
(***************************************************************************)
(* cloud/hunyuan-omni-amd/app.py: mesh-generation jobs.  The handlers run  *)
(* one at a time on the event loop; a pool of worker threads runs the      *)
(* jobs.  They meet in job.json, which update_job reads and replaces under *)
(* the lock; what a handler or a worker read before is not protected.      *)
(***************************************************************************)
EXTENDS Naturals, FiniteSets

CONSTANTS
  Job, NoJob,  \* the jobs that may be submitted, and none of them
  Workers,     \* size of the thread pool
  Candidates,  \* meshes a job generates
  MaxServiceKills,           \* bounds on restarts, and on
  MaxGenerationFaults   \* failing generations and writes

ASSUME ServiceConstants ==
  /\ NoJob \notin Job /\ {Workers, Candidates} \subseteq Nat \ {0}
  /\ {MaxServiceKills, MaxGenerationFaults} \subseteq Nat

VARIABLES
  up,        \* the service answers requests
  status,    \* status in job.json, or "absent"
  meshes,    \* candidate files in the job's directory
  manifest,  \* the jobs whose directory has an artifact manifest
  worker,    \* what the job's thread does next; "none" without a future
  handler,   \* the request the event loop is in the middle of
  cancelled, deleted,  \* history: jobs whose cancel or delete was answered
  removing,  \* history: jobs whose directory was ever being removed
  serviceKills, generationFaults

disk == <<status, meshes, manifest>>
generationHistory == <<cancelled, deleted, removing>>
generationBounds == <<serviceKills, generationFaults>>
generationVars == <<up, disk, worker, handler, generationHistory, generationBounds>>

Active == {"queued", "running"}
Final == {"succeeded", "failed", "cancelled"}
Busy == {"checking", "generating", "publishing", "finishing", "failing"}
Over == {"returned", "raised"}
IdleHandler == [op |-> "idle", job |-> NoJob]

GenerationInit ==
  /\ up = TRUE
  /\ status = [j \in Job |-> "absent"]
  /\ meshes = [j \in Job |-> 0] /\ manifest = {}
  /\ worker = [j \in Job |-> "none"] /\ handler = IdleHandler
  /\ cancelled = {} /\ deleted = {} /\ removing = {}
  /\ serviceKills = 0 /\ generationFaults = 0

GenerationFault == generationFaults < MaxGenerationFaults /\ generationFaults' = generationFaults + 1

WorkerIn(j, next) == worker' = [worker EXCEPT ![j] = next]

(* update_job: it raises when job.json is gone or cannot be replaced.      *)
Written(j, s, next, otherwise) ==
  \/ /\ status[j] # "absent" /\ status' = [status EXCEPT ![j] = s]
     /\ WorkerIn(j, next) /\ UNCHANGED generationFaults
  \/ status[j] = "absent" /\ WorkerIn(j, otherwise) /\ UNCHANGED <<status, generationFaults>>
  \/ status[j] # "absent" /\ GenerationFault /\ WorkerIn(j, otherwise) /\ UNCHANGED status

-----------------------------------------------------------------------------
(* The worker thread of a job.                                             *)
Running == {j \in Job : worker[j] \in Busy}

BeginJob(j) ==
  /\ up /\ worker[j] = "queued" /\ Cardinality(Running) < Workers
  /\ Written(j, "running", "checking", "failing")
  /\ UNCHANGED <<up, meshes, manifest, handler, generationHistory, serviceKills>>

(* Before each candidate, and during its delay: stop when the job was      *)
(* cancelled, raise when the time is over or job.json is gone.             *)
Check(j) ==
  /\ up /\ worker[j] = "checking"
  /\ \/ status[j] = "cancelled" /\ WorkerIn(j, "returned") /\ UNCHANGED generationFaults
     \/ status[j] \notin {"cancelled", "absent"} /\ WorkerIn(j, "generating") /\ UNCHANGED generationFaults
     \/ status[j] # "cancelled" /\ WorkerIn(j, "failing")
        /\ IF status[j] = "absent" THEN UNCHANGED generationFaults ELSE GenerationFault
  /\ UNCHANGED <<up, disk, handler, generationHistory, serviceKills>>

(* One candidate is written, hashed and counted in the progress.           *)
OneMore(j) == meshes[j] + 1 <= Candidates  \* mutant: one candidate too many
OneLess(j) == meshes[j] + 2 < Candidates   \* mutant: one candidate too few
MoreToDo(j) == meshes[j] + 1 < Candidates
Generate(j) ==
  /\ up /\ worker[j] = "generating"
  /\ \/ /\ meshes' = [meshes EXCEPT ![j] = @ + 1]
        /\ WorkerIn(j, IF MoreToDo(j) THEN "checking" ELSE "publishing")
        /\ UNCHANGED generationFaults
     \/ GenerationFault /\ WorkerIn(j, "failing") /\ UNCHANGED meshes
  /\ UNCHANGED <<up, status, manifest, handler, generationHistory, serviceKills>>

(* atomic_json of the manifest, which makes the directory when it is gone. *)
PublishManifest(j) ==
  /\ up /\ worker[j] = "publishing"
  /\ \/ manifest' = manifest \cup {j} /\ WorkerIn(j, "finishing") /\ UNCHANGED generationFaults
     \/ GenerationFault /\ WorkerIn(j, "failing") /\ UNCHANGED manifest
  /\ UNCHANGED <<up, status, meshes, handler, generationHistory, serviceKills>>

Finish(j) ==
  /\ up /\ worker[j] = "finishing"
  /\ Written(j, "succeeded", "returned", "failing")
  /\ UNCHANGED <<up, meshes, manifest, handler, generationHistory, serviceKills>>

FailJob(j) ==
  /\ up /\ worker[j] = "failing"
  /\ Written(j, "failed", "returned", "raised")
  /\ UNCHANGED <<up, meshes, manifest, handler, generationHistory, serviceKills>>

-----------------------------------------------------------------------------
(* The handlers.  None awaits after it has begun, so the event loop serves *)
(* one request at a time, but the workers go on between its steps.         *)
ServesRequests(op, j) == up /\ handler = [op |-> op, job |-> j]

SubmitJob(j) ==
  /\ up /\ handler = IdleHandler /\ status[j] = "absent" /\ j \notin deleted \cup removing
  /\ status' = [status EXCEPT ![j] = "queued"]
  /\ WorkerIn(j, "queued")
  /\ UNCHANGED <<up, meshes, manifest, handler, generationHistory, generationBounds>>

Cancel(j) ==
  /\ up /\ handler = IdleHandler /\ status[j] \in Active
  /\ handler' = [op |-> "cancel", job |-> j]
  /\ UNCHANGED <<up, disk, worker, generationHistory, generationBounds>>

CancelWrites(j) ==
  /\ ServesRequests("cancel", j) /\ handler' = IdleHandler
  /\ \/ /\ status' = [status EXCEPT ![j] = "cancelled"]
        /\ cancelled' = cancelled \cup {j} /\ UNCHANGED generationFaults
     \/ GenerationFault /\ UNCHANGED <<status, cancelled>>
  /\ UNCHANGED <<up, meshes, manifest, worker, deleted, removing, serviceKills>>

AnyThread(j) == TRUE  \* mutant: the worker may still be stopping
Quiet(j) == worker[j] \in Over \cup {"none"}

Delete(j) ==
  /\ up /\ handler = IdleHandler /\ status[j] \in Final
  /\ handler' = [op |-> "delete", job |-> j]
  /\ UNCHANGED <<up, disk, worker, generationHistory, generationBounds>>

(* The wait for the future ends: it is done, its exception is passed on,   *)
(* or two seconds are over.                                                *)
DeleteWaits(j) ==
  /\ ServesRequests("delete", j)
  /\ \/ /\ Quiet(j) /\ handler' = [op |-> "remove", job |-> j]
        /\ removing' = removing \cup {j}
     \/ worker[j] # "none" /\ handler' = IdleHandler /\ UNCHANGED removing
  /\ UNCHANGED <<up, disk, worker, cancelled, deleted, generationBounds>>

RemoveJob(j) ==
  /\ ServesRequests("remove", j)
  /\ \/ /\ status[j] # "absent" /\ status' = [status EXCEPT ![j] = "absent"]
        /\ UNCHANGED <<meshes, manifest>>
     \/ /\ meshes[j] > 0 /\ meshes' = [meshes EXCEPT ![j] = @ - 1]
        /\ UNCHANGED <<status, manifest>>
     \/ /\ j \in manifest /\ manifest' = manifest \ {j}
        /\ UNCHANGED <<status, meshes>>
  /\ UNCHANGED <<up, worker, handler, generationHistory, generationBounds>>

Removed(j) ==
  /\ ServesRequests("remove", j)
  /\ status[j] = "absent" /\ meshes[j] = 0 /\ j \notin manifest
  /\ handler' = IdleHandler
  /\ deleted' = deleted \cup {j}
  /\ UNCHANGED <<up, disk, worker, cancelled, removing, generationBounds>>

-----------------------------------------------------------------------------
(* The process dies; the next one fails what it finds active, one job at a *)
(* time, skipping a record it cannot replace, and then serves.             *)
KillService ==
  /\ serviceKills < MaxServiceKills /\ serviceKills' = serviceKills + 1
  /\ up' = FALSE
  /\ worker' = [j \in Job |-> "none"] /\ handler' = IdleHandler
  /\ UNCHANGED <<disk, generationHistory, generationFaults>>

OnlyRunning == {"running"}  \* mutant: queued jobs are left to nobody
Orphaned == Active

RecoverJobs(j) ==
  /\ ~up /\ status[j] \in Orphaned
  /\ status' = [status EXCEPT ![j] = "failed"]
  /\ UNCHANGED <<up, meshes, manifest, worker, handler, generationHistory, generationBounds>>

Serve ==
  /\ ~up /\ up' = TRUE
  /\ IF \E j \in Job : status[j] \in Orphaned THEN GenerationFault ELSE UNCHANGED generationFaults
  /\ UNCHANGED <<disk, worker, handler, generationHistory, serviceKills>>

JobWork(j) == BeginJob(j) \/ Check(j) \/ Generate(j) \/ PublishManifest(j) \/ Finish(j) \/ FailJob(j)
Handle(j) == CancelWrites(j) \/ DeleteWaits(j) \/ RemoveJob(j) \/ Removed(j)

GenerationNext ==
  \/ \E j \in Job : \/ SubmitJob(j) \/ Cancel(j) \/ Delete(j)
                    \/ JobWork(j) \/ Handle(j) \/ RecoverJobs(j)
  \/ KillService \/ Serve

(* Threads make progress, a handler ends, a restarted service recovers.    *)
GenerationFairness ==
  /\ \A j \in Job :
       WF_generationVars(JobWork(j)) /\ WF_generationVars(Handle(j)) /\ WF_generationVars(RecoverJobs(j))
  /\ WF_generationVars(Serve)

GenerationSpec == GenerationInit /\ [][GenerationNext]_generationVars
GenerationFairSpec == GenerationSpec /\ GenerationFairness

-----------------------------------------------------------------------------
(* Every variable holds a value of its type, no job has more meshes than   *)
(* were asked for, and no more threads are busy than the pool has.         *)
GenerationTypeOK ==
  /\ up \in BOOLEAN
  /\ status \in [Job -> Active \cup Final \cup {"absent"}]
  /\ meshes \in [Job -> 0..Candidates] /\ manifest \subseteq Job
  /\ worker \in [Job -> Busy \cup Over \cup {"none", "queued"}]
  /\ handler \in [op : {"cancel", "delete", "remove"}, job : Job] \cup {IdleHandler}
  /\ cancelled \subseteq Job /\ deleted \subseteq Job /\ removing \subseteq Job
  /\ serviceKills \in 0..MaxServiceKills /\ generationFaults \in 0..MaxGenerationFaults
  /\ Cardinality(Running) <= Workers

(* A job that is reported as succeeded has its manifest and every mesh on  *)
(* disk, whatever was cancelled, failed or restarted meanwhile.            *)
PublishedWhole ==
  \A j \in Job \ removing :
    status[j] = "succeeded" => j \in manifest /\ meshes[j] = Candidates

(* A deleted job does not come back: the directory is not removed under a  *)
(* worker that would write it again ("instead of racing a write").         *)
DeletedStays ==
  \A j \in deleted : status[j] = "absent" /\ meshes[j] = 0 /\ j \notin manifest

(* Both: the directories hold what the reported jobs have, and no others.  *)
JobsSound == PublishedWhole /\ DeletedStays

(* "Jobs are bounded": while no write fails, none stays queued or running  *)
(* for ever, whatever is cancelled, deleted or restarted.                  *)
JobsEnd ==
  \A j \in Job : status[j] \in Active ~> (status[j] \notin Active \/ generationFaults > 0)

(* "Jobs are [...] cancellable": a job whose cancellation was answered is  *)
(* not reported as running, succeeded or failed afterwards.                *)
CancelHolds == \A j \in cancelled : status[j] \in {"cancelled", "absent"}
=============================================================================
