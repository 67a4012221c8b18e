------------------------------ MODULE Workflow ------------------------------
(***************************************************************************)
(* The work-package workflow of designstudio-agentd: one compiled product  *)
(* intent, its dependency-ordered packages, the architecture approval, the *)
(* unit budget and one durable checkpoint per request.                     *)
(*                                                                         *)
(* The daemon serves one request at a time.  What interleaves with it is   *)
(* the world: the source tree is edited by other tools while a package is  *)
(* being validated, a write of state.json or events.jsonl fails, and the   *)
(* process dies between any two of its effects.  A request that runs a     *)
(* package therefore takes several steps (BeginAdvance, Inspect, Dispatch, *)
(* Record); every other request is one step.                               *)
(***************************************************************************)
EXTENDS Naturals, FiniteSets

CONSTANTS
  N,          \* number of packages; a package is its position in the graph
  Dep,        \* Dep[p] : the packages p depends on
  Cost,       \* Cost[p] : the budget units of p
  Budget,     \* units allocated to the run
  Approver,   \* people who may approve the architecture
  Version,    \* possible contents of a package's input artifacts
  Sound,      \* the contents that the package's engine adapter accepts
  Missing,    \* an input artifact that does not exist
  None,       \* JSON null
  MaxFaults,  \* bound on failed writes and crashes
  MaxEdits    \* bound on changes to the source tree

Package == 1..N

(* The packages are listed in dependency order (validate_package_order).   *)
ASSUME PackageOrder ==
  /\ N \in Nat \ {0}
  /\ Dep \in [Package -> SUBSET Package]
  /\ \A p \in Package : \A d \in Dep[p] : d < p
  /\ Cost \in [Package -> Nat \ {0}]

ASSUME BudgetPositive == Budget \in Nat \ {0}

ASSUME Sentinels ==
  /\ None \notin Approver
  /\ Missing \notin Version
  /\ Sound \subseteq Version

ASSUME Bounds == MaxFaults \in Nat /\ MaxEdits \in Nat

VARIABLES
  mem,       \* the run held in memory, NoRun before product/compile
  disk,      \* the run in .designstudio/state.json
  up,        \* a daemon process has the workspace open
  pc,        \* progress of the request being served
  work,      \* the request's private clone of the run, its package and input
  results,   \* results[p] : content of the package's result.json
  source,    \* source[p] : content of the package's input artifacts
  bound,     \* the source acceptance digests still match the intent
  reported,  \* packages whose success was answered to a caller
  faults, edits

vars == <<mem, disk, up, pc, work, results, source, bound, reported, faults, edits>>

RunStatus ==
  {"awaiting_approval", "approved", "running", "cancelled", "succeeded", "budget_exhausted"}
Finished == {"succeeded", "budget_exhausted"}
CheckpointStatus == {"blocked", "succeeded", "cancelled", "rejected_over_budget"}

Blocked == [status |-> "blocked", input |-> None, output |-> None, units |-> 0]

Compiled ==
  [status |-> "awaiting_approval", approval |-> None,
   cp |-> [p \in Package |-> Blocked],
   consumed |-> 0, remaining |-> Budget, rejected |-> {}]

NoRun == [Compiled EXCEPT !.status = "absent"]
Exists(run) == run.status # "absent"

Succeeded(run) == {p \in Package : run.cp[p].status = "succeeded"}

(* The sum of a function on 1..N.                                          *)
SumOf(f) == LET sum[n \in 0..N] == IF n = 0 THEN 0 ELSE sum[n - 1] + f[n] IN sum[N]
Charged(run) == SumOf([p \in Package |-> run.cp[p].units])

(***************************************************************************)
(* validate_workflow_state: what the daemon requires of a run before it    *)
(* stores it, and of every persisted run before it opens a workspace.      *)
(***************************************************************************)
BudgetBalanced(run) == run.consumed + run.remaining = Budget

CheckpointsConsistent(run) ==
  \A p \in Package :
    LET c == run.cp[p]
    IN  IF c.status = "succeeded"
        THEN c.units = Cost[p] /\ c.input # None /\ c.output # None
        ELSE c.units = 0 /\ c.output = None

DependenciesDone(run) == \A p \in Succeeded(run) : Dep[p] \subseteq Succeeded(run)

LifecycleConsistent(run) ==
  /\ run.status = "succeeded" => Succeeded(run) = Package
  /\ run.status = "awaiting_approval" =>
       run.approval = None /\ \A p \in Package : run.cp[p].status = "blocked"
  /\ run.status # "awaiting_approval" => run.approval # None
  /\ \A p \in run.rejected : run.cp[p].status = "rejected_over_budget"

Valid(run) ==
  /\ BudgetBalanced(run)
  /\ CheckpointsConsistent(run)
  /\ Charged(run) = run.consumed
  /\ DependenciesDone(run)
  /\ LifecycleConsistent(run)

(***************************************************************************)
(* The packages that may run next.  The first of them in graph order does. *)
(***************************************************************************)
RunnableAgain(run) ==  \* mutant: finished packages are picked again
  {p \in Package : run.cp[p].status # "rejected_over_budget" /\ Dep[p] \subseteq Succeeded(run)}

Runnable(run) ==
  {p \in Package : /\ run.cp[p].status \notin {"succeeded", "rejected_over_budget"}
                   /\ Dep[p] \subseteq Succeeded(run)}

AffordableAlone(run, p) == Cost[p] <= Budget  \* mutant: the allocation, not what remains
Affordable(run, p) == Cost[p] <= run.remaining

First(S) == CHOOSE p \in S : \A q \in S : p <= q

(* The input digest covers the artifacts and the outputs of dependencies.  *)
InputDigestOfInputs(run, p, artifacts) ==  \* mutant: chains input digests, not outputs
  [package |-> p, artifacts |-> artifacts, deps |-> [d \in Dep[p] |-> run.cp[d].input]]
InputDigest(run, p, artifacts) ==
  [package |-> p, artifacts |-> artifacts, deps |-> [d \in Dep[p] |-> run.cp[d].output]]

(* The engine result binds that digest and the checks made on what the     *)
(* adapter read.                                                           *)
EngineResult(input, content) == [input |-> input, checked |-> content]

-----------------------------------------------------------------------------
Idle == pc = "idle"
NoWork == [run |-> NoRun, package |-> None, input |-> None]
Finish == pc' = "idle" /\ work' = NoWork

(***************************************************************************)
(* persist: state.json is replaced atomically, then an event is appended.  *)
(* Either write may fail; the caller gets an error although the memory,    *)
(* and perhaps the file, already holds the new state.                      *)
(***************************************************************************)
Outcome == {"ok", "lost", "unlogged"}
Persist(run, outcome) ==
  /\ outcome # "ok" => faults < MaxFaults
  /\ faults' = IF outcome = "ok" THEN faults ELSE faults + 1
  /\ disk' = IF outcome = "lost" THEN disk ELSE run

(* A handler that updates the run in memory and then persists it.          *)
Store(run, outcome) == mem' = run /\ Persist(run, outcome)

(* approve and cancel update the run in place and validate it afterwards:  *)
(* a run that fails validation stays in memory.                            *)
StoreInPlace(run) ==
  IF Valid(run) THEN \E outcome \in Outcome : Store(run, outcome)
  ELSE mem' = run /\ UNCHANGED <<disk, faults>>

World == <<results, source, bound, edits>>

Init ==
  /\ mem = NoRun
  /\ disk = NoRun
  /\ up = FALSE
  /\ pc = "idle"
  /\ work = NoWork
  /\ results = [p \in Package |-> None]
  /\ source \in [Package -> Sound]
  /\ bound = TRUE
  /\ reported = {}
  /\ faults = 0
  /\ edits = 0

(* project/open loads state.json and refuses an inconsistent run.          *)
Open ==
  /\ Idle
  /\ Exists(disk) => Valid(disk)
  /\ up' = TRUE
  /\ \E outcome \in Outcome : Store(disk, outcome)
  /\ UNCHANGED <<pc, work, reported, World>>

(* product/compile keeps a run that the same intent already compiled.      *)
RecompiledAfresh(run) == Compiled  \* mutant: compiling again starts over
Recompiled(run) == IF Exists(run) THEN run ELSE Compiled

Compile ==
  /\ Idle /\ up /\ bound
  /\ LET run == Recompiled(mem)
     IN  Valid(run) /\ \E outcome \in Outcome : Store(run, outcome)
  /\ UNCHANGED <<up, pc, work, reported, World>>

(* workflow_inputs: the run is known and its source binding is not stale.  *)
WorkflowInputs == Idle /\ up /\ Exists(mem) /\ bound

(* workflow/approve replaces the approval until work has started.          *)
ApprovableWhileRunning(run) ==  \* mutant: approval replaced after work has started
  run.status \in {"awaiting_approval", "approved", "running"}
Approvable(run) == run.status \in {"awaiting_approval", "approved"}

Approved(run, a) == [run EXCEPT !.approval = a, !.status = "approved"]

Approve(a) ==
  /\ WorkflowInputs
  /\ Approvable(mem)
  /\ StoreInPlace(Approved(mem, a))
  /\ UNCHANGED <<up, pc, work, reported, World>>

Startable(run) == run.status = "approved"
ResumableRunning(run) == run.status = "running"  \* mutant: cancelled runs are over
Resumable(run) == run.status \in {"cancelled", "running"}

(* The run as workflow/resume takes it up: cancelled packages are blocked  *)
(* again and nothing else changes.                                         *)
Unblocked(run) ==
  [run EXCEPT !.cp = [p \in Package |->
     IF run.cp[p].status = "cancelled" THEN [run.cp[p] EXCEPT !.status = "blocked"]
     ELSE run.cp[p]]]

Started(run, resume) ==
  [(IF resume THEN Unblocked(run) ELSE run) EXCEPT !.status = "running"]

(***************************************************************************)
(* workflow/start and workflow/resume up to the first persist: the caller  *)
(* presents the digest of approval a.                                      *)
(***************************************************************************)
BeginAdvance(resume, a) ==
  /\ WorkflowInputs
  /\ mem.approval # None
  /\ mem.approval = a
  /\ IF resume THEN Resumable(mem) ELSE Startable(mem)
  /\ LET run == Started(mem, resume)
     IN  /\ Valid(run)
         /\ \E outcome \in Outcome :
              /\ Store(run, outcome)
              /\ IF outcome = "ok"
                 THEN pc' = "inspect" /\ work' = [NoWork EXCEPT !.run = run]
                 ELSE UNCHANGED <<pc, work>>
  /\ UNCHANGED <<up, reported, World>>

(* The package is over budget: nothing is charged and the run is over.     *)
OverBudgetRunning(run, p, input) ==  \* mutant: the run keeps its status
  [run EXCEPT !.cp[p].status = "rejected_over_budget", !.cp[p].input = input,
              !.rejected = @ \cup {p}]
OverBudget(run, p, input) ==
  [run EXCEPT !.cp[p].status = "rejected_over_budget", !.cp[p].input = input,
              !.rejected = @ \cup {p}, !.status = "budget_exhausted"]

(***************************************************************************)
(* execute_one_ready_package, first half: pick the package and digest its  *)
(* input artifacts.  A missing artifact fails the request.                 *)
(***************************************************************************)
Inspect ==
  /\ pc = "inspect"
  /\ LET run == work.run
         p == First(Runnable(run))
         input == InputDigest(run, p, source[p])
     IN  IF Runnable(run) = {} THEN pc' = "record" /\ work' = work
         ELSE IF source[p] = Missing THEN Finish
         ELSE IF Affordable(run, p)
              THEN pc' = "dispatch" /\ work' = [run |-> run, package |-> p, input |-> input]
              ELSE pc' = "record" /\ work' = [run |-> OverBudget(run, p, input),
                                              package |-> p, input |-> input]
  /\ UNCHANGED <<mem, disk, up, reported, faults, World>>

(* A package is charged in full when its result is written.                *)
ChargeConsumedOnly(run, p, input, output) ==  \* mutant: what remains is not reduced
  [run EXCEPT !.cp[p] = [status |-> "succeeded", input |-> input, output |-> output,
                         units |-> Cost[p]],
              !.consumed = @ + Cost[p]]
Charge(run, p, input, output) ==
  LET cp == [run.cp EXCEPT ![p] = [status |-> "succeeded", input |-> input,
                                   output |-> output, units |-> Cost[p]]]
  IN  [run EXCEPT !.cp = cp,
                  !.consumed = @ + Cost[p],
                  !.remaining = @ - Cost[p],
                  !.status = IF \A q \in Package : cp[q].status = "succeeded"
                             THEN "succeeded" ELSE @]

(***************************************************************************)
(* execute_one_ready_package, second half: the adapter reads the artifacts *)
(* again; what it rejects fails the request.  Otherwise result.json is     *)
(* replaced, a write that may itself fail.                                 *)
(***************************************************************************)
Dispatch ==
  /\ pc = "dispatch"
  /\ LET p == work.package
         output == EngineResult(work.input, source[p])
     IN  \/ /\ source[p] \in Sound
            /\ results' = [results EXCEPT ![p] = output]
            /\ pc' = "record"
            /\ work' = [work EXCEPT !.run = Charge(work.run, p, work.input, output)]
            /\ faults' = faults
         \/ /\ source[p] \notin Sound
            /\ Finish
            /\ UNCHANGED <<results, faults>>
         \/ /\ source[p] \in Sound /\ faults < MaxFaults
            /\ faults' = faults + 1
            /\ Finish
            /\ results' = results
  /\ UNCHANGED <<mem, disk, up, source, bound, reported, edits>>

(* The tail of advance_workflow: validate, store, persist, answer.         *)
Record ==
  /\ pc = "record"
  /\ Finish
  /\ IF Valid(work.run)
     THEN \E outcome \in Outcome :
            /\ Store(work.run, outcome)
            /\ reported' = IF outcome = "ok" THEN reported \cup Succeeded(work.run) ELSE reported
     ELSE UNCHANGED <<mem, disk, reported, faults>>
  /\ UNCHANGED <<up, World>>

(* workflow/cancel: finished checkpoints stay, the others are cancelled.   *)
CancelledAll(run) ==  \* mutant: finished checkpoints are cancelled too
  [run EXCEPT !.status = "cancelled",
              !.cp = [p \in Package |-> [run.cp[p] EXCEPT !.status = "cancelled"]]]
Cancelled(run) ==
  [run EXCEPT !.status = "cancelled",
              !.cp = [p \in Package |->
                 IF run.cp[p].status \in {"succeeded", "rejected_over_budget"} THEN run.cp[p]
                 ELSE [run.cp[p] EXCEPT !.status = "cancelled"]]]

Cancel ==
  /\ WorkflowInputs
  /\ mem.status \in {"approved", "running"}
  /\ StoreInPlace(Cancelled(mem))
  /\ UNCHANGED <<up, pc, work, reported, World>>

(* Any other handler that persists writes the run as memory holds it.      *)
PersistOther ==
  /\ Idle /\ up
  /\ \E outcome \in Outcome : Persist(mem, outcome)
  /\ UNCHANGED <<mem, up, pc, work, reported, World>>

(* The process dies; a request being served is abandoned.                  *)
Crash ==
  /\ up /\ faults < MaxFaults
  /\ up' = FALSE
  /\ mem' = NoRun
  /\ Finish
  /\ faults' = faults + 1
  /\ UNCHANGED <<disk, reported, World>>

(* Other tools edit the source tree.                                       *)
EditArtifacts(p) ==
  /\ edits < MaxEdits
  /\ \E v \in (Version \cup {Missing}) \ {source[p]} : source' = [source EXCEPT ![p] = v]
  /\ edits' = edits + 1
  /\ UNCHANGED <<mem, disk, up, pc, work, results, bound, reported, faults>>

EditBinding ==
  /\ edits < MaxEdits
  /\ bound' = ~bound
  /\ edits' = edits + 1
  /\ UNCHANGED <<mem, disk, up, pc, work, results, source, reported, faults>>

(* An engineer puts an input right again.                                  *)
Repair ==
  /\ \/ /\ ~bound
        /\ bound' = TRUE
        /\ source' = source
     \/ \E p \in Package, v \in Sound :
          /\ source[p] \notin Sound
          /\ source' = [source EXCEPT ![p] = v]
          /\ bound' = bound
  /\ UNCHANGED <<mem, disk, up, pc, work, results, reported, faults, edits>>

Advance == \E a \in Approver, resume \in BOOLEAN : BeginAdvance(resume, a)

Next ==
  \/ Open \/ Compile \/ (\E a \in Approver : Approve(a))
  \/ Advance \/ Inspect \/ Dispatch \/ Record
  \/ Cancel \/ PersistOther \/ Crash
  \/ (\E p \in Package : EditArtifacts(p)) \/ EditBinding \/ Repair

Spec == Init /\ [][Next]_vars

(***************************************************************************)
(* The daemon is a loop that serves every request it takes up, somebody    *)
(* keeps asking for the next step, and broken inputs are put right.        *)
(***************************************************************************)
Fairness ==
  /\ WF_vars(Inspect) /\ WF_vars(Dispatch) /\ WF_vars(Record)
  /\ WF_vars(~up /\ Open) /\ WF_vars(Compile)
  /\ WF_vars(\E a \in Approver : Approve(a)) /\ WF_vars(Advance)
  /\ WF_vars(Repair)

FairSpec == Spec /\ Fairness

-----------------------------------------------------------------------------
(* A checkpoint and a run as the handlers build them.                      *)
CheckpointOK(p, c) ==
  c \in [status : CheckpointStatus, input : {c.input}, output : {c.output}, units : {0, Cost[p]}]

RunOK(run) ==
  /\ run \in [status : RunStatus \cup {"absent"}, approval : Approver \cup {None},
              cp : {run.cp}, consumed : 0..Budget, remaining : 0..Budget,
              rejected : SUBSET Package]
  /\ run.cp = [p \in Package |-> run.cp[p]]
  /\ \A p \in Package : CheckpointOK(p, run.cp[p])

(* Every variable holds a value of the shape the handlers give it; the     *)
(* unsigned budget counters never leave 0..Budget.                         *)
TypeOK ==
  /\ RunOK(mem) /\ RunOK(disk) /\ RunOK(work.run)
  /\ up \in BOOLEAN /\ bound \in BOOLEAN
  /\ DOMAIN work = {"run", "package", "input"}
  /\ pc \in {"idle", "inspect", "dispatch", "record"}
  /\ source \in [Package -> Version \cup {Missing}]
  /\ DOMAIN results = Package
  /\ reported \subseteq Package
  /\ faults \in 0..MaxFaults /\ edits \in 0..MaxEdits

(* project/open never refuses what the daemon itself stored: a crash, a    *)
(* failed write or a cancelled request leaves a run that passes            *)
(* validate_workflow_state.                                                *)
Reopenable == Exists(disk) => Valid(disk)

(* A caller that was told a package succeeded finds it succeeded, with the *)
(* same result on disk, after every crash, cancel, reopen and recompile.   *)
ReportedDurable ==
  \A p \in reported :
    /\ disk.cp[p].status = "succeeded"
    /\ disk.cp[p].output = results[p]

(* validate_engine_result_artifacts: workflow/read finds for every         *)
(* succeeded checkpoint, in memory or stored, the result.json it digests,  *)
(* although results are written before the checkpoint and rewritten when a *)
(* package is retried.                                                     *)
ResultsMatch ==
  \A run \in {mem, disk} : \A p \in Succeeded(run) : run.cp[p].output = results[p]

(* The three together: what state.json holds can be opened, is what callers*)
(* were told, and names the result files that are there.                   *)
StoreAgrees == Reopenable /\ ReportedDurable /\ ResultsMatch

(* The input digest of a finished package names the outputs that its       *)
(* dependencies have in the same run: no package is built on a result that *)
(* was replaced afterwards.                                                *)
Provenance ==
  \A run \in {mem, disk} : \A p \in Succeeded(run) : \A d \in Dep[p] :
    /\ run.cp[p].output.input = run.cp[p].input
    /\ run.cp[p].input.deps[d] = run.cp[d].output

(* An unfinished run has a package to work on: start and resume never      *)
(* persist a checkpoint that changes nothing.                              *)
NoStall ==
  mem.status \in {"approved", "running", "cancelled"} => Runnable(mem) # {}

(* The validation before the last persist of a request never fails: the    *)
(* work of a package that was validated is not thrown away.                *)
RecordAccepts == pc = "record" => Valid(work.run)

(* What the stored run shows of itself.                                    *)
Entries(run) == [p \in Package |-> run.cp[p].output]

Ledger == INSTANCE PackageLedger WITH
  approver <- disk.approval, entry <- Entries(disk), spent <- disk.consumed

(* The stored run implements the ledger: approvals frozen once work is     *)
(* done, packages finished in dependency order and charged exactly once.   *)
LedgerSpec == Ledger!Spec

(* Crashes, failed writes, edits and cancels that come to an end do not    *)
(* keep a compiled run from its end.                                       *)
PackagesComplete == Exists(disk) ~> disk.status \in Finished
=============================================================================
