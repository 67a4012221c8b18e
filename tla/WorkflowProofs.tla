--------------------------- MODULE WorkflowProofs ---------------------------
(***************************************************************************)
(* Invariants of the work-package workflow for every number of packages,   *)
(* dependency order, cost, budget and bound, and the proof that the stored *)
(* run implements PackageLedger.                                           *)
(*                                                                         *)
(* The argument.  What a request does to the durable record is small       *)
(* because memory is never far ahead of it: Lead(disk, mem) says that the  *)
(* run in memory records what the stored run records, except for at most   *)
(* one more finished package or an approval given before any package was   *)
(* finished.  A request can only start to run a package after a persist    *)
(* that brought both together, so a second package is never piled on an    *)
(* unsaved one.                                                            *)
(***************************************************************************)
EXTENDS Workflow, WellFoundedInduction, TLAPS

(* What may happen to a run between two persists of it.                    *)
Done(run) == {p \in Package : run.cp[p].output # None}

Kept(r1, r2) ==
  /\ Entries(r2) = Entries(r1)
  /\ r2.consumed = r1.consumed
  /\ r2.approval = r1.approval \/ (Done(r1) = {} /\ r2.approval \in Approver)

OneMore(r1, r2, p) ==
  /\ r1.approval # None /\ r2.approval = r1.approval
  /\ p \notin Done(r1) /\ Dep[p] \subseteq Done(r1)
  /\ r1.consumed + Cost[p] <= Budget
  /\ r2.consumed = r1.consumed + Cost[p]
  /\ r2.cp[p].output # None
  /\ Entries(r2) = [Entries(r1) EXCEPT ![p] = r2.cp[p].output]

Lead(r1, r2) == Kept(r1, r2) \/ \E p \in Package : OneMore(r1, r2, p)

(* Nothing is finished before the approval is settled.                     *)
Early(run) == run.status \in {"absent", "awaiting_approval", "approved"} => Succeeded(run) = {}

RunInv(run) == (run = NoRun \/ (Exists(run) /\ Valid(run))) /\ Early(run)

(* While a package is being run memory and disk agree, and the request     *)
(* works on a clone of that run.                                           *)
Picked(run, p) == p \in Runnable(run) /\ Affordable(run, p)

Serving ==
  /\ pc # "idle" => up /\ disk = mem /\ mem.status = "running" /\ Exists(mem)
  /\ pc \in {"inspect", "dispatch"} => work.run = mem
  /\ pc = "dispatch" => Picked(mem, work.package)
  /\ pc = "record" =>
       /\ work.run.status \in {"running"} \cup Finished
       /\ Valid(work.run) => Lead(mem, work.run)
       /\ \A p \in Succeeded(work.run) : work.run.cp[p].output = results[p]
       /\ Succeeded(mem) \subseteq Succeeded(work.run)

Told == reported \subseteq Succeeded(disk)

IInv ==
  /\ TypeOK
  /\ RunInv(mem) /\ RunInv(disk)
  /\ up => Lead(disk, mem)
  /\ Serving
  /\ ResultsMatch
  /\ Told

USE PackageOrder, BudgetPositive, Sentinels, Bounds DEF Package

-----------------------------------------------------------------------------
(* A nonempty set of packages has a first one.                             *)
Below == {ss \in Nat \X Nat : ss[1] < ss[2]}

LEMMA Least == ASSUME NEW S, S \subseteq Nat, S # {} PROVE \E p \in S : \A q \in S : p <= q
<1>1. IsWellFoundedOn(Below, Nat)
  BY NatLessThanWellFounded DEF OpToRel, Below
<1>2. PICK x \in S : \A y \in S : ~(<<y, x>> \in Below)
  BY <1>1, WFMin
<1>3. \A y \in S : ~(y < x)
  BY <1>2 DEF Below
<1> QED
  BY <1>3

LEMMA FirstMember == ASSUME NEW S, S \subseteq Package, S # {} PROVE First(S) \in S
<1>1. S \subseteq Nat
  OBVIOUS
<1>2. \E p \in S : \A q \in S : p <= q
  BY <1>1, Least
<1> QED
  BY <1>2 DEF First

(* In a valid run the finished packages are those with an output.          *)
LEMMA DoneSucceeded ==
  ASSUME NEW run, RunInv(run) PROVE Done(run) = Succeeded(run)
<1>1. CASE run = NoRun
  BY <1>1 DEF Done, Succeeded, NoRun, Compiled, Blocked
<1>2. CASE Valid(run)
  BY <1>2 DEF Valid, CheckpointsConsistent, Done, Succeeded
<1> QED
  BY <1>1, <1>2 DEF RunInv

LEMMA KeptRefl == ASSUME NEW run PROVE Kept(run, run)
  BY DEF Kept

LEMMA NoRunOK == RunOK(NoRun) /\ RunOK(Compiled) /\ RunInv(NoRun)
<1>1. RunOK(Compiled)
  BY DEF RunOK, Compiled, Blocked, CheckpointOK, RunStatus, CheckpointStatus
<1>2. RunOK(NoRun)
  BY <1>1 DEF RunOK, NoRun, Compiled, Blocked, CheckpointOK
<1>3. RunInv(NoRun)
  BY DEF RunInv, Early, Succeeded, NoRun, Compiled, Blocked
<1> QED
  BY <1>1, <1>2, <1>3

(* A run that shows the same work.                                         *)
SameWork(r1, r2) ==
  /\ Entries(r2) = Entries(r1) /\ Succeeded(r2) = Succeeded(r1)
  /\ r2.consumed = r1.consumed /\ r2.approval = r1.approval

LEMMA SameWorkLead ==
  ASSUME NEW d, NEW r1, NEW r2, Lead(d, r1), SameWork(r1, r2)
  PROVE  Lead(d, r2)
<1>1. CASE Kept(d, r1)
  BY <1>1 DEF Lead, Kept, SameWork
<1>2. ASSUME NEW p \in Package, OneMore(d, r1, p) PROVE OneMore(d, r2, p)
  <2>1. r2.cp[p].output = r1.cp[p].output
    <3>1. Entries(r1)[p] = r1.cp[p].output /\ Entries(r2)[p] = r2.cp[p].output
      BY DEF Entries
    <3> QED
      BY <3>1 DEF SameWork
  <2> QED
    BY <1>2, <2>1 DEF OneMore, SameWork
<1> QED
  BY <1>1, <1>2 DEF Lead

LEMMA SameCharge ==
  ASSUME NEW r1, NEW r2, \A p \in Package : r2.cp[p].units = r1.cp[p].units
  PROVE  Charged(r2) = Charged(r1)
BY DEF Charged

(* A run that leads another has at least the other's finished packages.    *)
LEMMA LeadMonotone ==
  ASSUME NEW d, NEW run, RunInv(d), RunInv(run), Lead(d, run)
  PROVE  Succeeded(d) \subseteq Succeeded(run)
<1>1. Done(d) \subseteq Done(run)
  <2>1. \A p \in Package : Entries(d)[p] = d.cp[p].output /\ Entries(run)[p] = run.cp[p].output
    BY DEF Entries
  <2>2. CASE Kept(d, run)
    BY <2>1, <2>2 DEF Kept, Done
  <2>3. CASE \E p \in Package : OneMore(d, run, p)
    <3>1. PICK p \in Package : OneMore(d, run, p)
      BY <2>3
    <3>2. \A q \in Package \ {p} : Entries(run)[q] = Entries(d)[q]
      BY <3>1 DEF OneMore, Entries
    <3> QED
      BY <2>1, <3>1, <3>2 DEF OneMore, Done
  <2> QED
    BY <2>2, <2>3 DEF Lead
<1> QED
  BY <1>1, DoneSucceeded

(***************************************************************************)
(* Every handler ends by storing some run in memory and perhaps on disk.   *)
(***************************************************************************)
MatchesResults(run) == \A p \in Succeeded(run) : run.cp[p].output = results[p]

LEMMA StoreKeeps ==
  ASSUME IInv, NEW run, RunInv(run), Lead(disk, run), MatchesResults(run),
         mem' = run, disk' = disk \/ disk' = run,
         results' = results,
         reported' = reported \/ (disk' = run /\ reported' = reported \cup Succeeded(run))
  PROVE  /\ RunInv(mem') /\ RunInv(disk')
         /\ Lead(disk', mem') /\ Lead(disk, disk')
         /\ ResultsMatch' /\ Told'
<1>1. RunInv(disk) /\ ResultsMatch /\ Told
  BY DEF IInv
<1>2. Succeeded(disk) \subseteq Succeeded(run)
  BY <1>1, LeadMonotone
<1>3. Lead(run, run) /\ Lead(disk, disk)
  BY DEF Lead, Kept
<1>4. Lead(disk', mem') /\ Lead(disk, disk')
  BY <1>3
<1>5. RunInv(mem') /\ RunInv(disk')
  BY <1>1
<1>6. ResultsMatch'
  BY <1>1 DEF ResultsMatch, MatchesResults, Succeeded
<1>7. Told'
  BY <1>1, <1>2 DEF Told, Succeeded
<1> QED
  BY <1>4, <1>5, <1>6, <1>7

-----------------------------------------------------------------------------
(* What each handler makes of a run.                                       *)
LEMMA ApprovedRun ==
  ASSUME NEW run, RunOK(run), RunInv(run), Exists(run), Approvable(run), NEW a \in Approver
  PROVE  /\ RunOK(Approved(run, a)) /\ Valid(Approved(run, a)) /\ RunInv(Approved(run, a))
         /\ \A d : Lead(d, run) => Lead(d, Approved(run, a))
         /\ Succeeded(Approved(run, a)) = {}
<1> DEFINE new == Approved(run, a)
<1>1. RunOK(new)
  BY DEF Approved, RunOK, RunStatus, CheckpointOK
<1>2. Valid(run) /\ Succeeded(run) = {}
  <2>1. run # NoRun
    BY DEF Exists, NoRun, Compiled
  <2> QED
    BY <2>1 DEF RunInv, Early, Approvable
<1>3. /\ new.cp = run.cp /\ new.consumed = run.consumed /\ new.remaining = run.remaining
      /\ new.rejected = run.rejected /\ new.approval = a /\ new.status = "approved"
  BY DEF Approved, RunOK
<1>4. Succeeded(new) = {}
  BY <1>2, <1>3 DEF Succeeded
<1>5. Valid(new)
  <2>1. Charged(new) = new.consumed
    <3>1. \A p \in Package : new.cp[p].units = run.cp[p].units
      BY <1>3
    <3> QED
      BY <3>1, <1>2, <1>3, SameCharge DEF Valid
  <2>2. BudgetBalanced(new) /\ CheckpointsConsistent(new)
    BY <1>2, <1>3 DEF Valid, BudgetBalanced, CheckpointsConsistent
  <2>3. DependenciesDone(new)
    BY <1>4 DEF DependenciesDone
  <2>4. LifecycleConsistent(new)
    BY <1>2, <1>3 DEF Valid, LifecycleConsistent
  <2> QED
    BY <2>1, <2>2, <2>3, <2>4 DEF Valid
<1>6. RunInv(new)
  BY <1>3, <1>4, <1>5 DEF RunInv, Exists, Early
<1>7. ASSUME NEW d, Lead(d, run) PROVE Lead(d, new)
  <2>1. Done(run) = {}
    BY <1>2, DoneSucceeded
  <2>2. Kept(d, run)
    BY <1>7, <2>1 DEF Lead, OneMore, Done
  <2>3. Entries(new) = Entries(run) /\ Entries(d) = Entries(run)
    BY <1>3, <2>2 DEF Entries, Kept
  <2>4. \A p \in Package : Entries(d)[p] = d.cp[p].output /\ Entries(run)[p] = run.cp[p].output
    BY DEF Entries
  <2>5. Done(d) = {}
    BY <2>1, <2>3, <2>4 DEF Done
  <2> QED
    BY <1>3, <2>2, <2>3, <2>5 DEF Lead, Kept
<1> QED
  BY <1>1, <1>4, <1>5, <1>6, <1>7

LEMMA CancelledRun ==
  ASSUME NEW run, RunOK(run), Valid(run), run.status \in {"approved", "running"}
  PROVE  /\ RunOK(Cancelled(run)) /\ Valid(Cancelled(run)) /\ RunInv(Cancelled(run))
         /\ SameWork(run, Cancelled(run))
         /\ \A p \in Package : Cancelled(run).cp[p].output = run.cp[p].output
<1> DEFINE new == Cancelled(run)
<1>1. /\ new.status = "cancelled" /\ new.approval = run.approval
      /\ new.consumed = run.consumed /\ new.remaining = run.remaining
      /\ new.rejected = run.rejected
      /\ DOMAIN new.cp = Package
  BY DEF Cancelled, RunOK
<1>2. \A p \in Package :
        /\ new.cp[p].units = run.cp[p].units
        /\ new.cp[p].input = run.cp[p].input
        /\ new.cp[p].output = run.cp[p].output
        /\ new.cp[p].status = IF run.cp[p].status \in {"succeeded", "rejected_over_budget"}
                              THEN run.cp[p].status ELSE "cancelled"
        /\ CheckpointOK(p, new.cp[p])
  <2> SUFFICES ASSUME NEW p \in Package
               PROVE  /\ new.cp[p].units = run.cp[p].units
                      /\ new.cp[p].input = run.cp[p].input
                      /\ new.cp[p].output = run.cp[p].output
                      /\ new.cp[p].status =
                           IF run.cp[p].status \in {"succeeded", "rejected_over_budget"}
                           THEN run.cp[p].status ELSE "cancelled"
                      /\ CheckpointOK(p, new.cp[p])
    OBVIOUS
  <2>1. CheckpointOK(p, run.cp[p])
    BY DEF RunOK
  <2>2. new.cp[p] = IF run.cp[p].status \in {"succeeded", "rejected_over_budget"} THEN run.cp[p]
                    ELSE [run.cp[p] EXCEPT !.status = "cancelled"]
    BY DEF Cancelled, RunOK
  <2> QED
    BY <2>1, <2>2 DEF CheckpointOK, CheckpointStatus
<1>3. RunOK(new)
  <2>1. new.cp = [p \in Package |-> new.cp[p]]
    BY DEF Cancelled, RunOK
  <2>2. new \in [status : RunStatus \cup {"absent"}, approval : Approver \cup {None},
                 cp : {new.cp}, consumed : 0..Budget, remaining : 0..Budget,
                 rejected : SUBSET Package]
    BY DEF Cancelled, RunOK, RunStatus
  <2> QED
    BY <1>2, <2>1, <2>2 DEF RunOK
<1>4. Succeeded(new) = Succeeded(run)
  BY <1>2 DEF Succeeded
<1>5. Charged(new) = new.consumed
  BY <1>1, <1>2, SameCharge DEF Valid
<1>6. BudgetBalanced(new) /\ CheckpointsConsistent(new)
  <2>1. BudgetBalanced(new)
    BY <1>1 DEF Valid, BudgetBalanced
  <2>2. ASSUME NEW p \in Package
        PROVE  LET c == new.cp[p]
               IN  IF c.status = "succeeded"
                   THEN c.units = Cost[p] /\ c.input # None /\ c.output # None
                   ELSE c.units = 0 /\ c.output = None
    BY <1>2 DEF Valid, CheckpointsConsistent
  <2> QED
    BY <2>1, <2>2 DEF CheckpointsConsistent
<1>7. DependenciesDone(new)
  BY <1>4 DEF Valid, DependenciesDone
<1>8. LifecycleConsistent(new)
  <2>1. \A p \in new.rejected : p \in Package
    BY <1>1 DEF RunOK
  <2> QED
    BY <1>1, <1>2, <2>1 DEF Valid, LifecycleConsistent
<1>9. Valid(new)
  BY <1>5, <1>6, <1>7, <1>8 DEF Valid
<1>10. RunInv(new)
  BY <1>1, <1>9 DEF RunInv, Exists, Early
<1>11. SameWork(run, new)
  BY <1>1, <1>2, <1>4 DEF SameWork, Entries
<1> QED
  BY <1>2, <1>3, <1>9, <1>10, <1>11

(* The run that start or resume takes up.                                  *)
LEMMA StartedRun ==
  ASSUME NEW old, RunOK(old), NEW resume \in BOOLEAN, NEW run, run = Started(old, resume)
  PROVE  /\ RunOK(run) /\ run.status = "running" /\ SameWork(old, run)
         /\ \A p \in Package : run.cp[p].output = old.cp[p].output
<1>1. /\ run.status = "running" /\ run.approval = old.approval
      /\ run.consumed = old.consumed /\ run.remaining = old.remaining
      /\ run.rejected = old.rejected
  BY DEF Started, Unblocked, RunOK
<1>2. \A p \in Package :
        /\ run.cp[p].units = old.cp[p].units
        /\ run.cp[p].output = old.cp[p].output
        /\ run.cp[p].status = "succeeded" <=> old.cp[p].status = "succeeded"
        /\ CheckpointOK(p, run.cp[p])
  <2> SUFFICES ASSUME NEW p \in Package
               PROVE  /\ run.cp[p].units = old.cp[p].units
                      /\ run.cp[p].output = old.cp[p].output
                      /\ run.cp[p].status = "succeeded" <=> old.cp[p].status = "succeeded"
                      /\ CheckpointOK(p, run.cp[p])
    OBVIOUS
  <2>1. CheckpointOK(p, old.cp[p])
    BY DEF RunOK
  <2>2. run.cp[p] = old.cp[p] \/
          (run.cp[p] = [old.cp[p] EXCEPT !.status = "blocked"] /\ old.cp[p].status = "cancelled")
    BY DEF Started, Unblocked, RunOK
  <2> QED
    BY <2>1, <2>2 DEF CheckpointOK, CheckpointStatus
<1>3. RunOK(run)
  <2>1. run.cp = [p \in Package |-> run.cp[p]]
    BY DEF Started, Unblocked, RunOK
  <2>2. run \in [status : RunStatus \cup {"absent"}, approval : Approver \cup {None},
                 cp : {run.cp}, consumed : 0..Budget, remaining : 0..Budget,
                 rejected : SUBSET Package]
    BY DEF Started, Unblocked, RunOK, RunStatus
  <2> QED
    BY <1>2, <2>1, <2>2 DEF RunOK
<1>4. Succeeded(run) = Succeeded(old) /\ Entries(run) = Entries(old)
  BY <1>2 DEF Succeeded, Entries
<1> QED
  BY <1>1, <1>2, <1>3, <1>4 DEF SameWork

(* A charge leaves a run that leads the one it started from by the package *)
(* that was charged.                                                       *)
LEMMA ChargedRun ==
  ASSUME NEW run, RunOK(run), RunInv(run), run.status = "running",
         NEW p, Picked(run, p), NEW input, NEW output, NEW new,
         new = Charge(run, p, input, output)
  PROVE  /\ RunOK(new) /\ new.status \in {"running", "succeeded"}
         /\ Succeeded(new) = Succeeded(run) \cup {p}
         /\ new.cp[p].output = output
         /\ \A q \in Package \ {p} : new.cp[q] = run.cp[q]
         /\ Valid(new) => Lead(run, new)
<1>0. p \in Package /\ p \notin Succeeded(run) /\ Dep[p] \subseteq Succeeded(run)
  BY DEF Picked, Runnable, Succeeded
<1>1. Valid(run) /\ run.approval # None
  <2>1. Valid(run)
    BY DEF RunInv, NoRun, Compiled, Exists
  <2> QED
    BY <2>1 DEF Valid, LifecycleConsistent
<1>2. /\ new.approval = run.approval /\ new.rejected = run.rejected
      /\ new.consumed = run.consumed + Cost[p]
      /\ new.remaining = run.remaining - Cost[p]
      /\ new.status \in {"running", "succeeded"}
  BY <1>0 DEF Charge, RunOK
<1>3. new.cp = [run.cp EXCEPT ![p] = [status |-> "succeeded", input |-> input,
                                      output |-> output, units |-> Cost[p]]]
  BY DEF Charge, RunOK
<1>4. /\ new.cp[p] = [status |-> "succeeded", input |-> input, output |-> output,
                      units |-> Cost[p]]
      /\ \A q \in Package \ {p} : new.cp[q] = run.cp[q]
      /\ new.cp = [q \in Package |-> new.cp[q]]
  BY <1>0, <1>3 DEF RunOK
<1>5. new.consumed \in 0..Budget /\ new.remaining \in 0..Budget
      /\ run.consumed + Cost[p] <= Budget
  <2>1. run.consumed + run.remaining = Budget /\ Cost[p] <= run.remaining /\ Cost[p] \in Nat
    BY <1>0, <1>1 DEF Valid, BudgetBalanced, Picked, Affordable
  <2>2. run.consumed \in 0..Budget /\ run.remaining \in 0..Budget
    BY DEF RunOK
  <2> QED
    BY <1>2, <2>1, <2>2
<1>6. RunOK(new)
  <2>1. \A q \in Package : CheckpointOK(q, new.cp[q])
    BY <1>0, <1>4 DEF RunOK, CheckpointOK, CheckpointStatus
  <2>2. new \in [status : RunStatus \cup {"absent"}, approval : Approver \cup {None},
                 cp : {new.cp}, consumed : 0..Budget, remaining : 0..Budget,
                 rejected : SUBSET Package]
    BY <1>0, <1>2, <1>5 DEF Charge, RunOK, RunStatus
  <2> QED
    BY <1>4, <2>1, <2>2 DEF RunOK
<1>7. Succeeded(new) = Succeeded(run) \cup {p}
  BY <1>0, <1>4 DEF Succeeded
<1>8. ASSUME Valid(new) PROVE OneMore(run, new, p)
  <2>1. Done(run) = Succeeded(run)
    BY DoneSucceeded
  <2>2. new.cp[p].output # None
    BY <1>0, <1>4, <1>8 DEF Valid, CheckpointsConsistent
  <2>3. Entries(new) = [Entries(run) EXCEPT ![p] = new.cp[p].output]
    BY <1>0, <1>4 DEF Entries
  <2> QED
    BY <1>0, <1>1, <1>2, <1>5, <2>1, <2>2, <2>3 DEF OneMore
<1> QED
  BY <1>0, <1>2, <1>4, <1>6, <1>7, <1>8 DEF Lead

LEMMA OverBudgetRun ==
  ASSUME NEW run, RunOK(run), NEW p \in Runnable(run), NEW input, NEW new,
         new = OverBudget(run, p, input)
  PROVE  RunOK(new) /\ new.status = "budget_exhausted" /\ SameWork(run, new)
         /\ \A q \in Package : new.cp[q].output = run.cp[q].output
<1>0. p \in Package /\ run.cp[p].status # "succeeded"
  BY DEF Runnable
<1>1. /\ new.status = "budget_exhausted" /\ new.approval = run.approval
      /\ new.consumed = run.consumed /\ new.remaining = run.remaining
      /\ new.rejected = run.rejected \cup {p}
  BY <1>0 DEF OverBudget, RunOK
<1>2. \A q \in Package :
        /\ new.cp[q].output = run.cp[q].output
        /\ new.cp[q].status = "succeeded" <=> run.cp[q].status = "succeeded"
        /\ CheckpointOK(q, new.cp[q])
  <2> SUFFICES ASSUME NEW q \in Package
               PROVE  /\ new.cp[q].output = run.cp[q].output
                      /\ new.cp[q].status = "succeeded" <=> run.cp[q].status = "succeeded"
                      /\ CheckpointOK(q, new.cp[q])
    OBVIOUS
  <2>1. CheckpointOK(q, run.cp[q])
    BY DEF RunOK
  <2>2. \/ new.cp[q] = run.cp[q]
        \/ /\ q = p
           /\ new.cp[q] = [run.cp[q] EXCEPT !.status = "rejected_over_budget", !.input = input]
    <3>1. new.cp[q] = IF q = p
                      THEN [run.cp[q] EXCEPT !.status = "rejected_over_budget", !.input = input]
                      ELSE run.cp[q]
      BY <1>0, <2>1 DEF OverBudget, RunOK, CheckpointOK
    <3> QED
      BY <3>1
  <2>3. CASE new.cp[q] = run.cp[q]
    BY <2>1, <2>3
  <2>4. CASE q = p /\ new.cp[q] # run.cp[q]
    <3>1. new.cp[q] = [status |-> "rejected_over_budget", input |-> input,
                       output |-> run.cp[q].output, units |-> run.cp[q].units]
      BY <2>1, <2>2, <2>4 DEF CheckpointOK
    <3>2. run.cp[q].units \in {0, Cost[q]}
      BY <2>1 DEF CheckpointOK
    <3> QED
      BY <1>0, <2>4, <3>1, <3>2 DEF CheckpointOK, CheckpointStatus
  <2> QED
    BY <2>2, <2>3, <2>4
<1>3. RunOK(new)
  <2>1. new.cp = [q \in Package |-> new.cp[q]]
    BY <1>0 DEF OverBudget, RunOK
  <2>2. new \in [status : RunStatus \cup {"absent"}, approval : Approver \cup {None},
                 cp : {new.cp}, consumed : 0..Budget, remaining : 0..Budget,
                 rejected : SUBSET Package]
    BY <1>0 DEF OverBudget, RunOK, RunStatus
  <2> QED
    BY <1>2, <2>1, <2>2 DEF RunOK
<1>4. Succeeded(new) = Succeeded(run) /\ Entries(new) = Entries(run)
  BY <1>2 DEF Succeeded, Entries
<1> QED
  BY <1>1, <1>2, <1>3, <1>4 DEF SameWork

-----------------------------------------------------------------------------
(* Inductiveness, one lemma per action.  Each also shows the step that the *)
(* stored run takes.                                                       *)
Preserved == IInv' /\ Lead(disk, disk')

(* The store of a handler that runs no package.                            *)
LEMMA IdleStore ==
  ASSUME IInv, Idle, up, NEW run, RunOK(run), RunInv(run), Lead(disk, run),
         MatchesResults(run), mem' = run, disk' = disk \/ disk' = run,
         faults' \in 0..MaxFaults,
         UNCHANGED <<up, pc, work, reported, World>>
  PROVE  Preserved
<1>1. /\ RunInv(mem') /\ RunInv(disk') /\ Lead(disk', mem') /\ Lead(disk, disk')
      /\ ResultsMatch' /\ Told'
  BY StoreKeeps DEF World
<1>2. TypeOK'
  BY DEF IInv, TypeOK, World
<1>3. Serving'
  BY DEF Serving, Idle
<1> QED
  BY <1>1, <1>2, <1>3 DEF Preserved, IInv

LEMMA PersistOutcome ==
  ASSUME TypeOK, NEW run, NEW outcome \in Outcome, Persist(run, outcome)
  PROVE  (disk' = disk \/ disk' = run) /\ faults' \in 0..MaxFaults
BY DEF Persist, TypeOK

LEMMA IInvFacts ==
  ASSUME IInv
  PROVE  /\ RunOK(mem) /\ RunOK(disk) /\ RunOK(work.run)
         /\ RunInv(mem) /\ RunInv(disk) /\ TypeOK
         /\ MatchesResults(mem) /\ MatchesResults(disk)
         /\ up => Lead(disk, mem)
BY DEF IInv, TypeOK, ResultsMatch, MatchesResults

LEMMA ServingRun ==  \* a run that exists is not the sentinel
  ASSUME NEW run, RunInv(run), Exists(run) PROVE Valid(run)
BY DEF RunInv, Exists, NoRun, Compiled

LEMMA NoWorkOK == DOMAIN NoWork = {"run", "package", "input"} /\ NoWork.run = NoRun
BY DEF NoWork

LEMMA InitHolds == ASSUME Init PROVE IInv
<1>1. TypeOK
  <2>1. source \in [Package -> Version \cup {Missing}]
    BY DEF Init
  <2>2. work.run = NoRun /\ DOMAIN work = {"run", "package", "input"}
    BY NoWorkOK DEF Init
  <2>3. RunOK(mem) /\ RunOK(disk) /\ RunOK(work.run)
    BY <2>2, NoRunOK DEF Init
  <2>4. up \in BOOLEAN /\ bound \in BOOLEAN
    BY DEF Init
  <2>5. DOMAIN results = Package /\ faults \in 0..MaxFaults /\ edits \in 0..MaxEdits
    BY DEF Init
  <2> QED
    BY <2>1, <2>2, <2>3, <2>4, <2>5 DEF Init, TypeOK
<1>2. Succeeded(NoRun) = {}
  BY DEF Succeeded, NoRun, Compiled, Blocked
<1> QED
  BY <1>1, <1>2, NoRunOK DEF Init, IInv, Serving, ResultsMatch, Told

LEMMA OpenStep == ASSUME IInv, Open PROVE Preserved
<1>1. PICK outcome \in Outcome : Store(disk, outcome)
  BY DEF Open
<1>2. mem' = disk /\ disk' = disk /\ faults' \in 0..MaxFaults
  BY <1>1, IInvFacts, PersistOutcome DEF Store
<1>3. Lead(disk, disk)
  BY DEF Lead, Kept
<1>4. TypeOK' /\ Serving'
  BY <1>2, IInvFacts DEF Open, TypeOK, World, Serving, Idle
<1>5. /\ RunInv(mem') /\ RunInv(disk') /\ Lead(disk', mem') /\ Lead(disk, disk')
      /\ ResultsMatch' /\ Told'
  BY <1>2, <1>3, IInvFacts, StoreKeeps DEF Open, World
<1> QED
  BY <1>4, <1>5 DEF Preserved, IInv

LEMMA CompileStep == ASSUME IInv, Compile PROVE Preserved
<1> DEFINE run == Recompiled(mem)
<1>1. PICK outcome \in Outcome : Store(run, outcome)
  BY DEF Compile
<1>2. mem' = run /\ (disk' = disk \/ disk' = run) /\ faults' \in 0..MaxFaults
  BY <1>1, IInvFacts, PersistOutcome DEF Store
<1>3. /\ RunOK(run) /\ RunInv(run) /\ Lead(disk, run) /\ MatchesResults(run)
  <2>1. CASE Exists(mem)
    BY <2>1, IInvFacts DEF Recompiled, Compile
  <2>2. CASE ~Exists(mem)
    <3>1. mem = NoRun /\ run = Compiled
      BY <2>2, IInvFacts DEF Recompiled, RunInv
    <3>2. SameWork(NoRun, Compiled) /\ Succeeded(Compiled) = {}
      BY DEF SameWork, Entries, Succeeded, NoRun, Compiled, Blocked
    <3>3. Lead(disk, Compiled)
      BY <3>1, <3>2, IInvFacts, SameWorkLead DEF Compile
    <3>4. RunInv(Compiled)
      BY <3>1, <3>2 DEF Compile, RunInv, Exists, Compiled, Early
    <3> QED
      BY <3>1, <3>2, <3>3, <3>4, NoRunOK DEF MatchesResults
  <2> QED
    BY <2>1, <2>2
<1> QED
  BY <1>2, <1>3, IdleStore DEF Compile

LEMMA ApproveStep == ASSUME IInv, NEW a \in Approver, Approve(a) PROVE Preserved
<1> DEFINE run == Approved(mem, a)
<1>1. /\ RunOK(run) /\ Valid(run) /\ RunInv(run) /\ Lead(disk, run) /\ Succeeded(run) = {}
  BY IInvFacts, ApprovedRun DEF Approve, WorkflowInputs
<1>2. PICK outcome \in Outcome : Store(run, outcome)
  BY <1>1 DEF Approve, StoreInPlace
<1>3. mem' = run /\ (disk' = disk \/ disk' = run) /\ faults' \in 0..MaxFaults
  BY <1>2, IInvFacts, PersistOutcome DEF Store
<1> QED
  BY <1>1, <1>3, IdleStore DEF Approve, WorkflowInputs, MatchesResults

LEMMA CancelStep == ASSUME IInv, Cancel PROVE Preserved
<1> DEFINE run == Cancelled(mem)
<1>1. Valid(mem)
  BY IInvFacts, ServingRun DEF Cancel, WorkflowInputs
<1>2. /\ RunOK(run) /\ Valid(run) /\ RunInv(run) /\ SameWork(mem, run)
      /\ \A p \in Package : run.cp[p].output = mem.cp[p].output
  BY <1>1, IInvFacts, CancelledRun DEF Cancel
<1>3. PICK outcome \in Outcome : Store(run, outcome)
  BY <1>2 DEF Cancel, StoreInPlace
<1>4. mem' = run /\ (disk' = disk \/ disk' = run) /\ faults' \in 0..MaxFaults
  BY <1>3, IInvFacts, PersistOutcome DEF Store
<1>5. Lead(disk, run)
  BY <1>2, IInvFacts, SameWorkLead DEF Cancel, WorkflowInputs
<1>6. MatchesResults(run)
  BY <1>2, IInvFacts DEF MatchesResults, SameWork, Succeeded
<1> QED
  BY <1>2, <1>4, <1>5, <1>6, IdleStore DEF Cancel, WorkflowInputs

LEMMA PersistOtherStep == ASSUME IInv, PersistOther PROVE Preserved
<1>1. PICK outcome \in Outcome : Persist(mem, outcome)
  BY DEF PersistOther
<1>2. (disk' = disk \/ disk' = mem) /\ faults' \in 0..MaxFaults
  BY <1>1, IInvFacts, PersistOutcome
<1> QED
  BY <1>2, IInvFacts, IdleStore DEF PersistOther

LEMMA CrashStep == ASSUME IInv, Crash PROVE Preserved
<1>1. Lead(disk, disk) /\ disk' = disk /\ mem' = NoRun /\ ~up' /\ pc' = "idle"
  BY DEF Lead, Kept, Crash, Finish
<1>2. TypeOK'
  <2>1. work'.run = NoRun /\ DOMAIN work' = {"run", "package", "input"}
    BY NoWorkOK DEF Crash, Finish
  <2>2. RunOK(mem') /\ RunOK(work'.run)
    BY <1>1, <2>1, NoRunOK
  <2>3. faults' \in 0..MaxFaults
    BY DEF IInv, TypeOK, Crash
  <2> QED
    BY <1>1, <2>1, <2>2, <2>3 DEF IInv, TypeOK, Crash, World
<1>3. Succeeded(NoRun) = {}
  BY DEF Succeeded, NoRun, Compiled, Blocked
<1>4. ResultsMatch' /\ Told' /\ Serving'
  BY <1>1, <1>3 DEF IInv, ResultsMatch, Told, Serving, Crash, World
<1> QED
  BY <1>1, <1>2, <1>4, NoRunOK DEF Preserved, IInv

LEMMA BeginAdvanceStep ==
  ASSUME IInv, NEW resume \in BOOLEAN, NEW a \in Approver, BeginAdvance(resume, a)
  PROVE  Preserved
<1> DEFINE run == Started(mem, resume)
<1>1. Valid(run) /\ Idle /\ up
  BY DEF BeginAdvance, WorkflowInputs
<1>2. PICK outcome \in Outcome :
        /\ Store(run, outcome)
        /\ IF outcome = "ok" THEN pc' = "inspect" /\ work' = [NoWork EXCEPT !.run = run]
           ELSE UNCHANGED <<pc, work>>
  BY DEF BeginAdvance
<1>3. /\ RunOK(run) /\ run.status = "running" /\ SameWork(mem, run)
      /\ \A p \in Package : run.cp[p].output = mem.cp[p].output
  BY IInvFacts, StartedRun
<1>4. RunInv(run)
  BY <1>1, <1>3 DEF RunInv, Exists, Early
<1>5. Lead(disk, run)
  BY <1>1, <1>3, IInvFacts, SameWorkLead
<1>6. MatchesResults(run)
  BY <1>3, IInvFacts DEF MatchesResults, SameWork, Succeeded
<1>7. mem' = run /\ (disk' = disk \/ disk' = run) /\ faults' \in 0..MaxFaults
  BY <1>2, IInvFacts, PersistOutcome DEF Store
<1>8. UNCHANGED <<up, reported, World>>
  BY DEF BeginAdvance
<1>9. CASE outcome # "ok"
  BY <1>1, <1>2, <1>3, <1>4, <1>5, <1>6, <1>7, <1>8, <1>9, IdleStore
<1>10. CASE outcome = "ok"
  <2>1. /\ pc' = "inspect" /\ disk' = run
        /\ work'.run = run /\ DOMAIN work' = {"run", "package", "input"}
    BY <1>2, <1>10, NoWorkOK DEF Store, Persist
  <2>2. TypeOK'
    BY <1>3, <1>7, <1>8, <2>1 DEF IInv, TypeOK, World
  <2>3. Serving'
    BY <1>1, <1>3, <1>7, <1>8, <2>1 DEF Serving, Exists
  <2>4. /\ RunInv(mem') /\ RunInv(disk') /\ Lead(disk', mem') /\ Lead(disk, disk')
        /\ ResultsMatch' /\ Told'
    BY <1>4, <1>5, <1>6, <1>7, <1>8, StoreKeeps DEF World
  <2> QED
    BY <2>2, <2>3, <2>4 DEF Preserved, IInv
<1> QED
  BY <1>9, <1>10

(* While a package runs nothing is stored.                                 *)
LEMMA NothingStored ==
  ASSUME IInv, UNCHANGED <<mem, disk, up, reported>>,
         \A p \in Succeeded(mem) \cup Succeeded(disk) : results'[p] = results[p]
  PROVE  /\ RunInv(mem') /\ RunInv(disk') /\ (up' => Lead(disk', mem'))
         /\ Lead(disk, disk') /\ ResultsMatch' /\ Told'
<1>1. Lead(disk, disk)
  BY DEF Lead, Kept
<1> QED
  BY <1>1 DEF IInv, ResultsMatch, Told, Succeeded

LEMMA InspectStep == ASSUME IInv, Inspect PROVE Preserved
<1> DEFINE run == work.run
           p == First(Runnable(run))
           input == InputDigest(run, p, source[p])
<1>1. pc = "inspect" /\ run = mem /\ up /\ disk = mem /\ mem.status = "running" /\ Exists(mem)
  BY DEF Inspect, IInv, Serving
<1>2. UNCHANGED <<mem, disk, up, reported, faults, results, source, bound, edits>>
  BY DEF Inspect, World
<1>3. /\ RunInv(mem') /\ RunInv(disk') /\ (up' => Lead(disk', mem'))
      /\ Lead(disk, disk') /\ ResultsMatch' /\ Told'
  BY <1>2, NothingStored
<1>4. /\ RunOK(work.run') /\ DOMAIN work' = {"run", "package", "input"}
      /\ pc' \in {"idle", "inspect", "dispatch", "record"} /\ Serving'
  <2>1. CASE Runnable(run) = {}
    <3>1. pc' = "record" /\ work' = work
      BY <2>1 DEF Inspect
    <3>2. Lead(mem, mem)
      BY DEF Lead, Kept
    <3> QED
      BY <1>1, <1>2, <3>1, <3>2, IInvFacts DEF TypeOK, Serving, MatchesResults
  <2>2. CASE Runnable(run) # {} /\ source[p] = Missing
    <3>1. pc' = "idle" /\ work' = NoWork
      BY <2>2 DEF Inspect, Finish
    <3> QED
      BY <3>1, NoRunOK, NoWorkOK DEF Serving
  <2>3. CASE Runnable(run) # {} /\ source[p] # Missing /\ Affordable(run, p)
    <3>1. pc' = "dispatch" /\ work' = [run |-> run, package |-> p, input |-> input]
      BY <2>3 DEF Inspect
    <3>2. p \in Runnable(run)
      BY <2>3, FirstMember DEF Runnable
    <3> QED
      BY <1>1, <1>2, <2>3, <3>1, <3>2, IInvFacts DEF Serving, Picked
  <2>4. CASE Runnable(run) # {} /\ source[p] # Missing /\ ~Affordable(run, p)
    <3> DEFINE new == OverBudget(run, p, input)
    <3>1. pc' = "record" /\ work' = [run |-> new, package |-> p, input |-> input]
      BY <2>4 DEF Inspect
    <3>2. p \in Runnable(run)
      BY <2>4, FirstMember DEF Runnable
    <3>3. /\ RunOK(new) /\ new.status = "budget_exhausted" /\ SameWork(run, new)
          /\ \A q \in Package : new.cp[q].output = run.cp[q].output
      BY <1>1, <3>2, IInvFacts, OverBudgetRun
    <3>4. Lead(mem, new)
      <4>1. Lead(mem, mem)
        BY DEF Lead, Kept
      <4> QED
        BY <1>1, <3>3, <4>1, SameWorkLead
    <3>5. \A q \in Succeeded(new) : new.cp[q].output = results[q]
      BY <1>1, <3>3, IInvFacts DEF MatchesResults, SameWork, Succeeded
    <3> QED
      BY <1>1, <1>2, <3>1, <3>3, <3>4, <3>5 DEF Serving, SameWork, Finished
  <2> QED
    BY <2>1, <2>2, <2>3, <2>4
<1>5. TypeOK'
  BY <1>2, <1>4 DEF IInv, TypeOK
<1> QED
  BY <1>3, <1>4, <1>5 DEF Preserved, IInv

LEMMA DispatchStep == ASSUME IInv, Dispatch PROVE Preserved
<1> DEFINE p == work.package
           output == EngineResult(work.input, source[p])
           new == Charge(work.run, p, work.input, output)
<1>1. /\ pc = "dispatch" /\ work.run = mem /\ up /\ disk = mem /\ mem.status = "running"
      /\ Exists(mem) /\ Picked(mem, p)
  BY DEF Dispatch, IInv, Serving
<1>2. UNCHANGED <<mem, disk, up, source, bound, reported, edits>>
  BY DEF Dispatch
<1>3. CASE /\ results' = [results EXCEPT ![p] = output]
           /\ pc' = "record"
           /\ work' = [work EXCEPT !.run = new]
           /\ faults' = faults
  <2>1. p \in Package /\ p \notin Succeeded(mem)
    BY <1>1 DEF Picked, Runnable, Succeeded
  <2>2. /\ RunOK(new) /\ new.status \in {"running", "succeeded"}
        /\ Succeeded(new) = Succeeded(mem) \cup {p}
        /\ new.cp[p].output = output
        /\ \A q \in Package \ {p} : new.cp[q] = mem.cp[q]
        /\ Valid(new) => Lead(mem, new)
    BY <1>1, IInvFacts, ChargedRun
  <2>3. /\ DOMAIN results' = Package /\ results'[p] = output
        /\ \A q \in Package \ {p} : results'[q] = results[q]
    BY <1>3, <2>1 DEF IInv, TypeOK
  <2>4. \A q \in Succeeded(mem) \cup Succeeded(disk) : results'[q] = results[q]
    BY <1>1, <2>1, <2>3 DEF Succeeded
  <2>5. /\ RunInv(mem') /\ RunInv(disk') /\ (up' => Lead(disk', mem'))
        /\ Lead(disk, disk') /\ ResultsMatch' /\ Told'
    BY <1>2, <2>4, NothingStored
  <2>6. work'.run = new
    BY <1>1, <1>3, <2>2 DEF IInv, TypeOK, Serving
  <2>7. TypeOK'
    BY <1>2, <1>3, <2>2, <2>3, <2>6 DEF IInv, TypeOK
  <2>8. \A q \in Succeeded(new) : new.cp[q].output = results'[q]
    BY <2>1, <2>2, <2>3, IInvFacts DEF MatchesResults, Succeeded
  <2>9. Serving'
    BY <1>1, <1>2, <1>3, <2>2, <2>6, <2>8 DEF Serving, Finished
  <2> QED
    BY <2>5, <2>7, <2>9 DEF Preserved, IInv
<1>4. CASE Finish /\ results' = results /\ faults' \in 0..MaxFaults
  <2>1. /\ RunInv(mem') /\ RunInv(disk') /\ (up' => Lead(disk', mem'))
        /\ Lead(disk, disk') /\ ResultsMatch' /\ Told'
    BY <1>2, <1>4, NothingStored
  <2>2. pc' = "idle" /\ work'.run = NoRun /\ DOMAIN work' = {"run", "package", "input"}
    BY <1>4, NoWorkOK DEF Finish
  <2>3. TypeOK' /\ Serving'
    BY <1>2, <1>4, <2>2, NoRunOK DEF IInv, TypeOK, Serving
  <2> QED
    BY <2>1, <2>3 DEF Preserved, IInv
<1>5. faults \in 0..MaxFaults
  BY DEF IInv, TypeOK
<1> QED
  BY <1>3, <1>4, <1>5 DEF Dispatch

LEMMA RecordStep == ASSUME IInv, Record PROVE Preserved
<1> DEFINE run == work.run
<1>1. /\ pc = "record" /\ up /\ disk = mem
      /\ run.status \in {"running"} \cup Finished
      /\ Valid(run) => Lead(mem, run)
      /\ MatchesResults(run)
  BY DEF Record, IInv, Serving, MatchesResults
<1>2. /\ pc' = "idle" /\ work'.run = NoRun /\ DOMAIN work' = {"run", "package", "input"}
      /\ UNCHANGED <<up, results, source, bound, edits>>
  BY NoWorkOK DEF Record, Finish, World
<1>3. Serving'
  BY <1>2 DEF Serving
<1>4. CASE Valid(run)
  <2>1. PICK outcome \in Outcome :
          /\ Store(run, outcome)
          /\ reported' = IF outcome = "ok" THEN reported \cup Succeeded(run) ELSE reported
    BY <1>4 DEF Record
  <2>2. mem' = run /\ (disk' = disk \/ disk' = run) /\ faults' \in 0..MaxFaults
    BY <2>1, IInvFacts, PersistOutcome DEF Store
  <2>3. reported' = reported \/ (disk' = run /\ reported' = reported \cup Succeeded(run))
    BY <2>1 DEF Store, Persist
  <2>4. RunInv(run)
    BY <1>1, <1>4 DEF RunInv, Exists, Early, Finished
  <2>5. /\ RunInv(mem') /\ RunInv(disk') /\ Lead(disk', mem') /\ Lead(disk, disk')
        /\ ResultsMatch' /\ Told'
    BY <1>1, <1>2, <1>4, <2>2, <2>3, <2>4, StoreKeeps
  <2>6. reported' \subseteq Package
    BY <2>3 DEF IInv, TypeOK, Succeeded
  <2>7. TypeOK'
    BY <1>2, <2>2, <2>6, NoRunOK DEF IInv, TypeOK
  <2> QED
    BY <1>3, <2>5, <2>7 DEF Preserved, IInv
<1>5. CASE ~Valid(run)
  <2>1. UNCHANGED <<mem, disk, reported, faults>>
    BY <1>5 DEF Record
  <2>2. /\ RunInv(mem') /\ RunInv(disk') /\ (up' => Lead(disk', mem'))
        /\ Lead(disk, disk') /\ ResultsMatch' /\ Told'
    BY <1>2, <2>1, NothingStored
  <2>3. TypeOK'
    BY <1>2, <2>1, NoRunOK DEF IInv, TypeOK
  <2> QED
    BY <1>3, <2>2, <2>3 DEF Preserved, IInv
<1> QED
  BY <1>4, <1>5

(* The world changes nothing that the daemon holds.                        *)
LEMMA WorldStep ==
  ASSUME IInv, UNCHANGED <<mem, disk, up, pc, work, results, reported, faults>>,
         source' \in [Package -> Version \cup {Missing}], bound' \in BOOLEAN,
         edits' \in 0..MaxEdits
  PROVE  Preserved
<1>1. /\ RunInv(mem') /\ RunInv(disk') /\ (up' => Lead(disk', mem'))
      /\ Lead(disk, disk') /\ ResultsMatch' /\ Told'
  BY NothingStored
<1>2. TypeOK' /\ Serving'
  BY DEF IInv, TypeOK, Serving
<1> QED
  BY <1>1, <1>2 DEF Preserved, IInv

LEMMA EditStep ==
  ASSUME IInv, (\E p \in Package : EditArtifacts(p)) \/ EditBinding \/ Repair
  PROVE  Preserved
<1>1. ASSUME NEW p \in Package, EditArtifacts(p) PROVE Preserved
  BY <1>1, WorldStep DEF EditArtifacts, IInv, TypeOK
<1>2. CASE EditBinding
  BY <1>2, WorldStep DEF EditBinding, IInv, TypeOK
<1>3. CASE Repair
  BY <1>3, WorldStep DEF Repair, IInv, TypeOK
<1> QED
  BY <1>1, <1>2, <1>3

LEMMA StepPreserves == ASSUME IInv, [Next]_vars PROVE Preserved
<1>1. CASE Open
  BY <1>1, OpenStep
<1>2. CASE Compile
  BY <1>2, CompileStep
<1>3. CASE \E a \in Approver : Approve(a)
  BY <1>3, ApproveStep
<1>4. CASE Advance
  BY <1>4, BeginAdvanceStep DEF Advance
<1>5. CASE Inspect
  BY <1>5, InspectStep
<1>6. CASE Dispatch
  BY <1>6, DispatchStep
<1>7. CASE Record
  BY <1>7, RecordStep
<1>8. CASE Cancel
  BY <1>8, CancelStep
<1>9. CASE PersistOther
  BY <1>9, PersistOtherStep
<1>10. CASE Crash
  BY <1>10, CrashStep
<1>11. CASE (\E p \in Package : EditArtifacts(p)) \/ EditBinding \/ Repair
  BY <1>11, EditStep
<1>12. CASE UNCHANGED vars
  BY <1>12, WorldStep DEF vars, IInv, TypeOK
<1> QED
  BY <1>1, <1>2, <1>3, <1>4, <1>5, <1>6, <1>7, <1>8, <1>9, <1>10, <1>11, <1>12 DEF Next

-----------------------------------------------------------------------------
LEMMA Inductive == Spec => []IInv
<1>1. Init => IInv
  BY InitHolds
<1>2. IInv /\ [Next]_vars => IInv'
  BY StepPreserves DEF Preserved
<1> QED
  BY <1>1, <1>2, PTL DEF Spec

(* Every variable keeps its type; in particular the unsigned counters of   *)
(* WorkflowBudget never wrap below zero or exceed the allocation.          *)
THEOREM TypeCorrect == Spec => []TypeOK
<1>1. IInv => TypeOK
  BY DEF IInv
<1> QED
  BY <1>1, Inductive, PTL

(* project_open never refuses a run that the daemon itself stored.         *)
THEOREM AlwaysReopenable == Spec => []Reopenable
<1>1. IInv => Reopenable
  BY ServingRun DEF IInv, Reopenable
<1> QED
  BY <1>1, Inductive, PTL

(* workflow_read always finds the result files that checkpoints digest.    *)
THEOREM ResultsAlwaysMatch == Spec => []ResultsMatch
<1>1. IInv => ResultsMatch
  BY DEF IInv
<1> QED
  BY <1>1, Inductive, PTL

(* A package reported to a caller as succeeded stays so on disk, with the  *)
(* result it was reported with.                                            *)
THEOREM ReportsAreDurable == Spec => []ReportedDurable
<1>1. IInv => ReportedDurable
  BY DEF IInv, Told, ResultsMatch, ReportedDurable, Succeeded
<1> QED
  BY <1>1, Inductive, PTL

(* The stored run implements the ledger.                                   *)
LEMMA LedgerStep == ASSUME IInv, Lead(disk, disk'), IInv' PROVE [Ledger!Next]_(Ledger!ledger)
<1>1. \A p \in Package :
        Entries(disk)[p] = disk.cp[p].output /\ Entries(disk')[p] = disk'.cp[p].output
  BY DEF Entries
<1>2. Ledger!Done = Done(disk)
  BY <1>1 DEF Ledger!Done, Done
<1>3. CASE Kept(disk, disk')
  BY <1>2, <1>3 DEF Kept, Ledger!Next, Ledger!Approve, Ledger!ledger
<1>4. ASSUME NEW p \in Package, OneMore(disk, disk', p) PROVE Ledger!Complete(p)
  BY <1>1, <1>2, <1>4 DEF OneMore, Ledger!Complete
<1> QED
  BY <1>3, <1>4 DEF Lead, Ledger!Next

THEOREM ImplementsLedger == Spec => LedgerSpec
<1>1. Init => Ledger!Init
  BY DEF Init, Ledger!Init, Entries, NoRun, Compiled, Blocked
<1>2. IInv /\ IInv' /\ [Next]_vars => [Ledger!Next]_(Ledger!ledger)
  BY StepPreserves, LedgerStep DEF Preserved
<1> QED
  BY <1>1, <1>2, Inductive, PTL DEF Spec, LedgerSpec, Ledger!Spec

(* The three of them: what is stored can be opened, is what callers were   *)
(* told, and names the result files that are there.                        *)
THEOREM StoreAlwaysAgrees == Spec => []StoreAgrees
<1>1. Reopenable /\ ResultsMatch /\ ReportedDurable => StoreAgrees
  BY DEF StoreAgrees
<1> QED
  BY <1>1, AlwaysReopenable, ResultsAlwaysMatch, ReportsAreDurable, PTL

-----------------------------------------------------------------------------
(***************************************************************************)
(* What the checkpoints say of how their results came about.  A second     *)
(* invariant, kept apart because it needs the first and not conversely.    *)
(***************************************************************************)
(* The checkpoints of a run that has not ended: no package was rejected,   *)
(* and one is left to do.                                                  *)
Going(run) ==
  run.status \notin Finished =>
    /\ Succeeded(run) # Package
    /\ \A p \in Package : run.cp[p].status # "rejected_over_budget"

(* The result of a finished package names the input that was validated,    *)
(* and that input the outputs of what the package depends on.              *)
Traced(run) ==
  \A p \in Succeeded(run) :
    /\ run.cp[p].output.input = run.cp[p].input
    /\ \A d \in Dep[p] : run.cp[p].input.deps[d] = run.cp[d].output

Detailed(run) == Going(run) /\ Traced(run)

(* What the request at work may rely on.                                   *)
Prepared ==
  /\ pc = "dispatch" => \E v : work.input = InputDigest(mem, work.package, v)
  /\ pc = "record" => Detailed(work.run)

DetailInv == Detailed(mem) /\ Detailed(disk) /\ Prepared

(* JSON null is no object: neither a digest of inputs nor a result.        *)
NullIsNoObject ==
  /\ \A x, y, z : [package |-> x, artifacts |-> y, deps |-> z] # None
  /\ \A x, y : [input |-> x, checked |-> y] # None

-----------------------------------------------------------------------------
(* The sum by which Charged is defined, up to m.                           *)
SumStep(g, f, n) == IF n = 0 THEN 0 ELSE g[n - 1] + f[n]
SumsTo(g, f, m) == g = [n \in 0..m |-> SumStep(g, f, n)]

LEMMA SumSizes ==
  /\ N \in Nat /\ N \in 0..N
  /\ \A n \in 0..N : n # 0 => n \in Package /\ n - 1 \in 0..N /\ ~ (n <= n - 1)
<1>1. N \in Nat
  OBVIOUS
<1> QED
  BY <1>1

LEMMA PackageSizes == \A p \in Package : p \in Nat /\ p # 0 /\ p <= N
<1>1. N \in Nat
  OBVIOUS
<1> QED
  BY <1>1

LEMMA SumExists == ASSUME NEW f, NEW m \in Nat PROVE \E g : SumsTo(g, f, m)
<1> DEFINE T == {n \in Nat : ~ \E g : SumsTo(g, f, n)}
<1> SUFFICES ASSUME T # {} PROVE FALSE
  OBVIOUS
<1>1. PICK n \in T : \A k \in T : n <= k
  <2>1. T \subseteq Nat
    OBVIOUS
  <2> HIDE DEF T
  <2> QED
    BY <2>1, Least
<1>2. n \in Nat /\ ~ \E g : SumsTo(g, f, n)
  OBVIOUS
<1>3. CASE n = 0
  <2> DEFINE g == [i \in 0..0 |-> 0]
  <2>1. g = [i \in 0..0 |-> SumStep(g, f, i)]
    BY DEF SumStep
  <2> QED
    BY <1>2, <1>3, <2>1 DEF SumsTo
<1>4. CASE n # 0
  <2>1. n - 1 \in Nat /\ ~ (n <= n - 1)
    BY <1>2, <1>4
  <2>2. n - 1 \notin T
    BY <1>1, <2>1
  <2>3. PICK h : SumsTo(h, f, n - 1)
    BY <2>1, <2>2
  <2> DEFINE g == [i \in 0..n |-> IF i = n THEN SumStep(h, f, i) ELSE h[i]]
  <2>4. \A i \in 0..(n - 1) : h[i] = SumStep(h, f, i)
    BY <2>3 DEF SumsTo
  <2>5. ASSUME NEW i \in 0..n PROVE SumStep(g, f, i) = SumStep(h, f, i)
    <3>1. CASE i = 0
      BY <3>1 DEF SumStep
    <3>2. CASE i # 0
      <4>1. i - 1 \in 0..n /\ i - 1 # n
        BY <1>2, <2>5, <3>2
      <4>2. g[i - 1] = h[i - 1]
        BY <4>1
      <4> HIDE DEF g
      <4> QED
        BY <4>2 DEF SumStep
    <3> QED
      BY <3>1, <3>2
  <2>6. ASSUME NEW i \in 0..n PROVE g[i] = SumStep(h, f, i)
    <3>1. i # n => i \in 0..(n - 1)
      BY <1>2, <2>6
    <3> QED
      BY <2>4, <3>1
  <2>7. g = [i \in 0..n |-> g[i]]
    OBVIOUS
  <2> HIDE DEF g
  <2>8. g = [i \in 0..n |-> SumStep(g, f, i)]
    BY <2>5, <2>6, <2>7
  <2> QED
    BY <1>2, <2>8 DEF SumsTo
<1> QED
  BY <1>3, <1>4

LEMMA SumUnfolds == ASSUME NEW f PROVE \E g : SumsTo(g, f, N) /\ SumOf(f) = g[N]
<1> DEFINE g == CHOOSE h : SumsTo(h, f, N)
<1>1. SumsTo(g, f, N)
  BY SumSizes, SumExists
<1>2. SumOf(f) = g[N]
  BY DEF SumOf, SumsTo, SumStep
<1> QED
  BY <1>1, <1>2

LEMMA SumTyped ==
  ASSUME NEW f \in [Package -> Nat], NEW g, SumsTo(g, f, N)
  PROVE  \A n \in 0..N : g[n] \in Nat
<1> DEFINE T == {n \in 0..N : g[n] \notin Nat}
<1> SUFFICES ASSUME T # {} PROVE FALSE
  OBVIOUS
<1>1. PICK n \in T : \A k \in T : n <= k
  <2>1. T \subseteq Nat
    OBVIOUS
  <2> HIDE DEF T
  <2> QED
    BY <2>1, Least
<1>2. n \in 0..N /\ g[n] \notin Nat
  OBVIOUS
<1>3. g[n] = SumStep(g, f, n)
  BY <1>2 DEF SumsTo
<1>4. n # 0
  BY <1>2, <1>3 DEF SumStep
<1>5. n - 1 \in 0..N /\ ~ (n <= n - 1) /\ n \in Package
  BY <1>2, <1>4, SumSizes
<1>6. n - 1 \notin T
  BY <1>1, <1>5
<1>7. g[n - 1] \in Nat /\ f[n] \in Nat
  BY <1>5, <1>6
<1> QED
  BY <1>2, <1>3, <1>4, <1>7 DEF SumStep

Moves(a, x, y, c, d) == (a + x) + c = (a + d) + y
LEMMA SumsMove ==
  \A a, x, y, c, d \in Nat : y + d = x + c => Moves(a, x, y, c, d)
BY DEF Moves

(* What is charged for one package is added to the sum.                    *)
Adds(f, h, p) == SumOf(h) = SumOf(f) + h[p]

LEMMA SumAdds ==
  ASSUME NEW f \in [Package -> Nat], NEW h \in [Package -> Nat], NEW p \in Package, f[p] = 0,
         \A q \in Package \ {p} : h[q] = f[q]
  PROVE  Adds(f, h, p)
<1>1. PICK a : SumsTo(a, f, N) /\ SumOf(f) = a[N]
  BY SumUnfolds
<1>2. PICK b : SumsTo(b, h, N) /\ SumOf(h) = b[N]
  BY SumUnfolds
<1>3. \A n \in 0..N : a[n] \in Nat /\ b[n] \in Nat
  BY <1>1, <1>2, SumTyped
<1> DEFINE Added(n) == IF p <= n THEN h[p] ELSE 0
           T == {n \in 0..N : b[n] # a[n] + Added(n)}
<1>4. ASSUME T # {} PROVE FALSE
  <2>1. PICK n \in T : \A k \in T : n <= k
    <3>1. T \subseteq Nat
      OBVIOUS
    <3> HIDE DEF T
    <3> QED
      BY <1>4, <3>1, Least
  <2>2. n \in 0..N /\ b[n] # a[n] + Added(n)
    OBVIOUS
  <2>3. b[n] = SumStep(b, h, n) /\ a[n] = SumStep(a, f, n)
    BY <1>1, <1>2, <2>2 DEF SumsTo
  <2>4. n # 0
    <3>1. n = 0 => Added(n) = 0
      BY PackageSizes
    <3> QED
      BY <2>2, <2>3, <3>1 DEF SumStep
  <2>5. n - 1 \in 0..N /\ ~ (n <= n - 1) /\ n \in Package
    BY <2>2, <2>4, SumSizes
  <2>6. b[n - 1] = a[n - 1] + Added(n - 1)
    BY <2>1, <2>5
  <2>7. b[n] = b[n - 1] + h[n] /\ a[n] = a[n - 1] + f[n]
    BY <2>3, <2>4 DEF SumStep
  <2>8. h[p] \in Nat /\ h[n] \in Nat /\ f[n] \in Nat /\ a[n - 1] \in Nat
    BY <1>3, <2>5
  <2>9. Added(n) + f[n] = Added(n - 1) + h[n]
    <3>1. CASE n = p
      <4>1. Added(n) = h[p] /\ Added(n - 1) = 0
        BY <2>5, <3>1
      <4> QED
        BY <2>8, <3>1, <4>1
    <3>2. CASE n # p
      <4>1. Added(n) = Added(n - 1)
        BY <2>5, <3>2
      <4> QED
        BY <2>5, <3>2, <4>1
    <3> QED
      BY <3>1, <3>2
  <2>10. Added(n) \in Nat /\ Added(n - 1) \in Nat
    BY <2>8
  <2> HIDE DEF Added
  <2>11. Moves(a[n - 1], Added(n - 1), Added(n), h[n], f[n])
    BY <2>8, <2>9, <2>10, SumsMove
  <2> QED
    BY <2>2, <2>6, <2>7, <2>11 DEF Moves
<1>5. b[N] = a[N] + Added(N)
  <2>1. N \in 0..N
    BY SumSizes
  <2> QED
    BY <1>4, <2>1
<1>6. Added(N) = h[p]
  BY PackageSizes
<1> QED
  BY <1>1, <1>2, <1>5, <1>6 DEF Adds

-----------------------------------------------------------------------------
(* A run with the same checkpoints but for what was merely blocked or      *)
(* cancelled is as good.                                                   *)
SameDetails(r1, r2) ==
  \A p \in Package :
    /\ r2.cp[p].output = r1.cp[p].output /\ r2.cp[p].input = r1.cp[p].input
    /\ r2.cp[p].status = "succeeded" <=> r1.cp[p].status = "succeeded"
    /\ r2.cp[p].status = "rejected_over_budget" <=> r1.cp[p].status = "rejected_over_budget"

LEMMA DetailsCarry ==
  ASSUME NEW r1, NEW r2, SameDetails(r1, r2), Detailed(r1), r1.status \notin Finished
  PROVE  Detailed(r2)
<1>1. Succeeded(r2) = Succeeded(r1)
  BY DEF SameDetails, Succeeded
<1>2. Going(r2)
  BY <1>1 DEF Detailed, Going, SameDetails
<1>3. Traced(r2)
  <2> SUFFICES ASSUME NEW p \in Succeeded(r2)
               PROVE  /\ r2.cp[p].output.input = r2.cp[p].input
                      /\ \A d \in Dep[p] : r2.cp[p].input.deps[d] = r2.cp[d].output
    BY DEF Traced
  <2>1. p \in Package /\ p \in Succeeded(r1)
    BY <1>1 DEF Succeeded
  <2>2. Dep[p] \subseteq Package
    BY <2>1
  <2> QED
    BY <2>1, <2>2 DEF Detailed, Traced, SameDetails
<1> QED
  BY <1>2, <1>3 DEF Detailed

LEMMA NoRunDetailed == Detailed(NoRun) /\ Detailed(Compiled)
<1>1. \A p \in Package : Compiled.cp[p].status = "blocked" /\ NoRun.cp[p].status = "blocked"
  BY DEF Compiled, NoRun, Blocked
<1>2. Succeeded(Compiled) = {} /\ Succeeded(NoRun) = {}
  BY <1>1 DEF Succeeded
<1>3. 1 \in Package
  OBVIOUS
<1> QED
  BY <1>1, <1>2, <1>3 DEF Detailed, Going, Traced

LEMMA ApprovedDetails ==
  ASSUME NEW run, RunOK(run), Detailed(run), Approvable(run), NEW a
  PROVE  Detailed(Approved(run, a))
<1>1. Approved(run, a).cp = run.cp
  BY DEF Approved, RunOK
<1>2. SameDetails(run, Approved(run, a))
  BY <1>1 DEF SameDetails
<1> QED
  BY <1>2, DetailsCarry DEF Approvable, Finished

LEMMA CancelledDetails ==
  ASSUME NEW run, RunOK(run), Detailed(run), run.status \in {"approved", "running"}
  PROVE  Detailed(Cancelled(run))
<1> DEFINE new == Cancelled(run)
<1>1. ASSUME NEW p \in Package
      PROVE  /\ new.cp[p].output = run.cp[p].output /\ new.cp[p].input = run.cp[p].input
             /\ new.cp[p].status = "succeeded" <=> run.cp[p].status = "succeeded"
             /\ new.cp[p].status = "rejected_over_budget" <=>
                  run.cp[p].status = "rejected_over_budget"
  <2>1. CheckpointOK(p, run.cp[p])
    BY DEF RunOK
  <2>2. new.cp[p] = IF run.cp[p].status \in {"succeeded", "rejected_over_budget"} THEN run.cp[p]
                    ELSE [run.cp[p] EXCEPT !.status = "cancelled"]
    BY DEF Cancelled, RunOK
  <2> QED
    BY <2>1, <2>2 DEF CheckpointOK, CheckpointStatus
<1>2. SameDetails(run, new)
  BY <1>1 DEF SameDetails
<1> QED
  BY <1>2, DetailsCarry DEF Finished

LEMMA StartedDetails ==
  ASSUME NEW run, RunOK(run), Detailed(run), NEW resume \in BOOLEAN,
         run.status \notin Finished
  PROVE  Detailed(Started(run, resume))
<1> DEFINE new == Started(run, resume)
<1>1. ASSUME NEW p \in Package
      PROVE  /\ new.cp[p].output = run.cp[p].output /\ new.cp[p].input = run.cp[p].input
             /\ new.cp[p].status = "succeeded" <=> run.cp[p].status = "succeeded"
             /\ new.cp[p].status = "rejected_over_budget" <=>
                  run.cp[p].status = "rejected_over_budget"
  <2>1. CheckpointOK(p, run.cp[p])
    BY DEF RunOK
  <2>2. new.cp[p] = run.cp[p] \/
          (new.cp[p] = [run.cp[p] EXCEPT !.status = "blocked"] /\ run.cp[p].status = "cancelled")
    BY DEF Started, Unblocked, RunOK
  <2> QED
    BY <2>1, <2>2 DEF CheckpointOK, CheckpointStatus
<1>2. SameDetails(run, new)
  BY <1>1 DEF SameDetails
<1> QED
  BY <1>2, DetailsCarry

(* A rejected package is none of the finished ones.                        *)
LEMMA RejectedCheckpoints ==
  ASSUME NEW run, RunOK(run), NEW p \in Runnable(run), NEW input, NEW new,
         new = OverBudget(run, p, input)
  PROVE  /\ new.status = "budget_exhausted" /\ new.approval = run.approval
         /\ new.consumed = run.consumed /\ new.remaining = run.remaining
         /\ new.rejected = run.rejected \cup {p}
         /\ new.cp[p].status = "rejected_over_budget"
         /\ new.cp[p].output = run.cp[p].output /\ new.cp[p].units = run.cp[p].units
         /\ \A q \in Package \ {p} : new.cp[q] = run.cp[q]
<1>1. p \in Package
  BY DEF Runnable
<1>2. CheckpointOK(p, run.cp[p])
  BY <1>1 DEF RunOK
<1>3. new.cp[p] = [run.cp[p] EXCEPT !.status = "rejected_over_budget", !.input = input]
  BY <1>1, <1>2 DEF OverBudget, RunOK, CheckpointOK
<1>4. /\ new.status = "budget_exhausted" /\ new.approval = run.approval
      /\ new.consumed = run.consumed /\ new.remaining = run.remaining
      /\ new.rejected = run.rejected \cup {p}
  BY <1>1 DEF OverBudget, RunOK
<1>5. \A q \in Package \ {p} : new.cp[q] = run.cp[q]
  BY <1>1 DEF OverBudget, RunOK
<1>6. /\ new.cp[p].status = "rejected_over_budget"
      /\ new.cp[p].output = run.cp[p].output /\ new.cp[p].units = run.cp[p].units
  BY <1>2, <1>3 DEF CheckpointOK
<1> QED
  BY <1>4, <1>5, <1>6

LEMMA OverBudgetDetails ==
  ASSUME NEW run, RunOK(run), Detailed(run), NEW p \in Runnable(run), NEW input
  PROVE  Detailed(OverBudget(run, p, input))
<1> DEFINE new == OverBudget(run, p, input)
<1>1. /\ new.status = "budget_exhausted" /\ new.cp[p].status = "rejected_over_budget"
      /\ new.cp[p].output = run.cp[p].output
      /\ \A q \in Package \ {p} : new.cp[q] = run.cp[q]
  BY RejectedCheckpoints
<1> HIDE DEF new
<1>2. Going(new)
  BY <1>1 DEF Going, Finished
<1>3. Traced(new)
  <2> SUFFICES ASSUME NEW q \in Succeeded(new)
               PROVE  /\ new.cp[q].output.input = new.cp[q].input
                      /\ \A d \in Dep[q] : new.cp[q].input.deps[d] = new.cp[d].output
    BY DEF Traced
  <2>1. q \in Package /\ q # p
    BY <1>1 DEF Succeeded
  <2>2. new.cp[q] = run.cp[q] /\ q \in Succeeded(run)
    BY <1>1, <2>1 DEF Succeeded
  <2>3. \A d \in Package : new.cp[d].output = run.cp[d].output
    BY <1>1
  <2>4. Dep[q] \subseteq Package
    BY <2>1
  <2> QED
    BY <2>2, <2>3, <2>4 DEF Detailed, Traced
<1> QED
  BY <1>2, <1>3 DEF Detailed, new

LEMMA ChargedDetails ==
  ASSUME NEW run, RunOK(run), RunInv(run), run.status = "running", Detailed(run),
         NEW p, Picked(run, p), NEW input, NEW v, input = InputDigest(run, p, v),
         NEW content
  PROVE  Detailed(Charge(run, p, input, EngineResult(input, content)))
<1> DEFINE output == EngineResult(input, content)
           new == Charge(run, p, input, output)
<1>0. new = Charge(run, p, input, output)
  OBVIOUS
<1> HIDE DEF new, output
<1>1. /\ new.status \in {"running", "succeeded"}
      /\ Succeeded(new) = Succeeded(run) \cup {p}
      /\ new.cp[p].output = output
      /\ \A q \in Package \ {p} : new.cp[q] = run.cp[q]
  BY <1>0, ChargedRun
<1>2. p \in Package /\ p \notin Succeeded(run) /\ Dep[p] \subseteq Succeeded(run)
  BY DEF Picked, Runnable, Succeeded
<1>3. new.cp[p].input = input /\ new.cp[p].status = "succeeded"
  BY <1>0, <1>2 DEF Charge, RunOK
<1>4. new.status = IF \A q \in Package : new.cp[q].status = "succeeded"
                   THEN "succeeded" ELSE run.status
  BY <1>0, <1>2 DEF Charge, RunOK
<1>5. Valid(run)
  BY ServingRun DEF Exists
<1>6. output.input = input /\ \A d \in Dep[p] : input.deps[d] = run.cp[d].output
  BY DEF EngineResult, InputDigest, output
<1>7. Going(new)
  <2> SUFFICES ASSUME new.status \notin Finished
               PROVE  /\ Succeeded(new) # Package
                      /\ \A q \in Package : new.cp[q].status # "rejected_over_budget"
    BY DEF Going
  <2>1. Succeeded(new) # Package
    BY <1>4 DEF Succeeded, Finished
  <2>2. \A q \in Package : run.cp[q].status # "rejected_over_budget"
    BY DEF Detailed, Going, Finished
  <2> QED
    BY <1>1, <1>3, <2>1, <2>2
<1>8. Traced(new)
  <2> SUFFICES ASSUME NEW q \in Succeeded(new)
               PROVE  /\ new.cp[q].output.input = new.cp[q].input
                      /\ \A d \in Dep[q] : new.cp[q].input.deps[d] = new.cp[d].output
    BY DEF Traced
  <2>1. CASE q = p
    <3>1. \A d \in Dep[p] : d \in Package /\ d # p
      BY <1>2 DEF Succeeded
    <3>2. \A d \in Dep[p] : new.cp[d].output = run.cp[d].output
      BY <1>1, <3>1
    <3> QED
      BY <1>1, <1>3, <1>6, <2>1, <3>2
  <2>2. CASE q # p
    <3>1. q \in Succeeded(run) /\ q \in Package /\ new.cp[q] = run.cp[q]
      BY <1>1, <2>2 DEF Succeeded
    <3>2. Dep[q] \subseteq Succeeded(run)
      BY <1>5, <3>1 DEF Valid, DependenciesDone
    <3>3. \A d \in Dep[q] : d \in Package /\ d # p
      BY <1>2, <3>2 DEF Succeeded
    <3>4. \A d \in Dep[q] : new.cp[d].output = run.cp[d].output
      BY <1>1, <3>3
    <3> QED
      BY <3>1, <3>4 DEF Detailed, Traced
  <2> QED
    BY <2>1, <2>2
<1> QED
  BY <1>7, <1>8 DEF Detailed, new, output

(* What is finished or rejected passes the validation again.               *)
LEMMA OverBudgetValid ==
  ASSUME NEW run, RunOK(run), Valid(run), run.status = "running", NEW p \in Runnable(run),
         NEW input
  PROVE  Valid(OverBudget(run, p, input))
<1> DEFINE new == OverBudget(run, p, input)
<1>1. /\ new.status = "budget_exhausted" /\ new.approval = run.approval
      /\ new.consumed = run.consumed /\ new.remaining = run.remaining
      /\ new.rejected = run.rejected \cup {p}
      /\ new.cp[p].status = "rejected_over_budget"
      /\ new.cp[p].output = run.cp[p].output /\ new.cp[p].units = run.cp[p].units
      /\ \A q \in Package \ {p} : new.cp[q] = run.cp[q]
  BY RejectedCheckpoints
<1> HIDE DEF new
<1>2. p \in Package /\ p \notin Succeeded(run) /\ run.cp[p].status # "succeeded"
  BY DEF Runnable, Succeeded
<1>3. BudgetBalanced(new)
  BY <1>1 DEF Valid, BudgetBalanced
<1>4. CheckpointsConsistent(new)
  BY <1>1, <1>2 DEF Valid, CheckpointsConsistent
<1>5. Charged(new) = new.consumed
  BY <1>1, SameCharge DEF Valid
<1>6. Succeeded(new) = Succeeded(run)
  BY <1>1, <1>2 DEF Succeeded
<1>7. DependenciesDone(new)
  BY <1>6 DEF Valid, DependenciesDone
<1>8. LifecycleConsistent(new)
  <2>1. \A q \in run.rejected : q \in Package /\ run.cp[q].status = "rejected_over_budget"
    BY DEF Valid, LifecycleConsistent, RunOK
  <2>2. \A q \in new.rejected : new.cp[q].status = "rejected_over_budget"
    BY <1>1, <2>1
  <2>3. new.approval # None
    BY <1>1 DEF Valid, LifecycleConsistent
  <2> QED
    BY <1>1, <2>2, <2>3 DEF LifecycleConsistent
<1>9. Valid(new)
  BY <1>3, <1>4, <1>5, <1>7, <1>8 DEF Valid
<1> QED
  BY <1>9 DEF new

LEMMA ChargedValid ==
  ASSUME NEW run, RunOK(run), RunInv(run), run.status = "running", Detailed(run),
         NEW p, Picked(run, p), NEW input, NEW output, input # None, output # None
  PROVE  Valid(Charge(run, p, input, output))
<1> DEFINE new == Charge(run, p, input, output)
<1>1. new = Charge(run, p, input, output)
  OBVIOUS
<1> HIDE DEF new
<1>2. /\ RunOK(new) /\ new.status \in {"running", "succeeded"}
      /\ Succeeded(new) = Succeeded(run) \cup {p}
      /\ \A q \in Package \ {p} : new.cp[q] = run.cp[q]
  BY <1>1, ChargedRun
<1>3. p \in Package /\ p \notin Succeeded(run) /\ Dep[p] \subseteq Succeeded(run)
  BY DEF Picked, Runnable, Succeeded
<1>4. Valid(run)
  BY ServingRun DEF Exists
<1>5. new.cp[p] = [status |-> "succeeded", input |-> input, output |-> output,
                   units |-> Cost[p]]
  BY <1>1, <1>3 DEF Charge, RunOK
<1>6. /\ new.approval = run.approval /\ new.rejected = run.rejected
      /\ new.consumed = run.consumed + Cost[p] /\ new.remaining = run.remaining - Cost[p]
      /\ new.status = IF \A q \in Package : new.cp[q].status = "succeeded"
                      THEN "succeeded" ELSE run.status
  BY <1>1, <1>3 DEF Charge, RunOK
<1>7. BudgetBalanced(new)
  <2>1. run.consumed \in Nat /\ run.remaining \in Nat /\ Cost[p] \in Nat
    BY <1>3 DEF RunOK
  <2>2. run.consumed + run.remaining = Budget /\ Cost[p] <= run.remaining
    BY <1>4 DEF Valid, BudgetBalanced, Picked, Affordable
  <2> QED
    BY <1>6, <2>1, <2>2 DEF BudgetBalanced
<1>8. CheckpointsConsistent(new)
  BY <1>2, <1>4, <1>5 DEF Valid, CheckpointsConsistent
<1>9. Charged(new) = new.consumed
  <2> DEFINE f == [q \in Package |-> run.cp[q].units]
             h == [q \in Package |-> new.cp[q].units]
  <2>1. \A q \in Package : run.cp[q].units \in {0, Cost[q]} /\ new.cp[q].units \in {0, Cost[q]}
    BY <1>2 DEF RunOK, CheckpointOK
  <2>2. f \in [Package -> Nat] /\ h \in [Package -> Nat]
    BY <2>1
  <2>3. f[p] = 0 /\ h[p] = Cost[p] /\ \A q \in Package \ {p} : h[q] = f[q]
    BY <1>2, <1>3, <1>4, <1>5 DEF Valid, CheckpointsConsistent, Succeeded
  <2>4. Charged(run) = SumOf(f) /\ Charged(new) = SumOf(h)
    BY DEF Charged
  <2> HIDE DEF f, h
  <2>5. Adds(f, h, p)
    BY <1>3, <2>2, <2>3, SumAdds
  <2> QED
    BY <1>4, <1>6, <2>3, <2>4, <2>5 DEF Valid, Adds
<1>10. DependenciesDone(new)
  BY <1>2, <1>3, <1>4 DEF Valid, DependenciesDone, Succeeded
<1>11. LifecycleConsistent(new)
  <2>1. \A q \in run.rejected : q \in Package /\ run.cp[q].status = "rejected_over_budget"
    BY <1>4 DEF Valid, LifecycleConsistent, RunOK
  <2>2. \A q \in Package : run.cp[q].status # "rejected_over_budget"
    BY DEF Detailed, Going, Finished
  <2>3. new.rejected = {}
    BY <1>6, <2>1, <2>2
  <2>4. new.approval # None
    BY <1>4, <1>6 DEF Valid, LifecycleConsistent
  <2>5. new.status = "succeeded" => Succeeded(new) = Package
    BY <1>6 DEF Succeeded
  <2> QED
    BY <1>2, <2>3, <2>4, <2>5 DEF LifecycleConsistent
<1>12. Valid(new)
  BY <1>7, <1>8, <1>9, <1>10, <1>11 DEF Valid
<1> QED
  BY <1>12 DEF new

-----------------------------------------------------------------------------
(* One step.                                                               *)
LEMMA IdleStoreDetails ==
  ASSUME DetailInv, Idle, pc' = pc, NEW run, Detailed(run), mem' = run,
         disk' = disk \/ disk' = run
  PROVE  DetailInv'
<1>1. Detailed(mem') /\ Detailed(disk')
  BY DEF DetailInv
<1>2. Prepared'
  BY DEF Idle, Prepared
<1> QED
  BY <1>1, <1>2 DEF DetailInv, Detailed, Going, Traced, Succeeded

LEMMA StepDetails == ASSUME IInv, DetailInv, [Next]_vars PROVE DetailInv'
<1>0. Detailed(mem) /\ Detailed(disk)
  BY DEF DetailInv
<1>1. CASE Open
  <2>1. mem' = disk /\ (disk' = disk \/ disk' = disk)
    BY <1>1, IInvFacts, PersistOutcome DEF Open, Store
  <2> QED
    BY <1>0, <1>1, <2>1, IdleStoreDetails DEF Open
<1>2. CASE Compile
  <2>1. Detailed(Recompiled(mem))
    BY <1>0, NoRunDetailed DEF Recompiled
  <2>2. mem' = Recompiled(mem) /\ (disk' = disk \/ disk' = Recompiled(mem))
    BY <1>2, IInvFacts, PersistOutcome DEF Compile, Store
  <2> QED
    BY <1>2, <2>1, <2>2, IdleStoreDetails DEF Compile
<1>3. ASSUME NEW a \in Approver, Approve(a) PROVE DetailInv'
  <2>1. Detailed(Approved(mem, a))
    BY <1>0, <1>3, IInvFacts, ApprovedDetails DEF Approve
  <2>2. mem' = Approved(mem, a) /\ (disk' = disk \/ disk' = Approved(mem, a))
    BY <1>3, IInvFacts, PersistOutcome DEF Approve, StoreInPlace, Store
  <2> QED
    BY <1>3, <2>1, <2>2, IdleStoreDetails DEF Approve, WorkflowInputs
<1>4. ASSUME NEW a \in Approver, NEW resume \in BOOLEAN, BeginAdvance(resume, a)
      PROVE  DetailInv'
  <2> DEFINE run == Started(mem, resume)
  <2>1. Detailed(run)
    <3>1. mem.status \notin Finished
      BY <1>4 DEF BeginAdvance, Resumable, Startable, Finished
    <3> QED
      BY <1>0, <3>1, IInvFacts, StartedDetails
  <2> HIDE DEF run
  <2>2. mem' = run /\ (disk' = disk \/ disk' = run) /\ (pc' = pc \/ pc' = "inspect") /\ pc = "idle"
    BY <1>4, IInvFacts, PersistOutcome DEF BeginAdvance, WorkflowInputs, Idle, Store, run
  <2>3. Prepared'
    BY <2>2 DEF Prepared
  <2>4. Detailed(mem') /\ Detailed(disk')
    BY <1>0, <2>1, <2>2
  <2> QED
    BY <2>3, <2>4 DEF DetailInv, Detailed, Going, Traced, Succeeded
<1>5. CASE Inspect
  <2> DEFINE run == work.run
             p == First(Runnable(run))
             input == InputDigest(run, p, source[p])
  <2>1. run = mem /\ mem' = mem /\ disk' = disk /\ pc = "inspect"
    BY <1>5 DEF Inspect, IInv, Serving
  <2>2. CASE Runnable(run) = {}
    <3>1. pc' = "record" /\ work' = work
      BY <1>5, <2>2 DEF Inspect
    <3> QED
      BY <1>0, <2>1, <3>1 DEF DetailInv, Prepared
  <2>3. CASE Runnable(run) # {} /\ source[p] = Missing
    <3>1. pc' = "idle"
      BY <1>5, <2>3 DEF Inspect, Finish
    <3> QED
      BY <1>0, <2>1, <3>1 DEF DetailInv, Prepared
  <2>4. CASE Runnable(run) # {} /\ source[p] # Missing /\ Affordable(run, p)
    <3>1. pc' = "dispatch" /\ work' = [run |-> run, package |-> p, input |-> input]
      BY <1>5, <2>4 DEF Inspect
    <3>2. work'.input = InputDigest(mem', work'.package, source[p])
      BY <2>1, <3>1
    <3>3. Prepared'
      BY <3>1, <3>2 DEF Prepared
    <3> QED
      BY <1>0, <2>1, <3>3 DEF DetailInv
  <2>5. CASE Runnable(run) # {} /\ source[p] # Missing /\ ~Affordable(run, p)
    <3>1. pc' = "record" /\ work'.run = OverBudget(run, p, input)
      BY <1>5, <2>5 DEF Inspect
    <3>2. p \in Runnable(run)
      BY <2>5, FirstMember DEF Runnable
    <3>3. Detailed(OverBudget(run, p, input))
      BY <1>0, <2>1, <3>2, IInvFacts, OverBudgetDetails
    <3> HIDE DEF run, p, input
    <3>4. Prepared'
      BY <3>1, <3>3 DEF Prepared
    <3> QED
      BY <1>0, <2>1, <3>4 DEF DetailInv
  <2> QED
    BY <2>2, <2>3, <2>4, <2>5
<1>6. CASE Dispatch
  <2> DEFINE p == work.package
             output == EngineResult(work.input, source[p])
             new == Charge(work.run, p, work.input, output)
  <2>1. /\ pc = "dispatch" /\ work.run = mem /\ mem.status = "running" /\ Picked(mem, p)
        /\ mem' = mem /\ disk' = disk
    BY <1>6 DEF Dispatch, IInv, Serving
  <2>2. CASE pc' = "record" /\ work' = [work EXCEPT !.run = new]
    <3>1. PICK v : work.input = InputDigest(mem, p, v)
      BY <2>1 DEF DetailInv, Prepared
    <3>2. Detailed(new)
      BY <1>0, <2>1, <3>1, IInvFacts, ChargedDetails
    <3>3. DetailInv' \/ work'.run = new
      BY <2>2
    <3> QED
      BY <1>0, <2>1, <2>2, <3>2, <3>3 DEF DetailInv, Prepared
  <2>3. CASE pc' = "idle"
    BY <1>0, <2>1, <2>3 DEF DetailInv, Prepared
  <2> QED
    BY <1>6, <2>2, <2>3 DEF Dispatch, Finish
<1>7. CASE Record
  <2>1. pc' = "idle" /\ Detailed(work.run)
    BY <1>7 DEF Record, Finish, DetailInv, Prepared
  <2>2. (mem' = mem \/ mem' = work.run) /\ (disk' = disk \/ disk' = work.run)
    BY <1>7, IInvFacts, PersistOutcome DEF Record, Store
  <2> QED
    BY <1>0, <2>1, <2>2 DEF DetailInv, Prepared
<1>8. CASE Cancel
  <2>1. Detailed(Cancelled(mem))
    BY <1>0, <1>8, IInvFacts, CancelledDetails DEF Cancel
  <2>2. mem' = Cancelled(mem) /\ (disk' = disk \/ disk' = Cancelled(mem))
    BY <1>8, IInvFacts, PersistOutcome DEF Cancel, StoreInPlace, Store
  <2> QED
    BY <1>8, <2>1, <2>2, IdleStoreDetails DEF Cancel, WorkflowInputs
<1>9. CASE PersistOther
  <2>1. mem' = mem /\ (disk' = disk \/ disk' = mem)
    BY <1>9, IInvFacts, PersistOutcome DEF PersistOther
  <2> QED
    BY <1>0, <1>9, <2>1, IdleStoreDetails DEF PersistOther
<1>10. CASE Crash
  BY <1>0, <1>10, NoRunDetailed DEF Crash, Finish, DetailInv, Prepared
<1>11. CASE UNCHANGED <<mem, disk, pc, work>>
  <2>1. mem' = mem /\ disk' = disk /\ pc' = pc /\ work' = work
    BY <1>11
  <2>2. Detailed(mem') /\ Detailed(disk')
    BY <1>0, <2>1
  <2>3. Prepared'
    BY <2>1 DEF DetailInv, Prepared
  <2> QED
    BY <2>2, <2>3 DEF DetailInv
<1> QED
  BY <1>1, <1>2, <1>3, <1>4, <1>5, <1>6, <1>7, <1>8, <1>9, <1>10, <1>11
     DEF Next, Advance, EditArtifacts, EditBinding, Repair, vars

LEMMA InitDetails == ASSUME Init PROVE DetailInv
<1>1. mem = NoRun /\ disk = NoRun /\ pc = "idle"
  BY DEF Init
<1> QED
  BY <1>1, NoRunDetailed DEF DetailInv, Prepared

LEMMA DetailsInductive == Spec => []DetailInv
<1>1. Init => DetailInv
  BY InitDetails
<1>2. IInv /\ DetailInv /\ [Next]_vars => DetailInv'
  BY StepDetails
<1> QED
  BY <1>1, <1>2, Inductive, PTL DEF Spec

(* No package is built on a result that was replaced afterwards.           *)
THEOREM ResultsAreTraced == Spec => []Provenance
<1>1. DetailInv => Provenance
  BY DEF DetailInv, Detailed, Traced, Provenance
<1> QED
  BY <1>1, DetailsInductive, PTL

(* A run that is not over has a package to work on: the first one that is  *)
(* not finished, since all it depends on comes before it.                  *)
THEOREM NeverStalls == Spec => []NoStall
<1>1. ASSUME IInv, DetailInv, mem.status \in {"approved", "running", "cancelled"}
      PROVE  Runnable(mem) # {}
  <2> DEFINE Left == Package \ Succeeded(mem)
  <2>1. Going(mem) /\ mem.status \notin Finished
    BY <1>1 DEF DetailInv, Detailed, Finished
  <2>2. Left # {} /\ Left \subseteq Nat
    BY <2>1 DEF Going, Succeeded
  <2> HIDE DEF Left
  <2>3. PICK p \in Left : \A q \in Left : p <= q
    BY <2>2, Least
  <2>4. p \in Package /\ p \notin Succeeded(mem)
    BY DEF Left
  <2>5. \A d \in Dep[p] : d \in Package /\ d < p
    BY <2>4
  <2>6. \A d \in Dep[p] : d \notin Left
    BY <2>3, <2>4, <2>5
  <2>7. Dep[p] \subseteq Succeeded(mem)
    BY <2>5, <2>6 DEF Left
  <2>8. p \in Runnable(mem)
    BY <2>1, <2>4, <2>7 DEF Going, Runnable, Succeeded
  <2> QED
    BY <2>8
<1>2. IInv /\ DetailInv => NoStall
  BY <1>1 DEF NoStall
<1> QED
  BY <1>2, Inductive, DetailsInductive, PTL

-----------------------------------------------------------------------------
LEMMA RunningValid == ASSUME IInv, mem.status = "running" PROVE Valid(mem)
<1>1. Exists(mem) /\ RunInv(mem)
  BY IInvFacts DEF Exists
<1> QED
  BY <1>1, ServingRun

LEMMA StepAccepts ==
  ASSUME NullIsNoObject, IInv, DetailInv, RecordAccepts, [Next]_vars PROVE RecordAccepts'
<1>1. CASE Inspect
  <2> DEFINE run == work.run
             p == First(Runnable(run))
             input == InputDigest(run, p, source[p])
  <2>1. run = mem /\ mem.status = "running"
    BY <1>1 DEF Inspect, IInv, Serving
  <2>2. RunOK(run) /\ Valid(run)
    BY <2>1, IInvFacts, RunningValid
  <2>3. Runnable(run) # {} => p \in Runnable(run)
    BY FirstMember DEF Runnable
  <2>4. Runnable(run) # {} => Valid(OverBudget(run, p, input))
    BY <2>1, <2>2, <2>3, OverBudgetValid
  <2>5. pc' = "record" =>
          work'.run = run \/ (Runnable(run) # {} /\ work'.run = OverBudget(run, p, input))
    BY <1>1 DEF Inspect, Finish
  <2> HIDE DEF run, p, input
  <2>6. pc' = "record" => Valid(work'.run)
    BY <2>2, <2>4, <2>5
  <2> QED
    BY <2>6 DEF RecordAccepts
<1>2. CASE Dispatch
  <2> DEFINE p == work.package
             output == EngineResult(work.input, source[p])
             new == Charge(work.run, p, work.input, output)
  <2>1. pc = "dispatch" /\ work.run = mem /\ mem.status = "running" /\ Picked(mem, p)
    BY <1>2 DEF Dispatch, IInv, Serving
  <2>2. PICK v : work.input = InputDigest(mem, p, v)
    BY <2>1 DEF DetailInv, Prepared
  <2>3. work.input # None /\ output # None
    BY <2>2 DEF NullIsNoObject, InputDigest, EngineResult
  <2>4. Detailed(mem)
    BY DEF DetailInv
  <2>5. RunOK(mem) /\ RunInv(mem)
    BY IInvFacts
  <2>6. pc' = "record" => work'.run = new
    <3>1. CASE pc' = "record" /\ work' = [work EXCEPT !.run = new]
      BY <3>1
    <3>2. CASE pc' = "idle"
      BY <3>2
    <3> QED
      BY <1>2, <3>1, <3>2 DEF Dispatch, Finish
  <2> HIDE DEF p, output
  <2>7. Valid(new)
    BY <2>1, <2>3, <2>4, <2>5, ChargedValid
  <2>8. pc' = "record" => Valid(work'.run)
    BY <2>6, <2>7
  <2> QED
    BY <2>8 DEF RecordAccepts
<1>3. CASE pc' # "record"
  BY <1>3 DEF RecordAccepts
<1>4. CASE UNCHANGED <<pc, work>>
  BY <1>4 DEF RecordAccepts, Valid
<1>5. Inspect \/ Dispatch \/ pc' # "record" \/ UNCHANGED <<pc, work>>
  <2>1. Open \/ Compile \/ (\E a \in Approver : Approve(a)) \/ Cancel \/ PersistOther
          \/ (\E p \in Package : EditArtifacts(p)) \/ EditBinding \/ Repair
        => UNCHANGED <<pc, work>>
    BY DEF Open, Compile, Approve, Cancel, PersistOther, EditArtifacts, EditBinding, Repair
  <2>2. Advance => pc' # "record" \/ UNCHANGED <<pc, work>>
    BY DEF Advance, BeginAdvance
  <2>3. Record \/ Crash => pc' # "record"
    BY DEF Record, Crash, Finish
  <2> QED
    BY <2>1, <2>2, <2>3 DEF Next, vars
<1> QED
  BY <1>1, <1>2, <1>3, <1>4, <1>5

(* The validation that precedes the last persist of a request never fails: *)
(* the work of a package is not thrown away.                               *)
THEOREM RecordsAccepted == ASSUME NullIsNoObject PROVE Spec => []RecordAccepts
<1>1. Init => RecordAccepts
  BY DEF Init, RecordAccepts
<1>2. IInv /\ DetailInv /\ RecordAccepts /\ [Next]_vars => RecordAccepts'
  BY StepAccepts
<1> QED
  BY <1>1, <1>2, Inductive, DetailsInductive, PTL DEF Spec
=============================================================================
