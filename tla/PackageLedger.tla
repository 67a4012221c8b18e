---------------------------- MODULE PackageLedger ----------------------------
(***************************************************************************)
(* What the durable record of a work-package run promises, whatever        *)
(* happens to the daemon: somebody approves the architecture before any    *)
(* package is finished and the approval is frozen from then on; packages   *)
(* finish one at a time, after their dependencies, and are charged once,   *)
(* within the budget; what is recorded of a finished package never changes.*)
(***************************************************************************)
EXTENDS Naturals

CONSTANTS Package, Dep, Cost, Budget, Approver, None

VARIABLES
  approver,  \* who approved the architecture, or None
  entry,     \* entry[p] : the output recorded for package p, or None
  spent      \* units charged

ledger == <<approver, entry, spent>>

Done == {p \in Package : entry[p] # None}

Init ==
  /\ approver = None
  /\ entry = [p \in Package |-> None]
  /\ spent = 0

Approve ==
  /\ Done = {}
  /\ approver' \in Approver
  /\ UNCHANGED <<entry, spent>>

Complete(p) ==
  /\ approver # None
  /\ p \notin Done
  /\ Dep[p] \subseteq Done
  /\ spent + Cost[p] <= Budget
  /\ entry'[p] # None
  /\ entry' = [entry EXCEPT ![p] = entry'[p]]
  /\ spent' = spent + Cost[p]
  /\ UNCHANGED approver

Next == Approve \/ \E p \in Package : Complete(p)

Spec == Init /\ [][Next]_ledger
=============================================================================
