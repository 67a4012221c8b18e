------------------------------ MODULE Harness ------------------------------
(***************************************************************************)
(* The design harness (swarm/memory/harness.py): a build runs through      *)
(* fixed phases, from the intent over the parts and the netlist to a       *)
(* verification that may send it back, and ends as a case in the design    *)
(* memory, from which a later build takes parts and netlist.  The session  *)
(* is checkpointed after each phase; a run that dies is resumed from there *)
(* but its notes in the memory stay.                                       *)
(*                                                                         *)
(* A netlist is what the verifier makes of it; a design, its parts counted.*)
(***************************************************************************)
EXTENDS Naturals, Sequences

CONSTANTS
  MaxParts,                               \* parts proposed or required by others
  BudgetBase, BudgetPerPart, BudgetMax,   \* BUDGET_BASE, BUDGET_PER_COMP, BUDGET_MAX
  MaxRefine, SubstituteTries,             \* MAX_REFINE, SUBSTITUTE_TRIES
  ReuseQuality,                           \* REUSE_QUALITY_MIN, in hundredths
  MaxSessions, MaxCrashes, MaxOutcomes    \* bounds

ASSUME HarnessConstants ==
  /\ {MaxParts, BudgetBase, BudgetPerPart, BudgetMax, MaxRefine, SubstituteTries, ReuseQuality,
      MaxSessions, MaxCrashes, MaxOutcomes} \subseteq Nat
  /\ MaxRefine > 0

VARIABLES
  session,   \* the session of the current or last run, 0 at first
  run,       \* its Session object
  saved,     \* its checkpoint
  notes,     \* the design memory
  crashes, outcomes

harnessVars == <<session, run, saved, notes, crashes, outcomes>>

HPhase == {"start", "retrieve", "components", "datasheet", "expand", "netlist", "verify", "store"}
Ended == {"done", "failed", "aborted"}
NetlistKind == {"none", "empty", "bad", "good"}

NewRun ==
  [phase |-> "start", status |-> "running", parts |-> 0, netlist |-> "none", refines |-> 0,
   calls |-> 0, unrealized |-> FALSE, reuse |-> 0, reusedNetlist |-> FALSE, note |-> 0]
NoRun == [NewRun EXCEPT !.phase = "done"]

HarnessInit ==
  /\ session = 0 /\ run = NoRun /\ saved = NoRun /\ notes = << >>
  /\ crashes = 0 /\ outcomes = 0

Least(m, n) == IF m < n THEN m ELSE n
Budget(r) == Least(BudgetMax, BudgetBase + BudgetPerPart * r.parts)
Overspent(r) == r.calls > Budget(r)
Designed(r) == r.netlist \in {"bad", "good"}

(* What verify() says: it knows nothing against a netlist without parts.   *)
Passes(r) == r.parts = 0 \/ r.netlist = "good"

-----------------------------------------------------------------------------
(* run(): a new session; a build that is asked for by name, or that the    *)
(* words of the intent make one.                                           *)
Build ==
  /\ run.phase \in Ended /\ saved = run /\ session < MaxSessions
  /\ session' = session + 1 /\ run' = NewRun /\ saved' = NewRun
  /\ UNCHANGED <<notes, crashes, outcomes>>

(* The head of the loop: overspent with nothing to show for it.            *)
NeverAborts(r) == FALSE  \* mutant
Aborts(r) == Overspent(r) /\ ~Designed(r)

At(phase) == run.phase = phase /\ run = saved /\ ~Aborts(run)
To(r) == run' = r /\ UNCHANGED <<session, saved, crashes, outcomes>>

Abort ==
  /\ run.phase \in HPhase /\ run = saved /\ Aborts(run)
  /\ To([run EXCEPT !.status = "aborted", !.phase = "aborted"]) /\ UNCHANGED notes

(* A provider raises.                                                      *)
PhaseFails ==
  /\ \E p \in {"retrieve", "components", "datasheet", "expand", "netlist", "verify"} : At(p)
  /\ To([run EXCEPT !.status = "failed", !.phase = "failed"]) /\ UNCHANGED notes

Classify ==
  /\ At("start")
  /\ \/ To([run EXCEPT !.phase = "retrieve"])
     \/ \E other \in {"modify", "ask"} : To([run EXCEPT !.status = other, !.phase = "done"])
  /\ UNCHANGED notes

(* The first similar case that was a good outcome.                         *)
Retrieve ==
  /\ At("retrieve")
  /\ \E found \in {0} \cup {i \in DOMAIN notes : notes[i].quality >= ReuseQuality} :
       To([run EXCEPT !.phase = "components", !.reuse = found])
  /\ UNCHANGED notes

Reuses(r) == r.reuse # 0

Components ==
  /\ At("components")
  /\ IF Reuses(run) /\ notes[run.reuse].parts > 0
     THEN To([run EXCEPT !.phase = "datasheet", !.parts = notes[run.reuse].parts])
     ELSE \E n \in 0..MaxParts :
            To([run EXCEPT !.phase = "datasheet", !.parts = n, !.calls = @ + 1])
  /\ UNCHANGED notes

(* Each part that is not known is read, or replaced, or left out.          *)
Datasheet ==
  /\ At("datasheet")
  /\ \E used \in 0..(1 + SubstituteTries) * run.parts, left \in 0..run.parts :
       To([run EXCEPT !.phase = "expand", !.calls = @ + used, !.parts = @ - left,
                      !.unrealized = left > 0])
  /\ UNCHANGED notes

Expand ==
  /\ At("expand")
  /\ \E n \in run.parts..MaxParts :
       /\ run.parts = 0 => n = 0
       /\ To([run EXCEPT !.phase = "netlist", !.parts = n])
  /\ UNCHANGED notes

(* A case's netlist, adapted, or a proposal.                               *)
Adaptable(r) == r.refines = 0 /\ Reuses(r) /\ notes[r.reuse].netlist \in {"bad", "good"}

Netlist ==
  /\ At("netlist")
  /\ \/ /\ Adaptable(run)
        /\ \E kind \in {"bad", "good"} :
             To([run EXCEPT !.phase = "verify", !.netlist = kind, !.reusedNetlist = TRUE])
     \/ \E kind \in {"empty", "bad", "good"} :
          To([run EXCEPT !.phase = "verify", !.netlist = kind, !.calls = @ + 1])
  /\ UNCHANGED notes

Uncounted(r) == [r EXCEPT !.phase = "netlist"]  \* mutant
Refined(r) == [r EXCEPT !.phase = "netlist", !.refines = @ + 1]

RefinesLeftLate(r) == r.refines <= MaxRefine  \* mutant
RefinesLeft(r) == r.refines < MaxRefine

AnyRefinable(r) == RefinesLeft(r)  \* mutant
Refinable(r) == RefinesLeft(r) /\ ~Overspent(r)

AcceptedAsIs(r) == [r EXCEPT !.phase = "store"]  \* mutant
Accepted(r) == [r EXCEPT !.phase = "store", !.status = "partial"]

VerifyEmpty(r) ==
  IF RefinesLeft(r) THEN Refined(r) ELSE [r EXCEPT !.phase = "store", !.status = "failed"]

Verify ==
  /\ At("verify")
  /\ To(CASE run.parts > 0 /\ run.netlist = "empty" -> VerifyEmpty(run)
          [] Passes(run) -> [run EXCEPT !.phase = "store"]
          [] ~Passes(run) /\ run.netlist # "empty" ->
               IF Refinable(run) THEN Refined(run) ELSE Accepted(run))
  /\ UNCHANGED notes

(* The outcome: its status, its quality, and a note unless a case was taken*)
(* over as it stands.                                                      *)
StatusIgnoring(r) == r.status  \* mutant
Outcome(r) == IF r.unrealized /\ r.status # "failed" THEN "partial" ELSE r.status

Quality(r, status) ==
  CASE status = "failed" -> 10
    [] status = "partial" -> 25
    [] status = "running" /\ r.refines = 0 -> IF r.reusedNetlist THEN 100 ELSE 95
    [] OTHER -> IF 90 - 15 * r.refines > 40 THEN 90 - 15 * r.refines ELSE 40

FinalStatus(status) == IF status = "running" THEN "complete" ELSE status

TakenOver(r) == r.reusedNetlist /\ r.refines = 0

Store ==
  /\ At("store")
  /\ LET status == Outcome(run)
         case == [of |-> session, status |-> FinalStatus(status),
                  quality |-> Quality(run, status), parts |-> run.parts, netlist |-> run.netlist]
     IN IF TakenOver(run)
        THEN /\ To([run EXCEPT !.phase = "done", !.status = status, !.note = run.reuse])
             /\ UNCHANGED notes
        ELSE /\ To([run EXCEPT !.phase = "done", !.status = status, !.note = Len(notes) + 1])
             /\ notes' = Append(notes, case)

(* The checkpoint after the phase, and the one at the end of the run.      *)
Finished(r) ==
  IF r.phase \in Ended /\ r.status = "running" THEN [r EXCEPT !.status = "complete"] ELSE r

Checkpoint ==
  /\ run # saved
  /\ run' = Finished(run) /\ saved' = Finished(run)
  /\ UNCHANGED <<session, notes, crashes, outcomes>>

(* The process dies before the checkpoint, and the session is resumed.     *)
Crash ==
  /\ run # saved /\ crashes < MaxCrashes
  /\ crashes' = crashes + 1 /\ run' = saved
  /\ UNCHANGED <<session, saved, notes, outcomes>>

(* design_record_outcome: what became of a design moves its quality.       *)
Delta == [manufactured |-> 20, exported |-> 12, accepted |-> 6, rejected |-> 30]

Moved(quality, outcome) ==
  IF outcome = "rejected" THEN quality - Least(quality, Delta[outcome])
  ELSE Least(100, quality + Delta[outcome])

RecordOutcome(i, outcome) ==
  /\ outcomes < MaxOutcomes /\ run.phase \in Ended /\ run = saved
  /\ outcomes' = outcomes + 1
  /\ notes' = [notes EXCEPT ![i].quality = Moved(@, outcome)]
  /\ UNCHANGED <<session, run, saved, crashes>>

RunStep ==
  \/ Classify \/ Retrieve \/ Components \/ Datasheet \/ Expand \/ Netlist \/ Verify \/ Store
  \/ Abort \/ PhaseFails

HarnessNext ==
  \/ Build \/ RunStep \/ Checkpoint \/ Crash
  \/ \E i \in DOMAIN notes, o \in DOMAIN Delta : RecordOutcome(i, o)

HarnessSpec == HarnessInit /\ [][HarnessNext]_harnessVars

(* The process goes on: only it moves the run, and it is resumed.          *)
HarnessFairness == WF_harnessVars(RunStep \/ Checkpoint)

-----------------------------------------------------------------------------
(* Every variable keeps to its type; refinements stay within MAX_REFINE.   *)
RunType ==
  [phase : HPhase \cup Ended,
   status : {"running", "modify", "ask", "failed", "partial", "aborted", "complete"},
   parts : 0..MaxParts, netlist : NetlistKind, refines : 0..MaxRefine, calls : Nat,
   unrealized : BOOLEAN, reuse : Nat, reusedNetlist : BOOLEAN, note : Nat]

HarnessTypeOK ==
  /\ session \in 0..MaxSessions /\ run \in RunType /\ saved \in RunType
  /\ notes \in Seq([of : 1..MaxSessions, status : {"complete", "partial", "failed"},
                    quality : 0..100, parts : 0..MaxParts, netlist : NetlistKind])
  /\ crashes \in 0..MaxCrashes /\ outcomes \in 0..MaxOutcomes

(* A build that ends complete has all its parts, and the verifier passed   *)
(* the netlist it ends with, through every refinement, reuse and resumption*)
CompleteIsSound ==
  saved.phase = "done" /\ saved.status = "complete" /\ session > 0 =>
    Passes(saved) /\ ~saved.unrealized

(* So has each case that the memory offers later builds as complete, also  *)
(* when the run that stored it died before its checkpoint.                 *)
MemoryIsSound ==
  \A i \in DOMAIN notes : notes[i].status = "complete" => Passes(notes[i])

(* "The run aborts rather than overspends": from a first netlist on, the   *)
(* run spends at most one call more than the budget of its design.         *)
CallsBounded == Designed(run) => run.calls <= Budget(run) + 1

(* A case that is credited for a build as it stands passed the verifier as *)
(* part of that build: no run is over its budget without a refinement.     *)
TakenOverIsSound ==
  run.phase = "done" /\ run.note # 0 /\ run.note = run.reuse => Passes(run)

(* The four: what builds, and the memory they learn from, may be relied on.*)
BuildsSound == CompleteIsSound /\ MemoryIsSound /\ TakenOverIsSound /\ CallsBounded

(* Each run comes to its end, and is checkpointed there.                   *)
RunEnds == run.phase \in HPhase ~> run.phase \in Ended /\ saved = run
=============================================================================
