---------------------------- MODULE Integration ----------------------------
(***************************************************************************)
(* Parallel development in designstudio-agentd: immutable configurations,  *)
(* proposal branches whose heads advance, integration sandboxes that       *)
(* snapshot heads, their evaluation and their approval, on top of a store  *)
(* whose writes may fail and whose daemon may die.                         *)
(*                                                                         *)
(* Identifiers are positions in a sequence: records are only ever added.   *)
(* Configuration 1 is the baseline of the workspace.  The revisions of the *)
(* workspace and of the product graph are those of one opening.            *)
(***************************************************************************)
EXTENDS Naturals, Sequences

CONSTANTS
  Person,     \* authors and approvers
  Role,       \* approval roles a branch may request
  Contract,   \* shared interface contracts
  Version,    \* proposed (version, digest) pairs of a contract
  Evidence,   \* identifiers of evidence records
  Draft,      \* the branches somebody may propose
  MaxConfs, MaxBranches, MaxBoxes,  \* bounds on the records created
  MaxFaults   \* bound on failed writes and crashes

(* What branch/create takes.  validate_contract_changes wants the changes  *)
(* of a branch to name each contract once.                                 *)
DraftType ==
  [author : Person, roles : (SUBSET Role) \ {{}}, evidence : SUBSET Evidence,
   proposes : SUBSET (Contract \X Version)]
OncePerContract(proposes) == \A p, q \in proposes : p[1] = q[1] => p = q

ASSUME Drafts ==
  /\ Draft \subseteq DraftType
  /\ \A d \in Draft : OncePerContract(d.proposes)
ASSUME IntegrationBounds ==
  /\ MaxConfs \in Nat \ {0} /\ MaxBranches \in Nat
  /\ MaxBoxes \in Nat /\ MaxFaults \in Nat

VARIABLES
  mem,       \* the state in memory: [confs, branches, boxes]
  disk,      \* the same in state.json
  up,        \* a daemon has the workspace open
  evidence,  \* the evidence records the daemon holds
  faults

vars == <<mem, disk, up, evidence, faults>>

Nobody == "nobody"  \* a role that has not approved
ASSUME NobodyIsNoPerson == Nobody \notin Person

Genesis ==
  [confs |-> <<[parent |-> 0, state |-> "committed"]>>, branches |-> <<>>, boxes |-> <<>>]

Init ==
  /\ mem = Genesis /\ disk = Genesis
  /\ up = FALSE
  /\ evidence = {}
  /\ faults = 0

-----------------------------------------------------------------------------
(* A configuration descends from another when the walk along the parents   *)
(* meets it: when every set that holds the first and the parents of its    *)
(* members holds the second.                                               *)
DescendsFrom(s, child, ancestor) ==
  \A S \in SUBSET (1..Len(s.confs)) :
    (child \in S /\ \A c \in S : s.confs[c].parent # 0 => s.confs[c].parent \in S)
      => ancestor \in S

WithConfOfBaseline(s, parent, state) ==  \* mutant: the root becomes the parent
  [s EXCEPT !.confs = Append(@, [parent |-> 1, state |-> state])]
WithConf(s, parent, state) ==
  [s EXCEPT !.confs = Append(@, [parent |-> parent, state |-> state])]
NewestNext(s) == Len(s.confs) + 1  \* mutant: the head is set before the record exists
Newest(s) == Len(s.confs)

WithHead(s, b, c) == [s EXCEPT !.branches[b].head = c]

Stale(s, i) == \E b \in DOMAIN s.boxes[i].heads : s.branches[b].head # s.boxes[i].heads[b]

-----------------------------------------------------------------------------
(* persist: the state in memory has changed whether or not the write works. *)
Fail == faults < MaxFaults /\ faults' = faults + 1

Persist(s) ==
  /\ mem' = s
  /\ \/ disk' = s /\ UNCHANGED faults
     \/ Fail /\ UNCHANGED disk

(* project/open: the evidence is what the evidence directories hold now.   *)
Open ==
  /\ ~up
  /\ up' = TRUE
  /\ mem' = disk
  /\ evidence' \in SUBSET Evidence
  /\ UNCHANGED <<disk, faults>>

(* configuration/save and variant/equip make a sandbox, configuration/     *)
(* commit the committed child of a sandbox.                                *)
Save(parent) ==
  /\ up /\ Newest(mem) < MaxConfs
  /\ Persist(WithConf(mem, parent, "sandbox"))
  /\ UNCHANGED <<up, evidence>>

Commit(parent) ==
  /\ up /\ Newest(mem) < MaxConfs
  /\ mem.confs[parent].state = "sandbox"
  /\ Persist(WithConf(mem, parent, "committed"))
  /\ UNCHANGED <<up, evidence>>

BranchCreate(baseline, d) ==
  /\ up /\ Len(mem.branches) < MaxBranches
  /\ mem.confs[baseline].state = "committed"
  /\ Persist([mem EXCEPT !.branches = Append(@,
       [baseline |-> baseline, head |-> baseline, draft |-> d])])
  /\ UNCHANGED <<up, evidence>>

(* branch/update persists twice: the new configuration, then the head.     *)
BranchUpdate(b) ==
  LET created == WithConf(mem, mem.branches[b].head, "sandbox")
      advanced == WithHead(created, b, Newest(created))
  IN  /\ up /\ Newest(mem) < MaxConfs
      /\ \/ mem' = advanced /\ disk' = advanced /\ UNCHANGED faults
         \/ Fail /\ mem' = created /\ UNCHANGED disk
         \/ Fail /\ mem' = advanced /\ disk' = created
      /\ UNCHANGED <<up, evidence>>

Requested(s, bs) == UNION {s.branches[b].draft.roles : b \in bs}

Sharing(s, bs, baseline) == \A b \in bs : s.branches[b].baseline = baseline

IntegrationCreate(baseline, bs) ==
  /\ up /\ Len(mem.boxes) < MaxBoxes
  /\ bs # {}
  /\ Sharing(mem, bs, baseline)
  /\ Persist([mem EXCEPT !.boxes = Append(@,
       [baseline |-> baseline, heads |-> [b \in bs |-> mem.branches[b].head],
        status |-> "draft", approvals |-> [r \in Requested(mem, bs) |-> Nobody]])])
  /\ UNCHANGED <<up, evidence>>

(* The checks of integration/evaluate.                                     *)
CompatibleLoose(s, bs) ==  \* mutant: the first proposal wins
  \A b \in bs : OncePerContract(s.branches[b].draft.proposes)
Compatible(s, bs) == OncePerContract(UNION {s.branches[b].draft.proposes : b \in bs})

Acceptable(i) ==
  LET box == mem.boxes[i]
      bs == DOMAIN box.heads
  IN  /\ ~Stale(mem, i)
      /\ \A b \in bs : DescendsFrom(mem, box.heads[b], box.baseline)
      /\ \A b \in bs : mem.branches[b].draft.evidence \subseteq evidence
      /\ Compatible(mem, bs)

EvaluatedRefreshed(i) ==  \* mutant: an evaluation takes up the current heads
  [mem EXCEPT !.boxes[i].status = IF Acceptable(i) THEN "ready_for_approval" ELSE "blocked",
              !.boxes[i].heads = [b \in DOMAIN @ |-> mem.branches[b].head],
              !.boxes[i].approvals = [r \in DOMAIN @ |-> Nobody]]
Evaluated(i) ==
  [mem EXCEPT !.boxes[i].status = IF Acceptable(i) THEN "ready_for_approval" ELSE "blocked",
              !.boxes[i].approvals = [r \in DOMAIN @ |-> Nobody]]

IntegrationEvaluate(i) ==
  /\ up
  /\ Persist(Evaluated(i))
  /\ UNCHANGED <<up, evidence>>

Authors(s, i) == {s.branches[b].draft.author : b \in DOMAIN s.boxes[i].heads}

IndependentOfOne(s, i, person) ==  \* mutant: any quantified as exists
  \E b \in DOMAIN s.boxes[i].heads : s.branches[b].draft.author # person
Independent(s, i, person) == person \notin Authors(s, i)

Complete(approvals) == \A r \in DOMAIN approvals : approvals[r] # Nobody

Approved(i, role, person) ==
  LET approvals == [mem.boxes[i].approvals EXCEPT ![role] = person]
  IN  [mem EXCEPT !.boxes[i].approvals = approvals,
                  !.boxes[i].status = IF Complete(approvals) THEN "approved" ELSE @]

IntegrationApprove(i, role, person) ==
  /\ up
  /\ mem.boxes[i].status \in {"ready_for_approval", "approved"}
  /\ role \in DOMAIN mem.boxes[i].approvals
  /\ Independent(mem, i, person)
  /\ Persist(Approved(i, role, person))
  /\ UNCHANGED <<up, evidence>>

Crash ==
  /\ up /\ Fail
  /\ up' = FALSE
  /\ mem' = disk
  /\ evidence' = {}
  /\ UNCHANGED disk

Next ==
  \/ Open \/ Crash
  \/ \E c \in DOMAIN mem.confs : Save(c) \/ Commit(c) \/ (\E d \in Draft : BranchCreate(c, d))
  \/ \E b \in DOMAIN mem.branches : BranchUpdate(b)
  \/ \E c \in DOMAIN mem.confs, bs \in SUBSET DOMAIN mem.branches : IntegrationCreate(c, bs)
  \/ \E i \in DOMAIN mem.boxes : IntegrationEvaluate(i)
  \/ \E i \in DOMAIN mem.boxes, role \in Role, person \in Person :
       IntegrationApprove(i, role, person)

Spec == Init /\ [][Next]_vars

-----------------------------------------------------------------------------
Branches(s) == DOMAIN s.branches
Boxes(s) == DOMAIN s.boxes

Confs == [parent : 0..MaxConfs, state : {"sandbox", "committed"}]
BranchRecords == [baseline : 1..MaxConfs, head : 1..MaxConfs, draft : Draft]
BoxRecords ==
  [baseline : 1..MaxConfs,
   heads : UNION {[bs -> 1..MaxConfs] : bs \in SUBSET (1..MaxBranches)},
   status : {"draft", "blocked", "ready_for_approval", "approved"},
   approvals : UNION {[roles -> Person \cup {Nobody}] : roles \in SUBSET Role}]

StateOK(s) ==
  /\ s \in [confs : Seq(Confs), branches : Seq(BranchRecords), boxes : Seq(BoxRecords)]
  /\ Len(s.confs) \in 1..MaxConfs /\ Len(s.branches) <= MaxBranches
  /\ \A c \in 1..Len(s.confs) : s.confs[c].parent < c
  /\ \A b \in Branches(s) : {s.branches[b].baseline, s.branches[b].head} \subseteq 1..Len(s.confs)
  /\ \A i \in Boxes(s) : DOMAIN s.boxes[i].heads \subseteq Branches(s)

(* Both copies of the state are well formed: every reference leads to a    *)
(* record that exists, and parents come before their children.             *)
TypeOK ==
  /\ StateOK(mem) /\ StateOK(disk)
  /\ up \in BOOLEAN
  /\ evidence \subseteq Evidence
  /\ faults \in 0..MaxFaults

(* Work on a branch never leaves the line it started on: its head descends *)
(* from its baseline and from every head a sandbox took from it, in memory *)
(* and after a crash between the two writes of branch/update.              *)
HeadsOf(s) ==
  /\ \A b \in Branches(s) : DescendsFrom(s, s.branches[b].head, s.branches[b].baseline)
  /\ \A i \in Boxes(s) : \A b \in DOMAIN s.boxes[i].heads :
       /\ s.branches[b].baseline = s.boxes[i].baseline
       /\ DescendsFrom(s, s.branches[b].head, s.boxes[i].heads[b])
HeadsAdvance == HeadsOf(mem) /\ HeadsOf(disk)

(* No author of a branch in a sandbox is among its approvers, whichever    *)
(* branch they wrote and in whichever order the roles approve.             *)
IndependentIn(s) ==
  \A i \in Boxes(s) : \A r \in DOMAIN s.boxes[i].approvals :
    s.boxes[i].approvals[r] \notin Authors(s, i)
ApproversIndependent == IndependentIn(mem) /\ IndependentIn(disk)

(* A verdict means what it says: nothing is approved before it passed, an  *)
(* approved sandbox has every role its branches requested, and its         *)
(* branches agree on every contract they change.                           *)
JustifiedIn(s) ==
  \A i \in Boxes(s) :
    LET box == s.boxes[i]
        granted == {r \in DOMAIN box.approvals : box.approvals[r] # Nobody}
    IN  /\ DOMAIN box.approvals = Requested(s, DOMAIN box.heads)
        /\ box.status \in {"draft", "blocked"} => granted = {}
        /\ (box.status = "approved") <=> (granted = DOMAIN box.approvals)
        /\ box.status \in {"ready_for_approval", "approved"} =>
             \A a, b \in DOMAIN box.heads :
               \A p \in s.branches[a].draft.proposes, q \in s.branches[b].draft.proposes :
                 p[1] = q[1] => p[2] = q[2]
VerdictsJustified == JustifiedIn(mem) /\ JustifiedIn(disk)

(* Both: an approval was given by others than the authors, for what passed.*)
ApprovalsSound == ApproversIndependent /\ VerdictsJustified

(* A sandbox in state.json whose snapshot a branch has left behind stays   *)
(* behind: no evaluation, retry or restart makes it current again.         *)
StaleForever ==
  [][\A i \in Boxes(disk) : Stale(disk, i) => Stale(disk', i)]_vars
=============================================================================
