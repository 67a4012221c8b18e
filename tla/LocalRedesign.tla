--------------------------- MODULE LocalRedesign ---------------------------
(***************************************************************************)
(* Local redesigns of a FreeCAD document (local_redesign_v2.py): faces of  *)
(* an object are captured, a program makes a sibling of the object as a    *)
(* preview, and the preview is discarded, or committed, which hands it the *)
(* identity of the object and keeps that as the baseline of a rollback.    *)
(* Contracts and receipts are files, written by one call and read by a     *)
(* later one; in between the user changes shapes.                          *)
(*                                                                         *)
(* A call is one step: the worker that runs it publishes all its files, or *)
(* none if it raises (NativeTool).                                         *)
(***************************************************************************)
EXTENDS Naturals, FiniteSets

CONSTANTS
  Part, Redesign,            \* objects with an identity of their own; redesign ids
  MaxPreviews, MaxShapeEdits \* bounds

ASSUME RedesignConstants ==
  /\ IsFiniteSet(Part) /\ IsFiniteSet(Redesign)
  /\ {MaxPreviews, MaxShapeEdits} \subseteq Nat /\ Part \cap Nat = {}

VARIABLES
  document,    \* the objects that are there
  contract,    \* the contract file of each redesign
  previewed,   \* its preview receipt
  committed,   \* its commit receipt
  programs,    \* programs run so far; each names the object it makes
  shapeEdits,
  disorder     \* history: a second preview of a redesign beside its first, a commit
               \* over a preview of another redesign, or a rollback of a commit that
               \* another one has been built on

redesignVars == <<document, contract, previewed, committed, programs, shapeEdits, disorder>>

NoFile == <<>>
Object == Part \cup 1..MaxPreviews
Own(p) == <<"part", p>>
PreviewId(r) == <<"preview", r>>
BaselineId(id, n) == <<"baseline", id, n>>

RedesignInit ==
  /\ document = [p \in Part |-> [id |-> Own(p), shape |-> 0, status |-> "none"]]
  /\ contract = [r \in Redesign |-> NoFile] /\ previewed = [r \in Redesign |-> NoFile]
  /\ committed = [r \in Redesign |-> NoFile]
  /\ programs = 0 /\ shapeEdits = 0 /\ disorder = FALSE

Present == DOMAIN document
Holders(id) == {o \in Present : document[o].id = id}

(* _semantic_objects, which every call but a rollback goes through, refuses*)
(* a document in which two objects have one identity.                      *)
Unique == \A o, q \in Present : document[o].id = document[q].id => o = q
Snapshot == {<<document[o].id, document[o].shape>> : o \in Present}

Capture(r, o) ==
  /\ Unique /\ contract[r] = NoFile
  /\ contract' = [contract EXCEPT
       ![r] = [id |-> document[o].id, target |-> o, shape |-> document[o].shape, program |-> 0]]
  /\ UNCHANGED <<document, previewed, committed, programs, shapeEdits, disorder>>

(* preview with a program: the contract gets it, also when its candidate is*)
(* then refused.                                                           *)
ProgramUnwritten(r) ==  \* mutant: the contract is not written again
  /\ contract[r] # NoFile /\ programs < MaxPreviews /\ programs' = programs + 1
  /\ UNCHANGED <<contract, committed, shapeEdits>>
Program(r) ==
  /\ contract[r] # NoFile /\ programs < MaxPreviews /\ programs' = programs + 1
  /\ contract' = [contract EXCEPT ![r].program = programs + 1]
  /\ UNCHANGED <<committed, shapeEdits>>

PreviewRefused(r) == Program(r) /\ UNCHANGED <<document, previewed, disorder>>

PreviewRedesign(r) ==
  LET c == contract[r]
      n == programs + 1
  IN /\ Program(r) /\ Unique /\ Holders(c.id) = {c.target} /\ document[c.target].shape = c.shape
     /\ document' = [o \in Present \cup {n} |->
          IF o = n THEN [id |-> PreviewId(r), shape |-> n, status |-> "none"] ELSE document[o]]
     /\ previewed' = [previewed EXCEPT
          ![r] = [id |-> c.id, target |-> c.target, shape |-> c.shape, object |-> n,
                  program |-> n, before |-> Snapshot]]
     /\ disorder' = (disorder \/ Holders(PreviewId(r)) # {})

(* What commit and discard ask of the document they find.                  *)
TargetAsPreviewed(p) ==
  \E t \in Holders(p.id) : t = p.target /\ document[t].shape = p.shape

BranchAsPreviewed(p) == p.object \in Present /\ document[p.object].shape = p.object

AnyOthers(p) == TRUE  \* mutant
OthersAsPreviewed(p) == p.before \subseteq Snapshot

BaselineOf(id, n) == BaselineId(id, 0)  \* mutant: one name for all of them
BaselineName(id, n) == BaselineId(id, n)

Renamed(o, id, status) == [id |-> id, shape |-> document[o].shape, status |-> status]

(* commit_local_redesign_v2, which looks at the shape of whatever holds the*)
(* identity now, not at its name.                                          *)
TargetShape(p, t) == document[t].shape = p.shape

Commit(r) ==
  LET p == previewed[r] IN
  /\ p # NoFile /\ Unique /\ contract[r].program = p.program
  /\ BranchAsPreviewed(p) /\ OthersAsPreviewed(p)
  /\ \E t \in Holders(p.id) :
       /\ TargetShape(p, t)
       /\ document' = [document EXCEPT
            ![t] = Renamed(t, BaselineName(p.id, p.object), "retained_baseline"),
            ![p.object] = Renamed(p.object, p.id, "committed")]
       /\ committed' = [committed EXCEPT
            ![r] = [id |-> p.id, candidate |-> p.object, baseline |-> t,
                    kept |-> BaselineName(p.id, p.object)]]
       /\ disorder' = (disorder \/ p.id \notin {Own(q) : q \in Part})
  /\ UNCHANGED <<contract, previewed, programs, shapeEdits>>

AnyState(p) == TRUE  \* mutant: the preview's objects are removed by their names
AsPreviewed(p) == BranchAsPreviewed(p) /\ TargetAsPreviewed(p) /\ OthersAsPreviewed(p)

NotCommitted(p) == document[p.object].status # "committed" /\ document[p.object].id # p.id

Discard(r) ==
  LET p == previewed[r] IN
  /\ p # NoFile /\ Unique /\ p.object \in Present
  /\ NotCommitted(p) /\ AsPreviewed(p)
  /\ document' = [o \in Present \ {p.object} |-> document[o]]
  /\ UNCHANGED <<contract, previewed, committed, programs, shapeEdits, disorder>>

(* rollback_local_redesign_v2 takes any commit receipt, in any order.      *)
Newest(c) == document[c.candidate].id = c.id /\ document[c.baseline].id = c.kept

RolledBack(c) ==
  [document EXCEPT
     ![c.candidate] = Renamed(c.candidate, c.kept, "rollback_candidate_hidden"),
     ![c.baseline] = Renamed(c.baseline, c.id, "rollback_restored")]

Rollback(r) ==
  LET c == committed[r] IN
  /\ c # NoFile /\ {c.candidate, c.baseline} \subseteq Present
  /\ document' = RolledBack(c) /\ disorder' = (disorder \/ ~Newest(c))
  /\ UNCHANGED <<contract, previewed, committed, programs, shapeEdits>>

(* The user changes the shape of an object and saves the document.         *)
Reshape(o) ==
  /\ shapeEdits < MaxShapeEdits /\ shapeEdits' = shapeEdits + 1
  /\ document' = [document EXCEPT ![o].shape = MaxPreviews + shapeEdits + 1]
  /\ UNCHANGED <<contract, previewed, committed, programs, disorder>>

RedesignNext ==
  \/ \E r \in Redesign :
       \/ PreviewRefused(r) \/ PreviewRedesign(r) \/ Commit(r) \/ Discard(r) \/ Rollback(r)
       \/ \E o \in Present : Capture(r, o)
  \/ \E o \in Present : Reshape(o)

RedesignSpec == RedesignInit /\ [][RedesignNext]_redesignVars

-----------------------------------------------------------------------------
(* Every variable keeps to its type, and the receipts to the contracts they*)
(* were made for.                                                          *)
RedesignTypeOK ==
  /\ Part \subseteq Present /\ Present \subseteq Object
  /\ \A o \in Present :
       /\ document[o].shape \in 0..MaxPreviews + MaxShapeEdits
       /\ document[o].status \in {"none", "retained_baseline", "committed", "rollback_restored",
                                  "rollback_candidate_hidden"}
  /\ \A r \in Redesign :
       /\ previewed[r] # NoFile =>
            /\ contract[r] # NoFile /\ previewed[r].id = contract[r].id
            /\ previewed[r].program <= contract[r].program
       /\ committed[r] # NoFile => previewed[r] # NoFile /\ committed[r].id = previewed[r].id
  /\ programs \in 0..MaxPreviews /\ shapeEdits \in 0..MaxShapeEdits /\ disorder \in BOOLEAN

(* Each part of the design is one object at any time, whatever is previewed*)
(* over the other, committed on top of it, rolled back and committed again:*)
(* as long as a redesign has one preview at a time, previews are not       *)
(* redesigned themselves and commits are rolled back newest first.         *)
IdentityHeld == ~disorder => Unique /\ \A p \in Part : Holders(Own(p)) # {}

(* The document never comes to have two objects of one identity, for no    *)
(* call but a rollback would open it again.                                *)
IdentityUnique == Unique

(* "baseline_must_be_retained": while a committed candidate has the        *)
(* identity of a part, what it replaced is in the document.                *)
BaselineRetained ==
  ~disorder => \A r \in Redesign :
    LET c == committed[r] IN
    c # NoFile /\ c.candidate \in Present /\ document[c.candidate].status = "committed" =>
      c.baseline \in Present

(* A commit replaces the object that was captured, by the shape that was   *)
(* verified, in a document in which nothing that the verification looked at*)
(* has changed since.                                                      *)
CommitsAsVerified ==
  [][\A r \in Redesign : committed'[r] # committed[r] =>
       LET p == previewed[r] IN
       /\ committed'[r].baseline = p.target /\ document[p.target].shape = contract[r].shape
       /\ document[p.object].shape = p.object
       /\ \A q \in Part : Holders(Own(q)) = Holders(Own(q))' \/ p.id = Own(q)
       /\ p.before \subseteq Snapshot]_redesignVars

(* The three: parts keep one object and its baseline, through commits of   *)
(* what was verified.                                                      *)
RedesignsSound == [](IdentityHeld /\ BaselineRetained) /\ CommitsAsVerified
=============================================================================
