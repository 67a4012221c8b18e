------------------------ MODULE ComponentPublication ------------------------
(***************************************************************************)
(* One part of the component library (swarm/memory): its previews are      *)
(* extracted from datasheets into files, queued for review in SQLite by    *)
(* their digest, approved or rejected, and published into the library.     *)
(* A preview is a version of the part; the directory of its files is named *)
(* after its CAD program, so two versions may use the same one.            *)
(***************************************************************************)
EXTENDS Naturals

CONSTANTS
  Preview, NoPreview, \* the versions extraction may produce
  Validated,          \* those that pass the deterministic checks
  CadProgram, ProgramOf,
  Reviewer            \* processes that approve and publish

ASSUME PublicationConstants ==
  /\ Validated \subseteq Preview /\ NoPreview \notin Preview
  /\ ProgramOf \in [Preview -> CadProgram]

VARIABLES
  folder,     \* of each program: version of the assets (program, STEP, footprint and
              \* datasheet), of the component JSON and of the manifest, and its state
  extractor,  \* version whose files are written, and how far
  rows,       \* component_review_queue
  reviewing,  \* what each reviewer's publish_approved does next, what it has read, and
              \* (history) that no extraction has written its folder since the check
  library,    \* the component in SQLite: versions of its record, assets and manifest
  approvedOnce, \* versions whose approval is on record, also after a later decision
  begun         \* history: those that publish_approved has approved, and that have not
                \* been published or decided on again

publicationVars == <<folder, extractor, rows, reviewing, library, approvedOnce, begun>>
queueRows == <<rows, approvedOnce, begun>>

NoExtraction == [version |-> NoPreview, stage |-> "none"]
AtRest == [at |-> "idle", row |-> NoPreview, component |-> NoPreview, manifest |-> NoPreview,
           quiet |-> FALSE]
Empty == [assets |-> NoPreview, component |-> NoPreview, manifest |-> NoPreview, state |-> "none"]
NoComponent == [component |-> NoPreview, assets |-> NoPreview, manifest |-> NoPreview,
                quiet |-> FALSE]

PublicationInit ==
  /\ folder = [c \in CadProgram |-> Empty] /\ extractor = NoExtraction
  /\ rows = [v \in Preview |-> "absent"]
  /\ reviewing = [s \in Reviewer |-> AtRest] /\ library = NoComponent
  /\ approvedOnce = {} /\ begun = {}

Folder(v) == ProgramOf[v]

-----------------------------------------------------------------------------
(* ComponentWorkflow.process, for a part that the library lacks: the files *)
(* of a preview, its manifest, then its row.  What fails the checks has a  *)
(* folder of its own, which nothing publishes.                             *)
Writes(v, contents) ==
  /\ folder' = IF v \in Validated THEN [folder EXCEPT ![Folder(v)] = contents] ELSE folder
  /\ reviewing' = [s \in Reviewer |->
       [reviewing[s] EXCEPT
          !.quiet = @ /\ ~(v \in Validated /\ Folder(reviewing[s].row) = Folder(v))]]

Extract(v) ==
  /\ extractor = NoExtraction /\ library.component = NoPreview
  /\ extractor' = [version |-> v, stage |-> "assets"]
  /\ Writes(v, [folder[Folder(v)] EXCEPT !.assets = v])
  /\ UNCHANGED <<queueRows, library>>

WriteComponent ==
  LET v == extractor.version IN
  /\ extractor.stage = "assets" /\ extractor' = [extractor EXCEPT !.stage = "component"]
  /\ Writes(v, [folder[Folder(v)] EXCEPT !.component = v])
  /\ UNCHANGED <<queueRows, library>>

WriteManifest ==
  LET v == extractor.version IN
  /\ extractor.stage = "component" /\ extractor' = [extractor EXCEPT !.stage = "manifest"]
  /\ Writes(v, [folder[Folder(v)] EXCEPT !.manifest = v, !.state = "ready"])
  /\ UNCHANGED <<queueRows, library>>

QueuedReady(v) == "ready"  \* mutant: whatever the checks say
QueuedAs(v) == IF v \in Validated THEN "ready" ELSE "blocked"

(* enqueue_component_review keeps a decision that stands on this digest.   *)
Enqueue ==
  LET v == extractor.version IN
  /\ extractor.stage = "manifest" /\ extractor' = NoExtraction
  /\ rows' = [rows EXCEPT ![v] = IF @ \in {"approved", "rejected"} THEN @ ELSE QueuedAs(v)]
  /\ UNCHANGED <<folder, approvedOnce, begun, reviewing, library>>

ExtractionFails ==
  /\ extractor # NoExtraction /\ extractor' = NoExtraction
  /\ UNCHANGED <<folder, queueRows, reviewing, library>>

-----------------------------------------------------------------------------
(* publish_approved looks for the row, selects it once more, records the   *)
(* approval of what it has selected, commits, and hands the path of the    *)
(* manifest to the publisher.                                              *)
Moves(s, to) == reviewing' = [reviewing EXCEPT ![s].at = to]

Look(s, v) ==
  /\ reviewing[s].at = "idle" /\ rows[v] = "ready"
  /\ reviewing' = [reviewing EXCEPT ![s] = [AtRest EXCEPT !.at = "looked", !.row = v]]
  /\ UNCHANGED <<folder, extractor, queueRows, library>>

Select(s) ==
  /\ reviewing[s].at = "looked"
  /\ IF rows[reviewing[s].row] = "ready" THEN Moves(s, "selected")
     ELSE reviewing' = [reviewing EXCEPT ![s] = AtRest]
  /\ UNCHANGED <<folder, extractor, queueRows, library>>

Approve(s) ==
  LET v == reviewing[s].row IN
  /\ reviewing[s].at = "selected" /\ Moves(s, "approved")
  /\ rows' = [rows EXCEPT ![v] = "approved"]
  /\ approvedOnce' = approvedOnce \cup {v} /\ begun' = begun \cup {v}
  /\ UNCHANGED <<folder, extractor, library>>

ApproveAll ==
  LET ready == {v \in Preview : rows[v] = "ready"} IN
  /\ ready # {}
  /\ rows' = [v \in Preview |-> IF v \in ready THEN "approved" ELSE rows[v]]
  /\ approvedOnce' = approvedOnce \cup ready /\ begun' = begun \ ready
  /\ UNCHANGED <<folder, extractor, reviewing, library>>

Reject(v) ==
  /\ rows[v] # "absent"
  /\ rows' = [rows EXCEPT ![v] = "rejected"] /\ begun' = begun \ {v}
  /\ UNCHANGED <<folder, extractor, approvedOnce, reviewing, library>>

(* publish_component_preview takes the manifest that is at the path now,   *)
(* if it is ready and the files have the digests it states; reads the      *)
(* component again; and stores it with the assets, read once more.         *)
AnyFiles(f) == f.state = "ready"  \* mutant: files are not compared with the manifest
Consistent(f) == f.state = "ready" /\ f.component = f.manifest /\ f.assets = f.manifest

CheckFiles(s) ==
  LET f == folder[Folder(reviewing[s].row)] IN
  /\ reviewing[s].at = "approved" /\ Consistent(f)
  /\ reviewing' = [reviewing EXCEPT
       ![s].at = "checked", ![s].manifest = f.manifest, ![s].quiet = TRUE]
  /\ UNCHANGED <<folder, extractor, queueRows, library>>

ReadComponent(s) ==
  /\ reviewing[s].at = "checked"
  /\ reviewing' = [reviewing EXCEPT
       ![s].at = "read", ![s].component = folder[Folder(reviewing[s].row)].component]
  /\ UNCHANGED <<folder, extractor, queueRows, library>>

StoreComponent(s) ==
  LET w == reviewing[s] IN
  /\ w.at = "read" /\ Moves(s, "stored")
  /\ library' = [component |-> w.component, assets |-> folder[Folder(w.row)].assets,
                 manifest |-> w.manifest, quiet |-> w.quiet]
  /\ UNCHANGED <<folder, extractor, queueRows>>

MarkPublished(s) ==
  LET w == reviewing[s] IN
  /\ w.at = "stored" /\ reviewing' = [reviewing EXCEPT ![s] = AtRest]
  /\ folder' = [folder EXCEPT ![Folder(w.row)].manifest = w.manifest,
                              ![Folder(w.row)].state = "published"]
  /\ begun' = begun \ {w.row}
  /\ UNCHANGED <<extractor, rows, approvedOnce, library>>

(* A publication that raises puts its row back to ready, whatever the row  *)
(* has become; one that dies leaves everything as it is.                   *)
KeptAsIs(v) == rows  \* mutant
GivenBack(v) == [rows EXCEPT ![v] = "ready"]

Pursuing(s) == reviewing[s].at \in {"approved", "checked", "read", "stored"}

PublicationRaises(s) ==
  /\ Pursuing(s) /\ rows' = GivenBack(reviewing[s].row)
  /\ reviewing' = [reviewing EXCEPT ![s] = AtRest]
  /\ UNCHANGED <<folder, extractor, approvedOnce, begun, library>>

ReviewerDies(s) ==
  /\ reviewing[s] # AtRest /\ reviewing' = [reviewing EXCEPT ![s] = AtRest]
  /\ begun' = IF Pursuing(s) THEN begun \ {reviewing[s].row} ELSE begun
  /\ UNCHANGED <<folder, extractor, rows, approvedOnce, library>>

PublicationNext ==
  \/ \E v \in Preview : Extract(v) \/ Reject(v)
  \/ WriteComponent \/ WriteManifest \/ Enqueue \/ ExtractionFails \/ ApproveAll
  \/ \E s \in Reviewer :
       \/ \E v \in Preview : Look(s, v)
       \/ Select(s) \/ Approve(s) \/ CheckFiles(s) \/ ReadComponent(s)
       \/ StoreComponent(s) \/ MarkPublished(s)
       \/ PublicationRaises(s) \/ ReviewerDies(s)

PublicationSpec == PublicationInit /\ [][PublicationNext]_publicationVars

-----------------------------------------------------------------------------
(* Every variable has its type; a row that is approved has its approval on *)
(* record, and what failed the checks is never ready or approved.          *)
PublicationTypeOK ==
  /\ \A c \in CadProgram : folder[c].state \in {"none", "ready", "published"}
  /\ \A v \in Preview :
       /\ rows[v] \in {"absent", "ready", "blocked", "approved", "rejected"}
       /\ rows[v] = "approved" => v \in approvedOnce
       /\ rows[v] \in {"ready", "approved"} => v \in Validated
  /\ extractor.stage \in {"none", "assets", "component", "manifest"}
  /\ \A s \in Reviewer :
       reviewing[s].at \in {"idle", "looked", "selected", "approved", "checked", "read", "stored"}

(* What the library holds, record, assets and manifest, is of one CAD      *)
(* program; and it is of one version, never half of an extraction that     *)
(* failed, unless an extraction has written the folder between the check   *)
(* of the digests and the last of the reads that follow it.                *)
StoredWhole ==
  library.component # NoPreview =>
    /\ Folder(library.component) = Folder(library.manifest)
    /\ Folder(library.assets) = Folder(library.manifest)
    /\ library.quiet => /\ library.component = library.manifest
                        /\ library.assets = library.manifest

(* "publication is resumable after a transient failure": an approval that  *)
(* publish_approved made is published, being published, or can be asked    *)
(* for again, unless a reviewer died while it published it.                *)
Resumable ==
  \A v \in begun : rows[v] = "approved" =>
    \E s \in Reviewer : Pursuing(s) /\ reviewing[s].row = v

(* Both: publication is whole, or can be asked for again.                  *)
PublicationSound == StoredWhole /\ Resumable

(* "approval is per exact artifact digest, and blocked, rejected, changed, *)
(* or unreviewed assets cannot be published for placement": the version in *)
(* the library is one that was approved.                                   *)
PublishedAsReviewed == library.component # NoPreview => library.component \in approvedOnce
=============================================================================
