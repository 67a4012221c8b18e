--------------------------- MODULE WorkbenchProofs --------------------------
(***************************************************************************)
(* Proofs about the design tools that write files and reports: for each an *)
(* inductive invariant of its own variables, the lemmas that its actions   *)
(* preserve it and the theorem of the properties it implies; at the end,   *)
(* what follows for Workbench, where one tool is chosen and the others     *)
(* stay as they are.                                                       *)
(***************************************************************************)
EXTENDS Workbench, FiniteSetTheorems, SequenceTheorems, NaturalsInduction,
        WellFoundedInduction, TLAPS

-----------------------------------------------------------------------------
(* The update installer, the engineering graph and the incremental design. *)

InstallerInv ==
  /\ InstallerTypeOK /\ ProductSafe
  /\ dest = Nothing => previous # Remains
  /\ phase \in {"clear", "aside", "drop"} => dest \in Version
  /\ phase \in {"clear", "aside", "in"} => staged \in Version

LEMMA InstallerStep ==
  ASSUME InstallerInv, [InstallerNext]_installerVars
  PROVE  InstallerInv'
<1> USE InstallerConstants DEF InstallerInv, InstallerTypeOK, ProductSafe, DestWhole, ProductKept,
                               RefusedKeeps, Phases, Results
<1>1. CASE StartUpdate
  BY <1>1 DEF StartUpdate
<1>2. CASE VerifyArchive
  BY <1>2 DEF VerifyArchive, Goes
<1>3. ASSUME NEW v \in Version, NEW replace \in BOOLEAN, Unpack(v, replace)
      PROVE InstallerInv'
  BY <1>3 DEF Unpack, Raises, Goes
<1>4. CASE ClearBackup
  BY <1>4 DEF ClearBackup, Removes, Goes
<1>5. CASE MoveAside
  BY <1>5 DEF MoveAside, Raises, Goes
<1>6. CASE MoveIn
  BY <1>6 DEF MoveIn, Raises, Goes
<1>7. CASE DropBackup
  BY <1>7 DEF DropBackup, Removes, Goes
<1>8. CASE Rescue
  BY <1>8 DEF Rescue, Rescues, Goes
<1>9. CASE Die
  BY <1>9 DEF Die
<1>10. CASE UNCHANGED installerVars
  BY <1>10 DEF installerVars
<1> QED
  BY <1>1, <1>2, <1>3, <1>4, <1>5, <1>6, <1>7, <1>8, <1>9, <1>10 DEF InstallerNext

(* ProductSafe: an update, stopped wherever it may be and tried again,     *)
(* leaves a user who had a product with a whole one in its place.          *)
THEOREM ProductIsSafe == InstallerSpec => [](InstallerTypeOK /\ ProductSafe)
<1>1. InstallerInit => InstallerInv
  BY InstallerConstants
     DEF InstallerInit, InstallerInv, InstallerTypeOK, ProductSafe, DestWhole, ProductKept,
         RefusedKeeps, Phases, Results
<1>2. InstallerInv => InstallerTypeOK /\ ProductSafe
  BY DEF InstallerInv
<1> QED
  BY <1>1, <1>2, InstallerStep, PTL DEF InstallerSpec

-----------------------------------------------------------------------------
GraphInv ==
  /\ GraphTypeOK /\ PublishedQualified
  /\ artifacts \in [DOMAIN artifacts -> Digest]
  /\ node \notin {"publication", "finish", "complete"} => qualification # {Pass}
  /\ node = "review" => failures = {}
  /\ node = "repair" => changed = Required(qualification)

LEMMA GraphStep ==
  ASSUME GraphInv, [GraphNext]_graphVars
  PROVE  GraphInv'
<1> USE GraphConstants DEF GraphInv, GraphTypeOK, PublishedQualified, Required, Finding
<1>1. CASE Normalise
  BY <1>1 DEF Normalise
<1>2. CASE Synthesise
  BY <1>2 DEF Synthesise
<1>3. CASE Validate
  BY <1>3 DEF Validate, Clear
<1>4. CASE Review
  BY <1>4 DEF Review, Clear
<1>5. CASE Qualify
  BY <1>5 DEF Qualify, Satisfied, Failing
<1>6. CASE ScopeRepair
  BY <1>6 DEF ScopeRepair
<1>7. CASE Repair
  BY <1>7 DEF Repair, RepairsChanged
<1>8. CASE PublishBundle
  BY <1>8 DEF PublishBundle
<1>9. CASE CompleteRun
  BY <1>9 DEF CompleteRun
<1>10. CASE UNCHANGED graphVars
  BY <1>10 DEF graphVars
<1> QED
  BY <1>1, <1>2, <1>3, <1>4, <1>5, <1>6, <1>7, <1>8, <1>9, <1>10 DEF GraphNext

(* GraphSound: a repair changes the artifacts of the failed nodes and      *)
(* those that depend on them, and only what qualified is published.        *)
THEOREM GraphIsSound == GraphSpec => GraphSound
<1> DEFINE Scoped ==
      /\ DOMAIN artifacts' = DOMAIN artifacts
      /\ {d \in DOMAIN artifacts : artifacts'[d] # artifacts[d]}
           = failures \cup interface \cup (qualification \ {Pass})
<1>1. GraphInit => GraphInv
  BY GraphConstants DEF GraphInit, GraphInv, GraphTypeOK, PublishedQualified, NoArtifacts
<1>2. GraphInv => PublishedQualified
  BY DEF GraphInv
<1>3. ASSUME GraphInv, GraphNext, node # "synthesis", artifacts' # artifacts PROVE Scoped
  <2>1. Repair
    BY <1>3
       DEF GraphNext, Normalise, Synthesise, Validate, Review, Qualify, ScopeRepair,
           PublishBundle, CompleteRun
  <2> QED
    BY <2>1, <1>3 DEF Repair, RepairsChanged, GraphInv, Required, GraphTypeOK
<1>4. GraphInv /\ [GraphNext]_graphVars
        => [node # "synthesis" /\ artifacts' # artifacts => Scoped]_graphVars
  BY <1>3
<1> QED
  BY <1>1, <1>2, <1>4, GraphStep, PTL DEF GraphSpec, GraphSound, RepairsScoped

-----------------------------------------------------------------------------
DesignInv ==
  /\ DesignTypeOK /\ ReportsCurrent
  /\ placed \in [DOMAIN placed -> Binding] /\ connected \in [DOMAIN connected -> Net]

LEMMA ReportsStay ==
  ASSUME ReportsCurrent, NEW r, NEW named, Changed(r, named),
         \A n : n \notin named \cup NetsOf(r, connected') =>
           /\ \A k \in DOMAIN connected' : connected'[k] = n =>
                k \in DOMAIN connected /\ connected[k] = n /\ placed'[k[1]] = placed[k[1]]
           /\ \A k \in DOMAIN connected : connected[k] = n =>
                k \in DOMAIN connected' /\ connected'[k] = n
  PROVE  ReportsCurrent'
<1> DEFINE live == LiveNets(connected')  fresh == named \cup NetsOf(r, connected')
<1>1. ASSUME NEW n \in live, n \notin fresh
      PROVE  n \in DOMAIN reports /\ reports[n] = Analysis(n, placed', connected')
  <2>1. n \in LiveNets(connected) /\ reports[n] = Analysis(n, placed, connected)
    BY <1>1 DEF ReportsCurrent, LiveNets
  <2>2. Analysis(n, placed, connected) = Analysis(n, placed', connected')
    BY <1>1 DEF Analysis
  <2> QED
    BY <2>1, <2>2 DEF ReportsCurrent, LiveNets
<1>2. live \subseteq DOMAIN reports \cup fresh
  BY <1>1
<1>3. reports' = [n \in live |-> Analysis(n, placed', connected')]
  BY <1>1, <1>2 DEF Changed, AffectedNets
<1> QED
  BY <1>3 DEF ReportsCurrent, LiveNets

LEMMA DesignStep ==
  ASSUME DesignInv, [DesignNext]_designVars
  PROVE  DesignInv'
<1> USE DEF DesignInv, DesignTypeOK
<1>1. ASSUME NEW r \in Ref, NEW b \in Binding, AddComponent(r, b) PROVE DesignInv'
  <2>1. ReportsCurrent'
    BY <1>1, ReportsStay DEF AddComponent, NetsOf, PinsOf
  <2> QED
    BY <1>1, <2>1 DEF AddComponent
<1>2. ASSUME NEW r \in Ref, NEW b \in Binding, ReplaceComponent(r, b) PROVE DesignInv'
  <2>1. ReportsCurrent'
    BY <1>2, ReportsStay DEF ReplaceComponent, StalePins, NetsLost, NetsOf, PinsOf, Restrict
  <2> QED
    BY <1>2, <2>1 DEF ReplaceComponent, StalePins, PinsOf, Restrict
<1>3. ASSUME NEW r \in Ref, RemoveComponent(r) PROVE DesignInv'
  <2>1. ReportsCurrent'
    BY <1>3, ReportsStay DEF RemoveComponent, NetsOf, PinsOf, Restrict
  <2> QED
    BY <1>3, <2>1 DEF RemoveComponent, PinsOf, Restrict
<1>4. ASSUME NEW r \in Ref, NEW p, NEW n \in Net, Connect(r, p, n) PROVE DesignInv'
  <2>1. ReportsCurrent'
    BY <1>4, ReportsStay DEF Connect, Leaves
  <2> QED
    BY <1>4, <2>1 DEF Connect
<1>5. ASSUME NEW r \in Ref, NEW p, Disconnect(r, p) PROVE DesignInv'
  <2>1. ReportsCurrent'
    BY <1>5, ReportsStay DEF Disconnect, Leaves, Restrict
  <2> QED
    BY <1>5, <2>1 DEF Disconnect, Restrict
<1>6. CASE UNCHANGED designVars
  BY <1>6 DEF designVars, ReportsCurrent, Analysis
<1> QED
  BY <1>1, <1>2, <1>3, <1>4, <1>5, <1>6 DEF DesignNext, Edit

(* ReportsCurrent: after any sequence of edits the kept reports are those  *)
(* that an analysis of the whole schematic would make.                     *)
THEOREM ReportsAreCurrent == DesignSpec => [](DesignTypeOK /\ ReportsCurrent)
<1>1. DesignInit => DesignInv
  BY DEF DesignInit, DesignInv, DesignTypeOK, ReportsCurrent, Nowhere
<1>2. DesignInv => DesignTypeOK /\ ReportsCurrent
  BY DEF DesignInv
<1> QED
  BY <1>1, <1>2, DesignStep, PTL DEF DesignSpec

-----------------------------------------------------------------------------
(* Component publication.  What is stored is of a row that was approved;   *)
(* record, assets and manifest are of its program, and of one version as   *)
(* long as no extraction writes the folder.                                *)

AnyVersion == Preview \cup {NoPreview}
FolderState ==
  [assets : AnyVersion, component : AnyVersion, manifest : AnyVersion,
   state : {"none", "ready", "published"}]
ReviewState ==
  [at : {"idle", "looked", "selected", "approved", "checked", "read", "stored"},
   row : AnyVersion, component : AnyVersion, manifest : AnyVersion, quiet : BOOLEAN]

ReviewTyped ==
  /\ folder \in [CadProgram -> FolderState]
  /\ extractor \in [version : AnyVersion, stage : {"none", "assets", "component", "manifest"}]
  /\ extractor.stage # "none" => extractor.version \in Preview
  /\ rows \in [Preview -> {"absent", "ready", "blocked", "approved", "rejected"}]
  /\ reviewing \in [Reviewer -> ReviewState]
  /\ begun \subseteq Preview

RowsRight ==
  /\ \A v \in Preview : rows[v] = "approved" => v \in approvedOnce
  /\ \A v \in Preview : rows[v] \in {"ready", "approved"} => v \in Validated
  /\ \A s \in Reviewer : reviewing[s].at # "idle" => reviewing[s].row \in Validated

(* What a folder holds is of its program, and a manifest makes it ready.   *)
OfProgram(v, c) == v \in Preview /\ Folder(v) = c
FoldersRight ==
  \A c \in CadProgram :
    /\ folder[c].assets = NoPreview \/ OfProgram(folder[c].assets, c)
    /\ folder[c].component = NoPreview \/ OfProgram(folder[c].component, c)
    /\ folder[c].manifest = NoPreview \/ OfProgram(folder[c].manifest, c)
    /\ folder[c].state # "none" => folder[c].manifest # NoPreview

(* What a reviewer w has checked and read so far, of a folder f.           *)
CheckedRight(w, f) ==
  /\ w.at \in {"checked", "read", "stored"} =>
       /\ OfProgram(w.manifest, Folder(w.row))
       /\ f.component # NoPreview /\ f.assets # NoPreview
  /\ w.at = "checked" /\ w.quiet => f.component = w.manifest /\ f.assets = w.manifest
  /\ w.at = "read" => OfProgram(w.component, Folder(w.row))
  /\ w.at = "read" /\ w.quiet => w.component = w.manifest /\ f.assets = w.manifest
ChecksRight == \A s \in Reviewer : CheckedRight(reviewing[s], folder[Folder(reviewing[s].row)])

PublicationInv == ReviewTyped /\ StoredWhole /\ RowsRight /\ FoldersRight /\ ChecksRight /\ Resumable

LEMMA FolderUpdate ==
  ASSUME ReviewTyped, NEW c \in CadProgram, NEW f \in FolderState
  PROVE  [folder EXCEPT ![c] = f] \in [CadProgram -> FolderState]
BY DEF ReviewTyped

(* An extraction that writes a folder ends the quiet of who reads there.   *)
LEMMA WritesKeep ==
  ASSUME ReviewTyped, RowsRight, FoldersRight, ChecksRight, NEW v \in Preview,
         NEW f \in FolderState, Writes(v, f),
         LET o == folder[Folder(v)] IN
           /\ f.assets \in {o.assets, v} /\ f.component \in {o.component, v}
           /\ f.manifest \in {o.manifest, v} /\ (f.state # "none" => f.manifest # NoPreview)
  PROVE  /\ folder' \in [CadProgram -> FolderState] /\ FoldersRight'
         /\ reviewing' \in [Reviewer -> ReviewState] /\ ChecksRight'
         /\ \A s \in Reviewer : reviewing'[s].at = reviewing[s].at /\ reviewing'[s].row = reviewing[s].row
<1> DEFINE c == Folder(v)
           Touched(s) == v \in Validated /\ Folder(reviewing[s].row) = c
           Heard(s) == reviewing[s].quiet /\ ~Touched(s)
<1>1. c \in CadProgram /\ v # NoPreview /\ Folder(v) = c
  BY PublicationConstants DEF Folder
<1>2. folder' = folder \/ (v \in Validated /\ folder' = [folder EXCEPT ![c] = f])
  BY DEF Writes
<1>3. folder' \in [CadProgram -> FolderState]
  BY <1>1, <1>2, FolderUpdate DEF ReviewTyped
<1>4. FoldersRight'
  BY <1>1, <1>2 DEF FoldersRight, OfProgram, ReviewTyped
<1>5. \A s \in Reviewer :
        /\ reviewing'[s] \in ReviewState
        /\ reviewing'[s].at = reviewing[s].at /\ reviewing'[s].row = reviewing[s].row
        /\ reviewing'[s].component = reviewing[s].component
        /\ reviewing'[s].manifest = reviewing[s].manifest
        /\ reviewing'[s].quiet => reviewing[s].quiet /\ ~Touched(s)
  <2> SUFFICES ASSUME NEW s \in Reviewer
               PROVE  /\ reviewing'[s] \in ReviewState
                      /\ reviewing'[s].at = reviewing[s].at /\ reviewing'[s].row = reviewing[s].row
                      /\ reviewing'[s].component = reviewing[s].component
                      /\ reviewing'[s].manifest = reviewing[s].manifest
                      /\ reviewing'[s].quiet => reviewing[s].quiet /\ ~Touched(s)
    OBVIOUS
  <2>1. reviewing'[s] = [reviewing[s] EXCEPT !.quiet = Heard(s)]
    BY DEF Writes
  <2>2. reviewing[s] \in ReviewState
    BY DEF ReviewTyped
  <2>3. Heard(s) \in BOOLEAN
    OBVIOUS
  <2>4. \A b \in BOOLEAN :
          LET n == [reviewing[s] EXCEPT !.quiet = b] IN
            /\ n \in ReviewState /\ n.at = reviewing[s].at /\ n.row = reviewing[s].row
            /\ n.component = reviewing[s].component /\ n.manifest = reviewing[s].manifest
            /\ n.quiet = b
    BY <2>2 DEF ReviewState
  <2> HIDE DEF Heard
  <2>5. /\ reviewing'[s] \in ReviewState
        /\ reviewing'[s].at = reviewing[s].at /\ reviewing'[s].row = reviewing[s].row
        /\ reviewing'[s].component = reviewing[s].component
        /\ reviewing'[s].manifest = reviewing[s].manifest
        /\ reviewing'[s].quiet = Heard(s)
    BY <2>1, <2>3, <2>4
  <2> QED
    BY <2>5 DEF Heard
<1>6. reviewing' \in [Reviewer -> ReviewState]
  <2>1. reviewing' = [s \in Reviewer |-> reviewing'[s]]
    BY DEF Writes
  <2> QED
    BY <2>1, <1>5
<1>7. ASSUME NEW s \in Reviewer
      PROVE  CheckedRight(reviewing'[s], folder'[Folder(reviewing'[s].row)])
  <2> DEFINE w == reviewing[s]
             d == Folder(w.row)
  <2>1. CheckedRight(w, folder[d])
    BY DEF ChecksRight
  <2>2. CASE w.at \notin {"checked", "read", "stored"}
    BY <1>5, <2>2 DEF CheckedRight
  <2>3. CASE w.at \in {"checked", "read", "stored"}
    <3>1. d \in CadProgram
      BY <2>3, PublicationConstants DEF RowsRight, Folder
    <3>2. CASE Touched(s)
      <4>1. ~reviewing'[s].quiet
        BY <1>5, <3>2
      <4>2. folder'[d].component # NoPreview /\ folder'[d].assets # NoPreview
        BY <1>1, <1>2, <2>1, <2>3, <3>1, <3>2 DEF CheckedRight, ReviewTyped
      <4> QED
        BY <1>5, <2>1, <4>1, <4>2 DEF CheckedRight
    <3>3. CASE ~Touched(s)
      <4>1. folder'[d] = folder[d]
        BY <1>1, <1>2, <3>1, <3>3 DEF ReviewTyped
      <4> QED
        BY <1>5, <2>1, <4>1 DEF CheckedRight
    <3> QED
      BY <3>2, <3>3
  <2> QED
    BY <2>2, <2>3
<1> QED
  BY <1>3, <1>4, <1>5, <1>6, <1>7 DEF ChecksRight

LEMMA WritingKeeps ==
  ASSUME PublicationInv, WriteComponent \/ WriteManifest \/ \E v \in Preview : Extract(v)
  PROVE  PublicationInv'
<1> USE DEF PublicationInv, queueRows
<1>1. UNCHANGED <<rows, library, approvedOnce, begun>>
  BY DEF Extract, WriteComponent, WriteManifest
<1>2. /\ extractor' \in [version : AnyVersion, stage : {"none", "assets", "component", "manifest"}]
      /\ extractor'.version \in Preview
  <2>1. CASE WriteComponent \/ WriteManifest
    <3>1. extractor.version \in Preview
      BY <2>1 DEF WriteComponent, WriteManifest, ReviewTyped
    <3>2. PICK t \in {"component", "manifest"} : extractor' = [extractor EXCEPT !.stage = t]
      BY <2>1 DEF WriteComponent, WriteManifest
    <3> QED
      BY <3>1, <3>2 DEF ReviewTyped
  <2>2. ASSUME NEW v \in Preview, Extract(v)
        PROVE  /\ extractor' \in [version : AnyVersion,
                                  stage : {"none", "assets", "component", "manifest"}]
               /\ extractor'.version \in Preview
    BY <2>2 DEF Extract, AnyVersion
  <2> QED
    BY <2>1, <2>2
<1>3. PICK v \in Preview, f \in FolderState :
        /\ Writes(v, f)
        /\ LET o == folder[Folder(v)] IN
             /\ f.assets \in {o.assets, v} /\ f.component \in {o.component, v}
             /\ f.manifest \in {o.manifest, v} /\ (f.state # "none" => f.manifest # NoPreview)
  <2>1. ASSUME NEW v \in Preview PROVE folder[Folder(v)] \in FolderState
    BY PublicationConstants DEF ReviewTyped, Folder
  <2>2. ASSUME NEW v \in Preview PROVE folder[Folder(v)].state # "none" => folder[Folder(v)].manifest # NoPreview
    BY PublicationConstants DEF FoldersRight, Folder
  <2>3. ASSUME NEW v \in Preview, Extract(v)
        PROVE  \E f \in FolderState :
                 /\ Writes(v, f)
                 /\ LET o == folder[Folder(v)] IN
                      /\ f.assets \in {o.assets, v} /\ f.component \in {o.component, v}
                      /\ f.manifest \in {o.manifest, v} /\ (f.state # "none" => f.manifest # NoPreview)
    <3> DEFINE o == folder[Folder(v)]
               f == [o EXCEPT !.assets = v]
    <3>1. /\ f \in FolderState /\ f.assets = v /\ f.component = o.component
          /\ f.manifest = o.manifest /\ f.state = o.state
      BY <2>1 DEF FolderState, AnyVersion
    <3>2. Writes(v, f)
      BY <2>3 DEF Extract
    <3> HIDE DEF f
    <3> QED
      BY <3>1, <3>2, <2>2
  <2>4. ASSUME WriteComponent
        PROVE  LET v == extractor.version IN
               \E f \in FolderState :
                 /\ v \in Preview /\ Writes(v, f)
                 /\ LET o == folder[Folder(v)] IN
                      /\ f.assets \in {o.assets, v} /\ f.component \in {o.component, v}
                      /\ f.manifest \in {o.manifest, v} /\ (f.state # "none" => f.manifest # NoPreview)
    <3> DEFINE v == extractor.version
               o == folder[Folder(v)]
               f == [o EXCEPT !.component = v]
    <3>0. v \in Preview
      BY <2>4 DEF WriteComponent, ReviewTyped
    <3>1. /\ f \in FolderState /\ f.assets = o.assets /\ f.component = v
          /\ f.manifest = o.manifest /\ f.state = o.state
      BY <3>0, <2>1 DEF FolderState, AnyVersion
    <3>2. Writes(v, f)
      BY <2>4 DEF WriteComponent
    <3> HIDE DEF f
    <3> QED
      BY <3>0, <3>1, <3>2, <2>2
  <2>5. ASSUME WriteManifest
        PROVE  LET v == extractor.version IN
               \E f \in FolderState :
                 /\ v \in Preview /\ Writes(v, f)
                 /\ LET o == folder[Folder(v)] IN
                      /\ f.assets \in {o.assets, v} /\ f.component \in {o.component, v}
                      /\ f.manifest \in {o.manifest, v} /\ (f.state # "none" => f.manifest # NoPreview)
    <3> DEFINE v == extractor.version
               o == folder[Folder(v)]
               f == [o EXCEPT !.manifest = v, !.state = "ready"]
    <3>0. v \in Preview /\ v # NoPreview
      BY <2>5, PublicationConstants DEF WriteManifest, ReviewTyped
    <3>1. /\ f \in FolderState /\ f.assets = o.assets /\ f.component = o.component
          /\ f.manifest = v
      <4>1. o \in FolderState
        BY <3>0, <2>1
      <4> HIDE DEF o
      <4> QED
        BY <3>0, <4>1 DEF FolderState, AnyVersion
    <3>2. Writes(v, f)
      BY <2>5 DEF WriteManifest
    <3> HIDE DEF f
    <3> QED
      BY <3>0, <3>1, <3>2
  <2> QED
    BY <2>3, <2>4, <2>5
<1>4. /\ folder' \in [CadProgram -> FolderState] /\ FoldersRight'
      /\ reviewing' \in [Reviewer -> ReviewState] /\ ChecksRight'
      /\ \A s \in Reviewer : reviewing'[s].at = reviewing[s].at /\ reviewing'[s].row = reviewing[s].row
  BY <1>3, WritesKeep
<1>5. ReviewTyped' /\ RowsRight'
  BY <1>1, <1>2, <1>4 DEF ReviewTyped, RowsRight
<1>6. StoredWhole' /\ Resumable'
  BY <1>1, <1>4 DEF StoredWhole, Resumable, Pursuing
<1> QED
  BY <1>4, <1>5, <1>6

LEMMA QueueKeeps ==
  ASSUME PublicationInv,
         Enqueue \/ ExtractionFails \/ ApproveAll \/ \E v \in Preview : Reject(v)
  PROVE  PublicationInv'
<1> USE DEF PublicationInv, queueRows
<1>1. UNCHANGED <<folder, reviewing, library>>
  BY DEF Enqueue, ExtractionFails, ApproveAll, Reject
<1>2. FoldersRight' /\ ChecksRight' /\ StoredWhole'
  BY <1>1 DEF FoldersRight, ChecksRight, CheckedRight, StoredWhole
<1>3. /\ extractor' \in [version : AnyVersion, stage : {"none", "assets", "component", "manifest"}]
      /\ extractor'.stage # "none" => extractor'.version \in Preview
  BY DEF Enqueue, ExtractionFails, ApproveAll, Reject, ReviewTyped, NoExtraction, AnyVersion
<1>4. CASE ApproveAll
  <2>1. \A v \in begun' : rows'[v] = rows[v] /\ v \in begun
    BY <1>4 DEF ApproveAll, ReviewTyped
  <2>2. Resumable'
    BY <1>1, <2>1 DEF Resumable, Pursuing
  <2> QED
    BY <1>1, <1>2, <1>3, <1>4, <2>2 DEF ApproveAll, ReviewTyped, RowsRight
<1>5. CASE \E v \in Preview : Reject(v)
  BY <1>1, <1>2, <1>3, <1>5 DEF Reject, ReviewTyped, RowsRight, Resumable, Pursuing
<1>6. CASE Enqueue \/ ExtractionFails
  <2>1. UNCHANGED <<approvedOnce, begun>>
    BY <1>6 DEF Enqueue, ExtractionFails
  <2>2. rows' = rows \/ \E v \in Preview :
          rows' = [rows EXCEPT ![v] = IF @ \in {"approved", "rejected"} THEN @ ELSE QueuedAs(v)]
    BY <1>6 DEF ReviewTyped, Enqueue, ExtractionFails
  <2> QED
    BY <1>1, <1>2, <1>3, <2>1, <2>2
       DEF ReviewTyped, RowsRight, QueuedAs, Resumable, Pursuing
<1> QED
  BY <1>4, <1>5, <1>6

LEMMA ReviewerUpdate ==
  ASSUME ReviewTyped, NEW s \in Reviewer, NEW n \in ReviewState,
         reviewing' = [reviewing EXCEPT ![s] = n]
  PROVE  /\ reviewing' \in [Reviewer -> ReviewState]
         /\ \A q \in Reviewer : reviewing'[q] = IF q = s THEN n ELSE reviewing[q]
BY DEF ReviewTyped

(* A reviewer that goes on to n, on the files and the library as they are. *)
LEMMA ReviewerMoves ==
  ASSUME PublicationInv, NEW s \in Reviewer, NEW n \in ReviewState,
         reviewing' = [reviewing EXCEPT ![s] = n], UNCHANGED <<folder, extractor>>,
         n.at # "idle" => n.row \in Validated, CheckedRight(n, folder[Folder(n.row)])
  PROVE  /\ reviewing' \in [Reviewer -> ReviewState] /\ FoldersRight' /\ ChecksRight'
         /\ \A q \in Reviewer : reviewing'[q].at # "idle" => reviewing'[q].row \in Validated
BY ReviewerUpdate
   DEF PublicationInv, ReviewTyped, RowsRight, FoldersRight, ChecksRight, CheckedRight

LEMMA ReviewerKeeps ==
  ASSUME PublicationInv, NEW s \in Reviewer,
         \/ \E v \in Preview : Look(s, v)
         \/ Select(s) \/ Approve(s) \/ CheckFiles(s) \/ ReadComponent(s) \/ StoreComponent(s)
         \/ MarkPublished(s) \/ PublicationRaises(s) \/ ReviewerDies(s)
  PROVE  PublicationInv'
<1> USE DEF PublicationInv
<1> DEFINE w == reviewing[s]
           f == folder[Folder(w.row)]
<1>0. /\ w \in ReviewState /\ AtRest \in ReviewState /\ AtRest.at = "idle"
      /\ CheckedRight(w, f) /\ CheckedRight(AtRest, folder[Folder(AtRest.row)])
      /\ Validated \subseteq Preview
  BY PublicationConstants
     DEF ReviewTyped, ReviewState, AtRest, AnyVersion, ChecksRight, CheckedRight
<1>1. w.at # "idle" => w.row \in Validated /\ Folder(w.row) \in CadProgram /\ f \in FolderState
  BY <1>0, PublicationConstants DEF RowsRight, ReviewTyped, Folder
<1>2. ASSUME NEW v \in Preview, Look(s, v) PROVE PublicationInv'
  <2> DEFINE n == [AtRest EXCEPT !.at = "looked", !.row = v]
  <2>1. n \in ReviewState /\ n.at = "looked" /\ n.row = v
    BY DEF ReviewState, AtRest, AnyVersion
  <2>2. /\ reviewing' = [reviewing EXCEPT ![s] = n] /\ w.at = "idle" /\ rows[v] = "ready"
        /\ UNCHANGED <<folder, extractor, rows, approvedOnce, begun, library>>
    BY <1>2 DEF Look, queueRows
  <2> HIDE DEF n
  <2>3. CheckedRight(n, folder[Folder(n.row)]) /\ n.row \in Validated
    BY <2>1, <2>2 DEF CheckedRight, RowsRight
  <2>4. Resumable'
    BY <2>1, <2>2, ReviewerUpdate DEF Resumable, Pursuing
  <2> QED
    BY <2>1, <2>2, <2>3, <2>4, ReviewerMoves DEF ReviewTyped, StoredWhole, RowsRight
<1>3. CASE Select(s)
  <2>1. PICK n \in ReviewState :
          /\ reviewing' = [reviewing EXCEPT ![s] = n] /\ w.at = "looked"
          /\ n.at \in {"idle", "selected"} /\ (n.at = "selected" => n.row = w.row)
    <3>1. [w EXCEPT !.at = "selected"] \in ReviewState
      BY <1>0 DEF ReviewState
    <3>2. [w EXCEPT !.at = "selected"].at = "selected" /\ [w EXCEPT !.at = "selected"].row = w.row
      BY <1>0 DEF ReviewState
    <3> QED
      BY <1>0, <1>3, <3>1, <3>2 DEF Select, Moves, ReviewTyped
  <2>2. UNCHANGED <<folder, extractor, rows, approvedOnce, begun, library>>
    BY <1>3 DEF Select, queueRows
  <2>3. CheckedRight(n, folder[Folder(n.row)]) /\ (n.at # "idle" => n.row \in Validated)
    BY <1>1, <2>1 DEF CheckedRight
  <2>4. Resumable'
    BY <2>1, <2>2, ReviewerUpdate DEF Resumable, Pursuing
  <2> QED
    BY <2>1, <2>2, <2>3, <2>4, ReviewerMoves DEF ReviewTyped, StoredWhole, RowsRight
<1>4. CASE Approve(s)
  <2> DEFINE n == [w EXCEPT !.at = "approved"]
  <2>1. n \in ReviewState /\ n.at = "approved" /\ n.row = w.row
    BY <1>0 DEF ReviewState
  <2>2. /\ reviewing' = [reviewing EXCEPT ![s] = n] /\ w.at = "selected"
        /\ rows' = [rows EXCEPT ![w.row] = "approved"]
        /\ approvedOnce' = approvedOnce \cup {w.row} /\ begun' = begun \cup {w.row}
        /\ UNCHANGED <<folder, extractor, library>>
    BY <1>4 DEF Approve, Moves, ReviewTyped
  <2> HIDE DEF n
  <2>3. CheckedRight(n, folder[Folder(n.row)]) /\ n.row \in Validated
    BY <1>1, <2>1, <2>2 DEF CheckedRight
  <2>4. Resumable'
    <3>1. \A q \in Reviewer : Pursuing(q) => reviewing'[q] = reviewing[q]
      BY <2>1, <2>2, ReviewerUpdate DEF Pursuing
    <3>2. reviewing'[s].at = "approved" /\ reviewing'[s].row = w.row
      BY <2>1, <2>2, ReviewerUpdate
    <3> SUFFICES ASSUME NEW v \in begun', rows'[v] = "approved"
                 PROVE  (\E q \in Reviewer : Pursuing(q) /\ reviewing[q].row = v)'
      BY DEF Resumable
    <3>3. CASE v = w.row
      BY <3>2, <3>3 DEF Pursuing
    <3>4. CASE v # w.row
      <4>1. v \in begun /\ rows[v] = "approved"
        BY <2>2, <3>4 DEF ReviewTyped
      <4>2. PICK q \in Reviewer : Pursuing(q) /\ reviewing[q].row = v
        BY <4>1 DEF Resumable
      <4> QED
        BY <3>1, <4>2 DEF Pursuing
    <3> QED
      BY <3>3, <3>4
  <2>5. ReviewTyped' /\ RowsRight'
    BY <1>0, <2>1, <2>2, <2>3, ReviewerMoves DEF ReviewTyped, RowsRight
  <2> QED
    BY <2>1, <2>2, <2>3, <2>4, <2>5, ReviewerMoves DEF StoredWhole
<1>5. CASE CheckFiles(s) \/ ReadComponent(s) \/ StoreComponent(s)
  <2>0. w.at \in {"approved", "checked", "read"}
    BY <1>5 DEF CheckFiles, ReadComponent, StoreComponent
  <2>1. /\ f \in FolderState /\ Folder(w.row) \in CadProgram /\ w.row \in Validated
        /\ f.assets = NoPreview \/ OfProgram(f.assets, Folder(w.row))
        /\ f.component = NoPreview \/ OfProgram(f.component, Folder(w.row))
        /\ f.manifest = NoPreview \/ OfProgram(f.manifest, Folder(w.row))
        /\ f.state # "none" => f.manifest # NoPreview
    BY <1>1, <2>0 DEF FoldersRight
  <2>2. PICK n \in ReviewState :
          /\ reviewing' = [reviewing EXCEPT ![s] = n] /\ n.row = w.row
          /\ n.at \in {"checked", "read", "stored"} /\ CheckedRight(n, f)
    <3>1. CASE CheckFiles(s)
      <4> DEFINE n == [w EXCEPT !.at = "checked", !.manifest = f.manifest, !.quiet = TRUE]
      <4>1. f.state = "ready" /\ f.component = f.manifest /\ f.assets = f.manifest
        BY <3>1 DEF CheckFiles, Consistent
      <4>2. n \in ReviewState /\ n.row = w.row /\ n.at = "checked" /\ n.manifest = f.manifest
        BY <1>0, <2>1 DEF ReviewState, FolderState, AnyVersion
      <4>3. reviewing' = [reviewing EXCEPT ![s] = n]
        BY <3>1 DEF CheckFiles, ReviewTyped
      <4> HIDE DEF n
      <4>4. CheckedRight(n, f)
        BY <2>1, <4>1, <4>2, PublicationConstants DEF CheckedRight, OfProgram
      <4> QED
        BY <4>2, <4>3, <4>4
    <3>2. CASE ReadComponent(s)
      <4> DEFINE n == [w EXCEPT !.at = "read", !.component = f.component]
      <4>1. /\ n \in ReviewState /\ n.row = w.row /\ n.at = "read" /\ n.manifest = w.manifest
            /\ n.component = f.component /\ n.quiet = w.quiet
        BY <1>0, <2>1 DEF ReviewState, FolderState, AnyVersion
      <4>2. reviewing' = [reviewing EXCEPT ![s] = n] /\ w.at = "checked"
        BY <3>2 DEF ReadComponent, ReviewTyped
      <4> HIDE DEF n
      <4>3. CheckedRight(n, f)
        BY <1>0, <2>1, <4>1, <4>2, PublicationConstants DEF CheckedRight, OfProgram
      <4> QED
        BY <4>1, <4>2, <4>3
    <3>3. CASE StoreComponent(s)
      <4> DEFINE n == [w EXCEPT !.at = "stored"]
      <4>1. n \in ReviewState /\ n.row = w.row /\ n.at = "stored" /\ n.manifest = w.manifest
        BY <1>0 DEF ReviewState
      <4>2. reviewing' = [reviewing EXCEPT ![s] = n] /\ w.at = "read"
        BY <3>3 DEF StoreComponent, Moves, ReviewTyped
      <4> HIDE DEF n
      <4>3. CheckedRight(n, f)
        BY <1>0, <4>1, <4>2 DEF CheckedRight, OfProgram
      <4> QED
        BY <4>1, <4>2, <4>3
    <3> QED
      BY <1>5, <3>1, <3>2, <3>3
  <2>3. UNCHANGED <<folder, extractor, rows, approvedOnce, begun>>
    BY <1>5 DEF CheckFiles, ReadComponent, StoreComponent, queueRows
  <2>4. StoredWhole'
    <3>1. CASE StoreComponent(s)
      <4>1. w.at = "read" /\ library' = [component |-> w.component, assets |-> f.assets,
                                        manifest |-> w.manifest, quiet |-> w.quiet]
        BY <3>1 DEF StoreComponent
      <4> QED
        BY <1>0, <2>1, <4>1 DEF CheckedRight, OfProgram, StoredWhole
    <3>2. CASE CheckFiles(s) \/ ReadComponent(s)
      BY <3>2 DEF CheckFiles, ReadComponent, StoredWhole
    <3> QED
      BY <1>5, <3>1, <3>2
  <2>5. Resumable'
    BY <2>0, <2>2, <2>3, ReviewerUpdate DEF Resumable, Pursuing
  <2>6. reviewing' \in [Reviewer -> ReviewState] /\ FoldersRight' /\ ChecksRight'
        /\ \A q \in Reviewer : reviewing'[q].at # "idle" => reviewing'[q].row \in Validated
    BY <2>1, <2>2, <2>3, ReviewerMoves
  <2> QED
    BY <2>3, <2>4, <2>5, <2>6 DEF ReviewTyped, RowsRight
<1>6. CASE MarkPublished(s)
  <2> DEFINE c == Folder(w.row)
             g == [f EXCEPT !.manifest = w.manifest, !.state = "published"]
  <2>1. /\ reviewing' = [reviewing EXCEPT ![s] = AtRest] /\ begun' = begun \ {w.row}
        /\ UNCHANGED <<extractor, rows, approvedOnce, library>> /\ w.at = "stored"
    BY <1>6 DEF MarkPublished
  <2>2. c \in CadProgram /\ f \in FolderState /\ OfProgram(w.manifest, c)
    BY <1>0, <1>1, <2>1 DEF CheckedRight
  <2>3. /\ g \in FolderState /\ g.assets = f.assets /\ g.component = f.component
        /\ g.manifest = w.manifest
    BY <2>2 DEF FolderState, AnyVersion, OfProgram
  <2>4. folder' = [folder EXCEPT ![c] = g]
    BY <1>6, <2>2 DEF MarkPublished, ReviewTyped, FolderState
  <2> HIDE DEF g
  <2>5. folder' \in [CadProgram -> FolderState]
    BY <2>2, <2>3, <2>4, FolderUpdate
  <2>6. FoldersRight'
    BY <2>2, <2>3, <2>4, PublicationConstants DEF FoldersRight, OfProgram, ReviewTyped
  <2>7. reviewing' \in [Reviewer -> ReviewState]
        /\ \A q \in Reviewer : reviewing'[q] = IF q = s THEN AtRest ELSE reviewing[q]
    BY <1>0, <2>1, ReviewerUpdate
  <2>8. ChecksRight'
    <3> SUFFICES ASSUME NEW q \in Reviewer
                 PROVE  CheckedRight(reviewing'[q], folder'[Folder(reviewing'[q].row)])
      BY DEF ChecksRight
    <3>1. CASE q = s
      BY <1>0, <2>7, <3>1 DEF CheckedRight
    <3>2. CASE reviewing[q].at \notin {"checked", "read", "stored"}
      BY <1>0, <2>7, <3>2 DEF CheckedRight
    <3>3. CASE q # s /\ reviewing[q].at \in {"checked", "read", "stored"}
      <4> DEFINE d == Folder(reviewing[q].row)
      <4>1. d \in CadProgram /\ CheckedRight(reviewing[q], folder[d])
        BY <3>3, PublicationConstants DEF RowsRight, Folder, ChecksRight
      <4>2. folder'[d].component = folder[d].component /\ folder'[d].assets = folder[d].assets
        BY <2>2, <2>3, <2>4, <4>1 DEF ReviewTyped
      <4> QED
        BY <2>7, <3>3, <4>1, <4>2 DEF CheckedRight
    <3> QED
      BY <3>1, <3>2, <3>3
  <2>9. Resumable'
    BY <1>0, <2>1, <2>7 DEF Resumable, Pursuing
  <2> QED
    BY <1>0, <2>1, <2>5, <2>6, <2>7, <2>8, <2>9 DEF ReviewTyped, StoredWhole, RowsRight
<1>7. CASE PublicationRaises(s)
  <2>1. /\ reviewing' = [reviewing EXCEPT ![s] = AtRest] /\ w.at # "idle"
        /\ rows' = [rows EXCEPT ![w.row] = "ready"]
        /\ UNCHANGED <<folder, extractor, approvedOnce, begun, library>>
    BY <1>7 DEF PublicationRaises, GivenBack, Pursuing
  <2>2. Resumable'
    BY <1>0, <1>1, <2>1, ReviewerUpdate DEF Resumable, Pursuing, ReviewTyped
  <2>3. ReviewTyped' /\ RowsRight'
    BY <1>0, <1>1, <2>1, ReviewerMoves DEF ReviewTyped, RowsRight
  <2> QED
    BY <1>0, <2>1, <2>2, <2>3, ReviewerMoves DEF StoredWhole
<1>8. CASE ReviewerDies(s)
  <2>1. /\ reviewing' = [reviewing EXCEPT ![s] = AtRest]
        /\ begun' = IF Pursuing(s) THEN begun \ {w.row} ELSE begun
        /\ UNCHANGED <<folder, extractor, rows, approvedOnce, library>>
    BY <1>8 DEF ReviewerDies
  <2>2. Resumable'
    BY <1>0, <2>1, ReviewerUpdate DEF Resumable, Pursuing
  <2> QED
    BY <1>0, <2>1, <2>2, ReviewerMoves DEF ReviewTyped, StoredWhole, RowsRight
<1> QED
  BY <1>2, <1>3, <1>4, <1>5, <1>6, <1>7, <1>8

(* PublicationSound: between an extractor and reviewers that fail and die, *)
(* what the library stores is of one program, and of one version if no     *)
(* extraction came between; and an approval begun can be asked for again.  *)
THEOREM PublicationIsSound == PublicationSpec => [](PublicationTypeOK /\ PublicationSound)
<1>1. PublicationInit => PublicationInv
  BY PublicationConstants
     DEF PublicationInit, PublicationInv, ReviewTyped, RowsRight, FoldersRight, ChecksRight,
         CheckedRight, Resumable, StoredWhole, NoExtraction, NoComponent, AtRest, Empty,
         FolderState, ReviewState, AnyVersion
<1>2. PublicationInv /\ [PublicationNext]_publicationVars => PublicationInv'
  <2> SUFFICES ASSUME PublicationInv, [PublicationNext]_publicationVars PROVE PublicationInv'
    OBVIOUS
  <2>1. CASE UNCHANGED publicationVars
    BY <2>1
       DEF publicationVars, PublicationInv, ReviewTyped, RowsRight, FoldersRight, ChecksRight,
           CheckedRight, Resumable, Pursuing, StoredWhole
  <2> QED
    BY <2>1, WritingKeeps, QueueKeeps, ReviewerKeeps DEF PublicationNext
<1>3. PublicationInv => PublicationTypeOK /\ PublicationSound
  BY DEF PublicationInv, ReviewTyped, RowsRight, FolderState, ReviewState, PublicationTypeOK,
         PublicationSound
<1> QED
  BY <1>1, <1>2, <1>3, PTL DEF PublicationSpec

-----------------------------------------------------------------------------
(* Local redesigns.  Shapes and identities of the document are as the      *)
(* receipts of previews and commits say, in whatever order the steps come. *)

Made == 1..programs
Shape == 0..programs \cup (MaxPreviews + 1)..(MaxPreviews + shapeEdits)
OwnIds == {Own(q) : q \in Part}
IsBaseline(id) == id[1] = "baseline"
Previewed == {r \in Redesign : previewed[r] # NoFile}
Committed == {r \in Redesign : committed[r] # NoFile}

SizesOK ==
  programs \in 0..MaxPreviews /\ shapeEdits \in 0..MaxShapeEdits /\ disorder \in BOOLEAN

DocumentOK ==
  /\ document = [o \in Present |-> [id |-> document[o].id, shape |-> document[o].shape,
                                     status |-> document[o].status]]
  /\ Part \subseteq Present /\ Present \subseteq Part \cup Made
  /\ \A o \in Present : document[o].shape \in Shape
  /\ \A o, q \in Present : document[o].shape = document[q].shape =>
       o = q \/ (document[o].shape = 0 /\ {o, q} \subseteq Part)

ContractsOK ==
  /\ DOMAIN contract = Redesign
  /\ \A r \in Redesign : contract[r] # NoFile =>
       contract[r] = [id |-> contract[r].id, target |-> contract[r].target,
                      shape |-> contract[r].shape, program |-> contract[r].program]

PreviewsOK ==
  /\ DOMAIN previewed = Redesign
  /\ \A r \in Previewed :
       LET p == previewed[r] IN
       /\ contract[r] # NoFile
       /\ p.id = contract[r].id /\ p.shape = contract[r].shape
       /\ p.object \in Made /\ p.target \in Part \cup Made /\ p.target # p.object
       /\ p.shape \in Shape /\ p.shape # p.object
       /\ p.id # BaselineId(p.id, p.object)
       /\ \A o \in Present : document[o].shape = p.shape =>
            o = p.target \/ (p.shape = 0 /\ {o, p.target} \subseteq Part)
       /\ \A s \in Previewed : previewed[s].object = p.object => s = r
CommitsOK ==
  /\ DOMAIN committed = Redesign
  /\ \A r \in Committed :
       LET c == committed[r] IN
       /\ r \in Previewed /\ c.id = previewed[r].id
       /\ c.candidate \in Made /\ c.baseline \in Part \cup Made /\ c.baseline # c.candidate
       /\ c.kept = BaselineId(c.id, c.candidate)
       /\ \A s \in Previewed : previewed[s].object = c.candidate => s = r
       /\ \A s \in Committed : committed[s].candidate = c.candidate => s = r

ReceiptsOK == PreviewsOK /\ CommitsOK

Known ==
  {<<o, document[o].id>> : o \in Present}
    \cup {<<previewed[r].target, previewed[r].id>> : r \in Previewed}
    \cup {<<committed[r].baseline, committed[r].id>> : r \in Committed}

IdsOK ==
  /\ \A k \in Known : IsBaseline(k[2]) => k[2][3] \in Made
  /\ \A k, l \in Known : {k[1], l[1]} \subseteq Part /\ k[2] = l[2] => k[1] = l[1]
  /\ \A k \in Known, r \in Previewed :
       /\ k[1] \in Part /\ IsBaseline(k[2]) /\ k[2][3] = previewed[r].object =>
            k[1] = previewed[r].target
       /\ k[1] = previewed[r].object /\ k[2] \in OwnIds => k[2] = previewed[r].id

IsPreview(r) == document[previewed[r].object].id \in
  {PreviewId(r), BaselineId(previewed[r].id, previewed[r].object)}

OnePart ==
  /\ Unique /\ \A p \in Part : Holders(Own(p)) # {}
  /\ \A r \in Committed : committed[r].id \in OwnIds
BaselinesOrdered ==
  \A r \in Previewed :
    LET p == previewed[r] IN
    /\ \A o \in Present : IsBaseline(document[o].id) /\ document[o].id[3] = p.object =>
         o \in {p.object, p.target}
    /\ p.object \in Present /\ ~IsPreview(r) =>
         p.target \in Present /\ document[p.target].id = BaselineId(p.id, p.object)
CommitsStand ==
  \A r \in Committed :
    LET c == committed[r] IN
    c.candidate \in Present /\ document[c.candidate].status = "committed" =>
      /\ document[c.candidate].id = c.id
      /\ c.baseline \in Present /\ document[c.baseline].id = c.kept

InOrder == ~disorder => OnePart /\ BaselinesOrdered /\ CommitsStand

RedesignInv == SizesOK /\ DocumentOK /\ ContractsOK /\ ReceiptsOK /\ IdsOK /\ InOrder

LEMMA RedesignSizes ==
  MaxPreviews \in Nat /\ MaxShapeEdits \in Nat /\ \A o \in Part : o \notin Nat
BY RedesignConstants

(* The names of identities are apart. *)
LEMMA IdsApart ==
  ASSUME NEW i, NEW n
  PROVE  /\ IsBaseline(BaselineId(i, n)) /\ BaselineId(i, n)[3] = n
         /\ BaselineId(i, n) \notin OwnIds
         /\ \A q : ~IsBaseline(Own(q))
         /\ \A r : ~IsBaseline(PreviewId(r)) /\ PreviewId(r) \notin OwnIds
BY DEF IsBaseline, BaselineId, Own, PreviewId, OwnIds

LEMMA OwnIdsApart ==
  /\ \A p, q \in Part : Own(p) = Own(q) => p = q
  /\ \A i \in OwnIds : ~IsBaseline(i)
BY DEF Own, OwnIds, IsBaseline

(* Whose identity is asked for, and whose shape was verified, is what was  *)
(* previewed.                                                              *)
LEMMA TargetFound ==
  ASSUME DocumentOK, ReceiptsOK, IdsOK, NEW r \in Previewed,
         NEW t \in Present, document[t].id = previewed[r].id, document[t].shape = previewed[r].shape
  PROVE  t = previewed[r].target
<1>1. t = previewed[r].target \/ {t, previewed[r].target} \subseteq Part
  BY DEF ReceiptsOK, PreviewsOK, CommitsOK
<1>2. <<t, previewed[r].id>> \in Known /\ <<previewed[r].target, previewed[r].id>> \in Known
  BY DEF Known
<1> QED
  BY <1>1, <1>2 DEF IdsOK

LEMMA CaptureKeeps ==
  ASSUME RedesignInv, NEW r \in Redesign, NEW o \in Present, Capture(r, o) PROVE RedesignInv'
<1> USE DEF RedesignInv
<1>1. ContractsOK' /\ contract[r] = NoFile /\ \A s \in Redesign : s # r => contract'[s] = contract[s]
  BY DEF Capture, ContractsOK
<1>2. UNCHANGED <<document, previewed, committed, programs, shapeEdits, disorder>>
  BY DEF Capture
<1>3. SizesOK' /\ DocumentOK' /\ IdsOK' /\ InOrder'
  BY <1>2
     DEF SizesOK, DocumentOK, Present, Shape, Made, IdsOK, Known, Previewed, Committed, InOrder,
         OnePart, Unique, Holders, BaselinesOrdered, IsPreview, CommitsStand
<1>4. ReceiptsOK'
  BY <1>1, <1>2
     DEF ReceiptsOK, PreviewsOK, CommitsOK, Previewed, Committed, Present, Shape, Made
<1> QED
  BY <1>1, <1>3, <1>4

LEMMA ProgramKeeps ==
  ASSUME RedesignInv, NEW r \in Redesign, Program(r)
  PROVE  /\ ContractsOK' /\ contract[r] # NoFile /\ contract'[r] # NoFile
         /\ programs < MaxPreviews /\ programs' = programs + 1 /\ UNCHANGED <<committed, shapeEdits>>
         /\ \A s \in Redesign : s # r => contract'[s] = contract[s]
         /\ contract'[r].id = contract[r].id /\ contract'[r].target = contract[r].target
            /\ contract'[r].shape = contract[r].shape
<1> DEFINE c == [contract[r] EXCEPT !.program = programs + 1]
<1>1. /\ contract[r] # NoFile /\ programs < MaxPreviews /\ programs' = programs + 1
         /\ UNCHANGED <<committed, shapeEdits>>
      /\ contract' = [contract EXCEPT ![r] = c]
  BY DEF Program
<1>2. c = [id |-> contract[r].id, target |-> contract[r].target, shape |-> contract[r].shape,
           program |-> programs + 1]
  BY <1>1 DEF RedesignInv, ContractsOK
<1>3. c # NoFile
  BY <1>2 DEF NoFile
<1> HIDE DEF c
<1> QED
  BY <1>1, <1>2, <1>3 DEF RedesignInv, ContractsOK

LEMMA PreviewRefusedKeeps ==
  ASSUME RedesignInv, NEW r \in Redesign, PreviewRefused(r) PROVE RedesignInv'
<1> USE DEF RedesignInv
<1>1. Program(r) /\ UNCHANGED <<document, previewed, disorder>>
  BY DEF PreviewRefused
<1>2. SizesOK' /\ DocumentOK'
  BY <1>1, ProgramKeeps, RedesignSizes DEF SizesOK, DocumentOK, Present, Shape, Made
<1>3. ReceiptsOK'
  BY <1>1, ProgramKeeps, RedesignSizes
     DEF SizesOK, ReceiptsOK, PreviewsOK, CommitsOK, Previewed, Committed, Present, Shape, Made
<1>4. IdsOK'
  BY <1>1, ProgramKeeps, RedesignSizes
     DEF SizesOK, IdsOK, Known, Previewed, Committed, Present, Made
<1>5. InOrder'
  BY <1>1, ProgramKeeps
     DEF InOrder, OnePart, Unique, Holders, BaselinesOrdered, IsPreview, CommitsStand,
         Previewed, Committed, Present
<1> QED
  BY <1>1, <1>2, <1>3, <1>4, <1>5, ProgramKeeps

LEMMA PreviewKeeps ==
  ASSUME RedesignInv, NEW r \in Redesign, PreviewRedesign(r) PROVE RedesignInv'
<1> DEFINE n == programs + 1
           c == contract[r]
           p == [id |-> c.id, target |-> c.target, shape |-> c.shape, object |-> n, program |-> n,
                 before |-> Snapshot]
<1> USE DEF RedesignInv
<1>1. Program(r) /\ Unique /\ Holders(c.id) = {c.target} /\ document[c.target].shape = c.shape
  BY DEF PreviewRedesign
<1>2. /\ previewed' = [previewed EXCEPT ![r] = p]
         /\ (~disorder' => ~disorder /\ Holders(PreviewId(r)) = {})
      /\ disorder' \in BOOLEAN
  BY DEF PreviewRedesign, SizesOK
<1>3. /\ Present' = Present \cup {n} /\ n \notin Present /\ n \notin Part /\ n \in Nat /\ n \notin Made
      /\ \A o \in Present : document'[o] = document[o]
      /\ document'[n] = [id |-> PreviewId(r), shape |-> n, status |-> "none"]
      /\ document' = [o \in Present \cup {n} |-> document'[o]]
  BY RedesignSizes DEF PreviewRedesign, SizesOK, DocumentOK, Made, Present
<1>4. p # NoFile /\ p.id = c.id /\ p.target = c.target /\ p.shape = c.shape /\ p.object = n
  BY DEF NoFile
<1>5. c.target \in Present /\ document[c.target].id = c.id /\ Previewed' = Previewed \cup {r}
      /\ Committed' = Committed
  BY <1>1, <1>2, <1>4, ProgramKeeps
     DEF Holders, Previewed, Committed, ReceiptsOK, PreviewsOK, CommitsOK
<1>6. /\ Made' = Made \cup {n} /\ Shape' = Shape \cup {n} /\ n \notin Shape
  BY <1>1, ProgramKeeps, RedesignSizes DEF Made, Shape, SizesOK
<1> HIDE DEF p
<1>7. /\ \A s \in Previewed' : previewed'[s] = IF s = r THEN p ELSE previewed[s]
      /\ Previewed' = Previewed \cup {r} /\ Committed' = Committed /\ committed' = committed
      /\ DOMAIN previewed' = Redesign /\ DOMAIN committed' = Redesign
  BY <1>1, <1>2, <1>4, ProgramKeeps DEF Previewed, Committed, ReceiptsOK, PreviewsOK, CommitsOK
<1> HIDE DEF n
<1>8. SizesOK' /\ ContractsOK'
  BY <1>1, <1>2, ProgramKeeps, RedesignSizes DEF SizesOK
<1>9. DocumentOK'
  BY <1>3, <1>6 DEF DocumentOK
<1>10. ReceiptsOK'
  <2>1. \A s \in Previewed : previewed[s].object \in Made /\ (s # r => contract'[s] = contract[s])
    BY ProgramKeeps, <1>1 DEF ReceiptsOK, PreviewsOK, Previewed
  <2>2. \A s \in Previewed' : s # r => s \in Previewed /\ previewed'[s] = previewed[s]
    BY <1>7
  <2>3. ASSUME NEW s \in Previewed', s # r
        PROVE  LET q == previewed'[s] IN
               /\ contract'[s] # NoFile
               /\ q.id = contract'[s].id /\ q.shape = contract'[s].shape
               /\ q.object \in Made' /\ q.target \in Part \cup Made' /\ q.target # q.object
               /\ q.shape \in Shape' /\ q.shape # q.object /\ q.id # BaselineId(q.id, q.object)
               /\ \A o \in Present' : document'[o].shape = q.shape =>
                    o = q.target \/ (q.shape = 0 /\ {o, q.target} \subseteq Part)
               /\ \A u \in Previewed' : previewed'[u].object = q.object => u = s
    BY <2>1, <2>2, <2>3, <1>3, <1>4, <1>6, <1>7 DEF ReceiptsOK, PreviewsOK
  <2>4. /\ contract'[r] # NoFile /\ p.id = contract'[r].id /\ p.shape = contract'[r].shape
        /\ p.object \in Made' /\ p.target \in Part \cup Made' /\ p.target # p.object
        /\ p.shape \in Shape' /\ p.shape # p.object
    BY <1>1, <1>3, <1>4, <1>5, <1>6, ProgramKeeps DEF DocumentOK
  <2>5. \A o \in Present' : document'[o].shape = p.shape =>
          o = p.target \/ (p.shape = 0 /\ {o, p.target} \subseteq Part)
    BY <1>1, <1>3, <1>4, <1>5, <1>6 DEF DocumentOK
  <2>6. \A u \in Previewed' : previewed'[u].object = p.object => u = r
    BY <2>1, <2>2, <1>3, <1>4
  <2>9. p.id # BaselineId(p.id, n)
    <3>1. <<c.target, c.id>> \in Known
      BY <1>5 DEF Known
    <3> QED
      BY <3>1, <1>3, <1>4, IdsApart DEF IdsOK
  <2>10. /\ previewed'[r].id = p.id /\ previewed'[r].object = n /\ p.object = n
         /\ previewed'[r] = p /\ DOMAIN previewed' = Redesign
    BY <1>4, <1>7
  <2>7. PreviewsOK'
    <3> SUFFICES ASSUME NEW s \in Previewed'
                 PROVE  LET q == previewed'[s] IN
               /\ contract'[s] # NoFile
               /\ q.id = contract'[s].id /\ q.shape = contract'[s].shape
               /\ q.object \in Made' /\ q.target \in Part \cup Made' /\ q.target # q.object
               /\ q.shape \in Shape' /\ q.shape # q.object /\ q.id # BaselineId(q.id, q.object)
               /\ \A o \in Present' : document'[o].shape = q.shape =>
                    o = q.target \/ (q.shape = 0 /\ {o, q.target} \subseteq Part)
               /\ \A u \in Previewed' : previewed'[u].object = q.object => u = s
      BY <2>10 DEF PreviewsOK
    <3>1. CASE s = r
      BY <3>1, <2>4, <2>5, <2>6, <2>9, <2>10
    <3> QED
      BY <3>1, <2>3
  <2>8. CommitsOK'
    BY <1>3, <1>4, <1>6, <1>7 DEF ReceiptsOK, PreviewsOK, CommitsOK
  <2> QED
    BY <2>7, <2>8 DEF ReceiptsOK
<1>11. Known' \subseteq Known \cup {<<n, PreviewId(r)>>}
  <2>1. \A o \in Present' : <<o, document'[o].id>> \in Known \cup {<<n, PreviewId(r)>>}
    BY <1>3 DEF Known
  <2>2. \A s \in Previewed' : <<previewed'[s].target, previewed'[s].id>> \in Known
    BY <1>4, <1>5, <1>7 DEF Known
  <2>3. \A s \in Committed' : <<committed'[s].baseline, committed'[s].id>> \in Known
    BY <1>7 DEF Known
  <2> QED
    BY <2>1, <2>2, <2>3 DEF Known
<1>12. \A k \in Known : k[1] # n /\ (IsBaseline(k[2]) => k[2][3] # n)
  BY <1>3 DEF IdsOK, Known, ReceiptsOK, PreviewsOK, CommitsOK, DocumentOK, Previewed, Committed
<1>13. IdsOK'
  BY <1>3, <1>4, <1>6, <1>7, <1>11, <1>12, IdsApart DEF IdsOK
<1>14. InOrder'
  <2> SUFFICES ASSUME ~disorder' PROVE OnePart' /\ BaselinesOrdered' /\ CommitsStand'
    BY DEF InOrder
  <2>1. OnePart /\ BaselinesOrdered /\ CommitsStand /\ Holders(PreviewId(r)) = {}
    BY <1>2 DEF InOrder
  <2>2. OnePart'
    BY <2>1, <1>3, <1>7 DEF OnePart, Unique, Holders
  <2>3. BaselinesOrdered'
    <3>1. \A o \in Present : <<o, document[o].id>> \in Known
      BY DEF Known
    <3>2. \A o \in Present' : IsBaseline(document'[o].id) => o \in Present /\ document'[o].id[3] # n
      <4>1. ~IsBaseline(document'[n].id)
        BY <1>3, IdsApart
      <4>2. ASSUME NEW o \in Present, IsBaseline(document[o].id) PROVE document[o].id[3] # n
        <5>1. <<o, document[o].id>>[2] = document[o].id
          OBVIOUS
        <5> QED
          BY <5>1, <3>1, <4>2, <1>12
      <4> QED
        BY <4>1, <4>2, <1>3
    <3>3. ASSUME NEW s \in Previewed', s # r
          PROVE  LET q == previewed'[s] IN
                 /\ \A o \in Present' : IsBaseline(document'[o].id) /\ document'[o].id[3] = q.object =>
                      o \in {q.object, q.target}
                 /\ q.object \in Present' /\ ~IsPreview(s)' =>
                      q.target \in Present' /\ document'[q.target].id = BaselineId(q.id, q.object)
      <4>1. s \in Previewed /\ previewed'[s] = previewed[s] /\ previewed[s].object # n
            /\ previewed[s].object \in Made
        BY <3>3, <1>3, <1>7 DEF ReceiptsOK, PreviewsOK
      <4> QED
        BY <4>1, <3>2, <2>1, <1>3 DEF BaselinesOrdered, IsPreview
    <3>4. IsPreview(r)'
      BY <1>3, <1>4, <1>7 DEF IsPreview
    <3> QED
      BY <3>2, <3>3, <3>4, <1>4, <1>7 DEF BaselinesOrdered
  <2>4. CommitsStand'
    BY <2>1, <1>3, <1>7 DEF CommitsStand, ReceiptsOK, PreviewsOK, CommitsOK, Committed
  <2> QED
    BY <2>2, <2>3, <2>4
<1> QED
  BY <1>8, <1>9, <1>10, <1>13, <1>14

LEMMA ReshapeKeeps ==
  ASSUME RedesignInv, NEW o \in Present, Reshape(o) PROVE RedesignInv'
<1> DEFINE s == MaxPreviews + shapeEdits + 1
<1> USE DEF RedesignInv
<1>1. /\ UNCHANGED <<contract, previewed, committed, programs, disorder>> /\ shapeEdits < MaxShapeEdits
      /\ shapeEdits' = shapeEdits + 1
  BY DEF Reshape
<1>2. /\ Present' = Present
      /\ \A q \in Present : /\ document'[q].id = document[q].id
                               /\ document'[q].status = document[q].status
                            /\ document'[q].shape = IF q = o THEN s ELSE document[q].shape
      /\ document' = [q \in Present |-> [id |-> document'[q].id, shape |-> document'[q].shape,
                                         status |-> document'[q].status]]
  <2>1. /\ document' = [document EXCEPT ![o] = [document[o] EXCEPT !.shape = s]]
        /\ document[o] = [id |-> document[o].id, shape |-> document[o].shape,
                          status |-> document[o].status]
    BY DEF Reshape, DocumentOK
  <2>2. [document[o] EXCEPT !.shape = s] = [id |-> document[o].id, shape |-> s,
                                            status |-> document[o].status]
    BY <2>1
  <2>3. document' = [document EXCEPT ![o] = [id |-> document[o].id, shape |-> s,
                                             status |-> document[o].status]]
    BY <2>1, <2>2
  <2>4. /\ Present' = Present
        /\ document'[o] = [id |-> document[o].id, shape |-> s, status |-> document[o].status]
        /\ \A q \in Present : q # o => document'[q] = document[q]
        /\ document' = [q \in Present |-> document'[q]]
    BY <2>3 DEF Present
  <2> HIDE DEF s
  <2> QED
    BY <2>4 DEF DocumentOK
<1>3. Shape' = Shape \cup {s} /\ s \notin Shape /\ Made' = Made /\ s # 0 /\ s \notin Made
  BY <1>1, RedesignSizes DEF Shape, Made, SizesOK
<1>4. Known' = Known /\ Previewed' = Previewed /\ Committed' = Committed
  BY <1>1, <1>2 DEF Known, Previewed, Committed
<1> HIDE DEF s
<1>5. SizesOK' /\ ContractsOK' /\ DocumentOK'
  BY <1>1, <1>2, <1>3, RedesignSizes DEF SizesOK, ContractsOK, DocumentOK
<1>6. ReceiptsOK'
  BY <1>1, <1>2, <1>3, <1>4 DEF ReceiptsOK, PreviewsOK, CommitsOK
<1>7. IdsOK'
  BY <1>1, <1>3, <1>4 DEF IdsOK
<1>8. InOrder'
  BY <1>1, <1>2, <1>4
     DEF InOrder, OnePart, Unique, Holders, BaselinesOrdered, IsPreview, CommitsStand,
         ReceiptsOK, CommitsOK
<1> QED
  BY <1>5, <1>6, <1>7, <1>8

LEMMA DiscardKeeps ==
  ASSUME RedesignInv, NEW r \in Redesign, Discard(r) PROVE RedesignInv'
<1> DEFINE p == previewed[r]
           n == p.object
<1> USE DEF RedesignInv
<1>1. /\ UNCHANGED <<contract, previewed, committed, programs, shapeEdits, disorder>>
      /\ r \in Previewed /\ Unique /\ n \in Present /\ NotCommitted(p) /\ TargetAsPreviewed(p)
  BY DEF Discard, AsPreviewed, Previewed
<1>2. /\ Present' = Present \ {n} /\ \A o \in Present \ {n} : document'[o] = document[o]
      /\ document' = [o \in Present \ {n} |-> document'[o]]
  BY DEF Discard, Present
<1>3. n \in Made /\ n \notin Part /\ p.target # n
  BY <1>1, RedesignSizes DEF ReceiptsOK, PreviewsOK, Made
<1>4. Known' \subseteq Known /\ Previewed' = Previewed /\ Committed' = Committed
  BY <1>1, <1>2 DEF Known, Previewed, Committed
<1>5. document[p.target].id = p.id /\ p.target \in Present
  BY <1>1 DEF TargetAsPreviewed, Holders
<1> HIDE DEF n
<1>6. SizesOK' /\ ContractsOK' /\ DocumentOK'
  BY <1>1, <1>2, <1>3 DEF SizesOK, ContractsOK, DocumentOK, Shape, Made
<1>7. ReceiptsOK'
  BY <1>1, <1>2, <1>4 DEF ReceiptsOK, PreviewsOK, CommitsOK, Shape, Made
<1>8. IdsOK'
  BY <1>1, <1>4 DEF IdsOK, Made
<1>9. InOrder'
  <2> SUFFICES ASSUME ~disorder PROVE OnePart' /\ BaselinesOrdered' /\ CommitsStand'
    BY <1>1 DEF InOrder
  <2> USE DEF InOrder
  <2>1. n = p.object /\ <<n, document[n].id>> \in Known
    BY <1>1 DEF n, Known
  <2>2. document[n].id \notin OwnIds
    BY <2>1, <1>1 DEF NotCommitted, IdsOK
  <2>3. OnePart'
    BY <2>2, <1>1, <1>2, <1>4 DEF OnePart, Unique, Holders, OwnIds
  <2>4. IsPreview(r)
    BY <2>1, <1>1, <1>5 DEF BaselinesOrdered, ReceiptsOK, PreviewsOK
  <2>8. \A i, m : document[n].id = BaselineId(i, m) => m = n
    BY <2>1, <2>4, IdsApart DEF IsPreview
  <2>5. \A s \in Previewed : previewed[s].target = n /\ previewed[s].object \in Present => IsPreview(s)
    BY <2>8 DEF BaselinesOrdered, ReceiptsOK, PreviewsOK
  <2>6. BaselinesOrdered'
    BY <2>5, <1>1, <1>2, <1>4 DEF BaselinesOrdered, IsPreview
  <2>7. CommitsStand'
    BY <2>8, <1>1, <1>2, <1>4 DEF CommitsStand, ReceiptsOK, CommitsOK
  <2> QED
    BY <2>3, <2>6, <2>7
<1> QED
  BY <1>6, <1>7, <1>8, <1>9

(* Two objects change their identities and keep their shapes. *)
Rename(f, a, x, b, y) == [f EXCEPT ![a] = x, ![b] = y]

LEMMA RenamePair ==
  ASSUME NEW f, NEW a \in DOMAIN f, NEW b \in DOMAIN f, a # b, NEW x, NEW y
  PROVE  LET g == Rename(f, a, x, b, y) IN
         /\ DOMAIN g = DOMAIN f /\ g[a] = x /\ g[b] = y
         /\ \A o \in DOMAIN f \ {a, b} : g[o] = f[o]
         /\ g = [o \in DOMAIN f |-> g[o]]
BY DEF Rename

LEMMA RenamedKeeps ==
  ASSUME RedesignInv, NEW a \in Present, NEW b \in Present, a # b, NEW i, NEW j, NEW u, NEW v,
         document' = Rename(document, a, Renamed(a, i, u), b, Renamed(b, j, v)),
         UNCHANGED <<contract, previewed, programs, shapeEdits>>
  PROVE  /\ Present' = Present
         /\ document'[a].id = i /\ document'[a].status = u
         /\ document'[b].id = j /\ document'[b].status = v
         /\ \A o \in Present \ {a, b} : document'[o] = document[o]
         /\ DocumentOK' /\ ContractsOK' /\ PreviewsOK' /\ Previewed' = Previewed
<1>3. /\ Present' = Present /\ document'[a] = Renamed(a, i, u) /\ document'[b] = Renamed(b, j, v)
      /\ \A o \in Present \ {a, b} : document'[o] = document[o]
      /\ document' = [o \in Present |-> document'[o]]
  BY RenamePair DEF Present
<1>1. /\ document'[a] = [id |-> i, shape |-> document[a].shape, status |-> u]
      /\ document'[b] = [id |-> j, shape |-> document[b].shape, status |-> v]
  BY <1>3 DEF Renamed
<1>4. /\ Previewed' = Previewed /\ Shape' = Shape /\ Made' = Made
      /\ \A o \in Present : document'[o].shape = document[o].shape
  BY <1>1, <1>3 DEF Previewed, Shape, Made
<1>5. DocumentOK'
  <2>1. \A o \in Present : document'[o] = [id |-> document'[o].id, shape |-> document'[o].shape,
                                           status |-> document'[o].status]
    BY <1>1, <1>3 DEF RedesignInv, DocumentOK
  <2>2. document' = [o \in Present |-> [id |-> document'[o].id, shape |-> document'[o].shape,
                                        status |-> document'[o].status]]
    BY <2>1, <1>3
  <2>3. /\ Part \subseteq Present /\ Present \subseteq Part \cup Made
        /\ \A o \in Present : document[o].shape \in Shape
        /\ \A o, q \in Present : document[o].shape = document[q].shape =>
             o = q \/ (document[o].shape = 0 /\ {o, q} \subseteq Part)
    BY DEF RedesignInv, DocumentOK
  <2> HIDE DEF Present
  <2> QED
    BY <2>2, <2>3, <1>3, <1>4 DEF DocumentOK
<1>6. ContractsOK' /\ PreviewsOK'
  <2>1. UNCHANGED <<contract, previewed>>
    OBVIOUS
  <2>2. ContractsOK'
    BY <2>1 DEF RedesignInv, ContractsOK
  <2>4. PreviewsOK
    BY DEF RedesignInv, ReceiptsOK
  <2>3. PreviewsOK'
    BY <2>1, <2>4, <1>3, <1>4 DEF PreviewsOK
  <2> QED
    BY <2>2, <2>3
<1> QED
  BY <1>1, <1>3, <1>4, <1>5, <1>6

LEMMA CommitKeeps ==
  ASSUME RedesignInv, NEW r \in Redesign, Commit(r) PROVE RedesignInv'
<1> DEFINE p == previewed[r]
           n == p.object
           B == BaselineId(p.id, n)
<1> USE DEF RedesignInv
<1>1. /\ UNCHANGED <<contract, previewed, programs, shapeEdits>>
      /\ r \in Previewed /\ Unique /\ n \in Present
  BY DEF Commit, Previewed, BranchAsPreviewed
<1>2. PICK t \in Holders(p.id) :
       /\ TargetShape(p, t)
       /\ document' = [document EXCEPT
            ![t] = Renamed(t, B, "retained_baseline"), ![n] = Renamed(n, p.id, "committed")]
       /\ committed' = [committed EXCEPT
            ![r] = [id |-> p.id, candidate |-> n, baseline |-> t, kept |-> B]]
       /\ disorder' = (disorder \/ p.id \notin {Own(q) : q \in Part})
  BY DEF Commit, BaselineName
<1>3. t \in Present /\ document[t].id = p.id /\ t = p.target /\ t # n /\ n \in Made /\ n \notin Part
  <2>1. t \in Present /\ document[t].id = p.id /\ document[t].shape = p.shape
    BY <1>2 DEF Holders, TargetShape
  <2>2. t = p.target
    BY <1>1, <2>1, TargetFound
  <2> QED
    BY <1>1, <2>1, <2>2, RedesignSizes DEF ReceiptsOK, PreviewsOK, Made
<1>4. /\ Present' = Present /\ document'[t].id = B /\ document'[t].status = "retained_baseline"
      /\ document'[n].id = p.id /\ document'[n].status = "committed"
      /\ \A o \in Present \ {t, n} : document'[o] = document[o]
      /\ DocumentOK' /\ ContractsOK' /\ PreviewsOK' /\ Previewed' = Previewed
  <2> HIDE DEF RedesignInv, B, n, p
  <2>1. document' = Rename(document, t, Renamed(t, B, "retained_baseline"),
                           n, Renamed(n, p.id, "committed"))
    BY <1>2 DEF Rename
  <2>2. n \in Present /\ t \in Present /\ t # n /\ UNCHANGED <<contract, previewed, programs,
        shapeEdits>>
    BY <1>1, <1>3
  <2> QED
    BY <2>1, <2>2, RenamedKeeps
<1>5. \E c : /\ committed' = [committed EXCEPT ![r] = c] /\ c # NoFile
             /\ c.id = p.id /\ c.candidate = n /\ c.baseline = t /\ c.kept = B
  <2> DEFINE c == [id |-> p.id, candidate |-> n, baseline |-> t, kept |-> B]
  <2>1. c # NoFile /\ c.id = p.id /\ c.candidate = n /\ c.baseline = t /\ c.kept = B
    BY DEF NoFile
  <2> QED
    BY <1>2, <2>1
<1>6. /\ \A s \in Redesign : s # r => committed'[s] = committed[s]
      /\ committed'[r].id = p.id /\ committed'[r].candidate = n
      /\ committed'[r].baseline = t /\ committed'[r].kept = B
      /\ Committed' = Committed \cup {r} /\ DOMAIN committed' = Redesign
  BY <1>5 DEF ReceiptsOK, CommitsOK, Committed
<1>7. B[3] = n /\ IsBaseline(B) /\ B \notin OwnIds /\ B = BaselineId(p.id, n)
  BY IdsApart
<1>8. disorder' \in BOOLEAN /\ (~disorder' => ~disorder /\ p.id \in OwnIds)
  BY <1>2 DEF SizesOK, OwnIds
<1>9. \A s \in Previewed : previewed[s].object = n => s = r
  BY <1>1 DEF ReceiptsOK, PreviewsOK
<1>10. \A s \in Committed : committed[s].candidate = n => s = r
  BY <1>1 DEF ReceiptsOK, CommitsOK
<1>11. p.id = previewed[r].id /\ n = previewed[r].object /\ p.target = previewed[r].target
  OBVIOUS
<1> HIDE DEF n, B, p
<1>12. SizesOK'
  BY <1>1, <1>8 DEF SizesOK
<1>13. ReceiptsOK'
  <2>1. Made' = Made
    BY <1>1 DEF Made
  <2>3. \A s \in Committed' : s # r => s \in Committed /\ committed'[s] = committed[s]
    BY <1>6 DEF Committed
  <2>4. /\ \A s \in Previewed : previewed'[s] = previewed[s]
        /\ n \in Made /\ t \in Part \cup Made /\ previewed[r].target = t
    BY <1>1, <1>3, <1>11 DEF ReceiptsOK, PreviewsOK
  <2>2. CommitsOK'
    <3> SUFFICES ASSUME NEW s \in Committed'
                 PROVE  LET c == committed'[s] IN
                        /\ s \in Previewed' /\ c.id = previewed'[s].id
                        /\ c.candidate \in Made' /\ c.baseline \in Part \cup Made'
                           /\ c.baseline # c.candidate
                        /\ c.kept = BaselineId(c.id, c.candidate)
                        /\ \A u \in Previewed' : previewed'[u].object = c.candidate => u = s
                        /\ \A u \in Committed' : committed'[u].candidate = c.candidate => u = s
      BY <1>6 DEF CommitsOK
    <3>1. CASE s = r
      BY <3>1, <2>1, <2>3, <2>4, <1>1, <1>3, <1>4, <1>6, <1>7, <1>9, <1>10, <1>11
    <3>2. CASE s # r
      BY <3>2, <2>1, <2>3, <2>4, <1>1, <1>4, <1>6, <1>10 DEF ReceiptsOK, CommitsOK
    <3> QED
      BY <3>1, <3>2
  <2> QED
    BY <2>2, <1>4 DEF ReceiptsOK
<1>14. Known' \subseteq Known \cup {<<t, B>>, <<n, p.id>>} /\ <<t, p.id>> \in Known
  <2>1. <<t, p.id>> \in Known
    BY <1>3 DEF Known
  <2>2. \A o \in Present' : <<o, document'[o].id>> \in Known \cup {<<t, B>>, <<n, p.id>>}
    BY <1>4 DEF Known
  <2>3. \A s \in Previewed' : <<previewed'[s].target, previewed'[s].id>> \in Known
    BY <1>1, <1>4 DEF Known
  <2>4. \A s \in Committed' : <<committed'[s].baseline, committed'[s].id>> \in Known
    <3>1. \A s \in Committed' : s # r => s \in Committed /\ committed'[s] = committed[s]
      BY <1>6 DEF Committed
    <3>2. <<committed'[r].baseline, committed'[r].id>> = <<t, p.id>>
      BY <1>6
    <3>3. \A s \in Committed : <<committed[s].baseline, committed[s].id>> \in Known
      BY DEF Known
    <3> QED
      BY <3>1, <3>2, <3>3, <2>1
  <2> QED
    BY <2>1, <2>2, <2>3, <2>4 DEF Known
<1>15. IdsOK'
  <2>1. Made' = Made
    BY <1>1 DEF Made
  <2>2. \A k \in Known' : IsBaseline(k[2]) => k[2][3] \in Made'
    BY <2>1, <1>3, <1>7, <1>14 DEF IdsOK
  <2>3. \A k \in Known : k[1] \in Part /\ k[2] = B => k[1] = t
    BY <1>1, <1>3, <1>7, <1>11 DEF IdsOK
  <2>4. \A k, l \in Known' : {k[1], l[1]} \subseteq Part /\ k[2] = l[2] => k[1] = l[1]
    BY <2>3, <1>3, <1>14 DEF IdsOK
  <2>5. ASSUME NEW s \in Previewed, NEW k \in {<<t, B>>, <<n, p.id>>}
        PROVE  /\ k[1] \in Part /\ IsBaseline(k[2]) /\ k[2][3] = previewed[s].object =>
                    k[1] = previewed[s].target
               /\ k[1] = previewed[s].object /\ k[2] \in OwnIds => k[2] = previewed[s].id
    BY <1>3, <1>7, <1>9, <1>11
  <2> QED
    BY <2>2, <2>4, <2>5, <1>1, <1>4, <1>14 DEF IdsOK
<1>16. InOrder'
  <2> SUFFICES ASSUME ~disorder' PROVE OnePart' /\ BaselinesOrdered' /\ CommitsStand'
    BY DEF InOrder
  <2>1. OnePart /\ BaselinesOrdered /\ CommitsStand /\ p.id \in OwnIds /\ ~IsBaseline(p.id) /\ p.id # B
    BY <1>7, <1>8, OwnIdsApart DEF InOrder
  <2>2. document[n].id \notin OwnIds
    <3>1. <<n, document[n].id>> \in Known
      BY <1>1 DEF Known
    <3>2. document[n].id \in OwnIds => document[n].id = p.id
      BY <3>1, <1>1, <1>11 DEF IdsOK
    <3> QED
      BY <3>2, <1>1, <1>3 DEF Unique
  <2>3. \A o \in Present : document[o].id = B => o \in {n, t}
    BY <1>1, <1>3, <1>7, <1>11, <2>1 DEF BaselinesOrdered
  <2>4. \A i, m : document[n].id = BaselineId(i, m) => m = n
    <3>1. document[n].id \in {PreviewId(r), BaselineId(p.id, n)}
      BY <2>1, <1>1, <1>3, <1>7, <1>11 DEF BaselinesOrdered, IsPreview
    <3> QED
      BY <3>1, IdsApart
  <2>5. OnePart'
    <3>1. Unique'
      BY <2>1, <2>3, <1>3, <1>4 DEF OnePart, Unique
    <3>2. \A q \in Part : Holders(Own(q))' # {}
      BY <2>1, <2>2, <1>1, <1>3, <1>4 DEF OnePart, Holders, OwnIds
    <3>3. \A s \in Committed' : committed'[s].id \in OwnIds
      <4>1. \A s \in Committed' : s = r \/ (s \in Committed /\ committed'[s] = committed[s])
        BY <1>6 DEF Committed
      <4> QED
        BY <4>1, <2>1, <1>6 DEF OnePart
    <3> QED
      BY <3>1, <3>2, <3>3 DEF OnePart, OwnIds
  <2>6. BaselinesOrdered'
    <3> SUFFICES ASSUME NEW s \in Previewed
                 PROVE  LET q == previewed[s] IN
                        /\ \A o \in Present : IsBaseline(document'[o].id)
                           /\ document'[o].id[3] = q.object =>
                             o \in {q.object, q.target}
                        /\ q.object \in Present /\ ~IsPreview(s)' =>
                             q.target \in Present
                             /\ document'[q.target].id = BaselineId(q.id, q.object)
      BY <1>1, <1>4 DEF BaselinesOrdered
    <3> DEFINE q == previewed[s]
    <3>1. \A o \in Present : IsBaseline(document'[o].id) /\ document'[o].id[3] = q.object =>
                             o \in {q.object, q.target}
      BY <2>1, <1>3, <1>4, <1>7, <1>9, <1>11 DEF BaselinesOrdered
    <3>2. CASE s = r
      BY <3>1, <3>2, <1>3, <1>4, <1>7, <1>11
    <3>3. CASE s # r /\ q.object \in Present /\ ~IsPreview(s)'
      <4>1. q.object # n /\ q.target # q.object
        BY <3>3, <1>9 DEF ReceiptsOK, PreviewsOK
      <4>2. ~IsPreview(s)
        BY <4>1, <3>3, <2>1, <1>1, <1>3, <1>4, IdsApart DEF IsPreview
      <4>3. q.target \in Present /\ document[q.target].id = BaselineId(q.id, q.object)
        BY <4>2, <3>3, <2>1 DEF BaselinesOrdered
      <4>4. q.target # n /\ q.target # t
        BY <4>1, <4>3, <2>1, <2>4, <1>3, IdsApart
      <4> QED
        BY <3>1, <4>3, <4>4, <1>4
    <3> QED
      BY <3>1, <3>2, <3>3
  <2>7. CommitsStand'
    <3> SUFFICES ASSUME NEW s \in Committed', s # r, committed'[s].candidate \in Present,
                        document'[committed'[s].candidate].status = "committed"
                 PROVE  LET c == committed'[s] IN
                        /\ document'[c.candidate].id = c.id
                        /\ c.baseline \in Present /\ document'[c.baseline].id = c.kept
      BY <1>3, <1>4, <1>6 DEF CommitsStand
    <3> DEFINE c == committed[s]
    <3>1. /\ s \in Committed /\ committed'[s] = c /\ c.candidate # n /\ c.candidate # t
          /\ c.kept = BaselineId(c.id, c.candidate)
      BY <1>4, <1>6, <1>10 DEF ReceiptsOK, CommitsOK, Committed
    <3>2. document[c.candidate].id = c.id /\ c.baseline \in Present /\ document[c.baseline].id = c.kept
      BY <3>1, <2>1, <1>4 DEF CommitsStand
    <3>3. c.baseline # n /\ c.baseline # t
      BY <3>1, <3>2, <2>1, <2>4, <1>3, IdsApart
    <3> QED
      BY <3>1, <3>2, <3>3, <1>4
  <2> QED
    BY <2>5, <2>6, <2>7
<1> QED
  BY <1>4, <1>12, <1>13, <1>15, <1>16

LEMMA RollbackKeeps ==
  ASSUME RedesignInv, NEW r \in Redesign, Rollback(r) PROVE RedesignInv'
<1> DEFINE c == committed[r]
           n == c.candidate
           b == c.baseline
<1> USE DEF RedesignInv
<1>1. /\ UNCHANGED <<contract, previewed, committed, programs, shapeEdits>>
      /\ r \in Committed /\ n \in Present /\ b \in Present
      /\ disorder' = (disorder \/ ~Newest(c))
  BY DEF Rollback, Committed
<1>2. n \in Made /\ n \notin Part /\ b # n /\ c.kept = BaselineId(c.id, n)
  BY <1>1, RedesignSizes DEF ReceiptsOK, CommitsOK, Made
<1>3. /\ Present' = Present /\ document'[n].id = c.kept
      /\ document'[n].status = "rollback_candidate_hidden"
      /\ document'[b].id = c.id /\ document'[b].status = "rollback_restored"
      /\ \A o \in Present \ {n, b} : document'[o] = document[o]
      /\ DocumentOK' /\ ContractsOK' /\ PreviewsOK' /\ Previewed' = Previewed
  <2> HIDE DEF RedesignInv
  <2>1. document' = Rename(document, n, Renamed(n, c.kept, "rollback_candidate_hidden"),
                           b, Renamed(b, c.id, "rollback_restored"))
    BY DEF Rename, Rollback, RolledBack
  <2> HIDE DEF b, n, c
  <2>2. n \in Present /\ b \in Present /\ b # n /\ UNCHANGED <<contract, previewed, programs,
        shapeEdits>>
    BY <1>1, <1>2
  <2> QED
    BY <2>1, <2>2, RenamedKeeps
<1>4. disorder' \in BOOLEAN /\ (~disorder' => ~disorder /\ document[n].id = c.id
                                /\ document[b].id = c.kept)
  BY <1>1 DEF Newest, SizesOK
<1>5. c.kept[3] = n /\ IsBaseline(c.kept) /\ c.kept \notin OwnIds
  BY <1>2, IdsApart
<1>6. /\ Committed' = Committed /\ Made' = Made
      /\ \A s \in Previewed : previewed[s].object = n => s = r
      /\ \A s \in Committed : committed[s].candidate = n => s = r
      /\ r \in Previewed /\ c.id = previewed[r].id
  BY <1>1 DEF Committed, Made, ReceiptsOK, CommitsOK
<1>7. c = committed[r] /\ n = c.candidate /\ b = c.baseline
  OBVIOUS
<1> HIDE DEF n, b, c
<1>8. SizesOK'
  BY <1>1, <1>4 DEF SizesOK
<1>9. ReceiptsOK'
  BY <1>1, <1>3, <1>6 DEF ReceiptsOK, CommitsOK
<1>10. Known' \subseteq Known \cup {<<n, c.kept>>}
  <2>1. <<b, c.id>> \in Known
    BY <1>1, <1>7 DEF Known
  <2>2. \A o \in Present' : <<o, document'[o].id>> \in Known \cup {<<n, c.kept>>}
    BY <1>3, <2>1 DEF Known
  <2> QED
    BY <2>2, <1>1, <1>3, <1>6 DEF Known
<1>11. IdsOK'
  BY <1>1, <1>2, <1>3, <1>5, <1>6, <1>10 DEF IdsOK
<1>12. InOrder'
  <2> SUFFICES ASSUME ~disorder' PROVE OnePart' /\ BaselinesOrdered' /\ CommitsStand'
    BY DEF InOrder
  <2>1. /\ OnePart /\ BaselinesOrdered /\ CommitsStand
        /\ document[n].id = c.id /\ document[b].id = c.kept /\ c.id \in OwnIds /\ ~IsBaseline(c.id)
    BY <1>1, <1>4, <1>7, OwnIdsApart DEF InOrder, OnePart
  <2>2. OnePart'
    BY <2>1, <1>1, <1>3, <1>5, <1>6 DEF OnePart, Unique, Holders, OwnIds
  <2>3. BaselinesOrdered'
    <3> SUFFICES ASSUME NEW s \in Previewed
                 PROVE  LET q == previewed[s] IN
                        /\ \A o \in Present : IsBaseline(document'[o].id)
                           /\ document'[o].id[3] = q.object =>
                             o \in {q.object, q.target}
                        /\ q.object \in Present /\ ~IsPreview(s)' =>
                             q.target \in Present
                             /\ document'[q.target].id = BaselineId(q.id, q.object)
      BY <1>1, <1>3 DEF BaselinesOrdered
    <3> DEFINE q == previewed[s]
    <3>1. \A o \in Present : IsBaseline(document'[o].id) /\ document'[o].id[3] = q.object =>
                             o \in {q.object, q.target}
      BY <2>1, <1>3, <1>5, <1>6 DEF BaselinesOrdered
    <3>2. CASE s = r
      <4>1. q.object = n => IsPreview(s)'
        BY <3>2, <1>1, <1>2, <1>3, <1>6 DEF IsPreview
      <4>2. CASE q.object # n /\ q.object \in Present /\ ~IsPreview(s)'
        <5>1. ~IsPreview(s) /\ q.target # q.object
          BY <4>2, <2>1, <1>1, <1>2, <1>3, IdsApart DEF IsPreview, ReceiptsOK, PreviewsOK
        <5>2. q.target \in Present /\ document[q.target].id = BaselineId(q.id, q.object)
          BY <5>1, <4>2, <2>1 DEF BaselinesOrdered
        <5>3. q.target # n /\ q.target # b
          BY <5>2, <4>2, <2>1, <1>2, IdsApart
        <5> QED
          BY <3>1, <5>2, <5>3, <1>3
      <4> QED
        BY <3>1, <4>1, <4>2
    <3>3. CASE s # r /\ q.object \in Present /\ ~IsPreview(s)'
      <4>1. q.object # n /\ q.target # q.object
        BY <3>3, <1>6 DEF ReceiptsOK, PreviewsOK
      <4>2. ~IsPreview(s)
        BY <4>1, <3>3, <2>1, <1>1, <1>2, <1>3, IdsApart DEF IsPreview
      <4>3. q.target \in Present /\ document[q.target].id = BaselineId(q.id, q.object)
        BY <4>2, <3>3, <2>1 DEF BaselinesOrdered
      <4>4. q.target # n /\ q.target # b
        BY <4>1, <4>3, <2>1, <1>2, IdsApart
      <4> QED
        BY <3>1, <4>3, <4>4, <1>3
    <3> QED
      BY <3>1, <3>2, <3>3
  <2>4. CommitsStand'
    <3> SUFFICES ASSUME NEW s \in Committed, committed[s].candidate \in Present,
                        document'[committed[s].candidate].status = "committed"
                 PROVE  LET d == committed[s] IN
                        /\ document'[d.candidate].id = d.id
                        /\ d.baseline \in Present /\ document'[d.baseline].id = d.kept
      BY <1>1, <1>3, <1>6 DEF CommitsStand
    <3> DEFINE d == committed[s]
    <3>1. d.candidate # n /\ d.candidate # b /\ d.kept = BaselineId(d.id, d.candidate)
      BY <1>3 DEF ReceiptsOK, CommitsOK
    <3>2. document[d.candidate].id = d.id /\ d.baseline \in Present /\ document[d.baseline].id = d.kept
      BY <3>1, <2>1, <1>3 DEF CommitsStand
    <3>3. d.baseline # n /\ d.baseline # b
      BY <3>1, <3>2, <2>1, <1>2, IdsApart
    <3> QED
      BY <3>1, <3>2, <3>3, <1>3
  <2> QED
    BY <2>2, <2>3, <2>4
<1> QED
  BY <1>3, <1>8, <1>9, <1>11, <1>12

LEMMA RedesignStarts == RedesignInit => RedesignInv
<1> SUFFICES ASSUME RedesignInit PROVE RedesignInv
  OBVIOUS
<1>1. /\ document = [p \in Part |-> [id |-> Own(p), shape |-> 0, status |-> "none"]]
      /\ contract = [r \in Redesign |-> NoFile] /\ previewed = [r \in Redesign |-> NoFile]
      /\ committed = [r \in Redesign |-> NoFile]
      /\ programs = 0 /\ shapeEdits = 0 /\ disorder = FALSE
  BY DEF RedesignInit
<1>2. /\ Present = Part /\ Previewed = {} /\ Committed = {} /\ 0 \in Shape
      /\ \A p \in Part : document[p].id = Own(p) /\ document[p].shape = 0
  BY <1>1, RedesignSizes DEF Present, Previewed, Committed, Shape
<1>7. SizesOK /\ ContractsOK
  <2>1. ContractsOK
    BY <1>1 DEF ContractsOK
  <2>3. programs \in 0..MaxPreviews /\ shapeEdits \in 0..MaxShapeEdits
    BY <1>1, RedesignSizes
  <2>4. disorder \in BOOLEAN
    BY <1>1, Zenon
  <2>2. SizesOK
    BY <2>3, <2>4 DEF SizesOK
  <2> QED
    BY <2>1, <2>2
<1>8. DocumentOK
  <2>1. \A o \in Part : document[o] = [id |-> document[o].id, shape |-> document[o].shape,
                                     status |-> document[o].status]
    BY <1>1
  <2>2. document = [o \in Part |-> document[o]]
    BY <1>1
  <2> QED
    BY <2>1, <2>2, <1>2 DEF DocumentOK
<1>9. ReceiptsOK
  BY <1>1, <1>2 DEF ReceiptsOK, PreviewsOK, CommitsOK
<1>3. SizesOK /\ DocumentOK /\ ContractsOK /\ ReceiptsOK
  BY <1>7, <1>8, <1>9
<1>4. \A k \in Known : k[1] \in Part /\ k[2] = Own(k[1]) /\ ~IsBaseline(k[2])
  BY <1>2, OwnIdsApart DEF Known, OwnIds
<1>5. IdsOK
  BY <1>2, <1>4, OwnIdsApart DEF IdsOK
<1>6. InOrder
  BY <1>2, OwnIdsApart DEF InOrder, OnePart, Unique, Holders, BaselinesOrdered, CommitsStand
<1> QED
  BY <1>3, <1>5, <1>6 DEF RedesignInv

LEMMA RedesignStands ==
  ASSUME RedesignInv, UNCHANGED redesignVars PROVE RedesignInv'
<1>1. UNCHANGED <<document, contract, previewed, committed, programs, shapeEdits, disorder>>
  BY DEF redesignVars
<1> QED
  BY <1>1
     DEF RedesignInv, SizesOK, DocumentOK, ContractsOK, ReceiptsOK, PreviewsOK, CommitsOK,
         IdsOK, Known, InOrder, OnePart, BaselinesOrdered, CommitsStand, IsPreview, Unique,
         Holders, Previewed, Committed, Present, Shape, Made

(* The step. *)
LEMMA VerifiedStep ==
  ASSUME RedesignInv, [RedesignNext]_redesignVars
  PROVE  /\ RedesignInv'
         /\ \A r \in Redesign : committed'[r] # committed[r] =>
              LET p == previewed[r] IN
              /\ committed'[r].baseline = p.target /\ document[p.target].shape = contract[r].shape
              /\ document[p.object].shape = p.object
              /\ \A q \in Part : Holders(Own(q)) = Holders(Own(q))' \/ p.id = Own(q)
              /\ p.before \subseteq Snapshot
<1> DEFINE Verified(r) ==
      LET p == previewed[r] IN
      /\ committed'[r].baseline = p.target /\ document[p.target].shape = contract[r].shape
      /\ document[p.object].shape = p.object
      /\ \A q \in Part : Holders(Own(q)) = Holders(Own(q))' \/ p.id = Own(q)
      /\ p.before \subseteq Snapshot
<1>1. CASE UNCHANGED redesignVars
  BY <1>1, RedesignStands DEF redesignVars
<1>2. ASSUME NEW r \in Redesign, Commit(r)
      PROVE  RedesignInv' /\ \A s \in Redesign : committed'[s] # committed[s] => Verified(s)
  <2> DEFINE p == previewed[r]
  <2>1. /\ r \in Previewed /\ BranchAsPreviewed(p) /\ OthersAsPreviewed(p) /\ Unique
    BY <1>2 DEF Commit, Previewed
  <2>2. PICK t \in Holders(p.id) :
         /\ TargetShape(p, t)
         /\ document' = [document EXCEPT
              ![t] = Renamed(t, BaselineId(p.id, p.object), "retained_baseline"),
              ![p.object] = Renamed(p.object, p.id, "committed")]
         /\ committed' = [committed EXCEPT
              ![r] = [id |-> p.id, candidate |-> p.object, baseline |-> t,
                      kept |-> BaselineId(p.id, p.object)]]
    BY <1>2 DEF Commit, BaselineName
  <2>3. t \in Present /\ document[t].id = p.id /\ document[t].shape = p.shape /\ t = p.target
    <3>1. t \in Present /\ document[t].id = p.id /\ document[t].shape = p.shape
      BY <2>2 DEF Holders, TargetShape
    <3> QED
      BY <3>1, <2>1, TargetFound DEF RedesignInv
  <2>4. /\ p.object \in Present /\ document[p.object].shape = p.object /\ p.shape = contract[r].shape
        /\ t # p.object
    BY <2>1, <2>3 DEF BranchAsPreviewed, RedesignInv, ReceiptsOK, PreviewsOK
  <2>5. /\ Present' = Present /\ document'[t].id = BaselineId(p.id, p.object)
        /\ document'[p.object].id = p.id
        /\ \A o \in Present \ {t, p.object} : document'[o] = document[o]
    <3>1. document' = Rename(document, t, Renamed(t, BaselineId(p.id, p.object), "retained_baseline"),
                             p.object, Renamed(p.object, p.id, "committed"))
      BY <2>2 DEF Rename
    <3>2. UNCHANGED <<contract, previewed, programs, shapeEdits>>
      BY <1>2 DEF Commit
    <3> HIDE DEF p
    <3> QED
      BY <3>1, <3>2, <2>3, <2>4, RenamedKeeps
  <2>6. ASSUME NEW q \in Part, p.id # Own(q) PROVE Holders(Own(q)) = Holders(Own(q))'
    <3>1. Own(q) \in OwnIds /\ <<p.object, document[p.object].id>> \in Known
      BY <2>4 DEF OwnIds, Known
    <3>2. document[p.object].id # Own(q)
      BY <3>1, <2>1, <2>6 DEF RedesignInv, IdsOK
    <3> QED
      BY <3>1, <3>2, <2>3, <2>4, <2>5, <2>6, IdsApart DEF Holders
  <2>7. committed'[r].baseline = t /\ \A s \in Redesign : s # r => committed'[s] = committed[s]
    BY <2>2 DEF RedesignInv, ReceiptsOK, CommitsOK
  <2> QED
    BY <2>1, <2>3, <2>4, <2>6, <2>7, <1>2, CommitKeeps DEF OthersAsPreviewed
<1>3. ASSUME NEW r \in Redesign,
             \/ PreviewRefused(r) \/ PreviewRedesign(r) \/ Discard(r) \/ Rollback(r)
             \/ \E o \in Present : Capture(r, o)
      PROVE  RedesignInv' /\ committed' = committed
  <2>1. RedesignInv'
    BY <1>3, PreviewRefusedKeeps, PreviewKeeps, DiscardKeeps, RollbackKeeps, CaptureKeeps
  <2> QED
    BY <1>3, <2>1 DEF PreviewRefused, PreviewRedesign, Program, Discard, Rollback, Capture
<1>4. ASSUME NEW o \in Present, Reshape(o) PROVE RedesignInv' /\ committed' = committed
  BY <1>4, ReshapeKeeps DEF Reshape
<1> QED
  BY <1>1, <1>2, <1>3, <1>4 DEF RedesignNext

(* RedesignsSound: parts keep one object and their baseline, and what is   *)
(* committed is what was previewed and verified.                           *)
THEOREM RedesignsAreSound == RedesignSpec => RedesignsSound
<1>1. RedesignInv => IdentityHeld /\ BaselineRetained
  BY DEF RedesignInv, InOrder, OnePart, IdentityHeld, BaselineRetained, CommitsStand, Committed
<1>2. RedesignInv /\ [RedesignNext]_redesignVars => RedesignInv'
  BY VerifiedStep
<1>3. RedesignInv /\ [RedesignNext]_redesignVars =>
        [\A r \in Redesign : committed'[r] # committed[r] =>
           LET p == previewed[r] IN
           /\ committed'[r].baseline = p.target /\ document[p.target].shape = contract[r].shape
           /\ document[p.object].shape = p.object
           /\ \A q \in Part : Holders(Own(q)) = Holders(Own(q))' \/ p.id = Own(q)
           /\ p.before \subseteq Snapshot]_redesignVars
  BY VerifiedStep
<1> QED
  BY <1>1, <1>2, <1>3, RedesignStarts, PTL DEF RedesignSpec, RedesignsSound, CommitsAsVerified

ReceiptStatus ==
  {"none", "retained_baseline", "committed", "rollback_restored", "rollback_candidate_hidden"}
StatusesOK == \A o \in Present : document[o].status \in ReceiptStatus
ProgramsOK ==
  \A r \in Redesign :
    /\ contract[r] # NoFile => contract[r].program \in 0..programs
    /\ previewed[r] # NoFile => /\ previewed[r].program \in Nat
                                /\ previewed[r].program <= contract[r].program

LEMMA StatusesKeep ==
  ASSUME RedesignInv, StatusesOK, [RedesignNext]_redesignVars
  PROVE  StatusesOK'
<1>1. ASSUME NEW o \in Present' PROVE document'[o].status \in ReceiptStatus
  <2>1. CASE UNCHANGED document
    BY <1>1, <2>1 DEF StatusesOK, Present
  <2>2. ASSUME NEW r \in Redesign, PreviewRedesign(r) PROVE document'[o].status \in ReceiptStatus
    BY <1>1, <2>2 DEF PreviewRedesign, StatusesOK, ReceiptStatus, Present
  <2>3. ASSUME NEW r \in Redesign, Commit(r) PROVE document'[o].status \in ReceiptStatus
    BY <1>1, <2>3 DEF Commit, Renamed, StatusesOK, ReceiptStatus, Present
  <2>4. ASSUME NEW r \in Redesign, Discard(r) PROVE document'[o].status \in ReceiptStatus
    BY <1>1, <2>4 DEF Discard, StatusesOK, Present
  <2>5. ASSUME NEW r \in Redesign, Rollback(r) PROVE document'[o].status \in ReceiptStatus
    BY <1>1, <2>5 DEF Rollback, RolledBack, Renamed, StatusesOK, ReceiptStatus, Present
  <2>6. ASSUME NEW q \in Present, Reshape(q) PROVE document'[o].status \in ReceiptStatus
    <3>1. document[q] = [id |-> document[q].id, shape |-> document[q].shape,
                         status |-> document[q].status]
      BY <2>6 DEF RedesignInv, DocumentOK
    <3> DEFINE w == [document[q] EXCEPT !.shape = MaxPreviews + shapeEdits + 1]
    <3>2. w.status = document[q].status
      BY <3>1
    <3> HIDE DEF w
    <3>3. document' = [document EXCEPT ![q] = w]
      BY <2>6 DEF Reshape, w
    <3> QED
      BY <1>1, <2>6, <3>2, <3>3 DEF StatusesOK, Present
  <2> QED
    BY <2>1, <2>2, <2>3, <2>4, <2>5, <2>6
       DEF RedesignNext, redesignVars, PreviewRefused, Capture
<1> QED
  BY <1>1 DEF StatusesOK

LEMMA ProgramsKeep ==
  ASSUME RedesignInv, ProgramsOK, [RedesignNext]_redesignVars
  PROVE  ProgramsOK'
<1> DEFINE Bounded(r) ==
      /\ contract'[r] # NoFile => contract'[r].program \in 0..programs'
      /\ previewed'[r] # NoFile => /\ previewed'[r].program \in Nat
                                   /\ previewed'[r].program <= contract'[r].program
<1>1. ASSUME NEW r \in Redesign PROVE Bounded(r)
  <2>1. CASE UNCHANGED <<contract, previewed, programs>>
    BY <1>1, <2>1 DEF ProgramsOK
  <2>2. ASSUME NEW s \in Redesign, Program(s), previewed' = previewed \/ PreviewRedesign(s)
        PROVE  Bounded(r)
    <3>1. /\ programs \in Nat /\ programs' = programs + 1 /\ contract[s] # NoFile
          /\ contract' = [contract EXCEPT ![s].program = programs + 1]
          /\ contract[s] = [id |-> contract[s].id, target |-> contract[s].target,
                            shape |-> contract[s].shape, program |-> contract[s].program]
      BY <2>2, RedesignSizes DEF Program, RedesignInv, SizesOK, ContractsOK
    <3> DEFINE w == [contract[s] EXCEPT !.program = programs + 1]
    <3>2. w.program = programs + 1
      BY <3>1
    <3>3. contract' = [contract EXCEPT ![s] = w]
      BY <3>1
    <3> HIDE DEF w
    <3>4. contract'[s].program = programs + 1 /\ \A q \in Redesign : q # s
                                 => contract'[q] = contract[q]
      BY <3>2, <3>3 DEF RedesignInv, ContractsOK
    <3>5. \/ previewed'[r] = previewed[r]
          \/ r = s /\ previewed'[r].program = programs + 1
      BY <2>2 DEF PreviewRedesign, RedesignInv, ReceiptsOK, PreviewsOK
    <3>6. previewed[r] # NoFile => contract[r] # NoFile
      BY DEF RedesignInv, ReceiptsOK, PreviewsOK, Previewed
    <3> QED
      BY <3>1, <3>4, <3>5, <3>6 DEF ProgramsOK
  <2>3. ASSUME NEW s \in Redesign, NEW o \in Present, Capture(s, o) PROVE Bounded(r)
    <3>1. /\ contract' = [contract EXCEPT ![s] = [id |-> document[o].id, target |-> o,
                                                  shape |-> document[o].shape, program |-> 0]]
          /\ contract[s] = NoFile /\ UNCHANGED <<previewed, programs>> /\ programs \in Nat
      BY <2>3, RedesignSizes DEF Capture, RedesignInv, SizesOK
    <3>2. previewed[s] = NoFile
      BY <3>1 DEF RedesignInv, ReceiptsOK, PreviewsOK, Previewed
    <3> QED
      BY <3>1, <3>2 DEF ProgramsOK, RedesignInv, ContractsOK
  <2> QED
    BY <2>1, <2>2, <2>3 DEF RedesignNext, redesignVars, PreviewRefused, PreviewRedesign, Commit,
                            Discard, Rollback, Reshape
<1> QED
  BY <1>1 DEF ProgramsOK

(* RedesignTypeOK: the same, of the types.                                 *)
THEOREM RedesignsTyped == RedesignSpec => []RedesignTypeOK
<1>1. RedesignInit => StatusesOK /\ ProgramsOK
  BY DEF RedesignInit, StatusesOK, ProgramsOK, ReceiptStatus, Present
<1>2. RedesignInv /\ StatusesOK /\ ProgramsOK => RedesignTypeOK
  <2> SUFFICES ASSUME RedesignInv, StatusesOK, ProgramsOK PROVE RedesignTypeOK
    OBVIOUS
  <2>1. /\ MaxPreviews \in Nat /\ MaxShapeEdits \in Nat /\ SizesOK /\ DocumentOK
        /\ PreviewsOK /\ CommitsOK
    BY RedesignSizes DEF RedesignInv, ReceiptsOK
  <2>2. Made \subseteq 1..MaxPreviews /\ Shape \subseteq 0..MaxPreviews + MaxShapeEdits
    BY <2>1 DEF SizesOK, Made, Shape
  <2>3. Part \subseteq Present /\ Present \subseteq Object
    BY <2>1, <2>2 DEF DocumentOK, Object
  <2>4. \A r \in Redesign :
          /\ previewed[r] # NoFile =>
               /\ contract[r] # NoFile /\ previewed[r].id = contract[r].id
               /\ previewed[r].program <= contract[r].program
          /\ committed[r] # NoFile => previewed[r] # NoFile /\ committed[r].id = previewed[r].id
    BY <2>1 DEF PreviewsOK, CommitsOK, Previewed, Committed, ProgramsOK
  <2> QED
    BY <2>1, <2>2, <2>3, <2>4
       DEF RedesignTypeOK, DocumentOK, SizesOK, StatusesOK, ReceiptStatus
<1>3. RedesignInv /\ [RedesignNext]_redesignVars => RedesignInv'
  BY VerifiedStep
<1> QED
  BY <1>1, <1>2, <1>3, RedesignStarts, StatusesKeep, ProgramsKeep, PTL DEF RedesignSpec

-----------------------------------------------------------------------------
(* The native FreeCAD tool.  What the files hold follows from how far the  *)
(* call and its journal have come, for the files no one has touched, until *)
(* a stray overruns them.                                                  *)

Contents == Content \cup {Absent}
Untouched == File \ touched

(* The types, in three parts: what a process and the other one have on the *)
(* disk, what each is doing, and the host.                                 *)
FilesTyped ==
  /\ root \in [File -> Contents] /\ base \in [File -> Contents]
  /\ shadow \in [File -> Contents] /\ strayShadow \in [File -> Contents]
  /\ backup \in [File -> Contents] /\ otherBackup \in [File -> Contents]
  /\ existed \subseteq listed /\ listed \subseteq File /\ touched \subseteq File
  /\ otherExisted \subseteq otherListed /\ otherListed \subseteq File

ProcessesTyped ==
  /\ journal \in JournalStates /\ otherJournal \in JournalStates
  /\ proc \in Procs /\ strayProc \in Procs /\ step \in Steps /\ strayStep \in Steps
  /\ at \in 0..(Len(Order) + 1) /\ strayAt \in 0..(Len(Order) + 1)
  /\ reply \in Replies /\ strayReply \in Replies

HostTyped ==
  /\ host \in {"down", "idle", "waiting", "acking", "recovering"}
  /\ why \in {"none", "stop", "failure", "reload", "ack"}
  /\ answer \in {"none", "committed", "unchanged", "preserved", "failed", "unacknowledged", "blocked"}
  /\ toolCalls \in 0..MaxToolCalls /\ toolFaults \in 0..MaxToolFaults /\ saves \in 0..MaxSaves

FlagsTyped ==
  /\ verdict \in BOOLEAN /\ strayVerdict \in BOOLEAN /\ sameBackups \in BOOLEAN
  /\ stop \in BOOLEAN /\ intact \in BOOLEAN /\ crossed \in BOOLEAN

NativeTyped == FilesTyped /\ ProcessesTyped /\ HostTyped /\ FlagsTyped

(* Which process runs for which state of the host.                         *)
RunsOK ==
  /\ proc = "none" <=> step = "ended"
  /\ proc = "recover" => step \in {"recover", "restore", "restored"}
  /\ proc = "ack" => step \in {"ack", "acknowledged"}
  /\ proc = "tool" => step \notin {"ack", "acknowledged"} /\ reply = "none"
  /\ host = "waiting" => proc \in {"none", "tool"}
  /\ host = "acking" => proc \in {"none", "ack"}
  /\ host = "recovering" => proc \in {"none", "recover"}
  /\ host = "idle" /\ answer # "none" => proc = "none"
  /\ host = "down" => answer = "none"
  /\ step = "recover" => at = Len(Order)
  /\ Restoring => at <= Len(Order)

(* The state of the journal at each place of the program.                  *)
JournalOK ==
  /\ otherJournal = "none"
  /\ step \in {"copy", "work", "stage", "prepare"} \/ Sweeps => journal = "none"
  /\ step = "publish" => journal = "prepared"
  /\ step \in {"respond", "ack"} => journal = "published" /\ intact
  /\ Restoring => journal # "none"
  /\ Restoring /\ at < Len(Order) => ~intact
  /\ reply = "unchanged" => journal = "none"
  /\ reply = "ok" /\ host = "waiting" => journal = "published" /\ intact
  /\ host \in {"acking", "recovering"} /\ proc = "none" /\ verdict => journal = "none"

(* The backups: they are there, and until the journal is gone they are     *)
(* what the files were, and again are as far as they are restored.         *)
BackupOK ==
  /\ step = "prepare" \/ journal # "none" => \A f \in existed : backup[f] # Absent
  /\ step = "prepare" => \A f \in listed \cap Untouched : root[f] = Undo(f)
  /\ Restoring =>
       \A i \in 1..Len(Order) :
         i > at /\ Order[i] \in listed \cap Untouched => root[Order[i]] = Undo(Order[i])

(* The copy: what of the result is in the workspace.                       *)
ResultOK ==
  /\ step = "work" => \A f \in Untouched : shadow[f] = root[f]
  /\ step = "stage" => \A f \in Untouched : shadow[f] = Absent => root[f] = Absent
  /\ step \in {"prepare", "publish"} => \A f \in Untouched \ listed : root[f] = shadow[f]
  /\ step = "publish" =>
       \A i \in 1..Len(Order) :
         i < at /\ Order[i] \in listed \cap Untouched => root[Order[i]] = shadow[Order[i]]
  /\ journal = "published" /\ intact => \A f \in Untouched : root[f] = shadow[f]
  /\ host = "acking" => \A f \in Untouched : root[f] = shadow[f]

(* The revision, until a call is accepted.                                 *)
BaseOK ==
  host = "waiting" \/ (host = "recovering" /\ why # "ack") =>
    \A f \in Untouched : Revision[f] = base[f]

CallOK == RunsOK /\ JournalOK /\ BackupOK /\ ResultOK /\ BaseOK /\ AnsweredClean

NativeInv == NativeTyped /\ (crossed \/ CallOK)

LEMMA OrderFacts ==
  /\ Len(Order) \in Nat \ {0}
  /\ \A i \in 1..Len(Order) : Order[i] \in File
  /\ \A f \in File : \E i \in 1..Len(Order) : Order[i] = f
  /\ Absent \notin Content /\ Lost \notin Contents
BY NativeConstants DEF File, Range, Contents

USE DEF files, journals, transaction, otherTransaction, running, stray, others, hosted, history,
        toolBounds
USE DEF Stray!journals, Stray!transaction, Stray!otherTransaction, Stray!running

LEMMA Sizes ==
  /\ Len(Order) \in Nat /\ Len(Order) > 0
  /\ MaxToolCalls \in Nat /\ MaxToolFaults \in Nat /\ MaxSaves \in Nat
BY OrderFacts, NativeConstants

(* A step of a process, and one of the stray, keeps the types.             *)
LEMMA WorkerTyped ==
  ASSUME FilesTyped, ProcessesTyped, WorkerStep
  PROVE  /\ root' \in [File -> Contents] /\ shadow' \in [File -> Contents]
        /\ backup' \in [File -> Contents] /\ otherBackup' \in [File -> Contents]
        /\ existed' \subseteq listed' /\ listed' \subseteq File
        /\ otherExisted' \subseteq otherListed' /\ otherListed' \subseteq File
        /\ journal' \in JournalStates /\ otherJournal' \in JournalStates
        /\ proc' \in Procs /\ step' \in Steps
        /\ at' \in 0..(Len(Order) + 1) /\ reply' \in Replies
<1>1. CASE NothingPending
  <2>1. /\ root' \in [File -> Contents] /\ shadow' \in [File -> Contents]
        /\ backup' \in [File -> Contents] /\ otherBackup' \in [File -> Contents]
        /\ existed' \subseteq listed' /\ listed' \subseteq File
        /\ otherExisted' \subseteq otherListed' /\ otherListed' \subseteq File
    BY <1>1, OrderFacts DEF FilesTyped, Contents, NothingPending, Pending, Continue, Exit
  <2>2. /\ journal' \in JournalStates /\ otherJournal' \in JournalStates
        /\ proc' \in Procs /\ step' \in Steps /\ reply' \in Replies
    BY <1>1 DEF ProcessesTyped, Steps, Procs, NothingPending, Pending, Continue, Exit
  <2>3. at' \in 0..(Len(Order) + 1)
    BY <1>1, Sizes DEF ProcessesTyped, NothingPending, Pending, Continue, Exit
  <2> QED
    BY <2>1, <2>2, <2>3
<1>2. CASE ReadJournal
  <2>1. /\ root' \in [File -> Contents] /\ shadow' \in [File -> Contents]
        /\ backup' \in [File -> Contents] /\ otherBackup' \in [File -> Contents]
        /\ existed' \subseteq listed' /\ listed' \subseteq File
        /\ otherExisted' \subseteq otherListed' /\ otherListed' \subseteq File
    BY <1>2, OrderFacts DEF FilesTyped, Contents, ReadJournal, Pending, Load, Continue
  <2>2. /\ journal' \in JournalStates /\ otherJournal' \in JournalStates
        /\ proc' \in Procs /\ step' \in Steps /\ reply' \in Replies
    BY <1>2 DEF ProcessesTyped, Steps, ReadJournal, Pending, Load, Continue
  <2>3. at' \in 0..(Len(Order) + 1)
    BY <1>2, Sizes DEF ProcessesTyped, ReadJournal, Pending, Load, Continue
  <2> QED
    BY <2>1, <2>2, <2>3
<1>3. CASE Restore
  <2>1. /\ root' \in [File -> Contents] /\ shadow' \in [File -> Contents]
        /\ backup' \in [File -> Contents] /\ otherBackup' \in [File -> Contents]
        /\ existed' \subseteq listed' /\ listed' \subseteq File
        /\ otherExisted' \subseteq otherListed' /\ otherListed' \subseteq File
    BY <1>3, OrderFacts DEF FilesTyped, Contents, ProcessesTyped, Restore, Restoring, Restored
  <2>2. /\ journal' \in JournalStates /\ otherJournal' \in JournalStates
        /\ proc' \in Procs /\ step' \in Steps /\ reply' \in Replies
    BY <1>3 DEF ProcessesTyped, Restore, Restoring, Restored
  <2>3. at' \in 0..(Len(Order) + 1)
    BY <1>3, Sizes DEF ProcessesTyped, Restore, Restoring, Restored
  <2> QED
    BY <2>1, <2>2, <2>3
<1>4. CASE RestoreFails
  <2>1. /\ root' \in [File -> Contents] /\ shadow' \in [File -> Contents]
        /\ backup' \in [File -> Contents] /\ otherBackup' \in [File -> Contents]
        /\ existed' \subseteq listed' /\ listed' \subseteq File
        /\ otherExisted' \subseteq otherListed' /\ otherListed' \subseteq File
    BY <1>4, OrderFacts DEF FilesTyped, Contents, RestoreFails, Fails, Exit, Restoring
  <2>2. /\ journal' \in JournalStates /\ otherJournal' \in JournalStates
        /\ proc' \in Procs /\ step' \in Steps /\ reply' \in Replies
    BY <1>4 DEF ProcessesTyped, Steps, Procs, Replies, RestoreFails, Fails, Exit, Restoring
  <2>3. at' \in 0..(Len(Order) + 1)
    BY <1>4, Sizes DEF ProcessesTyped, RestoreFails, Fails, Exit, Restoring
  <2> QED
    BY <2>1, <2>2, <2>3
<1>5. CASE Drop
  <2>1. /\ root' \in [File -> Contents] /\ shadow' \in [File -> Contents]
        /\ backup' \in [File -> Contents] /\ otherBackup' \in [File -> Contents]
        /\ existed' \subseteq listed' /\ listed' \subseteq File
        /\ otherExisted' \subseteq otherListed' /\ otherListed' \subseteq File
    BY <1>5, OrderFacts DEF FilesTyped, Contents, Drop, Restoring, Cleanup, Continue, Pending
  <2>2. /\ journal' \in JournalStates /\ otherJournal' \in JournalStates
        /\ proc' \in Procs /\ step' \in Steps /\ reply' \in Replies
    <3>1. step' \in {"restored", "rolled back", "reverted"}
      BY <1>5 DEF Drop, Restoring, Cleanup, Continue, Pending
    <3> QED
      BY <1>5, <3>1
         DEF ProcessesTyped, JournalStates, Steps, Drop, Restoring, Cleanup, Continue, Pending
  <2>3. at' \in 0..(Len(Order) + 1)
    BY <1>5, Sizes DEF ProcessesTyped, Drop, Restoring, Cleanup, Continue, Pending
  <2> QED
    BY <2>1, <2>2, <2>3
<1>6. CASE Sweep
  <2>1. /\ root' \in [File -> Contents] /\ shadow' \in [File -> Contents]
        /\ backup' \in [File -> Contents] /\ otherBackup' \in [File -> Contents]
        /\ existed' \subseteq listed' /\ listed' \subseteq File
        /\ otherExisted' \subseteq otherListed' /\ otherListed' \subseteq File
    BY <1>6, OrderFacts DEF FilesTyped, Contents, Sweep, Sweeps, NoFiles, Continue, Exit
  <2>2. /\ journal' \in JournalStates /\ otherJournal' \in JournalStates
        /\ proc' \in Procs /\ step' \in Steps /\ reply' \in Replies
    BY <1>6 DEF ProcessesTyped, Steps, Procs, Replies, Sweep, Sweeps, NoFiles, Continue, Exit
  <2>3. at' \in 0..(Len(Order) + 1)
    BY <1>6, Sizes DEF ProcessesTyped, Sweep, Continue, Exit
  <2> QED
    BY <2>1, <2>2, <2>3
<1>7. CASE Acknowledge
  <2>1. /\ root' \in [File -> Contents] /\ shadow' \in [File -> Contents]
        /\ backup' \in [File -> Contents] /\ otherBackup' \in [File -> Contents]
        /\ existed' \subseteq listed' /\ listed' \subseteq File
        /\ otherExisted' \subseteq otherListed' /\ otherListed' \subseteq File
    BY <1>7, OrderFacts DEF FilesTyped, Contents, Acknowledge, Load, Continue, Fails, Exit
  <2>2. /\ journal' \in JournalStates /\ otherJournal' \in JournalStates
        /\ proc' \in Procs /\ step' \in Steps /\ reply' \in Replies
    BY <1>7
       DEF ProcessesTyped, JournalStates, Steps, Procs, Replies, Acknowledge, Load, Continue,
           Fails, Exit
  <2>3. at' \in 0..(Len(Order) + 1)
    BY <1>7, Sizes DEF ProcessesTyped, Acknowledge, Load, Continue, Fails, Exit
  <2> QED
    BY <2>1, <2>2, <2>3
<1>8. CASE CopyWorkspace
  <2>1. /\ root' \in [File -> Contents] /\ shadow' \in [File -> Contents]
        /\ backup' \in [File -> Contents] /\ otherBackup' \in [File -> Contents]
        /\ existed' \subseteq listed' /\ listed' \subseteq File
        /\ otherExisted' \subseteq otherListed' /\ otherListed' \subseteq File
    BY <1>8, OrderFacts DEF FilesTyped, Contents, CopyWorkspace, Continue
  <2>2. /\ journal' \in JournalStates /\ otherJournal' \in JournalStates
        /\ proc' \in Procs /\ step' \in Steps /\ reply' \in Replies
    BY <1>8 DEF ProcessesTyped, Steps, CopyWorkspace, Continue
  <2>3. at' \in 0..(Len(Order) + 1)
    BY <1>8, Sizes DEF ProcessesTyped, CopyWorkspace, Continue
  <2> QED
    BY <2>1, <2>2, <2>3
<1>9. CASE Work
  <2>1. /\ root' \in [File -> Contents] /\ shadow' \in [File -> Contents]
        /\ backup' \in [File -> Contents] /\ otherBackup' \in [File -> Contents]
        /\ existed' \subseteq listed' /\ listed' \subseteq File
        /\ otherExisted' \subseteq otherListed' /\ otherListed' \subseteq File
    BY <1>9, OrderFacts, NativeConstants DEF FilesTyped, Contents, Work, Continue, Written
  <2>2. /\ journal' \in JournalStates /\ otherJournal' \in JournalStates
        /\ proc' \in Procs /\ step' \in Steps /\ reply' \in Replies
    BY <1>9 DEF ProcessesTyped, Steps, Work, Continue, Written
  <2>3. at' \in 0..(Len(Order) + 1)
    BY <1>9, Sizes DEF ProcessesTyped, Work, Continue, Written
  <2> QED
    BY <2>1, <2>2, <2>3
<1>10. CASE RefuseRequest
  <2>1. /\ root' \in [File -> Contents] /\ shadow' \in [File -> Contents]
        /\ backup' \in [File -> Contents] /\ otherBackup' \in [File -> Contents]
        /\ existed' \subseteq listed' /\ listed' \subseteq File
        /\ otherExisted' \subseteq otherListed' /\ otherListed' \subseteq File
    BY <1>10, OrderFacts DEF FilesTyped, Contents, RefuseRequest, Fails, Exit
  <2>2. /\ journal' \in JournalStates /\ otherJournal' \in JournalStates
        /\ proc' \in Procs /\ step' \in Steps /\ reply' \in Replies
    BY <1>10 DEF ProcessesTyped, Steps, Procs, Replies, RefuseRequest, Fails, Exit
  <2>3. at' \in 0..(Len(Order) + 1)
    BY <1>10, Sizes DEF ProcessesTyped, RefuseRequest, Fails, Exit
  <2> QED
    BY <2>1, <2>2, <2>3
<1>11. CASE NothingChanged
  <2>1. /\ root' \in [File -> Contents] /\ shadow' \in [File -> Contents]
        /\ backup' \in [File -> Contents] /\ otherBackup' \in [File -> Contents]
        /\ existed' \subseteq listed' /\ listed' \subseteq File
        /\ otherExisted' \subseteq otherListed' /\ otherListed' \subseteq File
    BY <1>11, OrderFacts DEF FilesTyped, Contents, NothingChanged, Exit
  <2>2. /\ journal' \in JournalStates /\ otherJournal' \in JournalStates
        /\ proc' \in Procs /\ step' \in Steps /\ reply' \in Replies
    BY <1>11 DEF ProcessesTyped, Steps, Procs, Replies, NothingChanged, Exit
  <2>3. at' \in 0..(Len(Order) + 1)
    BY <1>11, Sizes DEF ProcessesTyped, NothingChanged, Exit
  <2> QED
    BY <2>1, <2>2, <2>3
<1>12. CASE BackUp
  <2>1. /\ root' \in [File -> Contents] /\ shadow' \in [File -> Contents]
        /\ backup' \in [File -> Contents] /\ otherBackup' \in [File -> Contents]
        /\ existed' \subseteq listed' /\ listed' \subseteq File
        /\ otherExisted' \subseteq otherListed' /\ otherListed' \subseteq File
    BY <1>12, OrderFacts DEF FilesTyped, Contents, BackUp, ChangedFiles, Existing, Continue
  <2>2. /\ journal' \in JournalStates /\ otherJournal' \in JournalStates
        /\ proc' \in Procs /\ step' \in Steps /\ reply' \in Replies
    BY <1>12 DEF ProcessesTyped, Steps, BackUp, ChangedFiles, Existing, Continue
  <2>3. at' \in 0..(Len(Order) + 1)
    BY <1>12, Sizes DEF ProcessesTyped, BackUp, ChangedFiles, Existing, Continue
  <2> QED
    BY <2>1, <2>2, <2>3
<1>13. CASE Prepare
  <2>1. /\ root' \in [File -> Contents] /\ shadow' \in [File -> Contents]
        /\ backup' \in [File -> Contents] /\ otherBackup' \in [File -> Contents]
        /\ existed' \subseteq listed' /\ listed' \subseteq File
        /\ otherExisted' \subseteq otherListed' /\ otherListed' \subseteq File
    BY <1>13, OrderFacts DEF FilesTyped, Contents, Prepare
  <2>2. /\ journal' \in JournalStates /\ otherJournal' \in JournalStates
        /\ proc' \in Procs /\ step' \in Steps /\ reply' \in Replies
    BY <1>13 DEF ProcessesTyped, JournalStates, Steps, Prepare
  <2>3. at' \in 0..(Len(Order) + 1)
    BY <1>13, Sizes DEF ProcessesTyped, Prepare
  <2> QED
    BY <2>1, <2>2, <2>3
<1>14. CASE Publish
  <2>1. /\ root' \in [File -> Contents] /\ shadow' \in [File -> Contents]
        /\ backup' \in [File -> Contents] /\ otherBackup' \in [File -> Contents]
        /\ existed' \subseteq listed' /\ listed' \subseteq File
        /\ otherExisted' \subseteq otherListed' /\ otherListed' \subseteq File
    BY <1>14, OrderFacts DEF FilesTyped, Contents, ProcessesTyped, Publish
  <2>2. /\ journal' \in JournalStates /\ otherJournal' \in JournalStates
        /\ proc' \in Procs /\ step' \in Steps /\ reply' \in Replies
    BY <1>14 DEF ProcessesTyped, Publish
  <2>3. at' \in 0..(Len(Order) + 1)
    BY <1>14, Sizes DEF ProcessesTyped, Publish
  <2> QED
    BY <2>1, <2>2, <2>3
<1>15. CASE Mark
  <2>1. /\ root' \in [File -> Contents] /\ shadow' \in [File -> Contents]
        /\ backup' \in [File -> Contents] /\ otherBackup' \in [File -> Contents]
        /\ existed' \subseteq listed' /\ listed' \subseteq File
        /\ otherExisted' \subseteq otherListed' /\ otherListed' \subseteq File
    BY <1>15, OrderFacts DEF FilesTyped, Contents, Mark, PublishedAll, Continue
  <2>2. /\ journal' \in JournalStates /\ otherJournal' \in JournalStates
        /\ proc' \in Procs /\ step' \in Steps /\ reply' \in Replies
    BY <1>15 DEF ProcessesTyped, JournalStates, Steps, Mark, PublishedAll, Continue
  <2>3. at' \in 0..(Len(Order) + 1)
    BY <1>15, Sizes DEF ProcessesTyped, Mark, PublishedAll, Continue
  <2> QED
    BY <2>1, <2>2, <2>3
<1>16. CASE WriteResponse
  <2>1. /\ root' \in [File -> Contents] /\ shadow' \in [File -> Contents]
        /\ backup' \in [File -> Contents] /\ otherBackup' \in [File -> Contents]
        /\ existed' \subseteq listed' /\ listed' \subseteq File
        /\ otherExisted' \subseteq otherListed' /\ otherListed' \subseteq File
    BY <1>16, OrderFacts DEF FilesTyped, Contents, WriteResponse, Exit
  <2>2. /\ journal' \in JournalStates /\ otherJournal' \in JournalStates
        /\ proc' \in Procs /\ step' \in Steps /\ reply' \in Replies
    BY <1>16 DEF ProcessesTyped, Steps, Procs, Replies, WriteResponse, Exit
  <2>3. at' \in 0..(Len(Order) + 1)
    BY <1>16, Sizes DEF ProcessesTyped, WriteResponse, Exit
  <2> QED
    BY <2>1, <2>2, <2>3
<1> QED
  BY <1>1, <1>2, <1>3, <1>4, <1>5, <1>6, <1>7, <1>8, <1>9, <1>10, <1>11, <1>12, <1>13, <1>14, <1>15, <1>16
     DEF WorkerStep

LEMMA WorkerFlags ==
  ASSUME FlagsTyped, WorkerStep
  PROVE  verdict' \in BOOLEAN /\ sameBackups' \in BOOLEAN
BY Zenon
   DEF WorkerStep, FlagsTyped, NothingPending, Pending, Continue, Exit, ReadJournal, Load,
       Restore, Restoring, Restored, RestoreFails, Fails, Drop, Cleanup, Sweep, Sweeps, NoFiles,
       Acknowledge, CopyWorkspace, Work, Written, RefuseRequest, NothingChanged, BackUp, ChangedFiles,
       Existing, Prepare, Publish, Mark, PublishedAll, WriteResponse

LEMMA StrayFile == Stray!File = File
BY DEF Stray!File, File, Stray!Range, Range

LEMMA StrayWorkerTyped ==
  ASSUME FilesTyped, ProcessesTyped, Stray!WorkerStep
  PROVE  /\ root' \in [File -> Contents] /\ strayShadow' \in [File -> Contents]
        /\ backup' \in [File -> Contents] /\ otherBackup' \in [File -> Contents]
        /\ existed' \subseteq listed' /\ listed' \subseteq File
        /\ otherExisted' \subseteq otherListed' /\ otherListed' \subseteq File
        /\ journal' \in JournalStates /\ otherJournal' \in JournalStates
        /\ strayProc' \in Procs /\ strayStep' \in Steps
        /\ strayAt' \in 0..(Len(Order) + 1) /\ strayReply' \in Replies
<1>1. CASE Stray!NothingPending
  <2>1. /\ root' \in [File -> Contents] /\ strayShadow' \in [File -> Contents]
        /\ backup' \in [File -> Contents] /\ otherBackup' \in [File -> Contents]
        /\ existed' \subseteq listed' /\ listed' \subseteq File
        /\ otherExisted' \subseteq otherListed' /\ otherListed' \subseteq File
    BY <1>1, OrderFacts
       DEF FilesTyped, Contents, Stray!NothingPending, Stray!Pending, Stray!Continue, Stray!Exit
  <2>2. /\ journal' \in JournalStates /\ otherJournal' \in JournalStates
        /\ strayProc' \in Procs /\ strayStep' \in Steps /\ strayReply' \in Replies
    BY <1>1
       DEF ProcessesTyped, Steps, Procs, Stray!NothingPending, Stray!Pending, Stray!Continue,
           Stray!Exit
  <2>3. strayAt' \in 0..(Len(Order) + 1)
    BY <1>1, Sizes
       DEF ProcessesTyped, Stray!NothingPending, Stray!Pending, Stray!Continue, Stray!Exit
  <2> QED
    BY <2>1, <2>2, <2>3
<1>2. CASE Stray!ReadJournal
  <2>1. /\ root' \in [File -> Contents] /\ strayShadow' \in [File -> Contents]
        /\ backup' \in [File -> Contents] /\ otherBackup' \in [File -> Contents]
        /\ existed' \subseteq listed' /\ listed' \subseteq File
        /\ otherExisted' \subseteq otherListed' /\ otherListed' \subseteq File
    BY <1>2, OrderFacts
       DEF FilesTyped, Contents, Stray!ReadJournal, Stray!Pending, Stray!Load, Stray!Continue
  <2>2. /\ journal' \in JournalStates /\ otherJournal' \in JournalStates
        /\ strayProc' \in Procs /\ strayStep' \in Steps /\ strayReply' \in Replies
    BY <1>2
       DEF ProcessesTyped, Steps, Stray!ReadJournal, Stray!Pending, Stray!Load, Stray!Continue
  <2>3. strayAt' \in 0..(Len(Order) + 1)
    BY <1>2, Sizes
       DEF ProcessesTyped, Stray!ReadJournal, Stray!Pending, Stray!Load, Stray!Continue
  <2> QED
    BY <2>1, <2>2, <2>3
<1>3. CASE Stray!Restore
  <2>1. /\ root' \in [File -> Contents] /\ strayShadow' \in [File -> Contents]
        /\ backup' \in [File -> Contents] /\ otherBackup' \in [File -> Contents]
        /\ existed' \subseteq listed' /\ listed' \subseteq File
        /\ otherExisted' \subseteq otherListed' /\ otherListed' \subseteq File
    BY <1>3, OrderFacts
       DEF FilesTyped, Contents, ProcessesTyped, Stray!Restore, Stray!Restoring, Stray!Restored
  <2>2. /\ journal' \in JournalStates /\ otherJournal' \in JournalStates
        /\ strayProc' \in Procs /\ strayStep' \in Steps /\ strayReply' \in Replies
    BY <1>3 DEF ProcessesTyped, Stray!Restore, Stray!Restoring, Stray!Restored
  <2>3. strayAt' \in 0..(Len(Order) + 1)
    BY <1>3, Sizes DEF ProcessesTyped, Stray!Restore, Stray!Restoring, Stray!Restored
  <2> QED
    BY <2>1, <2>2, <2>3
<1>4. CASE Stray!RestoreFails
  <2>1. /\ root' \in [File -> Contents] /\ strayShadow' \in [File -> Contents]
        /\ backup' \in [File -> Contents] /\ otherBackup' \in [File -> Contents]
        /\ existed' \subseteq listed' /\ listed' \subseteq File
        /\ otherExisted' \subseteq otherListed' /\ otherListed' \subseteq File
    BY <1>4, OrderFacts
       DEF FilesTyped, Contents, Stray!RestoreFails, Stray!Fails, Stray!Exit, Stray!Restoring
  <2>2. /\ journal' \in JournalStates /\ otherJournal' \in JournalStates
        /\ strayProc' \in Procs /\ strayStep' \in Steps /\ strayReply' \in Replies
    BY <1>4
       DEF ProcessesTyped, Steps, Procs, Replies, Stray!RestoreFails, Stray!Fails, Stray!Exit,
           Stray!Restoring
  <2>3. strayAt' \in 0..(Len(Order) + 1)
    BY <1>4, Sizes
       DEF ProcessesTyped, Stray!RestoreFails, Stray!Fails, Stray!Exit, Stray!Restoring
  <2> QED
    BY <2>1, <2>2, <2>3
<1>5. CASE Stray!Drop
  <2>1. /\ root' \in [File -> Contents] /\ strayShadow' \in [File -> Contents]
        /\ backup' \in [File -> Contents] /\ otherBackup' \in [File -> Contents]
        /\ existed' \subseteq listed' /\ listed' \subseteq File
        /\ otherExisted' \subseteq otherListed' /\ otherListed' \subseteq File
    BY <1>5, OrderFacts
       DEF FilesTyped, Contents, Stray!Drop, Stray!Restoring, Stray!Cleanup, Stray!Continue,
           Stray!Pending
  <2>2. /\ journal' \in JournalStates /\ otherJournal' \in JournalStates
        /\ strayProc' \in Procs /\ strayStep' \in Steps /\ strayReply' \in Replies
    <3>1. strayStep' \in {"restored", "rolled back", "reverted"}
      BY <1>5 DEF Stray!Drop, Stray!Restoring, Stray!Cleanup, Stray!Continue, Stray!Pending
    <3> QED
      BY <1>5, <3>1
         DEF ProcessesTyped, JournalStates, Steps, Stray!Drop, Stray!Restoring, Stray!Cleanup,
             Stray!Continue, Stray!Pending
  <2>3. strayAt' \in 0..(Len(Order) + 1)
    BY <1>5, Sizes
       DEF ProcessesTyped, Stray!Drop, Stray!Restoring, Stray!Cleanup, Stray!Continue,
           Stray!Pending
  <2> QED
    BY <2>1, <2>2, <2>3
<1>6. CASE Stray!Sweep
  <2>1. /\ root' \in [File -> Contents] /\ strayShadow' \in [File -> Contents]
        /\ backup' \in [File -> Contents] /\ otherBackup' \in [File -> Contents]
        /\ existed' \subseteq listed' /\ listed' \subseteq File
        /\ otherExisted' \subseteq otherListed' /\ otherListed' \subseteq File
    BY <1>6, OrderFacts, StrayFile
       DEF FilesTyped, Contents, Stray!Sweep, Stray!Sweeps, Stray!NoFiles, Stray!Continue,
           Stray!Exit
  <2>2. /\ journal' \in JournalStates /\ otherJournal' \in JournalStates
        /\ strayProc' \in Procs /\ strayStep' \in Steps /\ strayReply' \in Replies
    BY <1>6
       DEF ProcessesTyped, Steps, Procs, Replies, Stray!Sweep, Stray!Sweeps, Stray!NoFiles,
           Stray!Continue, Stray!Exit
  <2>3. strayAt' \in 0..(Len(Order) + 1)
    BY <1>6, Sizes DEF ProcessesTyped, Stray!Sweep, Stray!Continue, Stray!Exit
  <2> QED
    BY <2>1, <2>2, <2>3
<1>7. CASE Stray!Acknowledge
  <2>1. /\ root' \in [File -> Contents] /\ strayShadow' \in [File -> Contents]
        /\ backup' \in [File -> Contents] /\ otherBackup' \in [File -> Contents]
        /\ existed' \subseteq listed' /\ listed' \subseteq File
        /\ otherExisted' \subseteq otherListed' /\ otherListed' \subseteq File
    BY <1>7, OrderFacts
       DEF FilesTyped, Contents, Stray!Acknowledge, Stray!Load, Stray!Continue, Stray!Fails,
           Stray!Exit
  <2>2. /\ journal' \in JournalStates /\ otherJournal' \in JournalStates
        /\ strayProc' \in Procs /\ strayStep' \in Steps /\ strayReply' \in Replies
    BY <1>7
       DEF ProcessesTyped, JournalStates, Steps, Procs, Replies, Stray!Acknowledge, Stray!Load,
           Stray!Continue, Stray!Fails, Stray!Exit
  <2>3. strayAt' \in 0..(Len(Order) + 1)
    BY <1>7, Sizes
       DEF ProcessesTyped, Stray!Acknowledge, Stray!Load, Stray!Continue, Stray!Fails, Stray!Exit
  <2> QED
    BY <2>1, <2>2, <2>3
<1>8. CASE Stray!CopyWorkspace
  <2>1. /\ root' \in [File -> Contents] /\ strayShadow' \in [File -> Contents]
        /\ backup' \in [File -> Contents] /\ otherBackup' \in [File -> Contents]
        /\ existed' \subseteq listed' /\ listed' \subseteq File
        /\ otherExisted' \subseteq otherListed' /\ otherListed' \subseteq File
    BY <1>8, OrderFacts DEF FilesTyped, Contents, Stray!CopyWorkspace, Stray!Continue
  <2>2. /\ journal' \in JournalStates /\ otherJournal' \in JournalStates
        /\ strayProc' \in Procs /\ strayStep' \in Steps /\ strayReply' \in Replies
    BY <1>8 DEF ProcessesTyped, Steps, Stray!CopyWorkspace, Stray!Continue
  <2>3. strayAt' \in 0..(Len(Order) + 1)
    BY <1>8, Sizes DEF ProcessesTyped, Stray!CopyWorkspace, Stray!Continue
  <2> QED
    BY <2>1, <2>2, <2>3
<1>9. CASE Stray!Work
  <2>1. /\ root' \in [File -> Contents] /\ strayShadow' \in [File -> Contents]
        /\ backup' \in [File -> Contents] /\ otherBackup' \in [File -> Contents]
        /\ existed' \subseteq listed' /\ listed' \subseteq File
        /\ otherExisted' \subseteq otherListed' /\ otherListed' \subseteq File
    BY <1>9, OrderFacts, NativeConstants, StrayFile
       DEF FilesTyped, Contents, Stray!Work, Stray!Continue, Stray!Written
  <2>2. /\ journal' \in JournalStates /\ otherJournal' \in JournalStates
        /\ strayProc' \in Procs /\ strayStep' \in Steps /\ strayReply' \in Replies
    BY <1>9 DEF ProcessesTyped, Steps, Stray!Work, Stray!Continue, Stray!Written
  <2>3. strayAt' \in 0..(Len(Order) + 1)
    BY <1>9, Sizes DEF ProcessesTyped, Stray!Work, Stray!Continue, Stray!Written
  <2> QED
    BY <2>1, <2>2, <2>3
<1>10. CASE Stray!RefuseRequest
  <2>1. /\ root' \in [File -> Contents] /\ strayShadow' \in [File -> Contents]
        /\ backup' \in [File -> Contents] /\ otherBackup' \in [File -> Contents]
        /\ existed' \subseteq listed' /\ listed' \subseteq File
        /\ otherExisted' \subseteq otherListed' /\ otherListed' \subseteq File
    BY <1>10, OrderFacts DEF FilesTyped, Contents, Stray!RefuseRequest, Stray!Fails, Stray!Exit
  <2>2. /\ journal' \in JournalStates /\ otherJournal' \in JournalStates
        /\ strayProc' \in Procs /\ strayStep' \in Steps /\ strayReply' \in Replies
    BY <1>10
       DEF ProcessesTyped, Steps, Procs, Replies, Stray!RefuseRequest, Stray!Fails, Stray!Exit
  <2>3. strayAt' \in 0..(Len(Order) + 1)
    BY <1>10, Sizes DEF ProcessesTyped, Stray!RefuseRequest, Stray!Fails, Stray!Exit
  <2> QED
    BY <2>1, <2>2, <2>3
<1>11. CASE Stray!NothingChanged
  <2>1. /\ root' \in [File -> Contents] /\ strayShadow' \in [File -> Contents]
        /\ backup' \in [File -> Contents] /\ otherBackup' \in [File -> Contents]
        /\ existed' \subseteq listed' /\ listed' \subseteq File
        /\ otherExisted' \subseteq otherListed' /\ otherListed' \subseteq File
    BY <1>11, OrderFacts DEF FilesTyped, Contents, Stray!NothingChanged, Stray!Exit
  <2>2. /\ journal' \in JournalStates /\ otherJournal' \in JournalStates
        /\ strayProc' \in Procs /\ strayStep' \in Steps /\ strayReply' \in Replies
    BY <1>11 DEF ProcessesTyped, Steps, Procs, Replies, Stray!NothingChanged, Stray!Exit
  <2>3. strayAt' \in 0..(Len(Order) + 1)
    BY <1>11, Sizes DEF ProcessesTyped, Stray!NothingChanged, Stray!Exit
  <2> QED
    BY <2>1, <2>2, <2>3
<1>12. CASE Stray!BackUp
  <2>1. /\ root' \in [File -> Contents] /\ strayShadow' \in [File -> Contents]
        /\ backup' \in [File -> Contents] /\ otherBackup' \in [File -> Contents]
        /\ existed' \subseteq listed' /\ listed' \subseteq File
        /\ otherExisted' \subseteq otherListed' /\ otherListed' \subseteq File
    BY <1>12, OrderFacts, StrayFile
       DEF FilesTyped, Contents, Stray!BackUp, Stray!ChangedFiles, Stray!Existing, Stray!Continue
  <2>2. /\ journal' \in JournalStates /\ otherJournal' \in JournalStates
        /\ strayProc' \in Procs /\ strayStep' \in Steps /\ strayReply' \in Replies
    BY <1>12
       DEF ProcessesTyped, Steps, Stray!BackUp, Stray!ChangedFiles, Stray!Existing, Stray!Continue
  <2>3. strayAt' \in 0..(Len(Order) + 1)
    BY <1>12, Sizes
       DEF ProcessesTyped, Stray!BackUp, Stray!ChangedFiles, Stray!Existing, Stray!Continue
  <2> QED
    BY <2>1, <2>2, <2>3
<1>13. CASE Stray!Prepare
  <2>1. /\ root' \in [File -> Contents] /\ strayShadow' \in [File -> Contents]
        /\ backup' \in [File -> Contents] /\ otherBackup' \in [File -> Contents]
        /\ existed' \subseteq listed' /\ listed' \subseteq File
        /\ otherExisted' \subseteq otherListed' /\ otherListed' \subseteq File
    BY <1>13, OrderFacts DEF FilesTyped, Contents, Stray!Prepare
  <2>2. /\ journal' \in JournalStates /\ otherJournal' \in JournalStates
        /\ strayProc' \in Procs /\ strayStep' \in Steps /\ strayReply' \in Replies
    BY <1>13 DEF ProcessesTyped, JournalStates, Steps, Stray!Prepare
  <2>3. strayAt' \in 0..(Len(Order) + 1)
    BY <1>13, Sizes DEF ProcessesTyped, Stray!Prepare
  <2> QED
    BY <2>1, <2>2, <2>3
<1>14. CASE Stray!Publish
  <2>1. /\ root' \in [File -> Contents] /\ strayShadow' \in [File -> Contents]
        /\ backup' \in [File -> Contents] /\ otherBackup' \in [File -> Contents]
        /\ existed' \subseteq listed' /\ listed' \subseteq File
        /\ otherExisted' \subseteq otherListed' /\ otherListed' \subseteq File
    BY <1>14, OrderFacts DEF FilesTyped, Contents, ProcessesTyped, Stray!Publish
  <2>2. /\ journal' \in JournalStates /\ otherJournal' \in JournalStates
        /\ strayProc' \in Procs /\ strayStep' \in Steps /\ strayReply' \in Replies
    BY <1>14 DEF ProcessesTyped, Stray!Publish
  <2>3. strayAt' \in 0..(Len(Order) + 1)
    BY <1>14, Sizes DEF ProcessesTyped, Stray!Publish
  <2> QED
    BY <2>1, <2>2, <2>3
<1>15. CASE Stray!Mark
  <2>1. /\ root' \in [File -> Contents] /\ strayShadow' \in [File -> Contents]
        /\ backup' \in [File -> Contents] /\ otherBackup' \in [File -> Contents]
        /\ existed' \subseteq listed' /\ listed' \subseteq File
        /\ otherExisted' \subseteq otherListed' /\ otherListed' \subseteq File
    BY <1>15, OrderFacts DEF FilesTyped, Contents, Stray!Mark, Stray!PublishedAll, Stray!Continue
  <2>2. /\ journal' \in JournalStates /\ otherJournal' \in JournalStates
        /\ strayProc' \in Procs /\ strayStep' \in Steps /\ strayReply' \in Replies
    BY <1>15
       DEF ProcessesTyped, JournalStates, Steps, Stray!Mark, Stray!PublishedAll, Stray!Continue
  <2>3. strayAt' \in 0..(Len(Order) + 1)
    BY <1>15, Sizes DEF ProcessesTyped, Stray!Mark, Stray!PublishedAll, Stray!Continue
  <2> QED
    BY <2>1, <2>2, <2>3
<1>16. CASE Stray!WriteResponse
  <2>1. /\ root' \in [File -> Contents] /\ strayShadow' \in [File -> Contents]
        /\ backup' \in [File -> Contents] /\ otherBackup' \in [File -> Contents]
        /\ existed' \subseteq listed' /\ listed' \subseteq File
        /\ otherExisted' \subseteq otherListed' /\ otherListed' \subseteq File
    BY <1>16, OrderFacts DEF FilesTyped, Contents, Stray!WriteResponse, Stray!Exit
  <2>2. /\ journal' \in JournalStates /\ otherJournal' \in JournalStates
        /\ strayProc' \in Procs /\ strayStep' \in Steps /\ strayReply' \in Replies
    BY <1>16 DEF ProcessesTyped, Steps, Procs, Replies, Stray!WriteResponse, Stray!Exit
  <2>3. strayAt' \in 0..(Len(Order) + 1)
    BY <1>16, Sizes DEF ProcessesTyped, Stray!WriteResponse, Stray!Exit
  <2> QED
    BY <2>1, <2>2, <2>3
<1> QED
  BY <1>1, <1>2, <1>3, <1>4, <1>5, <1>6, <1>7, <1>8, <1>9, <1>10, <1>11, <1>12, <1>13, <1>14, <1>15, <1>16
     DEF Stray!WorkerStep

LEMMA StrayWorkerFlags ==
  ASSUME FlagsTyped, Stray!WorkerStep
  PROVE  strayVerdict' \in BOOLEAN /\ sameBackups' \in BOOLEAN
BY Zenon
   DEF Stray!WorkerStep, FlagsTyped, Stray!NothingPending, Stray!Pending, Stray!Continue,
       Stray!Exit, Stray!ReadJournal, Stray!Load, Stray!Restore, Stray!Restoring, Stray!Restored,
       Stray!RestoreFails, Stray!Fails, Stray!Drop, Stray!Cleanup, Stray!Sweep, Stray!Sweeps,
       Stray!NoFiles, Stray!Acknowledge, Stray!CopyWorkspace, Stray!Work, Stray!Written,
       Stray!RefuseRequest, Stray!NothingChanged, Stray!BackUp, Stray!ChangedFiles, Stray!Existing,
       Stray!Prepare, Stray!Publish, Stray!Mark, Stray!PublishedAll, Stray!WriteResponse

(* Every step keeps the types, and the invariant of them needs no more.    *)
LEMMA ProcessTypes == ASSUME NativeTyped, Process PROVE NativeTyped'
<1>1. FilesTyped' /\ ProcessesTyped'
  BY WorkerTyped DEF NativeTyped, FilesTyped, ProcessesTyped, Process, Aside
<1>2. HostTyped'
  BY DEF NativeTyped, HostTyped, Process, Aside
<1>3. FlagsTyped'
  <2>1. verdict' \in BOOLEAN /\ sameBackups' \in BOOLEAN
    BY WorkerFlags DEF NativeTyped, Process
  <2>2. intact' \in BOOLEAN
    BY Zenon DEF NativeTyped, FlagsTyped, Process
  <2> QED
    BY <2>1, <2>2, Zenon DEF NativeTyped, FlagsTyped, Process, Aside
<1> QED
  BY <1>1, <1>2, <1>3 DEF NativeTyped

LEMMA StrayTypes == ASSUME NativeTyped, StrayProcess PROVE NativeTyped'
<1> USE DEF NativeTyped
<1>1. /\ root' \in [File -> Contents] /\ strayShadow' \in [File -> Contents]
      /\ backup' \in [File -> Contents] /\ otherBackup' \in [File -> Contents]
      /\ existed' \subseteq listed' /\ listed' \subseteq File
      /\ otherExisted' \subseteq otherListed' /\ otherListed' \subseteq File
      /\ journal' \in JournalStates /\ otherJournal' \in JournalStates
      /\ strayProc' \in Procs /\ strayStep' \in Steps
      /\ strayAt' \in 0..(Len(Order) + 1) /\ strayReply' \in Replies
  <2>1. CASE Stray!WorkerStep
    BY <2>1, StrayWorkerTyped
  <2>2. CASE Stray!ToolRaises
    <3>1. UNCHANGED <<root, strayShadow, backup, otherBackup, existed, listed, otherExisted,
                      otherListed, journal, otherJournal>>
      BY <2>2 DEF Stray!ToolRaises
    <3>2. strayProc' \in Procs /\ strayStep' \in Steps /\ strayReply' \in Replies
      BY <2>2
         DEF Stray!ToolRaises, Stray!RollBack, Stray!Fails, Stray!Exit, ProcessesTyped, Procs,
             Steps, Replies
    <3>3. strayAt' \in 0..(Len(Order) + 1)
      BY <2>2, Sizes
         DEF Stray!ToolRaises, Stray!RollBack, Stray!Fails, Stray!Exit, ProcessesTyped
    <3> QED
      BY <3>1, <3>2, <3>3 DEF FilesTyped, ProcessesTyped
  <2> QED
    BY <2>1, <2>2 DEF StrayProcess
<1>2. base' \in [File -> Contents] /\ touched' \subseteq File
  BY DEF StrayProcess, NoFiles, FilesTyped, Contents
<1>3. UNCHANGED <<shadow, proc, step, at, reply, host, why, answer, toolCalls, toolFaults, saves>>
  BY DEF StrayProcess
<1>4. HostTyped'
  BY <1>3 DEF HostTyped
<1>5. FlagsTyped'
  <2>1. strayVerdict' \in BOOLEAN /\ sameBackups' \in BOOLEAN
    <3>1. CASE Stray!WorkerStep
      BY <3>1, StrayWorkerFlags
    <3>2. CASE Stray!ToolRaises
      BY <3>2, Zenon DEF Stray!ToolRaises, Stray!RollBack, Stray!Fails, Stray!Exit, FlagsTyped
    <3> QED
      BY <3>1, <3>2 DEF StrayProcess
  <2>2. crossed' \in BOOLEAN
    BY Zenon DEF StrayProcess, FlagsTyped
  <2>3. intact' \in BOOLEAN
    BY Zenon DEF StrayProcess, FlagsTyped
  <2>4. UNCHANGED <<verdict, stop>>
    BY DEF StrayProcess
  <2> QED
    BY <2>1, <2>2, <2>3, <2>4 DEF FlagsTyped
<1>6. FilesTyped'
  BY <1>1, <1>2, <1>3 DEF FilesTyped
<1>7. ProcessesTyped'
  BY <1>1, <1>3 DEF ProcessesTyped
<1> QED
  BY <1>4, <1>5, <1>6, <1>7

LEMMA BeginTypes == ASSUME NativeTyped, Begin PROVE NativeTyped'
<1> USE DEF NativeTyped
<1>1. FilesTyped'
  BY DEF FilesTyped, Contents, Begin, Launch, LeaveBehind, Revision, Undo
<1>2. (ProcessesTyped /\ at' \in 0..(Len(Order) + 1) => ProcessesTyped')
  BY DEF ProcessesTyped, Begin, Launch, LeaveBehind, Procs, Steps, Replies
<1>3. at' \in 0..(Len(Order) + 1)
  BY Sizes DEF ProcessesTyped, Begin, Launch, LeaveBehind
<1>4. HostTyped'
  BY Sizes DEF HostTyped, Begin, Launch, LeaveBehind
<1>5. FlagsTyped'
  BY Zenon DEF FlagsTyped, Begin, Launch, LeaveBehind
<1> QED
  BY <1>1, <1>2, <1>3, <1>4, <1>5

LEMMA TerminateTypes == ASSUME NativeTyped, Terminate PROVE NativeTyped'
<1> USE DEF NativeTyped
<1>1. FilesTyped'
  BY DEF FilesTyped, Contents, Terminate, Interrupted, RollBack, Exit, Aside
<1>2. (ProcessesTyped /\ at' \in 0..(Len(Order) + 1) => ProcessesTyped')
  BY DEF ProcessesTyped, Terminate, Interrupted, RollBack, Exit, Aside, Procs, Steps
<1>3. at' \in 0..(Len(Order) + 1)
  BY Sizes DEF ProcessesTyped, Terminate, Interrupted, RollBack, Exit, Aside
<1>4. HostTyped'
  BY Sizes DEF HostTyped, Terminate, Interrupted, RollBack, Exit, Aside
<1>5. FlagsTyped'
  BY Zenon DEF FlagsTyped, Terminate, Interrupted, RollBack, Exit, Aside
<1> QED
  BY <1>1, <1>2, <1>3, <1>4, <1>5

LEMMA FailTypes == ASSUME NativeTyped, Fail PROVE NativeTyped'
<1> USE DEF NativeTyped
<1>1. FilesTyped'
  BY DEF FilesTyped, Contents, Fail, ToolRaises, RollBack, Fails, Exit, ToolFault, Aside
<1>2. (ProcessesTyped /\ at' \in 0..(Len(Order) + 1) => ProcessesTyped')
  BY
     DEF ProcessesTyped, Fail, ToolRaises, RollBack, Fails, Exit, ToolFault, Aside, Procs, Steps,
         Replies
<1>3. at' \in 0..(Len(Order) + 1)
  BY Sizes DEF ProcessesTyped, Fail, ToolRaises, RollBack, Fails, Exit, ToolFault, Aside
<1>4. HostTyped'
  BY Sizes DEF HostTyped, Fail, ToolRaises, RollBack, Fails, Exit, ToolFault, Aside
<1>5. FlagsTyped'
  BY Zenon DEF FlagsTyped, Fail, ToolRaises, RollBack, Fails, Exit, ToolFault, Aside
<1> QED
  BY <1>1, <1>2, <1>3, <1>4, <1>5

LEMMA KillToolTypes == ASSUME NativeTyped, KillTool PROVE NativeTyped'
<1> USE DEF NativeTyped
<1>1. FilesTyped'
  BY DEF FilesTyped, Contents, KillTool, Killed, Exit, ToolFault, Aside
<1>2. (ProcessesTyped /\ at' \in 0..(Len(Order) + 1) => ProcessesTyped')
  BY DEF ProcessesTyped, KillTool, Killed, Exit, ToolFault, Aside, Procs, Steps
<1>3. at' \in 0..(Len(Order) + 1)
  BY Sizes DEF ProcessesTyped, KillTool, Killed, Exit, ToolFault, Aside
<1>4. HostTyped'
  BY Sizes DEF HostTyped, KillTool, Killed, Exit, ToolFault, Aside
<1>5. FlagsTyped'
  BY Zenon DEF FlagsTyped, KillTool, Killed, Exit, ToolFault, Aside
<1> QED
  BY <1>1, <1>2, <1>3, <1>4, <1>5

LEMMA StopToolTypes == ASSUME NativeTyped, StopTool PROVE NativeTyped'
<1> USE DEF NativeTyped
<1>1. FilesTyped'
  BY DEF FilesTyped, Contents, StopTool
<1>2. (ProcessesTyped /\ at' \in 0..(Len(Order) + 1) => ProcessesTyped')
  BY DEF ProcessesTyped, StopTool
<1>3. at' \in 0..(Len(Order) + 1)
  BY Sizes DEF ProcessesTyped, StopTool
<1>4. HostTyped'
  BY Sizes DEF HostTyped, StopTool
<1>5. FlagsTyped'
  BY Zenon DEF FlagsTyped, StopTool
<1> QED
  BY <1>1, <1>2, <1>3, <1>4, <1>5

LEMMA EscalateTypes == ASSUME NativeTyped, Escalate PROVE NativeTyped'
<1> USE DEF NativeTyped
<1>1. FilesTyped'
  BY DEF FilesTyped, Contents, Escalate, Exit
<1>2. (ProcessesTyped /\ at' \in 0..(Len(Order) + 1) => ProcessesTyped')
  BY DEF ProcessesTyped, Escalate, Exit, Procs, Steps
<1>3. at' \in 0..(Len(Order) + 1)
  BY Sizes DEF ProcessesTyped, Escalate, Exit
<1>4. HostTyped'
  BY Sizes DEF HostTyped, Escalate, Exit
<1>5. FlagsTyped'
  BY Zenon DEF FlagsTyped, Escalate, Exit
<1> QED
  BY <1>1, <1>2, <1>3, <1>4, <1>5

LEMMA CollectTypes == ASSUME NativeTyped, Collect PROVE NativeTyped'
<1> USE DEF NativeTyped
<1>1. FilesTyped'
  BY DEF FilesTyped, Contents, Collect, Recover, Return, Launch
<1>2. (ProcessesTyped /\ at' \in 0..(Len(Order) + 1) => ProcessesTyped')
  BY DEF ProcessesTyped, Collect, Recover, Return, Launch, Procs, Steps, Replies
<1>3. at' \in 0..(Len(Order) + 1)
  BY Sizes DEF ProcessesTyped, Collect, Recover, Return, Launch
<1>4. HostTyped'
  BY Sizes DEF HostTyped, Collect, Recover, Return, Launch
<1>5. FlagsTyped'
  BY Zenon DEF FlagsTyped, Collect, Recover, Return, Launch
<1> QED
  BY <1>1, <1>2, <1>3, <1>4, <1>5

LEMMA AckEndsTypes == ASSUME NativeTyped, AckEnds PROVE NativeTyped'
<1> USE DEF NativeTyped
<1>1. FilesTyped'
  BY DEF FilesTyped, Contents, AckEnds, Recover, Return, Launch
<1>2. (ProcessesTyped /\ at' \in 0..(Len(Order) + 1) => ProcessesTyped')
  BY DEF ProcessesTyped, AckEnds, Recover, Return, Launch, Procs, Steps
<1>3. at' \in 0..(Len(Order) + 1)
  BY Sizes DEF ProcessesTyped, AckEnds, Recover, Return, Launch
<1>4. HostTyped'
  BY Sizes DEF HostTyped, AckEnds, Recover, Return, Launch
<1>5. FlagsTyped'
  BY Zenon DEF FlagsTyped, AckEnds, Recover, Return, Launch
<1> QED
  BY <1>1, <1>2, <1>3, <1>4, <1>5

LEMMA RecoveryEndsTypes == ASSUME NativeTyped, RecoveryEnds PROVE NativeTyped'
<1> USE DEF NativeTyped
<1>1. FilesTyped'
  BY DEF FilesTyped, Contents, RecoveryEnds, Return, Recovered
<1>2. (ProcessesTyped /\ at' \in 0..(Len(Order) + 1) => ProcessesTyped')
  BY DEF ProcessesTyped, RecoveryEnds, Return, Recovered
<1>3. at' \in 0..(Len(Order) + 1)
  BY Sizes DEF ProcessesTyped, RecoveryEnds, Return, Recovered
<1>4. HostTyped'
  BY Sizes DEF HostTyped, RecoveryEnds, Return, Recovered
<1>5. FlagsTyped'
  BY Zenon DEF FlagsTyped, RecoveryEnds, Return, Recovered
<1> QED
  BY <1>1, <1>2, <1>3, <1>4, <1>5

LEMMA HostDiesTypes == ASSUME NativeTyped, HostDies PROVE NativeTyped'
<1> USE DEF NativeTyped
<1>1. FilesTyped'
  BY DEF FilesTyped, Contents, HostDies, ToolFault
<1>2. (ProcessesTyped /\ at' \in 0..(Len(Order) + 1) => ProcessesTyped')
  BY DEF ProcessesTyped, HostDies, ToolFault
<1>3. at' \in 0..(Len(Order) + 1)
  BY Sizes DEF ProcessesTyped, HostDies, ToolFault
<1>4. HostTyped'
  BY Sizes DEF HostTyped, HostDies, ToolFault
<1>5. FlagsTyped'
  BY Zenon DEF FlagsTyped, HostDies, ToolFault
<1> QED
  BY <1>1, <1>2, <1>3, <1>4, <1>5

LEMMA HostStartsTypes == ASSUME NativeTyped, HostStarts PROVE NativeTyped'
<1> USE DEF NativeTyped
<1>1. FilesTyped'
  BY DEF FilesTyped, Contents, HostStarts
<1>2. (ProcessesTyped /\ at' \in 0..(Len(Order) + 1) => ProcessesTyped')
  BY DEF ProcessesTyped, HostStarts
<1>3. at' \in 0..(Len(Order) + 1)
  BY Sizes DEF ProcessesTyped, HostStarts
<1>4. HostTyped'
  BY Sizes DEF HostTyped, HostStarts
<1>5. FlagsTyped'
  BY Zenon DEF FlagsTyped, HostStarts
<1> QED
  BY <1>1, <1>2, <1>3, <1>4, <1>5

LEMMA SaveTypes == ASSUME NativeTyped, NEW f \in File, Save(f) PROVE NativeTyped'
<1> USE DEF NativeTyped
<1>1. FilesTyped'
  BY DEF FilesTyped, Contents, Save
<1>2. (ProcessesTyped /\ at' \in 0..(Len(Order) + 1) => ProcessesTyped')
  BY DEF ProcessesTyped, Save
<1>3. at' \in 0..(Len(Order) + 1)
  BY Sizes DEF ProcessesTyped, Save
<1>4. HostTyped'
  BY Sizes DEF HostTyped, Save
<1>5. FlagsTyped'
  BY Zenon DEF FlagsTyped, Save
<1> QED
  BY <1>1, <1>2, <1>3, <1>4, <1>5

LEMMA NativeTypesKeep == ASSUME NativeTyped, [NativeNext]_nativeVars PROVE NativeTyped'
<1>1. CASE UNCHANGED nativeVars
  <2> USE <1>1 DEF nativeVars
  <2>1. FilesTyped' /\ HostTyped'
    BY DEF NativeTyped, FilesTyped, HostTyped
  <2>2. ProcessesTyped'
    BY DEF NativeTyped, ProcessesTyped
  <2>3. FlagsTyped'
    BY Zenon DEF NativeTyped, FlagsTyped
  <2> QED
    BY <2>1, <2>2, <2>3 DEF NativeTyped
<1> QED
  BY <1>1, BeginTypes, ProcessTypes, TerminateTypes, FailTypes, KillToolTypes, StrayTypes,
     StopToolTypes, EscalateTypes, CollectTypes, AckEndsTypes, RecoveryEndsTypes, HostDiesTypes,
     HostStartsTypes, SaveTypes
     DEF NativeNext, HostStep

(* As long as no stray has changed anything, every step keeps what is said *)
(* of the files.                                                           *)
LEMMA NothingPendingKeeps == ASSUME NativeTyped, CallOK, Process, NothingPending PROVE CallOK'
<1> USE DEF NativeTyped, CallOK
<1>1. RunsOK' /\ JournalOK' /\ AnsweredClean'
  BY Sizes
     DEF Process, NothingPending, Pending, Continue, Exit, Aside, RunsOK, JournalOK,
         AnsweredClean, Restoring, Sweeps
<1>2. BackupOK' /\ ResultOK' /\ BaseOK'
  BY Sizes
     DEF Process, NothingPending, Pending, Continue, Exit, Aside, BackupOK, Untouched, Undo,
         ResultOK, BaseOK, Revision, RunsOK, JournalOK, Restoring
<1> QED
  BY <1>1, <1>2

LEMMA ReadJournalKeeps == ASSUME NativeTyped, CallOK, Process, ReadJournal PROVE CallOK'
<1> USE DEF NativeTyped, CallOK
<1>1. RunsOK'
  BY Sizes DEF Process, ReadJournal, Pending, Load, Continue, Aside, RunsOK, Restoring
<1>3. JournalOK'
  BY Sizes
     DEF Process, ReadJournal, Pending, Load, Continue, Aside, RunsOK, JournalOK, Restoring,
         Sweeps
<1>5. AnsweredClean'
  BY Sizes
     DEF Process, ReadJournal, Pending, Load, Continue, Aside, RunsOK, JournalOK, AnsweredClean
<1>2. BackupOK'
  BY Sizes
     DEF Process, ReadJournal, Pending, Load, Continue, Aside, BackupOK, Untouched, Undo, RunsOK,
         JournalOK, Restoring
<1>4. ResultOK'
  BY Sizes
     DEF Process, ReadJournal, Pending, Load, Continue, Aside, Untouched, ResultOK, RunsOK,
         JournalOK, Restoring
<1>6. BaseOK'
  BY Sizes
     DEF Process, ReadJournal, Pending, Load, Continue, Aside, BaseOK, Revision, Untouched, Undo,
         BackupOK, RunsOK, JournalOK, Restoring
<1> QED
  BY <1>1, <1>2, <1>3, <1>5, <1>4, <1>6

LEMMA RestoreKeeps == ASSUME NativeTyped, CallOK, Process, Restore PROVE CallOK'
<1> USE DEF NativeTyped, CallOK
<1>1. RunsOK'
  BY Sizes DEF Process, Restore, Restoring, Restored, Aside, ProcessesTyped, RunsOK
<1>3. JournalOK'
  BY Sizes
     DEF Process, Restore, Restoring, Restored, Aside, ProcessesTyped, RunsOK, JournalOK, Sweeps
<1>5. AnsweredClean'
  BY Sizes
     DEF Process, Restore, Restoring, Restored, Aside, ProcessesTyped, RunsOK, JournalOK,
         AnsweredClean, Pending
<1>2. BackupOK'
  BY OrderFacts
     DEF Process, Restore, Restoring, Restored, Aside, ProcessesTyped, FilesTyped, BackupOK,
         Untouched, Undo, RunsOK, JournalOK
<1>4. ResultOK'
  BY OrderFacts
     DEF Process, Restore, Restoring, Restored, Aside, ProcessesTyped, FilesTyped, Untouched,
         ResultOK, RunsOK, JournalOK
<1>6. BaseOK'
  BY OrderFacts
     DEF Process, Restore, Restoring, Restored, Aside, ProcessesTyped, FilesTyped, BaseOK,
         Revision, Untouched, Undo, BackupOK, RunsOK, JournalOK
<1> QED
  BY <1>1, <1>2, <1>3, <1>5, <1>4, <1>6

LEMMA RestoreFailsKeeps == ASSUME NativeTyped, CallOK, Process, RestoreFails PROVE CallOK'
<1> USE DEF NativeTyped, CallOK
<1>1. RunsOK' /\ JournalOK' /\ AnsweredClean'
  BY Sizes
     DEF Process, RestoreFails, Fails, Exit, Restoring, Aside, RunsOK, JournalOK, AnsweredClean,
         Pending, Sweeps
<1>2. BackupOK' /\ ResultOK' /\ BaseOK'
  BY Sizes
     DEF Process, RestoreFails, Fails, Exit, Restoring, Aside, BackupOK, Untouched, Undo,
         ResultOK, BaseOK, Revision, RunsOK, JournalOK
<1> QED
  BY <1>1, <1>2

LEMMA DropKeeps == ASSUME NativeTyped, CallOK, Process, Drop PROVE CallOK'
<1> USE DEF NativeTyped, CallOK
<1>1. RunsOK' /\ JournalOK' /\ AnsweredClean'
  BY Sizes
     DEF Process, Drop, Restoring, Cleanup, Continue, Pending, Aside, ProcessesTyped, RunsOK,
         JournalOK, AnsweredClean, Sweeps
<1>2. BackupOK'
  BY OrderFacts
     DEF Process, Drop, Restoring, Cleanup, Continue, Pending, Aside, ProcessesTyped, FilesTyped,
         BackupOK, Untouched, Undo, RunsOK, JournalOK
<1>4. ResultOK'
  BY OrderFacts
     DEF Process, Drop, Restoring, Cleanup, Continue, Pending, Aside, ProcessesTyped, FilesTyped,
         Untouched, ResultOK, RunsOK, JournalOK
<1>6. BaseOK'
  <2>1. journal # "none" /\ journal' = "none" /\ Restoring /\ at = 0 /\ UNCHANGED <<root, touched>>
    BY DEF Process, Drop, Aside, JournalOK, Restoring
  <2>2. \A f \in listed \cap Untouched : root[f] = Undo(f)
    BY <2>1, OrderFacts DEF BackupOK, Untouched
  <2>3. \A f \in Untouched : Revision'[f] = Revision[f]
    BY <2>1, <2>2 DEF Revision, Untouched
  <2> QED
    BY <2>3 DEF BaseOK, Process, Drop, Aside, Untouched
<1> QED
  BY <1>1, <1>2, <1>4, <1>6

LEMMA SweepKeeps == ASSUME NativeTyped, CallOK, Process, Sweep PROVE CallOK'
<1> USE DEF NativeTyped, CallOK
<1>1. RunsOK' /\ JournalOK' /\ AnsweredClean'
  BY Sizes
     DEF Process, Sweep, Sweeps, NoFiles, Continue, Exit, Aside, RunsOK, JournalOK, AnsweredClean,
         Pending, Restoring
<1>2. BackupOK' /\ ResultOK' /\ BaseOK'
  BY Sizes
     DEF Process, Sweep, Sweeps, NoFiles, Continue, Exit, Aside, BackupOK, Untouched, Undo,
         ResultOK, BaseOK, Revision, RunsOK, JournalOK, Restoring
<1> QED
  BY <1>1, <1>2

LEMMA AcknowledgeKeeps == ASSUME NativeTyped, CallOK, Process, Acknowledge PROVE CallOK'
<1> USE DEF NativeTyped, CallOK
<1>1. RunsOK' /\ JournalOK' /\ AnsweredClean'
  BY Sizes
     DEF Process, Acknowledge, Load, Continue, Fails, Exit, Aside, RunsOK, JournalOK,
         AnsweredClean, Pending, Restoring, Sweeps
<1>2. BackupOK' /\ ResultOK' /\ BaseOK'
  BY Sizes
     DEF Process, Acknowledge, Load, Continue, Fails, Exit, Aside, BackupOK, Untouched, Undo,
         ResultOK, BaseOK, Revision, RunsOK, JournalOK, Restoring
<1> QED
  BY <1>1, <1>2

LEMMA CopyWorkspaceKeeps == ASSUME NativeTyped, CallOK, Process, CopyWorkspace PROVE CallOK'
<1> USE DEF NativeTyped, CallOK
<1>1. RunsOK' /\ JournalOK' /\ AnsweredClean'
  BY Sizes
     DEF Process, CopyWorkspace, Continue, Aside, RunsOK, JournalOK, AnsweredClean, Pending,
         Restoring, Sweeps
<1>2. BackupOK' /\ ResultOK' /\ BaseOK'
  BY Sizes
     DEF Process, CopyWorkspace, Continue, Aside, BackupOK, Untouched, Undo, ResultOK, BaseOK,
         Revision, RunsOK, JournalOK, Restoring
<1> QED
  BY <1>1, <1>2

LEMMA WorkKeeps == ASSUME NativeTyped, CallOK, Process, Work PROVE CallOK'
<1> USE DEF NativeTyped, CallOK
<1>1. RunsOK' /\ JournalOK' /\ AnsweredClean'
  BY Sizes
     DEF Process, Work, Continue, Written, Aside, RunsOK, JournalOK, AnsweredClean, Pending,
         Restoring, Sweeps
<1>2. BackupOK' /\ ResultOK' /\ BaseOK'
  BY Sizes
     DEF Process, Work, Continue, Written, Aside, BackupOK, Untouched, Undo, ResultOK, BaseOK,
         Revision, RunsOK, JournalOK, Restoring
<1> QED
  BY <1>1, <1>2

LEMMA RefuseRequestKeeps == ASSUME NativeTyped, CallOK, Process, RefuseRequest PROVE CallOK'
<1> USE DEF NativeTyped, CallOK
<1>1. RunsOK' /\ JournalOK' /\ AnsweredClean'
  BY Sizes
     DEF Process, RefuseRequest, Fails, Exit, Aside, RunsOK, JournalOK, AnsweredClean, Pending,
         Restoring, Sweeps
<1>2. BackupOK' /\ ResultOK' /\ BaseOK'
  BY Sizes
     DEF Process, RefuseRequest, Fails, Exit, Aside, BackupOK, Untouched, Undo, ResultOK, BaseOK,
         Revision, RunsOK, JournalOK, Restoring
<1> QED
  BY <1>1, <1>2

LEMMA NothingChangedKeeps == ASSUME NativeTyped, CallOK, Process, NothingChanged PROVE CallOK'
<1> USE DEF NativeTyped, CallOK
<1>1. RunsOK' /\ JournalOK' /\ AnsweredClean'
  BY Sizes
     DEF Process, NothingChanged, Exit, Aside, RunsOK, JournalOK, AnsweredClean, Pending,
         Restoring, Sweeps
<1>2. BackupOK' /\ ResultOK' /\ BaseOK'
  BY Sizes
     DEF Process, NothingChanged, Exit, Aside, BackupOK, Untouched, Undo, ResultOK, BaseOK,
         Revision, RunsOK, JournalOK, Restoring
<1> QED
  BY <1>1, <1>2

LEMMA BackUpKeeps == ASSUME NativeTyped, CallOK, Process, BackUp PROVE CallOK'
<1> USE DEF NativeTyped, CallOK
<1>1. RunsOK' /\ JournalOK' /\ AnsweredClean'
  BY Sizes
     DEF Process, BackUp, ChangedFiles, Existing, Continue, Aside, RunsOK, JournalOK,
         AnsweredClean, Pending, Restoring, Sweeps
<1>2. BackupOK' /\ ResultOK' /\ BaseOK'
  BY Sizes
     DEF Process, BackUp, ChangedFiles, Existing, Continue, Aside, BackupOK, Untouched, Undo,
         ResultOK, BaseOK, Revision, RunsOK, JournalOK, Restoring
<1> QED
  BY <1>1, <1>2

LEMMA PrepareKeeps == ASSUME NativeTyped, CallOK, Process, Prepare PROVE CallOK'
<1> USE DEF NativeTyped, CallOK
<1>1. RunsOK'
  BY Sizes DEF Process, Prepare, Aside, ProcessesTyped, Procs, RunsOK, Restoring
<1>3. JournalOK'
  BY Sizes
     DEF Process, Prepare, Aside, ProcessesTyped, Procs, RunsOK, JournalOK, Restoring, Sweeps
<1>5. AnsweredClean'
  BY Sizes
     DEF Process, Prepare, Aside, ProcessesTyped, Procs, RunsOK, JournalOK, AnsweredClean, Pending
<1>2. BackupOK' /\ ResultOK' /\ BaseOK'
  BY Sizes
     DEF Process, Prepare, Aside, BackupOK, Untouched, Undo, ResultOK, BaseOK, Revision, RunsOK,
         JournalOK, Restoring
<1> QED
  BY <1>1, <1>2, <1>3, <1>5

LEMMA PublishKeeps == ASSUME NativeTyped, CallOK, Process, Publish PROVE CallOK'
<1> USE DEF NativeTyped, CallOK
<1>1. RunsOK' /\ JournalOK' /\ AnsweredClean'
  BY Sizes
     DEF Process, Publish, Aside, ProcessesTyped, RunsOK, JournalOK, AnsweredClean, Pending,
         Restoring, Sweeps
<1>2. BackupOK' /\ ResultOK' /\ BaseOK'
  BY OrderFacts
     DEF Process, Publish, Aside, ProcessesTyped, FilesTyped, BackupOK, Untouched, Undo, ResultOK,
         BaseOK, Revision, RunsOK, JournalOK, Restoring
<1> QED
  BY <1>1, <1>2

LEMMA MarkKeeps == ASSUME NativeTyped, CallOK, Process, Mark PROVE CallOK'
<1> USE DEF NativeTyped, CallOK
<1>1. RunsOK' /\ JournalOK' /\ AnsweredClean'
  BY Sizes
     DEF Process, Mark, PublishedAll, Continue, Aside, ProcessesTyped, RunsOK, JournalOK,
         AnsweredClean, Pending, Restoring, Sweeps
<1>2. BackupOK' /\ ResultOK' /\ BaseOK'
  BY OrderFacts
     DEF Process, Mark, PublishedAll, Continue, Aside, ProcessesTyped, FilesTyped, BackupOK,
         Untouched, Undo, ResultOK, BaseOK, Revision, RunsOK, JournalOK, Restoring
<1> QED
  BY <1>1, <1>2

LEMMA WriteResponseKeeps == ASSUME NativeTyped, CallOK, Process, WriteResponse PROVE CallOK'
<1> USE DEF NativeTyped, CallOK
<1>1. RunsOK' /\ JournalOK' /\ AnsweredClean'
  BY Sizes
     DEF Process, WriteResponse, Exit, Aside, RunsOK, JournalOK, AnsweredClean, Pending,
         Restoring, Sweeps
<1>2. BackupOK' /\ ResultOK' /\ BaseOK'
  BY Sizes
     DEF Process, WriteResponse, Exit, Aside, BackupOK, Untouched, Undo, ResultOK, BaseOK,
         Revision, RunsOK, JournalOK, Restoring
<1> QED
  BY <1>1, <1>2

LEMMA BeginKeeps == ASSUME NativeTyped, CallOK, Begin PROVE CallOK'
<1> USE DEF NativeTyped, CallOK
<1>1. RunsOK' /\ JournalOK' /\ AnsweredClean'
  BY Sizes DEF Begin, Launch, RunsOK, JournalOK, AnsweredClean, Pending, Restoring, Sweeps
<1>2. BackupOK' /\ ResultOK' /\ BaseOK'
  BY Sizes
     DEF Begin, Launch, BackupOK, Untouched, Undo, ResultOK, BaseOK, Revision, RunsOK, JournalOK,
         Restoring
<1> QED
  BY <1>1, <1>2

LEMMA TerminateKeeps == ASSUME NativeTyped, CallOK, Terminate PROVE CallOK'
<1> USE DEF NativeTyped, CallOK
<1>1. RunsOK'
  BY Sizes DEF Terminate, Interrupted, RollBack, Exit, Aside, RunsOK, Restoring
<1>3. JournalOK'
  <2>1. (Restoring => at <= Len(Order)) /\ (Restoring' => at' = Len(Order) \/ at' = at)
    BY Sizes DEF Terminate, Interrupted, RollBack, Exit, Aside, RunsOK, Restoring
  <2>2. (Restoring /\ at < Len(Order) => ~intact)'
    BY <2>1, Sizes DEF Terminate, Interrupted, RollBack, Exit, Aside, RunsOK, JournalOK, Restoring
  <2> QED
    BY <2>2
       DEF Terminate, Interrupted, RollBack, Exit, Aside, RunsOK, JournalOK, Restoring, Sweeps
<1>5. AnsweredClean'
  BY Sizes
     DEF Terminate, Interrupted, RollBack, Exit, Aside, RunsOK, JournalOK, AnsweredClean, Pending
<1>2. BackupOK' /\ ResultOK' /\ BaseOK'
  BY Sizes
     DEF Terminate, Interrupted, RollBack, Exit, Aside, BackupOK, Untouched, Undo, ResultOK,
         BaseOK, Revision, RunsOK, JournalOK, Restoring
<1> QED
  BY <1>1, <1>2, <1>3, <1>5

LEMMA FailKeeps == ASSUME NativeTyped, CallOK, Fail PROVE CallOK'
<1> USE DEF NativeTyped, CallOK
<1>1. RunsOK'
  BY Sizes DEF Fail, ToolRaises, RollBack, Fails, Exit, ToolFault, Aside, RunsOK, Restoring
<1>3. JournalOK'
  <2>1. (Restoring => at <= Len(Order)) /\ (Restoring' => at' = Len(Order) \/ at' = at)
    BY Sizes DEF Fail, ToolRaises, RollBack, Fails, Exit, ToolFault, Aside, RunsOK, Restoring
  <2>2. (Restoring /\ at < Len(Order) => ~intact)'
    BY <2>1, Sizes
       DEF Fail, ToolRaises, RollBack, Fails, Exit, ToolFault, Aside, RunsOK, JournalOK, Restoring
  <2> QED
    BY <2>2
       DEF Fail, ToolRaises, RollBack, Fails, Exit, ToolFault, Aside, RunsOK, JournalOK,
           Restoring, Sweeps
<1>5. AnsweredClean'
  BY Sizes
     DEF Fail, ToolRaises, RollBack, Fails, Exit, ToolFault, Aside, RunsOK, JournalOK,
         AnsweredClean, Pending
<1>2. BackupOK' /\ ResultOK' /\ BaseOK'
  BY Sizes
     DEF Fail, ToolRaises, RollBack, Fails, Exit, ToolFault, Aside, BackupOK, Untouched, Undo,
         ResultOK, BaseOK, Revision, RunsOK, JournalOK, Restoring
<1> QED
  BY <1>1, <1>2, <1>3, <1>5

LEMMA KillToolKeeps == ASSUME NativeTyped, CallOK, KillTool PROVE CallOK'
<1> USE DEF NativeTyped, CallOK
<1>1. RunsOK' /\ JournalOK' /\ AnsweredClean'
  BY Sizes
     DEF KillTool, Killed, Exit, ToolFault, Aside, RunsOK, JournalOK, AnsweredClean, Pending,
         Restoring, Sweeps
<1>2. BackupOK' /\ ResultOK' /\ BaseOK'
  BY Sizes
     DEF KillTool, Killed, Exit, ToolFault, Aside, BackupOK, Untouched, Undo, ResultOK, BaseOK,
         Revision, RunsOK, JournalOK, Restoring
<1> QED
  BY <1>1, <1>2

LEMMA StopToolKeeps == ASSUME NativeTyped, CallOK, StopTool PROVE CallOK'
<1> USE DEF NativeTyped, CallOK
<1>1. RunsOK' /\ JournalOK' /\ AnsweredClean'
  BY Sizes DEF StopTool, RunsOK, JournalOK, AnsweredClean, Pending, Restoring, Sweeps
<1>2. BackupOK' /\ ResultOK' /\ BaseOK'
  BY Sizes
     DEF StopTool, BackupOK, Untouched, Undo, ResultOK, BaseOK, Revision, RunsOK, JournalOK,
         Restoring
<1> QED
  BY <1>1, <1>2

LEMMA EscalateKeeps == ASSUME NativeTyped, CallOK, Escalate PROVE CallOK'
<1> USE DEF NativeTyped, CallOK
<1>1. RunsOK' /\ JournalOK' /\ AnsweredClean'
  BY Sizes DEF Escalate, Exit, RunsOK, JournalOK, AnsweredClean, Pending, Restoring, Sweeps
<1>2. BackupOK' /\ ResultOK' /\ BaseOK'
  BY Sizes
     DEF Escalate, Exit, BackupOK, Untouched, Undo, ResultOK, BaseOK, Revision, RunsOK, JournalOK,
         Restoring
<1> QED
  BY <1>1, <1>2

LEMMA CollectKeeps == ASSUME NativeTyped, CallOK, Collect PROVE CallOK'
<1> USE DEF NativeTyped, CallOK
<1>1. RunsOK'
  BY Sizes
     DEF Collect, Recover, Return, Launch, NeedsAck, ProcessesTyped, Replies, RunsOK, Restoring
<1>3. JournalOK'
  BY Sizes
     DEF Collect, Recover, Return, Launch, NeedsAck, ProcessesTyped, Replies, RunsOK, JournalOK,
         Restoring, Sweeps
<1>5. AnsweredClean'
  BY Sizes
     DEF Collect, Recover, Return, Launch, NeedsAck, ProcessesTyped, Replies, RunsOK, JournalOK,
         AnsweredClean, Pending
<1>2. BackupOK' /\ ResultOK' /\ BaseOK'
  BY Sizes
     DEF Collect, Recover, Return, Launch, NeedsAck, BackupOK, Untouched, Undo, ResultOK, BaseOK,
         Revision, RunsOK, JournalOK, Restoring
<1> QED
  BY <1>1, <1>2, <1>3, <1>5

LEMMA AckEndsKeeps == ASSUME NativeTyped, CallOK, AckEnds PROVE CallOK'
<1> USE DEF NativeTyped, CallOK
<1>1. RunsOK' /\ JournalOK' /\ AnsweredClean'
  BY Sizes
     DEF AckEnds, Recover, Return, Launch, RunsOK, JournalOK, AnsweredClean, Pending, Restoring,
         Sweeps
<1>2. BackupOK' /\ ResultOK' /\ BaseOK'
  BY Sizes
     DEF AckEnds, Recover, Return, Launch, BackupOK, Untouched, Undo, ResultOK, BaseOK, Revision,
         RunsOK, JournalOK, Restoring
<1> QED
  BY <1>1, <1>2

LEMMA RecoveryEndsKeeps == ASSUME NativeTyped, CallOK, RecoveryEnds PROVE CallOK'
<1> USE DEF NativeTyped, CallOK
<1>1. RunsOK' /\ JournalOK' /\ AnsweredClean'
  BY Sizes
     DEF RecoveryEnds, Return, Recovered, RunsOK, JournalOK, AnsweredClean, Pending, Restoring,
         Sweeps
<1>2. BackupOK' /\ ResultOK' /\ BaseOK'
  BY Sizes
     DEF RecoveryEnds, Return, Recovered, BackupOK, Untouched, Undo, ResultOK, BaseOK, Revision,
         RunsOK, JournalOK, Restoring
<1> QED
  BY <1>1, <1>2

LEMMA HostDiesKeeps == ASSUME NativeTyped, CallOK, HostDies PROVE CallOK'
<1> USE DEF NativeTyped, CallOK
<1>1. RunsOK' /\ JournalOK' /\ AnsweredClean'
  BY Sizes DEF HostDies, ToolFault, RunsOK, JournalOK, AnsweredClean, Pending, Restoring, Sweeps
<1>2. BackupOK' /\ ResultOK' /\ BaseOK'
  BY Sizes
     DEF HostDies, ToolFault, BackupOK, Untouched, Undo, ResultOK, BaseOK, Revision, RunsOK,
         JournalOK, Restoring
<1> QED
  BY <1>1, <1>2

LEMMA HostStartsKeeps == ASSUME NativeTyped, CallOK, HostStarts PROVE CallOK'
<1> USE DEF NativeTyped, CallOK
<1>1. RunsOK' /\ JournalOK' /\ AnsweredClean'
  BY Sizes DEF HostStarts, RunsOK, JournalOK, AnsweredClean, Pending, Restoring, Sweeps
<1>2. BackupOK' /\ ResultOK' /\ BaseOK'
  BY Sizes
     DEF HostStarts, BackupOK, Untouched, Undo, ResultOK, BaseOK, Revision, RunsOK, JournalOK,
         Restoring
<1> QED
  BY <1>1, <1>2

LEMMA SaveKeeps == ASSUME NativeTyped, CallOK, NEW f \in File, Save(f) PROVE CallOK'
<1> USE DEF NativeTyped, CallOK
<1>1. RunsOK' /\ JournalOK' /\ AnsweredClean'
  BY Sizes DEF Save, Undisturbed, RunsOK, JournalOK, AnsweredClean, Pending, Restoring, Sweeps
<1>2. BackupOK' /\ ResultOK' /\ BaseOK'
  BY Sizes
     DEF Save, Undisturbed, BackupOK, Untouched, Undo, ResultOK, BaseOK, Revision, RunsOK,
         JournalOK, Restoring
<1> QED
  BY <1>1, <1>2

LEMMA IdleKeeps == ASSUME NativeTyped, CallOK, UNCHANGED nativeVars PROVE CallOK'
<1> USE DEF NativeTyped, CallOK
<1>1. RunsOK' /\ JournalOK' /\ AnsweredClean'
  BY DEF nativeVars, RunsOK, JournalOK, AnsweredClean, Pending, Restoring, Sweeps
<1>2. BackupOK' /\ ResultOK' /\ BaseOK'
  BY
     DEF nativeVars, BackupOK, Untouched, Undo, ResultOK, BaseOK, Revision, RunsOK, JournalOK,
         Restoring
<1> QED
  BY <1>1, <1>2

LEMMA StrayKeeps == ASSUME NativeTyped, CallOK, ~crossed, StrayProcess, ~crossed' PROVE CallOK'
<1>1. UNCHANGED <<root, journal, otherJournal, backup, shadow, running, hosted, history>>
  BY DEF StrayProcess
<1>2. UNCHANGED <<listed, existed>>
  <2>1. CASE Stray!WorkerStep
    BY <2>1
       DEF Stray!WorkerStep, Stray!NothingPending, Stray!ReadJournal, Stray!Restore,
           Stray!RestoreFails, Stray!Drop, Stray!Sweep, Stray!Acknowledge, Stray!CopyWorkspace,
           Stray!Work, Stray!RefuseRequest, Stray!NothingChanged, Stray!BackUp, Stray!Prepare,
           Stray!Publish, Stray!Mark, Stray!WriteResponse
  <2>2. CASE Stray!ToolRaises
    BY <2>2 DEF Stray!ToolRaises
  <2> QED
    BY <2>1, <2>2 DEF StrayProcess
<1> USE <1>1, <1>2 DEF CallOK
<1>3. RunsOK' /\ JournalOK' /\ AnsweredClean'
  BY DEF RunsOK, JournalOK, AnsweredClean, Pending, Restoring, Sweeps
<1>4. BackupOK' /\ ResultOK' /\ BaseOK'
  BY DEF BackupOK, Untouched, Undo, ResultOK, BaseOK, Revision, Restoring
<1> QED
  BY <1>3, <1>4


LEMMA CrossedStays ==
  ASSUME NativeNext, ~StrayProcess PROVE crossed' = crossed
BY DEF NativeNext, Begin, Process, Aside, Terminate, Fail, KillTool, StopTool, HostStep, Escalate,
       Collect, AckEnds, RecoveryEnds, HostDies, HostStarts, Save

LEMMA CallKeeps ==
  ASSUME NativeTyped, CallOK, ~crossed, ~crossed', [NativeNext]_nativeVars PROVE CallOK'
<1>1. CASE Process
  <2>1. WorkerStep
    BY <1>1 DEF Process
  <2> QED
    BY <1>1, <2>1, NothingPendingKeeps, ReadJournalKeeps, RestoreKeeps, RestoreFailsKeeps,
       DropKeeps, SweepKeeps, AcknowledgeKeeps, CopyWorkspaceKeeps, WorkKeeps,
       RefuseRequestKeeps, NothingChangedKeeps, BackUpKeeps, PrepareKeeps, PublishKeeps,
       MarkKeeps, WriteResponseKeeps
       DEF WorkerStep
<1> QED
  BY <1>1, BeginKeeps, TerminateKeeps, FailKeeps, KillToolKeeps, StrayKeeps, StopToolKeeps,
     EscalateKeeps, CollectKeeps, AckEndsKeeps, RecoveryEndsKeeps, HostDiesKeeps,
     HostStartsKeeps, SaveKeeps, IdleKeeps
     DEF NativeNext, HostStep

LEMMA CrossedBefore == ASSUME [NativeNext]_nativeVars, ~crossed' PROVE ~crossed
BY CrossedStays DEF StrayProcess, nativeVars

LEMMA NativeStarts == NativeInit => NativeInv
<1> SUFFICES ASSUME NativeInit PROVE NativeInv
  OBVIOUS
<1>1. FilesTyped
  BY NativeConstants DEF NativeInit, FilesTyped, Contents, NoFiles
<1>2. ProcessesTyped
  BY Sizes DEF NativeInit, ProcessesTyped, JournalStates, Procs, Steps, Replies
<1>3. HostTyped
  BY Sizes DEF NativeInit, HostTyped
<1>4. FlagsTyped
  BY Zenon DEF NativeInit, FlagsTyped
<1>5. RunsOK /\ JournalOK /\ AnsweredClean
  BY Sizes DEF NativeInit, RunsOK, JournalOK, AnsweredClean, Restoring, Sweeps, Pending
<1>6. BackupOK /\ ResultOK /\ BaseOK
  BY DEF NativeInit, BackupOK, ResultOK, BaseOK, Restoring
<1> QED
  BY <1>1, <1>2, <1>3, <1>4, <1>5, <1>6 DEF NativeInv, NativeTyped, CallOK

(* The invariant, of every reachable state of tool, host and files.        *)
THEOREM NativeInductive == NativeSpec => []NativeInv
<1>1. NativeInv /\ [NativeNext]_nativeVars => NativeInv'
  <2> SUFFICES ASSUME NativeInv, [NativeNext]_nativeVars PROVE NativeInv'
    OBVIOUS
  <2>1. NativeTyped'
    BY NativeTypesKeep DEF NativeInv
  <2>2. CASE ~crossed'
    BY <2>1, <2>2, CrossedBefore, CallKeeps DEF NativeInv
  <2> QED
    BY <2>1, <2>2 DEF NativeInv
<1> QED
  BY NativeStarts, <1>1, PTL DEF NativeSpec

(* NativeTypeOK: the types of the workspace, its journal, its processes    *)
(* and the host.                                                           *)
THEOREM NativeTypes == NativeSpec => []NativeTypeOK
<1> SUFFICES ASSUME NativeInv PROVE NativeTypeOK
  BY NativeInductive, PTL
<1>1. {verdict, strayVerdict, stop, intact, sameBackups, crossed} \subseteq BOOLEAN
  BY Zenon DEF NativeInv, NativeTyped, FlagsTyped
<1>2. /\ {root, shadow, backup, base, strayShadow, otherBackup} \subseteq [File -> Contents]
      /\ {journal, otherJournal} \subseteq JournalStates
      /\ {proc, strayProc} \subseteq Procs /\ {step, strayStep} \subseteq Steps
      /\ {at, strayAt} \subseteq 0..(Len(Order) + 1)
      /\ {reply, strayReply} \subseteq Replies
  BY Zenon DEF NativeInv, NativeTyped, FilesTyped, ProcessesTyped
<1> QED
  BY <1>1, <1>2 DEF NativeInv, NativeTyped, FilesTyped, HostTyped, NativeTypeOK, Contents

(* JournalSound: whatever dies between the steps of a call, and whoever    *)
(* still runs beside it, until a stray overruns the workspace the journal  *)
(* has a backup of what it is about to replace, and no call that was       *)
(* answered leaves one behind.                                             *)
THEOREM JournalsAreSound == NativeSpec => []JournalSound
<1>1. NativeInv => JournalSound
  BY DEF NativeInv, CallOK, JournalOK, BackupOK, JournalSound, JournalBacked
<1> QED
  BY NativeInductive, <1>1, PTL

(* AnswersTrue: "preserved" and "failed" are said of a workspace as it was *)
(* before the call, "committed" of one that has the result, as long as no  *)
(* stray has changed it.                                                   *)
THEOREM HostTellsTruth == NativeSpec => AnswersTrue
<1> DEFINE Truth ==
      /\ answer' \in {"preserved", "failed"} => \A f \in Supervised' : root'[f] = base[f]
      /\ answer' = "committed" => \A f \in Supervised' : Revision'[f] = shadow[f]
<1>1. ASSUME NativeInv, NativeNext, answer' # answer PROVE Truth
  <2>1. CASE crossed'
    BY <2>1 DEF Supervised
  <2> SUFFICES ASSUME ~crossed' PROVE Truth
    BY <2>1
  <2>2. CallOK /\ Supervised' = File \ touched'
    BY <1>1, CrossedBefore DEF NativeInv, Supervised
  <2>3. CASE Collect
    BY <2>3, <1>1 DEF Collect, Recover, Return, NeedsAck
  <2>4. CASE AckEnds
    BY <2>2, <2>4, <1>1
       DEF AckEnds, Recover, Return, CallOK, JournalOK, ResultOK, Untouched, Revision
  <2>5. CASE RecoveryEnds
    BY <2>2, <2>5, <1>1
       DEF RecoveryEnds, Recovered, Return, CallOK, JournalOK, BaseOK, Untouched, Revision
  <2>6. CASE Begin \/ HostDies
    BY <2>6 DEF Begin, HostDies
  <2> QED
    BY <2>3, <2>4, <2>5, <2>6, <1>1
       DEF NativeNext, HostStep, Escalate, Process, Aside, Terminate, Fail, KillTool,
           StrayProcess, StopTool, HostStarts, Save
<1>2. NativeInv /\ [NativeNext]_nativeVars => [answer' # answer => Truth]_nativeVars
  BY <1>1
<1> QED
  BY NativeInductive, <1>2, PTL DEF NativeSpec, AnswersTrue

-----------------------------------------------------------------------------
(* The journal and the abstract workspace, step by step.                   *)

Published == journal = "published" /\ intact /\ ~crossed

(* What the abstract variables stand for.                                  *)
Offered == IF Published THEN Masked(shadow) ELSE None

LEMMA MaskedContents ==
  ASSUME FilesTyped
  PROVE  /\ Masked(Revision) \in [File -> Content \cup {Absent, Lost}]
         /\ Masked(shadow) \in [File -> Content \cup {Absent, Lost}]
         /\ Masked(shadow) # None
BY NativeConstants DEF FilesTyped, Contents, Masked, Revision, Undo

(* A step that changes no approved file and offers nothing new, and one    *)
(* that accepts or withdraws an offer, or makes a new result.              *)
Quiet == UNCHANGED <<Masked(Revision), Masked(shadow), Offered, saves>>

LEMMA QuietStep ==
  ASSUME UNCHANGED <<touched, crossed, shadow, saves>>, Published' = Published,
         \A f \in Untouched : Revision'[f] = Revision[f]
  PROVE  Quiet
BY DEF Quiet, Offered, Masked, Untouched, Supervised

LEMMA QuietWork ==
  ASSUME NativeTyped, CallOK, Process,
         NothingPending \/ ReadJournal \/ RestoreFails \/ Drop \/ Sweep \/ RefuseRequest
           \/ NothingChanged \/ BackUp \/ Prepare \/ Publish \/ WriteResponse
  PROVE  Quiet
<1> USE DEF CallOK
<1>1. UNCHANGED <<touched, crossed, saves>>
  BY DEF Process, Aside
<1>2. shadow' = shadow
  BY DEF NothingPending, ReadJournal, RestoreFails, Drop, Sweep, RefuseRequest, NothingChanged,
         BackUp, Prepare, Publish, WriteResponse
<1>3. CASE Drop
  <2>1. journal # "none" /\ journal' = "none" /\ Restoring /\ at = 0 /\ UNCHANGED <<root, touched>>
    BY <1>3 DEF Process, Drop, Aside, JournalOK, Restoring
  <2>2. \A f \in listed \cap Untouched : root[f] = Undo(f)
    BY <2>1, OrderFacts DEF BackupOK, Untouched
  <2>3. \A f \in Untouched : Revision'[f] = Revision[f]
    BY <2>1, <2>2 DEF Revision, Untouched
  <2>4. ~Published
    BY <2>1, Sizes DEF JournalOK, Published
  <2> QED
    BY <1>1, <1>2, <2>1, <2>3, <2>4, QuietStep DEF Published
<1>4. CASE Sweep
  <2>1. journal = "none" /\ journal' = "none" /\ root' = root
    BY <1>4 DEF Sweep, JournalOK
  <2> QED
    BY <1>1, <1>2, <2>1, QuietStep DEF Published, Revision, Untouched
<1>5. CASE BackUp
  <2>1. journal = "none" /\ journal' = "none" /\ root' = root
    BY <1>5 DEF BackUp, JournalOK
  <2> QED
    BY <1>1, <1>2, <2>1, QuietStep DEF Published, Revision, Untouched
<1>6. CASE Prepare
  <2>1. journal = "none" /\ journal' = "prepared" /\ UNCHANGED <<root, backup, listed, existed>>
    BY <1>6 DEF Prepare, JournalOK
  <2>2. \A f \in Untouched : Revision'[f] = Revision[f]
    BY <1>6, <2>1 DEF Prepare, BackupOK, Revision, Untouched, Undo
  <2> QED
    BY <1>1, <1>2, <2>1, <2>2, QuietStep DEF Published
<1>7. CASE Publish
  <2>1. journal = "prepared" /\ journal' = "prepared" /\ UNCHANGED <<backup, listed, existed>>
    BY <1>7 DEF Publish, JournalOK
  <2>2. \A f \in File \ listed : root'[f] = root[f]
    BY <1>7, OrderFacts DEF Publish, NativeTyped, FilesTyped, ProcessesTyped
  <2>3. \A f \in Untouched : Revision'[f] = Revision[f]
    BY <2>1, <2>2 DEF Revision, Untouched, Undo
  <2> QED
    BY <1>1, <1>2, <2>1, <2>3, QuietStep DEF Published
<1>8. CASE NothingPending \/ ReadJournal \/ RestoreFails \/ RefuseRequest \/ NothingChanged
             \/ WriteResponse
  <2>1. UNCHANGED <<root, journal, backup, listed, existed>>
    BY <1>8
       DEF NothingPending, ReadJournal, Load, JournalOK, RestoreFails, RefuseRequest,
           NothingChanged, WriteResponse
  <2>2. intact' = intact \/ journal # "published"
    <3>1. ~RestoreFails
      BY DEF RestoreFails, Restoring, Pending, JournalOK, BackupOK
    <3>2. ~Restoring
      BY <1>8, <3>1
         DEF NothingPending, ReadJournal, RefuseRequest, NothingChanged, WriteResponse, Restoring
    <3>3. CASE journal = "published"
      BY <3>2, <3>3, Zenon DEF Process, NativeTyped, FlagsTyped
    <3> QED
      BY <3>3
  <2> QED
    BY <1>1, <1>2, <2>1, <2>2, QuietStep DEF Published, Revision, Undo
<1> QED
  BY <1>3, <1>4, <1>5, <1>6, <1>7, <1>8

LEMMA QuietActions ==
  ASSUME Begin \/ Terminate \/ Fail \/ KillTool \/ StopTool \/ HostStep \/ HostDies \/ HostStarts
  PROVE  Quiet
<1>1. UNCHANGED <<root, journal, shadow, backup, listed, existed, crossed, touched, intact, saves>>
  BY DEF Begin, Terminate, Interrupted, Fail, ToolRaises, KillTool, Killed, Aside, ToolFault,
         StopTool, HostStep, Escalate, Collect, AckEnds, RecoveryEnds, HostDies, HostStarts
<1> QED
  BY <1>1, QuietStep DEF Published, Revision, Undo

LEMMA WithdrawStep ==
  ASSUME NativeTyped, CallOK, Process, Restore PROVE Quiet \/ Revisions!Withdraw
<1> USE DEF NativeTyped
<1>1. UNCHANGED <<journal, shadow, backup, listed, existed, touched, crossed, saves>>
  BY DEF Process, Restore, Aside
<1>2. Revision' = Revision
  <2>1. journal # "none"
    BY DEF CallOK, JournalOK, Restore
  <2>2. \A f \in File \ listed : root'[f] = root[f]
    BY OrderFacts DEF Restore, FilesTyped
  <2> QED
    BY <1>1, <2>1, <2>2 DEF Revision, Undo
<1>3. ~Published'
  BY DEF Process, Restore, Published
<1> QED
  BY <1>1, <1>2, <1>3, MaskedContents
     DEF Quiet, Offered, Published, Masked, Supervised, Revisions!Withdraw

LEMMA AcceptStep ==
  ASSUME NativeTyped, CallOK, ~crossed, Process, Acknowledge PROVE Quiet \/ Revisions!Accept
<1> USE DEF NativeTyped, CallOK
<1>1. UNCHANGED <<root, shadow, touched, crossed, saves>>
  BY DEF Process, Acknowledge, Aside
<1>2. Published /\ journal' = "none" /\ \A f \in Untouched : root[f] = shadow[f]
  BY DEF Acknowledge, JournalOK, ResultOK, Published
<1>3. Masked(Revision)' = Masked(shadow) /\ Masked(shadow)' = Masked(shadow)
  BY <1>1, <1>2 DEF Masked, Revision, Untouched, Supervised
<1> QED
  BY <1>1, <1>2, <1>3, MaskedContents DEF Published, Revisions!Accept

LEMMA WorkStep ==
  ASSUME NativeTyped, CallOK, ~crossed, NativeTyped', Process, CopyWorkspace \/ Work
  PROVE  Revisions!Work
<1> USE DEF NativeTyped, CallOK
<1>1. /\ journal = "none" /\ journal' = "none"
      /\ UNCHANGED <<root, touched, crossed, saves>>
  BY DEF Process, CopyWorkspace, Work, JournalOK, Aside
<1>2. Masked(Revision)' = Masked(Revision)
  BY <1>1 DEF Masked, Revision, Supervised
<1>3. Masked(shadow)' \in Revisions!Contents
  BY MaskedContents, <1>1 DEF FilesTyped, Contents, Masked, Revisions!Contents
<1> QED
  BY <1>1, <1>2, <1>3 DEF Published, Revisions!Work

LEMMA OfferStep ==
  ASSUME CallOK, ~crossed, Process, Mark PROVE Revisions!Offer
<1> USE DEF CallOK
<1>1. /\ journal = "prepared" /\ journal' = "published" /\ intact'
      /\ UNCHANGED <<root, shadow, backup, listed, existed, touched, crossed, saves>>
  BY DEF Process, Mark, JournalOK, Aside
<1>2. Masked(Revision)' = Masked(Revision) /\ Masked(shadow)' = Masked(shadow)
  BY <1>1 DEF Masked, Revision, Undo, Supervised
<1> QED
  BY <1>1, <1>2 DEF Published, Revisions!Offer

LEMMA ProcessStep ==
  ASSUME NativeTyped, CallOK, ~crossed, NativeTyped', Process PROVE Quiet \/ Revisions!Next
<1>1. WorkerStep
  BY DEF Process
<1> QED
  BY <1>1, QuietWork, WithdrawStep, AcceptStep, WorkStep, OfferStep DEF WorkerStep, Revisions!Next

LEMMA SaveStep ==
  ASSUME NativeTyped, CallOK, ~crossed, NEW f \in File, Save(f)
  PROVE  Revisions!Save(f) \/ Revisions!Intrude(f)
<1> USE DEF NativeTyped, CallOK
<1>1. PICK c \in Content : root' = [root EXCEPT ![f] = c]
  BY DEF Save
<1>2. Masked(Revision) \in [File -> Content \cup {Absent, Lost}]
      /\ Masked(shadow) \in [File -> Content \cup {Absent, Lost}] /\ Masked(shadow) # None
  BY MaskedContents
<1>3. CASE Undisturbed /\ f \notin touched
  <2>1. Masked(Revision)' = [Masked(Revision) EXCEPT ![f] = c]
    BY <1>1, <1>3 DEF Save, Undisturbed, FilesTyped, Masked, Revision, Supervised
  <2> QED
    BY <2>1, <1>3 DEF Save, Undisturbed, Masked, Supervised, Published, Revisions!Save
<1>4. CASE ~(Undisturbed /\ f \notin touched)
  <2>1. /\ touched' = touched \cup {f} /\ saves' = saves + 1
        /\ UNCHANGED <<shadow, backup, journal, listed, existed, intact, crossed>>
    BY <1>4 DEF Save
  <2>2. Masked(Revision)' = [Masked(Revision) EXCEPT ![f] = Lost]
    BY <1>1, <2>1 DEF FilesTyped, Masked, Revision, Undo, Supervised
  <2>3. Masked(shadow)' = [Masked(shadow) EXCEPT ![f] = Lost]
    BY <2>1 DEF FilesTyped, Masked, Supervised
  <2> QED
    BY <2>1, <2>2, <2>3, <1>2 DEF Published, Revisions!Intrude
<1> QED
  BY <1>3, <1>4

(* Once a stray has changed the workspace, no file is in anybody's hands.  *)
LEMMA CrossedLost ==
  ASSUME crossed PROVE Masked(Revision) = Revisions!AllLost /\ Masked(shadow) = Revisions!AllLost /\ Offered = None
BY DEF Masked, Supervised, Offered, Published, Revisions!AllLost

LEMMA CrossedStep ==
  ASSUME crossed, crossed', [NativeNext]_nativeVars PROVE Quiet \/ Revisions!Next
<1>1. /\ Masked(Revision) = Revisions!AllLost /\ Masked(shadow) = Revisions!AllLost
      /\ Offered = None
  BY CrossedLost
<1>2. /\ Masked(Revision)' = Revisions!AllLost /\ Masked(shadow)' = Revisions!AllLost
      /\ Offered' = None
  BY DEF Masked, Supervised, Offered, Published, Revisions!AllLost
<1>3. CASE saves' = saves
  BY <1>1, <1>2, <1>3 DEF Quiet
<1>4. ASSUME NEW f \in File, Save(f) PROVE Revisions!Intrude(f)
  <2>1. saves' = saves + 1
    BY <1>4 DEF Save
  <2>2. Revisions!AllLost = [Revisions!AllLost EXCEPT ![f] = Lost]
    BY DEF Revisions!AllLost
  <2> QED
    BY <1>1, <1>2, <2>1, <2>2 DEF Offered, Published, Revisions!Intrude
<1> QED
  BY <1>3, <1>4
     DEF NativeNext, nativeVars, Begin, Process, Aside, Terminate, Fail, KillTool, StrayProcess,
         ToolFault, StopTool, HostStep, Escalate, Collect, AckEnds, RecoveryEnds, HostDies,
         HostStarts, Revisions!Next

LEMMA CrossingStep ==
  ASSUME ~crossed, crossed', [NativeNext]_nativeVars PROVE Revisions!Overrun
<1>1. StrayProcess
  BY CrossedStays DEF nativeVars
<1>2. /\ Masked(Revision)' = Revisions!AllLost /\ Masked(shadow)' = Revisions!AllLost
      /\ saves' = saves
  BY <1>1 DEF Masked, Supervised, StrayProcess, Revisions!AllLost
<1> QED
  BY <1>2 DEF Revisions!Overrun

LEMMA StrayStep ==
  ASSUME NativeTyped, ~crossed, ~crossed', StrayProcess PROVE Quiet
<1>1. UNCHANGED <<root, journal, backup, shadow, crossed, touched, intact, saves>>
  BY Zenon DEF StrayProcess, NativeTyped, FlagsTyped
<1>2. UNCHANGED <<listed, existed>>
  <2>1. CASE Stray!WorkerStep
    BY <2>1
       DEF Stray!WorkerStep, Stray!NothingPending, Stray!ReadJournal, Stray!Restore,
           Stray!RestoreFails, Stray!Drop, Stray!Sweep, Stray!Acknowledge, Stray!CopyWorkspace,
           Stray!Work, Stray!RefuseRequest, Stray!NothingChanged, Stray!BackUp, Stray!Prepare,
           Stray!Publish, Stray!Mark, Stray!WriteResponse
  <2>2. CASE Stray!ToolRaises
    BY <2>2 DEF Stray!ToolRaises
  <2> QED
    BY <2>1, <2>2 DEF StrayProcess
<1> QED
  BY <1>1, <1>2, QuietStep DEF Published, Revision, Undo

(* RevisionSpec: the workspace with its journal implements the abstract    *)
(* one, whose revision changes only by accepting a whole result, until a   *)
(* stray overruns it.                                                      *)
THEOREM WorkspaceRefines == NativeSpec => RevisionSpec
<1>1. NativeInit => Revisions!Init
  <2> SUFFICES ASSUME NativeInit PROVE Revisions!Init
    OBVIOUS
  <2>1. FilesTyped
    BY NativeStarts DEF NativeInv, NativeTyped
  <2> QED
    BY <2>1, MaskedContents DEF NativeInit, Revisions!Init, Revisions!Contents
<1>2. ASSUME NativeInv, NativeInv', [NativeNext]_nativeVars PROVE Quiet \/ Revisions!Next
  <2>1. NativeTyped /\ NativeTyped' /\ (crossed \/ CallOK)
    BY <1>2 DEF NativeInv
  <2>2. CASE crossed
    BY <1>2, <2>2, CrossedBefore, CrossedStep
  <2>3. CASE ~crossed /\ crossed'
    BY <1>2, <2>3, CrossingStep DEF Revisions!Next
  <2>4. CASE ~crossed /\ ~crossed'
    <3>1. CASE Process
      BY <2>1, <2>4, <3>1, ProcessStep
    <3>2. ASSUME NEW f \in File, Save(f) PROVE Revisions!Next
      BY <2>1, <2>4, <3>2, SaveStep DEF Revisions!Next
    <3>3. CASE StrayProcess
      BY <2>1, <2>4, <3>3, StrayStep
    <3>4. CASE UNCHANGED nativeVars
      BY <3>4 DEF Quiet, Offered, Published, Masked, Supervised, Revision, Undo, nativeVars
    <3> QED
      BY <1>2, <3>1, <3>2, <3>3, <3>4, QuietActions DEF NativeNext
  <2> QED
    BY <2>2, <2>3, <2>4
<1>3. NativeInv /\ NativeInv' /\ [NativeNext]_nativeVars
        => [Revisions!Next]_<<Masked(Revision), Masked(shadow),
                             IF journal = "published" /\ intact /\ ~crossed THEN Masked(shadow)
                             ELSE None, saves>>
  BY <1>2 DEF Quiet, Offered, Published
<1> QED
  BY NativeInductive, <1>1, <1>3, PTL DEF NativeSpec, RevisionSpec, Revisions!Spec

HIDE DEF files, journals, transaction, otherTransaction, running, stray, others, hosted, history,
         toolBounds
HIDE DEF Stray!journals, Stray!transaction, Stray!otherTransaction, Stray!running

-----------------------------------------------------------------------------
(* The board editor.  Undoing or redoing everything leads back or forth    *)
(* only if each entry of a stack is applied to what it was pushed or put   *)
(* back on: the invariant holds, for each stack, the boards it leads       *)
(* through.  During a drag they start where the parts stood when it began, *)
(* as that is where an entry of the drop will start from.                  *)

(* What the closures of the undo stack read and write of a board.          *)
Sights(n) == [copper : SUBSET Nat, parts : SUBSET (1..n), pose : [Footprint -> Pose]]
Sight(b) == [copper |-> b.copper, parts |-> b.parts, pose |-> b.pose]
Dragged(b, from) == [copper |-> b.copper, parts |-> b.parts, pose |-> Put(from, b.pose)]

After(v, e) ==
  [copper |-> (v.copper \ e.out) \cup e.in, parts |-> (v.parts \ e.gone) \cup e.new,
   pose |-> Put(e.to, v.pose)]

(* Applying the entry leads from va to vb, and undoing it back.            *)
Exchange(va, e, vb) == vb = After(va, e) /\ va = After(vb, Backwards(e))

(* The entries of w, applied from the top down, lead from v to what is     *)
(* shown as o, each to what the next one expects.                          *)
Path(w, s, v, o, n) ==
  /\ s \in [0..Len(w) -> Sights(n)]
  /\ s[Len(w)] = v /\ Shown(s[0]) = o
  /\ \A k \in 1..Len(w) : Exchange(s[k], w[k], s[k - 1])
Leads(w, v, o, n) == \E s : Path(w, s, v, o, n)

LEMMA EntryGrows ==
  ASSUME NEW m1 \in Nat, NEW m2 \in Nat, NEW n1 \in Nat, NEW n2 \in Nat, m1 <= m2, n1 <= n2
  PROVE  /\ Placements(n1) \subseteq Placements(n2)
         /\ Entry(m1, n1) \subseteq Entry(m2, n2)
         /\ Seq(Entry(m1, n1)) \subseteq Seq(Entry(m2, n2))
<1>1. 1..m1 \subseteq 1..m2 /\ 1..n1 \subseteq 1..n2
  OBVIOUS
<1>2. SUBSET (1..n1) \subseteq SUBSET (1..n2)
  BY <1>1
<1>3. Placements(n1) \subseteq Placements(n2)
  BY <1>2 DEF Placements
<1>4. Entry(m1, n1) \subseteq Entry(m2, n2)
  BY <1>1, <1>3 DEF Entry
<1> HIDE DEF Entry
<1>5. Seq(Entry(m1, n1)) \subseteq Seq(Entry(m2, n2))
  BY <1>4
<1> QED
  BY <1>3, <1>4, <1>5

LEMMA SightsGrow ==
  ASSUME NEW n1 \in Nat, NEW n2 \in Nat, n1 <= n2 PROVE Sights(n1) \subseteq Sights(n2)
<1>1. 1..n1 \subseteq 1..n2
  OBVIOUS
<1> QED
  BY <1>1 DEF Sights

LEMMA EntryFields ==
  ASSUME NEW m, NEW n, NEW e \in Entry(m, n)
  PROVE  /\ e.out \subseteq 1..m /\ e.in \subseteq 1..m
         /\ e.gone \subseteq 1..n /\ e.new \subseteq 1..n
         /\ e.from \in Placements(n) /\ e.to \in Placements(n)
         /\ e = [out |-> e.out, in |-> e.in, gone |-> e.gone, new |-> e.new,
                 from |-> e.from, to |-> e.to]
BY DEF Entry

LEMMA BackwardsTwice ==
  ASSUME NEW m, NEW n, NEW e \in Entry(m, n)
  PROVE  Backwards(e) \in Entry(m, n) /\ Backwards(Backwards(e)) = e
<1>1. Backwards(e) = [out |-> e.in, in |-> e.out, gone |-> e.new, new |-> e.gone,
                      from |-> e.to, to |-> e.from]
  BY DEF Backwards
<1>2. Backwards(e) \in Entry(m, n)
  BY <1>1, EntryFields DEF Entry
<1>3. Backwards(Backwards(e)) = e
  BY <1>1, EntryFields DEF Backwards
<1> QED
  BY <1>2, <1>3

LEMMA PlacementsTyped ==
  ASSUME NEW n, NEW p \in Placements(n)
  PROVE  DOMAIN p \subseteq 1..n /\ \A f \in DOMAIN p : p[f] \in Pose
BY DEF Placements

LEMMA PutTyped ==
  ASSUME NEW n \in 0..Footprints, NEW p \in Placements(n), NEW pose \in [Footprint -> Pose]
  PROVE  Put(p, pose) \in [Footprint -> Pose]
BY PlacementsTyped DEF Put

LEMMA ExchangeBack ==
  ASSUME NEW m, NEW n, NEW e \in Entry(m, n), NEW va, NEW vb, Exchange(va, e, vb)
  PROVE  Exchange(vb, Backwards(e), va)
BY BackwardsTwice DEF Exchange

-----------------------------------------------------------------------------
(* Stacks.                                                                 *)
LEMMA TurnedTyped ==
  ASSUME NEW m, NEW n, NEW w \in Seq(Entry(m, n))
  PROVE  /\ Turned(w) \in Seq(Entry(m, n)) /\ Len(Turned(w)) = Len(w)
         /\ \A k \in 1..Len(w) : Turned(w)[k] = Backwards(w[k]) /\ w[k] \in Entry(m, n)
<1> DEFINE T == Entry(m, n)
<1> HIDE DEF T
<1>1. w \in Seq(T) /\ Len(w) \in Nat /\ DOMAIN w = 1..Len(w) /\ \A k \in 1..Len(w) : w[k] \in T
  BY DEF T
<1>2. \A k \in 1..Len(w) : Backwards(w[k]) \in T
  BY <1>1, BackwardsTwice DEF T
<1>3. Turned(w) = [k \in 1..Len(w) |-> Backwards(w[k])]
  BY <1>1 DEF Turned
<1>4. Turned(w) \in Seq(T) /\ Len(Turned(w)) = Len(w)
  BY <1>1, <1>2, <1>3
<1> QED
  BY <1>1, <1>3, <1>4 DEF T

LEMMA TurnedPush ==
  ASSUME NEW m, NEW n, NEW w \in Seq(Entry(m, n)), NEW e \in Entry(m, n)
  PROVE  Turned(Append(w, e)) = Append(Turned(w), Backwards(e))
<1> DEFINE T == Entry(m, n)
<1>1. Backwards(e) \in T /\ Turned(w) \in Seq(T) /\ Len(Turned(w)) = Len(w)
  BY BackwardsTwice, TurnedTyped
<1>2. \A k \in 1..Len(w) : Turned(w)[k] = Backwards(w[k])
  BY TurnedTyped
<1> HIDE DEF T
<1>3. w \in Seq(T) /\ e \in T
  BY DEF T
<1>4. DOMAIN Append(w, e) = 1..(Len(w) + 1) /\ Len(w) \in Nat
      /\ \A k \in 1..Len(w) : Append(w, e)[k] = w[k]
      /\ Append(w, e)[Len(w) + 1] = e
  BY <1>3
<1> DEFINE x == Turned(Append(w, e))
           y == Append(Turned(w), Backwards(e))
<1>5. x = [k \in 1..(Len(w) + 1) |-> Backwards(Append(w, e)[k])]
  BY <1>4 DEF Turned
<1>6. y \in Seq(T) /\ Len(y) = Len(w) + 1 /\ y[Len(w) + 1] = Backwards(e)
      /\ \A k \in 1..Len(w) : y[k] = Turned(w)[k]
  BY <1>1, <1>4
<1>6a. y = [k \in 1..(Len(w) + 1) |-> y[k]]
  <2> HIDE DEF y
  <2> QED
    BY <1>6
<1>7. \A k \in 1..(Len(w) + 1) : k \in 1..Len(w) \/ k = Len(w) + 1
  BY <1>4
<1>8. \A k \in 1..(Len(w) + 1) : x[k] = y[k]
  BY <1>2, <1>4, <1>5, <1>6, <1>7
<1> HIDE DEF y
<1>9. x = y
  BY <1>5, <1>6a, <1>8
<1> QED
  BY <1>9 DEF y

LEMMA FrontLast ==
  ASSUME NEW T, NEW w \in Seq(T), w # <<>>
  PROVE  Front(w) \in Seq(T) /\ Last(w) \in T /\ w = Append(Front(w), Last(w))
<1>1. Len(w) \in Nat \ {0} /\ DOMAIN w = 1..Len(w) /\ w[Len(w)] \in T
  <2>1. Len(w) \in Nat /\ Len(w) # 0
    BY EmptySeq
  <2> QED
    BY <2>1
<1>2. Front(w) = SubSeq(w, 1, Len(w) - 1) /\ Last(w) = w[Len(w)]
  BY DEF Front, Last
<1>3. Front(w) \in Seq(T) /\ Len(Front(w)) = Len(w) - 1
      /\ \A k \in 1..(Len(w) - 1) : Front(w)[k] = w[k]
  BY <1>1, <1>2
<1> DEFINE F == Front(w)
           l == Last(w)
           y == Append(F, l)
<1>4. F \in Seq(T) /\ l \in T /\ Len(F) = Len(w) - 1 /\ l = w[Len(w)]
      /\ \A k \in 1..Len(F) : F[k] = w[k]
  BY <1>1, <1>2, <1>3
<1> HIDE DEF F, l
<1>5. y \in Seq(T) /\ Len(y) = Len(F) + 1 /\ y[Len(F) + 1] = l /\ \A k \in 1..Len(F) : y[k] = F[k]
  BY <1>4
<1> HIDE DEF y
<1>6. Len(y) = Len(w) /\ Len(F) + 1 = Len(w)
  BY <1>1, <1>4, <1>5
<1>7. \A k \in 1..Len(w) : w[k] = y[k]
  <2> TAKE k \in 1..Len(w)
  <2>1. k \in 1..Len(F) \/ k = Len(F) + 1
    BY <1>1, <1>6
  <2>2. CASE k \in 1..Len(F)
    BY <1>4, <1>5, <2>2
  <2>3. CASE k = Len(F) + 1
    <3>1. w[k] = l
      BY <1>4, <1>6, <2>3
    <3>2. y[k] = l
      BY <1>5, <2>3
    <3> QED
      BY <3>1, <3>2
  <2> QED
    BY <2>1, <2>2, <2>3
<1>8. w = y
  BY <1>5, <1>6, <1>7, SeqEqual
<1> QED
  BY <1>4, <1>8 DEF y, F, l

LEMMA PathGrows ==
  ASSUME NEW w, NEW v, NEW o, NEW n1 \in Nat, NEW n2 \in Nat, n1 <= n2, Leads(w, v, o, n1)
  PROVE  Leads(w, v, o, n2)
<1>1. PICK s : Path(w, s, v, o, n1)
  BY DEF Leads
<1>2. Path(w, s, v, o, n2)
  BY <1>1, SightsGrow DEF Path
<1> QED
  BY <1>2 DEF Leads

(* One entry more, on a path that then begins at vb.                       *)
LEMMA LeadsPush ==
  ASSUME NEW T, NEW w \in Seq(T), NEW e \in T, NEW va, NEW o, NEW n, Leads(w, va, o, n),
         NEW vb \in Sights(n), Exchange(vb, e, va)
  PROVE  Leads(Append(w, e), vb, o, n)
<1>1. PICK s : Path(w, s, va, o, n)
  BY DEF Leads
<1> DEFINE x == Append(w, e)
           t == [k \in 0..Len(x) |-> IF k \in 0..Len(w) THEN s[k] ELSE vb]
<1>2. /\ Len(w) \in Nat /\ Len(x) = Len(w) + 1
      /\ x[Len(w) + 1] = e /\ \A k \in 1..Len(w) : x[k] = w[k]
  OBVIOUS
<1> HIDE DEF x
<1>3. \A k \in 0..Len(w) : t[k] = s[k] /\ k \in 0..Len(x)
  BY <1>2
<1>4. t[Len(x)] = vb /\ Len(x) - 1 = Len(w) /\ Len(x) \in 0..Len(x) /\ Len(x) = Len(w) + 1
  BY <1>2
<1>5. t \in [0..Len(x) -> Sights(n)]
  BY <1>1, <1>3 DEF Path
<1>6. \A k \in 1..Len(x) : Exchange(t[k], x[k], t[k - 1])
  <2> TAKE k \in 1..Len(x)
  <2>1. CASE k = Len(x)
    <3>1. t[k - 1] = s[Len(w)] /\ s[Len(w)] = va
      BY <1>1, <1>2, <1>3, <1>4, <2>1 DEF Path
    <3> HIDE DEF t
    <3> QED
      BY <1>2, <1>4, <2>1, <3>1
  <2>2. CASE k # Len(x)
    <3>1. k \in 1..Len(w) /\ k \in 0..Len(w) /\ k - 1 \in 0..Len(w)
      BY <1>2, <2>2
    <3>2. t[k] = s[k] /\ t[k - 1] = s[k - 1] /\ x[k] = w[k]
      BY <1>2, <1>3, <3>1
    <3> HIDE DEF t
    <3> QED
      BY <1>1, <3>1, <3>2 DEF Path
  <2> QED
    BY <2>1, <2>2
<1>7. Shown(t[0]) = o
  <2>1. t[0] = s[0]
    BY <1>2, <1>3
  <2> HIDE DEF t
  <2> QED
    BY <1>1, <2>1 DEF Path
<1> HIDE DEF t
<1>8. Path(x, t, vb, o, n)
  BY <1>4, <1>5, <1>6, <1>7 DEF Path
<1> QED
  BY <1>8 DEF Leads, x

(* One entry less.                                                         *)
LEMMA LeadsPop ==
  ASSUME NEW T, NEW w \in Seq(T), NEW e \in T, NEW v, NEW o, NEW n, Leads(Append(w, e), v, o, n)
  PROVE  /\ Exchange(v, e, After(v, e)) /\ After(v, e) \in Sights(n)
         /\ Leads(w, After(v, e), o, n)
<1> DEFINE x == Append(w, e)
<1>1. PICK s : Path(x, s, v, o, n)
  BY DEF Leads
<1>2. /\ Len(w) \in Nat /\ Len(x) = Len(w) + 1
      /\ x[Len(w) + 1] = e /\ \A k \in 1..Len(w) : x[k] = w[k]
  OBVIOUS
<1> HIDE DEF x
<1>3. Len(x) - 1 = Len(w) /\ Len(x) \in 1..Len(x) /\ Len(w) \in 0..Len(x) /\ x[Len(x)] = e
  BY <1>2
<1>4. Exchange(v, e, s[Len(w)]) /\ s[Len(w)] \in Sights(n)
  <2>1. s[Len(x)] = v /\ Exchange(s[Len(x)], x[Len(x)], s[Len(x) - 1])
    BY <1>1, <1>3 DEF Path
  <2>2. s \in [0..Len(x) -> Sights(n)]
    BY <1>1 DEF Path
  <2> QED
    BY <1>3, <2>1, <2>2
<1>5. s[Len(w)] = After(v, e)
  BY <1>4 DEF Exchange
<1> DEFINE t == [k \in 0..Len(w) |-> s[k]]
<1>6. \A k \in 0..Len(w) : t[k] = s[k] /\ k \in 0..Len(x)
  BY <1>2
<1>7. t \in [0..Len(w) -> Sights(n)]
  BY <1>1, <1>6 DEF Path
<1>8. 0 \in 0..Len(w) /\ Len(w) \in 0..Len(w)
  BY <1>2
<1>9. t[Len(w)] = After(v, e) /\ Shown(t[0]) = o
  <2>1. t[Len(w)] = s[Len(w)] /\ t[0] = s[0]
    BY <1>6, <1>8
  <2> HIDE DEF t
  <2> QED
    BY <1>1, <1>5, <2>1 DEF Path
<1>10. \A k \in 1..Len(w) : Exchange(t[k], w[k], t[k - 1])
  <2> TAKE k \in 1..Len(w)
  <2>1. k \in 0..Len(w) /\ k - 1 \in 0..Len(w) /\ k \in 1..Len(x)
    BY <1>2
  <2>2. t[k] = s[k] /\ t[k - 1] = s[k - 1] /\ x[k] = w[k]
    BY <1>2, <1>6, <2>1
  <2> HIDE DEF t
  <2> QED
    BY <1>1, <2>1, <2>2 DEF Path
<1> HIDE DEF t
<1>11. Path(w, t, After(v, e), o, n)
  BY <1>7, <1>9, <1>10 DEF Path
<1> QED
  BY <1>4, <1>5, <1>11 DEF Leads

LEMMA LeadsNothing ==
  ASSUME NEW n, NEW v \in Sights(n)
  PROVE  Leads(<<>>, v, Shown(v), n)
<1> DEFINE s == [k \in 0..0 |-> v]
<1>1. s \in [0..0 -> Sights(n)] /\ s[0] = v /\ Len(<<>>) = 0
  OBVIOUS
<1> HIDE DEF s
<1>2. Path(<<>>, s, v, Shown(v), n)
  BY <1>1 DEF Path
<1> QED
  BY <1>2 DEF Leads

(* A part that was not born is in no entry: wherever it lies does not      *)
(* matter to the path.                                                     *)
Reposed(v, f, p) ==
  [copper |-> v.copper, parts |-> v.parts, pose |-> [v.pose EXCEPT ![f] = p]]

LEMMA LeadsReposed ==
  ASSUME NEW m, NEW n \in Nat, NEW f \in Footprint, f = n + 1, NEW p \in Pose,
         NEW w \in Seq(Entry(m, n)), NEW v, NEW o, Leads(w, v, o, n)
  PROVE  Leads(w, Reposed(v, f, p), o, n + 1)
<1>1. PICK s : Path(w, s, v, o, n)
  BY DEF Leads
<1> DEFINE t == [k \in 0..Len(w) |-> Reposed(s[k], f, p)]
<1>2. Len(w) \in Nat /\ \A k \in 1..Len(w) : w[k] \in Entry(m, n)
  <2> DEFINE T == Entry(m, n)
  <2>1. w \in Seq(T)
    OBVIOUS
  <2> HIDE DEF T
  <2>2. Len(w) \in Nat /\ \A k \in 1..Len(w) : w[k] \in T
    BY <2>1
  <2> QED
    BY <2>2 DEF T
<1>3. \A k \in 0..Len(w) : s[k] \in Sights(n) /\ t[k] = Reposed(s[k], f, p)
  BY <1>1 DEF Path
<1> HIDE DEF t
<1>4. ASSUME NEW u \in Sights(n)
      PROVE  Reposed(u, f, p) \in Sights(n + 1) /\ Shown(Reposed(u, f, p)) = Shown(u)
  <2>2. [u.pose EXCEPT ![f] = p] \in [Footprint -> Pose] /\ u.parts \subseteq 1..(n + 1)
        /\ u.copper \subseteq Nat
    BY <1>4 DEF Sights
  <2>3. /\ f \notin u.parts
        /\ \A g \in u.parts : g \in Footprint => [u.pose EXCEPT ![f] = p][g] = u.pose[g]
    BY <1>4 DEF Sights
  <2>4. u.parts \subseteq Footprint
    BY <1>4, EditorConstants DEF Sights, Footprint
  <2>5. [g \in u.parts |-> [u.pose EXCEPT ![f] = p][g]] = [g \in u.parts |-> u.pose[g]]
    BY <2>3, <2>4
  <2>6. Shown(Reposed(u, f, p)) = Shown(u)
    BY <2>5 DEF Shown, Reposed
  <2> QED
    BY <2>2, <2>6 DEF Sights, Reposed
<1>5. ASSUME NEW u1 \in Sights(n), NEW u2 \in Sights(n), NEW e \in Entry(m, n), Exchange(u1, e, u2)
      PROVE  Exchange(Reposed(u1, f, p), e, Reposed(u2, f, p))
  <2>1. ASSUME NEW u \in Sights(n), NEW x \in Placements(n)
        PROVE  Put(x, [u.pose EXCEPT ![f] = p]) = [Put(x, u.pose) EXCEPT ![f] = p]
    <3>1. f \notin DOMAIN x /\ u.pose \in [Footprint -> Pose]
      BY PlacementsTyped DEF Sights
    <3> QED
      BY <3>1 DEF Put
  <2>2. ASSUME NEW u \in Sights(n), NEW x \in Entry(m, n)
        PROVE  After(Reposed(u, f, p), x) = Reposed(After(u, x), f, p)
    <3>1. x.to \in Placements(n)
      BY EntryFields
    <3>2. Put(x.to, [u.pose EXCEPT ![f] = p]) = [Put(x.to, u.pose) EXCEPT ![f] = p]
      BY <2>1, <3>1
    <3> QED
      BY <3>2 DEF After, Reposed
  <2>3. Backwards(e) \in Entry(m, n)
    BY BackwardsTwice
  <2> QED
    BY <1>5, <2>2, <2>3 DEF Exchange
<1>6. t \in [0..Len(w) -> Sights(n + 1)]
  <2>1. \A k \in 0..Len(w) : t[k] \in Sights(n + 1)
    BY <1>3, <1>4
  <2> QED
    BY <2>1 DEF t
<1>7. t[Len(w)] = Reposed(v, f, p) /\ Shown(t[0]) = o
  <2>1. 0 \in 0..Len(w) /\ Len(w) \in 0..Len(w)
    BY <1>2
  <2> QED
    BY <1>1, <1>3, <1>4, <2>1 DEF Path
<1>8. \A k \in 1..Len(w) : Exchange(t[k], w[k], t[k - 1])
  <2> TAKE k \in 1..Len(w)
  <2>1. k \in 0..Len(w) /\ k - 1 \in 0..Len(w) /\ w[k] \in Entry(m, n)
    BY <1>2
  <2>2. Exchange(s[k], w[k], s[k - 1])
    BY <1>1 DEF Path
  <2> QED
    BY <1>3, <1>5, <2>1, <2>2
<1>9. Path(w, t, Reposed(v, f, p), o, n + 1)
  BY <1>6, <1>7, <1>8 DEF Path
<1> QED
  BY <1>9 DEF Leads

(* The document, and the path of each of its stacks from what is seen.     *)
EntryOf(d) == Entry(Len(d.board.made), d.board.born)
Tight(d, v, o, t) ==
  /\ Leads(Turned(d.undo), v, o, d.board.born)
  /\ d.redo # <<>> => Leads(d.redo, v, t, d.board.born)

(* The prover rebuilds an updated record from all of its fields.           *)
LEMMA BoardFields ==
  ASSUME NEW b, BoardOK(b)
  PROVE  /\ b = [copper |-> b.copper, made |-> b.made, parts |-> b.parts, born |-> b.born,
                 pose |-> b.pose, pads |-> b.pads, nets |-> b.nets]
         /\ b.copper \subseteq 1..Len(b.made) /\ Len(b.made) \in Nat
         /\ b.made \in Seq([net : BoardNet, pour : BOOLEAN])
         /\ b.parts \subseteq 1..b.born /\ b.parts \subseteq Footprint
         /\ b.born \in 0..Footprints /\ b.born \in Nat
         /\ 1..b.born \subseteq Footprint
         /\ b.pose \in [Footprint -> Pose] /\ b.pads \in [Footprint -> SUBSET BoardNet]
         /\ b.nets \subseteq BoardNet
<1>1. b \in Boards /\ b.copper \subseteq DOMAIN b.made /\ b.parts \subseteq 1..b.born
  BY DEF BoardOK
<1>2. b.made \in Seq([net : BoardNet, pour : BOOLEAN])
  BY <1>1 DEF Boards
<1>3. DOMAIN b.made = 1..Len(b.made) /\ Len(b.made) \in Nat
  BY <1>2
<1>4. b.born \in 0..Footprints /\ Footprints \in Nat
  BY <1>1, EditorConstants DEF Boards
<1>5. 1..b.born \subseteq Footprint /\ b.born \in Nat
  BY <1>4 DEF Footprint
<1> QED
  BY <1>1, <1>2, <1>3, <1>4, <1>5 DEF Boards

LEMMA BoardMade ==
  ASSUME NEW c, NEW m \in Seq([net : BoardNet, pour : BOOLEAN]), NEW p, NEW n \in 0..Footprints,
         NEW pose \in [Footprint -> Pose], NEW pads \in [Footprint -> SUBSET BoardNet],
         NEW nets \in SUBSET BoardNet, c \subseteq 1..Len(m), p \subseteq 1..n
  PROVE  BoardOK([copper |-> c, made |-> m, parts |-> p, born |-> n, pose |-> pose,
                  pads |-> pads, nets |-> nets])
<1>1. Len(m) \in Nat /\ DOMAIN m = 1..Len(m)
  OBVIOUS
<1>2. c \subseteq Nat
  BY <1>1
<1>3. p \subseteq Footprint
  BY EditorConstants DEF Footprint
<1> QED
  BY <1>1, <1>2, <1>3 DEF BoardOK, Boards

LEMMA DocFields ==
  ASSUME NEW d, DocOK(d)
  PROVE  /\ d = [board |-> d.board, undo |-> d.undo, redo |-> d.redo, dirty |-> d.dirty,
                 engine |-> d.engine]
         /\ BoardOK(d.board) /\ d.dirty \in BOOLEAN
         /\ d.undo \in Seq(EntryOf(d)) /\ d.redo \in Seq(EntryOf(d))
<1> DEFINE Stack == Seq(EntryOf(d))
<1>1. /\ BoardOK(d.board)
      /\ d \in [board : {d.board}, undo : Stack, redo : Stack, dirty : BOOLEAN,
                engine : {d.engine}]
  BY DEF DocOK, EntryOf
<1> HIDE DEF Stack
<1>2. /\ d = [board |-> d.board, undo |-> d.undo, redo |-> d.redo, dirty |-> d.dirty,
              engine |-> d.engine]
      /\ d.dirty \in BOOLEAN /\ d.undo \in Stack /\ d.redo \in Stack
  BY <1>1
<1> QED
  BY <1>1, <1>2 DEF Stack

LEMMA DocMade ==
  ASSUME NEW b, BoardOK(b), NEW u \in Seq(Entry(Len(b.made), b.born)),
         NEW r \in Seq(Entry(Len(b.made), b.born)), NEW y \in BOOLEAN, NEW g
  PROVE  DocOK([board |-> b, undo |-> u, redo |-> r, dirty |-> y, engine |-> g])
<1> DEFINE Stack == Seq(Entry(Len(b.made), b.born))
           d == [board |-> b, undo |-> u, redo |-> r, dirty |-> y, engine |-> g]
<1>1. d.board = b
  OBVIOUS
<1>2. u \in Stack /\ r \in Stack
  OBVIOUS
<1> HIDE DEF Stack
<1>3. d \in [board : {b}, undo : Stack, redo : Stack, dirty : BOOLEAN, engine : {d.engine}]
  BY <1>2
<1> HIDE DEF d
<1>4. DocOK(d)
  BY <1>1, <1>3 DEF DocOK, Stack
<1> QED
  BY <1>4 DEF d

LEMMA SightTyped ==
  ASSUME NEW b, BoardOK(b)
  PROVE  Sight(b) \in Sights(b.born) /\ Shown(Sight(b)) = Shown(b)
<1>1. b.copper \subseteq Nat
  BY BoardFields
<1> QED
  BY <1>1, BoardFields DEF Sight, Sights, Shown

LEMMA AfterTyped ==
  ASSUME NEW m \in Nat, NEW n \in 0..Footprints, NEW v \in Sights(n), NEW e \in Entry(m, n)
  PROVE  After(v, e) \in Sights(n)
<1>1. v.copper \subseteq Nat /\ v.parts \subseteq 1..n /\ v.pose \in [Footprint -> Pose]
  BY DEF Sights
<1>2. Put(e.to, v.pose) \in [Footprint -> Pose]
  BY <1>1, EntryFields, PutTyped
<1>3. e.in \subseteq Nat /\ e.new \subseteq 1..n
  BY EntryFields
<1> QED
  BY <1>1, <1>2, <1>3 DEF After, Sights

-----------------------------------------------------------------------------
(* What an entry does.                                                     *)
LEMMA ApplyIs ==
  ASSUME NEW d, DocOK(d), NEW e
  PROVE  Apply(d, e) =
           [board |-> [copper |-> (d.board.copper \ e.out) \cup e.in, made |-> d.board.made,
                       parts |-> (d.board.parts \ e.gone) \cup e.new, born |-> d.board.born,
                       pose |-> Put(e.to, d.board.pose), pads |-> d.board.pads,
                       nets |-> d.board.nets],
            undo |-> d.undo, redo |-> d.redo, dirty |-> TRUE, engine |-> Stale]
<1> DEFINE b == d.board
           x == Apply(d, e)
           B == [copper : {(b.copper \ e.out) \cup e.in}, made : {b.made},
                 parts : {(b.parts \ e.gone) \cup e.new}, born : {b.born},
                 pose : {Put(e.to, b.pose)}, pads : {b.pads}, nets : {b.nets}]
<1>1. d \in [board : {d.board}, undo : {d.undo}, redo : {d.redo}, dirty : {d.dirty},
             engine : {d.engine}]
  BY DocFields
<1>2. b \in [copper : {b.copper}, made : {b.made}, parts : {b.parts}, born : {b.born},
             pose : {b.pose}, pads : {b.pads}, nets : {b.nets}]
  BY DocFields, BoardFields
<1>3. x \in [board : B, undo : {d.undo}, redo : {d.redo}, dirty : {TRUE}, engine : {Stale}]
  BY <1>1, <1>2 DEF Apply, Notified
<1> HIDE DEF x
<1>4. x.board \in B /\ x = [board |-> x.board, undo |-> d.undo, redo |-> d.redo,
                            dirty |-> TRUE, engine |-> Stale]
  BY <1>3
<1>5. x.board = [copper |-> (b.copper \ e.out) \cup e.in, made |-> b.made,
                 parts |-> (b.parts \ e.gone) \cup e.new, born |-> b.born,
                 pose |-> Put(e.to, b.pose), pads |-> b.pads, nets |-> b.nets]
  <2> DEFINE z == x.board
  <2>1. z \in B
    BY <1>4
  <2> HIDE DEF z
  <2> QED
    BY <2>1 DEF z
<1> QED
  BY <1>4, <1>5 DEF x

LEMMA ApplyOK ==
  ASSUME NEW d, DocOK(d), NEW e \in EntryOf(d)
  PROVE  /\ DocOK(Apply(d, e)) /\ EntryOf(Apply(d, e)) = EntryOf(d)
         /\ Sight(Apply(d, e).board) = After(Sight(d.board), e)
         /\ Apply(d, e).board.born = d.board.born
         /\ Apply(d, e).undo = d.undo /\ Apply(d, e).redo = d.redo
         /\ Apply(d, e).dirty = TRUE /\ Apply(d, e).engine = Stale
<1> DEFINE b == d.board
           x == [copper |-> (b.copper \ e.out) \cup e.in, made |-> b.made,
                 parts |-> (b.parts \ e.gone) \cup e.new, born |-> b.born,
                 pose |-> Put(e.to, b.pose), pads |-> b.pads, nets |-> b.nets]
<1>1. BoardOK(b) /\ d.undo \in Seq(EntryOf(d)) /\ d.redo \in Seq(EntryOf(d))
  BY DocFields
<1>2. e.in \subseteq 1..Len(b.made) /\ e.new \subseteq 1..b.born /\ e.to \in Placements(b.born)
  BY EntryFields DEF EntryOf
<1>3. Put(e.to, b.pose) \in [Footprint -> Pose]
  BY <1>1, <1>2, BoardFields, PutTyped
<1>4. BoardOK(x)
  <2>1. (b.copper \ e.out) \cup e.in \subseteq 1..Len(b.made)
    BY <1>1, <1>2, BoardFields
  <2>2. (b.parts \ e.gone) \cup e.new \subseteq 1..b.born
    BY <1>1, <1>2, BoardFields
  <2> QED
    BY <1>1, <1>3, <2>1, <2>2, BoardFields, BoardMade
<1>5. Apply(d, e) = [board |-> x, undo |-> d.undo, redo |-> d.redo, dirty |-> TRUE,
                     engine |-> Stale]
  BY ApplyIs
<1>6. x.made = b.made /\ x.born = b.born /\ Sight(x) = After(Sight(b), e)
  BY DEF Sight, After
<1> HIDE DEF x
<1>7. DocOK(Apply(d, e))
  BY <1>1, <1>4, <1>5, <1>6, DocMade DEF EntryOf
<1> QED
  BY <1>5, <1>6, <1>7 DEF EntryOf

LEMMA PushOK ==
  ASSUME NEW d, DocOK(d), NEW e \in EntryOf(d)
  PROVE  /\ Push(d, e) = [board |-> d.board, undo |-> Append(d.undo, e), redo |-> <<>>,
                          dirty |-> d.dirty, engine |-> d.engine]
         /\ DocOK(Push(d, e)) /\ EntryOf(Push(d, e)) = EntryOf(d)
<1> DEFINE T == EntryOf(d)
<1>1. BoardOK(d.board) /\ d.undo \in Seq(T) /\ d.dirty \in BOOLEAN
  BY DocFields
<1>2. Push(d, e) = [board |-> d.board, undo |-> Append(d.undo, e), redo |-> <<>>,
                    dirty |-> d.dirty, engine |-> d.engine]
  <2> DEFINE x == Push(d, e)
  <2>1. d \in [board : {d.board}, undo : {d.undo}, redo : {d.redo}, dirty : {d.dirty},
               engine : {d.engine}]
    BY DocFields
  <2>2. x \in [board : {d.board}, undo : {Append(d.undo, e)}, redo : {<<>>}, dirty : {d.dirty},
               engine : {d.engine}]
    BY <2>1 DEF Push
  <2> HIDE DEF x
  <2>3. x = [board |-> d.board, undo |-> Append(d.undo, e), redo |-> <<>>,
             dirty |-> d.dirty, engine |-> d.engine]
    BY <2>2
  <2> QED
    BY <2>3 DEF x
<1>3. e \in T
  OBVIOUS
<1> HIDE DEF T
<1>4. Append(d.undo, e) \in Seq(T)
  BY <1>1, <1>3
<1>5. <<>> \in Seq(T)
  OBVIOUS
<1>6. T = Entry(Len(d.board.made), d.board.born)
  BY DEF T, EntryOf
<1>7. DocOK(Push(d, e))
  BY <1>1, <1>2, <1>4, <1>5, <1>6, DocMade
<1> QED
  BY <1>2, <1>7 DEF EntryOf

(* A path that an entry which can be taken back is added to.               *)
LEMMA TightPush ==
  ASSUME NEW d, DocOK(d), NEW e \in EntryOf(d), NEW v \in Sights(d.board.born),
         NEW o, NEW t, Tight(d, v, o, t), Exchange(v, e, After(v, e)),
         NEW x, x.undo = Append(d.undo, e), x.redo = <<>>, x.board.born = d.board.born,
         NEW t2
  PROVE  Tight(x, After(v, e), o, t2)
<1> DEFINE T == EntryOf(d)
           n == d.board.born
<1>1. d.undo \in Seq(T) /\ BoardOK(d.board)
  BY DocFields
<1>2. n \in 0..Footprints /\ Len(d.board.made) \in Nat
  BY <1>1, BoardFields
<1>3. Turned(d.undo) \in Seq(T) /\ Backwards(e) \in T
  BY <1>1, TurnedTyped, BackwardsTwice DEF EntryOf
<1>4. Turned(x.undo) = Append(Turned(d.undo), Backwards(e))
  BY <1>1, TurnedPush DEF EntryOf
<1>5. Exchange(After(v, e), Backwards(e), v)
  BY ExchangeBack DEF EntryOf
<1>6. After(v, e) \in Sights(n)
  BY <1>2, AfterTyped DEF EntryOf
<1>7. Leads(Turned(d.undo), v, o, n)
  BY DEF Tight
<1> HIDE DEF T, n
<1>8. Leads(Append(Turned(d.undo), Backwards(e)), After(v, e), o, n)
  BY <1>3, <1>5, <1>6, <1>7, LeadsPush
<1> QED
  BY <1>4, <1>8 DEF Tight, n

-----------------------------------------------------------------------------
(* Entries that can be taken back.                                         *)
LEMMA StillTyped ==
  ASSUME NEW n
  PROVE  /\ Still \in Placements(n) /\ DOMAIN Still = {}
         /\ \A pose \in [Footprint -> Pose] : Put(Still, pose) = pose
<1>1. DOMAIN Still = {} /\ Still \in [{} -> Pose]
  BY DEF Still
<1>2. {} \in SUBSET (1..n)
  OBVIOUS
<1> QED
  BY <1>1, <1>2 DEF Placements, Put

LEMMA CopperEntry ==
  ASSUME NEW m, NEW n, NEW out \in SUBSET (1..m), NEW in \in SUBSET (1..m)
  PROVE  /\ Copper(out, in) \in Entry(m, n)
         /\ \A v \in Sights(n) : out \subseteq v.copper /\ in \cap v.copper = {} =>
              Exchange(v, Copper(out, in), After(v, Copper(out, in)))
<1> DEFINE e == Copper(out, in)
<1>1. e \in Entry(m, n)
  BY StillTyped DEF Copper, Entry
<1>2. ASSUME NEW v \in Sights(n), out \subseteq v.copper, in \cap v.copper = {}
      PROVE  Exchange(v, e, After(v, e))
  <2>1. v = [copper |-> v.copper, parts |-> v.parts, pose |-> v.pose]
        /\ v.pose \in [Footprint -> Pose]
    BY DEF Sights
  <2>2. Put(Still, v.pose) = v.pose
    BY <2>1, StillTyped
  <2>3. After(v, e) = [copper |-> (v.copper \ out) \cup in, parts |-> v.parts, pose |-> v.pose]
    BY <2>2 DEF After, Copper
  <2>4. (((v.copper \ out) \cup in) \ in) \cup out = v.copper
    BY <1>2
  <2>5. After(After(v, e), Backwards(e)) = v
    BY <2>1, <2>2, <2>3, <2>4 DEF After, Copper, Backwards
  <2> QED
    BY <2>5 DEF Exchange
<1> QED
  BY <1>1, <1>2

LEMMA PlacingEntry ==
  ASSUME NEW m, NEW n, NEW f \in 1..n
  PROVE  /\ Placing(f) \in Entry(m, n)
         /\ \A v \in Sights(n) : f \notin v.parts => Exchange(v, Placing(f), After(v, Placing(f)))
<1> DEFINE e == Placing(f)
<1>1. e \in Entry(m, n)
  BY StillTyped DEF Placing, Copper, Entry
<1>2. ASSUME NEW v \in Sights(n), f \notin v.parts
      PROVE  Exchange(v, e, After(v, e))
  <2>1. v = [copper |-> v.copper, parts |-> v.parts, pose |-> v.pose]
        /\ v.pose \in [Footprint -> Pose]
    BY DEF Sights
  <2>2. Put(Still, v.pose) = v.pose
    BY <2>1, StillTyped
  <2>3. After(v, e) = [copper |-> v.copper, parts |-> v.parts \cup {f}, pose |-> v.pose]
    BY <2>2 DEF After, Placing, Copper
  <2>4. (v.parts \cup {f}) \ {f} = v.parts
    BY <1>2
  <2>5. After(After(v, e), Backwards(e)) = v
    BY <2>1, <2>2, <2>3, <2>4 DEF After, Placing, Copper, Backwards
  <2> QED
    BY <2>5 DEF Exchange
<1> QED
  BY <1>1, <1>2

LEMMA DeletingEntry ==
  ASSUME NEW m, NEW n, NEW fs \in SUBSET (1..n), NEW cs \in SUBSET (1..m)
  PROVE  /\ Deleting(fs, cs) \in Entry(m, n)
         /\ \A v \in Sights(n) : fs \subseteq v.parts /\ cs \subseteq v.copper =>
              Exchange(v, Deleting(fs, cs), After(v, Deleting(fs, cs)))
<1> DEFINE e == Deleting(fs, cs)
<1>1. e \in Entry(m, n)
  BY StillTyped DEF Deleting, Copper, Entry
<1>2. ASSUME NEW v \in Sights(n), fs \subseteq v.parts, cs \subseteq v.copper
      PROVE  Exchange(v, e, After(v, e))
  <2>1. v = [copper |-> v.copper, parts |-> v.parts, pose |-> v.pose]
        /\ v.pose \in [Footprint -> Pose]
    BY DEF Sights
  <2>2. Put(Still, v.pose) = v.pose
    BY <2>1, StillTyped
  <2>3. After(v, e) = [copper |-> v.copper \ cs, parts |-> v.parts \ fs, pose |-> v.pose]
    BY <2>2 DEF After, Deleting, Copper
  <2>4. (v.parts \ fs) \cup fs = v.parts /\ (v.copper \ cs) \cup cs = v.copper
    BY <1>2
  <2>5. After(After(v, e), Backwards(e)) = v
    BY <2>1, <2>2, <2>3, <2>4 DEF After, Deleting, Copper, Backwards
  <2> QED
    BY <2>5 DEF Exchange
<1> QED
  BY <1>1, <1>2

LEMMA MovingEntry ==
  ASSUME NEW m, NEW n, NEW from \in Placements(n), NEW to \in Placements(n),
         DOMAIN from = DOMAIN to
  PROVE  /\ Moving(from, to) \in Entry(m, n)
         /\ \A v \in Sights(n) : Put(from, v.pose) = v.pose =>
              Exchange(v, Moving(from, to), After(v, Moving(from, to)))
<1> DEFINE e == Moving(from, to)
<1>1. e \in Entry(m, n)
  BY DEF Moving, Copper, Entry
<1>2. ASSUME NEW v \in Sights(n), Put(from, v.pose) = v.pose
      PROVE  Exchange(v, e, After(v, e))
  <2>1. v = [copper |-> v.copper, parts |-> v.parts, pose |-> v.pose]
        /\ v.pose \in [Footprint -> Pose]
    BY DEF Sights
  <2>2. After(v, e) = [copper |-> v.copper, parts |-> v.parts, pose |-> Put(to, v.pose)]
    BY DEF After, Moving, Copper
  <2>3. Put(from, Put(to, v.pose)) = Put(from, v.pose)
    BY DEF Put
  <2>4. After(After(v, e), Backwards(e)) = v
    BY <1>2, <2>1, <2>2, <2>3 DEF After, Moving, Copper, Backwards
  <2> QED
    BY <2>4 DEF Exchange
<1> QED
  BY <1>1, <1>2

(* What a handler makes of the document: it can still be rewound, its      *)
(* native board is not older than it counts as, and it is marked when it   *)
(* is not what is on disk.                                                 *)
Current(d) == d.engine = Stale \/ d.engine = Whole(d.board)
Marked(a, d) ==
  /\ d.dirty \/ (Whole(d.board) = Whole(a.board) /\ ~a.dirty)
  /\ Current(a) => Current(d)
Rewindable(c, d) ==
  /\ DocOK(d) /\ Placements(c.was.board.born) \subseteq Placements(d.board.born)
  /\ c.tight => Tight(d, Sight(d.board), c.opened, c.tip)
Reached(c, d) == Rewindable(c, d) /\ Marked(c.was, d)

LEMMA Told ==
  ASSUME NEW a, NEW d, d.dirty = TRUE, d.engine = Stale PROVE Marked(a, d)
BY DEF Marked, Current

LEMMA WithBoard ==
  ASSUME NEW d, DocOK(d), NEW b, BoardOK(b), b.born = d.board.born,
         Len(b.made) = Len(d.board.made), NEW y \in BOOLEAN, NEW g, NEW x,
         x = [board |-> b, undo |-> d.undo, redo |-> d.redo, dirty |-> y, engine |-> g]
  PROVE  DocOK(x) /\ EntryOf(x) = EntryOf(d)
BY DocFields, DocMade DEF EntryOf

LEMMA SameSight ==
  ASSUME NEW c, NEW d, Rewindable(c, d), NEW x, DocOK(x), Sight(x.board) = Sight(d.board),
         x.undo = d.undo, x.redo = d.redo, x.board.born = d.board.born
  PROVE  Rewindable(c, x)
BY DEF Rewindable, Tight

LEMMA NotifiedOK ==
  ASSUME NEW d, DocOK(d)
  PROVE  /\ Notified(d) = [board |-> d.board, undo |-> d.undo, redo |-> d.redo,
                           dirty |-> TRUE, engine |-> Stale]
         /\ DocOK(Notified(d)) /\ EntryOf(Notified(d)) = EntryOf(d)
<1> DEFINE x == Notified(d)
<1>1. d \in [board : {d.board}, undo : {d.undo}, redo : {d.redo}, dirty : {d.dirty},
             engine : {d.engine}]
  BY DocFields
<1>2. x \in [board : {d.board}, undo : {d.undo}, redo : {d.redo}, dirty : {TRUE},
             engine : {Stale}]
  BY <1>1 DEF Notified
<1> HIDE DEF x
<1>3. x = [board |-> d.board, undo |-> d.undo, redo |-> d.redo, dirty |-> TRUE, engine |-> Stale]
  BY <1>2
<1>4. BoardOK(d.board) /\ d.undo \in Seq(EntryOf(d)) /\ d.redo \in Seq(EntryOf(d))
  BY DocFields
<1>5. DocOK(x) /\ EntryOf(x) = EntryOf(d)
  BY <1>3, <1>4, DocMade DEF EntryOf
<1> QED
  BY <1>3, <1>5 DEF x

LEMMA NotifiedReached ==
  ASSUME NEW c, NEW d, Rewindable(c, d)
  PROVE  Reached(c, Notified(d))
<1>1. DocOK(d)
  BY DEF Rewindable
<1>2. Rewindable(c, Notified(d))
  BY <1>1, NotifiedOK, SameSight
<1>3. Notified(d).dirty = TRUE /\ Notified(d).engine = Stale
  BY <1>1, NotifiedOK
<1>4. Marked(c.was, Notified(d))
  BY <1>3, Told
<1> QED
  BY <1>2, <1>4 DEF Reached

LEMMA SyncedOK ==
  ASSUME NEW c, NEW d, Reached(c, d)
  PROVE  Reached(c, Synced(d)) /\ Synced(d).board = d.board
<1> DEFINE x == Synced(d)
<1>1. DocOK(d) /\ Rewindable(c, d) /\ Marked(c.was, d)
  BY DEF Reached, Rewindable
<1>2. CASE d.engine = Stale
  <2>1. d \in [board : {d.board}, undo : {d.undo}, redo : {d.redo}, dirty : {d.dirty},
               engine : {d.engine}]
    BY <1>1, DocFields
  <2>2. x \in [board : {d.board}, undo : {d.undo}, redo : {d.redo}, dirty : {d.dirty},
               engine : {Whole(d.board)}]
    BY <1>2, <2>1 DEF Synced
  <2> HIDE DEF x
  <2>3. x = [board |-> d.board, undo |-> d.undo, redo |-> d.redo, dirty |-> d.dirty,
             engine |-> Whole(d.board)]
    BY <2>2
  <2>4. DocOK(x)
    BY <1>1, <2>3, DocFields, WithBoard
  <2>5. Rewindable(c, x)
    BY <1>1, <2>3, <2>4, SameSight
  <2>6. Marked(c.was, x)
    BY <1>1, <2>3 DEF Marked, Current
  <2> QED
    BY <2>3, <2>5, <2>6 DEF Reached, x
<1>3. CASE d.engine # Stale
  BY <1>3 DEF Synced
<1> QED
  BY <1>2, <1>3

(* An operation that goes through the stack.                               *)
LEMMA DoIs ==
  ASSUME NEW d, DocOK(d), NEW e \in EntryOf(d)
  PROVE  /\ Do(d, e) =
              [board |-> [copper |-> (d.board.copper \ e.out) \cup e.in, made |-> d.board.made,
                          parts |-> (d.board.parts \ e.gone) \cup e.new, born |-> d.board.born,
                          pose |-> Put(e.to, d.board.pose), pads |-> d.board.pads,
                          nets |-> d.board.nets],
               undo |-> Append(d.undo, e), redo |-> <<>>, dirty |-> TRUE, engine |-> Stale]
         /\ DocOK(Do(d, e)) /\ EntryOf(Do(d, e)) = EntryOf(d)
<1> DEFINE x == Apply(d, e)
<1>1. DocOK(x) /\ EntryOf(x) = EntryOf(d)
  BY ApplyOK
<1>2. x = [board |-> [copper |-> (d.board.copper \ e.out) \cup e.in, made |-> d.board.made,
                      parts |-> (d.board.parts \ e.gone) \cup e.new, born |-> d.board.born,
                      pose |-> Put(e.to, d.board.pose), pads |-> d.board.pads,
                      nets |-> d.board.nets],
           undo |-> d.undo, redo |-> d.redo, dirty |-> TRUE, engine |-> Stale]
  BY ApplyIs
<1>3. Do(d, e) = Push(x, e)
  BY DEF Do
<1> HIDE DEF x
<1>4. /\ Push(x, e) = [board |-> x.board, undo |-> Append(x.undo, e), redo |-> <<>>,
                       dirty |-> x.dirty, engine |-> x.engine]
      /\ DocOK(Push(x, e)) /\ EntryOf(Push(x, e)) = EntryOf(x)
  BY <1>1, PushOK
<1> QED
  BY <1>1, <1>2, <1>3, <1>4

LEMMA DoReached ==
  ASSUME NEW c, NEW d, Rewindable(c, d), NEW e \in EntryOf(d),
         c.tight => Exchange(Sight(d.board), e, After(Sight(d.board), e))
  PROVE  Reached(c, Do(d, e)) /\ EntryOf(Do(d, e)) = EntryOf(d)
<1> DEFINE x == Do(d, e)
           v == Sight(d.board)
<1>1. DocOK(d) /\ (c.tight => Tight(d, v, c.opened, c.tip))
  BY DEF Rewindable
<1>2. DocOK(x) /\ EntryOf(x) = EntryOf(d)
  BY <1>1, DoIs
<1>3. /\ x.undo = Append(d.undo, e) /\ x.redo = <<>> /\ x.dirty = TRUE /\ x.engine = Stale
      /\ x.board.born = d.board.born
      /\ Sight(x.board) = [copper |-> (d.board.copper \ e.out) \cup e.in,
                           parts |-> (d.board.parts \ e.gone) \cup e.new,
                           pose |-> Put(e.to, d.board.pose)]
  <2>1. x = [board |-> [copper |-> (d.board.copper \ e.out) \cup e.in, made |-> d.board.made,
                        parts |-> (d.board.parts \ e.gone) \cup e.new, born |-> d.board.born,
                        pose |-> Put(e.to, d.board.pose), pads |-> d.board.pads,
                        nets |-> d.board.nets],
             undo |-> Append(d.undo, e), redo |-> <<>>, dirty |-> TRUE, engine |-> Stale]
    BY <1>1, DoIs
  <2> HIDE DEF x
  <2> QED
    BY <2>1 DEF Sight
<1>4. Sight(x.board) = After(v, e)
  BY <1>3 DEF After, Sight
<1>5. v \in Sights(d.board.born)
  BY <1>1, DocFields, SightTyped
<1> HIDE DEF x, v
<1>6. c.tight => Tight(x, Sight(x.board), c.opened, c.tip)
  BY <1>1, <1>3, <1>4, <1>5, TightPush DEF v
<1>7. Rewindable(c, x) /\ Marked(c.was, x)
  BY <1>2, <1>3, <1>6, Told DEF Rewindable
<1> QED
  BY <1>2, <1>7 DEF Reached, x

LEMMA CopperReached ==
  ASSUME NEW c, NEW d, Rewindable(c, d), NEW out, out \subseteq d.board.copper,
         NEW in \in SUBSET (1..Len(d.board.made)), in \cap d.board.copper = {}
  PROVE  /\ Copper(out, in) \in EntryOf(d)
         /\ Reached(c, Do(d, Copper(out, in))) /\ EntryOf(Do(d, Copper(out, in))) = EntryOf(d)
<1> DEFINE e == Copper(out, in)
           v == Sight(d.board)
<1>1. DocOK(d) /\ BoardOK(d.board)
  BY DocFields DEF Rewindable
<1>2. out \in SUBSET (1..Len(d.board.made))
  BY <1>1, BoardFields
<1>3. e \in EntryOf(d)
  BY <1>2, CopperEntry DEF EntryOf
<1>4. v \in Sights(d.board.born) /\ v.copper = d.board.copper
  BY <1>1, SightTyped DEF Sight
<1>5. Exchange(v, e, After(v, e))
  BY <1>2, <1>4, CopperEntry
<1> HIDE DEF e
<1>6. Reached(c, Do(d, e)) /\ EntryOf(Do(d, e)) = EntryOf(d)
  BY <1>3, <1>5, DoReached
<1> QED
  BY <1>3, <1>6 DEF e

LEMMA MakeOK ==
  ASSUME NEW c, NEW d, Rewindable(c, d), NEW n \in BoardNet, NEW pour \in BOOLEAN
  PROVE  /\ Rewindable(c, Make(d, n, pour))
         /\ Make(d, n, pour) =
              [board |-> [copper |-> d.board.copper,
                          made |-> Append(d.board.made, [net |-> n, pour |-> pour]),
                          parts |-> d.board.parts, born |-> d.board.born,
                          pose |-> d.board.pose, pads |-> d.board.pads, nets |-> d.board.nets],
               undo |-> d.undo, redo |-> d.redo, dirty |-> d.dirty, engine |-> d.engine]
         /\ Make(d, n, pour).board.copper = d.board.copper
         /\ NewPiece(d) \in 1..Len(Make(d, n, pour).board.made)
         /\ NewPiece(d) \notin d.board.copper
         /\ NewPiece(Make(d, n, pour)) = NewPiece(d) + 1 /\ NewPiece(d) \in Nat
<1> DEFINE x == Make(d, n, pour)
           b == d.board
           i == [net |-> n, pour |-> pour]
           y == [copper |-> b.copper, made |-> Append(b.made, i), parts |-> b.parts,
                 born |-> b.born, pose |-> b.pose, pads |-> b.pads, nets |-> b.nets]
           B == [copper : {b.copper}, made : {Append(b.made, i)}, parts : {b.parts},
                 born : {b.born}, pose : {b.pose}, pads : {b.pads}, nets : {b.nets}]
<1>1. DocOK(d) /\ BoardOK(b)
  BY DocFields DEF Rewindable
<1>2. d \in [board : {d.board}, undo : {d.undo}, redo : {d.redo}, dirty : {d.dirty},
             engine : {d.engine}]
  BY <1>1, DocFields
<1>3. b \in [copper : {b.copper}, made : {b.made}, parts : {b.parts}, born : {b.born},
             pose : {b.pose}, pads : {b.pads}, nets : {b.nets}]
  BY <1>1, BoardFields
<1>4. x \in [board : B, undo : {d.undo}, redo : {d.redo}, dirty : {d.dirty}, engine : {d.engine}]
  BY <1>2, <1>3 DEF Make
<1> HIDE DEF x
<1>5. x.board \in B /\ x = [board |-> x.board, undo |-> d.undo, redo |-> d.redo,
                            dirty |-> d.dirty, engine |-> d.engine]
  BY <1>4
<1>6. x.board = y
  <2> DEFINE z == x.board
  <2>1. z \in B
    BY <1>5
  <2> HIDE DEF z
  <2> QED
    BY <2>1 DEF z
<1>7. b.made \in Seq([net : BoardNet, pour : BOOLEAN]) /\ i \in [net : BoardNet, pour : BOOLEAN]
  BY <1>1, BoardFields
<1>8. /\ y.made \in Seq([net : BoardNet, pour : BOOLEAN])
      /\ Len(y.made) = Len(b.made) + 1 /\ Len(b.made) \in Nat
  BY <1>7
<1>9. b.copper \subseteq 1..Len(b.made) /\ b.copper \subseteq 1..Len(y.made)
  BY <1>1, <1>8, BoardFields
<1>10. BoardOK(y)
  BY <1>1, <1>8, <1>9, BoardFields, BoardMade
<1>11. Seq(EntryOf(d)) \subseteq Seq(Entry(Len(y.made), y.born))
  <2>1. b.born \in Nat /\ y.born = b.born
    BY <1>1, BoardFields
  <2> HIDE DEF y
  <2>2. Len(b.made) <= Len(y.made) /\ Len(y.made) \in Nat /\ y.born <= b.born /\ b.born <= y.born
    BY <1>8, <2>1
  <2> QED
    BY <1>8, <2>1, <2>2, EntryGrows DEF EntryOf
<1>12. DocOK(x)
  <2>1. x = [board |-> y, undo |-> d.undo, redo |-> d.redo, dirty |-> d.dirty,
             engine |-> d.engine]
    BY <1>5, <1>6
  <2>2. /\ d.undo \in Seq(Entry(Len(y.made), y.born)) /\ d.dirty \in BOOLEAN
        /\ d.redo \in Seq(Entry(Len(y.made), y.born))
    BY <1>1, <1>11, DocFields
  <2> HIDE DEF y
  <2> QED
    BY <1>10, <2>1, <2>2, DocMade
<1>13. Rewindable(c, x)
  BY <1>1, <1>5, <1>6, <1>12, SameSight DEF Sight
<1>14. NewPiece(d) = Len(b.made) + 1 /\ NewPiece(x) = Len(y.made) + 1
  BY <1>6 DEF NewPiece
<1> HIDE DEF y
<1>15. NewPiece(d) \in 1..Len(y.made) /\ NewPiece(d) \notin b.copper
       /\ NewPiece(x) = NewPiece(d) + 1 /\ NewPiece(d) \in Nat
  BY <1>8, <1>9, <1>14
<1> QED
  BY <1>5, <1>6, <1>13, <1>15 DEF x, y

LEMMA MakeReached ==
  ASSUME NEW c, NEW d, Rewindable(c, d), NEW n \in BoardNet
  PROVE  /\ Rewindable(c, Make(d, n, FALSE))
         /\ Make(d, n, FALSE).board.copper = d.board.copper
         /\ NewPiece(d) \in 1..Len(Make(d, n, FALSE).board.made)
         /\ NewPiece(d) \notin d.board.copper
         /\ NewPiece(Make(d, n, FALSE)) = NewPiece(d) + 1 /\ NewPiece(d) \in Nat
<1>1. FALSE \in BOOLEAN
  OBVIOUS
<1> QED
  BY <1>1, MakeOK, Zenon

LEMMA AddPieceReached ==
  ASSUME NEW c, NEW d, Rewindable(c, d), NEW n \in BoardNet
  PROVE  Reached(c, AddPiece(d, n))
<1> DEFINE x == Make(d, n, FALSE)
<1>1. /\ Rewindable(c, x) /\ x.board.copper = d.board.copper
      /\ NewPiece(d) \in 1..Len(x.board.made) /\ NewPiece(d) \notin d.board.copper
  <2>1. FALSE \in BOOLEAN
    OBVIOUS
  <2> QED
    BY <2>1, MakeOK
<1> HIDE DEF x
<1>2. {NewPiece(d)} \in SUBSET (1..Len(x.board.made)) /\ {NewPiece(d)} \cap x.board.copper = {}
  BY <1>1
<1>3. Reached(c, Do(x, Copper({}, {NewPiece(d)})))
  BY <1>1, <1>2, CopperReached
<1> QED
  BY <1>3 DEF x, AddPiece

LEMMA RoutedReached ==
  ASSUME NEW c, NEW d, Reached(c, d), NEW n \in BoardNet, NEW ok
  PROVE  Reached(c, Routed(d, n, ok))
<1>1. Reached(c, Synced(d)) /\ Rewindable(c, Synced(d))
  BY SyncedOK DEF Reached
<1>2. Reached(c, AddPiece(Synced(d), n))
  BY <1>1, AddPieceReached
<1> QED
  BY <1>1, <1>2 DEF Routed

LEMMA TracksOf ==
  ASSUME NEW d, NEW n PROVE Tracks(d, n) \subseteq d.board.copper
BY DEF Tracks, Pieces

LEMMA TunedReached ==
  ASSUME NEW c, NEW d, Reached(c, d), NEW n \in BoardNet, NEW wire
  PROVE  Reached(c, Tuned(d, n, wire))
<1> DEFINE x == Make(d, n, FALSE)
<1>1. CASE wire \in Tracks(d, n) /\ Room(d, 1)
  <2>1. Rewindable(c, d)
    BY DEF Reached
  <2>2. /\ Rewindable(c, x) /\ x.board.copper = d.board.copper
        /\ NewPiece(d) \in 1..Len(x.board.made) /\ NewPiece(d) \notin d.board.copper
    <3>1. FALSE \in BOOLEAN
      OBVIOUS
    <3> QED
      BY <2>1, <3>1, MakeOK
  <2> HIDE DEF x
  <2>3. /\ {NewPiece(d)} \in SUBSET (1..Len(x.board.made))
        /\ {NewPiece(d)} \cap x.board.copper = {} /\ {wire} \subseteq x.board.copper
    BY <1>1, <2>2, TracksOf
  <2>4. Reached(c, Do(x, Copper({wire}, {NewPiece(d)})))
    BY <2>2, <2>3, CopperReached
  <2> QED
    BY <1>1, <2>4 DEF x, Tuned
<1>2. CASE ~(wire \in Tracks(d, n) /\ Room(d, 1))
  BY <1>2 DEF Tuned
<1> QED
  BY <1>1, <1>2

(* One net of a batch: routed again, or routed.                            *)
Turn(d, found, anew, n, acc) ==
  IF anew
  THEN IF Tracks(acc, n) = {} THEN acc
       ELSE LET ripped == Do(acc, Copper(Tracks(acc, n), {})) IN
            IF Cardinality(Ends(d, n)) < 2 THEN ripped ELSE Routed(ripped, n, n \in found)
  ELSE Routed(acc, n, n \in found)

(* The fold over a set of nets, by the function that defines it.           *)
OneOf(s) == CHOOSE x \in s : TRUE
Turns(g, d, S, found, anew) ==
  g = [s \in SUBSET S |->
         IF s = {} THEN d ELSE Turn(d, found, anew, OneOf(s), g[s \ {OneOf(s)}])]
Batch(d, S, found, anew) == (CHOOSE g : Turns(g, d, S, found, anew))[S]

LEMMA ReroutedIsBatch ==
  ASSUME NEW d, NEW S, NEW found
  PROVE  Rerouted(d, S, found) = Batch(d, S, found, TRUE)
BY DEF Rerouted, FoldSet, MapThenFoldSet, Batch, Turns, Turn, OneOf

LEMMA RoutingIsBatch ==
  ASSUME NEW d, NEW S, NEW found
  PROVE  LET Try(n, acc) == Routed(acc, n, n \in found)
         IN  FoldSet(Try, d, S) = Batch(d, S, found, FALSE)
BY DEF FoldSet, MapThenFoldSet, Batch, Turns, Turn, OneOf

LEMMA SmallestOf ==
  ASSUME NEW T \in SUBSET Nat, T # {}
  PROVE  \E x \in T : \A y \in T : x <= y
<1>1. IsWellFoundedOn(OpToRel(<, Nat), Nat)
  BY NatLessThanWellFounded
<1>2. PICK x \in T : \A y \in T : ~ (<<y, x>> \in OpToRel(<, Nat))
  BY <1>1, WFMin
<1>3. \A y \in T : ~ (y < x)
  BY <1>2 DEF OpToRel
<1> QED
  BY <1>3

LEMMA OneLess ==
  ASSUME NEW s, IsFiniteSet(s), s # {}
  PROVE  /\ OneOf(s) \in s /\ IsFiniteSet(s \ {OneOf(s)})
         /\ Cardinality(s) \in Nat \ {0} /\ Cardinality(s \ {OneOf(s)}) = Cardinality(s) - 1
<1>1. OneOf(s) \in s
  BY DEF OneOf
<1>2. IsFiniteSet(s \ {OneOf(s)}) /\ Cardinality(s \ {OneOf(s)}) = Cardinality(s) - 1
  BY <1>1, FS_RemoveElement, Zenon
<1>3. Cardinality(s) \in Nat
  BY FS_CardinalityType, Zenon
<1>4. Cardinality(s) # 0
  BY FS_EmptySet, Zenon
<1> QED
  BY <1>1, <1>2, <1>3, <1>4

(* The fold is defined: its function exists on the sets of at most m nets, *)
(* for each m.                                                             *)
LEMMA TurnsExist ==
  ASSUME NEW d, NEW S, IsFiniteSet(S), NEW found, NEW anew
  PROVE  \E g : Turns(g, d, S, found, anew)
<1> DEFINE Up(m) == {s \in SUBSET S : Cardinality(s) <= m}
           Value(s, g) == IF s = {} THEN d
                         ELSE Turn(d, found, anew, OneOf(s), g[s \ {OneOf(s)}])
           Upto(m, g) == g = [s \in Up(m) |-> Value(s, g)]
           Bad == {m \in Nat : ~ \E g : Upto(m, g)}
<1>1. \A s \in SUBSET S : IsFiniteSet(s) /\ Cardinality(s) \in Nat
  BY FS_Subset, FS_CardinalityType, Zenon
<1>2. Bad = {}
  <2> SUFFICES ASSUME Bad # {} PROVE FALSE
    OBVIOUS
  <2>1. PICK m \in Bad : \A k \in Bad : m <= k
    <3>1. Bad \in SUBSET Nat
      OBVIOUS
    <3> HIDE DEF Bad
    <3> QED
      BY <3>1, SmallestOf
  <2>2. CASE m = 0
    <3> DEFINE g == [s \in Up(0) |-> d]
    <3>1. \A s \in Up(0) : s = {}
      <4> TAKE s \in Up(0)
      <4>1. IsFiniteSet(s) /\ Cardinality(s) = 0
        BY <1>1
      <4> QED
        BY <4>1, FS_EmptySet, Zenon
    <3>2. g = [s \in Up(0) |-> Value(s, g)]
      BY <3>1
    <3> QED
      BY <2>1, <2>2, <3>2
  <2>3. CASE m # 0
    <3>1. m \in Nat /\ m - 1 \in Nat /\ m - 1 \notin Bad
      <4>1. m \in Nat /\ \A k \in Bad : m <= k
        BY <2>1
      <4> HIDE DEF Bad
      <4> QED
        BY <2>3, <4>1
    <3>2. PICK h : Upto(m - 1, h)
      BY <3>1
    <3> DEFINE g == [s \in Up(m) |-> Value(s, h)]
    <3>3. \A s \in Up(m) : s # {} => s \ {OneOf(s)} \in Up(m - 1) /\ s \ {OneOf(s)} \in Up(m)
      <4> TAKE s \in Up(m)
      <4> HAVE s # {}
      <4>1. IsFiniteSet(s) /\ Cardinality(s) <= m
        BY <1>1
      <4>2. Cardinality(s \ {OneOf(s)}) = Cardinality(s) - 1 /\ Cardinality(s) \in Nat
        BY <4>1, OneLess
      <4>3. s \ {OneOf(s)} \in SUBSET S
        OBVIOUS
      <4> QED
        BY <3>1, <4>1, <4>2, <4>3
    <3> HIDE DEF Up
    <3>4. \A s \in Up(m) : s # {} => g[s \ {OneOf(s)}] = h[s \ {OneOf(s)}]
      <4> TAKE s \in Up(m)
      <4> HAVE s # {}
      <4> DEFINE r == s \ {OneOf(s)}
      <4>1. r \in Up(m - 1) /\ r \in Up(m)
        BY <3>3
      <4> HIDE DEF r, Value
      <4>2. h[r] = Value(r, h)
        <5>1. h = [q \in Up(m - 1) |-> Value(q, h)]
          BY <3>2
        <5> HIDE DEF Upto
        <5> QED
          BY <4>1, <5>1, Zenon
      <4>3. g[r] = Value(r, h)
        BY <4>1
      <4> QED
        BY <4>2, <4>3 DEF r
    <3>5. \A s \in Up(m) : Value(s, h) = Value(s, g)
      <4> TAKE s \in Up(m)
      <4>1. s # {} => g[s \ {OneOf(s)}] = h[s \ {OneOf(s)}]
        BY <3>4
      <4> HIDE DEF g
      <4> QED
        BY <4>1
    <3>6. g = [s \in Up(m) |-> Value(s, g)]
      <4> HIDE DEF Value
      <4> QED
        BY <3>5
    <3>7. Upto(m, g)
      BY <3>6
    <3> QED
      BY <2>1, <3>7
  <2> QED
    BY <2>2, <2>3
<1> DEFINE m == Cardinality(S)
<1>3. m \in Nat
  BY FS_CardinalityType, Zenon
<1>4. PICK g : Upto(m, g)
  BY <1>2, <1>3
<1>5. Up(m) = SUBSET S
  <2>1. \A s \in SUBSET S : Cardinality(s) <= m
    BY FS_Subset, Zenon
  <2> QED
    BY <2>1
<1>6. Turns(g, d, S, found, anew)
  <2>1. g = [s \in SUBSET S |-> Value(s, g)]
    BY <1>4, <1>5
  <2> QED
    BY <2>1 DEF Turns
<1> QED
  BY <1>6

LEMMA TurnReached ==
  ASSUME NEW c, NEW acc, Reached(c, acc), NEW n \in BoardNet, NEW d, NEW found,
         NEW anew \in BOOLEAN
  PROVE  Reached(c, Turn(d, found, anew, n, acc))
<1> DEFINE ripped == Do(acc, Copper(Tracks(acc, n), {}))
<1>1. Reached(c, ripped)
  <2>1. /\ Rewindable(c, acc) /\ Tracks(acc, n) \subseteq acc.board.copper
        /\ {} \in SUBSET (1..Len(acc.board.made)) /\ {} \cap acc.board.copper = {}
    BY TracksOf DEF Reached
  <2> QED
    BY <2>1, CopperReached
<1> HIDE DEF ripped
<1>2. Reached(c, Routed(ripped, n, n \in found)) /\ Reached(c, Routed(acc, n, n \in found))
  BY <1>1, RoutedReached
<1>3. CASE anew
  BY <1>1, <1>2, <1>3 DEF Turn, ripped
<1>4. CASE ~anew
  BY <1>2, <1>4 DEF Turn
<1> QED
  BY <1>3, <1>4

LEMMA BatchReached ==
  ASSUME NEW c, NEW d, Reached(c, d), NEW S \in SUBSET BoardNet, NEW found,
         NEW anew \in BOOLEAN
  PROVE  Reached(c, Batch(d, S, found, anew))
<1>1. IsFiniteSet(S)
  BY EditorConstants, FS_Subset, Zenon
<1> DEFINE g == CHOOSE h : Turns(h, d, S, found, anew)
<1>2. Turns(g, d, S, found, anew)
  BY <1>1, TurnsExist
<1> HIDE DEF g
<1>3. \A s \in SUBSET S :
        g[s] = IF s = {} THEN d ELSE Turn(d, found, anew, OneOf(s), g[s \ {OneOf(s)}])
  <2> DEFINE F(s) == IF s = {} THEN d ELSE Turn(d, found, anew, OneOf(s), g[s \ {OneOf(s)}])
  <2>1. g = [s \in SUBSET S |-> F(s)]
    BY <1>2 DEF Turns
  <2> HIDE DEF F
  <2>2. \A s \in SUBSET S : g[s] = F(s)
    BY <2>1, Zenon
  <2> QED
    BY <2>2 DEF F
<1>4. \A s \in SUBSET S : IsFiniteSet(s) /\ Cardinality(s) \in Nat
  BY <1>1, FS_Subset, FS_CardinalityType, Zenon
<1> DEFINE Bad == {Cardinality(s) : s \in {r \in SUBSET S : ~Reached(c, g[r])}}
<1>5. Bad = {}
  <2> SUFFICES ASSUME Bad # {} PROVE FALSE
    OBVIOUS
  <2>1. PICK m \in Bad : \A k \in Bad : m <= k
    <3>1. Bad \in SUBSET Nat
      BY <1>4
    <3> HIDE DEF Bad
    <3> QED
      BY <3>1, SmallestOf
  <2>2. PICK s \in SUBSET S : ~Reached(c, g[s]) /\ m = Cardinality(s)
    BY <2>1
  <2>3. s # {} /\ g[s] = Turn(d, found, anew, OneOf(s), g[s \ {OneOf(s)}])
    BY <1>3, <2>2
  <2>4. /\ OneOf(s) \in BoardNet /\ s \ {OneOf(s)} \in SUBSET S
        /\ Cardinality(s \ {OneOf(s)}) = m - 1 /\ m \in Nat
    <3>1. OneOf(s) \in s /\ Cardinality(s \ {OneOf(s)}) = Cardinality(s) - 1
      BY <1>4, <2>3, OneLess
    <3> QED
      BY <1>4, <2>2, <3>1
  <2>5. Reached(c, g[s \ {OneOf(s)}])
    <3> SUFFICES ASSUME ~Reached(c, g[s \ {OneOf(s)}]) PROVE FALSE
      OBVIOUS
    <3>1. m - 1 \in Bad
      BY <2>4
    <3> QED
      BY <2>1, <2>4, <3>1
  <2>6. Reached(c, g[s])
    BY <2>3, <2>4, <2>5, TurnReached
  <2> QED
    BY <2>2, <2>6
<1>6. Reached(c, g[S])
  BY <1>5
<1> QED
  BY <1>6 DEF Batch, g

LEMMA ReroutedReached ==
  ASSUME NEW c, NEW d, Reached(c, d), NEW S \in SUBSET BoardNet, NEW found
  PROVE  Reached(c, Rerouted(d, S, found))
BY ReroutedIsBatch, BatchReached

LEMMA PadNetsTyped ==
  ASSUME NEW d, DocOK(d), NEW fs \in SUBSET Footprint
  PROVE  PadNets(d, fs) \in SUBSET BoardNet
BY DocFields, BoardFields DEF PadNets

(* A document with another board.                                          *)
LEMMA CopperChanged ==
  ASSUME NEW d, DocOK(d), NEW S \in SUBSET (1..Len(d.board.made))
  PROVE  LET x == Notified([d EXCEPT !.board.copper = S]) IN
         /\ x = [board |-> [copper |-> S, made |-> d.board.made, parts |-> d.board.parts,
                            born |-> d.board.born, pose |-> d.board.pose,
                            pads |-> d.board.pads, nets |-> d.board.nets],
                 undo |-> d.undo, redo |-> d.redo, dirty |-> TRUE, engine |-> Stale]
         /\ DocOK(x)
<1> DEFINE b == d.board
           x == Notified([d EXCEPT !.board.copper = S])
           B == [copper : {S}, made : {b.made}, parts : {b.parts}, born : {b.born},
                 pose : {b.pose}, pads : {b.pads}, nets : {b.nets}]
           y == [copper |-> S, made |-> b.made, parts |-> b.parts, born |-> b.born,
                 pose |-> b.pose, pads |-> b.pads, nets |-> b.nets]
<1>1. BoardOK(b)
  BY DocFields
<1>2. d \in [board : {d.board}, undo : {d.undo}, redo : {d.redo}, dirty : {d.dirty},
             engine : {d.engine}]
  BY DocFields
<1>3. b \in [copper : {b.copper}, made : {b.made}, parts : {b.parts}, born : {b.born},
             pose : {b.pose}, pads : {b.pads}, nets : {b.nets}]
  BY <1>1, BoardFields
<1>4. x \in [board : B, undo : {d.undo}, redo : {d.redo}, dirty : {TRUE}, engine : {Stale}]
  BY <1>2, <1>3 DEF Notified
<1> HIDE DEF x
<1>5. x.board \in B /\ x = [board |-> x.board, undo |-> d.undo, redo |-> d.redo,
                            dirty |-> TRUE, engine |-> Stale]
  BY <1>4
<1>6. x.board = y
  <2> DEFINE z == x.board
  <2>1. z \in B
    BY <1>5
  <2> HIDE DEF z
  <2> QED
    BY <2>1 DEF z
<1>7. BoardOK(y)
  BY <1>1, BoardFields, BoardMade
<1>8. DocOK(x)
  <2>1. y.born = b.born /\ y.made = b.made /\ TRUE \in BOOLEAN
    OBVIOUS
  <2> HIDE DEF y
  <2> QED
    BY <1>5, <1>6, <1>7, <2>1, WithBoard
<1> QED
  BY <1>5, <1>6, <1>8 DEF x

LEMMA PoseChanged ==
  ASSUME NEW d, DocOK(d), NEW S \in [Footprint -> Pose]
  PROVE  LET x == Notified([d EXCEPT !.board.pose = S]) IN
         /\ x = [board |-> [copper |-> d.board.copper, made |-> d.board.made,
                            parts |-> d.board.parts, born |-> d.board.born, pose |-> S,
                            pads |-> d.board.pads, nets |-> d.board.nets],
                 undo |-> d.undo, redo |-> d.redo, dirty |-> TRUE, engine |-> Stale]
         /\ DocOK(x)
<1> DEFINE b == d.board
           x == Notified([d EXCEPT !.board.pose = S])
           B == [copper : {b.copper}, made : {b.made}, parts : {b.parts}, born : {b.born},
                 pose : {S}, pads : {b.pads}, nets : {b.nets}]
           y == [copper |-> b.copper, made |-> b.made, parts |-> b.parts, born |-> b.born,
                 pose |-> S, pads |-> b.pads, nets |-> b.nets]
<1>1. BoardOK(b)
  BY DocFields
<1>2. d \in [board : {d.board}, undo : {d.undo}, redo : {d.redo}, dirty : {d.dirty},
             engine : {d.engine}]
  BY DocFields
<1>3. b \in [copper : {b.copper}, made : {b.made}, parts : {b.parts}, born : {b.born},
             pose : {b.pose}, pads : {b.pads}, nets : {b.nets}]
  BY <1>1, BoardFields
<1>4. x \in [board : B, undo : {d.undo}, redo : {d.redo}, dirty : {TRUE}, engine : {Stale}]
  BY <1>2, <1>3 DEF Notified
<1> HIDE DEF x
<1>5. x.board \in B /\ x = [board |-> x.board, undo |-> d.undo, redo |-> d.redo,
                            dirty |-> TRUE, engine |-> Stale]
  BY <1>4
<1>6. x.board = y
  <2> DEFINE z == x.board
  <2>1. z \in B
    BY <1>5
  <2> HIDE DEF z
  <2> QED
    BY <2>1 DEF z
<1>7. BoardOK(y)
  BY <1>1, BoardFields, BoardMade
<1>8. DocOK(x)
  <2>1. y.born = b.born /\ y.made = b.made /\ TRUE \in BOOLEAN
    OBVIOUS
  <2> HIDE DEF y
  <2> QED
    BY <1>5, <1>6, <1>7, <2>1, WithBoard
<1> QED
  BY <1>5, <1>6, <1>8 DEF x

(* Nets and pads are not what undo is about.                               *)
LEMMA AddNetRewindable ==
  ASSUME NEW c, NEW d, Rewindable(c, d), NEW n \in BoardNet
  PROVE  Rewindable(c, AddNet(d, n)) /\ AddNet(d, n).board.born = d.board.born
<1>1. CASE n \in d.board.nets
  BY <1>1 DEF AddNet
<1>2. CASE n \notin d.board.nets
  <2> DEFINE b == d.board
             x == AddNet(d, n)
             B == [copper : {b.copper}, made : {b.made}, parts : {b.parts}, born : {b.born},
                   pose : {b.pose}, pads : {b.pads}, nets : {b.nets \cup {n}}]
             y == [copper |-> b.copper, made |-> b.made, parts |-> b.parts, born |-> b.born,
                   pose |-> b.pose, pads |-> b.pads, nets |-> b.nets \cup {n}]
  <2>1. DocOK(d) /\ BoardOK(b)
    BY DocFields DEF Rewindable
  <2>2. d \in [board : {d.board}, undo : {d.undo}, redo : {d.redo}, dirty : {d.dirty},
               engine : {d.engine}]
    BY <2>1, DocFields
  <2>3. b \in [copper : {b.copper}, made : {b.made}, parts : {b.parts}, born : {b.born},
               pose : {b.pose}, pads : {b.pads}, nets : {b.nets}]
    BY <2>1, BoardFields
  <2>4. x \in [board : B, undo : {d.undo}, redo : {d.redo}, dirty : {TRUE}, engine : {Stale}]
    BY <1>2, <2>2, <2>3 DEF AddNet, Notified
  <2> HIDE DEF x
  <2>5. x.board \in B /\ x = [board |-> x.board, undo |-> d.undo, redo |-> d.redo,
                              dirty |-> TRUE, engine |-> Stale]
    BY <2>4
  <2>6. x.board = y
    <3> DEFINE z == x.board
    <3>1. z \in B
      BY <2>5
    <3> HIDE DEF z
    <3> QED
      BY <3>1 DEF z
  <2>7. BoardOK(y)
    <3>1. b.nets \cup {n} \in SUBSET BoardNet
      BY <2>1, BoardFields
    <3> QED
      BY <2>1, <3>1, BoardFields, BoardMade
  <2>8. y.born = b.born /\ y.made = b.made /\ Sight(y) = Sight(b) /\ TRUE \in BOOLEAN
    BY DEF Sight
  <2> HIDE DEF y
  <2>9. DocOK(x)
    BY <2>1, <2>5, <2>6, <2>7, <2>8, WithBoard
  <2>10. x.board.born = d.board.born /\ x.undo = d.undo /\ x.redo = d.redo
         /\ Sight(x.board) = Sight(d.board)
    BY <2>5, <2>6, <2>8
  <2>11. Rewindable(c, x)
    BY <2>9, <2>10, SameSight
  <2> QED
    BY <2>10, <2>11 DEF x
<1> QED
  BY <1>1, <1>2

LEMMA JoinedRewindable ==
  ASSUME NEW c, NEW d, Rewindable(c, d), NEW f \in Footprint, NEW n \in BoardNet, NEW m
  PROVE  Rewindable(c, Joined(d, f, n, m))
<1> DEFINE b == d.board
           x == Joined(d, f, n, m)
           new == [b.pads EXCEPT ![f] = (@ \ {m}) \cup {n}]
           B == [copper : {b.copper}, made : {b.made}, parts : {b.parts}, born : {b.born},
                 pose : {b.pose}, pads : {new}, nets : {b.nets}]
           y == [copper |-> b.copper, made |-> b.made, parts |-> b.parts, born |-> b.born,
                 pose |-> b.pose, pads |-> new, nets |-> b.nets]
<1>1. DocOK(d) /\ BoardOK(b) /\ d.dirty \in BOOLEAN
  BY DocFields DEF Rewindable
<1>2. d \in [board : {d.board}, undo : {d.undo}, redo : {d.redo}, dirty : {d.dirty},
             engine : {d.engine}]
  BY <1>1, DocFields
<1>3. b \in [copper : {b.copper}, made : {b.made}, parts : {b.parts}, born : {b.born},
             pose : {b.pose}, pads : {b.pads}, nets : {b.nets}]
  BY <1>1, BoardFields
<1>4. x \in [board : B, undo : {d.undo}, redo : {d.redo}, dirty : {d.dirty}, engine : {d.engine}]
  BY <1>2, <1>3 DEF Joined
<1> HIDE DEF x
<1>5. x.board \in B /\ x = [board |-> x.board, undo |-> d.undo, redo |-> d.redo,
                            dirty |-> d.dirty, engine |-> d.engine]
  BY <1>4
<1>6. x.board = y
  <2> DEFINE z == x.board
  <2>1. z \in B
    BY <1>5
  <2> HIDE DEF z, new
  <2> QED
    BY <2>1 DEF z
<1>7. BoardOK(y)
  <2>1. b.pads \in [Footprint -> SUBSET BoardNet]
    BY <1>1, BoardFields
  <2>2. new \in [Footprint -> SUBSET BoardNet]
    BY <2>1
  <2> HIDE DEF new
  <2> QED
    BY <1>1, <2>2, BoardFields, BoardMade
<1>8. y.born = b.born /\ y.made = b.made /\ Sight(y) = Sight(b)
  BY DEF Sight
<1> HIDE DEF y
<1>9. DocOK(x)
  BY <1>1, <1>5, <1>6, <1>7, <1>8, WithBoard
<1>10. x.board.born = d.board.born /\ x.undo = d.undo /\ x.redo = d.redo
       /\ Sight(x.board) = Sight(d.board)
  BY <1>5, <1>6, <1>8
<1>11. Rewindable(c, x)
  BY <1>9, <1>10, SameSight
<1> QED
  BY <1>11 DEF x

(* Parts that are moved where they stand.                                  *)
LEMMA PosesTyped ==
  ASSUME NEW d, DocOK(d), NEW fs \in SUBSET (1..d.board.born)
  PROVE  /\ Poses(d, fs) \in Placements(d.board.born) /\ DOMAIN Poses(d, fs) = fs
         /\ \A f \in fs : Poses(d, fs)[f] = d.board.pose[f] /\ Poses(d, fs)[f] \in Pose
         /\ Put(Poses(d, fs), d.board.pose) = d.board.pose
<1>1. d.board.pose \in [Footprint -> Pose] /\ fs \subseteq Footprint
  BY DocFields, BoardFields
<1>2. Poses(d, fs) \in [fs -> Pose]
  BY <1>1 DEF Poses
<1> QED
  BY <1>1, <1>2 DEF Poses, Placements, Put

LEMMA MovedReached ==
  ASSUME NEW c, NEW d, Rewindable(c, d), NEW fs \in SUBSET (1..d.board.born),
         NEW to \in Placements(d.board.born), DOMAIN to = fs
  PROVE  Reached(c, Moved(d, Poses(d, fs), to))
<1> DEFINE e == Moving(Poses(d, fs), to)
           v == Sight(d.board)
<1>1. DocOK(d) /\ BoardOK(d.board)
  BY DocFields DEF Rewindable
<1>2. /\ Poses(d, fs) \in Placements(d.board.born) /\ DOMAIN Poses(d, fs) = DOMAIN to
      /\ Put(Poses(d, fs), v.pose) = v.pose
  BY <1>1, PosesTyped DEF Sight
<1>3. v \in Sights(d.board.born)
  BY <1>1, SightTyped
<1>4. e \in EntryOf(d) /\ Exchange(v, e, After(v, e))
  BY <1>2, <1>3, MovingEntry DEF EntryOf
<1> HIDE DEF e
<1>5. Reached(c, Do(d, e))
  BY <1>4, DoReached
<1> QED
  BY <1>5 DEF e, Moved

(* A new part.                                                             *)
LEMMA NewPartReached ==
  ASSUME NEW c, NEW d, Rewindable(c, d), d.board.born < Footprints, NEW p \in Pose
  PROVE  /\ Reached(c, NewPart(d, p))
         /\ NewPart(d, p).board.born \in Footprint
<1> DEFINE b == d.board
           f == b.born + 1
           x == [d EXCEPT !.board.born = f, !.board.pose[f] = p, !.board.pads[f] = {}]
           pose == [b.pose EXCEPT ![f] = p]
           pads == [b.pads EXCEPT ![f] = {}]
           B == [copper : {b.copper}, made : {b.made}, parts : {b.parts}, born : {f},
                 pose : {pose}, pads : {pads}, nets : {b.nets}]
           y == [copper |-> b.copper, made |-> b.made, parts |-> b.parts, born |-> f,
                 pose |-> pose, pads |-> pads, nets |-> b.nets]
<1>1. DocOK(d) /\ BoardOK(b) /\ d.dirty \in BOOLEAN
  BY DocFields DEF Rewindable
<1>2. d \in [board : {d.board}, undo : {d.undo}, redo : {d.redo}, dirty : {d.dirty},
             engine : {d.engine}]
  BY <1>1, DocFields
<1>3. b \in [copper : {b.copper}, made : {b.made}, parts : {b.parts}, born : {b.born},
             pose : {b.pose}, pads : {b.pads}, nets : {b.nets}]
  BY <1>1, BoardFields
<1>4. x \in [board : B, undo : {d.undo}, redo : {d.redo}, dirty : {d.dirty}, engine : {d.engine}]
  BY <1>2, <1>3
<1>5. NewPart(d, p) = Do(x, Placing(f))
  BY DEF NewPart
<1> HIDE DEF x
<1>6. x.board \in B /\ x = [board |-> x.board, undo |-> d.undo, redo |-> d.redo,
                            dirty |-> d.dirty, engine |-> d.engine]
  BY <1>4
<1>7. x.board = y
  <2> DEFINE z == x.board
  <2>1. z \in B
    BY <1>6
  <2> HIDE DEF z, pose, pads, f
  <2> QED
    BY <2>1 DEF z
<1>8. b.born \in Nat /\ f \in Nat /\ f \in Footprint /\ f \in 0..Footprints /\ f \in 1..f
      /\ b.born <= f
  BY <1>1, BoardFields, EditorConstants DEF Footprint
<1>9. BoardOK(y)
  <2>1. b.pads \in [Footprint -> SUBSET BoardNet] /\ b.pose \in [Footprint -> Pose]
    BY <1>1, BoardFields
  <2>2. pads \in [Footprint -> SUBSET BoardNet] /\ pose \in [Footprint -> Pose]
    BY <2>1, <1>8
  <2>3. b.parts \subseteq 1..f
    BY <1>1, <1>8, BoardFields
  <2>4. /\ b.copper \subseteq 1..Len(b.made) /\ b.nets \in SUBSET BoardNet
        /\ b.made \in Seq([net : BoardNet, pour : BOOLEAN])
    BY <1>1, BoardFields
  <2> HIDE DEF pads, pose, f
  <2> QED
    BY <1>8, <2>2, <2>3, <2>4, BoardMade
<1>10. y.born = f /\ y.made = b.made /\ Sight(y) = Reposed(Sight(b), f, p)
       /\ Sight(y).parts = b.parts
  BY DEF Sight, Reposed
<1>11. Len(b.made) \in Nat
  BY <1>1, BoardFields
<1> HIDE DEF y
<1>12. DocOK(x)
  <2>1. Seq(EntryOf(d)) \subseteq Seq(Entry(Len(y.made), y.born))
    BY <1>8, <1>10, <1>11, EntryGrows DEF EntryOf
  <2>2. x = [board |-> y, undo |-> d.undo, redo |-> d.redo, dirty |-> d.dirty,
             engine |-> d.engine]
    BY <1>6, <1>7
  <2>3. /\ d.undo \in Seq(Entry(Len(y.made), y.born))
        /\ d.redo \in Seq(Entry(Len(y.made), y.born))
    BY <1>1, <2>1, DocFields
  <2> HIDE DEF f
  <2> QED
    BY <1>1, <1>9, <2>2, <2>3, DocMade
<1>13. x.board.born = f /\ x.undo = d.undo /\ x.redo = d.redo
       /\ Sight(x.board) = Reposed(Sight(b), f, p) /\ Sight(x.board).parts = b.parts
  BY <1>6, <1>7, <1>10
<1>14. Rewindable(c, x)
  <2>0. Placements(c.was.board.born) \subseteq Placements(x.board.born)
    <3>1. Placements(b.born) \subseteq Placements(f)
      BY <1>8, <1>11, EntryGrows
    <3>2. Placements(c.was.board.born) \subseteq Placements(b.born)
      BY DEF Rewindable
    <3> HIDE DEF f
    <3> QED
      BY <1>13, <3>1, <3>2
  <2> SUFFICES ASSUME c.tight PROVE Tight(x, Sight(x.board), c.opened, c.tip)
    BY <1>12, <2>0 DEF Rewindable
  <2>1. Tight(d, Sight(b), c.opened, c.tip)
    BY DEF Rewindable
  <2>2. d.undo \in Seq(EntryOf(d)) /\ d.redo \in Seq(EntryOf(d))
    BY <1>1, DocFields
  <2>3. Turned(d.undo) \in Seq(EntryOf(d))
    BY <2>2, TurnedTyped DEF EntryOf
  <2>4. Leads(Turned(d.undo), Reposed(Sight(b), f, p), c.opened, f)
    BY <1>8, <1>11, <2>1, <2>3, LeadsReposed DEF Tight, EntryOf
  <2>5. d.redo # <<>> => Leads(d.redo, Reposed(Sight(b), f, p), c.tip, f)
    BY <1>8, <1>11, <2>1, <2>2, LeadsReposed DEF Tight, EntryOf
  <2> QED
    BY <1>13, <2>4, <2>5 DEF Tight
<1>15. /\ Placing(f) \in EntryOf(x)
       /\ Exchange(Sight(x.board), Placing(f), After(Sight(x.board), Placing(f)))
  <2>1. f \notin b.parts
    BY <1>1, <1>8, BoardFields
  <2>2. Sight(x.board) \in Sights(f)
    BY <1>7, <1>9, <1>10, SightTyped
  <2> HIDE DEF f
  <2> QED
    BY <1>8, <1>13, <2>1, <2>2, PlacingEntry DEF EntryOf
<1> HIDE DEF f
<1>16. Reached(c, Do(x, Placing(f)))
  BY <1>14, <1>15, DoReached
<1>17. Do(x, Placing(f)).board.born = f
  BY <1>12, <1>13, <1>15, DoIs
<1> QED
  BY <1>5, <1>8, <1>16, <1>17

(* The pair router: when it is not the new side that was tuned, the two    *)
(* entries could as well have been pushed the other way round.             *)
Paired(d, n, side, wire) ==
  LET mate == NewPiece(d)
      both == Notified([Make(d, n, FALSE) EXCEPT !.board.copper = @ \cup {mate}])
  IN  Push(Tuned(both, side, wire), Copper({}, {mate}))

LEMMA PairedReached ==
  ASSUME NEW c, NEW d, Reached(c, d), NEW n \in BoardNet, NEW side \in BoardNet, NEW wire,
         c.tight => wire # NewPiece(d)
  PROVE  Reached(c, Paired(d, n, side, wire))
<1> DEFINE mate == NewPiece(d)
           two == Make(d, n, FALSE)
           S == two.board.copper \cup {mate}
           both == Notified([two EXCEPT !.board.copper = S])
           e == Copper({}, {mate})
           R == Push(Tuned(both, side, wire), e)
           b == two.board
<1>1. /\ Rewindable(c, two) /\ two.board.copper = d.board.copper
      /\ mate \in 1..Len(two.board.made) /\ mate \notin two.board.copper /\ mate \in Nat
      /\ NewPiece(two) = mate + 1
  <2>1. Rewindable(c, d) /\ FALSE \in BOOLEAN
    BY DEF Reached
  <2>2. /\ Rewindable(c, two) /\ two.board.copper = d.board.copper
        /\ mate \in 1..Len(two.board.made) /\ mate \notin d.board.copper
        /\ NewPiece(two) = mate + 1 /\ mate \in Nat
    BY <2>1, MakeOK
  <2> HIDE DEF two, mate
  <2> QED
    BY <2>2
<1>2. Paired(d, n, side, wire) = R
  BY DEF Paired
<1> HIDE DEF two, mate
<1>3. DocOK(two) /\ BoardOK(b)
  BY <1>1, DocFields DEF Rewindable
<1>4. S \in SUBSET (1..Len(b.made)) /\ {mate} \in SUBSET (1..Len(b.made))
  BY <1>1, <1>3, BoardFields
<1>5. /\ both = [board |-> [copper |-> S, made |-> b.made, parts |-> b.parts,
                            born |-> b.born, pose |-> b.pose, pads |-> b.pads, nets |-> b.nets],
                 undo |-> two.undo, redo |-> two.redo, dirty |-> TRUE, engine |-> Stale]
      /\ DocOK(both)
  BY <1>3, <1>4, CopperChanged
<1>6. b.pose \in [Footprint -> Pose] /\ Put(Still, b.pose) = b.pose
  BY <1>3, BoardFields, StillTyped
<1> HIDE DEF both
<1>7. CASE ~(wire \in Tracks(both, side) /\ Room(both, 1))
  <2>1. R = Push(both, e)
    BY <1>7 DEF Tuned
  <2>2. {} \subseteq b.copper /\ {mate} \cap b.copper = {}
    BY <1>1
  <2>3. Reached(c, Do(two, e)) /\ e \in EntryOf(two)
    BY <1>1, <1>4, <2>2, CopperReached
  <2>4. EntryOf(both) = EntryOf(two)
    BY <1>5 DEF EntryOf
  <2>5. Push(both, e) = [board |-> both.board, undo |-> Append(two.undo, e), redo |-> <<>>,
                         dirty |-> TRUE, engine |-> Stale]
    <3>1. e \in EntryOf(both) /\ DocOK(both)
      BY <1>5, <2>3, <2>4
    <3>2. both.undo = two.undo /\ both.dirty = TRUE /\ both.engine = Stale
      BY <1>5
    <3> HIDE DEF e
    <3>3. Push(both, e) = [board |-> both.board, undo |-> Append(both.undo, e), redo |-> <<>>,
                           dirty |-> both.dirty, engine |-> both.engine]
      BY <3>1, PushOK
    <3> QED
      BY <3>2, <3>3
  <2>6. Do(two, e) =
              [board |-> [copper |-> (b.copper \ {}) \cup {mate}, made |-> b.made,
                          parts |-> (b.parts \ {}) \cup {}, born |-> b.born,
                          pose |-> b.pose, pads |-> b.pads, nets |-> b.nets],
               undo |-> Append(two.undo, e), redo |-> <<>>, dirty |-> TRUE, engine |-> Stale]
    <3>1. e.out = {} /\ e.in = {mate} /\ e.gone = {} /\ e.new = {} /\ e.to = Still
      BY DEF Copper
    <3> HIDE DEF e
    <3> QED
      BY <1>3, <1>6, <2>3, <3>1, DoIs
  <2>7. (b.copper \ {}) \cup {mate} = S /\ (b.parts \ {}) \cup {} = b.parts
    OBVIOUS
  <2> HIDE DEF e, S
  <2>8. R = Do(two, e)
    BY <1>5, <2>1, <2>5, <2>6, <2>7
  <2> QED
    BY <1>2, <2>3, <2>8
<1>8. CASE wire \in Tracks(both, side) /\ Room(both, 1) /\ wire = mate
  <2>1. Reached(c, both)
    <3>1. Rewindable(c, both)
      BY <1>1, <1>5, <1>8 DEF Rewindable, mate
    <3>2. both.dirty = TRUE /\ both.engine = Stale
      BY <1>5
    <3>3. Marked(c.was, both)
      BY <3>2, Told
    <3> QED
      BY <3>1, <3>3 DEF Reached
  <2> DEFINE three == Make(both, side, FALSE)
             f == Copper({wire}, {NewPiece(both)})
             tuned == Tuned(both, side, wire)
  <2>2. tuned = Do(three, f)
    BY <1>8 DEF Tuned
  <2>3. /\ Rewindable(c, three) /\ three.board.copper = both.board.copper
        /\ three.board.made = Append(both.board.made, [net |-> side, pour |-> FALSE])
        /\ three.board.born = both.board.born
        /\ NewPiece(both) \in 1..Len(three.board.made)
        /\ NewPiece(both) \notin both.board.copper
    <3>1. Rewindable(c, both) /\ FALSE \in BOOLEAN
      BY <2>1 DEF Reached
    <3>2. three = [board |-> [copper |-> both.board.copper,
                              made |-> Append(both.board.made, [net |-> side, pour |-> FALSE]),
                              parts |-> both.board.parts, born |-> both.board.born,
                              pose |-> both.board.pose, pads |-> both.board.pads,
                              nets |-> both.board.nets],
                   undo |-> both.undo, redo |-> both.redo, dirty |-> both.dirty,
                   engine |-> both.engine]
      BY <3>1, MakeOK
    <3>3. /\ Rewindable(c, three) /\ NewPiece(both) \in 1..Len(three.board.made)
          /\ NewPiece(both) \notin both.board.copper
      BY <3>1, MakeOK
    <3> HIDE DEF three
    <3> QED
      BY <3>2, <3>3
  <2> HIDE DEF three
  <2>4. /\ {NewPiece(both)} \in SUBSET (1..Len(three.board.made))
        /\ {NewPiece(both)} \cap three.board.copper = {} /\ {wire} \subseteq three.board.copper
    BY <1>8, <2>3, TracksOf
  <2>5. DocOK(tuned) /\ EntryOf(tuned) = EntryOf(three) /\ tuned.dirty = TRUE
        /\ tuned.engine = Stale /\ tuned.board.born = b.born
    <3>1. DocOK(three) /\ f \in EntryOf(three)
      BY <2>3, <2>4, CopperReached DEF Rewindable
    <3> HIDE DEF f, tuned
    <3> QED
      BY <1>5, <2>2, <2>3, <3>1, DoIs DEF tuned
  <2>6. e \in EntryOf(three)
    <3>1. Len(three.board.made) = Len(b.made) + 1 /\ Len(b.made) \in Nat
      BY <1>3, <1>5, <2>3, BoardFields
    <3>2. {mate} \in SUBSET (1..Len(three.board.made)) /\ {} \in SUBSET (1..Len(three.board.made))
      BY <1>4, <3>1
    <3> QED
      BY <3>2, CopperEntry DEF EntryOf
  <2> HIDE DEF e, tuned
  <2>7. /\ DocOK(Push(tuned, e)) /\ Push(tuned, e).board = tuned.board
        /\ Push(tuned, e).dirty = TRUE /\ Push(tuned, e).engine = Stale
    BY <2>5, <2>6, PushOK
  <2>8. Rewindable(c, Push(tuned, e)) /\ Marked(c.was, Push(tuned, e))
    BY <1>1, <1>8, <2>5, <2>7, Told DEF Rewindable, mate
  <2> QED
    BY <1>2, <2>8 DEF Reached, tuned
<1>9. CASE wire \in Tracks(both, side) /\ Room(both, 1) /\ wire # mate
  <2> DEFINE three == Make(both, side, FALSE)
             four == Make(two, side, FALSE)
             m == Append(b.made, [net |-> side, pour |-> FALSE])
             f == Copper({wire}, {mate + 1})
             five == Do(four, f)
             tuned == Tuned(both, side, wire)
  <2>1. four = [board |-> [copper |-> b.copper, made |-> m, parts |-> b.parts, born |-> b.born,
                           pose |-> b.pose, pads |-> b.pads, nets |-> b.nets],
                undo |-> two.undo, redo |-> two.redo, dirty |-> two.dirty,
                engine |-> two.engine]
        /\ Rewindable(c, four) /\ NewPiece(two) \in 1..Len(four.board.made)
        /\ NewPiece(two) \notin b.copper
    <3>1. FALSE \in BOOLEAN
      OBVIOUS
    <3> QED
      BY <1>1, <3>1, MakeOK
  <2>2. NewPiece(both) = mate + 1
    BY <1>1, <1>5 DEF NewPiece
  <2>3. three = [board |-> [copper |-> S, made |-> m, parts |-> b.parts, born |-> b.born,
                            pose |-> b.pose, pads |-> b.pads, nets |-> b.nets],
                 undo |-> two.undo, redo |-> two.redo, dirty |-> TRUE, engine |-> Stale]
    <3> DEFINE z == [was |-> two, opened |-> {}, tip |-> {}, tight |-> FALSE]
    <3>1. Rewindable(z, both) /\ FALSE \in BOOLEAN
      BY <1>5 DEF Rewindable
    <3> HIDE DEF z
    <3>2. three = [board |-> [copper |-> both.board.copper,
                              made |-> Append(both.board.made, [net |-> side, pour |-> FALSE]),
                              parts |-> both.board.parts, born |-> both.board.born,
                              pose |-> both.board.pose, pads |-> both.board.pads,
                              nets |-> both.board.nets],
                   undo |-> both.undo, redo |-> both.redo, dirty |-> both.dirty,
                   engine |-> both.engine]
      BY <3>1, MakeOK
    <3> HIDE DEF three, S, m
    <3> QED
      BY <1>5, <3>2 DEF m
  <2>4. wire \in b.copper
    <3>1. wire \in both.board.copper
      BY <1>9, TracksOf
    <3> QED
      BY <1>5, <1>9, <3>1
  <2> HIDE DEF three, four, m
  <2>5. /\ {wire} \subseteq four.board.copper
        /\ {mate + 1} \in SUBSET (1..Len(four.board.made))
        /\ {mate + 1} \cap four.board.copper = {}
    BY <1>1, <2>1, <2>4
  <2>6. f \in EntryOf(four) /\ Reached(c, five) /\ EntryOf(five) = EntryOf(four)
    BY <2>1, <2>5, CopperReached
  <2>7. f.out = {wire} /\ f.in = {mate + 1} /\ f.gone = {} /\ f.new = {} /\ f.to = Still
    BY DEF Copper
  <2>8. e.out = {} /\ e.in = {mate} /\ e.gone = {} /\ e.new = {} /\ e.to = Still
    BY DEF Copper
  <2>9. tuned = Do(three, f)
    BY <1>9, <2>2 DEF Tuned, three
  <2>10. EntryOf(three) = EntryOf(four) /\ DocOK(four) /\ DocOK(three)
    <3>1. EntryOf(three) = EntryOf(four)
      BY <2>1, <2>3 DEF EntryOf
    <3>2. DocOK(four)
      BY <2>1 DEF Rewindable
    <3> DEFINE z == [was |-> two, opened |-> {}, tip |-> {}, tight |-> FALSE]
    <3>3. Rewindable(z, both) /\ FALSE \in BOOLEAN
      BY <1>5 DEF Rewindable
    <3> HIDE DEF z
    <3>4. Rewindable(z, three)
      BY <3>3, MakeOK DEF three
    <3> QED
      BY <3>1, <3>2, <3>4 DEF Rewindable
  <2> HIDE DEF e, f, S, tuned
  <2>11. five = [board |-> [copper |-> (b.copper \ {wire}) \cup {mate + 1}, made |-> m,
                            parts |-> (b.parts \ {}) \cup {}, born |-> b.born,
                            pose |-> b.pose, pads |-> b.pads, nets |-> b.nets],
                 undo |-> Append(two.undo, f), redo |-> <<>>, dirty |-> TRUE, engine |-> Stale]
    <3>1. five = [board |-> [copper |-> (four.board.copper \ f.out) \cup f.in,
                             made |-> four.board.made,
                             parts |-> (four.board.parts \ f.gone) \cup f.new,
                             born |-> four.board.born,
                             pose |-> Put(f.to, four.board.pose), pads |-> four.board.pads,
                             nets |-> four.board.nets],
                  undo |-> Append(four.undo, f), redo |-> <<>>, dirty |-> TRUE, engine |-> Stale]
      BY <2>6, <2>10, DoIs
    <3> QED
      BY <1>6, <2>1, <2>7, <3>1
  <2>12. tuned = [board |-> [copper |-> (S \ {wire}) \cup {mate + 1}, made |-> m,
                             parts |-> (b.parts \ {}) \cup {}, born |-> b.born,
                             pose |-> b.pose, pads |-> b.pads, nets |-> b.nets],
                  undo |-> Append(two.undo, f), redo |-> <<>>, dirty |-> TRUE, engine |-> Stale]
         /\ DocOK(tuned) /\ EntryOf(tuned) = EntryOf(four)
    <3>1. /\ Do(three, f) =
               [board |-> [copper |-> (three.board.copper \ f.out) \cup f.in,
                           made |-> three.board.made,
                           parts |-> (three.board.parts \ f.gone) \cup f.new,
                           born |-> three.board.born,
                           pose |-> Put(f.to, three.board.pose), pads |-> three.board.pads,
                           nets |-> three.board.nets],
                undo |-> Append(three.undo, f), redo |-> <<>>, dirty |-> TRUE, engine |-> Stale]
          /\ DocOK(Do(three, f)) /\ EntryOf(Do(three, f)) = EntryOf(three)
      BY <2>6, <2>10, DoIs
    <3> QED
      BY <1>6, <2>3, <2>7, <2>9, <2>10, <3>1
  <2>13. e \in EntryOf(five) /\ Reached(c, Do(five, e))
    <3>1. Rewindable(c, five)
      BY <2>6 DEF Reached
    <3>2. {mate} \in SUBSET (1..Len(m))
      BY <1>1, <2>1
    <3>3. five.board.copper = (b.copper \ {wire}) \cup {mate + 1} /\ five.board.made = m
      BY <2>11
    <3> HIDE DEF five
    <3>4. {mate} \cap five.board.copper = {} /\ {} \subseteq five.board.copper
          /\ {mate} \in SUBSET (1..Len(five.board.made))
      BY <1>1, <3>2, <3>3
    <3> QED
      BY <3>1, <3>4, CopperReached DEF e
  <2>14. Do(five, e) =
           [board |-> [copper |-> (((b.copper \ {wire}) \cup {mate + 1}) \ {}) \cup {mate},
                       made |-> m, parts |-> (((b.parts \ {}) \cup {}) \ {}) \cup {},
                       born |-> b.born,
                       pose |-> b.pose, pads |-> b.pads, nets |-> b.nets],
            undo |-> Append(Append(two.undo, f), e), redo |-> <<>>, dirty |-> TRUE,
            engine |-> Stale]
    <3>1. DocOK(five)
      BY <2>6 DEF Reached, Rewindable
    <3>2. Do(five, e) =
            [board |-> [copper |-> (five.board.copper \ e.out) \cup e.in,
                        made |-> five.board.made,
                        parts |-> (five.board.parts \ e.gone) \cup e.new,
                        born |-> five.board.born,
                        pose |-> Put(e.to, five.board.pose), pads |-> five.board.pads,
                        nets |-> five.board.nets],
             undo |-> Append(five.undo, e), redo |-> <<>>, dirty |-> TRUE, engine |-> Stale]
      BY <2>13, <3>1, DoIs
    <3> HIDE DEF five
    <3> QED
      BY <1>6, <2>8, <2>11, <3>2
  <2>15. Push(tuned, e) = [board |-> tuned.board, undo |-> Append(tuned.undo, e), redo |-> <<>>,
                           dirty |-> tuned.dirty, engine |-> tuned.engine]
    <3>1. e \in EntryOf(tuned)
      BY <2>6, <2>12, <2>13
    <3> QED
      BY <2>12, <3>1, PushOK
  <2>16. /\ (((b.copper \ {wire}) \cup {mate + 1}) \ {}) \cup {mate}
              = (S \ {wire}) \cup {mate + 1}
         /\ (((b.parts \ {}) \cup {}) \ {}) \cup {} = (b.parts \ {}) \cup {}
    BY <1>9 DEF S
  <2>17. Push(tuned, e) = Do(five, e)
    BY <2>12, <2>14, <2>15, <2>16
  <2> QED
    BY <1>2, <2>13, <2>17 DEF tuned
<1> QED
  BY <1>7, <1>8, <1>9

(* Undo and redo take an entry from one path and put it on the other.      *)
LEMMA UndoReached ==
  ASSUME NEW c, NEW d, Rewindable(c, d), d.undo # <<>>,
         c.tight /\ d.redo = <<>> => c.tip = Shown(d.board)
  PROVE  Reached(c, UndoLast(d)) /\ UndoLast(d).board.born = d.board.born
<1> DEFINE T == EntryOf(d)
           e == Last(d.undo)
           F == Front(d.undo)
           y == Apply(d, Backwards(e))
           x == UndoLast(d)
           n == d.board.born
           v == Sight(d.board)
           vb == Sight(y.board)
<1>1. DocOK(d) /\ BoardOK(d.board) /\ d.undo \in Seq(T) /\ d.redo \in Seq(T)
  BY DocFields DEF Rewindable
<1>2. F \in Seq(T) /\ e \in T /\ d.undo = Append(F, e)
  BY <1>1, FrontLast
<1>3. Backwards(e) \in T /\ Backwards(Backwards(e)) = e
  BY <1>2, BackwardsTwice DEF EntryOf
<1>4. /\ DocOK(y) /\ EntryOf(y) = T /\ vb = After(v, Backwards(e)) /\ y.board.born = n
      /\ y.undo = d.undo /\ y.redo = d.redo /\ y.dirty = TRUE /\ y.engine = Stale
  BY <1>1, <1>3, ApplyOK
<1>5. x = [board |-> y.board, undo |-> F, redo |-> Append(d.redo, e), dirty |-> TRUE,
           engine |-> Stale]
  <2>1. x = [y EXCEPT !.undo = Front(y.undo), !.redo = Append(y.redo, e)]
    BY DEF UndoLast
  <2>2. Front(y.undo) = F /\ Append(y.redo, e) = Append(d.redo, e)
    BY <1>4
  <2> HIDE DEF e, F, x, y
  <2>3. y \in [board : {y.board}, undo : {y.undo}, redo : {y.redo}, dirty : {TRUE},
               engine : {Stale}]
    <3>1. y = [board |-> y.board, undo |-> y.undo, redo |-> y.redo, dirty |-> y.dirty,
               engine |-> y.engine]
      BY <1>4, DocFields
    <3>2. y.dirty = TRUE /\ y.engine = Stale
      BY <1>4
    <3> QED
      BY <3>1, <3>2
  <2>4. x \in [board : {y.board}, undo : {F}, redo : {Append(d.redo, e)}, dirty : {TRUE},
               engine : {Stale}]
    BY <2>1, <2>2, <2>3
  <2> QED
    BY <2>4
<1> HIDE DEF x, y, e, F, T, v, vb
<1>6. Append(d.redo, e) \in Seq(T)
  BY <1>1, <1>2
<1>7. BoardOK(y.board)
  BY <1>4, DocFields
<1>8. DocOK(x)
  <2>1. F \in Seq(Entry(Len(y.board.made), y.board.born))
        /\ Append(d.redo, e) \in Seq(Entry(Len(y.board.made), y.board.born))
    BY <1>2, <1>4, <1>6 DEF EntryOf
  <2> QED
    BY <1>5, <1>7, <2>1, DocMade
<1>9. v \in Sights(n) /\ vb \in Sights(n) /\ Shown(v) = Shown(d.board)
  BY <1>1, <1>4, <1>7, SightTyped DEF v, vb
<1>10. ASSUME c.tight
       PROVE  Tight(x, vb, c.opened, c.tip)
  <2>1. Leads(Turned(d.undo), v, c.opened, n) /\ (d.redo # <<>> => Leads(d.redo, v, c.tip, n))
    BY <1>10 DEF Rewindable, Tight, v
  <2>2. Turned(F) \in Seq(T) /\ Turned(d.undo) = Append(Turned(F), Backwards(e))
    BY <1>2, TurnedTyped, TurnedPush DEF T, EntryOf
  <2> HIDE DEF n
  <2>3. Exchange(v, Backwards(e), vb) /\ Leads(Turned(F), vb, c.opened, n)
    BY <1>3, <1>4, <2>1, <2>2, LeadsPop
  <2>4. Exchange(vb, e, v)
    BY <1>3, <2>3, ExchangeBack DEF T, EntryOf
  <2>5. Leads(d.redo, v, c.tip, n)
    <3>1. CASE d.redo = <<>>
      <4>1. c.tip = Shown(v)
        BY <1>9, <1>10, <3>1
      <4> QED
        BY <1>9, <3>1, <4>1, LeadsNothing
    <3> QED
      BY <2>1, <3>1
  <2>6. Leads(Append(d.redo, e), vb, c.tip, n)
    BY <1>1, <1>2, <1>9, <2>4, <2>5, LeadsPush
  <2> QED
    BY <1>4, <1>5, <2>3, <2>6 DEF Tight, n
<1>11. Rewindable(c, x)
  <2>1. x.board = y.board
    BY <1>5
  <2>2. Placements(c.was.board.born) \subseteq Placements(x.board.born)
    BY <1>4, <2>1 DEF Rewindable
  <2> QED
    BY <1>8, <1>10, <2>1, <2>2 DEF Rewindable, vb
<1>12. x.dirty = TRUE /\ x.engine = Stale /\ x.board.born = n
  BY <1>4, <1>5
<1>13. Marked(c.was, x)
  BY <1>12, Told
<1> QED
  BY <1>11, <1>12, <1>13 DEF Reached, x

LEMMA RedoReached ==
  ASSUME NEW c, NEW d, Rewindable(c, d), d.redo # <<>>
  PROVE  Reached(c, RedoLast(d)) /\ RedoLast(d).board.born = d.board.born
<1> DEFINE T == EntryOf(d)
           e == Last(d.redo)
           F == Front(d.redo)
           y == Apply(d, e)
           x == RedoLast(d)
           n == d.board.born
           v == Sight(d.board)
           vb == Sight(y.board)
<1>1. DocOK(d) /\ BoardOK(d.board) /\ d.undo \in Seq(T) /\ d.redo \in Seq(T)
  BY DocFields DEF Rewindable
<1>2. F \in Seq(T) /\ e \in T /\ d.redo = Append(F, e)
  BY <1>1, FrontLast
<1>3. Backwards(e) \in T
  BY <1>2, BackwardsTwice DEF EntryOf
<1>4. /\ DocOK(y) /\ EntryOf(y) = T /\ vb = After(v, e) /\ y.board.born = n
      /\ y.undo = d.undo /\ y.redo = d.redo /\ y.dirty = TRUE /\ y.engine = Stale
  BY <1>1, <1>2, ApplyOK
<1>5. x = [board |-> y.board, undo |-> Append(d.undo, e), redo |-> F, dirty |-> TRUE,
           engine |-> Stale]
  <2>1. x = [y EXCEPT !.redo = Front(y.redo), !.undo = Append(y.undo, e)]
    BY DEF RedoLast
  <2>2. Front(y.redo) = F /\ Append(y.undo, e) = Append(d.undo, e)
    BY <1>4
  <2> HIDE DEF e, F, x, y
  <2>3. y \in [board : {y.board}, undo : {y.undo}, redo : {y.redo}, dirty : {TRUE},
               engine : {Stale}]
    <3>1. y = [board |-> y.board, undo |-> y.undo, redo |-> y.redo, dirty |-> y.dirty,
               engine |-> y.engine]
      BY <1>4, DocFields
    <3>2. y.dirty = TRUE /\ y.engine = Stale
      BY <1>4
    <3> QED
      BY <3>1, <3>2
  <2>4. x \in [board : {y.board}, undo : {Append(d.undo, e)}, redo : {F}, dirty : {TRUE},
               engine : {Stale}]
    BY <2>1, <2>2, <2>3
  <2> QED
    BY <2>4
<1> HIDE DEF x, y, e, F, T, v, vb
<1>6. Append(d.undo, e) \in Seq(T)
  BY <1>1, <1>2
<1>7. BoardOK(y.board)
  BY <1>4, DocFields
<1>8. DocOK(x)
  <2>1. F \in Seq(Entry(Len(y.board.made), y.board.born))
        /\ Append(d.undo, e) \in Seq(Entry(Len(y.board.made), y.board.born))
    BY <1>2, <1>4, <1>6 DEF EntryOf
  <2> QED
    BY <1>5, <1>7, <2>1, DocMade
<1>9. v \in Sights(n) /\ vb \in Sights(n)
  BY <1>1, <1>4, <1>7, SightTyped DEF v, vb
<1>10. ASSUME c.tight
       PROVE  Tight(x, vb, c.opened, c.tip)
  <2>1. Leads(Turned(d.undo), v, c.opened, n) /\ Leads(d.redo, v, c.tip, n)
    BY <1>10 DEF Rewindable, Tight, v
  <2>2. /\ Turned(d.undo) \in Seq(T)
        /\ Turned(Append(d.undo, e)) = Append(Turned(d.undo), Backwards(e))
    BY <1>1, <1>2, TurnedTyped, TurnedPush DEF T, EntryOf
  <2> HIDE DEF n
  <2>3. Exchange(v, e, vb) /\ Leads(F, vb, c.tip, n)
    BY <1>2, <1>4, <2>1, LeadsPop
  <2>4. Exchange(vb, Backwards(e), v)
    BY <1>2, <2>3, ExchangeBack DEF T, EntryOf
  <2>5. Leads(Turned(Append(d.undo, e)), vb, c.opened, n)
    BY <1>3, <1>9, <2>1, <2>2, <2>4, LeadsPush
  <2> QED
    BY <1>4, <1>5, <2>3, <2>5 DEF Tight, n
<1>11. Rewindable(c, x)
  <2>1. x.board = y.board
    BY <1>5
  <2>2. Placements(c.was.board.born) \subseteq Placements(x.board.born)
    BY <1>4, <2>1 DEF Rewindable
  <2> QED
    BY <1>8, <1>10, <2>1, <2>2 DEF Rewindable, vb
<1>12. x.dirty = TRUE /\ x.engine = Stale /\ x.board.born = n
  BY <1>4, <1>5
<1>13. Marked(c.was, x)
  BY <1>12, Told
<1> QED
  BY <1>11, <1>12, <1>13 DEF Reached, x

-----------------------------------------------------------------------------
(* Applying all the entries of a path leads where the path does.           *)
Unwinding(g, d, w) ==
  g = [n \in 0..Len(w) |-> IF n = 0 THEN d ELSE Apply(g[n - 1], w[Len(w) + 1 - n])]

LEMMA UnwindingExists ==
  ASSUME NEW d, NEW w, Len(w) \in Nat
  PROVE  \E g : Unwinding(g, d, w)
<1> DEFINE Value(n, g) == IF n = 0 THEN d ELSE Apply(g[n - 1], w[Len(w) + 1 - n])
           Upto(m, g) == g = [n \in 0..m |-> Value(n, g)]
           Bad == {m \in Nat : ~ \E g : Upto(m, g)}
<1>1. Bad = {}
  <2> SUFFICES ASSUME Bad # {} PROVE FALSE
    OBVIOUS
  <2>1. PICK m \in Bad : \A k \in Bad : m <= k
    <3>1. Bad \in SUBSET Nat
      OBVIOUS
    <3> HIDE DEF Bad
    <3> QED
      BY <3>1, SmallestOf
  <2>2. CASE m = 0
    <3> DEFINE g == [n \in 0..0 |-> d]
    <3>1. g = [n \in 0..0 |-> Value(n, g)]
      OBVIOUS
    <3> QED
      BY <2>1, <2>2, <3>1
  <2>3. CASE m # 0
    <3>1. m \in Nat /\ m - 1 \in Nat /\ m - 1 \notin Bad
      <4>1. m \in Nat /\ \A k \in Bad : m <= k
        BY <2>1
      <4> HIDE DEF Bad
      <4> QED
        BY <2>3, <4>1
    <3>2. PICK h : Upto(m - 1, h)
      BY <3>1
    <3> DEFINE g == [n \in 0..m |-> Value(n, h)]
    <3>3. \A n \in 0..m : n # 0 => n - 1 \in 0..(m - 1) /\ n - 1 \in 0..m
      BY <3>1
    <3>4. \A n \in 0..m : n # 0 => g[n - 1] = h[n - 1]
      <4> TAKE n \in 0..m
      <4> HAVE n # 0
      <4> DEFINE r == n - 1
      <4>1. r \in 0..(m - 1) /\ r \in 0..m
        BY <3>3
      <4> HIDE DEF r, Value
      <4>2. h[r] = Value(r, h)
        <5>1. h = [q \in 0..(m - 1) |-> Value(q, h)]
          BY <3>2
        <5> HIDE DEF Upto
        <5> QED
          BY <4>1, <5>1, Zenon
      <4>3. g[r] = Value(r, h)
        BY <4>1
      <4> QED
        BY <4>2, <4>3 DEF r
    <3>5. \A n \in 0..m : Value(n, h) = Value(n, g)
      <4> TAKE n \in 0..m
      <4>1. n # 0 => g[n - 1] = h[n - 1]
        BY <3>4
      <4> HIDE DEF g
      <4> QED
        BY <4>1
    <3>6. g = [n \in 0..m |-> Value(n, g)]
      <4> HIDE DEF Value
      <4> QED
        BY <3>5
    <3>7. Upto(m, g)
      BY <3>6
    <3> QED
      BY <2>1, <3>7
  <2> QED
    BY <2>2, <2>3
<1> DEFINE m == Len(w)
<1>2. PICK g : Upto(m, g)
  BY <1>1
<1>3. Unwinding(g, d, w)
  BY <1>2 DEF Unwinding
<1> QED
  BY <1>3

LEMMA Unwound ==
  ASSUME NEW d, DocOK(d), NEW w \in Seq(EntryOf(d)), NEW o,
         Leads(w, Sight(d.board), o, d.board.born)
  PROVE  Shown(AllApplied(d, w).board) = o
<1> DEFINE T == EntryOf(d)
           m == Len(w)
           g == CHOOSE h : Unwinding(h, d, w)
<1>1. m \in Nat /\ \A k \in 1..m : w[k] \in T
  <2>1. w \in Seq(T)
    OBVIOUS
  <2> HIDE DEF T
  <2> QED
    BY <2>1
<1>2. Unwinding(g, d, w)
  BY <1>1, UnwindingExists
<1>3. AllApplied(d, w) = g[m]
  BY DEF AllApplied, Unwinding
<1> HIDE DEF g
<1>4. PICK s : Path(w, s, Sight(d.board), o, d.board.born)
  BY DEF Leads
<1>5. \A n \in 0..m : g[n] = IF n = 0 THEN d ELSE Apply(g[n - 1], w[m + 1 - n])
  <2> DEFINE F(n) == IF n = 0 THEN d ELSE Apply(g[n - 1], w[m + 1 - n])
  <2>1. g = [n \in 0..m |-> F(n)]
    BY <1>2 DEF Unwinding
  <2> HIDE DEF F
  <2>2. \A n \in 0..m : g[n] = F(n)
    BY <2>1, Zenon
  <2> QED
    BY <2>2 DEF F
<1> DEFINE On(n) == DocOK(g[n]) /\ EntryOf(g[n]) = T /\ Sight(g[n].board) = s[m - n]
           Bad == {n \in 0..m : ~On(n)}
<1> HIDE DEF T
<1>6. Bad = {}
  <2> SUFFICES ASSUME Bad # {} PROVE FALSE
    OBVIOUS
  <2>1. PICK n \in Bad : \A k \in Bad : n <= k
    <3>1. Bad \in SUBSET Nat
      OBVIOUS
    <3> HIDE DEF Bad
    <3> QED
      BY <3>1, SmallestOf
  <2>2. CASE n = 0
    <3>1. g[0] = d /\ s[m - 0] = Sight(d.board) /\ EntryOf(d) = T
      BY <1>1, <1>4, <1>5 DEF Path, T
    <3>2. On(0)
      BY <3>1
    <3> QED
      BY <2>1, <2>2, <3>2
  <2>3. CASE n # 0
    <3>1. n \in 0..m /\ n - 1 \in 0..m /\ m + 1 - n \in 1..m /\ m - (n - 1) = m + 1 - n
          /\ m + 1 - n - 1 = m - n
      BY <1>1, <2>1, <2>3
    <3>2. On(n - 1)
      <4> SUFFICES ASSUME ~On(n - 1) PROVE FALSE
        OBVIOUS
      <4> HIDE DEF On
      <4>1. n - 1 \in Bad
        BY <3>1
      <4>2. n <= n - 1
        BY <2>1, <4>1
      <4> QED
        BY <3>1, <4>2
    <3> DEFINE e == w[m + 1 - n]
               a == g[n - 1]
    <3>3. e \in T /\ g[n] = Apply(a, e)
      BY <1>1, <1>5, <2>3, <3>1
    <3>4. DocOK(a) /\ EntryOf(a) = T /\ Sight(a.board) = s[m + 1 - n]
      BY <3>1, <3>2
    <3>5. s[m - n] = After(s[m + 1 - n], e)
      BY <1>4, <3>1 DEF Path, Exchange
    <3> HIDE DEF a, e
    <3>6. DocOK(g[n]) /\ EntryOf(g[n]) = T /\ Sight(g[n].board) = After(Sight(a.board), e)
      BY <3>3, <3>4, ApplyOK
    <3>7. On(n)
      BY <3>4, <3>5, <3>6
    <3> HIDE DEF On
    <3> QED
      BY <2>1, <3>7
  <2> QED
    BY <2>2, <2>3
<1>7. On(m)
  <2>1. m \in 0..m
    BY <1>1
  <2> HIDE DEF On
  <2> QED
    BY <1>6, <2>1
<1>8. Sight(g[m].board) = s[0] /\ BoardOK(g[m].board)
  <2>1. m - m = 0
    BY <1>1
  <2> QED
    BY <1>7, <2>1, DocFields
<1>9. Shown(g[m].board) = Shown(s[0])
  BY <1>8, SightTyped
<1> QED
  BY <1>3, <1>4, <1>9 DEF Path

-----------------------------------------------------------------------------
(* The inductive invariant.  While nothing was changed past the stack,     *)
(* each stack leads from what is on the screen, or during a drag from      *)
(* where it began, to what was opened, or to what the last redo restores.  *)
EditorInv ==
  /\ EditorTypeOK /\ EngineCurrent /\ CleanIsOnDisk
  /\ newer => autosave # NoProject
  /\ Idle => drag.from = Still
  /\ doc.redo = <<>> => tip = Shown(doc.board)
  /\ ~loose => Tight(doc, Dragged(doc.board, drag.from), opened, tip)

(* What a handler of this state starts from.                               *)
Ctx(past) == [was |-> doc, opened |-> opened, tip |-> tip, tight |-> ~(loose \/ past)]

LEMMA DraggedNothing ==
  ASSUME NEW b, BoardOK(b), NEW from, DOMAIN from = {}
  PROVE  Dragged(b, from) = Sight(b)
<1>1. b.pose \in [Footprint -> Pose]
  BY BoardFields
<1>2. Put(from, b.pose) = b.pose
  BY <1>1 DEF Put
<1> QED
  BY <1>2 DEF Dragged, Sight

LEMMA StartReached ==
  ASSUME EditorInv, NEW past \in BOOLEAN, past \/ DOMAIN drag.from = {}
  PROVE  /\ Reached(Ctx(past), doc) /\ Rewindable(Ctx(past), doc)
         /\ Ctx(past).tight /\ doc.redo = <<>> => Ctx(past).tip = Shown(doc.board)
<1> DEFINE c == Ctx(past)
<1>1. /\ c.was = doc /\ c.opened = opened /\ c.tip = tip
      /\ c.tight <=> ~(loose \/ past)
  BY DEF Ctx
<1> HIDE DEF c
<1>2. DocOK(doc) /\ BoardOK(doc.board) /\ doc.dirty \in BOOLEAN
  BY DocFields DEF EditorInv, EditorTypeOK
<1>3. c.tight => Tight(doc, Sight(doc.board), opened, tip)
  BY <1>1, <1>2, DraggedNothing DEF EditorInv
<1>4. Rewindable(c, doc)
  BY <1>1, <1>2, <1>3 DEF Rewindable
<1>5. Marked(c.was, doc)
  BY <1>1, <1>2 DEF Marked
<1> QED
  BY <1>1, <1>4, <1>5 DEF Reached, EditorInv, c

(* Every handler of the open document ends in Becomes.                     *)
LEMMA BecomesInv ==
  ASSUME EditorInv, NEW d, NEW past \in BOOLEAN, NEW mute \in BOOLEAN,
         Becomes(d, past, mute), DocOK(d), mute \/ Marked(doc, d),
         drag'.on \in BOOLEAN, drag'.from \in Placements(d.board.born),
         drag'.stray \subseteq BoardNet, ~drag'.on => drag'.from = Still,
         ~(loose \/ past) => Tight(d, Dragged(d.board, drag'.from), opened, tip)
  PROVE  EditorInv'
<1>1. /\ doc' = d /\ tip' = (IF d.redo = <<>> THEN Shown(d.board) ELSE tip)
      /\ loose' = (loose \/ past)
      /\ unseen' = ((unseen \/ mute) /\ ~(d.dirty /\ d.engine = Stale))
      /\ project' = project /\ autosave' = autosave /\ newer' = newer /\ path' = path
      /\ opened' = opened
  BY DEF Becomes, boardFiles
<1>2. d.dirty \in BOOLEAN /\ {newer, path, loose, unseen} \subseteq BOOLEAN
      /\ doc.dirty \in BOOLEAN
  BY DocFields DEF EditorInv, EditorTypeOK
<1>3. {newer, path, loose, unseen}' \subseteq BOOLEAN
  BY <1>1, <1>2
<1>4. EditorTypeOK'
  BY <1>1, <1>3 DEF EditorTypeOK, EditorInv
<1>5. EngineCurrent'
  <2> SUFFICES ASSUME ~unseen', d.engine # Stale PROVE d.engine = Whole(d.board)
    BY <1>1 DEF EngineCurrent
  <2>1. ~unseen /\ ~mute
    BY <1>1, <1>2
  <2>2. Current(doc)
    BY <2>1 DEF EditorInv, EngineCurrent, Current
  <2> QED
    BY <2>1, <2>2 DEF Marked, Current
<1>6. CleanIsOnDisk'
  <2> SUFFICES ASSUME ~unseen', ~d.dirty
               PROVE \E b \in {BlankBoard, project} \cup (IF newer THEN {autosave} ELSE {}) :
                       b # NoProject /\ Whole(d.board) = Whole(b)
    BY <1>1 DEF CleanIsOnDisk
  <2>1. ~unseen /\ ~mute
    BY <1>1, <1>2
  <2>2. ~doc.dirty /\ Whole(d.board) = Whole(doc.board)
    BY <2>1 DEF Marked
  <2> QED
    BY <2>1, <2>2 DEF EditorInv, CleanIsOnDisk
<1>7. /\ (newer => autosave # NoProject)'
      /\ (Idle => drag.from = Still)'
      /\ (doc.redo = <<>> => tip = Shown(doc.board))'
  BY <1>1 DEF EditorInv, Idle
<1>8. ~loose' => Tight(doc', Dragged(doc'.board, drag'.from), opened', tip')
  <2> SUFFICES ASSUME ~loose' PROVE Tight(d, Dragged(d.board, drag'.from), opened, tip')
    BY <1>1
  <2>1. Tight(d, Dragged(d.board, drag'.from), opened, tip)
    BY <1>1
  <2> QED
    BY <1>1, <2>1 DEF Tight
<1> QED
  BY <1>4, <1>5, <1>6, <1>7, <1>8 DEF EditorInv

LEMMA DragTyped ==
  ASSUME EditorInv
  PROVE  /\ DocOK(doc) /\ BoardOK(doc.board)
         /\ drag.on \in BOOLEAN /\ drag.from \in Placements(doc.board.born)
         /\ drag.stray \subseteq BoardNet /\ (~drag.on => drag.from = Still)
         /\ (Idle => DOMAIN drag.from = {}) /\ loose \in BOOLEAN
         /\ DOMAIN drag.from \in SUBSET (1..doc.board.born)
         /\ 1..doc.board.born \subseteq Footprint
<1>1. DocOK(doc) /\ BoardOK(doc.board) /\ loose \in BOOLEAN
  BY DocFields DEF EditorInv, EditorTypeOK
<1>2. drag.from \in Placements(doc.board.born)
  BY DEF EditorInv, EditorTypeOK
<1>3. DOMAIN drag.from \in SUBSET (1..doc.board.born)
  BY <1>2, PlacementsTyped
<1> QED
  BY <1>1, <1>2, <1>3, StillTyped, BoardFields DEF EditorInv, EditorTypeOK, Idle

(* The dragged parts are put down, or nothing is dragged of this document. *)
LEMMA ReachedInv ==
  ASSUME EditorInv, NEW d, NEW past \in BOOLEAN, Becomes(d, past, FALSE),
         Reached(Ctx(past), d),
         drag' = NoDrag \/ (drag' = drag /\ (past \/ DOMAIN drag.from = {}))
  PROVE  EditorInv'
<1> DEFINE c == Ctx(past)
<1>1. /\ c.was = doc /\ c.opened = opened /\ c.tip = tip
      /\ c.tight <=> ~(loose \/ past)
  BY DEF Ctx
<1>2. Reached(c, d)
  OBVIOUS
<1> HIDE DEF c
<1>3. /\ DocOK(d) /\ BoardOK(d.board) /\ Marked(doc, d)
      /\ Placements(doc.board.born) \subseteq Placements(d.board.born)
      /\ ~(loose \/ past) => Tight(d, Sight(d.board), opened, tip)
  BY <1>1, <1>2, DocFields DEF Reached, Rewindable
<1>4. /\ drag'.on \in BOOLEAN /\ drag'.from \in Placements(d.board.born)
      /\ drag'.stray \subseteq BoardNet /\ (~drag'.on => drag'.from = Still)
      /\ past \/ DOMAIN drag'.from = {}
  <2>1. CASE drag' = NoDrag
    <3>1. drag'.on = FALSE /\ drag'.from = Still /\ drag'.stray = {}
      BY <2>1 DEF NoDrag
    <3> QED
      BY <3>1, StillTyped
  <2>2. CASE drag' = drag /\ (past \/ DOMAIN drag.from = {})
    BY <1>3, <2>2, DragTyped
  <2> QED
    BY <2>1, <2>2
<1>5. ~(loose \/ past) => Tight(d, Dragged(d.board, drag'.from), opened, tip)
  BY <1>3, <1>4, DraggedNothing
<1>6. FALSE \in BOOLEAN
  OBVIOUS
<1> QED
  BY <1>3, <1>4, <1>5, <1>6, BecomesInv

LEMMA EditsInv ==
  ASSUME EditorInv, NEW d, NEW past \in BOOLEAN, Edits(d, past, FALSE), drag' = drag,
         past \/ Idle, Reached(Ctx(past), d)
  PROVE  EditorInv'
<1>1. Becomes(d, past, FALSE)
  BY DEF Edits
<1>2. past \/ DOMAIN drag.from = {}
  BY DragTyped
<1> QED
  BY <1>1, <1>2, ReachedInv

LEMMA EditBoardInv ==
  ASSUME EditorInv, NEW d, EditBoard(d), Idle, Reached(Ctx(FALSE), d)
  PROVE  EditorInv'
<1>1. Edits(d, FALSE, FALSE) /\ drag' = drag /\ FALSE \in BOOLEAN
  BY DEF EditBoard
<1> QED
  BY <1>1, EditsInv

LEMMA IdleReached ==
  ASSUME EditorInv, Idle, NEW past \in BOOLEAN
  PROVE  Reached(Ctx(past), doc) /\ Rewindable(Ctx(past), doc)
BY DragTyped, StartReached

-----------------------------------------------------------------------------
LEMMA PlacePartInv ==
  ASSUME EditorInv, PlacePart PROVE EditorInv'
<1>1. PICK p \in Pose : EditBoard(NewPart(doc, p))
  BY DEF PlacePart
<1>2. Idle /\ doc.board.born < Footprints /\ FALSE \in BOOLEAN
  BY DEF PlacePart
<1>3. Rewindable(Ctx(FALSE), doc)
  BY <1>2, IdleReached
<1>4. Reached(Ctx(FALSE), NewPart(doc, p))
  BY <1>2, <1>3, NewPartReached
<1> QED
  BY <1>1, <1>2, <1>4, EditBoardInv

LEMMA DeleteInv ==
  ASSUME EditorInv, DeleteSelection PROVE EditorInv'
<1>1. PICK fs \in Selection, cs \in {{}} \cup {{i} : i \in Selectable} :
        EditBoard(Do(doc, Deleting(fs, cs)))
  BY DEF DeleteSelection
<1> DEFINE e == Deleting(fs, cs)
           b == doc.board
           v == Dragged(b, drag.from)
           x == Do(doc, e)
<1>2. fs \subseteq b.parts /\ cs \subseteq b.copper
  BY DEF Selection, Selectable
<1>3. /\ DocOK(doc) /\ BoardOK(b)
      /\ drag.on \in BOOLEAN /\ drag.from \in Placements(b.born)
      /\ drag.stray \subseteq BoardNet /\ (~drag.on => drag.from = Still)
  BY DragTyped
<1>4. fs \in SUBSET (1..b.born) /\ cs \in SUBSET (1..Len(b.made))
  BY <1>2, <1>3, BoardFields
<1>5. v \in Sights(b.born) /\ v.parts = b.parts /\ v.copper = b.copper
  <2>1. Sight(b) \in Sights(b.born) /\ b.born \in 0..Footprints
        /\ b.pose \in [Footprint -> Pose]
    BY <1>3, SightTyped, BoardFields
  <2>2. Put(drag.from, b.pose) \in [Footprint -> Pose]
    BY <1>3, <2>1, PutTyped
  <2> QED
    BY <2>1, <2>2 DEF Dragged, Sight, Sights
<1>6. e \in EntryOf(doc) /\ Exchange(v, e, After(v, e))
  BY <1>2, <1>4, <1>5, DeletingEntry DEF EntryOf
<1>7. /\ DocOK(x) /\ x.undo = Append(doc.undo, e) /\ x.redo = <<>> /\ x.dirty = TRUE
      /\ x.engine = Stale /\ x.board.born = b.born
      /\ x.board.copper = (b.copper \ e.out) \cup e.in
      /\ x.board.parts = (b.parts \ e.gone) \cup e.new
      /\ x.board.pose = Put(e.to, b.pose)
  <2>1. /\ x = [board |-> [copper |-> (b.copper \ e.out) \cup e.in, made |-> b.made,
                           parts |-> (b.parts \ e.gone) \cup e.new, born |-> b.born,
                           pose |-> Put(e.to, b.pose), pads |-> b.pads, nets |-> b.nets],
                undo |-> Append(doc.undo, e), redo |-> <<>>, dirty |-> TRUE, engine |-> Stale]
        /\ DocOK(x)
    BY <1>3, <1>6, DoIs
  <2> HIDE DEF x, e
  <2> QED
    BY <2>1
<1>8. e.to = Still
  BY DEF Deleting, Copper
<1> HIDE DEF e, x
<1>9. Dragged(x.board, drag.from) = After(v, e)
  <2>1. \A q \in [Footprint -> Pose] : Put(Still, q) = q
    BY StillTyped
  <2>2. b.pose \in [Footprint -> Pose] /\ v.pose \in [Footprint -> Pose]
    BY <1>3, <1>5, BoardFields DEF Sights
  <2>3. x.board.pose = b.pose /\ After(v, e).pose = v.pose /\ v.pose = Put(drag.from, b.pose)
    BY <1>7, <1>8, <2>1, <2>2 DEF After, Dragged
  <2> QED
    BY <1>5, <1>7, <2>3 DEF After, Dragged
<1>10. ~loose => Tight(x, Dragged(x.board, drag.from), opened, tip)
  <2>1. ~loose => Tight(doc, v, opened, tip)
    BY DEF EditorInv
  <2> HIDE DEF v
  <2> QED
    BY <1>3, <1>5, <1>6, <1>7, <1>9, <2>1, TightPush
<1>11. Marked(doc, x)
  BY <1>7, Told
<1>12. Becomes(x, FALSE, FALSE) /\ drag' = drag /\ FALSE \in BOOLEAN
  BY <1>1 DEF EditBoard, Edits, x, e
<1> HIDE DEF b
<1> QED
  BY <1>3, <1>7, <1>10, <1>11, <1>12, BecomesInv

LEMMA RotateInv ==
  ASSUME EditorInv, RotateSelection PROVE EditorInv'
<1>1. PICK fs \in Selection \ {{}}, found \in SUBSET BoardNet :
        /\ Edits(Rerouted(Moved(doc, Poses(doc, fs), Rotated(Poses(doc, fs))),
                          PadNets(doc, fs), found), ~Idle, FALSE)
        /\ drag' = drag
  BY DEF RotateSelection
<1> DEFINE to == Rotated(Poses(doc, fs))
           past == ~Idle
<1>2. past \in BOOLEAN /\ (past \/ Idle) /\ (past \/ DOMAIN drag.from = {})
      /\ DocOK(doc) /\ BoardOK(doc.board)
  BY DragTyped
<1>3. Rewindable(Ctx(past), doc)
  BY <1>2, StartReached
<1>4. fs \in SUBSET (1..doc.board.born) /\ fs \in SUBSET Footprint
  <2>1. fs \subseteq doc.board.parts
    BY DEF Selection
  <2> QED
    BY <1>2, <2>1, BoardFields
<1>5. to \in Placements(doc.board.born) /\ DOMAIN to = fs
  <2>1. DOMAIN Poses(doc, fs) = fs /\ \A f \in fs : Poses(doc, fs)[f] \in Pose
    BY <1>2, <1>4, PosesTyped
  <2>2. \A p \in Pose : [p EXCEPT !.turned = ~@] \in Pose
    BY DEF Pose
  <2>3. to \in [fs -> Pose]
    BY <2>1, <2>2 DEF Rotated
  <2> HIDE DEF to
  <2> QED
    BY <1>4, <2>3 DEF Placements
<1>6. PadNets(doc, fs) \in SUBSET BoardNet
  BY <1>2, <1>4, PadNetsTyped
<1> HIDE DEF to, past
<1>7. Reached(Ctx(past), Moved(doc, Poses(doc, fs), to))
  BY <1>3, <1>4, <1>5, MovedReached
<1> DEFINE x == Rerouted(Moved(doc, Poses(doc, fs), to), PadNets(doc, fs), found)
<1>8. Reached(Ctx(past), x)
  BY <1>6, <1>7, ReroutedReached
<1>9. Edits(x, past, FALSE) /\ drag' = drag
  BY <1>1 DEF to, past
<1> HIDE DEF x
<1> QED
  BY <1>2, <1>8, <1>9, EditsInv

LEMMA AutoPlaceInv ==
  ASSUME EditorInv, AutoPlace PROVE EditorInv'
<1> DEFINE b == doc.board
           before == Poses(doc, b.parts)
           After2(spots) == [f \in DOMAIN before |-> [before[f] EXCEPT !.at = spots[f]]]
<1>1. PICK spots \in [b.parts -> Spot] : EditBoard(Moved(doc, before, After2(spots)))
  BY DEF AutoPlace
<1> DEFINE to == After2(spots)
<1>2. Idle /\ FALSE \in BOOLEAN
  BY DEF AutoPlace
<1>3. Rewindable(Ctx(FALSE), doc) /\ DocOK(doc) /\ BoardOK(b)
  BY <1>2, IdleReached, DragTyped
<1>4. b.parts \in SUBSET (1..b.born)
  BY <1>3, BoardFields
<1>5. to \in Placements(b.born) /\ DOMAIN to = b.parts
  <2>1. DOMAIN before = b.parts /\ \A f \in b.parts : before[f] \in Pose
    BY <1>3, <1>4, PosesTyped
  <2> HIDE DEF before
  <2>2. \A p \in Pose, s \in Spot : [p EXCEPT !.at = s] \in Pose
    BY DEF Pose
  <2>3. to \in [b.parts -> Pose]
    BY <2>1, <2>2
  <2> HIDE DEF to
  <2> QED
    BY <1>4, <2>3 DEF Placements
<1>6. EditBoard(Moved(doc, before, to))
  BY <1>1
<1> HIDE DEF to
<1>7. Reached(Ctx(FALSE), Moved(doc, before, to))
  BY <1>3, <1>4, <1>5, MovedReached
<1> HIDE DEF before
<1> QED
  BY <1>2, <1>6, <1>7, EditBoardInv

-----------------------------------------------------------------------------
LEMMA BeginDragInv ==
  ASSUME EditorInv, BeginDrag PROVE EditorInv'
<1>1. PICK fs \in SUBSET doc.board.parts : drag' = Drag(Poses(doc, fs), {})
  BY DEF BeginDrag
<1>2. Idle /\ Becomes(doc, FALSE, FALSE) /\ FALSE \in BOOLEAN
  BY DEF BeginDrag, Edits
<1>3. DocOK(doc) /\ BoardOK(doc.board) /\ Rewindable(Ctx(FALSE), doc) /\ Marked(doc, doc)
  BY <1>2, DragTyped, IdleReached DEF Reached, Ctx
<1>4. fs \in SUBSET (1..doc.board.born)
  BY <1>3, BoardFields
<1>5. /\ drag'.on = TRUE /\ drag'.from = Poses(doc, fs) /\ drag'.stray = {}
  BY <1>1 DEF Drag
<1>6. Dragged(doc.board, drag'.from) = Sight(doc.board)
  BY <1>3, <1>4, <1>5, PosesTyped DEF Dragged, Sight
<1>7. ~loose => Tight(doc, Dragged(doc.board, drag'.from), opened, tip)
  BY <1>3, <1>6 DEF Rewindable, Ctx
<1>8. drag'.from \in Placements(doc.board.born)
  <2>1. Poses(doc, fs) \in Placements(doc.board.born)
    BY <1>3, <1>4, PosesTyped
  <2> QED
    BY <1>5, <2>1
<1> QED
  BY <1>2, <1>3, <1>5, <1>7, <1>8, BecomesInv

LEMMA DragMoveInv ==
  ASSUME EditorInv, DragMove PROVE EditorInv'
<1> DEFINE b == doc.board
           To(s) == [f \in DOMAIN drag.from |-> [b.pose[f] EXCEPT !.at = s]]
           X(s) == Notified([doc EXCEPT !.board.pose = Put(To(s), b.pose)])
<1>1. PICK s \in Spot : Becomes(X(s), FALSE, FALSE)
  BY DEF DragMove
<1> DEFINE to == To(s)
           x == X(s)
           q == Put(to, b.pose)
<1>2. /\ DocOK(doc) /\ BoardOK(b) /\ drag.on \in BOOLEAN /\ drag.from \in Placements(b.born)
      /\ drag.stray \subseteq BoardNet /\ (~drag.on => drag.from = Still)
      /\ DOMAIN drag.from \in SUBSET (1..b.born)
  BY DragTyped
<1>3. b.pose \in [Footprint -> Pose] /\ 1..b.born \subseteq Footprint /\ b.born \in 0..Footprints
  BY <1>2, BoardFields
<1>4. to \in Placements(b.born) /\ DOMAIN to = DOMAIN drag.from
  <2>1. \A p \in Pose : [p EXCEPT !.at = s] \in Pose
    BY DEF Pose
  <2>2. to \in [DOMAIN drag.from -> Pose]
    BY <1>2, <1>3, <2>1
  <2> HIDE DEF to
  <2> QED
    BY <1>2, <2>2 DEF Placements
<1> HIDE DEF to
<1>5. q \in [Footprint -> Pose]
  BY <1>3, <1>4, PutTyped
<1>6. x = Notified([doc EXCEPT !.board.pose = q])
  BY DEF to
<1> HIDE DEF x
<1>7. Put(drag.from, q) = Put(drag.from, b.pose)
  BY <1>4 DEF Put
<1> HIDE DEF q
<1>8. /\ x = [board |-> [copper |-> b.copper, made |-> b.made, parts |-> b.parts,
                         born |-> b.born, pose |-> q, pads |-> b.pads, nets |-> b.nets],
              undo |-> doc.undo, redo |-> doc.redo, dirty |-> TRUE, engine |-> Stale]
      /\ DocOK(x)
  BY <1>2, <1>5, <1>6, PoseChanged
<1>9. /\ Dragged(x.board, drag.from) = Dragged(b, drag.from) /\ x.undo = doc.undo
      /\ x.redo = doc.redo /\ x.board.born = b.born /\ x.dirty = TRUE /\ x.engine = Stale
  BY <1>7, <1>8 DEF Dragged
<1>10. ~loose => Tight(x, Dragged(x.board, drag.from), opened, tip)
  BY <1>9 DEF EditorInv, Tight
<1>11. Marked(doc, x) /\ drag' = drag /\ FALSE \in BOOLEAN /\ Becomes(x, FALSE, FALSE)
  BY <1>1, <1>9, Told DEF DragMove, x
<1> QED
  BY <1>2, <1>8, <1>9, <1>10, <1>11, BecomesInv

(* What was dragged is put down with one entry, from where it was to where *)
(* it is; when it is where it was there is nothing to push.                *)
LEMMA DroppedReached ==
  ASSUME EditorInv
  PROVE  Reached(Ctx(FALSE), Dropped(doc, drag.from))
<1> DEFINE b == doc.board
           from == drag.from
           to == Poses(doc, DOMAIN drag.from)
           e == Moving(from, to)
           v == Dragged(b, from)
           x == Push(doc, e)
           c == Ctx(FALSE)
<1>1. /\ DocOK(doc) /\ BoardOK(b) /\ from \in Placements(b.born)
      /\ DOMAIN from \in SUBSET (1..b.born) /\ doc.dirty \in BOOLEAN
  BY DragTyped, DocFields
<1>2. /\ c.was = doc /\ c.opened = opened /\ c.tip = tip /\ c.tight = ~loose
  BY DEF Ctx
<1>3. /\ to \in Placements(b.born) /\ DOMAIN to = DOMAIN from /\ Put(to, b.pose) = b.pose
  BY <1>1, PosesTyped
<1>4. b.pose \in [Footprint -> Pose] /\ b.born \in 0..Footprints
  BY <1>1, BoardFields
<1>5. ~loose => Tight(doc, v, opened, tip)
  BY DEF EditorInv
<1>6. Marked(doc, doc)
  BY <1>1 DEF Marked
<1> HIDE DEF to, c
<1>7. CASE from = to
  <2>1. v = Sight(b)
    BY <1>3, <1>7 DEF Dragged, Sight
  <2>2. Reached(c, doc)
    BY <1>1, <1>2, <1>5, <1>6, <2>1 DEF Reached, Rewindable
  <2> QED
    BY <1>7, <2>2 DEF Dropped, to, c
<1>8. CASE from # to
  <2>1. v \in Sights(b.born)
    <3>1. Put(from, b.pose) \in [Footprint -> Pose]
      BY <1>1, <1>4, PutTyped
    <3>2. Sight(b) \in Sights(b.born)
      BY <1>1, SightTyped
    <3> QED
      BY <3>1, <3>2 DEF Dragged, Sight, Sights
  <2>2. Put(from, v.pose) = v.pose
    BY DEF Put, Dragged
  <2>3. e \in EntryOf(doc) /\ Exchange(v, e, After(v, e))
    BY <1>1, <1>3, <2>1, <2>2, MovingEntry DEF EntryOf
  <2>4. After(v, e) = Sight(b)
    <3>1. Put(to, Put(from, b.pose)) = b.pose
      <4>1. Put(to, Put(from, b.pose)) = Put(to, b.pose)
        BY <1>3 DEF Put
      <4> QED
        BY <1>3, <4>1
    <3>2. e.to = to /\ e.out = {} /\ e.in = {} /\ e.gone = {} /\ e.new = {}
      BY DEF Moving, Copper
    <3> QED
      BY <3>1, <3>2 DEF After, Dragged, Sight
  <2> HIDE DEF e, v
  <2>5. /\ x = [board |-> b, undo |-> Append(doc.undo, e), redo |-> <<>>,
                dirty |-> doc.dirty, engine |-> doc.engine]
        /\ DocOK(x)
    BY <1>1, <2>3, PushOK
  <2>6. ~loose => Tight(x, Sight(b), opened, tip)
    BY <1>1, <1>5, <2>1, <2>3, <2>4, <2>5, TightPush
  <2>7. Marked(doc, x)
    BY <1>6, <2>5 DEF Marked, Current
  <2>8. Reached(c, x)
    <3>1. x.board = b /\ DocOK(x)
      BY <2>5
    <3> HIDE DEF x
    <3> QED
      BY <1>2, <2>6, <2>7, <3>1 DEF Reached, Rewindable
  <2>9. Dropped(doc, drag.from) = x
    BY <1>8 DEF Dropped, x, to, e
  <2> QED
    BY <2>8, <2>9 DEF c
<1> QED
  BY <1>7, <1>8

LEMMA EndDragInv ==
  ASSUME EditorInv, EndDrag PROVE EditorInv'
<1> DEFINE nets == PadNets(doc, DOMAIN drag.from)
           dropped == Dropped(doc, drag.from)
<1>1. drag' = NoDrag /\ FALSE \in BOOLEAN
  BY DEF EndDrag
<1>2. DocOK(doc) /\ DOMAIN drag.from \in SUBSET Footprint /\ drag.stray \in SUBSET BoardNet
  BY DragTyped
<1>3. nets \in SUBSET BoardNet
  BY <1>2, PadNetsTyped
<1>4. Reached(Ctx(FALSE), dropped)
  BY DroppedReached
<1>5. PICK found \in SUBSET BoardNet :
        \/ Becomes(dropped, FALSE, FALSE)
        \/ Becomes(Rerouted(dropped, nets, found), FALSE, FALSE)
        \/ /\ DOMAIN drag.from = {}
           /\ Becomes(Rerouted(Push(doc, Moving(Still, Still)), drag.stray, found), FALSE, FALSE)
  BY DEF EndDrag
<1> HIDE DEF nets, dropped
<1>6. CASE Becomes(dropped, FALSE, FALSE)
  BY <1>1, <1>4, <1>6, ReachedInv
<1>7. CASE Becomes(Rerouted(dropped, nets, found), FALSE, FALSE)
  <2>1. Reached(Ctx(FALSE), Rerouted(dropped, nets, found))
    BY <1>3, <1>4, ReroutedReached
  <2> QED
    BY <1>1, <1>7, <2>1, ReachedInv
<1>8. CASE /\ DOMAIN drag.from = {}
           /\ Becomes(Rerouted(Push(doc, Moving(Still, Still)), drag.stray, found), FALSE, FALSE)
  <2> DEFINE e == Moving(Still, Still)
             x == Push(doc, e)
             b == doc.board
             v == Sight(b)
             c == Ctx(FALSE)
  <2>1. Reached(c, doc) /\ Rewindable(c, doc) /\ BoardOK(b)
    BY <1>1, <1>2, <1>8, StartReached, DocFields
  <2>2. v \in Sights(b.born) /\ b.pose \in [Footprint -> Pose]
    BY <2>1, SightTyped, BoardFields
  <2>3. Put(Still, v.pose) = v.pose
    BY <2>2, StillTyped DEF Sight
  <2>4. e \in EntryOf(doc) /\ Exchange(v, e, After(v, e))
    BY <2>2, <2>3, StillTyped, MovingEntry DEF EntryOf
  <2>5. After(v, e) = v
    BY <2>3 DEF After, Sight, Moving, Copper
  <2> HIDE DEF e, v, c
  <2>6. /\ x = [board |-> b, undo |-> Append(doc.undo, e), redo |-> <<>>,
                dirty |-> doc.dirty, engine |-> doc.engine]
        /\ DocOK(x)
    BY <1>2, <2>4, PushOK
  <2>7. c.tight => Tight(x, v, c.opened, c.tip)
    <3>1. c.tight => Tight(doc, v, c.opened, c.tip)
      BY <2>1 DEF Rewindable, v
    <3> QED
      BY <1>2, <2>2, <2>4, <2>5, <2>6, <3>1, TightPush
  <2>8. Marked(c.was, x)
    BY <2>1, <2>6 DEF Reached, Marked, Current
  <2>9. Reached(c, x)
    <3>1. x.board = doc.board
      BY <2>6
    <3> QED
      BY <2>1, <2>6, <2>7, <2>8, <3>1 DEF Reached, Rewindable, v
  <2> HIDE DEF x
  <2>10. Reached(c, Rerouted(x, drag.stray, found))
    BY <1>2, <2>9, ReroutedReached
  <2>11. Becomes(Rerouted(x, drag.stray, found), FALSE, FALSE)
    BY <1>8 DEF x, e
  <2> QED
    BY <1>1, <2>10, <2>11, ReachedInv DEF c
<1> QED
  BY <1>5, <1>6, <1>7, <1>8

-----------------------------------------------------------------------------
LEMMA RouteClickInv ==
  ASSUME EditorInv, RouteClick PROVE EditorInv'
<1> DEFINE c == Ctx(FALSE)
<1>1. PICK n \in BoardNet :
        /\ Idle
        /\ \/ Room(doc, 1) /\ EditBoard(AddPiece(doc, n))
           \/ /\ Room(doc, 2)
              /\ \E b \in Selectable :
                   LET m == doc.board.made[b].net
                       bumped == Make(Make(doc, n, FALSE), m, FALSE)
                   IN  /\ m # n
                       /\ \/ EditBoard(Do(bumped, Copper({b}, {NewPiece(doc), NewPiece(doc) + 1})))
                          \/ EditBoard(Notified(doc))
  BY DEF RouteClick
<1>2. Rewindable(c, doc) /\ FALSE \in BOOLEAN /\ DocOK(doc) /\ BoardOK(doc.board)
  BY <1>1, IdleReached, DragTyped
<1>3. CASE EditBoard(AddPiece(doc, n))
  <2>1. Reached(c, AddPiece(doc, n))
    BY <1>2, AddPieceReached
  <2> QED
    BY <1>1, <1>3, <2>1, EditBoardInv
<1>4. CASE EditBoard(Notified(doc))
  <2>1. Reached(c, Notified(doc))
    BY <1>2, NotifiedReached
  <2> QED
    BY <1>1, <1>4, <2>1, EditBoardInv
<1>5. ASSUME NEW b \in Selectable,
             EditBoard(Do(Make(Make(doc, n, FALSE), doc.board.made[b].net, FALSE),
                          Copper({b}, {NewPiece(doc), NewPiece(doc) + 1})))
      PROVE  EditorInv'
  <2> DEFINE m == doc.board.made[b].net
             one == Make(doc, n, FALSE)
             two == Make(one, m, FALSE)
             new == {NewPiece(doc), NewPiece(doc) + 1}
  <2>1. b \in doc.board.copper
    BY DEF Selectable
  <2>2. m \in BoardNet
    <3> DEFINE R == [net : BoardNet, pour : BOOLEAN]
    <3>1. b \in 1..Len(doc.board.made) /\ doc.board.made \in Seq(R)
      BY <1>2, <2>1, BoardFields
    <3> HIDE DEF R
    <3>2. doc.board.made[b] \in R
      BY <3>1
    <3> QED
      BY <3>2 DEF R
  <2> HIDE DEF m
  <2>3. /\ Rewindable(c, one) /\ one.board.copper = doc.board.copper
        /\ NewPiece(doc) \in 1..Len(one.board.made) /\ NewPiece(doc) \notin doc.board.copper
        /\ NewPiece(one) = NewPiece(doc) + 1 /\ NewPiece(doc) \in Nat
    BY <1>2, MakeReached
  <2> HIDE DEF one
  <2>4. /\ Rewindable(c, two) /\ two.board.copper = one.board.copper
        /\ NewPiece(one) \in 1..Len(two.board.made) /\ NewPiece(one) \notin one.board.copper
        /\ NewPiece(two) = NewPiece(one) + 1
    BY <2>2, <2>3, MakeReached
  <2> HIDE DEF two
  <2>5. Len(two.board.made) \in Nat
    BY <2>4, DocFields, BoardFields DEF Rewindable
  <2>6. /\ new \in SUBSET (1..Len(two.board.made)) /\ new \cap two.board.copper = {}
        /\ {b} \subseteq two.board.copper
    BY <2>1, <2>3, <2>4, <2>5
  <2> HIDE DEF new
  <2>7. Reached(c, Do(two, Copper({b}, new)))
    BY <2>4, <2>6, CopperReached
  <2>8. EditBoard(Do(two, Copper({b}, new)))
    BY <1>5 DEF two, one, new, m
  <2> QED
    BY <1>1, <2>7, <2>8, EditBoardInv
<1> QED
  BY <1>1, <1>3, <1>4, <1>5

LEMMA AutoRouteClickInv ==
  ASSUME EditorInv, AutoRouteClick PROVE EditorInv'
<1>1. PICK n \in BoardNet, ok \in BOOLEAN : EditBoard(Routed(doc, n, ok))
  BY DEF AutoRouteClick
<1>2. Idle /\ FALSE \in BOOLEAN
  BY DEF AutoRouteClick
<1>3. Reached(Ctx(FALSE), Routed(doc, n, ok))
  BY <1>2, IdleReached, RoutedReached
<1> QED
  BY <1>1, <1>2, <1>3, EditBoardInv

LEMMA SerpentineInv ==
  ASSUME EditorInv, Serpentine PROVE EditorInv'
<1>1. PICK n \in BoardNet : \E wire : EditBoard(Tuned(doc, n, wire))
  BY DEF Serpentine
<1>1a. PICK wire : EditBoard(Tuned(doc, n, wire))
  BY <1>1
<1>2. Idle /\ FALSE \in BOOLEAN
  BY DEF Serpentine
<1>3. Reached(Ctx(FALSE), Tuned(doc, n, wire))
  BY <1>2, IdleReached, TunedReached
<1> QED
  BY <1>1a, <1>2, <1>3, EditBoardInv

LEMMA DiffPairInv ==
  ASSUME EditorInv, DiffPair PROVE EditorInv'
<1>0. PICK p \in BoardNet, n \in BoardNet :
        LET one  == Routed(doc, p, TRUE)
            mate == NewPiece(one)
            both == Notified([Make(one, n, FALSE) EXCEPT !.board.copper = @ \cup {mate}])
        IN  \E side \in {p, n} : \E wire \in Tracks(both, side) \cup {NewPiece(both)} :
              LET tuned == Tuned(both, side, wire) IN
              Edits(Push(tuned, Copper({}, {mate})), wire = mate, FALSE)
  BY Zenon DEF DiffPair
<1>0a. PICK side \in {p, n} :
        LET one  == Routed(doc, p, TRUE)
            mate == NewPiece(one)
            both == Notified([Make(one, n, FALSE) EXCEPT !.board.copper = @ \cup {mate}])
        IN  \E wire : Edits(Push(Tuned(both, side, wire), Copper({}, {mate})), wire = mate, FALSE)
  BY <1>0, Zenon
<1>1. PICK wire :
        LET one  == Routed(doc, p, TRUE)
            mate == NewPiece(one)
            both == Notified([Make(one, n, FALSE) EXCEPT !.board.copper = @ \cup {mate}])
        IN  Edits(Push(Tuned(both, side, wire), Copper({}, {mate})), wire = mate, FALSE)
  BY <1>0a, Zenon
<1> DEFINE past == (wire = NewPiece(Routed(doc, p, TRUE)))
           c == Ctx(past)
           one == Routed(doc, p, TRUE)
<1>1a. drag' = drag /\ Idle
  BY DEF DiffPair
<1>1b. Edits(Paired(one, n, side, wire), past, FALSE) /\ side \in BoardNet
  BY <1>1 DEF Paired
<1>2. past \in BOOLEAN /\ (c.tight => ~past)
  <2>1. past \in BOOLEAN
    OBVIOUS
  <2> HIDE DEF past
  <2> QED
    BY <2>1 DEF Ctx
<1> HIDE DEF past
<1>3. Reached(c, doc)
  BY <1>1a, <1>2, IdleReached
<1>4. Reached(c, one)
  BY <1>3, RoutedReached
<1>5. c.tight => wire # NewPiece(one)
  BY <1>2 DEF past
<1> HIDE DEF one, c
<1>6. Reached(c, Paired(one, n, side, wire))
  BY <1>1b, <1>4, <1>5, PairedReached
<1> DEFINE x == Paired(one, n, side, wire)
<1>7. Edits(x, past, FALSE)
  BY <1>1b
<1> HIDE DEF x
<1>8. Reached(Ctx(past), x)
  BY <1>6 DEF c, x
<1> QED
  BY <1>1a, <1>2, <1>7, <1>8, EditsInv

LEMMA GeneratePourInv ==
  ASSUME EditorInv, GeneratePour PROVE EditorInv'
<1> DEFINE c == Ctx(FALSE)
<1>1. PICK n \in doc.board.nets, some \in BOOLEAN :
        EditBoard(Do(IF some THEN Make(doc, n, TRUE) ELSE doc,
                     Copper(Pieces(doc, n, TRUE), IF some THEN {NewPiece(doc)} ELSE {})))
  BY DEF GeneratePour
<1>2. Idle /\ FALSE \in BOOLEAN /\ TRUE \in BOOLEAN
  BY DEF GeneratePour
<1>3. Rewindable(c, doc) /\ DocOK(doc) /\ BoardOK(doc.board)
  BY <1>2, IdleReached, DragTyped
<1>4. n \in BoardNet /\ Pieces(doc, n, TRUE) \subseteq doc.board.copper
  BY <1>3, BoardFields DEF Pieces
<1> DEFINE x == IF some THEN Make(doc, n, TRUE) ELSE doc
           new == IF some THEN {NewPiece(doc)} ELSE {}
<1>5. /\ Rewindable(c, x) /\ x.board.copper = doc.board.copper
      /\ new \in SUBSET (1..Len(x.board.made)) /\ new \cap doc.board.copper = {}
  <2>1. CASE some
    <3> DEFINE y == Make(doc, n, TRUE)
    <3>1. /\ Rewindable(c, y) /\ y.board.copper = doc.board.copper
          /\ NewPiece(doc) \in 1..Len(y.board.made) /\ NewPiece(doc) \notin doc.board.copper
      BY <1>2, <1>3, <1>4, MakeOK
    <3>2. x = y /\ new = {NewPiece(doc)}
      BY <2>1
    <3> HIDE DEF x, y, new
    <3> QED
      BY <3>1, <3>2
  <2>2. CASE ~some
    BY <1>3, <2>2
  <2> QED
    BY <2>1, <2>2
<1> HIDE DEF x, new
<1>6. Reached(c, Do(x, Copper(Pieces(doc, n, TRUE), new)))
  BY <1>4, <1>5, CopperReached
<1>7. EditBoard(Do(x, Copper(Pieces(doc, n, TRUE), new)))
  BY <1>1 DEF x, new
<1> QED
  BY <1>2, <1>6, <1>7, EditBoardInv

LEMMA RouteAllInv ==
  ASSUME EditorInv, RouteAll PROVE EditorInv'
<1>1. Idle /\ drag' = drag
  BY DEF RouteAll
<1>2. Open(doc) \in SUBSET BoardNet /\ DocOK(doc)
  BY DragTyped, BoardFields DEF Open
<1>3. ASSUME NEW found \in SUBSET Open(doc),
             Edits(Batch(doc, Open(doc), found, FALSE), FALSE, FALSE)
      PROVE  EditorInv'
  <2>1. FALSE \in BOOLEAN
    OBVIOUS
  <2>2. Reached(Ctx(FALSE), Batch(doc, Open(doc), found, FALSE))
    BY <1>1, <1>2, <2>1, IdleReached, BatchReached
  <2> QED
    BY <1>1, <1>3, <2>1, <2>2, EditsInv
<1>4. ASSUME NEW victim \in Open(doc), NEW shut \in Open(doc), NEW okShut \in BOOLEAN,
             NEW okVictim \in BOOLEAN,
             LET pass1 == Routed(doc, victim, TRUE)
                 ripped == Notified([pass1 EXCEPT !.board.copper = @ \ Tracks(pass1, victim)])
             IN  Edits(Routed(Routed(ripped, shut, okShut), victim, okVictim), TRUE, FALSE)
      PROVE  EditorInv'
  <2> DEFINE c == Ctx(TRUE)
             pass1 == Routed(doc, victim, TRUE)
             S == pass1.board.copper \ Tracks(pass1, victim)
             ripped == Notified([pass1 EXCEPT !.board.copper = S])
             x == Routed(Routed(ripped, shut, okShut), victim, okVictim)
  <2>1. TRUE \in BOOLEAN /\ victim \in BoardNet /\ shut \in BoardNet /\ ~c.tight
    BY <1>2 DEF Ctx
  <2>2. Reached(c, pass1)
    BY <1>1, <2>1, IdleReached, RoutedReached
  <2>3. Edits(x, TRUE, FALSE)
    BY <1>4
  <2> HIDE DEF pass1, c
  <2>4. DocOK(pass1) /\ S \in SUBSET (1..Len(pass1.board.made))
    BY <2>2, DocFields, BoardFields DEF Reached, Rewindable
  <2>5. /\ ripped = [board |-> [copper |-> S, made |-> pass1.board.made,
                                parts |-> pass1.board.parts, born |-> pass1.board.born,
                                pose |-> pass1.board.pose, pads |-> pass1.board.pads,
                                nets |-> pass1.board.nets],
                     undo |-> pass1.undo, redo |-> pass1.redo, dirty |-> TRUE,
                     engine |-> Stale]
        /\ DocOK(ripped)
    BY <2>4, CopperChanged
  <2> HIDE DEF ripped
  <2>6. ripped.board.born = pass1.board.born /\ ripped.dirty = TRUE /\ ripped.engine = Stale
    BY <2>5
  <2>7. Marked(c.was, ripped)
    BY <2>6, Told
  <2>8. Reached(c, ripped)
    BY <2>1, <2>2, <2>5, <2>6, <2>7 DEF Reached, Rewindable
  <2>9. Reached(c, x)
    BY <2>1, <2>8, RoutedReached
  <2> HIDE DEF x
  <2> QED
    BY <1>1, <2>1, <2>3, <2>9, EditsInv DEF c
<1>5. ASSUME NEW found \in SUBSET Open(doc),
             LET Try(n, acc) == Routed(acc, n, n \in found)
             IN  Edits(FoldSet(Try, doc, Open(doc)), FALSE, FALSE)
      PROVE  Edits(Batch(doc, Open(doc), found, FALSE), FALSE, FALSE)
  BY <1>5, RoutingIsBatch
<1> QED
  BY <1>3, <1>4, <1>5 DEF RouteAll

(* Nets: nothing that undo is about, and mute when nobody was told.        *)
LEMMA ApplyAdviceInv ==
  ASSUME EditorInv, ApplyAdvice PROVE EditorInv'
<1>1. PICK f \in doc.board.parts, n \in BoardNet, m \in BoardNet :
        /\ Edits(Joined(AddNet(doc, n), f, n, m), FALSE, Joined(AddNet(doc, n), f, n, m) # doc)
        /\ drag' = drag /\ Idle
  BY DEF ApplyAdvice
<1> DEFINE x == Joined(AddNet(doc, n), f, n, m)
           mute == x # doc
           c == Ctx(FALSE)
<1>2. /\ FALSE \in BOOLEAN /\ DocOK(doc) /\ BoardOK(doc.board) /\ Idle
      /\ drag.on \in BOOLEAN /\ drag.stray \subseteq BoardNet
      /\ drag.from = Still /\ DOMAIN drag.from = {}
  BY <1>1, DragTyped DEF Idle
<1>3. Rewindable(c, doc) /\ Marked(doc, doc)
  BY <1>2, IdleReached DEF Reached, Ctx
<1>4. f \in Footprint
  BY <1>2, BoardFields
<1>5. Rewindable(c, AddNet(doc, n))
  BY <1>3, AddNetRewindable
<1>6. Rewindable(c, x)
  BY <1>4, <1>5, JoinedRewindable
<1>7. Becomes(x, FALSE, mute) /\ drag' = drag
  BY <1>1 DEF Edits
<1>8. mute \/ Marked(doc, x)
  BY <1>3
<1>9. mute \in BOOLEAN
  OBVIOUS
<1> HIDE DEF x, mute
<1>10. DocOK(x) /\ BoardOK(x.board) /\ (~loose => Tight(x, Sight(x.board), opened, tip))
  BY <1>6, DocFields DEF Rewindable, Ctx
<1>11. ~loose => Tight(x, Dragged(x.board, drag.from), opened, tip)
  BY <1>2, <1>10, DraggedNothing
<1>12. drag.from \in Placements(x.board.born)
  BY <1>2, StillTyped
<1> QED
  BY <1>2, <1>7, <1>8, <1>9, <1>10, <1>11, <1>12, BecomesInv

LEMMA SyncToBoardInv ==
  ASSUME EditorInv, SyncToBoard PROVE EditorInv'
<1> DEFINE c == Ctx(FALSE)
<1>1. Idle /\ FALSE \in BOOLEAN
  BY DEF SyncToBoard
<1>2. Rewindable(c, doc) /\ DocOK(doc) /\ BoardOK(doc.board)
  BY <1>1, IdleReached, DragTyped
<1>3. ASSUME NEW n \in BoardNet, NEW f \in doc.board.parts, NEW m \in BoardNet,
             EditBoard(Notified(Joined(AddNet(doc, n), f, n, m)))
      PROVE  EditorInv'
  <2>1. f \in Footprint
    BY <1>2, BoardFields
  <2>2. Rewindable(c, Joined(AddNet(doc, n), f, n, m))
    BY <1>2, <2>1, AddNetRewindable, JoinedRewindable
  <2>3. Reached(c, Notified(Joined(AddNet(doc, n), f, n, m)))
    BY <2>2, NotifiedReached
  <2> QED
    BY <1>1, <1>3, <2>3, EditBoardInv
<1>4. ASSUME NEW n \in BoardNet, NEW p \in Pose, doc.board.born < Footprints,
             LET added == NewPart(AddNet(doc, n), p) IN
             EditBoard(Notified(Joined(added, added.board.born, n, n)))
      PROVE  EditorInv'
  <2> DEFINE added == NewPart(AddNet(doc, n), p)
  <2>1. Rewindable(c, AddNet(doc, n)) /\ AddNet(doc, n).board.born < Footprints
    BY <1>2, <1>4, AddNetRewindable
  <2>2. Rewindable(c, added) /\ added.board.born \in Footprint
    BY <2>1, NewPartReached DEF Reached
  <2>3. EditBoard(Notified(Joined(added, added.board.born, n, n)))
    BY <1>4
  <2> HIDE DEF added, c
  <2>4. Rewindable(c, Joined(added, added.board.born, n, n))
    BY <2>2, JoinedRewindable
  <2> DEFINE x == Joined(added, added.board.born, n, n)
  <2> HIDE DEF x
  <2>5. Reached(c, Notified(x))
    BY <2>4, NotifiedReached DEF x
  <2>6. EditBoard(Notified(x))
    BY <2>3 DEF x
  <2> QED
    BY <1>1, <2>5, <2>6, EditBoardInv DEF c
<1>5. \E n \in BoardNet :
        \/ \E f \in doc.board.parts, m \in BoardNet :
             EditBoard(Notified(Joined(AddNet(doc, n), f, n, m)))
        \/ /\ doc.board.born < Footprints
           /\ \E p \in Pose :
                LET added == NewPart(AddNet(doc, n), p) IN
                EditBoard(Notified(Joined(added, added.board.born, n, n)))
  BY DEF SyncToBoard
<1> QED
  BY <1>3, <1>4, <1>5

LEMMA RunDrcInv ==
  ASSUME EditorInv, RunDrc PROVE EditorInv'
<1> DEFINE x == Synced(doc)
           c == [was |-> doc, opened |-> opened, tip |-> tip, tight |-> FALSE]
<1>1. Becomes(x, FALSE, FALSE) /\ drag' = drag /\ doc.engine = Stale /\ FALSE \in BOOLEAN
  BY DEF RunDrc
<1>2. /\ DocOK(doc) /\ BoardOK(doc.board) /\ doc.dirty \in BOOLEAN
      /\ drag.on \in BOOLEAN /\ drag.from \in Placements(doc.board.born)
      /\ drag.stray \subseteq BoardNet /\ (~drag.on => drag.from = Still)
  BY DragTyped, DocFields
<1>3. Reached(c, doc) /\ c.was = doc
  BY <1>2 DEF Reached, Rewindable, Marked
<1> HIDE DEF c
<1>4. Reached(c, x) /\ x.board = doc.board
  BY <1>3, SyncedOK
<1>5. x.undo = doc.undo /\ x.redo = doc.redo
  <2>1. x = [doc EXCEPT !.engine = Whole(doc.board)]
    BY <1>1 DEF Synced
  <2>2. doc = [board |-> doc.board, undo |-> doc.undo, redo |-> doc.redo, dirty |-> doc.dirty,
               engine |-> doc.engine]
    BY <1>2, DocFields
  <2> HIDE DEF x
  <2> QED
    BY <2>1, <2>2
<1> HIDE DEF x
<1>6. DocOK(x) /\ Marked(doc, x)
  BY <1>3, <1>4 DEF Reached, Rewindable
<1>7. ~loose => Tight(x, Dragged(x.board, drag.from), opened, tip)
  BY <1>4, <1>5 DEF EditorInv, Tight
<1> QED
  BY <1>1, <1>2, <1>4, <1>6, <1>7, BecomesInv

LEMMA UndoEditInv ==
  ASSUME EditorInv, UndoEdit PROVE EditorInv'
<1> DEFINE past == DOMAIN drag.from # {}
           c == Ctx(past)
           x == UndoLast(doc)
<1>1. doc.undo # <<>> /\ Becomes(x, past, FALSE) /\ drag' = drag
  BY DEF UndoEdit
<1>2. past \in BOOLEAN /\ (past \/ DOMAIN drag.from = {})
  OBVIOUS
<1> HIDE DEF past
<1>3. Rewindable(c, doc) /\ (c.tight /\ doc.redo = <<>> => c.tip = Shown(doc.board))
  BY <1>2, StartReached
<1>4. Reached(c, x)
  BY <1>1, <1>3, UndoReached
<1> HIDE DEF x
<1> QED
  BY <1>1, <1>2, <1>4, ReachedInv

LEMMA RedoEditInv ==
  ASSUME EditorInv, RedoEdit PROVE EditorInv'
<1> DEFINE past == DOMAIN drag.from # {}
           c == Ctx(past)
           x == RedoLast(doc)
<1>1. doc.redo # <<>> /\ Becomes(x, past, FALSE) /\ drag' = drag
  BY DEF RedoEdit
<1>2. past \in BOOLEAN /\ (past \/ DOMAIN drag.from = {})
  OBVIOUS
<1> HIDE DEF past
<1>3. Rewindable(c, doc)
  BY <1>2, StartReached
<1>4. Reached(c, x)
  BY <1>1, <1>3, RedoReached
<1> HIDE DEF x
<1> QED
  BY <1>1, <1>2, <1>4, ReachedInv

-----------------------------------------------------------------------------
(* The files.                                                              *)
LEMMA BlankOK ==
  BoardOK(BlankBoard)
<1>1. (CHOOSE p \in Pose : TRUE) \in Pose
  <2>1. PICK s \in Spot : TRUE
    BY EditorConstants
  <2>2. [at |-> s, turned |-> TRUE] \in Pose
    BY DEF Pose
  <2> QED
    BY <2>2
<1> DEFINE q == CHOOSE p \in Pose : TRUE
<1> HIDE DEF q
<1>2. [f \in Footprint |-> q] \in [Footprint -> Pose]
      /\ [f \in Footprint |-> {}] \in [Footprint -> SUBSET BoardNet]
  BY <1>1 DEF q
<1>3. <<>> \in Seq([net : BoardNet, pour : BOOLEAN]) /\ {} \subseteq 1..Len(<<>>)
      /\ {} \subseteq 1..0 /\ {} \in SUBSET BoardNet
  OBVIOUS
<1>4. 0 \in 0..Footprints
  BY EditorConstants
<1>5. BlankBoard = [copper |-> {}, made |-> <<>>, parts |-> {}, born |-> 0,
                    pose |-> [f \in Footprint |-> q],
                    pads |-> [f \in Footprint |-> {}], nets |-> {}]
  BY DEF BlankBoard, q
<1> QED
  BY <1>2, <1>3, <1>4, <1>5, BoardMade

LEMMA NotNoProject ==
  ASSUME NEW b, BoardOK(b) PROVE b # NoProject
BY EditorConstants DEF BoardOK

(* A document that was just opened.                                        *)
LEMMA OpenedDocument ==
  ASSUME NEW b, BoardOK(b)
  PROVE  /\ DocOK(Document(b)) /\ Document(b).board = b /\ Document(b).dirty = FALSE
         /\ Document(b).engine = Stale /\ Document(b).redo = <<>>
         /\ \A t : Tight(Document(b), Sight(b), Shown(b), t)
<1> DEFINE x == Document(b)
           T == Entry(Len(b.made), b.born)
<1>1. x = [board |-> b, undo |-> <<>>, redo |-> <<>>, dirty |-> FALSE, engine |-> Stale]
  BY DEF Document
<1> HIDE DEF x, T
<1>2. <<>> \in Seq(T) /\ FALSE \in BOOLEAN
  OBVIOUS
<1>3. DocOK(x)
  BY <1>1, <1>2, DocMade DEF T
<1>4. Turned(<<>>) = <<>>
  BY DEF Turned
<1>5. Sight(b) \in Sights(b.born) /\ Shown(Sight(b)) = Shown(b)
  BY SightTyped
<1>6. Leads(<<>>, Sight(b), Shown(b), b.born)
  BY <1>5, LeadsNothing
<1>7. \A t : Tight(x, Sight(b), Shown(b), t)
  BY <1>1, <1>4, <1>6 DEF Tight
<1>8. x.board = b /\ x.dirty = FALSE /\ x.engine = Stale /\ x.redo = <<>>
  BY <1>1
<1> QED
  BY <1>3, <1>7, <1>8, Zenon DEF x

LEMMA SaveInv ==
  ASSUME EditorInv, SaveProject PROVE EditorInv'
<1> DEFINE x == [doc EXCEPT !.dirty = FALSE]
<1>1. /\ doc' = x /\ project' = doc.board /\ autosave' = autosave /\ newer' = FALSE
      /\ path' = TRUE /\ drag' = drag /\ opened' = opened /\ tip' = tip /\ loose' = loose
      /\ unseen' = unseen
  BY DEF SaveProject, FileStep, SameBoard
<1>2. /\ DocOK(doc) /\ BoardOK(doc.board)
  BY DragTyped
<1>3. x = [board |-> doc.board, undo |-> doc.undo, redo |-> doc.redo, dirty |-> FALSE,
           engine |-> doc.engine]
  <2>1. doc \in [board : {doc.board}, undo : {doc.undo}, redo : {doc.redo}, dirty : {doc.dirty},
                 engine : {doc.engine}]
    BY <1>2, DocFields
  <2>2. x \in [board : {doc.board}, undo : {doc.undo}, redo : {doc.redo}, dirty : {FALSE},
               engine : {doc.engine}]
    BY <2>1
  <2> HIDE DEF x
  <2> QED
    BY <2>2
<1> HIDE DEF x
<1>4. DocOK(x)
  <2>1. FALSE \in BOOLEAN
    OBVIOUS
  <2> QED
    BY <1>2, <1>3, <2>1, WithBoard
<1>5. x.board = doc.board /\ x.undo = doc.undo /\ x.redo = doc.redo /\ x.engine = doc.engine
  BY <1>3
<1>6. EditorTypeOK'
  <2>1. {newer, path, loose, unseen}' \subseteq BOOLEAN
    BY <1>1 DEF EditorInv, EditorTypeOK
  <2> QED
    BY <1>1, <1>2, <1>4, <1>5, <2>1 DEF EditorInv, EditorTypeOK
<1>7. EngineCurrent'
  BY <1>1, <1>5 DEF EditorInv, EngineCurrent
<1>8. CleanIsOnDisk'
  BY <1>1, <1>2, <1>5, NotNoProject DEF CleanIsOnDisk
<1>9. ~loose' => Tight(x, Dragged(x.board, drag.from), opened, tip)
  BY <1>1, <1>5 DEF EditorInv, Tight
<1>10. (newer => autosave # NoProject)' /\ (Idle => drag.from = Still)'
       /\ (doc.redo = <<>> => tip = Shown(doc.board))'
  BY <1>1, <1>5 DEF EditorInv, Idle
<1> QED
  BY <1>1, <1>6, <1>7, <1>8, <1>9, <1>10 DEF EditorInv

LEMMA SaveFailsInv ==
  ASSUME EditorInv, SaveFails PROVE EditorInv'
<1>1. /\ doc' = doc /\ project' = project /\ autosave' = autosave /\ newer' = newer
      /\ path' = TRUE /\ drag' = drag /\ opened' = opened /\ tip' = tip /\ loose' = loose
      /\ unseen' = unseen
  BY DEF SaveFails, FileStep, SameBoard
<1>2. EditorTypeOK'
  <2>1. {newer, path, loose, unseen}' \subseteq BOOLEAN
    BY <1>1 DEF EditorInv, EditorTypeOK
  <2> QED
    BY <1>1, <2>1 DEF EditorInv, EditorTypeOK
<1>3. EngineCurrent' /\ CleanIsOnDisk'
  BY <1>1 DEF EditorInv, EngineCurrent, CleanIsOnDisk
<1> QED
  BY <1>1, <1>2, <1>3 DEF EditorInv, Idle

LEMMA AutosaveInv ==
  ASSUME EditorInv, Autosave PROVE EditorInv'
<1>1. /\ doc' = doc /\ project' = project /\ autosave' = doc.board /\ newer' = TRUE
      /\ path' = TRUE /\ drag' = drag /\ opened' = opened /\ tip' = tip /\ loose' = loose
      /\ unseen' = unseen /\ doc.dirty
  BY DEF Autosave, FileStep, SameBoard
<1>2. BoardOK(doc.board) /\ doc.board # NoProject
  BY DragTyped, NotNoProject
<1>3. EditorTypeOK'
  <2>1. {newer, path, loose, unseen}' \subseteq BOOLEAN
    BY <1>1 DEF EditorInv, EditorTypeOK
  <2> QED
    BY <1>1, <1>2, <2>1 DEF EditorInv, EditorTypeOK
<1>4. EngineCurrent' /\ CleanIsOnDisk'
  BY <1>1 DEF EditorInv, EngineCurrent, CleanIsOnDisk
<1> QED
  BY <1>1, <1>2, <1>3, <1>4 DEF EditorInv, Idle

LEMMA ReplacedInv ==
  ASSUME EditorInv, NEW b, BoardOK(b), NEW p \in BOOLEAN, Replaced(b, p),
         b = BlankBoard \/ b = project \/ (newer /\ b = autosave)
  PROVE  EditorInv'
<1>1. /\ doc' = Document(b) /\ project' = project /\ autosave' = autosave /\ newer' = newer
      /\ path' = p /\ opened' = Shown(b) /\ tip' = Shown(b) /\ loose' = FALSE
      /\ unseen' = FALSE
      /\ drag' = (IF Idle THEN NoDrag
                  ELSE Drag(Still, drag.stray \cup PadNets(doc, DOMAIN drag.from)))
  BY DEF Replaced, FileStep
<1> DEFINE x == Document(b)
<1>2. /\ DocOK(x) /\ x.board = b /\ x.dirty = FALSE
      /\ x.engine = Stale /\ x.redo = <<>>
      /\ Tight(x, Sight(b), Shown(b), Shown(b))
  BY OpenedDocument
<1> HIDE DEF x
<1>3. doc' = x
  BY <1>1 DEF x
<1>4. drag'.on \in BOOLEAN /\ drag'.from = Still /\ drag'.stray \subseteq BoardNet
      /\ DOMAIN drag'.from = {}
  <2>1. DOMAIN Still = {}
    BY StillTyped
  <2>2. CASE Idle
    BY <1>1, <2>1, <2>2 DEF NoDrag
  <2>3. CASE ~Idle
    <3>1. PadNets(doc, DOMAIN drag.from) \subseteq BoardNet /\ drag.stray \subseteq BoardNet
      BY DragTyped, PadNetsTyped
    <3> QED
      BY <1>1, <2>1, <2>3, <3>1 DEF Drag
  <2> QED
    BY <2>2, <2>3
<1>5. EditorTypeOK'
  <2>1. {newer, path, loose, unseen}' \subseteq BOOLEAN
    BY <1>1 DEF EditorInv, EditorTypeOK
  <2>2. drag'.from \in Placements(b.born)
    BY <1>4, StillTyped
  <2> QED
    BY <1>1, <1>2, <1>3, <1>4, <2>1, <2>2 DEF EditorInv, EditorTypeOK
<1>6. EngineCurrent'
  BY <1>2, <1>3 DEF EngineCurrent
<1>7. CleanIsOnDisk'
  <2>1. b \in {BlankBoard, project} \cup (IF newer THEN {autosave} ELSE {})
    OBVIOUS
  <2>2. b # NoProject
    BY NotNoProject
  <2> QED
    BY <1>1, <1>2, <1>3, <2>1, <2>2 DEF CleanIsOnDisk
<1>8. Dragged(b, drag'.from) = Sight(b)
  BY <1>4, DraggedNothing
<1>9. Tight(doc', Dragged(doc'.board, drag'.from), opened', tip')
  BY <1>1, <1>2, <1>3, <1>8
<1>10. (newer => autosave # NoProject)' /\ (Idle => drag.from = Still)'
       /\ (doc.redo = <<>> => tip = Shown(doc.board))'
  BY <1>1, <1>2, <1>3, <1>4 DEF EditorInv, Idle
<1> QED
  BY <1>5, <1>6, <1>7, <1>9, <1>10 DEF EditorInv

LEMMA FilesInv ==
  ASSUME EditorInv, NewBoard \/ OpenProject \/ RecoverAutosave PROVE EditorInv'
<1>1. TRUE \in BOOLEAN /\ FALSE \in BOOLEAN
  OBVIOUS
<1>2. CASE NewBoard
  BY <1>1, <1>2, BlankOK, ReplacedInv DEF NewBoard
<1>3. CASE OpenProject
  <2>1. BoardOK(project) /\ Replaced(project, TRUE)
    BY <1>3 DEF OpenProject, EditorInv, EditorTypeOK
  <2> QED
    BY <1>1, <2>1, ReplacedInv
<1>4. CASE RecoverAutosave
  <2>1. BoardOK(autosave) /\ Replaced(autosave, TRUE) /\ newer
    BY <1>4 DEF RecoverAutosave, EditorInv, EditorTypeOK
  <2> QED
    BY <1>1, <2>1, ReplacedInv
<1> QED
  BY <1>2, <1>3, <1>4

-----------------------------------------------------------------------------
LEMMA EditorStarts == EditorInit => EditorInv
<1> SUFFICES ASSUME EditorInit PROVE EditorInv
  OBVIOUS
<1>1. PICK b \in {BlankBoard, Saved} :
        /\ Start(b)
        /\ \/ b = BlankBoard /\ project = NoProject /\ path = FALSE /\ autosave = NoProject
           \/ b = Saved /\ project = Saved /\ path = TRUE /\ autosave \in {NoProject, Kept}
  BY DEF EditorInit
<1>2. newer = (autosave # NoProject)
  BY DEF EditorInit
<1>3. BoardOK(b) /\ BoardOK(Saved) /\ BoardOK(Kept)
  BY BlankOK, EditorConstants
<1>4. doc = Document(b) /\ drag = NoDrag
      /\ opened = Shown(b) /\ tip = Shown(b) /\ loose = FALSE /\ unseen = FALSE
  BY <1>1 DEF Start
<1>5. /\ DocOK(doc) /\ doc.board = b /\ doc.dirty = FALSE
      /\ doc.engine = Stale /\ doc.redo = <<>>
      /\ Tight(doc, Sight(b), Shown(b), Shown(b))
  BY <1>3, <1>4, OpenedDocument
<1>6. drag.on = FALSE /\ drag.from = Still /\ drag.stray = {} /\ DOMAIN drag.from = {}
      /\ drag.from \in Placements(b.born)
  BY <1>4, StillTyped DEF NoDrag
<1>7. EditorTypeOK
  <2>1. {newer, path, loose, unseen} \subseteq BOOLEAN
    BY <1>1, <1>2, <1>4
  <2>2. \A a \in {project, autosave} : a = NoProject \/ BoardOK(a)
    BY <1>1, <1>3
  <2> QED
    BY <1>5, <1>6, <2>1, <2>2 DEF EditorTypeOK
<1>8. EngineCurrent
  BY <1>5 DEF EngineCurrent
<1>9. CleanIsOnDisk
  <2>1. b # NoProject /\ b \in {BlankBoard, project}
    BY <1>1, <1>3, NotNoProject
  <2> QED
    BY <1>5, <2>1 DEF CleanIsOnDisk
<1>10. Tight(doc, Dragged(doc.board, drag.from), opened, tip)
  BY <1>3, <1>4, <1>5, <1>6, DraggedNothing
<1> QED
  BY <1>2, <1>4, <1>5, <1>6, <1>7, <1>8, <1>9, <1>10 DEF EditorInv

LEMMA EditorKeeps ==
  ASSUME EditorInv, [EditorNext]_editorVars PROVE EditorInv'
<1>1. CASE UNCHANGED editorVars
  BY <1>1 DEF editorVars, boardFiles, EditorInv, EditorTypeOK, EngineCurrent, CleanIsOnDisk, Idle
<1>2. CASE EditorNext
  BY <1>2, PlacePartInv, DeleteInv, RotateInv, AutoPlaceInv, BeginDragInv, DragMoveInv,
     EndDragInv, RouteClickInv, AutoRouteClickInv, SerpentineInv, DiffPairInv,
     GeneratePourInv, RouteAllInv, ApplyAdviceInv, SyncToBoardInv, RunDrcInv, UndoEditInv,
     RedoEditInv, SaveInv, SaveFailsInv, AutosaveInv, FilesInv
     DEF EditorNext
<1> QED
  BY <1>1, <1>2

LEMMA EditorSoundNow ==
  ASSUME EditorInv PROVE EditorTypeOK /\ EditsSound
<1>1. ASSUME Idle, ~loose
      PROVE  /\ Shown(AllApplied(doc, Turned(doc.undo)).board) = opened
             /\ Shown(AllApplied(doc, doc.redo).board) = tip
  <2>1. /\ DocOK(doc) /\ BoardOK(doc.board) /\ DOMAIN drag.from = {}
        /\ doc.undo \in Seq(EntryOf(doc)) /\ doc.redo \in Seq(EntryOf(doc))
    BY <1>1, DragTyped, DocFields
  <2>2. Tight(doc, Sight(doc.board), opened, tip)
    BY <1>1, <2>1, DraggedNothing DEF EditorInv
  <2>3. Turned(doc.undo) \in Seq(EntryOf(doc))
    BY <2>1, TurnedTyped DEF EntryOf
  <2>4. Leads(doc.redo, Sight(doc.board), tip, doc.board.born)
    <3>1. CASE doc.redo = <<>>
      BY <2>1, <3>1, SightTyped, LeadsNothing DEF EditorInv
    <3>2. CASE doc.redo # <<>>
      BY <2>2, <3>2 DEF Tight
    <3> QED
      BY <3>1, <3>2
  <2>5. Leads(Turned(doc.undo), Sight(doc.board), opened, doc.board.born)
    BY <2>2 DEF Tight
  <2> QED
    BY <2>1, <2>3, <2>4, <2>5, Unwound
<1> QED
  BY <1>1 DEF EditorInv, EditsSound, UndoRestores

(* EditsSound: undoing and redoing everything leads to the board that was  *)
(* opened and to the last one; the native board is the one on the screen;  *)
(* and what is clean can be had again from a file.                         *)
THEOREM EditsAreSound == EditorSpec => [](EditorTypeOK /\ EditsSound)
<1>1. EditorInv /\ [EditorNext]_editorVars => EditorInv'
  BY EditorKeeps
<1>2. EditorInv => EditorTypeOK /\ EditsSound
  BY EditorSoundNow
<1> QED
  BY EditorStarts, <1>1, <1>2, PTL DEF EditorSpec

-----------------------------------------------------------------------------
(* All of them.                                                            *)

LEMMA ToolsAreTheirs ==
  Spec => /\ GraphSpec /\ DesignSpec /\ PublicationSpec /\ InstallerSpec /\ RedesignSpec
          /\ NativeSpec /\ EditorSpec
<1>1. Init => /\ GraphInit /\ DesignInit /\ PublicationInit /\ InstallerInit /\ RedesignInit
              /\ NativeInit /\ EditorInit
  BY DEF Init
<1>2. [Next]_workbenchVars =>
        /\ [GraphNext]_graphVars /\ [DesignNext]_designVars
        /\ [PublicationNext]_publicationVars /\ [InstallerNext]_installerVars
        /\ [RedesignNext]_redesignVars /\ [NativeNext]_nativeVars /\ [EditorNext]_editorVars
  BY DEF Next, Keep, workbenchVars
<1> QED
  BY <1>1, <1>2, PTL
     DEF Spec, GraphSpec, DesignSpec, PublicationSpec, InstallerSpec, RedesignSpec, NativeSpec,
         EditorSpec

(* TypeOK: every tool keeps its types.                                     *)
THEOREM ToolsTyped == Spec => []TypeOK
<1>1. GraphSpec => []GraphTypeOK
  <2>1. GraphInit => GraphInv
    BY GraphConstants DEF GraphInit, GraphInv, GraphTypeOK, PublishedQualified, NoArtifacts
  <2>2. GraphInv => GraphTypeOK
    BY DEF GraphInv
  <2> QED
    BY <2>1, <2>2, GraphStep, PTL DEF GraphSpec
<1> QED
  BY <1>1, RedesignsTyped, ToolsAreTheirs, NativeTypes, ReportsAreCurrent, PublicationIsSound,
     ProductIsSafe, EditsAreSound, PTL DEF TypeOK

(* JournalSound, ProductSafe, PublicationSound and DocumentsSound, under   *)
(* the specification of all tools: of the documents, that a schematic's    *)
(* reports are current, and that a board's edits can be undone, checked    *)
(* and found again.                                                        *)
THEOREM FilesAreSafe ==
  Spec => [](JournalSound /\ ProductSafe /\ PublicationSound /\ DocumentsSound)
BY ToolsAreTheirs, JournalsAreSound, ProductIsSafe, PublicationIsSound, ReportsAreCurrent,
   EditsAreSound, PTL DEF DocumentsSound

(* GraphSound, RedesignsSound and AnswersTrue, under it, and that it too   *)
(* implements the abstract workspace.                                      *)
THEOREM ToolsAreSound ==
  Spec => GraphSound /\ RedesignsSound /\ AnswersTrue /\ RevisionSpec
BY ToolsAreTheirs, GraphIsSound, RedesignsAreSound, HostTellsTruth, WorkspaceRefines, PTL
=============================================================================
