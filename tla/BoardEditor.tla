---------------------------- MODULE BoardEditor ----------------------------
(***************************************************************************)
(* app/DesignStudio: the board of the earlier Windows client.  Its         *)
(* document, the undo stack of closures that every operation is to go      *)
(* through, the native board that is rebuilt from the document on demand,  *)
(* and the project with its autosave.                                      *)
(*                                                                         *)
(* Every handler runs to its end on the one thread of the interface, but a *)
(* drag is many of them, and keys and timers come between.  Copper is a    *)
(* set of pieces (a trace and its vias, or a pour), each with its net; the *)
(* number of layers, the outline and the rules are left out, and so is how *)
(* many pads of a part are on one net: its nets are kept.                  *)
(***************************************************************************)
EXTENDS Naturals, FiniteSets, Sequences, SequencesExt

CONSTANTS
  Footprints,  \* how many footprints may be placed
  Spot,        \* positions
  BoardNet,
  Items,       \* how many pieces of copper may be made
  Saved, Kept, \* a project on disk, opened at the start, and an autosave of it
  Stale,       \* _nativeStale
  NoProject,
  MaxEdits, MaxUndos, MaxOpens  \* how many edits, undos, and steps on files

Footprint == 1..Footprints
Pose == [at : Spot, turned : BOOLEAN]

(* A board: the copper on it, of the pieces there ever were (made), and    *)
(* the placed parts, of those there ever were (born), with the nets of     *)
(* their pads.                                                             *)
Boards ==
  [copper : SUBSET Nat, made : Seq([net : BoardNet, pour : BOOLEAN]),
   parts : SUBSET Footprint, born : 0..Footprints, pose : [Footprint -> Pose],
   pads : [Footprint -> SUBSET BoardNet], nets : SUBSET BoardNet]

(* What is on a board was made, or born.                                   *)
BoardOK(b) == b \in Boards /\ b.copper \subseteq DOMAIN b.made /\ b.parts \subseteq 1..b.born

ASSUME EditorConstants ==
  /\ {Footprints, Items, MaxEdits, MaxUndos, MaxOpens} \subseteq Nat
  /\ Spot # {} /\ IsFiniteSet(BoardNet)
  /\ BoardOK(Saved) /\ BoardOK(Kept) /\ NoProject \notin Boards

VARIABLES
  doc,      \* BoardDocument
  drag,     \* _draggingSelection, and _dragStart: the poses where the drag began
  project, autosave, newer, \* the files, and whether the autosave is the younger
  path,     \* FilePath is set
  opened,   \* history: the board as it was created or opened,
  tip,      \*   as it was before the undos that can be redone,
  loose,    \*   whether it was changed past the undo stack,
  unseen,   \*   and whether nets were assigned that nothing was told of
  edits, undos, opens

boardFiles == <<project, autosave, newer, path>>
editorVars == <<doc, drag, boardFiles, opened, tip, loose, unseen, edits, undos, opens>>

Still == [f \in {} |-> CHOOSE p \in Pose : TRUE]

(* What is dragged of this document; a drag goes on when the document is   *)
(* replaced, and then only the nets of its parts matter (stray).           *)
Drag(from, stray) == [on |-> TRUE, from |-> from, stray |-> stray]
NoDrag == [on |-> FALSE, from |-> Still, stray |-> {}]

BlankBoard ==
  [copper |-> {}, made |-> <<>>, parts |-> {}, born |-> 0,
   pose |-> [f \in Footprint |-> CHOOSE p \in Pose : TRUE],
   pads |-> [f \in Footprint |-> {}], nets |-> {}]

(* Load: a clean document with nothing to undo.                            *)
Document(b) == [board |-> b, undo |-> <<>>, redo |-> <<>>, dirty |-> FALSE, engine |-> Stale]

(* What undo is to restore.                                                *)
Shown(b) == [copper |-> b.copper, at |-> [f \in b.parts |-> b.pose[f]]]

(* What is saved, and what the native board is built from.                 *)
Whole(b) == [content |-> Shown(b), pads |-> [f \in b.parts |-> b.pads[f]], nets |-> b.nets,
             kinds |-> [i \in b.copper |-> b.made[i]]]

Start(b) ==
  /\ doc = Document(b) /\ drag = NoDrag
  /\ opened = Shown(b) /\ tip = Shown(b) /\ loose = FALSE /\ unseen = FALSE

EditorInit ==
  /\ \/ Start(BlankBoard) /\ project = NoProject /\ path = FALSE /\ autosave = NoProject
     \/ Start(Saved) /\ project = Saved /\ path = TRUE /\ autosave \in {NoProject, Kept}
  /\ newer = (autosave # NoProject)
  /\ edits = 0 /\ undos = 0 /\ opens = 0

-----------------------------------------------------------------------------
(* NotifyChanged, and SyncNative.                                          *)
Notified(d) == [d EXCEPT !.dirty = TRUE, !.engine = Stale]
Synced(d) == IF d.engine = Stale THEN [d EXCEPT !.engine = Whole(d.board)] ELSE d

(* An entry of the undo stack stands for what its closures do.             *)
Copper(out, in) ==
  [out |-> out, in |-> in, gone |-> {}, new |-> {}, from |-> Still, to |-> Still]
Placing(f) == [Copper({}, {}) EXCEPT !.new = {f}]
Deleting(fs, cs) == [Copper(cs, {}) EXCEPT !.gone = fs]
Moving(from, to) == [Copper({}, {}) EXCEPT !.from = from, !.to = to]

\* mutant: the undo of a deletion brings back the parts and not the copper
BackwardsParts(e) == [out |-> {}, in |-> {}, gone |-> e.new, new |-> e.gone,
                      from |-> e.to, to |-> e.from]
Backwards(e) == [out |-> e.in, in |-> e.out, gone |-> e.new, new |-> e.gone,
                 from |-> e.to, to |-> e.from]

Put(to, pose) == [f \in Footprint |-> IF f \in DOMAIN to THEN to[f] ELSE pose[f]]
Apply(d, e) ==
  Notified([d EXCEPT !.board.copper = (@ \ e.out) \cup e.in,
                    !.board.parts = (@ \ e.gone) \cup e.new,
                    !.board.pose = Put(e.to, @)])
Push(d, e) == [d EXCEPT !.undo = Append(@, e), !.redo = <<>>]
Do(d, e) == Push(Apply(d, e), e)

UndoLast(d) ==
  LET e == Last(d.undo) IN
  [Apply(d, Backwards(e)) EXCEPT !.undo = Front(@), !.redo = Append(@, e)]
RedoLast(d) ==
  LET e == Last(d.redo) IN
  [Apply(d, e) EXCEPT !.redo = Front(@), !.undo = Append(@, e)]

(* New pieces of copper.                                                   *)
NewPiece(d) == Len(d.board.made) + 1
Room(d, n) == Len(d.board.made) + n <= Items
Make(d, n, pour) == [d EXCEPT !.board.made = Append(@, [net |-> n, pour |-> pour])]
Pieces(d, n, pour) == {i \in d.board.copper : d.board.made[i] = [net |-> n, pour |-> pour]}
Tracks(d, n) == Pieces(d, n, FALSE)
AddPiece(d, n) == Do(Make(d, n, FALSE), Copper({}, {NewPiece(d)}))

(* AutoRoute: the engine finds a way (ok), or does not.                    *)
Routed(d, n, ok) == IF ok /\ Room(d, 1) THEN AddPiece(Synced(d), n) ELSE Synced(d)

(* RerouteFootprintNets: the routed ones of these nets are ripped up and   *)
(* routed again, if there are still two ends to join.                      *)
Ends(d, n) == {f \in d.board.parts : n \in d.board.pads[f]}
PadNets(d, fs) == UNION {d.board.pads[f] : f \in fs}
Rerouted(d, nets, found) ==
  LET Again(n, acc) ==
        IF Tracks(acc, n) = {} THEN acc
        ELSE LET ripped == Do(acc, Copper(Tracks(acc, n), {})) IN
             IF Cardinality(Ends(d, n)) < 2 THEN ripped ELSE Routed(ripped, n, n \in found)
  IN  FoldSet(Again, d, nets)

Poses(d, fs) == [f \in fs |-> d.board.pose[f]]

(* A handler leaves the document as d; past the stack if it did not push   *)
(* all that it did; mute if it assigned nets and told nobody.              *)
Becomes(d, past, mute) ==
  /\ doc' = d
  /\ tip' = IF d.redo = <<>> THEN Shown(d.board) ELSE tip
  /\ loose' = (loose \/ past)
  /\ unseen' = ((unseen \/ mute) /\ ~(d.dirty /\ d.engine = Stale))
  /\ UNCHANGED <<boardFiles, opened, opens>>

(* Edits of the bounded number.                                            *)
Edits(d, past, mute) ==
  /\ edits < MaxEdits /\ edits' = edits + 1
  /\ Becomes(d, past, mute)
  /\ UNCHANGED undos
EditBoard(d) == Edits(d, FALSE, FALSE) /\ UNCHANGED drag
Idle == ~drag.on

-----------------------------------------------------------------------------
(* AddFootprint: a click of the placing tool.                              *)
NewPart(d, p) ==
  LET f == d.board.born + 1 IN
  Do([d EXCEPT !.board.born = f, !.board.pose[f] = p, !.board.pads[f] = {}], Placing(f))

PlacePart ==
  /\ Idle /\ doc.board.born < Footprints
  /\ \E p \in Pose : EditBoard(NewPart(doc, p))

(* The keys R and Del work on the selection, in the middle of a drag too:  *)
(* then it is what is dragged, as far as it still is on the board.         *)
Selection ==
  IF Idle THEN SUBSET doc.board.parts ELSE {DOMAIN drag.from \cap doc.board.parts}

Selectable == {i \in doc.board.copper : ~doc.board.made[i].pour}

DeleteSelection ==
  \E fs \in Selection, cs \in {{}} \cup {{i} : i \in Selectable} :
    /\ fs # {} \/ cs # {}
    /\ ~Idle => cs = {}
    /\ EditBoard(Do(doc, Deleting(fs, cs)))

Rotated(poses) == [f \in DOMAIN poses |-> [poses[f] EXCEPT !.turned = ~@]]

(* A group move that is pushed already done.                               *)
Moved(d, from, to) == Do(d, Moving(from, to))

RotateSelection ==
  \E fs \in Selection \ {{}}, found \in SUBSET BoardNet :
    LET before == Poses(doc, fs) IN
    /\ Edits(Rerouted(Moved(doc, before, Rotated(before)), PadNets(doc, fs), found),
             ~Idle, FALSE)
    /\ UNCHANGED drag

AutoPlace ==
  /\ Idle /\ Cardinality(doc.board.parts) >= 2
  /\ \E spots \in [doc.board.parts -> Spot] :
       LET before == Poses(doc, doc.board.parts)
           after == [f \in DOMAIN before |-> [before[f] EXCEPT !.at = spots[f]]]
       IN  after # before /\ EditBoard(Moved(doc, before, after))

-----------------------------------------------------------------------------
(* A drag begins at a part; the other selected ones go with it.            *)
BeginDrag ==
  /\ Idle
  /\ \E fs \in SUBSET doc.board.parts :
       fs # {} /\ drag' = Drag(Poses(doc, fs), {})
  /\ Edits(doc, FALSE, FALSE)

(* MoveFootprint, without an entry; what was dragged and then deleted is   *)
(* moved as well.                                                          *)
DragMove ==
  /\ ~Idle
  /\ \E s \in Spot :
       LET dragged == DOMAIN drag.from
           to == [f \in dragged |-> [doc.board.pose[f] EXCEPT !.at = s]]
       IN  Becomes(Notified([doc EXCEPT !.board.pose = Put(to, @)]), FALSE, FALSE)
  /\ UNCHANGED <<drag, edits, undos>>

Dropped(d, from) ==
  LET to == Poses(d, DOMAIN from) IN
  IF from = to THEN d ELSE Push(d, Moving(from, to))

(* Only a part that is at another place has its nets routed again.  When   *)
(* the parts belong to a document that was replaced meanwhile, the entry   *)
(* and the new routes of their nets go to this one.                        *)
EndDrag ==
  /\ ~Idle
  /\ \E found \in SUBSET BoardNet :
       LET away == \E f \in DOMAIN drag.from : doc.board.pose[f].at # drag.from[f].at
           dropped == Dropped(doc, drag.from)
           nets == PadNets(doc, DOMAIN drag.from)
       IN  \/ Becomes(IF away THEN Rerouted(dropped, nets, found) ELSE dropped, FALSE, FALSE)
          \/ /\ DOMAIN drag.from = {}
             /\ Becomes(Rerouted(Push(doc, Moving(Still, Still)), drag.stray, found),
                        FALSE, FALSE)
  /\ drag' = NoDrag /\ UNCHANGED <<edits, undos>>

-----------------------------------------------------------------------------
(* ShoveRouter.Place: a piece is placed, a blocker of another net making   *)
(* way; when it cannot, all is as it was.                                  *)
RouteClick ==
  \E n \in BoardNet :
    /\ Idle
    /\ \/ Room(doc, 1) /\ EditBoard(AddPiece(doc, n))
       \/ /\ Room(doc, 2)
          /\ \E b \in Selectable :
               LET m == doc.board.made[b].net
                   bumped == Make(Make(doc, n, FALSE), m, FALSE)
               IN  /\ m # n
                   /\ \/ EditBoard(Do(bumped, Copper({b}, {NewPiece(doc), NewPiece(doc) + 1})))
                      \/ EditBoard(Notified(doc))

AutoRouteClick ==
  /\ Idle
  /\ \E n \in BoardNet, ok \in BOOLEAN : EditBoard(Routed(doc, n, ok))

(* SerpentineTuner.AddLength: a meander takes the place of the longest     *)
(* piece, unless that is too short.                                        *)
Tuned(d, n, host) ==
  IF host \in Tracks(d, n) /\ Room(d, 1)
  THEN Do(Make(d, n, FALSE), Copper({host}, {NewPiece(d)})) ELSE d

Serpentine ==
  /\ Idle
  /\ \E n \in BoardNet : \E host \in Tracks(doc, n) :
       EditBoard(Tuned(doc, n, host))

(* DiffPairRouter.Route.  The second side is added without an entry, then  *)
(* the shorter side may be tuned, and only then the entry of the second    *)
(* side is pushed.                                                         *)
DiffPair ==
  /\ Idle /\ Room(doc, 3)
  /\ \E p, n \in BoardNet :
       /\ p # n /\ Cardinality(Ends(doc, n)) >= 2
       /\ LET one  == Routed(doc, p, TRUE)
              mate == NewPiece(one)
              both == Notified([Make(one, n, FALSE) EXCEPT !.board.copper = @ \cup {mate}])
          IN  \E side \in {p, n} : \E host \in Tracks(both, side) \cup {NewPiece(both)} :
                LET tuned == Tuned(both, side, host) IN
                Edits(Push(tuned, Copper({}, {mate})), host = mate, FALSE)
  /\ UNCHANGED drag

(* GeneratePour: old pours of the net go, new ones come, or none.          *)
GeneratePour ==
  /\ Idle /\ Room(doc, 1)
  /\ \E n \in doc.board.nets, some \in BOOLEAN :
       LET old == Pieces(doc, n, TRUE)
           new == IF some THEN {NewPiece(doc)} ELSE {}
           poured == IF some THEN Make(doc, n, TRUE) ELSE doc
       IN  EditBoard(Do(poured, Copper(old, new)))

(* BatchRouter.RouteAll: the open nets one after the other; when one is    *)
(* shut out, what was routed for another in this run is ripped up, past    *)
(* the stack, and both are tried again.                                    *)
Open(d) == {n \in d.board.nets : Cardinality(Ends(d, n)) >= 2 /\ Tracks(d, n) = {}}

RouteAll ==
  /\ Idle /\ Open(doc) # {}
  /\ \/ \E found \in SUBSET Open(doc) :
          LET Try(n, acc) == Routed(acc, n, n \in found)
          IN  Edits(FoldSet(Try, doc, Open(doc)), FALSE, FALSE)
     \/ \E victim, shut \in Open(doc), okShut, okVictim \in BOOLEAN :
          /\ victim # shut /\ Room(doc, 3)
          /\ LET pass1 == Routed(doc, victim, TRUE)
                 ripped == Notified([pass1 EXCEPT !.board.copper = @ \ Tracks(pass1, victim)])
             IN  Edits(Routed(Routed(ripped, shut, okShut), victim, okVictim), TRUE, FALSE)
  /\ UNCHANGED drag

-----------------------------------------------------------------------------
(* AddNet tells of a new net; what is done to a pad it does not know.  A   *)
(* pad that had a net (m) may have been the only one of the part on it.    *)
AddNet(d, n) ==
  IF n \in d.board.nets THEN d ELSE Notified([d EXCEPT !.board.nets = @ \cup {n}])
Joined(d, f, n, m) == [d EXCEPT !.board.pads[f] = (@ \ {m}) \cup {n}]

(* AdviceApplier.Apply.                                                    *)
ApplyAdvice ==
  /\ Idle
  /\ \E f \in doc.board.parts, n, m \in BoardNet :
       LET advised == Joined(AddNet(doc, n), f, n, m) IN
       Edits(advised, FALSE, advised # doc)
  /\ UNCHANGED drag

(* SyncToBoard: a part of the schematic that is not there is placed, and   *)
(* its pad joined to the net.                                              *)
SyncToBoard ==
  /\ Idle
  /\ \E n \in BoardNet :
       \/ \E f \in doc.board.parts, m \in BoardNet :
            EditBoard(Notified(Joined(AddNet(doc, n), f, n, m)))
       \/ /\ doc.board.born < Footprints
          /\ \E p \in Pose :
               LET placed == NewPart(AddNet(doc, n), p) IN
               EditBoard(Notified(Joined(placed, placed.board.born, n, n)))

(* A design-rule check, or any other question to the native board.         *)
RunDrc ==
  /\ doc.engine = Stale /\ Becomes(Synced(doc), FALSE, FALSE)
  /\ UNCHANGED <<drag, edits, undos>>

UndoEdit ==
  /\ doc.undo # <<>> /\ undos < MaxUndos /\ undos' = undos + 1
  /\ Becomes(UndoLast(doc), DOMAIN drag.from # {}, FALSE)
  /\ UNCHANGED <<drag, edits>>

RedoEdit ==
  /\ doc.redo # <<>>
  /\ Becomes(RedoLast(doc), DOMAIN drag.from # {}, FALSE)
  /\ UNCHANGED <<drag, edits, undos>>

-----------------------------------------------------------------------------
(* The files, touched a bounded number of times.                           *)
FileStep(d, saved, kept, later, p) ==
  /\ opens < MaxOpens /\ opens' = opens + 1
  /\ doc' = d /\ project' = saved /\ autosave' = kept /\ newer' = later /\ path' = p
  /\ UNCHANGED <<edits, undos>>
SameBoard == UNCHANGED <<drag, opened, tip, loose, unseen>>

(* Save As sets the path before the file is written, and keeps it when     *)
(* that fails.                                                             *)
SaveProject ==
  /\ FileStep([doc EXCEPT !.dirty = FALSE], doc.board, autosave, FALSE, TRUE)
  /\ SameBoard
SaveFails == ~path /\ FileStep(doc, project, autosave, newer, TRUE) /\ SameBoard

(* The timer; it asks nobody and leaves the document dirty.                *)
Autosave ==
  /\ doc.dirty /\ path
  /\ FileStep(doc, project, doc.board, TRUE, TRUE)
  /\ SameBoard

(* Another board takes its place, unsaved changes being discarded or lost  *)
(* with the program; a newer autosave is loaded if the user wants it, and  *)
(* saved to the project again.  A drag goes on.                            *)
Replaced(b, p) ==
  /\ FileStep(Document(b), project, autosave, newer, p)
  /\ drag' = IF Idle THEN NoDrag
             ELSE Drag(Still, drag.stray \cup PadNets(doc, DOMAIN drag.from))
  /\ opened' = Shown(b) /\ tip' = Shown(b) /\ loose' = FALSE /\ unseen' = FALSE

NewBoard == Replaced(BlankBoard, FALSE)
OpenProject == project # NoProject /\ Replaced(project, TRUE)
RecoverAutosave == project # NoProject /\ newer /\ Replaced(autosave, TRUE)

EditorNext ==
  \/ PlacePart \/ DeleteSelection \/ RotateSelection \/ AutoPlace
  \/ BeginDrag \/ DragMove \/ EndDrag
  \/ RouteClick \/ AutoRouteClick \/ Serpentine \/ DiffPair \/ GeneratePour \/ RouteAll
  \/ ApplyAdvice \/ SyncToBoard \/ RunDrc \/ UndoEdit \/ RedoEdit
  \/ SaveProject \/ SaveFails \/ Autosave
  \/ NewBoard \/ OpenProject \/ RecoverAutosave

EditorSpec == EditorInit /\ [][EditorNext]_editorVars

-----------------------------------------------------------------------------
(* What the closures of an entry refer to was made or born before.         *)
Placements(n) == UNION {[S -> Pose] : S \in SUBSET (1..n)}
Entry(m, n) ==
  [out : SUBSET (1..m), in : SUBSET (1..m), gone : SUBSET (1..n), new : SUBSET (1..n),
   from : Placements(n), to : Placements(n)]

DocOK(d) ==
  LET Stack == Seq(Entry(Len(d.board.made), d.board.born))
  IN  /\ BoardOK(d.board)
      /\ d \in [board : {d.board}, undo : Stack, redo : Stack, dirty : BOOLEAN,
                engine : {d.engine}]

(* Every variable holds a value of its type.                               *)
EditorTypeOK ==
  /\ DocOK(doc)
  /\ drag.on \in BOOLEAN /\ drag.from \in Placements(doc.board.born)
  /\ drag.stray \subseteq BoardNet
  /\ \A b \in {project, autosave} : b = NoProject \/ BoardOK(b)
  /\ {newer, path, loose, unseen} \subseteq BOOLEAN

(* The entries of a stack, applied from the top down.                      *)
AllApplied(d, w) ==
  LET on[n \in 0..Len(w)] == IF n = 0 THEN d ELSE Apply(on[n - 1], w[Len(w) + 1 - n])
  IN  on[Len(w)]

Turned(w) == [k \in DOMAIN w |-> Backwards(w[k])]

(* Undoing all there is leads back to the board that was opened, and       *)
(* redoing all to the one before the undos, however drags, reroutes,       *)
(* tunings and pours followed each other; save after the operations that   *)
(* change the board past the stack (a tuned pair, a batch that rips up,    *)
(* undo, redo and rotation in the middle of a drag).                       *)
UndoRestores ==
  Idle /\ ~loose =>
    /\ Shown(AllApplied(doc, Turned(doc.undo)).board) = opened
    /\ Shown(AllApplied(doc, doc.redo).board) = tip

(* Whenever the native board counts as current it is the document: the     *)
(* engine routes and checks what is on the screen.                         *)
EngineCurrent == ~unseen /\ doc.engine # Stale => doc.engine = Whole(doc.board)

(* What can be left without a question can be had again: from the project, *)
(* from an autosave that is still offered, or as a new board.              *)
CleanIsOnDisk ==
  ~unseen /\ ~doc.dirty =>
    \E b \in {BlankBoard, project} \cup (IF newer THEN {autosave} ELSE {}) :
      b # NoProject /\ Whole(doc.board) = Whole(b)

EditsSound == UndoRestores /\ EngineCurrent /\ CleanIsOnDisk
=============================================================================
