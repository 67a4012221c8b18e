-------------------------- MODULE InteractiveRoute --------------------------
(***************************************************************************)
(* Routing a trace with the mouse: the session of interactive_router.cpp,  *)
(* which works on private copies of the native board, the handle that owns *)
(* it (c_api.cpp, CoreBridge.cpp), and the canvas that shows its preview   *)
(* and applies it to the document (PcbCanvas.cpp).                         *)
(*                                                                         *)
(* Geometry is left to the router: where a leg can be drawn, and what it   *)
(* shoves aside, is any choice.  Copper is a sequence, and a place in it   *)
(* stands for the native id and for the index in the document.             *)
(***************************************************************************)
EXTENDS Naturals, FiniteSets, Sequences, SequencesExt

CONSTANTS
  Point,        \* cursor positions on the routing grid
  Layers,       \* number of copper layers
  MaxShoved,    \* copper that one gesture shoves aside
  MaxRoutes, MaxGestures, MaxDocumentEdits

ASSUME RouteConstants ==
  /\ Point # {} /\ Layers \in Nat \ {0}
  /\ {MaxShoved, MaxRoutes, MaxGestures, MaxDocumentEdits} \subseteq Nat

Layer == 1 .. Layers
Trace(p, q, l) == [kind |-> "trace", from |-> p, to |-> q, layer |-> l, shoved |-> FALSE]
ViaTo(p, l) == [kind |-> "via", from |-> p, to |-> p, layer |-> l, shoved |-> FALSE]
Copper == [kind : {"trace", "via"}, from : Point, to : Point, layer : Layer, shoved : BOOLEAN]

VARIABLES
  project,      \* copper of the document
  board,        \* copper of the native board
  session,      \* the session of the board's handle
  start, anchor, cursor, layer,   \* its request, and where it draws from
  original, stagedBoard, previewBoard, hasPreview,
  shown,        \* the preview that the bridge and the canvas hold
  routing,      \* of the canvas
  waypoint,     \* history: copper and place that a preview has to start from
  kept,         \* history: the document is as the board was built from it
  routes, gestures, documentEdits

head == <<start, anchor, cursor, layer>>
copies == <<original, stagedBoard, previewBoard, hasPreview>>
routeBounds == <<routes, gestures, documentEdits>>
routeVars == <<project, board, session, head, copies, shown, routing, waypoint, kept, routeBounds>>

(* What the preview says of the way from one board to another.             *)
Changes(before, after) ==
  [accepted |-> TRUE,
   moved |-> [i \in {j \in DOMAIN before : before[j] # after[j]} |-> after[i]],
   added |-> SubSeq(after, Len(before) + 1, Len(after))]
NothingShown == [accepted |-> FALSE, moved |-> [i \in {} |-> 0], added |-> <<>>]

RouteInit ==
  /\ \E p \in Point : project = <<Trace(p, p, 1)>>
  /\ board = <<>> /\ session = "none"
  /\ start \in [at : Point, layer : {1}]
  /\ anchor = start.at /\ cursor = start.at /\ layer = start.layer
  /\ original = <<>> /\ stagedBoard = <<>> /\ previewBoard = <<>> /\ hasPreview = FALSE
  /\ shown = NothingShown /\ routing = FALSE
  /\ waypoint = [copper |-> <<>>, at |-> start.at] /\ kept = FALSE
  /\ routes = 0 /\ gestures = 0 /\ documentEdits = 0

-----------------------------------------------------------------------------
(* The press that starts a route: the board is built from the document and *)
(* the session copies it.                                                  *)
BeginRoute(p, l) ==
  /\ ~routing /\ routes < MaxRoutes /\ routes' = routes + 1
  /\ board' = project /\ kept' = TRUE
  /\ start' = [at |-> p, layer |-> l] /\ anchor' = p /\ cursor' = p /\ layer' = l
  /\ original' = project /\ stagedBoard' = project /\ previewBoard' = project
  /\ waypoint' = [copper |-> project, at |-> p]
  /\ \/ session' = "active" /\ hasPreview' = TRUE /\ routing' = TRUE
        /\ shown' = Changes(project, project)
     \/ session' = "idle" /\ hasPreview' = FALSE /\ routing' = FALSE /\ shown' = NothingShown
  /\ UNCHANGED <<project, gestures, documentEdits>>

Gesture == routing /\ gestures < MaxGestures /\ gestures' = gestures + 1
              /\ UNCHANGED <<routing, routes, documentEdits>>

(* reject, on top of what is staged by then.                               *)
Rejected(now) ==
  /\ shown' = NothingShown /\ hasPreview' = FALSE /\ previewBoard' = now

(* A gesture after the handle lost its session.                            *)
NoSession ==
  /\ Gesture /\ session # "active" /\ shown' = NothingShown
  /\ UNCHANGED <<project, board, session, head, copies, waypoint, kept>>

(* buildShove and its walkaround: some copper moves, a leg is added.       *)
Shoved(copper, S) ==
  [i \in DOMAIN copper |-> IF i \in S THEN [copper[i] EXCEPT !.shoved = ~@] ELSE copper[i]]
Leg(c) == IF c = anchor THEN <<>> ELSE <<Trace(anchor, c, layer)>>

SinceStaged == stagedBoard  \* mutant: only what the last gesture changed is described
Since == original

MoveCursor(c) ==
  /\ Gesture /\ session = "active" /\ cursor' = c
  /\ \/ \E S \in SUBSET DOMAIN stagedBoard :
          /\ Cardinality(S) <= MaxShoved /\ (c = anchor => S = {})
          /\ previewBoard' = Shoved(stagedBoard, S) \o Leg(c)
          /\ shown' = Changes(Since, previewBoard') /\ hasPreview' = TRUE
     \/ c # anchor /\ Rejected(stagedBoard)
  /\ UNCHANGED <<project, board, session, start, anchor, layer, original, stagedBoard, waypoint,
                 kept>>

(* placeVia: the preview is staged and the anchor moved before the         *)
(* transition is routed and checked.                                       *)
PlaceVia(target) ==
  /\ Gesture /\ session = "active"
  /\ IF ~hasPreview \/ target = layer
     THEN Rejected(stagedBoard) /\ UNCHANGED <<stagedBoard, anchor, layer, waypoint>>
     ELSE /\ anchor' = cursor
          /\ \/ /\ stagedBoard' = previewBoard /\ Rejected(previewBoard)
                /\ UNCHANGED <<layer, waypoint>>
             \/ \E p \in Point :
                  /\ stagedBoard' = Append(previewBoard, ViaTo(p, target))
                  /\ previewBoard' = stagedBoard'
                  /\ shown' = Changes(Since, stagedBoard') /\ hasPreview' = TRUE /\ layer' = target
                  /\ waypoint' = [copper |-> stagedBoard', at |-> cursor]
  /\ UNCHANGED <<project, board, session, start, cursor, original, kept>>

(* commitInteractiveRoute: the moved copper is found by its index, and     *)
(* keeps the layer it has in the document.                                 *)
Applied(document, preview) ==
  [i \in DOMAIN document |->
     IF i \in DOMAIN preview.moved THEN [preview.moved[i] EXCEPT !.layer = document[i].layer]
     ELSE document[i]] \o preview.added

CommitRoute ==
  /\ routing /\ session = "active" /\ shown.accepted /\ hasPreview
  /\ board' = previewBoard /\ stagedBoard' = previewBoard
  /\ session' = "idle" /\ hasPreview' = FALSE
  /\ project' = Applied(project, shown) /\ shown' = NothingShown /\ routing' = FALSE
  /\ UNCHANGED <<head, original, previewBoard, waypoint, kept, routeBounds>>

CancelRoute ==
  /\ routing /\ routing' = FALSE /\ shown' = NothingShown
  /\ IF session = "none" THEN UNCHANGED <<session, copies>>
     ELSE /\ session' = "idle" /\ hasPreview' = FALSE
          /\ stagedBoard' = board /\ previewBoard' = board
          /\ UNCHANGED original
  /\ UNCHANGED <<project, board, head, waypoint, kept, routeBounds>>

-----------------------------------------------------------------------------
(* The rest of the application, which a route does not stop.  A check, a   *)
(* pour or the automatic router builds the board anew; a result of the     *)
(* automatic router or another document changes the project alone.         *)
RebuildBoard ==
  /\ routing /\ session # "none"
  /\ board' = project /\ session' = "none" /\ hasPreview' = FALSE /\ kept' = TRUE
  /\ UNCHANGED <<project, head, original, stagedBoard, previewBoard, shown, routing, waypoint,
                 routeBounds>>

ChangeProject ==
  /\ documentEdits < MaxDocumentEdits /\ documentEdits' = documentEdits + 1
  /\ \E p \in Point : \/ project' = Append(project, Trace(p, p, 1))
                      \/ project' = <<Trace(p, p, Layers)>>
  /\ kept' = FALSE
  /\ UNCHANGED <<board, session, head, copies, shown, routing, waypoint, routes, gestures>>

RouteNext ==
  \/ \E p \in Point, l \in Layer : BeginRoute(p, l)
  \/ NoSession
  \/ \E c \in Point : MoveCursor(c)
  \/ \E l \in Layer : PlaceVia(l)
  \/ CommitRoute \/ CancelRoute \/ RebuildBoard \/ ChangeProject

RouteSpec == RouteInit /\ [][RouteNext]_routeVars

-----------------------------------------------------------------------------
RouteTypeOK ==
  /\ {project, board, original, stagedBoard, previewBoard} \subseteq Seq(Copper)
  /\ session \in {"none", "idle", "active"} /\ hasPreview \in BOOLEAN /\ routing \in BOOLEAN
  /\ start \in [at : Point, layer : Layer] /\ {anchor, cursor} \subseteq Point /\ layer \in Layer
  /\ shown.accepted \in BOOLEAN /\ shown.added \in Seq(Copper)
  /\ hasPreview => session = "active"

(* A route is one line: every leg starts where the one before was laid to, *)
(* on the layer of the last via, whatever was refused in between.          *)
IsTrace(c) == c.kind = "trace"
IsVia(c) == c.kind = "via"
EndOf(route, i) ==
  LET j == SelectLastInSubSeq(route, 1, i, IsTrace) IN IF j = 0 THEN start.at ELSE route[j].to
LayerOf(route, i) ==
  LET j == SelectLastInSubSeq(route, 1, i, IsVia) IN IF j = 0 THEN start.layer ELSE route[j].layer

Joined(route) ==
  \A i \in DOMAIN route :
    IsTrace(route[i]) =>
      route[i].from = EndOf(route, i - 1) /\ route[i].layer = LayerOf(route, i - 1)

RouteJoined ==
  session # "none" => Joined(SubSeq(previewBoard, Len(original) + 1, Len(previewBoard)))

(* The user accepts what is shown and nothing else: as long as the         *)
(* document is the one the board was built from, the two are equal, and an *)
(* accepted preview leads the document to the board that a commit adopts.  *)
CommittedAsShown ==
  kept => /\ project = board
          /\ routing /\ session = "active" /\ shown.accepted =>
               Applied(project, shown) = previewBoard

RouteSound == RouteJoined /\ CommittedAsShown

(* "Every cursor update starts from the last accepted waypoint snapshot    *)
(* ...; moving away restores exact pre-shove geometry (springback)"        *)
(* (docs/INTERACTIVE-ROUTING.md): an accepted preview is the waypoint's    *)
(* copper and at most one leg from the waypoint.                           *)
Springback ==
  session = "active" /\ hasPreview =>
    LET n == Len(waypoint.copper) IN
    /\ Len(previewBoard) \in {n, n + 1}
    /\ Len(previewBoard) = n + 1 => Last(previewBoard).from = waypoint.at
=============================================================================
