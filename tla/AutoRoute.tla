------------------------------ MODULE AutoRoute ------------------------------
(***************************************************************************)
(* The automatic router: CoreBridge::autoRoute routes the connections of   *)
(* the board one by one, then rips up what is in the way of those that     *)
(* failed and routes it anew; the window runs it in the background and     *)
(* adds the result to the document (MainWindow.cpp).                       *)
(*                                                                         *)
(* A way takes some cells of the board; which ways a connection has is a   *)
(* constant, and the search of the native router finds any way that is     *)
(* free, or, within its budget, none.  The document is its copper.         *)
(*                                                                         *)
(* Checks and pours of the board take the mutex and run between two runs.  *)
(* A route that is drawn by hand does not: it would rebuild the board      *)
(* under the router's hands, which is undefined, and is left out here.     *)
(***************************************************************************)
EXTENDS Naturals, FiniteSets, Sequences, SequencesExt

CONSTANTS
  Connection,    \* 1..n, in the order of their spans, longest first
  NetOf,         \* the net of a connection
  Cell,
  Ways,          \* of a connection: [cells, thin], thin for a straight line along an axis
  Box,           \* the cells between the ends of a connection and a millimetre around
  Stroke,        \* copper that the user may draw, [net, cell]
  MaxRouteRuns, MaxBoardEdits

ASSUME AutoRouteConstants ==
  /\ Cardinality(Connection) \in Nat /\ Connection = 1 .. Cardinality(Connection)
  /\ \A c \in Connection : /\ Box[c] \subseteq Cell
                           /\ \A w \in Ways[c] : w.cells \in (SUBSET Cell) \ {{}}
  /\ Stroke \subseteq [net : {NetOf[c] : c \in Connection}, cell : Cell]
  /\ MaxRouteRuns \in Nat /\ MaxBoardEdits \in Nat

MaxPasses == 3
MaxBlockers == 6

VARIABLES
  drawing,       \* the copper of the document: a set of [net, cell]
  nativeBoard,   \* that of the native board, which the router reads
  routable,      \* the button is enabled
  started,       \* the runs that wait for the board
  work,          \* the run that has it
  finished,      \* results that the window has not taken yet
  spoiled,       \* history: a result was added to a document that had changed
  routeRuns, boardEdits

autoVars ==
  <<drawing, nativeBoard, routable, started, work, finished, spoiled, routeRuns, boardEdits>>

NoWay == [cells |-> {}, thin |-> FALSE]
NoWork == [by |-> "nobody"]

Laid(c, way) == {[net |-> NetOf[c], cell |-> x] : x \in way.cells}
LaidAll(run, routed) == UNION {Laid(c, run.way[c]) : c \in ToSet(routed)}
FreeWays(c, copper) == {w \in Ways[c] : \A x \in copper : x.cell \in w.cells => x.net = NetOf[c]}

AutoInit ==
  /\ drawing = {} /\ nativeBoard = {} /\ routable = TRUE
  /\ started = {} /\ work = NoWork /\ finished = {}
  /\ spoiled = FALSE /\ routeRuns = 0 /\ boardEdits = 0

-----------------------------------------------------------------------------
(* The window.  A run of the design tool keeps its thread until it ends.   *)
ByTool == {r \in started \cup {work} \cup finished : r.by = "tool"}
WindowLive == ByTool = {}

(* onAutoRoute, behind its button; the route job of the chat, which does   *)
(* not look at it; and the tool that optimises the placement.              *)
StartRoute(by) ==
  /\ WindowLive /\ routeRuns < MaxRouteRuns /\ routeRuns' = routeRuns + 1
  /\ by = "menu" => routable
  /\ routable' = (routable /\ by = "tool")
  /\ started' = started \cup {[by |-> by, id |-> routeRuns']}
  /\ UNCHANGED <<drawing, nativeBoard, work, finished, spoiled, boardEdits>>

(* The finished handlers, and the rest of the tool.                        *)
TakesAll(r) == TRUE  \* mutant: an incomplete result is added too
Takes(r) == r.ok

TakeResult(r) ==
  /\ r.by = "tool" \/ WindowLive
  /\ finished' = {IF o # r /\ Takes(r) THEN [o EXCEPT !.fresh = FALSE] ELSE o : o \in finished} \ {r}
  /\ drawing' = IF Takes(r) THEN drawing \cup r.copper ELSE drawing
  /\ spoiled' = (spoiled \/ (Takes(r) /\ ~r.fresh))
  /\ work' = IF Takes(r) /\ work # NoWork THEN [work EXCEPT !.fresh = FALSE] ELSE work
  /\ routable' = (routable \/ r.by # "tool")
  /\ UNCHANGED <<nativeBoard, started, routeRuns, boardEdits>>

Apart(copper) == \A x, y \in copper : x.cell = y.cell => x.net = y.net

(* The canvas stays live.  New and Open are disabled during a run that was *)
(* started from the menu; Reload and the chat's new project never are.     *)
EditBoard(copper) ==
  /\ WindowLive /\ boardEdits < MaxBoardEdits /\ boardEdits' = boardEdits + 1
  /\ copper # drawing /\ Apart(copper) /\ drawing' = copper
  /\ work' = IF work = NoWork THEN work ELSE [work EXCEPT !.fresh = FALSE]
  /\ finished' = {[r EXCEPT !.fresh = FALSE] : r \in finished}
  /\ UNCHANGED <<nativeBoard, routable, started, spoiled, routeRuns>>

-----------------------------------------------------------------------------
(* autoRoute, which holds the mutex of the board.                          *)
Window == UNCHANGED <<drawing, routable, started, spoiled, routeRuns, boardEdits>>

BeginRun(r) ==
  /\ work = NoWork /\ r \in started /\ started' = started \ {r}
  /\ \/ /\ nativeBoard' = drawing /\ UNCHANGED finished
        /\ work' = [by |-> r.by, id |-> r.id, fresh |-> TRUE, pass |-> 0, progress |-> FALSE,
                    todo |-> [c \in Connection |-> c], still |-> <<>>, committed |-> <<>>,
                    ripped |-> <<>>, way |-> [c \in Connection |-> NoWay]]
     \/ /\ finished' = finished \cup {[by |-> r.by, id |-> r.id, fresh |-> TRUE, ok |-> FALSE,
                                       copper |-> {}]}
        /\ nativeBoard' \in {{}, drawing} /\ UNCHANGED work
  /\ UNCHANGED <<drawing, routable, spoiled, routeRuns, boardEdits>>

(* routeOne and commit, on a board whose copper is given.                  *)
Commits(run, c, way) == [run EXCEPT !.way[c] = way, !.committed = Append(@, c)]
GivenUp(run, c) == [run EXCEPT !.way[c] = NoWay, !.still = Append(@, c)]

CommitOn(run, c, way, copper) ==
  /\ work' = Commits(run, c, way) /\ nativeBoard' = copper \cup Laid(c, way)

RouteOne(run, c, copper) ==
  \/ \E w \in FreeWays(c, copper) : CommitOn(run, c, w, copper)
  \/ work' = GivenUp(run, c) /\ nativeBoard' = copper

Greedy ==
  /\ work # NoWork /\ work.pass = 0 /\ work.todo # <<>>
  /\ RouteOne([work EXCEPT !.todo = Tail(@)], Head(work.todo), nativeBoard)
  /\ Window /\ UNCHANGED finished

(* A straight line along an axis has an empty box, which meets no other.   *)
InTheWay(c, failed) ==
  /\ NetOf[c] # NetOf[failed] /\ ~work.way[c].thin
  /\ work.way[c].cells \cap Box[failed] # {}

(* SelectSeq by membership, in a form that can be proved about.            *)
Among(s, S) ==
  LET F[i \in 0 .. Len(s)] ==
        IF i = 0 THEN <<>> ELSE IF s[i] \in S THEN Append(F[i - 1], s[i]) ELSE F[i - 1]
  IN  F[Len(s)]

Blockers(failed) ==
  LET all == Among(work.committed, {c \in Connection : InTheWay(c, failed)}) IN
  SubSeq(all, 1, IF Len(all) > MaxBlockers THEN MaxBlockers ELSE Len(all))

NotPutBack(kept) == kept  \* mutant: the blockers are not put back
PutBack(kept) == work.committed

RipUp ==
  /\ work # NoWork /\ work.pass > 0 /\ work.ripped = <<>> /\ work.todo # <<>>
  /\ LET failed == Head(work.todo)
         blockers == Blockers(failed)
         kept == Among(work.committed, Connection \ ToSet(blockers))
         next == [work EXCEPT !.todo = Tail(@)]
         copper == drawing \cup LaidAll(work, kept)
     IN  IF blockers = <<>>
         THEN work' = [next EXCEPT !.still = Append(@, failed)] /\ UNCHANGED nativeBoard
         ELSE \/ \E w \in FreeWays(failed, copper) :
                   CommitOn([next EXCEPT !.committed = kept, !.ripped = blockers,
                                         !.progress = TRUE], failed, w, copper)
              \/ /\ work' = GivenUp(next, failed)
                 /\ nativeBoard' = drawing \cup LaidAll(work, PutBack(kept))
  /\ Window /\ UNCHANGED finished

Reroute ==
  /\ work # NoWork /\ work.ripped # <<>>
  /\ RouteOne([work EXCEPT !.ripped = Tail(@)], Head(work.ripped), nativeBoard)
  /\ Window /\ UNCHANGED finished

MorePasses ==
  work.still # <<>> /\ work.pass < MaxPasses /\ (work.pass > 0 => work.progress)

EndPass ==
  /\ work # NoWork /\ work.todo = <<>> /\ work.ripped = <<>>
  /\ IF MorePasses
     THEN /\ work' = [work EXCEPT !.todo = work.still, !.still = <<>>, !.pass = @ + 1,
                                  !.progress = FALSE]
          /\ UNCHANGED finished
     ELSE /\ finished' = finished \cup
               {[by |-> work.by, id |-> work.id, fresh |-> work.fresh, ok |-> work.still = <<>>,
                 copper |-> LaidAll(work, work.committed)]}
          /\ work' = NoWork
  /\ Window /\ UNCHANGED nativeBoard

RouterStep == (\E r \in started : BeginRun(r)) \/ Greedy \/ RipUp \/ Reroute \/ EndPass

AutoNext ==
  \/ \E by \in {"menu", "chat", "tool"} : StartRoute(by)
  \/ \E r \in finished : TakeResult(r)
  \/ \E stroke \in Stroke : EditBoard(drawing \cup {stroke})
  \/ EditBoard({})
  \/ RouterStep

AutoSpec == AutoInit /\ [][AutoNext]_autoVars
-----------------------------------------------------------------------------
RouteRun == [by : {"menu", "chat", "tool"}, id : 1..MaxRouteRuns]
Wire == [net : {NetOf[c] : c \in Connection}, cell : Cell]

AutoTypeOK ==
  /\ drawing \cup nativeBoard \subseteq Wire /\ routable \in BOOLEAN /\ spoiled \in BOOLEAN
  /\ started \subseteq RouteRun
  /\ finished \subseteq [by : {"menu", "chat", "tool"}, id : 1..MaxRouteRuns,
                         fresh : BOOLEAN, ok : BOOLEAN, copper : SUBSET Wire]
  /\ work # NoWork =>
       /\ [by |-> work.by, id |-> work.id] \in RouteRun /\ work.pass \in 0..MaxPasses
       /\ \A c \in Connection : work.way[c] \in Ways[c] \cup {NoWay}

(* Over the passes of ripping up, no connection is lost or counted twice:  *)
(* each is still to be tried, given up, ripped up, or committed with a way.*)
Accounted ==
  work # NoWork =>
    LET all == work.todo \o work.still \o work.ripped \o work.committed IN
    /\ ToSet(all) = Connection /\ Len(all) = Cardinality(Connection)
    /\ \A c \in ToSet(work.committed) : work.way[c] # NoWay

(* What the router believes to be committed is what the native board has,  *)
(* after ways that were found, refused, ripped up and restored, and ways   *)
(* of different nets stay apart.                                           *)
BoardTrue ==
  work # NoWork /\ work.fresh =>
    /\ nativeBoard = drawing \cup LaidAll(work, work.committed)
    /\ ~spoiled => Apart(nativeBoard)

(* A document that was legal stays so, as long as nobody changes it while  *)
(* a route is under way; a route of the design tool is never in the way of *)
(* a change, since it keeps the window's thread.                           *)
DocumentLegal ==
  /\ ~spoiled => Apart(drawing)
  /\ \A r \in finished : r.by = "tool" => r.fresh

RoutingSound == Accounted /\ BoardTrue /\ DocumentLegal

(* "Disable routing UI to prevent concurrent calls and model               *)
(* modifications" (MainWindow.cpp): the copper that is added to the        *)
(* document was routed on that document.                                   *)
RoutedOnDocument == \A r \in finished : r.ok => r.fresh
=============================================================================
