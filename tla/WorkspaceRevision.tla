------------------------- MODULE WorkspaceRevision -------------------------
(***************************************************************************)
(* What the supervised FreeCAD tools promise of a product workspace: it is *)
(* always at one revision, which changes as a whole, from the approved     *)
(* files to the result of a tool that was offered in full and accepted, or *)
(* because somebody saves a file.                                          *)
(***************************************************************************)
EXTENDS Naturals

CONSTANTS File, Content, Absent,
  None,   \* nothing is offered
  Lost    \* a file that was saved while a tool had it

VARIABLES
  revision,  \* the approved contents of every file
  result,    \* what the last tool made of them
  offered,   \* a result that is published but not accepted, or None
  saves      \* how often somebody saved a file

Contents == [File -> Content \cup {Absent, Lost}]

Init == revision \in Contents /\ result \in Contents /\ offered = None /\ saves = 0

Work == offered = None /\ result' \in Contents /\ UNCHANGED <<revision, offered, saves>>
Offer == offered = None /\ offered' = result /\ UNCHANGED <<revision, result, saves>>
Withdraw == offered # None /\ offered' = None /\ UNCHANGED <<revision, result, saves>>
Accept ==
  /\ offered # None /\ revision' = offered /\ offered' = None
  /\ UNCHANGED <<result, saves>>

Save(f) ==
  /\ offered = None /\ saves' = saves + 1
  /\ \E c \in Content : revision' = [revision EXCEPT ![f] = c]
  /\ UNCHANGED <<result, offered>>

(* A save while a tool works or its result is undecided: the file is out   *)
(* of the tool's hands.                                                    *)
Intrude(f) ==
  /\ saves' = saves + 1
  /\ revision' = [revision EXCEPT ![f] = Lost]
  /\ result' = [result EXCEPT ![f] = Lost]
  /\ offered' = IF offered = None THEN None ELSE [offered EXCEPT ![f] = Lost]

(* A tool that nobody supervises any more writes beside the one that is    *)
(* supervised: no file is in anybody's hands.                              *)
AllLost == [f \in File |-> Lost]
Overrun ==
  /\ revision' = AllLost /\ result' = AllLost /\ offered' = None
  /\ UNCHANGED saves

Next ==
  \/ Work \/ Offer \/ Withdraw \/ Accept \/ Overrun
  \/ \E f \in File : Save(f) \/ Intrude(f)

Spec == Init /\ [][Next]_<<revision, result, offered, saves>>
=============================================================================
