----------------------------- MODULE Workbench -----------------------------
(* The design tools that write files and reports, side by side and on      *)
(* small instances.  They share no state, so a behaviour is one of a       *)
(* single tool, chosen at the start.                                       *)
EXTENDS EngineeringGraph, IncrementalDesign, ComponentPublication, Installer, LocalRedesign,
        NativeTool, BoardEditor

CONSTANTS
  ldo, buck,                 \* components of the incremental design
  first, again, other, partial, slim, wide, \* extracted versions and their CAD programs
  vessel, shell, v1, v2,    \* files of the native tool, and their contents
  dp, dn                    \* nets of the edited board

VARIABLE tool

workbenchVars ==
  <<tool, graphVars, designVars, publicationVars, installerVars, redesignVars, nativeVars,
    editorVars>>

MCPins == [b \in Binding |-> IF b = ldo THEN {1} ELSE {1, 2}]
MCProgramOf == [v \in Preview |-> IF v = other THEN wide ELSE slim]

\* A contract (vessel) that does not exist yet, and the part (shell), which is authoritative
\* and so published last.
MCOrder == <<vessel, shell>>
MCInitial == [f \in {vessel, shell} |-> IF f = vessel THEN Absent ELSE v1]
MCOutputs == {[f \in {vessel, shell} |-> v2]}

\* A routed pair of parts; and the same with the route and one pad still missing.
MCBoard ==
  [BlankBoard EXCEPT !.copper = {1}, !.made = <<[net |-> dp, pour |-> FALSE]>>,
                     !.parts = Footprint, !.born = Footprints,
                     !.pads = [f \in Footprint |-> {dp, dn}], !.nets = {dp, dn}]
MCKept == [MCBoard EXCEPT !.copper = {}, !.pads[2] = {dp}]

Init ==
  /\ tool \in {"graph", "design", "publication", "installer", "redesign", "native", "editor"}
  /\ GraphInit /\ DesignInit /\ PublicationInit /\ InstallerInit /\ RedesignInit /\ NativeInit
  /\ EditorInit
  /\ tool # "installer" => dest = Nothing
  /\ tool # "editor" => project = NoProject

Is(name) == tool = name

(* A step of the chosen tool; nothing of the others changes.               *)
Keep(rest) == UNCHANGED <<tool, rest>>

Next ==
  \/ Is("graph") /\ GraphNext
     /\ Keep(<<designVars, publicationVars, installerVars, redesignVars, nativeVars, editorVars>>)
  \/ Is("design") /\ DesignNext
     /\ Keep(<<graphVars, publicationVars, installerVars, redesignVars, nativeVars, editorVars>>)
  \/ Is("publication") /\ PublicationNext
     /\ Keep(<<graphVars, designVars, installerVars, redesignVars, nativeVars, editorVars>>)
  \/ Is("installer") /\ InstallerNext
     /\ Keep(<<graphVars, designVars, publicationVars, redesignVars, nativeVars, editorVars>>)
  \/ Is("redesign") /\ RedesignNext
     /\ Keep(<<graphVars, designVars, publicationVars, installerVars, nativeVars, editorVars>>)
  \/ Is("native") /\ NativeNext
     /\ Keep(<<graphVars, designVars, publicationVars, installerVars, redesignVars, editorVars>>)
  \/ Is("editor") /\ EditorNext
     /\ Keep(<<graphVars, designVars, publicationVars, installerVars, redesignVars, nativeVars>>)

(* That of NativeFairSpec, when it was chosen.                             *)
Fairness ==
  /\ WF_nativeVars(Is("native") /\ ControlStep)
  /\ WF_nativeVars(Is("native") /\ HostStep)

Spec == Init /\ [][Next]_workbenchVars /\ Fairness

-----------------------------------------------------------------------------
(* Every tool keeps its types.                                             *)
TypeOK ==
  /\ NativeTypeOK /\ GraphTypeOK /\ DesignTypeOK /\ PublicationTypeOK /\ InstallerTypeOK
  /\ RedesignTypeOK /\ EditorTypeOK

(* After any edits of a schematic its reports are those of a full analysis *)
(* (ReportsCurrent), and after any edits of a board they can be undone,    *)
(* checked and found again (EditsSound).                                   *)
DocumentsSound == ReportsCurrent /\ EditsSound
=============================================================================
