---------------------------- MODULE WorkflowMC ----------------------------
(* Instances of Workflow for TLC.                                          *)
EXTENDS Workflow

(* Three packages, the third depending on both others.                     *)
SmallDep == <<{}, {1}, {1, 2}>>
SmallCost == <<1, 1, 2>>

(* controller_work_packages: component, schematic, pcb, freecad,           *)
(* integration, verification, with their budget units.                     *)
SixDep == <<{}, {1}, {2}, {1, 3}, {2, 3, 4}, {5}>>
SixCost == <<10, 12, 18, 14, 8, 10>>
=============================================================================
