------------------------- MODULE IncrementalDesign -------------------------
(***************************************************************************)
(* swarm/memory/incremental_design.py: a schematic under edit.  An edit    *)
(* re-analyses the nets it may have changed and keeps the reports of the   *)
(* others.  The analysis of a net is abstracted to what it reads: the pins *)
(* on the net and the bindings of their components.                        *)
(***************************************************************************)
EXTENDS Naturals, FiniteSets, Functions

CONSTANTS
  Ref, Binding, Net,  \* reference designators, bound components, net names
  Pins                \* the pins of each bound component

ASSUME DesignConstants == IsFiniteSet(Ref) /\ IsFiniteSet(Net) /\ DOMAIN Pins = Binding

VARIABLES
  placed,     \* components: the binding of each placed reference
  connected,  \* connections: the net of each connected pin
  reports     \* _net_reports: what each report was made from

designVars == <<placed, connected, reports>>

Nowhere == [x \in {} |-> x]

DesignInit == placed = Nowhere /\ connected = Nowhere /\ reports = Nowhere

PinsOf(r, wires) == {k \in DOMAIN wires : k[1] = r}
NetsOf(r, wires) == {wires[k] : k \in PinsOf(r, wires)}

(* _analyze_net.                                                           *)
Analysis(net, parts, wires) ==
  {<<k, parts[k[1]]>> : k \in {w \in DOMAIN wires : wires[w] = net}}

LiveNets(wires) == {wires[k] : k \in DOMAIN wires}

(* _changed: the nets of the edited component join those the edit names,   *)
(* and only live nets keep a report.                                       *)
AffectedNets(r, named, wires) == named \cup NetsOf(r, wires)

Changed(r, named) ==
  LET fresh == AffectedNets(r, named, connected')
      kept == DOMAIN reports \cup fresh
  IN reports' = [n \in kept \cap LiveNets(connected') |->
       IF n \in fresh THEN Analysis(n, placed', connected') ELSE reports[n]]

AddComponent(r, b) ==
  /\ r \notin DOMAIN placed
  /\ placed' = [q \in DOMAIN placed \cup {r} |-> IF q = r THEN b ELSE placed[q]]
  /\ UNCHANGED connected
  /\ Changed(r, {})

RemoveComponent(r) ==
  /\ r \in DOMAIN placed
  /\ placed' = Restrict(placed, DOMAIN placed \ {r})
  /\ connected' = Restrict(connected, DOMAIN connected \ PinsOf(r, connected))
  /\ Changed(r, NetsOf(r, connected))

(* The pins that the new component lacks lose their nets, which are named  *)
(* as affected before the wires are gone.                                  *)
NoPins(r, b) == {}  \* mutant: the connections are kept
StalePins(r, b) == {k \in PinsOf(r, connected) : k[2] \notin Pins[b]}
NetsLost(stale, wires) == {wires[k] : k \in stale}

ReplaceComponent(r, b) ==
  LET stale == StalePins(r, b) IN
  /\ r \in DOMAIN placed
  /\ placed' = [placed EXCEPT ![r] = b]
  /\ connected' = Restrict(connected, DOMAIN connected \ stale)
  /\ Changed(r, NetsLost(stale, connected))

(* A pin that is connected already leaves its old net.                     *)
Leaves(k) == IF k \in DOMAIN connected THEN {connected[k]} ELSE {}

Connect(r, p, net) ==
  /\ r \in DOMAIN placed /\ p \in Pins[placed[r]]
  /\ connected' = [k \in DOMAIN connected \cup {<<r, p>>} |->
       IF k = <<r, p>> THEN net ELSE connected[k]]
  /\ UNCHANGED placed
  /\ Changed(r, {net} \cup Leaves(<<r, p>>))

Disconnect(r, p) ==
  /\ r \in DOMAIN placed /\ p \in Pins[placed[r]]
  /\ connected' = Restrict(connected, DOMAIN connected \ {<<r, p>>})
  /\ UNCHANGED placed
  /\ Changed(r, Leaves(<<r, p>>))

Edit(r) ==
  \/ \E b \in Binding : AddComponent(r, b) \/ ReplaceComponent(r, b)
  \/ RemoveComponent(r)
  \/ \E p \in UNION {Pins[b] : b \in Binding} :
       Disconnect(r, p) \/ \E n \in Net : Connect(r, p, n)

DesignNext == \E r \in Ref : Edit(r)
DesignSpec == DesignInit /\ [][DesignNext]_designVars

-----------------------------------------------------------------------------
(* Every connection is of a pin that the component placed there has: the   *)
(* analysis looks the pin up and would raise on one that is gone.          *)
DesignTypeOK ==
  /\ DOMAIN placed \subseteq Ref /\ \A r \in DOMAIN placed : placed[r] \in Binding
  /\ \A k \in DOMAIN connected :
       k[1] \in DOMAIN placed /\ k[2] \in Pins[placed[k[1]]] /\ connected[k] \in Net

(* The reports that the edits have left are those that an analysis of the  *)
(* whole schematic would make, whatever was connected, moved, replaced and *)
(* removed in whatever order: none is missing, stale, or of a net that is  *)
(* gone.                                                                   *)
ReportsCurrent ==
  reports = [n \in {connected[k] : k \in DOMAIN connected} |-> Analysis(n, placed, connected)]
=============================================================================
