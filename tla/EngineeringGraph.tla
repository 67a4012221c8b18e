-------------------------- MODULE EngineeringGraph --------------------------
(***************************************************************************)
(* swarm/memory/engineering_graph.py runs the workflow that                *)
(* authoritative_product.py states for every product: the domains are      *)
(* synthesised, checked, reviewed against each other, qualified by solvers *)
(* and tests and published; a finding leads to a repair of the domains it  *)
(* names and back to the checks.  complete_node moves the run on when one  *)
(* edge can be taken, and refuses the node's result otherwise.             *)
(***************************************************************************)
EXTENDS Naturals, FiniteSets

CONSTANTS
  Domain,
  Elsewhere,  \* what a finding names that is no domain of the bundle
  Pass,       \* a qualification that is passed
  Digest,     \* the contents an artifact may have
  MaxRounds   \* bound on repairs

ASSUME GraphConstants ==
  /\ IsFiniteSet(Domain) /\ Elsewhere \notin Domain
  /\ Pass \notin Domain \cup {Elsewhere} /\ MaxRounds \in Nat

VARIABLES
  node,       \* the active node
  changed,    \* changed_domains
  artifacts,  \* domain_artifact_digests
  failures, interface,  \* deterministic_failures, interface_findings
  qualification,        \* qualification_findings
  iteration,
  qualified   \* history: the artifacts that qualification_findings was written for

graphVars ==
  <<node, changed, artifacts, failures, interface, qualification, iteration, qualified>>

NoArtifacts == [d \in {} |-> d]
Finding == Domain \cup {Elsewhere}

GraphInit ==
  /\ node = "requirements" /\ changed = {} /\ artifacts = NoArtifacts
  /\ failures = {} /\ interface = {} /\ qualification = {}
  /\ iteration = 0 /\ qualified = NoArtifacts

Normalise ==
  /\ node = "requirements" /\ node' = "synthesis"
  /\ changed' \in (SUBSET Domain) \ {{}}
  /\ UNCHANGED <<artifacts, failures, interface, qualification, iteration, qualified>>

Synthesise ==
  /\ node = "synthesis" /\ node' = "validation"
  /\ \E ds \in SUBSET Domain : changed \subseteq ds /\ artifacts' \in [ds -> Digest]
  /\ UNCHANGED <<changed, failures, interface, qualification, iteration, qualified>>

ClearOfDomains(findings) == findings \cap Domain = {}  \* mutant: those that name none are passed over
Clear(findings) == findings = {}

(* A result may leave out what its node can write; the condition of the    *)
(* edge is then about what is there.                                       *)
Validate ==
  /\ node = "validation" /\ failures' \in SUBSET Finding
  /\ node' = IF Clear(failures') THEN "review" ELSE "scoping"
  /\ UNCHANGED <<changed, artifacts, interface, qualification, iteration, qualified>>

Review ==
  /\ node = "review" /\ interface' \in SUBSET Finding
  /\ node' = IF Clear(interface') THEN "qualification" ELSE "scoping"
  /\ UNCHANGED <<changed, artifacts, failures, qualification, iteration, qualified>>

PassesAny(q) == Pass \in q  \* mutant: one test that passes is enough
Satisfied(q) == q = {Pass}
Failing(q) == q \ {Pass} # {}

Qualify ==
  /\ node = "qualification"
  /\ \/ qualification' \in SUBSET (Finding \cup {Pass}) /\ qualified' = artifacts
     \/ UNCHANGED <<qualification, qualified>>
  /\ \/ Satisfied(qualification') /\ node' = "publication"
     \/ Failing(qualification') /\ ~Satisfied(qualification') /\ node' = "scoping"
  /\ UNCHANGED <<changed, artifacts, failures, interface, iteration>>

(* required_repair_domains: every domain that a standing finding names.  A *)
(* finding that names no artifact leaves the run where it is.              *)
Required(q) == failures \cup interface \cup (q \ {Pass})

ScopeRepair ==
  /\ node = "scoping" /\ node' = "repair"
  /\ Required(qualification) # {} /\ Required(qualification) \subseteq DOMAIN artifacts
  /\ iteration < MaxRounds /\ iteration' = iteration + 1
  /\ changed' = Required(qualification)
  /\ UNCHANGED <<artifacts, failures, interface, qualification, qualified>>

RepairsAny(new) == DOMAIN new = DOMAIN artifacts  \* mutant
RepairsChanged(new) ==
  /\ DOMAIN new = DOMAIN artifacts
  /\ \A d \in DOMAIN artifacts : new[d] # artifacts[d] <=> d \in changed

Repair ==
  /\ node = "repair" /\ node' = "validation"
  /\ artifacts' \in [DOMAIN artifacts -> Digest] /\ RepairsChanged(artifacts')
  /\ UNCHANGED <<changed, failures, interface, qualification, iteration, qualified>>

(* Publication has its own guard over all findings.                        *)
PublishBundle ==
  /\ node = "publication" /\ node' = "finish"
  /\ failures = {} /\ interface = {} /\ Satisfied(qualification)
  /\ UNCHANGED <<changed, artifacts, failures, interface, qualification, iteration, qualified>>

CompleteRun ==
  /\ node = "finish" /\ node' = "complete"
  /\ UNCHANGED <<changed, artifacts, failures, interface, qualification, iteration, qualified>>

GraphNext ==
  \/ Normalise \/ Synthesise \/ Validate \/ Review \/ Qualify
  \/ ScopeRepair \/ Repair \/ PublishBundle \/ CompleteRun

GraphSpec == GraphInit /\ [][GraphNext]_graphVars

-----------------------------------------------------------------------------
(* Every field has its type, and a node behind an edge finds what the      *)
(* edge's condition promised.                                              *)
GraphTypeOK ==
  /\ node \in {"requirements", "synthesis", "validation", "review", "qualification", "scoping",
               "repair", "publication", "finish", "complete"}
  /\ changed \subseteq Domain /\ DOMAIN artifacts \subseteq Domain
  /\ \A d \in DOMAIN artifacts : artifacts[d] \in Digest
  /\ failures \subseteq Finding /\ interface \subseteq Finding
  /\ qualification \subseteq Finding \cup {Pass} /\ iteration \in 0..MaxRounds
  /\ node \notin {"requirements", "synthesis"} => changed \subseteq DOMAIN artifacts
  /\ node \in {"qualification", "publication", "finish", "complete"} =>
       failures = {} /\ interface = {}

(* "suppress_failed_checks" is what no actor may do: what is published is  *)
(* what the solvers and tests have passed, in every domain, after however  *)
(* many repairs, and not what they passed before the last one.             *)
PublishedQualified ==
  node \in {"publication", "finish", "complete"} =>
    /\ qualified = artifacts
    /\ qualification = {Pass} /\ failures = {} /\ interface = {}

(* "only_failed_or_interface-affected_domain_subgraphs": a step that       *)
(* replaces artifacts after the synthesis replaces those of the domains    *)
(* that a check, a review or a qualification has found wrong, all of them  *)
(* and no other.                                                           *)
RepairsScoped ==
  [][node # "synthesis" /\ artifacts' # artifacts =>
       /\ DOMAIN artifacts' = DOMAIN artifacts
       /\ {d \in DOMAIN artifacts : artifacts'[d] # artifacts[d]}
            = failures \cup interface \cup (qualification \ {Pass})]_graphVars

(* Both: repairs touch what was found wrong, and only what passed is out.  *)
GraphSound == []PublishedQualified /\ RepairsScoped
=============================================================================
