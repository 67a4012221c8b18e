----------------------------- MODULE CampaignMC -----------------------------
(* Three jobs on two GPUs: the enclosure needs the other two.              *)
EXTENDS Campaign

CONSTANTS fit, enclosure, expert, gpu0, gpu1, v1, v2

MCOrder == <<fit, enclosure, expert>>
MCNeeds == (fit :> {}) @@ (enclosure :> {fit, expert}) @@ (expert :> {})
MCCompatible == (fit :> {gpu0}) @@ (enclosure :> {gpu0, gpu1}) @@ (expert :> {gpu1})
MCPreferred == (fit :> gpu0) @@ (enclosure :> gpu1) @@ (expert :> gpu1)
MCAllowed == (fit :> 2) @@ (enclosure :> 1) @@ (expert :> 1)

(* For any statuses the pass fails the set of FailsInPass, which no other  *)
(* set is.                                                                 *)
Records == {[j \in Job |-> [Fresh EXCEPT !.status = s[j]]] : s \in [Job -> Status]}

ASSUME PassFailsOneSet ==
  \A r \in Records, J \in SUBSET Job : FailsInPass(r, J) <=> Blamed(r, J) = Pass(r)
=============================================================================
