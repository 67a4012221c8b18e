------------------------- MODULE IntegrationProofs -------------------------
(***************************************************************************)
(* The safety of parallel development for any people, roles, contracts and *)
(* proposals, and any number of records and faults.                        *)
(*                                                                         *)
(* The argument.  What each handler makes of a good state is a good state, *)
(* in which no head has moved back and no snapshot has changed (Later);    *)
(* that is proved handler by handler, of states alone.  A step then leaves *)
(* in memory and in state.json a state that was there or one a handler     *)
(* made of the state in memory, and the memory is never older than the     *)
(* file.                                                                   *)
(***************************************************************************)
EXTENDS Integration, TLAPS

(* Every sandbox awaits some approval.                                     *)
Asked(s) == \A i \in Boxes(s) : DOMAIN s.boxes[i].approvals # {}

Good(s) == StateOK(s) /\ HeadsOf(s) /\ Asked(s) /\ IndependentIn(s) /\ JustifiedIn(s)

(* t may have come from s: heads have advanced, snapshots are the same.    *)
Later(s, t) ==
  /\ \A b \in Branches(s) : b \in Branches(t) /\ s.branches[b].head <= t.branches[b].head
  /\ \A i \in Boxes(s) : i \in Boxes(t) /\ t.boxes[i].heads = s.boxes[i].heads

USE Drafts, IntegrationBounds, NobodyIsNoPerson

-----------------------------------------------------------------------------
(* Sequences over a set.                                                   *)
LEMMA SeqFacts ==
  ASSUME NEW S, NEW q \in Seq(S), NEW e \in S
  PROVE  /\ Len(q) \in Nat /\ DOMAIN q = 1..Len(q) /\ \A i \in 1..Len(q) : q[i] \in S
         /\ Append(q, e) \in Seq(S) /\ Len(Append(q, e)) = Len(q) + 1
         /\ DOMAIN Append(q, e) = 1..(Len(q) + 1) /\ Append(q, e)[Len(q) + 1] = e
         /\ \A i \in 1..Len(q) : Append(q, e)[i] = q[i]
OBVIOUS

LEMMA SeqExcept ==
  ASSUME NEW S, NEW q \in Seq(S), NEW e \in S, NEW i \in 1..Len(q)
  PROVE  /\ [q EXCEPT ![i] = e] \in Seq(S) /\ Len([q EXCEPT ![i] = e]) = Len(q)
         /\ DOMAIN [q EXCEPT ![i] = e] = 1..Len(q) /\ [q EXCEPT ![i] = e][i] = e
         /\ \A j \in 1..Len(q) : j # i => [q EXCEPT ![i] = e][j] = q[j]
OBVIOUS

LEMMA SeqTyped ==
  ASSUME NEW S, NEW q \in Seq(S)
  PROVE  Len(q) \in Nat /\ DOMAIN q = 1..Len(q) /\ \A i \in 1..Len(q) : q[i] \in S
OBVIOUS

(* What a well-formed state is made of.                                    *)
LEMMA Parts ==
  ASSUME NEW s, StateOK(s)
  PROVE  /\ s.confs \in Seq(Confs) /\ s.branches \in Seq(BranchRecords)
         /\ s.boxes \in Seq(BoxRecords)
         /\ Len(s.confs) \in 1..MaxConfs /\ DOMAIN s.confs = 1..Len(s.confs)
         /\ Len(s.branches) \in Nat /\ Branches(s) = 1..Len(s.branches)
         /\ Len(s.boxes) \in Nat /\ Boxes(s) = 1..Len(s.boxes)
         /\ \A c \in 1..Len(s.confs) : s.confs[c] \in Confs /\ s.confs[c].parent \in Nat
                                       /\ s.confs[c].parent < c
         /\ \A b \in Branches(s) : s.branches[b] \in BranchRecords
         /\ \A i \in Boxes(s) : s.boxes[i] \in BoxRecords
<1>1. /\ s.confs \in Seq(Confs) /\ s.branches \in Seq(BranchRecords)
      /\ s.boxes \in Seq(BoxRecords) /\ Len(s.confs) \in 1..MaxConfs
  BY DEF StateOK
<1>2. \A c \in 1..Len(s.confs) : s.confs[c] \in Confs /\ s.confs[c].parent < c
  BY <1>1, SeqTyped DEF StateOK
<1>3. \A c \in 1..Len(s.confs) : s.confs[c].parent \in Nat
  BY <1>2 DEF Confs
<1>4. /\ Len(s.branches) \in Nat /\ Branches(s) = 1..Len(s.branches)
      /\ \A b \in Branches(s) : s.branches[b] \in BranchRecords
  BY <1>1, SeqTyped DEF Branches
<1>5. /\ Len(s.boxes) \in Nat /\ Boxes(s) = 1..Len(s.boxes)
      /\ \A i \in Boxes(s) : s.boxes[i] \in BoxRecords
  BY <1>1, SeqTyped DEF Boxes
<1>6. DOMAIN s.confs = 1..Len(s.confs)
  BY <1>1, SeqTyped
<1> QED
  BY <1>1, <1>2, <1>3, <1>4, <1>5, <1>6

-----------------------------------------------------------------------------
(* Heads are numbers.                                                      *)
LEMMA HeadsTyped == ASSUME NEW s, Good(s) PROVE \A b \in Branches(s) : s.branches[b].head \in Nat
BY Parts DEF Good, BranchRecords

(* Descent.                                                                *)
LEMMA DescentOfConfs ==
  ASSUME NEW s, NEW t, t.confs = s.confs, NEW c, NEW a, DescendsFrom(s, c, a)
  PROVE  DescendsFrom(t, c, a)
BY DEF DescendsFrom

LEMMA DescentReflexive ==
  ASSUME NEW s, NEW c PROVE DescendsFrom(s, c, c)
BY DEF DescendsFrom

(* An ancestor is never newer.                                             *)
LEMMA DescentOrdered ==
  ASSUME NEW s, StateOK(s), NEW c \in 1..Len(s.confs), NEW a, DescendsFrom(s, c, a)
  PROVE  a \in 1..c
<1>1. /\ Len(s.confs) \in Nat
      /\ \A d \in 1..Len(s.confs) : s.confs[d].parent \in Nat /\ s.confs[d].parent < d
  BY Parts
<1>2. 1..c \in SUBSET (1..Len(s.confs)) /\ c \in 1..c
  BY <1>1
<1>3. \A d \in 1..c : s.confs[d].parent # 0 => s.confs[d].parent \in 1..c
  BY <1>1, <1>2
<1> QED
  BY <1>2, <1>3 DEF DescendsFrom

(* A new configuration leaves the older ones their ancestors, and has      *)
(* those of its parent.                                                    *)
LEMMA NewConf ==
  ASSUME NEW s, StateOK(s), Len(s.confs) < MaxConfs, NEW parent \in 1..Len(s.confs),
         NEW state \in {"sandbox", "committed"}
  PROVE  /\ StateOK(WithConf(s, parent, state))
         /\ WithConf(s, parent, state).branches = s.branches
         /\ WithConf(s, parent, state).boxes = s.boxes
         /\ Len(WithConf(s, parent, state).confs) = Len(s.confs) + 1
         /\ WithConf(s, parent, state).confs[Len(s.confs) + 1].parent = parent
         /\ \A c \in 1..Len(s.confs) : WithConf(s, parent, state).confs[c] = s.confs[c]
<1> DEFINE t == WithConf(s, parent, state)
           e == [parent |-> parent, state |-> state]
<1>0. Len(s.confs) \in 1..MaxConfs /\ s.confs \in Seq(Confs)
  BY Parts
<1>1. e \in Confs
  BY <1>0 DEF Confs
<1>2. /\ t.confs = Append(s.confs, e) /\ t.branches = s.branches /\ t.boxes = s.boxes
      /\ t \in [confs : Seq(Confs), branches : Seq(BranchRecords), boxes : Seq(BoxRecords)]
  <2>1. s \in [confs : Seq(Confs), branches : Seq(BranchRecords), boxes : Seq(BoxRecords)]
    BY DEF StateOK
  <2>2. t = [s EXCEPT !.confs = Append(s.confs, e)]
    BY DEF WithConf
  <2>3. Append(s.confs, e) \in Seq(Confs)
    BY <1>0, <1>1, SeqFacts
  <2> HIDE DEF t, e
  <2> QED
    BY <2>1, <2>2, <2>3
<1>3. /\ Len(t.confs) = Len(s.confs) + 1 /\ t.confs[Len(s.confs) + 1] = e
      /\ \A c \in 1..Len(s.confs) : t.confs[c] = s.confs[c]
  BY <1>0, <1>1, <1>2, SeqFacts
<1>4. ASSUME NEW c \in 1..Len(t.confs) PROVE t.confs[c].parent < c
  <2>1. CASE c \in 1..Len(s.confs)
    <3>1. s.confs[c].parent < c
      BY <2>1, Parts
    <3> QED
      BY <1>3, <2>1, <3>1
  <2>2. CASE c = Len(s.confs) + 1
    <3>1. t.confs[c].parent = parent
      BY <1>3, <2>2
    <3> HIDE DEF t
    <3> QED
      BY <1>0, <2>2, <3>1
  <2>3. c \in 1..Len(s.confs) \/ c = Len(s.confs) + 1
    <3> HIDE DEF t
    <3> QED
      BY <1>0, <1>3
  <2> QED
    BY <2>1, <2>2, <2>3
<1>5. Len(t.confs) \in 1..MaxConfs /\ 1..Len(s.confs) \subseteq 1..Len(t.confs)
  BY <1>0, <1>3
<1>6. StateOK(t)
  BY <1>2, <1>4, <1>5 DEF StateOK, Branches, Boxes
<1> QED
  BY <1>2, <1>3, <1>6

LEMMA NewConfDescent ==
  ASSUME NEW s, StateOK(s), Len(s.confs) < MaxConfs, NEW parent \in 1..Len(s.confs),
         NEW state \in {"sandbox", "committed"},
         NEW c \in 1..Len(s.confs), NEW a, DescendsFrom(s, c, a)
  PROVE  /\ DescendsFrom(WithConf(s, parent, state), c, a)
         /\ c = parent => DescendsFrom(WithConf(s, parent, state), Len(s.confs) + 1, a)
<1> DEFINE t == WithConf(s, parent, state)
<1>1. /\ Len(t.confs) = Len(s.confs) + 1 /\ t.confs[Len(s.confs) + 1].parent = parent
      /\ \A d \in 1..Len(s.confs) : t.confs[d] = s.confs[d]
  BY NewConf
<1>2. /\ Len(s.confs) \in Nat
      /\ \A d \in 1..Len(s.confs) : s.confs[d].parent \in Nat /\ s.confs[d].parent < d
  BY Parts
<1>3. ASSUME NEW S \in SUBSET (1..Len(t.confs)), c \in S,
             \A d \in S : t.confs[d].parent # 0 => t.confs[d].parent \in S
      PROVE  a \in S
  <2> DEFINE R == S \cap (1..Len(s.confs))
  <2>1. R \in SUBSET (1..Len(s.confs)) /\ c \in R
    BY <1>3
  <2>2. ASSUME NEW d \in R, s.confs[d].parent # 0 PROVE s.confs[d].parent \in R
    <3>1. t.confs[d].parent = s.confs[d].parent /\ d \in S
      BY <1>1
    <3>2. s.confs[d].parent \in S
      BY <1>3, <2>2, <3>1
    <3>3. s.confs[d].parent \in Nat /\ s.confs[d].parent < d /\ d \in 1..Len(s.confs)
      BY <1>2
    <3>4. s.confs[d].parent \in 1..Len(s.confs)
      BY <1>2, <2>2, <3>3
    <3> QED
      BY <3>2, <3>4
  <2> QED
    BY <2>1, <2>2 DEF DescendsFrom
<1>4. DescendsFrom(t, c, a)
  BY <1>3 DEF DescendsFrom
<1>5. ASSUME c = parent PROVE DescendsFrom(t, Len(s.confs) + 1, a)
  <2> SUFFICES ASSUME NEW S \in SUBSET (1..Len(t.confs)), Len(s.confs) + 1 \in S,
                      \A d \in S : t.confs[d].parent # 0 => t.confs[d].parent \in S
               PROVE  a \in S
    BY DEF DescendsFrom
  <2>1. c \in S
    BY <1>1, <1>2, <1>5
  <2> QED
    BY <1>3, <2>1
<1> QED
  BY <1>4, <1>5

-----------------------------------------------------------------------------
(* Verdicts and approvers only depend on the sandboxes and on what the     *)
(* branches declare.                                                       *)
LEMMA SameDeclarations ==
  ASSUME NEW s, Good(s), NEW t, t.boxes = s.boxes,
         \A b \in Branches(s) : b \in Branches(t) /\ t.branches[b].draft = s.branches[b].draft
  PROVE  Asked(t) /\ IndependentIn(t) /\ JustifiedIn(t)
<1>1. Boxes(t) = Boxes(s) /\ \A i \in Boxes(s) : t.boxes[i] = s.boxes[i]
  BY DEF Boxes
<1>2. \A i \in Boxes(s) : DOMAIN s.boxes[i].heads \subseteq Branches(s)
  BY DEF Good, StateOK
<1>3. Asked(t)
  BY <1>1 DEF Good, Asked
<1>4. \A i \in Boxes(s) : Authors(t, i) = Authors(s, i)
  BY <1>1, <1>2 DEF Authors
<1>5. IndependentIn(t)
  BY <1>1, <1>4 DEF Good, IndependentIn
<1>6. ASSUME NEW i \in Boxes(s)
      PROVE Requested(t, DOMAIN s.boxes[i].heads) = Requested(s, DOMAIN s.boxes[i].heads)
  <2>1. {t.branches[b].draft.roles : b \in DOMAIN s.boxes[i].heads}
          = {s.branches[b].draft.roles : b \in DOMAIN s.boxes[i].heads}
    BY <1>2
  <2> QED
    BY <2>1 DEF Requested
<1>7. JustifiedIn(t)
  <2> SUFFICES ASSUME NEW i \in Boxes(s)
               PROVE  LET box == s.boxes[i]
                          granted == {r \in DOMAIN box.approvals : box.approvals[r] # Nobody}
                      IN  /\ DOMAIN box.approvals = Requested(t, DOMAIN box.heads)
                          /\ box.status \in {"draft", "blocked"} => granted = {}
                          /\ (box.status = "approved") <=> (granted = DOMAIN box.approvals)
                          /\ box.status \in {"ready_for_approval", "approved"} =>
                               \A a, b \in DOMAIN box.heads :
                                 \A p \in t.branches[a].draft.proposes,
                                    q \in t.branches[b].draft.proposes :
                                   p[1] = q[1] => p[2] = q[2]
    BY <1>1 DEF JustifiedIn
  <2>1. \A b \in DOMAIN s.boxes[i].heads : t.branches[b].draft = s.branches[b].draft
    BY <1>2
  <2> QED
    BY <1>6, <2>1 DEF Good, JustifiedIn
<1> QED
  BY <1>3, <1>5, <1>7

LEMMA SaveGood ==
  ASSUME NEW s, Good(s), Len(s.confs) < MaxConfs, NEW parent \in 1..Len(s.confs),
         NEW state \in {"sandbox", "committed"}
  PROVE  Good(WithConf(s, parent, state)) /\ Later(s, WithConf(s, parent, state))
<1> DEFINE t == WithConf(s, parent, state)
<1>0. StateOK(s)
  BY DEF Good
<1>1. StateOK(t) /\ t.branches = s.branches /\ t.boxes = s.boxes
  BY <1>0, NewConf
<1>2. \A c \in 1..Len(s.confs) : \A a : DescendsFrom(s, c, a) => DescendsFrom(t, c, a)
  BY <1>0, NewConfDescent
<1> HIDE DEF t
<1>3. Branches(t) = Branches(s) /\ Boxes(t) = Boxes(s)
  BY <1>1 DEF Branches, Boxes
<1>4. \A b \in Branches(s) : s.branches[b].head \in 1..Len(s.confs)
  BY <1>0 DEF StateOK
<1>5. \A i \in Boxes(s) : DOMAIN s.boxes[i].heads \subseteq Branches(s)
  BY <1>0 DEF StateOK
<1>6. HeadsOf(t)
  BY <1>1, <1>2, <1>3, <1>4, <1>5 DEF Good, HeadsOf
<1>7. Later(s, t)
  BY <1>1, <1>3, <1>4 DEF Later
<1>8. Good(t)
  BY <1>1, <1>3, <1>6, SameDeclarations DEF Good
<1> QED
  BY <1>7, <1>8 DEF t

(* branch/update: the head becomes the newest configuration, a child of    *)
(* the old head.                                                           *)
LEMMA HeadGood ==
  ASSUME NEW s, Good(s), Len(s.confs) < MaxConfs, NEW b \in Branches(s)
  PROVE  LET created == WithConf(s, s.branches[b].head, "sandbox")
             advanced == WithHead(created, b, Newest(created))
         IN  Good(created) /\ Good(advanced) /\ Later(s, created) /\ Later(created, advanced)
<1> DEFINE created == WithConf(s, s.branches[b].head, "sandbox")
           advanced == WithHead(created, b, Newest(created))
           new == Len(s.confs) + 1
           record == [s.branches[b] EXCEPT !.head = new]
<1>1. StateOK(s) /\ s.branches[b].head \in 1..Len(s.confs)
  BY DEF Good, StateOK
<1>2. /\ StateOK(created) /\ created.branches = s.branches /\ created.boxes = s.boxes
      /\ Len(created.confs) = new
  BY <1>1, NewConf
<1>3. Good(created) /\ Later(s, created)
  BY <1>1, SaveGood
<1>4. \A a : DescendsFrom(s, s.branches[b].head, a) => DescendsFrom(created, new, a)
  BY <1>1, NewConfDescent
<1>5. DescendsFrom(s, s.branches[b].head, s.branches[b].head)
  BY DescentReflexive
<1>6. Newest(created) = new
  BY <1>2 DEF Newest
<1> HIDE DEF created
<1>7. new \in 1..MaxConfs /\ new \in Nat
  BY <1>1, Parts
<1>8. record \in BranchRecords
  BY <1>1, <1>7, Parts DEF BranchRecords
<1>9. record.head = new /\ record.baseline = s.branches[b].baseline /\ record.draft = s.branches[b].draft
  BY <1>1, Parts DEF BranchRecords
<1>10. /\ advanced.confs = created.confs /\ advanced.boxes = created.boxes
       /\ advanced.branches = [s.branches EXCEPT ![b] = record]
       /\ advanced \in [confs : Seq(Confs), branches : Seq(BranchRecords), boxes : Seq(BoxRecords)]
  <2>1. created \in [confs : Seq(Confs), branches : Seq(BranchRecords), boxes : Seq(BoxRecords)]
    BY <1>2 DEF StateOK
  <2>2. b \in 1..Len(s.branches) /\ s.branches \in Seq(BranchRecords)
    BY <1>1, Parts
  <2>3. [s.branches EXCEPT ![b] = record] \in Seq(BranchRecords)
    BY <1>8, <2>2, SeqExcept
  <2>4. advanced = [created EXCEPT !.branches = [s.branches EXCEPT ![b] = record]]
    BY <1>2, <1>6, <2>1 DEF WithHead
  <2> HIDE DEF advanced, record
  <2> QED
    BY <2>1, <2>3, <2>4
<1>11. /\ Branches(advanced) = Branches(s) /\ Len(advanced.branches) = Len(s.branches)
       /\ advanced.branches[b] = record
       /\ \A a \in Branches(s) : a # b => advanced.branches[a] = s.branches[a]
  BY <1>1, <1>8, <1>10, Parts, SeqExcept DEF Branches
<1> HIDE DEF advanced, record
<1>12. Boxes(advanced) = Boxes(s) /\ Boxes(created) = Boxes(s) /\ Branches(created) = Branches(s)
  BY <1>2, <1>10 DEF Boxes, Branches
<1>13. \A a \in Branches(s) : /\ advanced.branches[a].baseline = s.branches[a].baseline
                              /\ advanced.branches[a].draft = s.branches[a].draft
                              /\ advanced.branches[a].head \in {s.branches[a].head, new}
  BY <1>9, <1>11
<1>14. StateOK(advanced)
  <2>1. Len(advanced.confs) \in 1..MaxConfs /\ \A c \in 1..Len(advanced.confs) : advanced.confs[c].parent < c
    BY <1>2, <1>10 DEF StateOK
  <2>2. Len(advanced.branches) <= MaxBranches
    BY <1>1, <1>11 DEF StateOK
  <2>3. \A a \in Branches(advanced) :
          {advanced.branches[a].baseline, advanced.branches[a].head} \subseteq 1..Len(advanced.confs)
    <3>1. \A a \in Branches(s) : {s.branches[a].baseline, s.branches[a].head} \subseteq 1..Len(created.confs)
      BY <1>2, <1>12 DEF StateOK
    <3>2. new \in 1..Len(advanced.confs)
      BY <1>2, <1>7, <1>10
    <3>3. ASSUME NEW a \in Branches(s)
          PROVE  {advanced.branches[a].baseline, advanced.branches[a].head} \subseteq 1..Len(advanced.confs)
      <4>1. s.branches[a].baseline \in 1..Len(advanced.confs)
            /\ s.branches[a].head \in 1..Len(advanced.confs)
        BY <1>10, <3>1
      <4> HIDE DEF new
      <4> QED
        BY <1>13, <3>2, <4>1
    <3> QED
      BY <1>11, <3>3
  <2>4. \A i \in Boxes(advanced) : DOMAIN advanced.boxes[i].heads \subseteq Branches(advanced)
    BY <1>2, <1>10, <1>11, <1>12 DEF StateOK
  <2> QED
    BY <1>10, <2>1, <2>2, <2>3, <2>4 DEF StateOK
<1>15. \A c, a : DescendsFrom(created, c, a) => DescendsFrom(advanced, c, a)
  BY <1>10, DescentOfConfs
<1>16. HeadsOf(advanced)
  <2>1. HeadsOf(created)
    BY <1>3 DEF Good
  <2>2. \A a : DescendsFrom(s, s.branches[b].head, a) => DescendsFrom(advanced, new, a)
    BY <1>4, <1>15
  <2>3. HeadsOf(s)
    BY DEF Good
  <2>4. ASSUME NEW a \in Branches(s)
        PROVE  DescendsFrom(advanced, advanced.branches[a].head, advanced.branches[a].baseline)
    <3>1. CASE a = b
      BY <1>9, <1>11, <2>2, <2>3, <3>1 DEF HeadsOf
    <3>2. CASE a # b
      BY <1>2, <1>11, <1>12, <1>15, <2>1, <3>2 DEF HeadsOf
    <3> QED
      BY <3>1, <3>2
  <2>5. ASSUME NEW i \in Boxes(s), NEW a \in DOMAIN s.boxes[i].heads
        PROVE  /\ advanced.branches[a].baseline = s.boxes[i].baseline
               /\ DescendsFrom(advanced, advanced.branches[a].head, s.boxes[i].heads[a])
    <3>1. a \in Branches(s)
      BY <1>1 DEF StateOK
    <3>2. s.branches[a].baseline = s.boxes[i].baseline
          /\ DescendsFrom(s, s.branches[a].head, s.boxes[i].heads[a])
      BY <2>3 DEF HeadsOf
    <3>3. DescendsFrom(created, s.branches[a].head, s.boxes[i].heads[a])
      BY <1>2, <1>12, <2>1 DEF HeadsOf
    <3>4. CASE a = b
      BY <1>9, <1>11, <2>2, <3>2, <3>4
    <3>5. CASE a # b
      BY <1>11, <1>15, <3>1, <3>2, <3>3, <3>5
    <3> QED
      BY <3>4, <3>5
  <2> QED
    BY <1>2, <1>10, <1>11, <1>12, <2>4, <2>5 DEF HeadsOf
<1>17. Asked(advanced) /\ IndependentIn(advanced) /\ JustifiedIn(advanced)
  BY <1>2, <1>10, <1>11, <1>13, SameDeclarations
<1>18. Later(created, advanced)
  <2>1. \A a \in Branches(s) : s.branches[a].head \in 1..Len(s.confs)
    BY <1>1 DEF StateOK
  <2>2. ASSUME NEW a \in Branches(s) PROVE s.branches[a].head <= advanced.branches[a].head
    <3>1. Len(s.confs) \in Nat
      BY <1>1, Parts
    <3>2. s.branches[a].head \in 1..Len(s.confs)
          /\ advanced.branches[a].head \in {s.branches[a].head, Len(s.confs) + 1}
      BY <1>13, <2>1
    <3> QED
      BY <3>1, <3>2
  <2> QED
    BY <1>2, <1>10, <1>11, <1>12, <2>2 DEF Later
<1> QED
  BY <1>3, <1>14, <1>16, <1>17, <1>18 DEF Good, created, advanced

(* branch/create.                                                          *)
LEMMA BranchGood ==
  ASSUME NEW s, Good(s), Len(s.branches) < MaxBranches,
         NEW baseline \in 1..Len(s.confs), NEW d \in Draft
  PROVE  LET t == [s EXCEPT !.branches = Append(@,
                     [baseline |-> baseline, head |-> baseline, draft |-> d])]
         IN  Good(t) /\ Later(s, t)
<1> DEFINE e == [baseline |-> baseline, head |-> baseline, draft |-> d]
           t == [s EXCEPT !.branches = Append(s.branches, e)]
           n == Len(s.branches)
<1>1. /\ StateOK(s) /\ Len(s.confs) \in 1..MaxConfs /\ n \in Nat
      /\ s.branches \in Seq(BranchRecords) /\ Branches(s) = 1..n
  BY Parts DEF Good
<1>2. e \in BranchRecords
  BY <1>1 DEF BranchRecords
<1>3. e.baseline = baseline /\ e.head = baseline /\ e.draft = d
  OBVIOUS
<1> HIDE DEF e
<1>4. /\ t.confs = s.confs /\ t.boxes = s.boxes /\ t.branches = Append(s.branches, e)
      /\ t \in [confs : Seq(Confs), branches : Seq(BranchRecords), boxes : Seq(BoxRecords)]
  <2>1. s \in [confs : Seq(Confs), branches : Seq(BranchRecords), boxes : Seq(BoxRecords)]
    BY <1>1 DEF StateOK
  <2>2. Append(s.branches, e) \in Seq(BranchRecords)
    BY <1>1, <1>2, SeqFacts
  <2> QED
    BY <2>1, <2>2
<1> HIDE DEF t
<1>5. /\ Len(t.branches) = n + 1 /\ Branches(t) = 1..(n + 1) /\ t.branches[n + 1] = e
      /\ \A b \in Branches(s) : t.branches[b] = s.branches[b]
  BY <1>1, <1>2, <1>4, SeqFacts DEF Branches
<1>6. Boxes(t) = Boxes(s)
  BY <1>4 DEF Boxes
<1>7. \A b \in Branches(t) : b \in Branches(s) \/ b = n + 1
  BY <1>1, <1>5
<1>8. Branches(s) \subseteq Branches(t)
  BY <1>1, <1>5
<1>9. StateOK(t)
  <2>1. Len(t.confs) \in 1..MaxConfs /\ \A c \in 1..Len(t.confs) : t.confs[c].parent < c
    BY <1>1, <1>4 DEF StateOK
  <2>2. Len(t.branches) <= MaxBranches
    BY <1>1, <1>5
  <2>3. \A b \in Branches(t) : {t.branches[b].baseline, t.branches[b].head} \subseteq 1..Len(t.confs)
    BY <1>1, <1>3, <1>4, <1>5, <1>7 DEF StateOK
  <2>4. \A i \in Boxes(t) : DOMAIN t.boxes[i].heads \subseteq Branches(t)
    BY <1>1, <1>4, <1>6, <1>8 DEF StateOK
  <2> QED
    BY <1>4, <2>1, <2>2, <2>3, <2>4 DEF StateOK
<1>10. \A c, a : DescendsFrom(s, c, a) => DescendsFrom(t, c, a)
  BY <1>4, DescentOfConfs
<1>11. HeadsOf(t)
  <2>1. \A b \in Branches(t) : DescendsFrom(t, t.branches[b].head, t.branches[b].baseline)
    BY <1>3, <1>5, <1>7, <1>10, DescentReflexive DEF Good, HeadsOf
  <2>2. ASSUME NEW i \in Boxes(s), NEW b \in DOMAIN s.boxes[i].heads
        PROVE  /\ t.branches[b].baseline = s.boxes[i].baseline
               /\ DescendsFrom(t, t.branches[b].head, s.boxes[i].heads[b])
    <3>1. b \in Branches(s)
      BY <1>1 DEF StateOK
    <3> QED
      BY <1>5, <1>10, <3>1 DEF Good, HeadsOf
  <2> QED
    BY <1>4, <1>6, <2>1, <2>2 DEF HeadsOf
<1>12. Asked(t) /\ IndependentIn(t) /\ JustifiedIn(t)
  BY <1>4, <1>5, <1>8, SameDeclarations
<1>13. Later(s, t)
  <2>1. \A b \in Branches(s) : b \in Branches(t) /\ s.branches[b].head <= t.branches[b].head
    BY <1>5, <1>8, HeadsTyped
  <2>2. \A i \in Boxes(s) : i \in Boxes(t) /\ t.boxes[i].heads = s.boxes[i].heads
    BY <1>4, <1>6
  <2> QED
    BY <2>1, <2>2 DEF Later
<1> QED
  BY <1>9, <1>11, <1>12, <1>13 DEF Good, t, e

(* A sandbox is added or replaced by one with the same snapshot.           *)
BoxOK(s, box) ==
  LET granted == {r \in DOMAIN box.approvals : box.approvals[r] # Nobody}
  IN  /\ box \in BoxRecords
      /\ DOMAIN box.heads \subseteq Branches(s)
      /\ \A b \in DOMAIN box.heads :
           /\ s.branches[b].baseline = box.baseline
           /\ DescendsFrom(s, s.branches[b].head, box.heads[b])
      /\ DOMAIN box.approvals # {}
      /\ \A r \in DOMAIN box.approvals :
           box.approvals[r] \notin {s.branches[b].draft.author : b \in DOMAIN box.heads}
      /\ DOMAIN box.approvals = Requested(s, DOMAIN box.heads)
      /\ box.status \in {"draft", "blocked"} => granted = {}
      /\ (box.status = "approved") <=> (granted = DOMAIN box.approvals)
      /\ box.status \in {"ready_for_approval", "approved"} =>
           \A a, b \in DOMAIN box.heads :
             \A p \in s.branches[a].draft.proposes, q \in s.branches[b].draft.proposes :
               p[1] = q[1] => p[2] = q[2]

LEMMA BoxesGood ==
  ASSUME NEW s, StateOK(s)
  PROVE  Good(s) <=> /\ \A b \in Branches(s) :
                          DescendsFrom(s, s.branches[b].head, s.branches[b].baseline)
                     /\ \A i \in Boxes(s) : BoxOK(s, s.boxes[i])
<1>1. \A i \in Boxes(s) : s.boxes[i] \in BoxRecords /\ DOMAIN s.boxes[i].heads \subseteq Branches(s)
  BY Parts DEF StateOK
<1>2. ASSUME Good(s), NEW i \in Boxes(s) PROVE BoxOK(s, s.boxes[i])
  <2>1. /\ \A b \in DOMAIN s.boxes[i].heads :
           /\ s.branches[b].baseline = s.boxes[i].baseline
           /\ DescendsFrom(s, s.branches[b].head, s.boxes[i].heads[b])
        /\ DOMAIN s.boxes[i].approvals # {}
    BY <1>2 DEF Good, HeadsOf, Asked
  <2>2. \A r \in DOMAIN s.boxes[i].approvals :
           s.boxes[i].approvals[r] \notin {s.branches[b].draft.author : b \in DOMAIN s.boxes[i].heads}
    BY <1>2 DEF Good, IndependentIn, Authors
  <2> QED
    BY <1>1, <1>2, <2>1, <2>2 DEF Good, JustifiedIn, BoxOK
<1>3. ASSUME \A b \in Branches(s) : DescendsFrom(s, s.branches[b].head, s.branches[b].baseline),
             \A i \in Boxes(s) : BoxOK(s, s.boxes[i])
      PROVE  Good(s)
  <2>1. HeadsOf(s) /\ Asked(s)
    BY <1>3 DEF HeadsOf, Asked, BoxOK
  <2>2. IndependentIn(s)
    BY <1>3 DEF IndependentIn, Authors, BoxOK
  <2>3. JustifiedIn(s)
    BY <1>3 DEF JustifiedIn, BoxOK
  <2> QED
    BY <2>1, <2>2, <2>3 DEF Good
<1>4. Good(s) => \A b \in Branches(s) : DescendsFrom(s, s.branches[b].head, s.branches[b].baseline)
  BY DEF Good, HeadsOf
<1> QED
  BY <1>2, <1>3, <1>4

(* Boxes refer to branches and configurations alone.                       *)
LEMMA BoxElsewhere ==
  ASSUME NEW s, NEW t, t.confs = s.confs, t.branches = s.branches, NEW box, BoxOK(s, box)
  PROVE  BoxOK(t, box)
<1>1. Branches(t) = Branches(s) /\ Requested(t, DOMAIN box.heads) = Requested(s, DOMAIN box.heads)
  BY DEF Branches, Requested
<1>2. \A c, a : DescendsFrom(s, c, a) => DescendsFrom(t, c, a)
  BY DescentOfConfs
<1> QED
  BY <1>1, <1>2 DEF BoxOK

LEMMA NewBoxGood ==
  ASSUME NEW s, Good(s), NEW e, BoxOK(s, e)
  PROVE  LET t == [s EXCEPT !.boxes = Append(@, e)] IN Good(t) /\ Later(s, t)
<1> DEFINE t == [s EXCEPT !.boxes = Append(s.boxes, e)]
           n == Len(s.boxes)
<1>1. StateOK(s) /\ n \in Nat /\ s.boxes \in Seq(BoxRecords) /\ Boxes(s) = 1..n
  BY Parts DEF Good
<1>2. e \in BoxRecords
  BY DEF BoxOK
<1>3. /\ t.confs = s.confs /\ t.branches = s.branches /\ t.boxes = Append(s.boxes, e)
      /\ t \in [confs : Seq(Confs), branches : Seq(BranchRecords), boxes : Seq(BoxRecords)]
  <2>1. s \in [confs : Seq(Confs), branches : Seq(BranchRecords), boxes : Seq(BoxRecords)]
    BY <1>1 DEF StateOK
  <2>2. Append(s.boxes, e) \in Seq(BoxRecords)
    BY <1>1, <1>2, SeqFacts
  <2> QED
    BY <2>1, <2>2
<1> HIDE DEF t
<1>4. /\ Boxes(t) = 1..(n + 1) /\ t.boxes[n + 1] = e /\ Branches(t) = Branches(s)
      /\ \A i \in Boxes(s) : t.boxes[i] = s.boxes[i]
  BY <1>1, <1>2, <1>3, SeqFacts DEF Boxes, Branches
<1>5. \A i \in Boxes(t) : i \in Boxes(s) \/ i = n + 1
  BY <1>1, <1>4
<1>6. \A i \in Boxes(s) : BoxOK(s, s.boxes[i])
  BY <1>1, BoxesGood
<1>7. ASSUME NEW i \in Boxes(t) PROVE BoxOK(t, t.boxes[i])
  <2>1. BoxOK(s, t.boxes[i])
    BY <1>4, <1>5, <1>6
  <2> QED
    BY <1>3, <2>1, BoxElsewhere
<1>8. \A i \in Boxes(t) : DOMAIN t.boxes[i].heads \subseteq Branches(t)
  BY <1>7 DEF BoxOK
<1>9. StateOK(t)
  BY <1>1, <1>3, <1>4, <1>8 DEF StateOK
<1>10. \A b \in Branches(t) : DescendsFrom(t, t.branches[b].head, t.branches[b].baseline)
  BY <1>3, <1>4, DescentOfConfs DEF Good, HeadsOf
<1>11. Good(t)
  BY <1>7, <1>9, <1>10, BoxesGood
<1>12. Later(s, t)
  <2>1. \A b \in Branches(s) : b \in Branches(t) /\ s.branches[b].head <= t.branches[b].head
    BY <1>3, <1>4, HeadsTyped
  <2>2. \A i \in Boxes(s) : i \in Boxes(t) /\ t.boxes[i].heads = s.boxes[i].heads
    BY <1>1, <1>4
  <2> QED
    BY <2>1, <2>2 DEF Later
<1> QED
  BY <1>11, <1>12 DEF t

LEMMA OtherBoxGood ==
  ASSUME NEW s, Good(s), NEW i \in Boxes(s), NEW e, BoxOK(s, e), e.heads = s.boxes[i].heads
  PROVE  LET t == [s EXCEPT !.boxes = [s.boxes EXCEPT ![i] = e]] IN Good(t) /\ Later(s, t)
<1> DEFINE t == [s EXCEPT !.boxes = [s.boxes EXCEPT ![i] = e]]
           n == Len(s.boxes)
<1>1. StateOK(s) /\ n \in Nat /\ s.boxes \in Seq(BoxRecords) /\ Boxes(s) = 1..n
  BY Parts DEF Good
<1>2. e \in BoxRecords
  BY DEF BoxOK
<1>3. /\ t.confs = s.confs /\ t.branches = s.branches /\ t.boxes = [s.boxes EXCEPT ![i] = e]
      /\ t \in [confs : Seq(Confs), branches : Seq(BranchRecords), boxes : Seq(BoxRecords)]
  <2>1. s \in [confs : Seq(Confs), branches : Seq(BranchRecords), boxes : Seq(BoxRecords)]
    BY <1>1 DEF StateOK
  <2>2. [s.boxes EXCEPT ![i] = e] \in Seq(BoxRecords)
    BY <1>1, <1>2, SeqExcept
  <2> QED
    BY <2>1, <2>2
<1> HIDE DEF t
<1>4. /\ Boxes(t) = Boxes(s) /\ t.boxes[i] = e /\ Branches(t) = Branches(s)
      /\ \A j \in Boxes(s) : j # i => t.boxes[j] = s.boxes[j]
  BY <1>1, <1>2, <1>3, SeqExcept DEF Boxes, Branches
<1>5. \A j \in Boxes(s) : BoxOK(s, s.boxes[j])
  BY <1>1, BoxesGood
<1>6. ASSUME NEW j \in Boxes(t) PROVE BoxOK(t, t.boxes[j])
  <2>1. BoxOK(s, t.boxes[j])
    BY <1>4, <1>5
  <2> QED
    BY <1>3, <2>1, BoxElsewhere
<1>7. \A j \in Boxes(t) : DOMAIN t.boxes[j].heads \subseteq Branches(t)
  BY <1>6 DEF BoxOK
<1>8. StateOK(t)
  BY <1>1, <1>3, <1>4, <1>7 DEF StateOK
<1>9. \A b \in Branches(t) : DescendsFrom(t, t.branches[b].head, t.branches[b].baseline)
  BY <1>3, <1>4, DescentOfConfs DEF Good, HeadsOf
<1>10. Good(t)
  BY <1>6, <1>8, <1>9, BoxesGood
<1>11. Later(s, t)
  <2>1. \A b \in Branches(s) : b \in Branches(t) /\ s.branches[b].head <= t.branches[b].head
    BY <1>3, <1>4, HeadsTyped
  <2>2. \A j \in Boxes(s) : j \in Boxes(t) /\ t.boxes[j].heads = s.boxes[j].heads
    BY <1>4
  <2> QED
    BY <2>1, <2>2 DEF Later
<1> QED
  BY <1>10, <1>11 DEF t

-----------------------------------------------------------------------------
(* What the three integration handlers make of the state in memory.        *)
LEMMA CreateGood ==
  ASSUME Good(mem), NEW baseline \in 1..Len(mem.confs), NEW bs \in SUBSET Branches(mem),
         bs # {}, Sharing(mem, bs, baseline)
  PROVE  LET e == [baseline |-> baseline, heads |-> [b \in bs |-> mem.branches[b].head],
                   status |-> "draft", approvals |-> [r \in Requested(mem, bs) |-> Nobody]]
         IN  BoxOK(mem, e)
<1> DEFINE heads == [b \in bs |-> mem.branches[b].head]
           approvals == [r \in Requested(mem, bs) |-> Nobody]
           e == [baseline |-> baseline, heads |-> heads, status |-> "draft", approvals |-> approvals]
<1>1. /\ StateOK(mem) /\ Len(mem.confs) \in 1..MaxConfs /\ Len(mem.branches) \in Nat
      /\ Branches(mem) = 1..Len(mem.branches) /\ Len(mem.branches) <= MaxBranches
  BY Parts DEF Good, StateOK
<1>2. /\ \A b \in bs : mem.branches[b].head \in 1..MaxConfs /\ mem.branches[b].draft \in Draft
  BY <1>1, Parts DEF BranchRecords
<1>3. ASSUME NEW b \in bs
      PROVE  /\ mem.branches[b].draft.roles \subseteq Role /\ mem.branches[b].draft.roles # {}
             /\ mem.branches[b].draft.author \in Person
  <2>1. mem.branches[b].draft \in DraftType
    BY <1>2
  <2>2. mem.branches[b].draft.roles \in (SUBSET Role) \ {{}} /\ mem.branches[b].draft.author \in Person
    BY <2>1 DEF DraftType
  <2> QED
    BY <2>2
<1>4. Requested(mem, bs) \subseteq Role /\ Requested(mem, bs) # {}
  <2>1. PICK b \in bs : TRUE
    OBVIOUS
  <2>2. mem.branches[b].draft.roles # {}
    BY <1>3
  <2>3. PICK r : r \in mem.branches[b].draft.roles
    BY <2>2
  <2>4. r \in Requested(mem, bs)
    BY <2>3 DEF Requested
  <2> QED
    BY <1>3, <2>4 DEF Requested
<1>5. heads \in [bs -> 1..MaxConfs] /\ bs \in SUBSET (1..MaxBranches)
  BY <1>1, <1>2
<1>6. approvals \in [Requested(mem, bs) -> Person \cup {Nobody}]
  OBVIOUS
<1>7. e \in BoxRecords
  <2>1. heads \in UNION {[cs -> 1..MaxConfs] : cs \in SUBSET (1..MaxBranches)}
    BY <1>5
  <2>2. approvals \in UNION {[roles -> Person \cup {Nobody}] : roles \in SUBSET Role}
    BY <1>4, <1>6
  <2>3. baseline \in 1..MaxConfs
    BY <1>1
  <2> HIDE DEF heads, approvals
  <2> QED
    BY <2>1, <2>2, <2>3 DEF BoxRecords
<1>8. \A b \in bs : mem.branches[b].baseline = baseline
  BY DEF Sharing
<1>9. \A b \in bs : DescendsFrom(mem, mem.branches[b].head, mem.branches[b].head)
  BY DescentReflexive
<1>10. \A r \in Requested(mem, bs) : Nobody \notin {mem.branches[b].draft.author : b \in bs}
  BY <1>3
<1> QED
  BY <1>4, <1>7, <1>8, <1>9, <1>10 DEF BoxOK

LEMMA EvaluateGood ==
  ASSUME Good(mem), NEW i \in Boxes(mem)
  PROVE  Good(Evaluated(i)) /\ Later(mem, Evaluated(i))
<1> DEFINE box == mem.boxes[i]
           status == IF Acceptable(i) THEN "ready_for_approval" ELSE "blocked"
           approvals == [r \in DOMAIN box.approvals |-> Nobody]
           e == [box EXCEPT !.status = status, !.approvals = approvals]
<1>1. StateOK(mem) /\ BoxOK(mem, box) /\ i \in 1..Len(mem.boxes) /\ mem.boxes \in Seq(BoxRecords)
  BY BoxesGood, Parts DEF Good
<1>2. box \in BoxRecords
  BY <1>1 DEF BoxOK
<1>3. Evaluated(i) = [mem EXCEPT !.boxes = [mem.boxes EXCEPT ![i] = e]]
  <2>1. mem \in [confs : Seq(Confs), branches : Seq(BranchRecords), boxes : Seq(BoxRecords)]
    BY <1>1 DEF StateOK
  <2>2. [mem EXCEPT !.boxes[i].status = status, !.boxes[i].approvals = approvals]
          = [mem EXCEPT !.boxes = [mem.boxes EXCEPT ![i] = e]]
    <3> HIDE DEF status, approvals
    <3> QED
      BY <1>1, <1>2, <2>1 DEF BoxRecords
  <2> QED
    BY <2>2 DEF Evaluated
<1>4. /\ e.heads = box.heads /\ e.baseline = box.baseline /\ e.status = status
      /\ e.approvals = approvals
  BY <1>2 DEF BoxRecords
<1>5. DOMAIN approvals = DOMAIN box.approvals /\ \A r \in DOMAIN approvals : approvals[r] = Nobody
  OBVIOUS
<1>6. e \in BoxRecords
  <2>1. DOMAIN box.approvals \in SUBSET Role
    BY <1>2 DEF BoxRecords
  <2>2. approvals \in [DOMAIN box.approvals -> Person \cup {Nobody}]
    OBVIOUS
  <2>3. approvals \in UNION {[roles -> Person \cup {Nobody}] : roles \in SUBSET Role}
    BY <2>1, <2>2
  <2>4. status \in {"draft", "blocked", "ready_for_approval", "approved"}
    OBVIOUS
  <2> HIDE DEF approvals, status
  <2> QED
    BY <1>2, <2>3, <2>4 DEF BoxRecords
<1>7. \A b \in DOMAIN box.heads : mem.branches[b].draft.author # Nobody
  <2>1. \A b \in DOMAIN box.heads : mem.branches[b] \in BranchRecords
    BY <1>1, Parts DEF BoxOK
  <2> QED
    BY <2>1 DEF BranchRecords, DraftType
<1>8. status # "approved" /\ (status = "ready_for_approval" => Acceptable(i))
  OBVIOUS
<1>9. ASSUME status = "ready_for_approval"
      PROVE  \A a, b \in DOMAIN box.heads :
               \A p \in mem.branches[a].draft.proposes, q \in mem.branches[b].draft.proposes :
                 p[1] = q[1] => p[2] = q[2]
  <2>1. OncePerContract(UNION {mem.branches[b].draft.proposes : b \in DOMAIN box.heads})
    BY <1>8, <1>9 DEF Acceptable, Compatible
  <2> QED
    BY <2>1 DEF OncePerContract
<1> HIDE DEF status, approvals, e
<1>10. BoxOK(mem, e)
  <2>1. {r \in DOMAIN approvals : approvals[r] # Nobody} = {}
    BY <1>5
  <2>2. DOMAIN approvals # {} /\ DOMAIN approvals = Requested(mem, DOMAIN box.heads)
    BY <1>1, <1>5 DEF BoxOK
  <2>3. \A r \in DOMAIN approvals :
           approvals[r] \notin {mem.branches[b].draft.author : b \in DOMAIN box.heads}
    BY <1>5, <1>7
  <2>4. /\ DOMAIN box.heads \subseteq Branches(mem)
        /\ \A b \in DOMAIN box.heads :
             /\ mem.branches[b].baseline = box.baseline
             /\ DescendsFrom(mem, mem.branches[b].head, box.heads[b])
    BY <1>1 DEF BoxOK
  <2> HIDE DEF box
  <2> QED
    BY <1>4, <1>6, <1>8, <1>9, <2>1, <2>2, <2>3, <2>4 DEF BoxOK
<1> QED
  BY <1>3, <1>4, <1>10, OtherBoxGood

LEMMA ApproveGood ==
  ASSUME Good(mem), NEW i \in Boxes(mem), NEW role \in DOMAIN mem.boxes[i].approvals,
         NEW person \in Person, mem.boxes[i].status \in {"ready_for_approval", "approved"},
         Independent(mem, i, person)
  PROVE  Good(Approved(i, role, person)) /\ Later(mem, Approved(i, role, person))
<1> DEFINE box == mem.boxes[i]
           approvals == [box.approvals EXCEPT ![role] = person]
           status == IF Complete(approvals) THEN "approved" ELSE box.status
           e == [box EXCEPT !.approvals = approvals, !.status = status]
<1>1. StateOK(mem) /\ BoxOK(mem, box) /\ i \in 1..Len(mem.boxes) /\ mem.boxes \in Seq(BoxRecords)
  BY BoxesGood, Parts DEF Good
<1>2. box \in BoxRecords
  BY <1>1 DEF BoxOK
<1>3. Approved(i, role, person) = [mem EXCEPT !.boxes = [mem.boxes EXCEPT ![i] = e]]
  <2>1. mem \in [confs : Seq(Confs), branches : Seq(BranchRecords), boxes : Seq(BoxRecords)]
    BY <1>1 DEF StateOK
  <2> QED
    BY <1>1, <1>2, <2>1 DEF Approved, BoxRecords
<1>4. /\ e.heads = box.heads /\ e.baseline = box.baseline /\ e.status = status
      /\ e.approvals = approvals
  BY <1>2 DEF BoxRecords
<1>5. PICK roles \in SUBSET Role : box.approvals \in [roles -> Person \cup {Nobody}]
  BY <1>2 DEF BoxRecords
<1>6. /\ approvals \in [roles -> Person \cup {Nobody}] /\ DOMAIN approvals = DOMAIN box.approvals
      /\ approvals[role] = person
      /\ \A r \in DOMAIN approvals : r # role => approvals[r] = box.approvals[r]
  BY <1>5
<1>7. status \in {"ready_for_approval", "approved"}
  OBVIOUS
<1>8. e \in BoxRecords
  <2>1. approvals \in UNION {[rs -> Person \cup {Nobody}] : rs \in SUBSET Role}
    BY <1>6
  <2> HIDE DEF approvals, status
  <2> QED
    BY <1>2, <1>7, <2>1 DEF BoxRecords
<1>9. person \notin {mem.branches[b].draft.author : b \in DOMAIN box.heads}
  BY DEF Independent, Authors
<1>10. (status = "approved") <=> ({r \in DOMAIN approvals : approvals[r] # Nobody} = DOMAIN approvals)
  <2>1. Complete(approvals)
          <=> {r \in DOMAIN approvals : approvals[r] # Nobody} = DOMAIN approvals
    BY DEF Complete
  <2>2. CASE Complete(approvals)
    BY <2>1, <2>2
  <2>3. CASE ~Complete(approvals)
    <3>1. PICK r \in DOMAIN approvals : approvals[r] = Nobody
      BY <2>3 DEF Complete
    <3>2. r # role /\ box.approvals[r] = Nobody /\ r \in DOMAIN box.approvals
      BY <1>6, <3>1
    <3>3. box.status # "approved"
      BY <1>1, <3>2 DEF BoxOK
    <3> QED
      BY <2>1, <2>3, <3>3
  <2> QED
    BY <2>2, <2>3
<1> HIDE DEF status, approvals, e
<1>11. BoxOK(mem, e)
  <2>1. DOMAIN approvals # {} /\ DOMAIN approvals = Requested(mem, DOMAIN box.heads)
    BY <1>1, <1>6 DEF BoxOK
  <2>2. \A r \in DOMAIN approvals :
           approvals[r] \notin {mem.branches[b].draft.author : b \in DOMAIN box.heads}
    BY <1>1, <1>6, <1>9 DEF BoxOK
  <2>3. /\ DOMAIN box.heads \subseteq Branches(mem)
        /\ \A b \in DOMAIN box.heads :
             /\ mem.branches[b].baseline = box.baseline
             /\ DescendsFrom(mem, mem.branches[b].head, box.heads[b])
        /\ \A a, b \in DOMAIN box.heads :
             \A p \in mem.branches[a].draft.proposes, q \in mem.branches[b].draft.proposes :
               p[1] = q[1] => p[2] = q[2]
    BY <1>1 DEF BoxOK
  <2> HIDE DEF box
  <2> QED
    BY <1>4, <1>7, <1>8, <1>10, <2>1, <2>2, <2>3 DEF BoxOK
<1> QED
  BY <1>3, <1>4, <1>11, OtherBoxGood

-----------------------------------------------------------------------------
LEMMA LaterReflexive == ASSUME NEW s, Good(s) PROVE Later(s, s)
BY HeadsTyped DEF Later

LEMMA LaterTransitive ==
  ASSUME NEW s, NEW t, NEW u, Good(s), Good(t), Good(u), Later(s, t), Later(t, u)
  PROVE  Later(s, u)
<1>1. \A b \in Branches(s) : /\ b \in Branches(t) /\ b \in Branches(u)
                             /\ s.branches[b].head \in Nat /\ t.branches[b].head \in Nat
                             /\ u.branches[b].head \in Nat
  <2>1. \A b \in Branches(s) : b \in Branches(t) /\ b \in Branches(u)
    BY DEF Later
  <2> QED
    BY <2>1, HeadsTyped
<1> QED
  BY <1>1 DEF Later

IInv ==
  /\ Good(mem) /\ Good(disk) /\ Later(disk, mem)
  /\ up \in BOOLEAN /\ evidence \subseteq Evidence /\ faults \in 0..MaxFaults

(* A sandbox left behind stays behind in every later state.                *)
LEMMA StaleStays ==
  ASSUME NEW s, NEW t, Good(s), Good(t), Later(s, t), NEW i \in Boxes(s), Stale(s, i)
  PROVE  Stale(t, i)
<1>1. PICK b \in DOMAIN s.boxes[i].heads : s.branches[b].head # s.boxes[i].heads[b]
  BY DEF Stale
<1>2. b \in Branches(s) /\ s.branches[b].head \in 1..Len(s.confs) /\ StateOK(s)
  BY DEF Good, StateOK
<1>3. DescendsFrom(s, s.branches[b].head, s.boxes[i].heads[b])
  BY DEF Good, HeadsOf
<1>4. s.boxes[i].heads[b] \in 1..s.branches[b].head
  BY <1>2, <1>3, DescentOrdered
<1>5. /\ s.branches[b].head <= t.branches[b].head /\ t.boxes[i].heads = s.boxes[i].heads
      /\ b \in Branches(t)
  BY <1>2 DEF Later
<1>6. s.branches[b].head \in Nat /\ t.branches[b].head \in Nat
  BY <1>2, <1>5, HeadsTyped
<1>7. t.branches[b].head # t.boxes[i].heads[b]
  BY <1>1, <1>4, <1>5, <1>6
<1> QED
  BY <1>1, <1>5, <1>7 DEF Stale

LEMMA InitGood == ASSUME Init PROVE IInv
<1> DEFINE c == [parent |-> 0, state |-> "committed"]
<1>1. mem = Genesis /\ disk = Genesis /\ evidence = {} /\ faults = 0 /\ up = FALSE
  BY DEF Init
<1>2. c \in Confs
  BY DEF Confs
<1>3. Genesis = [confs |-> <<c>>, branches |-> <<>>, boxes |-> <<>>]
  BY DEF Genesis
<1>4. Genesis \in [confs : Seq(Confs), branches : Seq(BranchRecords), boxes : Seq(BoxRecords)]
  <2>1. <<c>> \in Seq(Confs)
    BY <1>2
  <2> HIDE DEF c
  <2> QED
    BY <1>3, <2>1
<1>5. Branches(Genesis) = {} /\ Boxes(Genesis) = {}
  BY <1>3 DEF Branches, Boxes
<1>6. Len(Genesis.confs) = 1 /\ Genesis.confs[1].parent = 0 /\ Len(Genesis.branches) = 0
  BY <1>3
<1>7. StateOK(Genesis)
  BY <1>4, <1>5, <1>6 DEF StateOK
<1>8. Good(Genesis)
  BY <1>5, <1>7 DEF Good, HeadsOf, Asked, IndependentIn, JustifiedIn
<1>9. Later(Genesis, Genesis)
  BY <1>8, LaterReflexive
<1>10. up \in BOOLEAN
  BY <1>1
<1> QED
  BY <1>1, <1>8, <1>9, <1>10 DEF IInv

(* What holds after a step.                                                *)
After ==
  /\ Good(mem') /\ Good(disk') /\ Later(disk', mem') /\ Later(disk, disk')
  /\ up' \in BOOLEAN /\ evidence' \subseteq Evidence /\ faults' \in 0..MaxFaults

LEMMA PersistGood ==
  ASSUME IInv, NEW s, Good(s), Later(mem, s), Persist(s), UNCHANGED <<up, evidence>>
  PROVE  After
<1>1. mem' = s /\ (disk' = s \/ disk' = disk) /\ faults' \in 0..MaxFaults
  BY DEF Persist, Fail, IInv
<1>2. Later(disk, s) /\ Later(s, s) /\ Later(disk, disk)
  BY LaterReflexive, LaterTransitive DEF IInv
<1> QED
  BY <1>1, <1>2 DEF After, IInv

LEMMA StepGood == ASSUME IInv, [Next]_vars PROVE After
<1>1. /\ StateOK(mem) /\ Good(mem) /\ Good(disk) /\ Len(mem.confs) \in Nat
      /\ DOMAIN mem.confs = 1..Len(mem.confs)
      /\ Later(mem, mem) /\ Later(disk, disk) /\ Later(disk, mem)
  BY Parts, LaterReflexive DEF IInv, Good
<1>2. CASE UNCHANGED vars
  BY <1>1, <1>2 DEF After, IInv, vars
<1>3. CASE Open
  <2>1. up' \in BOOLEAN
    BY <1>3 DEF Open
  <2> QED
    BY <1>1, <1>3, <2>1 DEF After, IInv, Open
<1>4. CASE Crash
  <2>1. up' \in BOOLEAN
    BY <1>4 DEF Crash
  <2> QED
    BY <1>1, <1>4, <2>1 DEF After, IInv, Crash, Fail
<1>5. ASSUME NEW c \in DOMAIN mem.confs, Save(c) \/ Commit(c) PROVE After
  <2>1. Len(mem.confs) < MaxConfs /\ c \in 1..Len(mem.confs) /\ UNCHANGED <<up, evidence>>
    BY <1>1, <1>5 DEF Save, Commit, Newest
  <2>2. PICK state \in {"sandbox", "committed"} : Persist(WithConf(mem, c, state))
    BY <1>5 DEF Save, Commit
  <2>3. Good(WithConf(mem, c, state)) /\ Later(mem, WithConf(mem, c, state))
    BY <1>1, <2>1, SaveGood
  <2> QED
    BY <2>1, <2>2, <2>3, PersistGood
<1>6. ASSUME NEW c \in DOMAIN mem.confs, NEW d \in Draft, BranchCreate(c, d) PROVE After
  <2> DEFINE t == [mem EXCEPT !.branches = Append(@,
                     [baseline |-> c, head |-> c, draft |-> d])]
  <2>1. Persist(t) /\ UNCHANGED <<up, evidence>> /\ Len(mem.branches) < MaxBranches
    BY <1>6 DEF BranchCreate
  <2>2. Good(t) /\ Later(mem, t)
    BY <1>1, <2>1, BranchGood
  <2> HIDE DEF t
  <2> QED
    BY <2>1, <2>2, PersistGood
<1>7. ASSUME NEW b \in DOMAIN mem.branches, BranchUpdate(b) PROVE After
  <2> DEFINE created == WithConf(mem, mem.branches[b].head, "sandbox")
             advanced == WithHead(created, b, Newest(created))
  <2>1. /\ UNCHANGED <<up, evidence>> /\ Len(mem.confs) < MaxConfs
        /\ \/ mem' = advanced /\ disk' = advanced /\ UNCHANGED faults
           \/ Fail /\ mem' = created /\ UNCHANGED disk
           \/ Fail /\ mem' = advanced /\ disk' = created
    BY <1>7 DEF BranchUpdate, Newest
  <2>2. Good(created) /\ Good(advanced) /\ Later(mem, created) /\ Later(created, advanced)
    BY <1>1, <2>1, HeadGood DEF Branches
  <2> HIDE DEF created, advanced
  <2>3. /\ Later(disk, created) /\ Later(disk, advanced) /\ Later(advanced, advanced)
        /\ Later(created, created)
    BY <1>1, <2>2, LaterReflexive, LaterTransitive
  <2>4. faults' \in 0..MaxFaults
    BY <2>1 DEF IInv, Fail
  <2> QED
    BY <1>1, <2>1, <2>2, <2>3, <2>4 DEF After, IInv
<1>8. ASSUME NEW c \in DOMAIN mem.confs, NEW bs \in SUBSET DOMAIN mem.branches,
             IntegrationCreate(c, bs)
      PROVE  After
  <2> DEFINE e == [baseline |-> c, heads |-> [b \in bs |-> mem.branches[b].head],
                   status |-> "draft", approvals |-> [r \in Requested(mem, bs) |-> Nobody]]
             t == [mem EXCEPT !.boxes = Append(@, e)]
  <2>1. Persist(t) /\ UNCHANGED <<up, evidence>> /\ bs # {} /\ Sharing(mem, bs, c)
    BY <1>8 DEF IntegrationCreate
  <2>2. BoxOK(mem, e)
    BY <1>1, <2>1, CreateGood DEF Branches
  <2> HIDE DEF e
  <2>3. Good(t) /\ Later(mem, t)
    BY <1>1, <2>2, NewBoxGood
  <2> HIDE DEF t
  <2> QED
    BY <2>1, <2>3, PersistGood
<1>9. ASSUME NEW i \in DOMAIN mem.boxes, IntegrationEvaluate(i) PROVE After
  <2>1. Good(Evaluated(i)) /\ Later(mem, Evaluated(i))
    BY <1>1, EvaluateGood DEF Boxes
  <2> QED
    BY <1>9, <2>1, PersistGood DEF IntegrationEvaluate
<1>10. ASSUME NEW i \in DOMAIN mem.boxes, NEW role \in Role, NEW person \in Person,
              IntegrationApprove(i, role, person)
       PROVE  After
  <2>1. Good(Approved(i, role, person)) /\ Later(mem, Approved(i, role, person))
    BY <1>1, <1>10, ApproveGood DEF Boxes, IntegrationApprove
  <2> QED
    BY <1>10, <2>1, PersistGood DEF IntegrationApprove
<1> QED
  BY <1>2, <1>3, <1>4, <1>5, <1>6, <1>7, <1>8, <1>9, <1>10 DEF Next

LEMMA AfterInvariant == ASSUME After PROVE IInv'
BY DEF After, IInv, Good, StateOK, HeadsOf, Asked, IndependentIn, JustifiedIn, Later

LEMMA Invariant == Spec => []IInv
<1>1. IInv /\ [Next]_vars => IInv'
  BY StepGood, AfterInvariant
<1> QED
  BY InitGood, <1>1, PTL DEF Spec

-----------------------------------------------------------------------------
(* In memory and in state.json every reference leads to a record.          *)
THEOREM IntegrationTyped == Spec => []TypeOK
<1>1. IInv => TypeOK
  BY DEF IInv, Good, TypeOK
<1> QED
  BY Invariant, <1>1, PTL

(* A branch never leaves the line of its baseline and of the snapshots     *)
(* taken from it.                                                          *)
THEOREM BranchesStayOnLine == Spec => []HeadsAdvance
<1>1. IInv => HeadsAdvance
  BY DEF IInv, Good, HeadsAdvance
<1> QED
  BY Invariant, <1>1, PTL

(* No author approves a sandbox with work of their own.                    *)
THEOREM ApprovalIsIndependent == Spec => []ApproversIndependent
<1>1. IInv => ApproversIndependent
  BY DEF IInv, Good, ApproversIndependent
<1> QED
  BY Invariant, <1>1, PTL

(* An approved sandbox passed its evaluation, has every requested role,    *)
(* and no conflicting contract changes.                                    *)
THEOREM VerdictsAreJustified == Spec => []VerdictsJustified
<1>1. IInv => VerdictsJustified
  BY DEF IInv, Good, VerdictsJustified
<1> QED
  BY Invariant, <1>1, PTL

(* A stored sandbox that a branch has left behind never becomes current.   *)
THEOREM StaleStaysStale == Spec => StaleForever
<1>1. ASSUME IInv, [Next]_vars
      PROVE  [\A i \in Boxes(disk) : Stale(disk, i) => Stale(disk', i)]_vars
  BY <1>1, StepGood, StaleStays DEF After, IInv
<1> QED
  BY Invariant, <1>1, PTL DEF Spec, StaleForever

(* Every approval was given by others than the authors, and for what       *)
(* passed its evaluation without a conflict.                               *)
THEOREM ApprovalsAreSound == Spec => []ApprovalsSound
<1>1. ApproversIndependent /\ VerdictsJustified => ApprovalsSound
  BY DEF ApprovalsSound
<1> QED
  BY <1>1, ApprovalIsIndependent, VerdictsAreJustified, PTL
=============================================================================
