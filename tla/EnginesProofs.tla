---------------------------- MODULE EnginesProofs ----------------------------
(***************************************************************************)
(* Proofs about the engines: tasks and jobs, the verdicts on               *)
(* configurations, and the two routers of the board each have an inductive *)
(* invariant of their own variables, one lemma for each action or group of *)
(* actions, and the theorem of the properties it implies.  With those of   *)
(* the store and the sandboxes they give, at the end, everything that is   *)
(* checked of Engines, where one engine is chosen and the others stay as   *)
(* they are.                                                               *)
(***************************************************************************)
EXTENDS Engines, IntegrationProofs, StoreProofs, FiniteSetTheorems, SequenceTheorems,
        WellFoundedInduction, TLAPS

-----------------------------------------------------------------------------
(* Tasks and jobs.  What callers were answered, the disk and the memory are *)
(* a chain in MayBecome.  A persist takes over all of the memory, and so   *)
(* also changes that failed before: MayBecome has to be transitive.        *)

TasksInv == TasksTypeOK /\ TasksKept

LEMMA AbsentTyped == Absent \in TaskRecord /\ NoItems \in [Item -> TaskRecord]
BY TaskConstants DEF Absent, NoItems, TaskRecord, MaxRecoveries

LEMMA AbsentBecomes ==
  ASSUME NEW new PROVE MayBecome(Absent, new)
BY DEF Absent, MayBecome

LEMMA Reflexive ==
  ASSUME NEW r \in TaskRecord PROVE MayBecome(r, r)
BY TaskConstants DEF MayBecome, TaskRecord, MaxRecoveries

LEMMA Transitive ==
  ASSUME NEW a \in TaskRecord, NEW b \in TaskRecord, NEW c \in TaskRecord,
         MayBecome(a, b), MayBecome(b, c)
  PROVE  MayBecome(a, c)
<1>1. CASE a.status \in {"cancelled", "succeeded"}
  BY <1>1 DEF MayBecome
<1>2. CASE b.status \in {"cancelled", "succeeded"}
  BY <1>2 DEF MayBecome
<1>3. CASE a.status \in {"queued", "running"} /\ b.status \in {"queued", "running"}
  BY <1>3, TaskConstants DEF MayBecome, TaskRecord, MaxRecoveries
<1>4. CASE a.status = "absent"
  BY <1>4 DEF MayBecome
<1> QED
  BY <1>1, <1>2, <1>3, <1>4 DEF MayBecome, TaskRecord

(* A handler that changes one record keeps the invariant if the change is  *)
(* one that MayBecome allows, however far its persist gets.                *)
LEMMA PersistKeeps ==
  ASSUME TasksInv, NEW i \in Item, NEW record \in TaskRecord, MayBecome(known[i], record),
         PersistTask(i, record)
  PROVE  TasksInv'
<1>1. /\ opened /\ opened' = opened /\ known' = [known EXCEPT ![i] = record]
      /\ known \in [Item -> TaskRecord] /\ filed \in [Item -> TaskRecord]
      /\ answered \in [Item -> TaskRecord]
  BY DEF PersistTask, TasksInv, TasksTypeOK
<1>2. known' \in [Item -> TaskRecord]
  BY <1>1
<1>3. \A j \in Item : MayBecome(known[j], known'[j])
  BY <1>1, Reflexive
<1>4. \A j \in Item : MayBecome(filed[j], known'[j])
  BY <1>1, <1>2, <1>3, Transitive DEF TasksInv, TasksKept
<1>5. \A j \in Item : MayBecome(answered[j], known'[j])
  BY <1>1, <1>2, <1>4, Transitive DEF TasksInv, TasksKept
<1>6. \A j \in Item : MayBecome(known'[j], known'[j])
  BY <1>2, Reflexive
<1>7. CASE /\ filed' = known' /\ answered' = [answered EXCEPT ![i] = record]
           /\ UNCHANGED taskFaults
  <2>1. answered' \in [Item -> TaskRecord] /\ answered'[i] = known'[i]
        /\ \A j \in Item \ {i} : answered'[j] = answered[j]
    BY <1>1, <1>7
  <2>2. TasksKept'
    BY <1>5, <1>6, <1>7, <2>1 DEF TasksKept
  <2> QED
    BY <1>1, <1>2, <1>7, <2>1, <2>2 DEF TasksInv, TasksTypeOK
<1>8. CASE TaskFault /\ filed' \in {filed, known'} /\ UNCHANGED answered
  <2>1. filed' \in [Item -> TaskRecord] /\ taskFaults' \in 0..MaxTaskFaults
    BY <1>1, <1>2, <1>8, TaskConstants DEF TaskFault, TasksInv, TasksTypeOK
  <2>2. TasksKept'
    BY <1>1, <1>4, <1>5, <1>6, <1>8 DEF TasksInv, TasksKept
  <2> QED
    BY <1>1, <1>2, <1>8, <2>1, <2>2 DEF TasksInv, TasksTypeOK
<1> QED
  BY <1>7, <1>8 DEF PersistTask

LEMMA TasksStart == ASSUME TasksInit PROVE TasksInv
<1>1. known = NoItems /\ filed = NoItems /\ answered = NoItems /\ opened = TRUE /\ taskFaults = 0
  BY DEF TasksInit
<1>2. \A i \in Item : NoItems[i] = Absent
  BY DEF NoItems
<1>3. TasksTypeOK
  BY <1>1, AbsentTyped, TaskConstants DEF TasksTypeOK
<1> QED
  BY <1>1, <1>2, <1>3, AbsentBecomes DEF TasksInv, TasksKept

LEMMA StartKeeps ==
  ASSUME TasksInv, NEW i \in Item, StartTask(i) PROVE TasksInv'
<1>1. Queued \in TaskRecord
  BY TaskConstants DEF Queued, Absent, TaskRecord, MaxRecoveries
<1>2. MayBecome(known[i], Queued) /\ PersistTask(i, Queued)
  BY AbsentBecomes DEF StartTask
<1> QED
  BY <1>1, <1>2, PersistKeeps

LEMMA CancelTaskKeeps ==
  ASSUME TasksInv, NEW i \in Item, CancelTask(i) PROVE TasksInv'
<1> DEFINE r == [known[i] EXCEPT !.status = "cancelled"]
<1>1. known[i] \in TaskRecord /\ known[i].status \in {"queued", "running"}
  BY DEF TasksInv, TasksTypeOK, CancelTask, Active
<1>2. r \in TaskRecord /\ MayBecome(known[i], r)
  BY <1>1, TaskConstants DEF TaskRecord, MayBecome, MaxRecoveries
<1>3. PersistTask(i, r)
  BY DEF CancelTask
<1> QED
  BY <1>2, <1>3, PersistKeeps

LEMMA ProgressKeeps ==
  ASSUME TasksInv, NEW t \in AgentTask, NEW used \in 0..Budget, NEW complete \in BOOLEAN,
         AgentProgress(t, used, complete)
  PROVE  TasksInv'
<1> DEFINE status == IF complete THEN "succeeded" ELSE "running"
           r == [known[t] EXCEPT !.used = used, !.status = status]
<1>1. t \in Item
  BY DEF Item
<1>2. /\ known[t] \in TaskRecord /\ known[t].status \in {"queued", "running"}
      /\ used >= known[t].used
  BY <1>1 DEF TasksInv, TasksTypeOK, AgentProgress, Active
<1>3. status \in {"succeeded", "running"}
  OBVIOUS
<1>4. r \in TaskRecord /\ MayBecome(known[t], r)
  <2> HIDE DEF status
  <2>1. r.status = status /\ r.used = used /\ r.recoveries = known[t].recoveries
    BY <1>2 DEF TaskRecord
  <2>2. r \in TaskRecord
    BY <1>2, <1>3 DEF TaskRecord
  <2> HIDE DEF r
  <2>3. MayBecome(known[t], r)
    BY <1>2, <1>3, <2>1, TaskConstants DEF TaskRecord, MayBecome, MaxRecoveries
  <2> QED
    BY <2>2, <2>3
<1>5. PersistTask(t, r)
  BY DEF AgentProgress
<1> QED
  BY <1>1, <1>4, <1>5, PersistKeeps

LEMMA RecoverKeeps ==
  ASSUME TasksInv, NEW t \in AgentTask, AgentRecover(t) PROVE TasksInv'
<1>1. t \in Item
  BY DEF Item
<1>2. /\ known[t] \in TaskRecord /\ known[t].status = "running"
      /\ known[t].recoveries < MaxRecoveries
  BY <1>1 DEF TasksInv, TasksTypeOK, AgentRecover
<1>3. /\ Requeued(t).status = "queued" /\ Requeued(t).used = known[t].used
      /\ Requeued(t).recoveries = known[t].recoveries + 1
  BY <1>2 DEF Requeued, TaskRecord
<1>4. known[t].recoveries + 1 \in 0..MaxRecoveries
  BY <1>2 DEF TaskRecord, MaxRecoveries
<1>5. Requeued(t) \in TaskRecord
  BY <1>2, <1>4 DEF Requeued, TaskRecord
<1>6. MayBecome(known[t], Requeued(t))
  BY <1>2, <1>3, TaskConstants DEF TaskRecord, MayBecome, MaxRecoveries
<1>7. PersistTask(t, Requeued(t))
  BY DEF AgentRecover
<1> QED
  BY <1>1, <1>5, <1>6, <1>7, PersistKeeps

LEMMA TasksStep == ASSUME TasksInv, [TasksNext]_taskVars PROVE TasksInv'
<1>1. ASSUME NEW i \in Item, StartTask(i) \/ CancelTask(i) PROVE TasksInv'
  BY <1>1, StartKeeps, CancelTaskKeeps
<1>2. ASSUME NEW t \in AgentTask, NEW used \in 0..Budget, NEW complete \in BOOLEAN,
             AgentProgress(t, used, complete)
      PROVE  TasksInv'
  BY <1>2, ProgressKeeps
<1>3. ASSUME NEW t \in AgentTask, AgentRecover(t) PROVE TasksInv'
  BY <1>3, RecoverKeeps
<1>4. CASE PersistOther
  <2>1. /\ filed' = known /\ opened /\ UNCHANGED <<opened, known, answered, taskFaults>>
        /\ known \in [Item -> TaskRecord] /\ filed \in [Item -> TaskRecord]
        /\ answered \in [Item -> TaskRecord]
    BY <1>4 DEF PersistOther, TasksInv, TasksTypeOK
  <2>2. \A i \in Item : MayBecome(answered[i], known[i]) /\ MayBecome(known[i], known[i])
    BY <2>1, Reflexive, Transitive DEF TasksInv, TasksKept
  <2> QED
    BY <2>1, <2>2 DEF TasksInv, TasksTypeOK, TasksKept
<1>5. CASE OpenTasks
  <2>1. /\ opened' = TRUE /\ known' = filed /\ UNCHANGED <<filed, answered, taskFaults>>
        /\ filed \in [Item -> TaskRecord]
    BY <1>5 DEF OpenTasks, TasksInv, TasksTypeOK
  <2>2. \A i \in Item : MayBecome(filed[i], filed[i])
    BY <2>1, Reflexive
  <2> QED
    BY <2>1, <2>2 DEF TasksInv, TasksTypeOK, TasksKept
<1>6. CASE TasksLost
  <2>1. /\ opened' = FALSE /\ known' = NoItems /\ UNCHANGED <<filed, answered>>
        /\ taskFaults < MaxTaskFaults /\ taskFaults' = taskFaults + 1
    BY <1>6 DEF TasksLost, TaskFault
  <2>2. taskFaults' \in 0..MaxTaskFaults
    BY <2>1, TaskConstants DEF TasksInv, TasksTypeOK
  <2>3. TasksTypeOK'
    BY <2>1, <2>2, AbsentTyped DEF TasksInv, TasksTypeOK
  <2>4. TasksKept'
    BY <2>1 DEF TasksInv, TasksKept
  <2> QED
    BY <2>3, <2>4 DEF TasksInv
<1>7. CASE UNCHANGED taskVars
  BY <1>7 DEF taskVars, TasksInv, TasksTypeOK, TasksKept
<1> QED
  BY <1>1, <1>2, <1>3, <1>4, <1>5, <1>6, <1>7 DEF TasksNext

(* Every record of a task or job keeps its type, so no task spends more    *)
(* than its budget or is recovered more than three times.                  *)
THEOREM TaskTypes == TasksSpec => []TasksTypeOK
<1>1. TasksInit => TasksInv
  BY TasksStart
<1>2. TasksInv /\ [TasksNext]_taskVars => TasksInv'
  BY TasksStep
<1>3. TasksInv => TasksTypeOK
  BY DEF TasksInv
<1> QED
  BY <1>1, <1>2, <1>3, PTL DEF TasksSpec

(* What callers were answered of a task or job is never taken back.        *)
THEOREM TasksAreKept == TasksSpec => []TasksKept
<1>1. TasksInit => TasksInv
  BY TasksStart
<1>2. TasksInv /\ [TasksNext]_taskVars => TasksInv'
  BY TasksStep
<1>3. TasksInv => TasksKept
  BY DEF TasksInv
<1> QED
  BY <1>1, <1>2, <1>3, PTL DEF TasksSpec

-----------------------------------------------------------------------------
(* Verdicts.  Of the records about a gate one is the newest, and when a run *)
(* reached the gate since the opening it is the record of the last such run. *)

(* Times do not pass the clock, and the newest record about a gate is the  *)
(* one that the daemon last put there.                                     *)
TimesPast ==
  /\ \A r \in files : r.time <= now
  /\ \A i \in DOMAIN held : held[i].time <= now
NewestOf(c, g, i) ==
  /\ i \in About(c, g)
  /\ \A j \in About(c, g) :
       held[j].time < held[i].time \/ (held[j].time = held[i].time /\ j <= i)
WordsHeld ==
  \A c \in Configuration, g \in Gate : word[c][g] # Unknown =>
    \E i \in About(c, g) : NewestOf(c, g, i) /\ held[i].status = word[c][g]

ReleaseInv ==
  /\ ReleaseTypeOK /\ IsFiniteSet(files)
  /\ TimesPast /\ WordsHeld /\ VerdictsSound

LEMMA ReleaseSizes ==
  /\ MaxTime \in Nat /\ MaxRuns \in Nat /\ MaxReleaseFaults \in Nat
  /\ GateOrder \in Seq(Gate) /\ Required \subseteq Gate
  /\ \A i, j \in DOMAIN GateOrder : GateOrder[i] = GateOrder[j] => i = j
  /\ Committed \subseteq Configuration /\ Result \subseteq RunResult
BY ReleaseConstants DEF Gate

LEMMA SmallestNumber ==
  ASSUME NEW T \in SUBSET Nat, T # {}
  PROVE  \E x \in T : \A y \in T : x <= y
<1>1. IsWellFoundedOn(OpToRel(<, Nat), Nat)
  BY NatLessThanWellFounded
<1>2. PICK x \in T : \A y \in T : ~ (<<y, x>> \in OpToRel(<, Nat))
  BY <1>1, WFMin
<1>3. \A y \in T : ~ (y < x)
  BY <1>2 DEF OpToRel
<1> QED
  BY <1>3

LEMMA GreatestNumber ==
  ASSUME NEW n \in Nat, NEW T \in SUBSET (0..n), T # {}
  PROVE  \E x \in T : \A y \in T : y <= x
<1> DEFINE D == {n - x : x \in T}
<1>1. D \in SUBSET Nat /\ D # {}
  <2>1. \A x \in T : n - x \in Nat
    OBVIOUS
  <2> QED
    BY <2>1
<1> HIDE DEF D
<1>2. PICK d \in D : \A e \in D : d <= e
  BY <1>1, SmallestNumber
<1>3. PICK x \in T : d = n - x
  BY <1>2 DEF D
<1>4. \A y \in T : n - y \in D
  BY DEF D
<1> QED
  BY <1>2, <1>3, <1>4

LEMMA HeldRecords ==
  ASSUME held \in Seq(Record)
  PROVE  /\ DOMAIN held = 1..Len(held) /\ Len(held) \in Nat
         /\ \A i \in DOMAIN held : /\ held[i] \in Record /\ held[i].time \in 0..MaxTime
                                  /\ held[i].time \in Nat
<1>1. DOMAIN held = 1..Len(held) /\ Len(held) \in Nat
  OBVIOUS
<1>2. \A i \in 1..Len(held) : held[i] \in Record
  OBVIOUS
<1>3. \A r \in Record : r.time \in 0..MaxTime /\ r.time \in Nat
  BY ReleaseSizes DEF Record
<1> QED
  BY <1>1, <1>2, <1>3

(* Records are put behind the others.                                      *)
RunBehind(q, s) ==
  /\ q \o s \in Seq(Record) /\ DOMAIN (q \o s) = 1..(Len(q) + Len(s))
  /\ \A i \in 1..Len(q) : (q \o s)[i] = q[i]
  /\ \A i \in 1..Len(s) : (q \o s)[Len(q) + i] = s[i]

LEMMA JoinedBehind ==
  ASSUME NEW q \in Seq(Record), NEW s \in Seq(Record)
  PROVE  RunBehind(q, s)
<1>1. q \o s \in Seq(Record) /\ Len(q \o s) = Len(q) + Len(s) /\ Len(q) \in Nat /\ Len(s) \in Nat
  OBVIOUS
<1>2. \A i \in 1..Len(s) : /\ Len(q) + i \in 1..(Len(q) + Len(s)) /\ ~ (Len(q) + i <= Len(q))
                           /\ Len(q) + i - Len(q) = i
  BY <1>1
<1>3. \A i \in 1..(Len(q) + Len(s)) :
        (q \o s)[i] = IF i <= Len(q) THEN q[i] ELSE s[i - Len(q)]
  OBVIOUS
<1> QED
  BY <1>1, <1>2, <1>3 DEF RunBehind

(* Of the records about a gate one is the newest, and only one.            *)
LEMMA NewestExists ==
  ASSUME held \in Seq(Record), NEW c, NEW g, About(c, g) # {}
  PROVE  \E i \in About(c, g) : NewestOf(c, g, i)
<1>1. About(c, g) \in SUBSET (0..Len(held)) /\ Len(held) \in Nat /\ About(c, g) \subseteq DOMAIN held
  BY DEF About
<1>2. \A i \in About(c, g) : held[i].time \in 0..MaxTime
  BY <1>1, HeldRecords
<1> DEFINE T == {held[i].time : i \in About(c, g)}
<1>3. T \in SUBSET (0..MaxTime) /\ T # {}
  BY <1>2
<1> HIDE DEF T
<1>4. PICK t \in T : \A u \in T : u <= t
  BY <1>3, ReleaseSizes, GreatestNumber
<1> DEFINE S == {i \in About(c, g) : held[i].time = t}
<1>5. S \in SUBSET (0..Len(held)) /\ S # {}
  BY <1>1, <1>4 DEF T
<1>6. PICK i \in S : \A j \in S : j <= i
  BY <1>1, <1>5, GreatestNumber
<1>7. \A j \in About(c, g) : held[j].time \in T /\ held[j].time \in Nat
  BY <1>2 DEF T
<1>8. \A j \in About(c, g) : held[j].time <= t
  BY <1>4, <1>7
<1>9. t \in Nat
  BY <1>3, <1>4
<1>10. \A j \in About(c, g) : held[j].time < t \/ (held[j].time = t /\ j <= i)
  BY <1>6, <1>7, <1>8, <1>9
<1> QED
  BY <1>6, <1>10 DEF NewestOf

LEMMA LatestIsNewest ==
  ASSUME held \in Seq(Record), NEW c, NEW g, NEW i, NewestOf(c, g, i)
  PROVE  Latest(c, g) = i
<1>1. Latest(c, g) = CHOOSE k \in About(c, g) : NewestOf(c, g, k)
  BY DEF Latest, NewestOf
<1>2. \A k \in About(c, g) : k \in Nat /\ held[k].time \in Nat
  BY HeldRecords DEF About
<1>3. \A k \in About(c, g) : NewestOf(c, g, k) => k = i
  BY <1>2 DEF NewestOf
<1>4. \E k \in About(c, g) : NewestOf(c, g, k)
  BY DEF NewestOf
<1> QED
  BY <1>1, <1>3, <1>4

(* The gates a run reaches are the first ones.                             *)
LEMMA ReachedFirst ==
  ASSUME NEW results \in [DOMAIN GateOrder -> Result]
  PROVE  \E n \in Nat : /\ Reached(results) = 1..n /\ n <= Len(GateOrder)
                        /\ \A i \in 1..n : results[i] \in Status
<1>1. DOMAIN GateOrder = 1..Len(GateOrder) /\ Len(GateOrder) \in Nat
  BY ReleaseSizes
<1> DEFINE B == {j \in DOMAIN GateOrder : results[j] = Malformed}
<1>2. \A i \in DOMAIN GateOrder : results[i] # Malformed => results[i] \in Status
  BY ReleaseSizes DEF RunResult
<1>3. CASE B = {}
  <2>1. Reached(results) = 1..Len(GateOrder)
    BY <1>1, <1>3 DEF Reached
  <2>2. \A i \in 1..Len(GateOrder) : results[i] \in Status
    BY <1>1, <1>2, <1>3
  <2> HIDE DEF B
  <2> DEFINE k == Len(GateOrder)
  <2> HIDE DEF k
  <2>3. k \in Nat /\ Reached(results) = 1..k /\ k <= Len(GateOrder)
        /\ \A i \in 1..k : results[i] \in Status
    BY <1>1, <2>1, <2>2 DEF k
  <2> QED
    BY <2>3
<1>4. CASE B # {}
  <2>1. B \in SUBSET Nat
    BY <1>1
  <2> HIDE DEF B
  <2>2. PICK b \in B : \A j \in B : b <= j
    BY <1>4, <2>1, SmallestNumber
  <2>3. b \in 1..Len(GateOrder) /\ results[b] = Malformed
    BY <1>1, <2>2 DEF B
  <2>4. \A i \in 1..(b - 1) : i \in DOMAIN GateOrder /\ results[i] # Malformed
    BY <1>1, <2>2, <2>3 DEF B
  <2>5. Reached(results) = 1..(b - 1)
    <3>1. \A i \in Reached(results) : i \in 1..(b - 1)
      BY <1>1, <2>3 DEF Reached
    <3>2. \A i \in 1..(b - 1) : i \in Reached(results)
      BY <1>1, <2>3, <2>4 DEF Reached
    <3> QED
      BY <3>1, <3>2
  <2>6. b - 1 \in Nat /\ b - 1 <= Len(GateOrder)
    BY <1>1, <2>3
  <2>7. \A i \in 1..(b - 1) : results[i] \in Status
    BY <1>2, <2>4
  <2> DEFINE k == b - 1
  <2> HIDE DEF k
  <2>8. k \in Nat /\ Reached(results) = 1..k /\ k <= Len(GateOrder)
        /\ \A i \in 1..k : results[i] \in Status
    BY <2>5, <2>6, <2>7 DEF k
  <2> QED
    BY <2>8
<1> QED
  BY <1>3, <1>4

(* What a run says of the gates it reached.                                *)
LEMMA SaidOfReached ==
  ASSUME NEW results \in [DOMAIN GateOrder -> Result], NEW c \in Configuration,
         NEW w \in Words
  PROVE  /\ Said(w, c, results) \in Words
         /\ \A d \in Configuration \ {c}, g \in Gate : Said(w, c, results)[d][g] = w[d][g]
         /\ \A g \in Gate :
              \/ \E i \in Reached(results) : GateOrder[i] = g /\ Said(w, c, results)[c][g] = results[i]
              \/ /\ \A i \in Reached(results) : GateOrder[i] # g
                 /\ Said(w, c, results)[c][g] = w[c][g]
<1> DEFINE Word(g) == IF \E i \in Reached(results) : GateOrder[i] = g
                      THEN results[CHOOSE i \in Reached(results) : GateOrder[i] = g] ELSE w[c][g]
           f == [g \in Gate |-> Word(g)]
<1>1. Said(w, c, results) = [w EXCEPT ![c] = f]
  BY DEF Said, Words
<1>2. \A g \in Gate : \/ \E i \in Reached(results) : GateOrder[i] = g /\ Word(g) = results[i]
                      \/ (\A i \in Reached(results) : GateOrder[i] # g) /\ Word(g) = w[c][g]
  OBVIOUS
<1>3. \A i \in Reached(results) : results[i] \in Status
  BY ReachedFirst
<1>4. \A g \in Gate : Word(g) \in Status \cup {Unknown}
  BY <1>2, <1>3 DEF Words
<1> HIDE DEF Word
<1>5. f \in [Gate -> Status \cup {Unknown}] /\ \A g \in Gate : f[g] = Word(g)
  BY <1>4
<1> HIDE DEF f
<1> QED
  BY <1>1, <1>2, <1>5 DEF Words

LEMMA RunGatesKeeps ==
  ASSUME ReleaseInv, NEW c \in Configuration, NEW results \in [DOMAIN GateOrder -> Result],
         Run(c, results)
  PROVE  ReleaseInv'
<1>1. PICK n \in Nat : /\ Reached(results) = 1..n /\ n <= Len(GateOrder)
                       /\ \A i \in 1..n : results[i] \in Status
  BY ReachedFirst
<1>2. PICK m \in Nat : m = Len(held)
  BY DEF ReleaseInv, ReleaseTypeOK
<1> DEFINE s == Records(c, results)
<1>3. /\ m \in Nat /\ now \in 0..MaxTime /\ now' \in 0..MaxTime /\ now <= now' /\ held \in Seq(Record)
      /\ DOMAIN GateOrder = 1..Len(GateOrder) /\ Len(GateOrder) \in Nat
  BY ReleaseSizes DEF ReleaseInv, ReleaseTypeOK, Run, Tick
<1>4. \A i \in 1..n : GateOrder[i] \in Gate
  BY <1>1, <1>3, ReleaseSizes
<1>5. s \in Seq(Record) /\ Len(s) = n
      /\ \A i \in 1..n : s[i] = [config |-> c, gate |-> GateOrder[i], status |-> results[i],
                                 time |-> now]
  <2> DEFINE rec(i) == [config |-> c, gate |-> GateOrder[i], status |-> results[i], time |-> now]
  <2>1. \A i \in 1..n : rec(i) \in Record
    BY <1>1, <1>3, <1>4 DEF Record
  <2>2. s = [i \in 1..n |-> rec(i)]
    BY <1>1 DEF Records
  <2> HIDE DEF rec, s
  <2>3. s \in [1..n -> Record] /\ \A i \in 1..n : s[i] = rec(i)
    BY <2>1, <2>2
  <2> QED
    BY <2>3 DEF rec
<1>6. held' = held \o s /\ word' = Said(word, c, results) /\ verdict' = NoVerdict
      /\ UNCHANGED <<serving, files>> /\ told' \in {told, Said(told, c, results)}
  BY DEF Run, Recorded
<1> HIDE DEF s
<1>7. /\ held' \in Seq(Record) /\ DOMAIN held' = 1..(m + n)
      /\ \A i \in 1..m : held'[i] = held[i]
      /\ \A i \in 1..n : held'[m + i] = s[i]
  <2>1. RunBehind(held, s)
    BY <1>3, <1>5, JoinedBehind
  <2>2. Len(held) = m /\ Len(s) = n
    BY <1>2, <1>5
  <2> QED
    BY <1>6, <2>1, <2>2 DEF RunBehind
<1>8. ReleaseTypeOK'
  <2>1. runs' \in 0..MaxRuns /\ releaseFaults' \in 0..MaxReleaseFaults
    BY ReleaseSizes DEF Run, ReleaseFault, ReleaseInv, ReleaseTypeOK
  <2>2. word' \in Words /\ told' \in Words
    BY <1>6, SaidOfReached DEF ReleaseInv, ReleaseTypeOK
  <2>3. NoVerdict \in [config : Configuration \cup {Unknown}, status : {"ready", "blocked", Unknown}]
    BY DEF NoVerdict
  <2>4. serving' \in BOOLEAN
    BY <1>6 DEF ReleaseInv, ReleaseTypeOK
  <2> QED
    BY <1>3, <1>6, <1>7, <2>1, <2>2, <2>3, <2>4 DEF ReleaseInv, ReleaseTypeOK
<1>9. \A i \in 1..n : /\ held'[m + i].config = c /\ held'[m + i].gate = GateOrder[i]
                       /\ held'[m + i].status = results[i] /\ held'[m + i].time = now
  <2>1. ASSUME NEW i \in 1..n PROVE held'[m + i] = s[i]
    BY <1>7
  <2> QED
    BY <1>5, <2>1
<1>10. DOMAIN held = 1..m
  BY <1>2, <1>3
<1>11. \A i \in DOMAIN held' : (i \in DOMAIN held /\ i <= m) \/ \E k \in 1..n : i = m + k
  <2>1. ASSUME NEW i \in 1..(m + n), ~ (i <= m) PROVE \E k \in 1..n : i = m + k
    <3>1. i - m \in 1..n /\ i = m + (i - m)
      BY <1>3, <2>1
    <3> QED
      BY <3>1
  <2>2. ASSUME NEW i \in 1..(m + n), i <= m PROVE i \in DOMAIN held
    BY <1>10, <2>2
  <2> QED
    BY <1>7, <2>1, <2>2
<1>12. TimesPast'
  <2>1. \A r \in files' : r.time <= now'
    <3>1. \A r \in files : r.time \in Nat /\ r.time <= now
      BY ReleaseSizes DEF ReleaseInv, ReleaseTypeOK, TimesPast, Record
    <3> QED
      BY <1>3, <1>6, <3>1
  <2>2. \A i \in DOMAIN held : held[i].time \in Nat /\ held[i].time <= now
    BY <1>3, HeldRecords DEF ReleaseInv, TimesPast
  <2>3. \A i \in DOMAIN held' : held'[i].time <= now'
    <3>1. ASSUME NEW i \in DOMAIN held, i <= m PROVE held'[i].time <= now'
      BY <1>3, <1>7, <1>10, <2>2, <3>1
    <3>2. \A k \in 1..n : held'[m + k].time <= now'
      BY <1>3, <1>9
    <3> QED
      BY <1>11, <3>1, <3>2
  <2> QED
    BY <2>1, <2>3 DEF TimesPast
<1>13. WordsHeld'
  <2>1. \A i \in DOMAIN held : held[i].time \in Nat /\ held[i].time <= now
    BY <1>3, HeldRecords DEF ReleaseInv, TimesPast
  <2>2. ASSUME NEW d \in Configuration, NEW g \in Gate, word'[d][g] # Unknown
        PROVE  \E i \in About(d, g)' : NewestOf(d, g, i)' /\ held'[i].status = word'[d][g]
    <3>1. CASE d = c /\ \E k \in Reached(results) : GateOrder[k] = g /\ word'[c][g] = results[k]
      <4>1. PICK k \in 1..n : GateOrder[k] = g /\ word'[d][g] = results[k]
        BY <1>1, <3>1
      <4>2. /\ m + k \in DOMAIN held' /\ held'[m + k].config = d /\ held'[m + k].gate = g
            /\ held'[m + k].status = results[k] /\ held'[m + k].time = now
        BY <1>3, <1>9, <1>7, <3>1, <4>1
      <4>3. \A j \in DOMAIN held' : held'[j].gate = g =>
              held'[j].time < now \/ (held'[j].time = now /\ j <= m + k)
        <5>1. ASSUME NEW j \in DOMAIN held', held'[j].gate = g
              PROVE  held'[j].time < now \/ (held'[j].time = now /\ j <= m + k)
          <6>1. CASE j \in DOMAIN held /\ j <= m
            BY <6>1, <1>3, <1>7, <1>10, <2>1
          <6>2. ASSUME NEW h \in 1..n, j = m + h PROVE held'[j].time = now /\ h = k
            <7>1. held'[j].time = now /\ GateOrder[h] = g
              BY <1>9, <5>1, <6>2
            <7>2. h \in DOMAIN GateOrder /\ k \in DOMAIN GateOrder
              BY <1>1, <1>3
            <7> QED
              BY <7>1, <7>2, <4>1, ReleaseSizes
          <6> QED
            BY <6>1, <6>2, <1>11, <1>3
        <5> QED
          BY <5>1
      <4>4. m + k \in About(d, g)'
        BY <4>2 DEF About
      <4>5. NewestOf(d, g, m + k)'
        BY <4>2, <4>3, <4>4 DEF NewestOf, About
      <4> QED
        BY <4>1, <4>2, <4>4, <4>5
    <3>2. CASE ~ (d = c /\ \E k \in Reached(results) : GateOrder[k] = g /\ word'[c][g] = results[k])
      <4>1. word'[d][g] = word[d][g] /\ (d # c \/ \A k \in 1..n : GateOrder[k] # g)
        <5>1. word \in Words
          BY DEF ReleaseInv, ReleaseTypeOK
        <5>2. CASE d # c
          BY <1>6, <5>1, <5>2, SaidOfReached
        <5>3. CASE d = c
          <6>1. \/ \E i \in Reached(results) : GateOrder[i] = g /\ word'[c][g] = results[i]
                \/ (\A i \in Reached(results) : GateOrder[i] # g) /\ word'[c][g] = word[c][g]
            BY <1>6, <5>1, SaidOfReached
          <6> QED
            BY <1>1, <3>2, <5>3, <6>1
        <5> QED
          BY <5>2, <5>3
      <4>2. \A i \in DOMAIN held' : held'[i].config = d /\ held'[i].gate = g => i \in DOMAIN held
        BY <1>9, <1>11, <4>1
      <4>3. About(d, g)' = About(d, g)
        <5>1. \A i \in DOMAIN held : i \in DOMAIN held' /\ held'[i] = held[i]
          BY <1>3, <1>7, <1>10
        <5> QED
          BY <4>2, <5>1 DEF About
      <4>4. \A i \in About(d, g) : held'[i] = held[i]
        BY <1>3, <1>7, <1>10 DEF About
      <4>5. PICK i \in About(d, g) : NewestOf(d, g, i) /\ held[i].status = word[d][g]
        BY <2>2, <4>1 DEF ReleaseInv, WordsHeld
      <4>6. NewestOf(d, g, i)'
        BY <4>3, <4>4, <4>5 DEF NewestOf
      <4> QED
        BY <4>1, <4>3, <4>4, <4>5, <4>6
    <3> QED
      BY <3>1, <3>2
  <2> QED
    BY <2>2 DEF WordsHeld
<1>14. VerdictsSound'
  BY <1>6 DEF VerdictsSound, LastRunDecides, ReadyHasEvidence, NoVerdict, Unknown
<1>15. IsFiniteSet(files')
  BY <1>6 DEF ReleaseInv
<1> QED
  BY <1>8, <1>12, <1>13, <1>14, <1>15 DEF ReleaseInv

LEMMA FileKeeps ==
  ASSUME ReleaseInv, NEW c \in Configuration, NEW g \in Gate, NEW st \in Status, File(c, g, st)
  PROVE  ReleaseInv'
<1> DEFINE r == [config |-> c, gate |-> g, status |-> st, time |-> now]
<1>1. /\ files' = files \cup {r} /\ verdict' = NoVerdict
      /\ UNCHANGED <<serving, held, word, runs, releaseFaults>>
      /\ now \in 0..MaxTime /\ now' \in 0..MaxTime /\ now <= now' /\ now \in Nat /\ now' \in Nat
  BY ReleaseSizes DEF ReleaseInv, ReleaseTypeOK, File, Tick
<1>2. r \in Record /\ r.time = now
  BY <1>1 DEF Record
<1> HIDE DEF r
<1>3. told' \in Words
  <2> DEFINE f == [told[c] EXCEPT ![g] = Unknown]
  <2>1. told \in Words /\ f \in [Gate -> Status \cup {Unknown}]
    BY DEF ReleaseInv, ReleaseTypeOK, Words
  <2>2. told' = [told EXCEPT ![c] = f]
    BY DEF File
  <2> QED
    BY <2>1, <2>2 DEF Words
<1>4. ReleaseTypeOK'
  <2>1. NoVerdict \in [config : Configuration \cup {Unknown}, status : {"ready", "blocked", Unknown}]
    BY DEF NoVerdict
  <2>2. serving' \in BOOLEAN
    BY <1>1 DEF ReleaseInv, ReleaseTypeOK
  <2> QED
    BY <1>1, <1>2, <1>3, <2>1, <2>2 DEF ReleaseInv, ReleaseTypeOK
<1>5. TimesPast'
  <2>1. \A q \in files : q.time \in Nat /\ q.time <= now
    BY ReleaseSizes DEF ReleaseInv, ReleaseTypeOK, TimesPast, Record
  <2>2. \A i \in DOMAIN held : held[i].time \in Nat /\ held[i].time <= now
    BY HeldRecords DEF ReleaseInv, ReleaseTypeOK, TimesPast
  <2> QED
    BY <1>1, <1>2, <2>1, <2>2 DEF TimesPast
<1>6. WordsHeld'
  BY <1>1 DEF ReleaseInv, WordsHeld, NewestOf, About
<1>7. VerdictsSound'
  BY <1>1 DEF VerdictsSound, LastRunDecides, ReadyHasEvidence, NoVerdict, Unknown
<1>8. IsFiniteSet(files')
  BY <1>1, FS_AddElement, Zenon DEF ReleaseInv
<1> QED
  BY <1>4, <1>5, <1>6, <1>7, <1>8 DEF ReleaseInv

LEMMA OpenKeeps == ASSUME ReleaseInv, OpenEvidence PROVE ReleaseInv'
<1>1. /\ serving' = TRUE /\ word' = Silence /\ verdict' = NoVerdict /\ held' \in SetToSeqs(files)
      /\ UNCHANGED <<now, files, told, runs, releaseFaults>>
  BY DEF OpenEvidence
<1>2. Cardinality(files) \in Nat
  BY FS_CardinalityType, Zenon DEF ReleaseInv
<1>3. held' \in [1..Cardinality(files) -> files]
  BY <1>1 DEF SetToSeqs
<1>4. held' \in Seq(files)
  BY <1>2, <1>3
<1>5. held' \in Seq(Record) /\ \A i \in DOMAIN held' : held'[i] \in files
  BY <1>3, <1>4 DEF ReleaseInv, ReleaseTypeOK
<1>6. Silence \in Words /\ \A c \in Configuration, g \in Gate : Silence[c][g] = Unknown
  BY DEF Silence, Words
<1>7. NoVerdict \in [config : Configuration \cup {Unknown}, status : {"ready", "blocked", Unknown}]
  BY DEF NoVerdict
<1>8. ReleaseTypeOK'
  <2>1. serving' \in BOOLEAN
    BY <1>1
  <2> QED
    BY <1>1, <1>5, <1>6, <1>7, <2>1 DEF ReleaseInv, ReleaseTypeOK
<1>9. TimesPast' /\ WordsHeld'
  BY <1>1, <1>5, <1>6 DEF ReleaseInv, TimesPast, WordsHeld
<1>10. VerdictsSound'
  BY <1>1 DEF VerdictsSound, LastRunDecides, ReadyHasEvidence, NoVerdict, Unknown
<1> QED
  BY <1>1, <1>8, <1>9, <1>10 DEF ReleaseInv

LEMMA EvaluateKeeps ==
  ASSUME ReleaseInv, NEW c \in Configuration, Evaluate(c) PROVE ReleaseInv'
<1> DEFINE status == IF c \in Committed /\ \A g \in Required : Satisfied(c, g)
                     THEN "ready" ELSE "blocked"
<1>1. /\ verdict' = [config |-> c, status |-> status]
      /\ UNCHANGED <<serving, now, files, held, word, told, runs, releaseFaults>>
      /\ held \in Seq(Record)
  BY DEF Evaluate, ReleaseInv, ReleaseTypeOK
<1>2. status \in {"ready", "blocked"} /\ verdict'.config = c /\ verdict'.status = status
  BY <1>1
<1>3. /\ status = "ready" => c \in Committed /\ \A g \in Required : Satisfied(c, g)
      /\ status = "blocked" /\ c \in Committed => \E g \in Required : ~Satisfied(c, g)
  OBVIOUS
<1> HIDE DEF status
<1>4. ASSUME NEW g \in Required, About(c, g) # {}
      PROVE  /\ Latest(c, g) \in About(c, g)
             /\ word[c][g] # Unknown => held[Latest(c, g)].status = word[c][g]
  <2>1. PICK i \in About(c, g) : NewestOf(c, g, i)
    BY <1>1, <1>4, NewestExists
  <2>2. Latest(c, g) = i
    BY <1>1, <2>1, LatestIsNewest
  <2>3. ASSUME word[c][g] # Unknown PROVE held[i].status = word[c][g]
    <3>1. PICK k \in About(c, g) : NewestOf(c, g, k) /\ held[k].status = word[c][g]
      BY <2>3, ReleaseSizes DEF ReleaseInv, WordsHeld
    <3>2. Latest(c, g) = k
      BY <1>1, <3>1, LatestIsNewest
    <3> QED
      BY <2>2, <3>1, <3>2
  <2> QED
    BY <2>1, <2>2, <2>3
<1>5. \A g \in Required : word[c][g] # Unknown => About(c, g) # {}
  BY ReleaseSizes DEF ReleaseInv, WordsHeld
<1>6. LastRunDecides'
  <2>1. status = "ready" =>
          \A g \in {h \in Required : word[c][h] # Unknown} : word[c][g] = "pass"
    BY <1>3, <1>4 DEF Satisfied
  <2>2. (status = "blocked" /\ c \in Committed) =>
          ({g \in Required : word[c][g] # Unknown} = Required =>
             \E g \in Required : word[c][g] # "pass")
    <3> SUFFICES ASSUME status = "blocked", c \in Committed,
                        \A g \in Required : word[c][g] # Unknown
                 PROVE  \E g \in Required : word[c][g] # "pass"
      OBVIOUS
    <3>1. PICK g \in Required : ~Satisfied(c, g)
      BY <1>3
    <3> QED
      BY <1>4, <1>5, <3>1 DEF Satisfied
  <2> QED
    BY <1>1, <1>2, <2>1, <2>2 DEF LastRunDecides
<1>7. ReadyHasEvidence'
  <2>1. ASSUME status = "ready", NEW g \in Required
        PROVE  \E i \in DOMAIN held : held[i].config = c /\ held[i].gate = g /\ held[i].status = "pass"
    <3>1. About(c, g) # {} /\ held[Latest(c, g)].status = "pass"
      BY <1>3, <2>1 DEF Satisfied
    <3>2. Latest(c, g) \in About(c, g)
      BY <1>4, <3>1
    <3> QED
      BY <3>1, <3>2 DEF About
  <2> QED
    BY <1>1, <1>2, <1>3, <2>1 DEF ReadyHasEvidence
<1>8. ReleaseTypeOK'
  <2>1. verdict' \in [config : Configuration \cup {Unknown}, status : {"ready", "blocked", Unknown}]
    BY <1>1, <1>2
  <2>2. serving' \in BOOLEAN
    BY <1>1 DEF ReleaseInv, ReleaseTypeOK
  <2> QED
    BY <1>1, <2>1, <2>2 DEF ReleaseInv, ReleaseTypeOK
<1>9. TimesPast' /\ WordsHeld' /\ IsFiniteSet(files')
  BY <1>1 DEF ReleaseInv, TimesPast, WordsHeld, NewestOf, About
<1> QED
  BY <1>6, <1>7, <1>8, <1>9 DEF ReleaseInv, VerdictsSound

LEMMA DaemonDiesKeeps == ASSUME ReleaseInv, DaemonDies PROVE ReleaseInv'
<1>1. /\ serving' = FALSE /\ held' = <<>> /\ word' = Silence /\ verdict' = NoVerdict
      /\ UNCHANGED <<now, files, told, runs>> /\ releaseFaults' \in 0..MaxReleaseFaults
  BY ReleaseSizes DEF DaemonDies, ReleaseFault, ReleaseInv, ReleaseTypeOK
<1>2. Silence \in Words /\ \A c \in Configuration, g \in Gate : Silence[c][g] = Unknown
  BY DEF Silence, Words
<1>3. NoVerdict \in [config : Configuration \cup {Unknown}, status : {"ready", "blocked", Unknown}]
  BY DEF NoVerdict
<1>4. <<>> \in Seq(Record) /\ DOMAIN <<>> = {}
  OBVIOUS
<1>5. ReleaseTypeOK'
  <2>1. serving' \in BOOLEAN
    BY <1>1
  <2> QED
    BY <1>1, <1>2, <1>3, <1>4, <2>1 DEF ReleaseInv, ReleaseTypeOK
<1>6. TimesPast' /\ WordsHeld'
  BY <1>1, <1>2, <1>4 DEF ReleaseInv, TimesPast, WordsHeld
<1>7. VerdictsSound'
  BY <1>1 DEF VerdictsSound, LastRunDecides, ReadyHasEvidence, NoVerdict, Unknown
<1> QED
  BY <1>1, <1>5, <1>6, <1>7 DEF ReleaseInv

LEMMA ReleaseStarts == ReleaseInit => ReleaseInv
<1> SUFFICES ASSUME ReleaseInit PROVE ReleaseInv
  OBVIOUS
<1>1. Silence \in Words /\ \A c \in Configuration, g \in Gate : Silence[c][g] = Unknown
  BY DEF Silence, Words
<1>2. NoVerdict \in [config : Configuration \cup {Unknown}, status : {"ready", "blocked", Unknown}]
  BY DEF NoVerdict
<1>3. <<>> \in Seq(Record) /\ DOMAIN <<>> = {}
  OBVIOUS
<1>4. serving \in BOOLEAN /\ now \in 0..MaxTime
  <2>1. serving = FALSE /\ now = 0
    BY DEF ReleaseInit
  <2>2. 0 \in 0..MaxTime
    BY ReleaseSizes
  <2> QED
    BY <2>1, <2>2
<1>5. ReleaseTypeOK
  BY <1>1, <1>2, <1>3, <1>4, ReleaseSizes DEF ReleaseInit, ReleaseTypeOK
<1>6. TimesPast /\ WordsHeld
  BY <1>1, <1>3 DEF ReleaseInit, TimesPast, WordsHeld
<1>7. VerdictsSound
  BY DEF ReleaseInit, VerdictsSound, LastRunDecides, ReadyHasEvidence, NoVerdict, Unknown
<1>8. IsFiniteSet(files)
  BY FS_EmptySet DEF ReleaseInit
<1> QED
  BY <1>5, <1>6, <1>7, <1>8 DEF ReleaseInv

LEMMA ReleaseStep == ReleaseInv /\ [ReleaseNext]_releaseVars => ReleaseInv'
<1> SUFFICES ASSUME ReleaseInv, [ReleaseNext]_releaseVars PROVE ReleaseInv'
  OBVIOUS
<1>1. CASE UNCHANGED releaseVars
  <2>1. ReleaseTypeOK'
    <3>1. serving' \in BOOLEAN
      BY <1>1 DEF releaseVars, ReleaseInv, ReleaseTypeOK
    <3> QED
      BY <1>1, <3>1 DEF releaseVars, ReleaseInv, ReleaseTypeOK
  <2> QED
    BY <1>1, <2>1
       DEF releaseVars, ReleaseInv, TimesPast, WordsHeld, NewestOf, About, VerdictsSound,
           LastRunDecides, ReadyHasEvidence
<1> QED
  BY <1>1, FileKeeps, OpenKeeps, RunGatesKeeps, EvaluateKeeps, DaemonDiesKeeps DEF ReleaseNext

(* VerdictsSound: a configuration is ready only on evidence of each gate,  *)
(* and the last run that reached a gate decides it.                        *)
THEOREM VerdictsAreSound == ReleaseSpec => [](ReleaseTypeOK /\ VerdictsSound)
<1>1. ReleaseInv => ReleaseTypeOK /\ VerdictsSound
  BY DEF ReleaseInv
<1> QED
  BY <1>1, ReleaseStarts, ReleaseStep, PTL DEF ReleaseSpec

-----------------------------------------------------------------------------
(* The mouse.  The copper behind the original board is one line on every   *)
(* copy, and what is shown is the way from the original to the preview.    *)

(* The place and the layer that the copper of a route, which begins behind *)
(* the first n of a board, has reached at i.                               *)
LastOf(I, j) == j \in I /\ \A k \in I : k <= j
TracesTo(b, n, i) == {j \in (n + 1)..i : IsTrace(b[j])}
ViasTo(b, n, i) == {j \in (n + 1)..i : IsVia(b[j])}
EndAt(s, b, n, i, p) ==
  \/ TracesTo(b, n, i) = {} /\ p = s.at
  \/ \E j \in TracesTo(b, n, i) : LastOf(TracesTo(b, n, i), j) /\ p = b[j].to
LayerAt(s, b, n, i, l) ==
  \/ ViasTo(b, n, i) = {} /\ l = s.layer
  \/ \E j \in ViasTo(b, n, i) : LastOf(ViasTo(b, n, i), j) /\ l = b[j].layer
InLine(s, b, n) ==
  \A i \in (n + 1)..Len(b) : IsTrace(b[i]) =>
    EndAt(s, b, n, i - 1, b[i].from) /\ LayerAt(s, b, n, i - 1, b[i].layer)
RouteAt(s, b, n, p, l) ==
  InLine(s, b, n) /\ EndAt(s, b, n, Len(b), p) /\ LayerAt(s, b, n, Len(b), l)

SameLayers(a, b) == Len(a) <= Len(b) /\ \A i \in 1..Len(a) : b[i].layer = a[i].layer

Session ==
  /\ routing /\ session # "none" => session = "active"
  /\ session # "none" => Len(original) <= Len(previewBoard)
     /\ InLine(start, previewBoard, Len(original))
  /\ session = "active" =>
       /\ original = board
       /\ SameLayers(original, stagedBoard) /\ RouteAt(start, stagedBoard, Len(original), anchor,
                                                       layer)
       /\ SameLayers(original, previewBoard)
       /\ hasPreview => RouteAt(start, previewBoard, Len(original), cursor, layer)
       /\ shown.accepted => shown = Changes(original, previewBoard)

RouteInv == RouteTypeOK /\ Session /\ (kept => project = board)

LEMMA BoardLength ==
  ASSUME NEW b \in Seq(Copper)
  PROVE  Len(b) \in Nat /\ DOMAIN b = 1..Len(b) /\ \A i \in 1..Len(b) : b[i] \in Copper
OBVIOUS

LEMMA LastIsMax ==
  ASSUME NEW I \in SUBSET Nat, NEW j, LastOf(I, j)
  PROVE  Max(I) = j
<1>1. j \in I /\ \A k \in I : j >= k
  BY DEF LastOf
<1>2. \A x \in I : (\A y \in I : x >= y) => x = j
  BY <1>1
<1> QED
  BY <1>1, <1>2 DEF Max

LEMMA RestOf ==
  ASSUME NEW b \in Seq(Copper), NEW n \in Nat, n <= Len(b)
  PROVE  LET r == SubSeq(b, n + 1, Len(b)) IN
         /\ r \in Seq(Copper) /\ Len(r) = Len(b) - n /\ Len(b) \in Nat
         /\ DOMAIN r = 1..(Len(b) - n) /\ \A i \in 1..(Len(b) - n) : r[i] = b[n + i]
OBVIOUS

LEMMA JoinedInLine ==
  ASSUME NEW b \in Seq(Copper), NEW n \in Nat, n <= Len(b), InLine(start, b, n)
  PROVE  Joined(SubSeq(b, n + 1, Len(b)))
<1> DEFINE r == SubSeq(b, n + 1, Len(b))
<1>1. /\ r \in Seq(Copper) /\ Len(r) = Len(b) - n /\ Len(b) \in Nat
      /\ DOMAIN r = 1..(Len(b) - n) /\ \A i \in 1..(Len(b) - n) : r[i] = b[n + i]
  BY RestOf
<1> HIDE DEF r
<1>2. ASSUME NEW i \in 1..(Len(b) - n), IsTrace(r[i])
      PROVE  r[i].from = EndOf(r, i - 1) /\ r[i].layer = LayerOf(r, i - 1)
  <2> DEFINE I == {j \in 1..(i - 1) : IsTrace(r[j])}
             V == {j \in 1..(i - 1) : IsVia(r[j])}
  <2>1. /\ n + i \in (n + 1)..Len(b) /\ r[i] = b[n + i] /\ IsTrace(b[n + i])
        /\ EndAt(start, b, n, n + i - 1, b[n + i].from)
           /\ LayerAt(start, b, n, n + i - 1, b[n + i].layer)
    BY <1>1, <1>2 DEF InLine
  <2>2. \A j \in (n + 1)..(n + i - 1) : j - n \in 1..(i - 1) /\ r[j - n] = b[j]
    BY <1>1
  <2>3. \A j \in 1..(i - 1) : n + j \in (n + 1)..(n + i - 1) /\ r[j] = b[n + j]
    BY <1>1
  <2>4. r[i].from = EndOf(r, i - 1)
    <3>1. EndOf(r, i - 1) = IF (IF I # {} THEN Max(I) ELSE 0) = 0 THEN start.at
                            ELSE r[IF I # {} THEN Max(I) ELSE 0].to
      BY DEF EndOf, SelectLastInSubSeq
    <3>2. CASE TracesTo(b, n, n + i - 1) = {} /\ b[n + i].from = start.at
      <4>1. I = {}
        BY <2>3, <3>2 DEF TracesTo
      <4> QED
        BY <2>1, <3>1, <3>2, <4>1
    <3>3. ASSUME NEW j \in TracesTo(b, n, n + i - 1), LastOf(TracesTo(b, n, n + i - 1), j),
                 b[n + i].from = b[j].to
          PROVE  r[i].from = EndOf(r, i - 1)
      <4>1. j \in (n + 1)..(n + i - 1) /\ j - n \in I
        BY <2>2 DEF TracesTo
      <4>2. \A k \in I : n + k <= j
        BY <2>3, <3>3 DEF TracesTo, LastOf
      <4>3. LastOf(I, j - n)
        BY <4>1, <4>2 DEF LastOf
      <4>4. Max(I) = j - n
        BY <4>3, LastIsMax
      <4>5. j - n # 0 /\ r[j - n] = b[j] /\ I # {}
        <5>1. j - n \in 1..(i - 1) /\ r[j - n] = b[j]
          BY <2>2, <4>1
        <5> HIDE DEF I
        <5> QED
          BY <4>1, <5>1
      <4> HIDE DEF I
      <4> QED
        BY <2>1, <3>1, <3>3, <4>4, <4>5
    <3> QED
      BY <2>1, <3>2, <3>3 DEF EndAt
  <2>5. r[i].layer = LayerOf(r, i - 1)
    <3>1. LayerOf(r, i - 1) = IF (IF V # {} THEN Max(V) ELSE 0) = 0 THEN start.layer
                              ELSE r[IF V # {} THEN Max(V) ELSE 0].layer
      BY DEF LayerOf, SelectLastInSubSeq
    <3>2. CASE ViasTo(b, n, n + i - 1) = {} /\ b[n + i].layer = start.layer
      <4>1. V = {}
        BY <2>3, <3>2 DEF ViasTo
      <4> QED
        BY <2>1, <3>1, <3>2, <4>1
    <3>3. ASSUME NEW j \in ViasTo(b, n, n + i - 1), LastOf(ViasTo(b, n, n + i - 1), j),
                 b[n + i].layer = b[j].layer
          PROVE  r[i].layer = LayerOf(r, i - 1)
      <4>1. j \in (n + 1)..(n + i - 1) /\ j - n \in V
        BY <2>2 DEF ViasTo
      <4>2. \A k \in V : n + k <= j
        BY <2>3, <3>3 DEF ViasTo, LastOf
      <4>3. LastOf(V, j - n)
        BY <4>1, <4>2 DEF LastOf
      <4>4. Max(V) = j - n
        BY <4>3, LastIsMax
      <4>5. j - n # 0 /\ r[j - n] = b[j] /\ V # {}
        <5>1. j - n \in 1..(i - 1) /\ r[j - n] = b[j]
          BY <2>2, <4>1
        <5> HIDE DEF V
        <5> QED
          BY <4>1, <5>1
      <4> HIDE DEF V
      <4> QED
        BY <2>1, <3>1, <3>3, <4>4, <4>5
    <3> QED
      BY <2>1, <3>2, <3>3 DEF LayerAt
  <2> QED
    BY <2>4, <2>5
<1> QED
  BY <1>1, <1>2 DEF Joined, r

(* Copper that only moved aside.                                           *)
Alike(a, b) ==
  Len(a) = Len(b) /\ \A i \in 1..Len(a) : /\ a[i].kind = b[i].kind /\ a[i].from = b[i].from
                                          /\ a[i].to = b[i].to /\ a[i].layer = b[i].layer

LEMMA AlikeReached ==
  ASSUME NEW s, NEW a \in Seq(Copper), NEW b \in Seq(Copper), Alike(a, b), NEW n \in Nat,
         NEW p, NEW l, RouteAt(s, a, n, p, l)
  PROVE  RouteAt(s, b, n, p, l)
<1>1. Len(a) = Len(b) /\ Len(a) \in Nat
  BY DEF Alike
<1>2. ASSUME NEW i \in 0..Len(a)
      PROVE  /\ TracesTo(a, n, i) = TracesTo(b, n, i) /\ ViasTo(a, n, i) = ViasTo(b, n, i)
             /\ \A j \in (n + 1)..i : a[j].to = b[j].to /\ a[j].layer = b[j].layer
  <2>1. \A j \in (n + 1)..i : j \in 1..Len(a)
    BY <1>1
  <2> QED
    BY <2>1 DEF Alike, TracesTo, ViasTo, IsTrace, IsVia
<1>3. ASSUME NEW i \in 0..Len(a), NEW q
      PROVE  /\ EndAt(s, a, n, i, q) => EndAt(s, b, n, i, q)
             /\ LayerAt(s, a, n, i, q) => LayerAt(s, b, n, i, q)
  <2>1. TracesTo(a, n, i) \subseteq (n + 1)..i /\ ViasTo(a, n, i) \subseteq (n + 1)..i
    BY DEF TracesTo, ViasTo
  <2> QED
    BY <1>2, <2>1 DEF EndAt, LayerAt
<1>4. InLine(s, b, n)
  <2>1. ASSUME NEW i \in (n + 1)..Len(b), IsTrace(b[i])
        PROVE  EndAt(s, b, n, i - 1, b[i].from) /\ LayerAt(s, b, n, i - 1, b[i].layer)
    <3>1. i \in 1..Len(a) /\ i \in (n + 1)..Len(a) /\ i - 1 \in 0..Len(a)
      BY <1>1
    <3>2. IsTrace(a[i]) /\ a[i].from = b[i].from /\ a[i].layer = b[i].layer
      BY <2>1, <3>1 DEF Alike, IsTrace
    <3>3. EndAt(s, a, n, i - 1, b[i].from) /\ LayerAt(s, a, n, i - 1, b[i].layer)
      BY <3>1, <3>2 DEF RouteAt, InLine
    <3> QED
      BY <1>3, <3>1, <3>3
  <2> QED
    BY <2>1 DEF InLine
<1> QED
  BY <1>1, <1>3, <1>4 DEF RouteAt

(* A leg is added, or a via.                                               *)
LEMMA LegReaches ==
  ASSUME NEW s, NEW a \in Seq(Copper), NEW n \in Nat, n <= Len(a), NEW p, NEW l,
         RouteAt(s, a, n, p, l), NEW e \in Copper, NEW q,
         \/ IsTrace(e) /\ e.from = p /\ e.to = q /\ e.layer = l
         \/ IsVia(e) /\ q = p
  PROVE  RouteAt(s, Append(a, e), n, q, e.layer)
<1> DEFINE b == Append(a, e)
           m == Len(a) + 1
<1>1. /\ Len(a) \in Nat /\ Len(b) = m /\ m \in Nat /\ b[m] = e
      /\ \A i \in 1..Len(a) : b[i] = a[i]
  OBVIOUS
<1> HIDE DEF b
<1>2. IsTrace(e) \/ IsVia(e)
  OBVIOUS
<1>3. ~ (IsTrace(e) /\ IsVia(e))
  BY DEF IsTrace, IsVia
<1>4. ASSUME NEW i \in 0..Len(a)
      PROVE  /\ TracesTo(b, n, i) = TracesTo(a, n, i) /\ ViasTo(b, n, i) = ViasTo(a, n, i)
             /\ \A j \in (n + 1)..i : b[j] = a[j]
  <2>1. \A j \in (n + 1)..i : j \in 1..Len(a)
    BY <1>1
  <2> QED
    BY <1>1, <2>1 DEF TracesTo, ViasTo
<1>5. ASSUME NEW i \in 0..Len(a), NEW x
      PROVE  /\ EndAt(s, a, n, i, x) => EndAt(s, b, n, i, x)
             /\ LayerAt(s, a, n, i, x) => LayerAt(s, b, n, i, x)
  <2>1. TracesTo(a, n, i) \subseteq (n + 1)..i /\ ViasTo(a, n, i) \subseteq (n + 1)..i
    BY DEF TracesTo, ViasTo
  <2> QED
    BY <1>4, <2>1 DEF EndAt, LayerAt
<1>6. InLine(s, b, n)
  <2>1. ASSUME NEW i \in (n + 1)..m, IsTrace(b[i])
        PROVE  EndAt(s, b, n, i - 1, b[i].from) /\ LayerAt(s, b, n, i - 1, b[i].layer)
    <3>1. CASE i <= Len(a)
      <4>1. i \in (n + 1)..Len(a) /\ i - 1 \in 0..Len(a) /\ b[i] = a[i]
        BY <1>1, <3>1
      <4> QED
        BY <1>5, <2>1, <4>1 DEF RouteAt, InLine
    <3>2. CASE i = m
      <4>1. b[i] = e /\ i - 1 = Len(a) /\ Len(a) \in 0..Len(a)
        BY <1>1, <3>2
      <4>2. e.from = p /\ e.layer = l
        BY <1>3, <2>1, <4>1
      <4> QED
        BY <1>5, <4>1, <4>2 DEF RouteAt
    <3> QED
      BY <1>1, <3>1, <3>2
  <2> QED
    BY <1>1, <2>1 DEF InLine
<1>7. EndAt(s, b, n, m, q)
  <2>1. CASE IsTrace(e)
    <3>1. m \in TracesTo(b, n, m) /\ \A k \in TracesTo(b, n, m) : k <= m
      BY <1>1, <2>1 DEF TracesTo
    <3> QED
      BY <1>1, <1>3, <2>1, <3>1 DEF EndAt, LastOf
  <2>2. CASE IsVia(e)
    <3>1. TracesTo(b, n, m) = TracesTo(b, n, Len(a))
      BY <1>1, <1>3, <2>2 DEF TracesTo
    <3>2. EndAt(s, b, n, Len(a), q)
      BY <1>1, <1>3, <1>5, <2>2 DEF RouteAt
    <3> QED
      BY <3>1, <3>2 DEF EndAt
  <2> QED
    BY <1>2, <2>1, <2>2
<1>8. LayerAt(s, b, n, m, e.layer)
  <2>1. CASE IsVia(e)
    <3>1. m \in ViasTo(b, n, m) /\ \A k \in ViasTo(b, n, m) : k <= m
      BY <1>1, <2>1 DEF ViasTo
    <3> QED
      BY <1>1, <2>1, <3>1 DEF LayerAt, LastOf
  <2>2. CASE IsTrace(e)
    <3>1. ViasTo(b, n, m) = ViasTo(b, n, Len(a))
      BY <1>1, <1>3, <2>2 DEF ViasTo
    <3>2. LayerAt(s, b, n, Len(a), e.layer)
      BY <1>1, <1>3, <1>5, <2>2 DEF RouteAt
    <3> QED
      BY <3>1, <3>2 DEF LayerAt
  <2> QED
    BY <1>2, <2>1, <2>2
<1> QED
  BY <1>1, <1>6, <1>7, <1>8 DEF RouteAt, b

(* The preview tells the document what the board became.                   *)
LEMMA ChangesApplied ==
  ASSUME NEW a \in Seq(Copper), NEW b \in Seq(Copper), SameLayers(a, b)
  PROVE  Applied(a, Changes(a, b)) = b
<1> DEFINE n == Len(a)
           c == Changes(a, b)
           f == [i \in 1..n |-> b[i]]
           s == SubSeq(b, n + 1, Len(b))
<1>1. /\ n \in Nat /\ Len(b) \in Nat /\ n <= Len(b) /\ DOMAIN a = 1..n /\ DOMAIN b = 1..Len(b)
      /\ \A i \in 1..n : a[i].layer = b[i].layer
      /\ \A i \in 1..Len(b) : b[i] \in Copper
  BY DEF SameLayers
<1>2. \A i \in 1..n : i \in 1..Len(b) /\ b[i] \in Copper
  BY <1>1
<1>3. c.added = s /\ DOMAIN c.moved = {i \in 1..n : a[i] # b[i]}
      /\ \A i \in DOMAIN c.moved : c.moved[i] = b[i]
  BY <1>1 DEF Changes
<1>4. \A i \in 1..n : [b[i] EXCEPT !.layer = a[i].layer] = b[i]
  BY <1>1, <1>2 DEF Copper
<1> HIDE DEF c
<1>5. ASSUME NEW i \in 1..n
      PROVE  (IF i \in DOMAIN c.moved THEN [c.moved[i] EXCEPT !.layer = a[i].layer] ELSE a[i]) = b[i]
  BY <1>3, <1>4
<1>6. [i \in DOMAIN a |-> IF i \in DOMAIN c.moved THEN [c.moved[i] EXCEPT !.layer = a[i].layer]
                          ELSE a[i]] = f
  BY <1>1, <1>5
<1>7. f \in Seq(Copper) /\ Len(f) = n /\ \A i \in 1..n : f[i] = b[i]
  BY <1>1, <1>2
<1>8. s \in Seq(Copper) /\ Len(s) = Len(b) - n /\ \A i \in 1..(Len(b) - n) : s[i] = b[n + i]
  BY <1>1, RestOf
<1> HIDE DEF f, s
<1>9. /\ f \o s \in Seq(Copper) /\ Len(f \o s) = Len(f) + Len(s)
      /\ \A i \in 1..(Len(f) + Len(s)) : (f \o s)[i] = IF i <= Len(f) THEN f[i] ELSE s[i - Len(f)]
  BY <1>7, <1>8, ConcatProperties
<1>10. Len(f) = n /\ Len(f) + Len(s) = Len(b)
  BY <1>1, <1>7, <1>8
<1>11. ASSUME NEW i \in 1..Len(b) PROVE (f \o s)[i] = b[i]
  <2>1. (f \o s)[i] = IF i <= n THEN f[i] ELSE s[i - n]
    BY <1>9, <1>10
  <2>2. i <= n => i \in 1..n
    BY <1>1
  <2>3. ~ (i <= n) => i - n \in 1..(Len(b) - n) /\ n + (i - n) = i
    BY <1>1
  <2> QED
    BY <1>7, <1>8, <2>1, <2>2, <2>3
<1>12. f \o s = b
  BY <1>9, <1>10, <1>11, SeqEqual
<1> QED
  BY <1>3, <1>6, <1>12 DEF Applied, c

(* An unchanged board: nothing is behind it, so a route has only begun.    *)
LEMMA NothingLaid ==
  ASSUME NEW s, NEW a \in Seq(Copper)
  PROVE  SameLayers(a, a) /\ RouteAt(s, a, Len(a), s.at, s.layer)
<1>1. Len(a) \in Nat /\ (Len(a) + 1)..Len(a) = {}
  OBVIOUS
<1> QED
  BY <1>1 DEF SameLayers, RouteAt, InLine, EndAt, LayerAt, TracesTo, ViasTo

LEMMA MoveKeeps == ASSUME RouteInv, NEW c \in Point, MoveCursor(c) PROVE RouteInv'
<1>1. /\ session = "active" /\ cursor' = c /\ routing
      /\ UNCHANGED <<project, board, session, start, anchor, layer, original, stagedBoard, waypoint,
                     kept, routing>>
  BY DEF MoveCursor, Gesture
<1>2. /\ {project, board, original, stagedBoard, previewBoard} \subseteq Seq(Copper)
      /\ anchor \in Point /\ layer \in Layer /\ original = board
      /\ SameLayers(original, stagedBoard) /\ RouteAt(start, stagedBoard, Len(original), anchor, layer)
  BY <1>1 DEF RouteInv, RouteTypeOK, Session
<1>3. Len(original) \in Nat /\ Len(stagedBoard) \in Nat /\ Len(original) <= Len(stagedBoard)
      /\ stagedBoard \in Seq(Copper) /\ original \in Seq(Copper)
      /\ DOMAIN stagedBoard = 1..Len(stagedBoard)
         /\ \A i \in 1..Len(stagedBoard) : stagedBoard[i] \in Copper
  BY <1>2 DEF SameLayers
<1>4. CASE Rejected(stagedBoard)
  <2>1. previewBoard' = stagedBoard /\ shown' = NothingShown /\ hasPreview' = FALSE
    BY <1>4 DEF Rejected
  <2>2. NothingShown.accepted = FALSE /\ NothingShown.added = <<>> /\ <<>> \in Seq(Copper)
    BY DEF NothingShown
  <2>3. RouteTypeOK'
    BY <1>1, <2>1, <2>2 DEF RouteInv, RouteTypeOK
  <2>4. Session'
    BY <1>1, <1>2, <1>3, <2>1, <2>2 DEF Session, RouteAt, SameLayers
  <2> QED
    BY <1>1, <2>3, <2>4 DEF RouteInv
<1>5. ASSUME NEW S \in SUBSET DOMAIN stagedBoard,
             previewBoard' = Shoved(stagedBoard, S) \o Leg(c),
             shown' = Changes(Since, previewBoard'), hasPreview' = TRUE
      PROVE  RouteInv'
  <2> DEFINE b == Shoved(stagedBoard, S)
  <2>1. /\ b \in Seq(Copper) /\ Alike(stagedBoard, b) /\ Len(b) = Len(stagedBoard)
    <3>1. \A i \in 1..Len(stagedBoard) :
            LET x == IF i \in S THEN [stagedBoard[i] EXCEPT !.shoved = ~@] ELSE stagedBoard[i] IN
            /\ x \in Copper /\ x.kind = stagedBoard[i].kind /\ x.from = stagedBoard[i].from
            /\ x.to = stagedBoard[i].to /\ x.layer = stagedBoard[i].layer
      <4>1. ASSUME NEW e \in Copper
            PROVE  LET x == [e EXCEPT !.shoved = ~@] IN
                   /\ x \in Copper /\ x.kind = e.kind /\ x.from = e.from
                   /\ x.to = e.to /\ x.layer = e.layer
        BY DEF Copper
      <4> QED
        BY <1>3, <4>1
    <3> DEFINE x(i) == IF i \in S THEN [stagedBoard[i] EXCEPT !.shoved = ~@] ELSE stagedBoard[i]
    <3>2. b = [i \in 1..Len(stagedBoard) |-> x(i)]
      BY <1>3 DEF Shoved
    <3>3. \A i \in 1..Len(stagedBoard) :
            /\ x(i) \in Copper /\ x(i).kind = stagedBoard[i].kind /\ x(i).from = stagedBoard[i].from
            /\ x(i).to = stagedBoard[i].to /\ x(i).layer = stagedBoard[i].layer
      BY <3>1
    <3> HIDE DEF x, b
    <3>4. b \in [1..Len(stagedBoard) -> Copper] /\ \A i \in 1..Len(stagedBoard) : b[i] = x(i)
      BY <3>2, <3>3
    <3>5. b \in Seq(Copper) /\ Len(b) = Len(stagedBoard)
      BY <1>3, <3>4
    <3> QED
      BY <3>3, <3>4, <3>5 DEF Alike
  <2> HIDE DEF b
  <2>2. RouteAt(start, b, Len(original), anchor, layer)
    BY <1>2, <1>3, <2>1, AlikeReached
  <2>3. SameLayers(original, b)
    BY <1>2, <1>3, <2>1 DEF SameLayers, Alike
  <2>4. /\ previewBoard' \in Seq(Copper) /\ SameLayers(original, previewBoard')
        /\ RouteAt(start, previewBoard', Len(original), c, layer)
    <3>1. CASE c = anchor
      <4>1. previewBoard' = b
        BY <1>5, <2>1, <3>1 DEF Leg, b
      <4> QED
        BY <2>1, <2>2, <2>3, <3>1, <4>1
    <3>2. CASE c # anchor
      <4> DEFINE e == Trace(anchor, c, layer)
      <4>1. /\ e \in Copper /\ IsTrace(e) /\ e.from = anchor /\ e.to = c /\ e.layer = layer
        BY <1>2 DEF Trace, Copper, IsTrace
      <4>2. Leg(c) = <<e>>
        BY <3>2 DEF Leg
      <4> HIDE DEF e
      <4>3. previewBoard' = Append(b, e)
        BY <1>5, <2>1, <4>1, <4>2 DEF b
      <4>4. RouteAt(start, Append(b, e), Len(original), c, layer)
        BY <1>3, <2>1, <2>2, <4>1, LegReaches
      <4>5. Append(b, e) \in Seq(Copper) /\ Len(Append(b, e)) = Len(b) + 1
            /\ \A i \in 1..Len(b) : Append(b, e)[i] = b[i]
        BY <2>1, <4>1
      <4>6. SameLayers(original, Append(b, e))
        BY <1>3, <2>1, <2>3, <4>5 DEF SameLayers
      <4> QED
        BY <4>3, <4>4, <4>5, <4>6
    <3> QED
      BY <3>1, <3>2
  <2>5. shown' = Changes(original, previewBoard')
    BY <1>5 DEF Since
  <2>6. shown'.accepted = TRUE /\ shown'.added \in Seq(Copper)
    <3>1. shown'.accepted = TRUE /\ shown'.added = SubSeq(previewBoard', Len(original) + 1,
                                                          Len(previewBoard'))
      BY <2>5 DEF Changes
    <3>2. SubSeq(previewBoard', Len(original) + 1, Len(previewBoard')) \in Seq(Copper)
      BY <1>3, <2>4
    <3> QED
      BY <3>1, <3>2
  <2>7. RouteTypeOK'
    BY <1>1, <1>5, <2>4, <2>6 DEF RouteInv, RouteTypeOK
  <2>8. Session'
    <3>1. Len(original) <= Len(previewBoard') /\ InLine(start, previewBoard', Len(original))
      BY <2>4 DEF SameLayers, RouteAt
    <3> QED
      BY <1>1, <1>2, <2>4, <2>5, <3>1 DEF Session
  <2> QED
    BY <1>1, <2>7, <2>8 DEF RouteInv
<1> QED
  BY <1>4, <1>5 DEF MoveCursor

(* What a commit makes of a document that is not the one of the preview.   *)
LEMMA AppliedTyped ==
  ASSUME NEW d \in Seq(Copper), NEW a \in Seq(Copper), NEW b \in Seq(Copper), Len(a) <= Len(b)
  PROVE  Applied(d, Changes(a, b)) \in Seq(Copper)
<1> DEFINE c == Changes(a, b)
           x(i) == IF i \in DOMAIN c.moved THEN [c.moved[i] EXCEPT !.layer = d[i].layer] ELSE d[i]
           f == [i \in 1..Len(d) |-> x(i)]
<1>1. /\ DOMAIN d = 1..Len(d) /\ Len(d) \in Nat /\ \A i \in 1..Len(d) : d[i] \in Copper
      /\ Len(a) \in Nat /\ Len(b) \in Nat /\ DOMAIN a = 1..Len(a)
      /\ \A i \in 1..Len(b) : b[i] \in Copper
  OBVIOUS
<1>2. /\ c.added = SubSeq(b, Len(a) + 1, Len(b))
      /\ \A i \in DOMAIN c.moved : i \in 1..Len(a) /\ c.moved[i] = b[i]
  BY <1>1 DEF Changes
<1> HIDE DEF c
<1>3. c.added \in Seq(Copper)
  BY <1>1, <1>2, RestOf
<1>4. ASSUME NEW i \in DOMAIN c.moved PROVE c.moved[i] \in Copper
  <2>1. i \in 1..Len(a) /\ c.moved[i] = b[i]
    BY <1>2
  <2>2. i \in 1..Len(b)
    BY <1>1, <2>1
  <2> QED
    BY <1>1, <2>1, <2>2
<1>5. ASSUME NEW e \in Copper, NEW g \in Copper PROVE [e EXCEPT !.layer = g.layer] \in Copper
  BY DEF Copper
<1>6. Applied(d, c) = f \o c.added
  BY <1>1 DEF Applied
<1>7. \A i \in 1..Len(d) : x(i) \in Copper
  BY <1>1, <1>4, <1>5
<1> HIDE DEF x
<1>8. f \in Seq(Copper)
  BY <1>1, <1>7
<1> QED
  BY <1>3, <1>6, <1>8, ConcatProperties DEF c

LEMMA ChangesTyped ==
  ASSUME NEW a \in Seq(Copper), NEW b \in Seq(Copper), Len(a) <= Len(b)
  PROVE  Changes(a, b).accepted = TRUE /\ Changes(a, b).added \in Seq(Copper)
<1>1. Len(a) \in Nat
  OBVIOUS
<1> QED
  BY <1>1, RestOf DEF Changes

LEMMA NothingTyped ==
  /\ NothingShown.accepted = FALSE /\ NothingShown.added \in Seq(Copper)
  /\ <<>> \in Seq(Copper)
<1>1. <<>> \in Seq(Copper)
  OBVIOUS
<1> QED
  BY <1>1 DEF NothingShown

LEMMA ViaKeeps == ASSUME RouteInv, NEW target \in Layer, PlaceVia(target) PROVE RouteInv'
<1>1. /\ session = "active" /\ routing
      /\ UNCHANGED <<project, board, session, start, cursor, original, kept, routing>>
  BY DEF PlaceVia, Gesture
<1>2. /\ {project, board, original, stagedBoard, previewBoard} \subseteq Seq(Copper)
      /\ {anchor, cursor} \subseteq Point /\ layer \in Layer /\ original = board
      /\ SameLayers(original, stagedBoard) /\ RouteAt(start, stagedBoard, Len(original), anchor, layer)
      /\ SameLayers(original, previewBoard)
      /\ hasPreview => RouteAt(start, previewBoard, Len(original), cursor, layer)
      /\ kept => project = board
  BY <1>1 DEF RouteInv, RouteTypeOK, Session
<1>3. original \in Seq(Copper) /\ Len(original) \in Nat
  BY <1>2
<1>4. CASE /\ ~hasPreview \/ target = layer
           /\ Rejected(stagedBoard) /\ UNCHANGED <<stagedBoard, anchor, layer, waypoint>>
  <2>1. previewBoard' = stagedBoard /\ shown' = NothingShown /\ hasPreview' = FALSE
    BY <1>4 DEF Rejected
  <2>2. RouteTypeOK'
    BY <1>1, <1>4, <2>1, NothingTyped DEF RouteInv, RouteTypeOK
  <2>3. Session'
    BY <1>1, <1>2, <1>4, <2>1, NothingTyped DEF Session, RouteAt, SameLayers
  <2> QED
    BY <1>1, <1>2, <2>2, <2>3 DEF RouteInv
<1>5. ASSUME hasPreview, anchor' = cursor, stagedBoard' = previewBoard, Rejected(previewBoard),
             UNCHANGED <<layer, waypoint>>
      PROVE  RouteInv'
  <2>1. previewBoard' = previewBoard /\ shown' = NothingShown /\ hasPreview' = FALSE
    BY <1>5 DEF Rejected
  <2>2. RouteTypeOK'
    BY <1>1, <1>2, <1>5, <2>1, NothingTyped DEF RouteInv, RouteTypeOK
  <2>3. Session'
    BY <1>1, <1>2, <1>5, <2>1, NothingTyped DEF Session, RouteAt, SameLayers
  <2> QED
    BY <1>1, <1>2, <2>2, <2>3 DEF RouteInv
<1>6. ASSUME hasPreview, anchor' = cursor, NEW p \in Point,
             stagedBoard' = Append(previewBoard, ViaTo(p, target)), previewBoard' = stagedBoard',
             shown' = Changes(Since, stagedBoard'), hasPreview' = TRUE, layer' = target
      PROVE  RouteInv'
  <2> DEFINE e == ViaTo(p, target)
             b == Append(previewBoard, e)
  <2>1. e \in Copper /\ IsVia(e) /\ e.layer = target
    BY DEF ViaTo, Copper, IsVia
  <2>2. previewBoard \in Seq(Copper) /\ Len(original) <= Len(previewBoard)
    BY <1>2 DEF SameLayers
  <2> HIDE DEF e
  <2>3. RouteAt(start, b, Len(original), cursor, e.layer)
    BY <1>2, <1>3, <1>6, <2>1, <2>2, LegReaches
  <2>4. /\ b \in Seq(Copper) /\ Len(b) = Len(previewBoard) + 1 /\ Len(previewBoard) \in Nat
        /\ \A i \in 1..Len(previewBoard) : b[i] = previewBoard[i]
    BY <2>1, <2>2
  <2>5. stagedBoard' = b /\ previewBoard' = b
    BY <1>6 DEF e
  <2> HIDE DEF b
  <2>6. SameLayers(original, b)
    <3>1. Len(original) <= Len(b) /\ \A i \in 1..Len(original) : i \in 1..Len(previewBoard)
      BY <1>3, <2>2, <2>4
    <3> QED
      BY <1>2, <2>4, <3>1 DEF SameLayers
  <2>7. Len(original) <= Len(b) /\ InLine(start, b, Len(original))
    BY <2>3, <2>6 DEF SameLayers, RouteAt
  <2>8. shown' = Changes(original, b)
    BY <1>6, <2>5 DEF Since
  <2>9. shown'.accepted = TRUE /\ shown'.added \in Seq(Copper)
    BY <1>3, <2>4, <2>7, <2>8, ChangesTyped
  <2>10. RouteTypeOK'
    BY <1>1, <1>2, <1>6, <2>4, <2>5, <2>9 DEF RouteInv, RouteTypeOK
  <2>11. RouteAt(start, b, Len(original), cursor, target)
    BY <2>1, <2>3
  <2>12. Session'
    BY <1>1, <1>2, <1>6, <2>5, <2>6, <2>7, <2>8, <2>11 DEF Session
  <2> QED
    BY <1>1, <1>2, <2>10, <2>12 DEF RouteInv
<1> QED
  BY <1>4, <1>5, <1>6 DEF PlaceVia

LEMMA BeginKeeps ==
  ASSUME RouteInv, NEW p \in Point, NEW l \in Layer, BeginRoute(p, l)
  PROVE  RouteInv'
<1>1. /\ ~routing /\ project' = project /\ board' = project /\ kept' = TRUE
      /\ start' = [at |-> p, layer |-> l] /\ anchor' = p /\ cursor' = p /\ layer' = l
      /\ original' = project /\ stagedBoard' = project /\ previewBoard' = project
      /\ \/ /\ session' = "active" /\ hasPreview' = TRUE /\ routing' = TRUE
            /\ shown' = Changes(project, project)
         \/ session' = "idle" /\ hasPreview' = FALSE /\ routing' = FALSE /\ shown' = NothingShown
  BY DEF BeginRoute
<1>2. project \in Seq(Copper) /\ Len(project) \in Nat /\ Len(project) <= Len(project)
  BY DEF RouteInv, RouteTypeOK
<1>3. Changes(project, project).accepted = TRUE /\ Changes(project, project).added \in Seq(Copper)
  BY <1>2, ChangesTyped
<1>4. SameLayers(project, project) /\ RouteAt(start', project, Len(project), start'.at, start'.layer)
  BY <1>2, NothingLaid
<1>5. start'.at = p /\ start'.layer = l /\ start' \in [at : Point, layer : Layer]
  BY <1>1
<1>6. RouteTypeOK'
  BY <1>1, <1>2, <1>3, <1>5, NothingTyped DEF RouteTypeOK
<1>7. InLine(start', project, Len(project))
  BY <1>4 DEF RouteAt
<1>8. RouteAt(start', project, Len(project), p, l)
  BY <1>4, <1>5
<1>9. Session'
  BY <1>1, <1>2, <1>4, <1>7, <1>8, NothingTyped DEF Session
<1> QED
  BY <1>1, <1>6, <1>9 DEF RouteInv

LEMMA CommitKeeps == ASSUME RouteInv, CommitRoute PROVE RouteInv'
<1>1. /\ routing /\ session = "active" /\ shown.accepted
      /\ board' = previewBoard /\ stagedBoard' = previewBoard
      /\ session' = "idle" /\ hasPreview' = FALSE
      /\ project' = Applied(project, shown) /\ shown' = NothingShown /\ routing' = FALSE
      /\ UNCHANGED <<start, anchor, cursor, layer, original, previewBoard, kept>>
  BY DEF CommitRoute, head
<1>2. /\ {project, original, previewBoard} \subseteq Seq(Copper) /\ original = board
      /\ Len(original) <= Len(previewBoard) /\ InLine(start, previewBoard, Len(original))
      /\ SameLayers(original, previewBoard) /\ shown = Changes(original, previewBoard)
      /\ kept => project = board
  BY <1>1 DEF RouteInv, RouteTypeOK, Session
<1>3. project' \in Seq(Copper)
  BY <1>1, <1>2, AppliedTyped
<1>4. kept => project' = previewBoard
  BY <1>1, <1>2, ChangesApplied
<1>5. RouteTypeOK'
  BY <1>1, <1>3, NothingTyped DEF RouteInv, RouteTypeOK
<1>6. Session'
  BY <1>1, <1>2 DEF Session
<1> QED
  BY <1>1, <1>4, <1>5, <1>6 DEF RouteInv

LEMMA CancelRouteKeeps == ASSUME RouteInv, CancelRoute PROVE RouteInv'
<1>1. /\ routing /\ routing' = FALSE /\ shown' = NothingShown
      /\ UNCHANGED <<project, board, start, anchor, cursor, layer, kept, original>>
  BY DEF CancelRoute, head, copies
<1>2. CASE session = "none" /\ UNCHANGED <<session, copies>>
  <2>1. RouteTypeOK'
    BY <1>1, <1>2, NothingTyped DEF RouteInv, RouteTypeOK, copies
  <2>2. Session'
    BY <1>1, <1>2 DEF RouteInv, Session, copies
  <2> QED
    BY <1>1, <2>1, <2>2 DEF RouteInv
<1>3. CASE /\ session # "none" /\ session' = "idle" /\ hasPreview' = FALSE
           /\ stagedBoard' = board /\ previewBoard' = board
  <2>1. board \in Seq(Copper) /\ original = board /\ Len(board) \in Nat
    BY <1>1, <1>3 DEF RouteInv, RouteTypeOK, Session
  <2>2. RouteTypeOK'
    BY <1>1, <1>3, <2>1, NothingTyped DEF RouteInv, RouteTypeOK
  <2>3. InLine(start, board, Len(board))
    BY <2>1, NothingLaid DEF RouteAt
  <2>4. Session'
    BY <1>1, <1>3, <2>1, <2>3 DEF Session
  <2> QED
    BY <1>1, <2>2, <2>4 DEF RouteInv
<1> QED
  BY <1>2, <1>3 DEF CancelRoute

LEMMA RestKeeps ==
  ASSUME RouteInv, NoSession \/ RebuildBoard \/ ChangeProject \/ UNCHANGED routeVars
  PROVE  RouteInv'
<1>1. CASE NoSession
  <2>1. /\ session # "active" /\ shown' = NothingShown
        /\ UNCHANGED <<project, board, session, start, anchor, cursor, layer, original, stagedBoard,
                       previewBoard, hasPreview, kept, routing>>
    BY <1>1 DEF NoSession, Gesture, head, copies
  <2> QED
    BY <2>1, NothingTyped DEF RouteInv, RouteTypeOK, Session
<1>2. CASE RebuildBoard
  <2>1. /\ board' = project /\ session' = "none" /\ hasPreview' = FALSE /\ kept' = TRUE
        /\ UNCHANGED <<project, start, anchor, cursor, layer, original, stagedBoard, previewBoard,
                       shown, routing>>
    BY <1>2 DEF RebuildBoard, head
  <2> QED
    BY <2>1 DEF RouteInv, RouteTypeOK, Session
<1>3. CASE ChangeProject
  <2>1. /\ kept' = FALSE
        /\ UNCHANGED <<board, session, start, anchor, cursor, layer, original, stagedBoard,
                       previewBoard, hasPreview, shown, routing>>
    BY <1>3 DEF ChangeProject, head, copies
  <2>2. PICK p \in Point : project' = Append(project, Trace(p, p, 1))
        \/ project' = <<Trace(p, p, Layers)>>
    BY <1>3 DEF ChangeProject
  <2>3. Trace(p, p, 1) \in Copper /\ Trace(p, p, Layers) \in Copper
    BY RouteConstants DEF Trace, Copper, Layer
  <2>4. project \in Seq(Copper)
    BY DEF RouteInv, RouteTypeOK
  <2>5. project' \in Seq(Copper)
    <3>1. ASSUME NEW e \in Copper PROVE Append(project, e) \in Seq(Copper) /\ <<e>> \in Seq(Copper)
      BY <2>4
    <3> QED
      BY <2>2, <2>3, <3>1
  <2> QED
    BY <2>1, <2>5 DEF RouteInv, RouteTypeOK, Session
<1>4. CASE UNCHANGED routeVars
  BY <1>4 DEF RouteInv, RouteTypeOK, Session, routeVars, head, copies
<1> QED
  BY <1>1, <1>2, <1>3, <1>4

LEMMA RouteStarts == RouteInit => RouteInv
<1> SUFFICES ASSUME RouteInit PROVE RouteInv
  OBVIOUS
<1>1. PICK p \in Point : project = <<Trace(p, p, 1)>>
  BY DEF RouteInit
<1>2. 1 \in Layer /\ Trace(p, p, 1) \in Copper
  BY RouteConstants DEF Trace, Copper, Layer
<1>3. project \in Seq(Copper)
  BY <1>1, <1>2
<1>4. start \in [at : Point, layer : Layer] /\ start.at \in Point /\ start.layer \in Layer
  BY <1>2 DEF RouteInit
<1> QED
  BY <1>3, <1>4, NothingTyped DEF RouteInit, RouteInv, RouteTypeOK, Session

LEMMA RouteStep == RouteInv /\ [RouteNext]_routeVars => RouteInv'
<1> SUFFICES ASSUME RouteInv, [RouteNext]_routeVars PROVE RouteInv'
  OBVIOUS
<1>1. CASE \E p \in Point, l \in Layer : BeginRoute(p, l)
  BY <1>1, BeginKeeps
<1>2. CASE \E c \in Point : MoveCursor(c)
  BY <1>2, MoveKeeps
<1>3. CASE \E l \in Layer : PlaceVia(l)
  BY <1>3, ViaKeeps
<1>4. CASE CommitRoute
  BY <1>4, CommitKeeps
<1>5. CASE CancelRoute
  BY <1>5, CancelRouteKeeps
<1>6. CASE NoSession \/ RebuildBoard \/ ChangeProject \/ UNCHANGED routeVars
  BY <1>6, RestKeeps
<1> QED
  BY <1>1, <1>2, <1>3, <1>4, <1>5, <1>6 DEF RouteNext

LEMMA RouteInvSound == RouteInv => RouteTypeOK /\ RouteSound
<1> SUFFICES ASSUME RouteInv PROVE RouteTypeOK /\ RouteSound
  OBVIOUS
<1>1. /\ RouteTypeOK /\ {project, board, original, previewBoard} \subseteq Seq(Copper)
      /\ original \in Seq(Copper) /\ Len(original) \in Nat
  BY DEF RouteInv, RouteTypeOK
<1>2. RouteJoined
  BY <1>1, JoinedInLine DEF RouteInv, Session, RouteJoined
<1>3. CommittedAsShown
  BY <1>1, ChangesApplied DEF RouteInv, Session, CommittedAsShown
<1> QED
  BY <1>1, <1>2, <1>3 DEF RouteSound

(* Whatever is refused, cancelled, rebuilt or changed in between: a route  *)
(* is one line from its start, and a commit makes of the document exactly  *)
(* the board that the user was shown.                                      *)
THEOREM RouteIsSound == RouteSpec => [](RouteTypeOK /\ RouteSound)
<1>1. RouteSpec => []RouteInv
  BY RouteStarts, RouteStep, PTL DEF RouteSpec
<1> QED
  BY <1>1, RouteInvSound, PTL

-----------------------------------------------------------------------------
(* The automatic router.  The connections are spread over the lists of a   *)
(* run, each in one place; a fresh run knows what is on the native board.  *)

(* The function by which Among is defined, up to n.                        *)
Chosen(F, s, S, i) ==
  IF i = 0 THEN <<>> ELSE IF s[i] \in S THEN Append(F[i - 1], s[i]) ELSE F[i - 1]
ChoosesTo(F, s, S, n) == F = [i \in 0..n |-> Chosen(F, s, S, i)]

LEMMA ChoiceExists ==
  ASSUME NEW s, NEW S, NEW m \in Nat
  PROVE  \E F : ChoosesTo(F, s, S, m)
<1> DEFINE T == {n \in Nat : ~ \E F : ChoosesTo(F, s, S, n)}
<1> SUFFICES ASSUME T # {} PROVE FALSE
  OBVIOUS
<1>1. PICK n \in T : \A k \in T : n <= k
  <2>1. T \in SUBSET Nat
    OBVIOUS
  <2> HIDE DEF T
  <2> QED
    BY <2>1, SmallestNumber
<1>2. n \in Nat /\ ~ \E F : ChoosesTo(F, s, S, n)
  OBVIOUS
<1>3. CASE n = 0
  <2> DEFINE F == [i \in 0..0 |-> <<>>]
  <2>1. F = [i \in 0..0 |-> Chosen(F, s, S, i)]
    BY DEF Chosen
  <2> QED
    BY <1>2, <1>3, <2>1 DEF ChoosesTo
<1>4. CASE n # 0
  <2>1. n - 1 \in Nat /\ ~ (n <= n - 1)
    BY <1>2, <1>4
  <2>2. n - 1 \notin T
    BY <1>1, <2>1
  <2>3. PICK G : ChoosesTo(G, s, S, n - 1)
    BY <2>1, <2>2
  <2> DEFINE F == [i \in 0..n |-> IF i = n THEN Chosen(G, s, S, i) ELSE G[i]]
  <2>4. \A i \in 0..(n - 1) : G[i] = Chosen(G, s, S, i)
    BY <2>3 DEF ChoosesTo
  <2>5. ASSUME NEW i \in 0..n PROVE Chosen(F, s, S, i) = Chosen(G, s, S, i)
    <3>1. CASE i = 0
      BY <3>1 DEF Chosen
    <3>2. CASE i # 0
      <4>1. i - 1 \in 0..n /\ i - 1 # n
        BY <1>2, <2>5, <3>2
      <4>2. F[i - 1] = G[i - 1]
        BY <4>1
      <4> HIDE DEF F
      <4> QED
        BY <4>2 DEF Chosen
    <3> QED
      BY <3>1, <3>2
  <2>6. ASSUME NEW i \in 0..n PROVE F[i] = Chosen(G, s, S, i)
    <3>1. i # n => i \in 0..(n - 1)
      BY <1>2, <2>6
    <3> QED
      BY <2>4, <3>1
  <2>7. F = [i \in 0..n |-> F[i]]
    OBVIOUS
  <2> HIDE DEF F
  <2>8. F = [i \in 0..n |-> Chosen(F, s, S, i)]
    BY <2>5, <2>6, <2>7
  <2> QED
    BY <1>2, <2>8 DEF ChoosesTo
<1> QED
  BY <1>3, <1>4

LEMMA AmongUnfolds ==
  ASSUME NEW s, NEW S, Len(s) \in Nat
  PROVE  \E F : ChoosesTo(F, s, S, Len(s)) /\ Among(s, S) = F[Len(s)]
<1> DEFINE F == CHOOSE G : ChoosesTo(G, s, S, Len(s))
<1>1. ChoosesTo(F, s, S, Len(s))
  BY ChoiceExists
<1>2. Among(s, S) = F[Len(s)]
  BY DEF Among, ChoosesTo, Chosen
<1> QED
  BY <1>1, <1>2

(* What a list without repetitions holds when an element is added, taken,  *)
(* or chosen.                                                              *)
LEMMA AddedOnce ==
  ASSUME NEW X, NEW q \in Seq(X), IsInjective(q), NEW x \in X, x \notin ToSet(q)
  PROVE  /\ Append(q, x) \in Seq(X) /\ IsInjective(Append(q, x))
         /\ ToSet(Append(q, x)) = ToSet(q) \cup {x}
<1> DEFINE a == Append(q, x)
<1>1. /\ a \in Seq(X) /\ Len(q) \in Nat /\ DOMAIN q = 1..Len(q) /\ DOMAIN a = 1..(Len(q) + 1)
      /\ a[Len(q) + 1] = x /\ \A i \in 1..Len(q) : a[i] = q[i]
  OBVIOUS
<1> HIDE DEF a
<1>2. \A i \in DOMAIN a : i \in DOMAIN q \/ i = Len(q) + 1
  BY <1>1
<1>3. \A i \in DOMAIN q : i \in DOMAIN a /\ a[i] = q[i] /\ a[i] # x
  BY <1>1 DEF ToSet
<1>4. Len(q) + 1 \in DOMAIN a
  BY <1>1
<1>5. IsInjective(a)
  BY <1>1, <1>2, <1>3 DEF IsInjective
<1>6. ToSet(a) = ToSet(q) \cup {x}
  BY <1>1, <1>2, <1>3, <1>4 DEF ToSet
<1> QED
  BY <1>1, <1>5, <1>6 DEF a

LEMMA TakenOnce ==
  ASSUME NEW X, NEW q \in Seq(X), IsInjective(q), q # <<>>
  PROVE  /\ Tail(q) \in Seq(X) /\ IsInjective(Tail(q))
         /\ Head(q) \in X /\ Head(q) \in ToSet(q) /\ ToSet(Tail(q)) = ToSet(q) \ {Head(q)}
<1> DEFINE t == Tail(q)
<1>1. /\ t \in Seq(X) /\ Len(q) \in Nat /\ Len(q) > 0 /\ DOMAIN q = 1..Len(q)
      /\ DOMAIN t = 1..(Len(q) - 1) /\ Head(q) = q[1]
      /\ \A i \in 1..(Len(q) - 1) : t[i] = q[i + 1]
  OBVIOUS
<1> HIDE DEF t
<1>2. 1 \in DOMAIN q /\ q[1] \in X
  BY <1>1
<1>3. \A i \in DOMAIN t : i + 1 \in DOMAIN q /\ i + 1 # 1 /\ t[i] = q[i + 1]
  BY <1>1
<1>4. \A i \in DOMAIN q : i = 1 \/ (i - 1 \in DOMAIN t /\ t[i - 1] = q[i])
  <2>1. ASSUME NEW i \in DOMAIN q, i # 1 PROVE i - 1 \in DOMAIN t /\ (i - 1) + 1 = i
    BY <1>1, <2>1
  <2> QED
    BY <1>3, <2>1
<1>5. IsInjective(t)
  <2>1. ASSUME NEW i \in DOMAIN t, NEW j \in DOMAIN t, t[i] = t[j] PROVE i = j
    <3>1. i + 1 = j + 1
      BY <1>3, <2>1 DEF IsInjective
    <3> QED
      BY <1>1, <3>1
  <2> QED
    BY <2>1 DEF IsInjective
<1>6. ToSet(t) = ToSet(q) \ {q[1]}
  <2>1. \A i \in DOMAIN t : t[i] # q[1]
    BY <1>2, <1>3 DEF IsInjective
  <2> QED
    BY <1>3, <1>4, <2>1 DEF ToSet
<1> QED
  BY <1>1, <1>2, <1>5, <1>6 DEF t, ToSet

LEMMA FrontOnce ==
  ASSUME NEW X, NEW q \in Seq(X), IsInjective(q), NEW n \in 0..Len(q)
  PROVE  LET f == SubSeq(q, 1, n) IN
         f \in Seq(X) /\ IsInjective(f) /\ ToSet(f) \subseteq ToSet(q)
<1> DEFINE f == SubSeq(q, 1, n)
<1>1. /\ f \in Seq(X) /\ Len(q) \in Nat /\ DOMAIN q = 1..Len(q) /\ DOMAIN f = 1..n
      /\ \A i \in 1..n : f[i] = q[i]
  OBVIOUS
<1> HIDE DEF f
<1>2. \A i \in DOMAIN f : i \in DOMAIN q /\ f[i] = q[i]
  BY <1>1
<1>3. IsInjective(f) /\ ToSet(f) \subseteq ToSet(q)
  BY <1>2 DEF IsInjective, ToSet
<1> QED
  BY <1>1, <1>3 DEF f

LEMMA JoinedOnce ==
  ASSUME NEW X, NEW p \in Seq(X), NEW q \in Seq(X), IsInjective(p), IsInjective(q),
         ToSet(p) \cap ToSet(q) = {}
  PROVE  p \o q \in Seq(X) /\ IsInjective(p \o q) /\ ToSet(p \o q) = ToSet(p) \cup ToSet(q)
<1> DEFINE j == p \o q
<1>1. /\ j \in Seq(X) /\ Len(j) = Len(p) + Len(q)
      /\ \A i \in 1..(Len(p) + Len(q)) : j[i] = IF i <= Len(p) THEN p[i] ELSE q[i - Len(p)]
  BY ConcatProperties
<1>2. /\ Len(p) \in Nat /\ Len(q) \in Nat /\ DOMAIN p = 1..Len(p) /\ DOMAIN q = 1..Len(q)
      /\ DOMAIN j = 1..(Len(p) + Len(q))
  BY <1>1
<1> HIDE DEF j
<1>3. \A i \in DOMAIN p : i \in DOMAIN j /\ j[i] = p[i]
  BY <1>1, <1>2
<1>4. \A i \in DOMAIN q : Len(p) + i \in DOMAIN j /\ j[Len(p) + i] = q[i]
  <2>1. ASSUME NEW i \in DOMAIN q
        PROVE  Len(p) + i \in DOMAIN j /\ ~ (Len(p) + i <= Len(p)) /\ (Len(p) + i) - Len(p) = i
    BY <1>2
  <2> QED
    BY <1>1, <1>2, <2>1
<1>5. \A i \in DOMAIN j : \/ i \in DOMAIN p /\ j[i] = p[i]
                          \/ i - Len(p) \in DOMAIN q /\ j[i] = q[i - Len(p)]
  BY <1>1, <1>2
<1>6. ToSet(j) = ToSet(p) \cup ToSet(q)
  BY <1>3, <1>4, <1>5 DEF ToSet
<1>7. IsInjective(j)
  <2>1. ASSUME NEW a \in DOMAIN j, NEW b \in DOMAIN j, j[a] = j[b] PROVE a = b
    <3>1. a \in Nat /\ b \in Nat
      BY <1>2
    <3>2. CASE a \in DOMAIN p /\ j[a] = p[a] /\ b \in DOMAIN p /\ j[b] = p[b]
      BY <2>1, <3>2 DEF IsInjective
    <3>3. CASE /\ a - Len(p) \in DOMAIN q /\ j[a] = q[a - Len(p)]
               /\ b - Len(p) \in DOMAIN q /\ j[b] = q[b - Len(p)]
      <4>1. a - Len(p) = b - Len(p)
        BY <2>1, <3>3 DEF IsInjective
      <4> QED
        BY <1>2, <3>1, <4>1
    <3>4. ~ \E x \in DOMAIN p, y \in DOMAIN q : p[x] = q[y]
      BY DEF ToSet
    <3> QED
      BY <1>5, <2>1, <3>2, <3>3, <3>4
  <2> QED
    BY <2>1 DEF IsInjective
<1> QED
  BY <1>1, <1>6, <1>7 DEF j

LEMMA AmongOnce ==
  ASSUME NEW X, NEW s \in Seq(X), IsInjective(s), NEW S
  PROVE  /\ Among(s, S) \in Seq(X) /\ IsInjective(Among(s, S))
         /\ ToSet(Among(s, S)) = ToSet(s) \cap S
<1>1. Len(s) \in Nat /\ DOMAIN s = 1..Len(s) /\ \A i \in 1..Len(s) : s[i] \in X
  OBVIOUS
<1>2. PICK F : ChoosesTo(F, s, S, Len(s)) /\ Among(s, S) = F[Len(s)]
  BY <1>1, AmongUnfolds
<1>3. \A i \in 0..Len(s) : F[i] = Chosen(F, s, S, i)
  BY <1>2 DEF ChoosesTo
<1> DEFINE Before(i) == {s[j] : j \in 1..i}
           Fine(i) == F[i] \in Seq(X) /\ IsInjective(F[i]) /\ ToSet(F[i]) = Before(i) \cap S
           T == {i \in 0..Len(s) : ~ Fine(i)}
<1>4. T = {}
  <2> SUFFICES ASSUME T # {} PROVE FALSE
    OBVIOUS
  <2>1. PICK i \in T : \A k \in T : i <= k
    <3>1. T \in SUBSET Nat
      BY <1>1
    <3> HIDE DEF T
    <3> QED
      BY <3>1, SmallestNumber
  <2>2. i \in 0..Len(s) /\ ~ Fine(i)
    OBVIOUS
  <2>3. CASE i = 0
    <3>1. F[i] = <<>> /\ Before(i) = {}
      BY <1>1, <1>3, <2>3 DEF Chosen
    <3>2. <<>> \in Seq(X) /\ DOMAIN <<>> = {}
      OBVIOUS
    <3> QED
      BY <2>2, <3>1, <3>2 DEF IsInjective, ToSet
  <2>4. CASE i # 0
    <3>1. i - 1 \in 0..Len(s) /\ ~ (i <= i - 1) /\ i \in 1..Len(s)
      BY <1>1, <2>2, <2>4
    <3>2. i - 1 \notin T
      BY <2>1, <3>1
    <3>3. Fine(i - 1)
      BY <3>1, <3>2
    <3>4. F[i] = IF s[i] \in S THEN Append(F[i - 1], s[i]) ELSE F[i - 1]
      BY <1>3, <2>2, <2>4 DEF Chosen
    <3>5. Before(i) = Before(i - 1) \cup {s[i]}
      <4>1. \A j : j \in 1..i <=> j \in 1..(i - 1) \/ j = i
        BY <1>1, <3>1
      <4> QED
        BY <4>1
    <3>6. s[i] \in X /\ s[i] \notin Before(i - 1)
      <4>1. \A j \in 1..(i - 1) : j \in 1..Len(s) /\ j # i
        BY <1>1, <3>1
      <4> QED
        BY <1>1, <3>1, <4>1 DEF IsInjective
    <3> HIDE DEF Before
    <3>7. CASE s[i] \in S
      <4>1. s[i] \notin ToSet(F[i - 1])
        BY <3>3, <3>6
      <4>2. /\ F[i] \in Seq(X) /\ IsInjective(F[i]) /\ ToSet(F[i]) = ToSet(F[i - 1]) \cup {s[i]}
        BY <3>3, <3>4, <3>6, <3>7, <4>1, AddedOnce
      <4> QED
        BY <2>2, <3>3, <3>5, <3>7, <4>2
    <3>8. CASE s[i] \notin S
      BY <2>2, <3>3, <3>4, <3>5, <3>8
    <3> QED
      BY <3>7, <3>8
  <2> QED
    BY <2>3, <2>4
<1>5. Fine(Len(s))
  <2>1. Len(s) \in 0..Len(s)
    BY <1>1
  <2> HIDE DEF Fine
  <2>2. \A i \in 0..Len(s) : i \notin T => Fine(i)
    OBVIOUS
  <2> HIDE DEF T
  <2> QED
    BY <1>4, <2>1, <2>2
<1>6. Before(Len(s)) = ToSet(s)
  BY <1>1 DEF ToSet
<1> QED
  BY <1>2, <1>5, <1>6

LEMMA OnceCounted ==
  ASSUME NEW X, NEW s \in Seq(X), IsInjective(s)
  PROVE  Cardinality(ToSet(s)) = Len(s)
<1>1. Len(s) \in Nat /\ DOMAIN s = 1..Len(s) /\ s \in [1..Len(s) -> ToSet(s)]
  BY DEF ToSet
<1>2. s \in Injection(1..Len(s), ToSet(s))
  BY <1>1 DEF Injection
<1>3. s \in Surjection(1..Len(s), ToSet(s))
  BY <1>1 DEF Surjection, ToSet
<1>4. ExistsBijection(1..Len(s), ToSet(s))
  BY <1>2, <1>3 DEF Bijection, ExistsBijection
<1> QED
  BY <1>1, <1>4, FS_CountingElements

-----------------------------------------------------------------------------
AnyWay == {NoWay} \cup UNION {Ways[c] : c \in Connection}
WorkRecord ==
  [by : {"menu", "chat", "tool"}, id : 1..MaxRouteRuns, fresh : BOOLEAN, pass : 0..MaxPasses,
   progress : BOOLEAN, todo : Seq(Connection), still : Seq(Connection),
   committed : Seq(Connection), ripped : Seq(Connection), way : [Connection -> AnyWay]]

(* The connections of X are spread over the lists of a run, each in one    *)
(* place, and those that are committed have a way.                         *)
Spread(run, X) ==
  /\ IsInjective(run.todo) /\ IsInjective(run.still)
  /\ IsInjective(run.ripped) /\ IsInjective(run.committed)
  /\ ToSet(run.todo) \cap ToSet(run.still) = {}
  /\ (ToSet(run.todo) \cup ToSet(run.still)) \cap ToSet(run.ripped) = {}
  /\ (ToSet(run.todo) \cup ToSet(run.still) \cup ToSet(run.ripped)) \cap ToSet(run.committed) = {}
  /\ ToSet(run.todo) \cup ToSet(run.still) \cup ToSet(run.ripped) \cup ToSet(run.committed) = X
Holds(run, X) ==
  /\ run \in WorkRecord /\ Spread(run, X)
  /\ \A c \in Connection : run.way[c] \in Ways[c] \cup {NoWay}
  /\ \A c \in ToSet(run.committed) : run.way[c] # NoWay

LEMMA AutoSizes ==
  /\ Cardinality(Connection) \in Nat /\ Connection = 1..Cardinality(Connection)
  /\ MaxRouteRuns \in Nat /\ MaxBoardEdits \in Nat /\ Stroke \subseteq Wire
  /\ \A c \in Connection : /\ Ways[c] \subseteq AnyWay /\ NoWay \notin Ways[c]
                           /\ \A w \in Ways[c] \cup {NoWay} : w.cells \subseteq Cell
  /\ NoWay \in AnyWay
<1>1. NoWay.cells = {}
  BY DEF NoWay
<1>2. ASSUME NEW c \in Connection, NEW w \in Ways[c] PROVE w.cells # {} /\ w.cells \subseteq Cell
  <2>1. w.cells \in (SUBSET Cell) \ {{}}
    BY AutoRouteConstants
  <2> QED
    BY <2>1
<1>3. \A c \in Connection : /\ Ways[c] \subseteq AnyWay /\ NoWay \notin Ways[c]
                           /\ \A w \in Ways[c] \cup {NoWay} : w.cells \subseteq Cell
  BY <1>1, <1>2 DEF AnyWay
<1>4. Stroke \subseteq Wire
  BY AutoRouteConstants DEF Wire
<1>5. NoWay \in AnyWay
  <2> DEFINE U == UNION {Ways[c] : c \in Connection}
  <2>1. AnyWay = {NoWay} \cup U
    BY DEF AnyWay
  <2> HIDE DEF U
  <2> QED
    BY <2>1
<1> QED
  BY AutoRouteConstants, <1>3, <1>4, <1>5

LEMMA CommitsFields ==
  ASSUME NEW run \in WorkRecord, NEW c \in Connection, NEW w \in AnyWay
  PROVE  LET new == Commits(run, c, w) IN
         /\ new \in WorkRecord /\ new.committed = Append(run.committed, c)
         /\ new.todo = run.todo /\ new.still = run.still /\ new.ripped = run.ripped
         /\ new.way = [run.way EXCEPT ![c] = w] /\ new.fresh = run.fresh
         /\ new.by = run.by
<1>1. Append(run.committed, c) \in Seq(Connection)
      /\ [run.way EXCEPT ![c] = w] \in [Connection -> AnyWay]
  BY DEF WorkRecord
<1> QED
  BY <1>1 DEF WorkRecord, Commits

LEMMA GivenUpFields ==
  ASSUME NEW run \in WorkRecord, NEW c \in Connection
  PROVE  LET new == GivenUp(run, c) IN
         /\ new \in WorkRecord /\ new.still = Append(run.still, c)
         /\ new.todo = run.todo /\ new.committed = run.committed /\ new.ripped = run.ripped
         /\ new.way = [run.way EXCEPT ![c] = NoWay] /\ new.fresh = run.fresh
         /\ new.by = run.by
<1>1. Append(run.still, c) \in Seq(Connection)
      /\ [run.way EXCEPT ![c] = NoWay] \in [Connection -> AnyWay]
  BY AutoSizes DEF WorkRecord
<1> QED
  BY <1>1 DEF WorkRecord, GivenUp

LEMMA CommitsHolds ==
  ASSUME NEW c \in Connection, NEW run, Holds(run, Connection \ {c}), NEW w \in Ways[c]
  PROVE  Holds(Commits(run, c, w), Connection)
<1> DEFINE new == Commits(run, c, w)
<1>1. run \in WorkRecord /\ w \in AnyWay /\ w # NoWay /\ run.way \in [Connection -> AnyWay]
      /\ run.committed \in Seq(Connection)
  BY AutoSizes DEF Holds, WorkRecord
<1>2. /\ new \in WorkRecord /\ new.committed = Append(run.committed, c)
      /\ new.todo = run.todo /\ new.still = run.still /\ new.ripped = run.ripped
      /\ new.way = [run.way EXCEPT ![c] = w]
  BY <1>1, CommitsFields
<1> HIDE DEF new
<1>3. /\ IsInjective(run.committed) /\ c \notin ToSet(run.committed) /\ c \notin ToSet(run.todo)
      /\ c \notin ToSet(run.still) /\ c \notin ToSet(run.ripped)
  BY DEF Holds, Spread
<1>4. IsInjective(new.committed) /\ ToSet(new.committed) = ToSet(run.committed) \cup {c}
  BY <1>1, <1>2, <1>3, AddedOnce
<1>5. Spread(new, Connection)
  BY <1>2, <1>3, <1>4 DEF Holds, Spread
<1>6. \A d \in Connection : new.way[d] = IF d = c THEN w ELSE run.way[d]
  BY <1>1, <1>2
<1>7. ToSet(run.committed) \subseteq Connection
  BY DEF Holds, Spread
<1>8. \A d \in Connection : new.way[d] \in Ways[d] \cup {NoWay}
  BY <1>6 DEF Holds
<1>9. \A d \in ToSet(new.committed) : new.way[d] # NoWay
  BY <1>1, <1>4, <1>6, <1>7 DEF Holds
<1> QED
  BY <1>2, <1>5, <1>8, <1>9 DEF Holds, new

LEMMA GivenUpHolds ==
  ASSUME NEW c \in Connection, NEW run, Holds(run, Connection \ {c})
  PROVE  Holds(GivenUp(run, c), Connection)
<1> DEFINE new == GivenUp(run, c)
<1>1. run \in WorkRecord /\ run.way \in [Connection -> AnyWay] /\ run.still \in Seq(Connection)
  BY DEF Holds, WorkRecord
<1>2. /\ new \in WorkRecord /\ new.still = Append(run.still, c)
      /\ new.todo = run.todo /\ new.committed = run.committed /\ new.ripped = run.ripped
      /\ new.way = [run.way EXCEPT ![c] = NoWay]
  BY <1>1, GivenUpFields
<1> HIDE DEF new
<1>3. /\ IsInjective(run.still) /\ c \notin ToSet(run.committed) /\ c \notin ToSet(run.todo)
      /\ c \notin ToSet(run.still) /\ c \notin ToSet(run.ripped)
  BY DEF Holds, Spread
<1>4. IsInjective(new.still) /\ ToSet(new.still) = ToSet(run.still) \cup {c}
  BY <1>1, <1>2, <1>3, AddedOnce
<1>5. Spread(new, Connection)
  BY <1>2, <1>3, <1>4 DEF Holds, Spread
<1>6. \A d \in Connection : new.way[d] = IF d = c THEN NoWay ELSE run.way[d]
  BY <1>1, <1>2
<1>7. ToSet(run.committed) \subseteq Connection
  BY DEF Holds, Spread
<1>8. \A d \in Connection : new.way[d] \in Ways[d] \cup {NoWay}
  BY <1>6 DEF Holds
<1>9. \A d \in ToSet(new.committed) : new.way[d] # NoWay
  BY <1>2, <1>3, <1>6, <1>7 DEF Holds
<1> QED
  BY <1>2, <1>5, <1>8, <1>9 DEF Holds, new

LEMMA TodoTaken ==
  ASSUME NEW run, Holds(run, Connection), run.todo # <<>>
  PROVE  LET new == [run EXCEPT !.todo = Tail(@)] IN
         /\ Head(run.todo) \in Connection /\ Holds(new, Connection \ {Head(run.todo)})
         /\ new.committed = run.committed /\ new.ripped = run.ripped /\ new.way = run.way
         /\ new.fresh = run.fresh /\ new.by = run.by
<1> DEFINE new == [run EXCEPT !.todo = Tail(@)]
           h == Head(run.todo)
<1>1. run \in WorkRecord /\ run.todo \in Seq(Connection) /\ IsInjective(run.todo)
  BY DEF Holds, WorkRecord, Spread
<1>2. /\ Tail(run.todo) \in Seq(Connection) /\ IsInjective(Tail(run.todo))
      /\ h \in Connection /\ h \in ToSet(run.todo)
      /\ ToSet(Tail(run.todo)) = ToSet(run.todo) \ {h}
  BY <1>1, TakenOnce
<1>3. /\ new \in WorkRecord /\ new.todo = Tail(run.todo) /\ new.still = run.still
      /\ new.committed = run.committed /\ new.ripped = run.ripped /\ new.way = run.way
      /\ new.fresh = run.fresh /\ new.by = run.by
  BY <1>1, <1>2 DEF WorkRecord
<1> HIDE DEF new, h
<1>4. Spread(new, Connection \ {h})
  BY <1>2, <1>3 DEF Holds, Spread
<1> QED
  BY <1>2, <1>3, <1>4 DEF Holds, new, h

LEMMA RippedTaken ==
  ASSUME NEW run, Holds(run, Connection), run.ripped # <<>>
  PROVE  LET new == [run EXCEPT !.ripped = Tail(@)] IN
         /\ Head(run.ripped) \in Connection /\ Holds(new, Connection \ {Head(run.ripped)})
         /\ new.committed = run.committed /\ new.way = run.way
         /\ new.fresh = run.fresh /\ new.by = run.by
<1> DEFINE new == [run EXCEPT !.ripped = Tail(@)]
           h == Head(run.ripped)
<1>1. run \in WorkRecord /\ run.ripped \in Seq(Connection) /\ IsInjective(run.ripped)
  BY DEF Holds, WorkRecord, Spread
<1>2. /\ Tail(run.ripped) \in Seq(Connection) /\ IsInjective(Tail(run.ripped))
      /\ h \in Connection /\ h \in ToSet(run.ripped)
      /\ ToSet(Tail(run.ripped)) = ToSet(run.ripped) \ {h}
  BY <1>1, TakenOnce
<1>3. /\ new \in WorkRecord /\ new.ripped = Tail(run.ripped) /\ new.still = run.still
      /\ new.committed = run.committed /\ new.todo = run.todo /\ new.way = run.way
      /\ new.fresh = run.fresh /\ new.by = run.by
  BY <1>1, <1>2 DEF WorkRecord
<1> HIDE DEF new, h
<1>4. Spread(new, Connection \ {h})
  BY <1>2, <1>3 DEF Holds, Spread
<1> QED
  BY <1>2, <1>3, <1>4 DEF Holds, new, h

(* Ripping up moves committed connections to those that were ripped up.    *)
RunWithout(run, left, blockers) ==
  [run EXCEPT !.committed = left, !.ripped = blockers, !.progress = TRUE]

GoesOn(run, new, left, X) ==
  /\ Holds(new, X) /\ new.committed = left /\ ToSet(left) \subseteq ToSet(run.committed)
  /\ new.way = run.way /\ new.fresh = run.fresh /\ new.by = run.by

LEMMA RippedUp ==
  ASSUME NEW X \in SUBSET Connection, NEW run, Holds(run, X), run.ripped = <<>>,
         NEW blockers \in Seq(Connection), IsInjective(blockers),
         ToSet(blockers) \subseteq ToSet(run.committed), NEW left,
         left = Among(run.committed, Connection \ ToSet(blockers))
  PROVE  GoesOn(run, RunWithout(run, left, blockers), left, X)
<1> DEFINE new == RunWithout(run, left, blockers)
<1>1. run \in WorkRecord /\ run.committed \in Seq(Connection) /\ IsInjective(run.committed)
      /\ ToSet(run.committed) \subseteq Connection
  BY DEF Holds, WorkRecord, Spread
<1>2. /\ left \in Seq(Connection) /\ IsInjective(left)
      /\ ToSet(left) = ToSet(run.committed) \cap (Connection \ ToSet(blockers))
  BY <1>1, AmongOnce
<1>3. /\ new \in WorkRecord /\ new.committed = left /\ new.ripped = blockers
      /\ new.todo = run.todo /\ new.still = run.still
      /\ new.way = run.way /\ new.fresh = run.fresh /\ new.by = run.by
  BY <1>1, <1>2 DEF WorkRecord, RunWithout
<1> HIDE DEF new
<1>4. ToSet(left) \cup ToSet(blockers) = ToSet(run.committed) /\ ToSet(left) \cap ToSet(blockers) = {}
  BY <1>1, <1>2
<1>5. ToSet(run.ripped) = {}
  BY DEF ToSet
<1>6. Spread(new, X)
  BY <1>2, <1>3, <1>4, <1>5 DEF Holds, Spread
<1> QED
  BY <1>2, <1>3, <1>6 DEF Holds, GoesOn, new

LEMMA BlockersOnce ==
  ASSUME NEW failed, work \in WorkRecord, IsInjective(work.committed)
  PROVE  /\ Blockers(failed) \in Seq(Connection) /\ IsInjective(Blockers(failed))
         /\ ToSet(Blockers(failed)) \subseteq ToSet(work.committed)
<1> DEFINE S == {c \in Connection : InTheWay(c, failed)}
           all == Among(work.committed, S)
           n == IF Len(all) > MaxBlockers THEN MaxBlockers ELSE Len(all)
<1>1. work.committed \in Seq(Connection)
  BY DEF WorkRecord
<1> HIDE DEF S
<1>2. /\ all \in Seq(Connection) /\ IsInjective(all) /\ ToSet(all) \subseteq ToSet(work.committed)
  BY <1>1, AmongOnce
<1>3. Blockers(failed) = SubSeq(all, 1, n)
  BY DEF Blockers, S
<1> HIDE DEF all
<1>4. n \in 0..Len(all)
  BY <1>2 DEF MaxBlockers
<1> HIDE DEF n
<1> QED
  BY <1>2, <1>3, <1>4, FrontOnce

LEMMA AllAccounted ==
  ASSUME NEW run, Holds(run, Connection)
  PROVE  LET all == run.todo \o run.still \o run.ripped \o run.committed IN
         ToSet(all) = Connection /\ Len(all) = Cardinality(Connection)
<1> DEFINE a == run.todo \o run.still
           b == a \o run.ripped
           d == b \o run.committed
<1>1. /\ run.todo \in Seq(Connection) /\ run.still \in Seq(Connection)
      /\ run.ripped \in Seq(Connection) /\ run.committed \in Seq(Connection)
  BY DEF Holds, WorkRecord
<1>2. a \in Seq(Connection) /\ IsInjective(a) /\ ToSet(a) = ToSet(run.todo) \cup ToSet(run.still)
  BY <1>1, JoinedOnce DEF Holds, Spread
<1> HIDE DEF a
<1>3. b \in Seq(Connection) /\ IsInjective(b) /\ ToSet(b) = ToSet(a) \cup ToSet(run.ripped)
  BY <1>1, <1>2, JoinedOnce DEF Holds, Spread
<1> HIDE DEF b
<1>4. d \in Seq(Connection) /\ IsInjective(d) /\ ToSet(d) = ToSet(b) \cup ToSet(run.committed)
  BY <1>1, <1>2, <1>3, JoinedOnce DEF Holds, Spread
<1> HIDE DEF d
<1>5. ToSet(d) = Connection
  BY <1>2, <1>3, <1>4 DEF Holds, Spread
<1>6. Len(d) = Cardinality(Connection)
  BY <1>4, <1>5, OnceCounted
<1> QED
  BY <1>5, <1>6 DEF a, b, d

(* Copper that is laid.                                                    *)
LEMMA LaidMore ==
  ASSUME NEW old, NEW new, NEW p, NEW q, NEW c, NEW w, ToSet(q) = ToSet(p) \cup {c},
         \A d \in ToSet(p) : d # c /\ new.way[d] = old.way[d], new.way[c] = w
  PROVE  LaidAll(new, q) = LaidAll(old, p) \cup Laid(c, w)
BY DEF LaidAll

LEMMA LaidSame ==
  ASSUME NEW old, NEW new, NEW p, \A d \in ToSet(p) : new.way[d] = old.way[d]
  PROVE  LaidAll(new, p) = LaidAll(old, p)
BY DEF LaidAll

LEMMA LaidLess ==
  ASSUME NEW run, NEW p, NEW q, ToSet(p) \subseteq ToSet(q)
  PROVE  LaidAll(run, p) \subseteq LaidAll(run, q)
BY DEF LaidAll

LEMMA LaidWire ==
  ASSUME NEW c \in Connection, NEW w \in Ways[c] \cup {NoWay}
  PROVE  Laid(c, w) \subseteq Wire
<1>1. w.cells \subseteq Cell
  BY AutoSizes
<1> QED
  BY <1>1 DEF Laid, Wire

LEMMA LaidAllWire ==
  ASSUME NEW run, NEW q, ToSet(q) \subseteq Connection,
         \A c \in Connection : run.way[c] \in Ways[c] \cup {NoWay}
  PROVE  LaidAll(run, q) \subseteq Wire
<1>1. \A c \in ToSet(q) : Laid(c, run.way[c]) \subseteq Wire
  BY LaidWire
<1> QED
  BY <1>1 DEF LaidAll

LEMMA FreeKeepsApart ==
  ASSUME NEW copper, Apart(copper), NEW c, NEW w \in FreeWays(c, copper)
  PROVE  Apart(copper \cup Laid(c, w))
<1>1. \A x \in copper : x.cell \in w.cells => x.net = NetOf[c]
  BY DEF FreeWays
<1>2. \A x \in Laid(c, w) : x.net = NetOf[c] /\ x.cell \in w.cells
  BY DEF Laid
<1> QED
  BY <1>1, <1>2 DEF Apart

LEMMA LessApart ==
  ASSUME NEW a, NEW b, a \subseteq b, Apart(b) PROVE Apart(a)
BY DEF Apart

-----------------------------------------------------------------------------
(* One run of the design tool at most is anywhere; that of a run at work,  *)
(* and its result, are of the document as it is.                           *)
ToolAlone ==
  /\ \A a, b \in started : a.by = "tool" /\ b.by = "tool" => a = b
  /\ \A a, b \in finished : a.by = "tool" /\ b.by = "tool" => a = b
  /\ \A a \in started : a.by = "tool" => work.by # "tool" /\ \A b \in finished : b.by # "tool"
  /\ work.by = "tool" => \A b \in finished : b.by # "tool"
ToolFresh ==
  /\ work.by = "tool" => work.fresh
  /\ \A r \in finished : r.by = "tool" => r.fresh
RouteResult == [by : {"menu", "chat", "tool"}, id : 1..MaxRouteRuns,
           fresh : BOOLEAN, ok : BOOLEAN, copper : SUBSET Wire]

AutoInv ==
  /\ drawing \subseteq Wire /\ nativeBoard \subseteq Wire
  /\ routable \in BOOLEAN /\ spoiled \in BOOLEAN
  /\ started \subseteq RouteRun /\ finished \subseteq RouteResult /\ routeRuns \in 0..MaxRouteRuns
  /\ work = NoWork \/ Holds(work, Connection)
  /\ BoardTrue
  /\ ~spoiled => Apart(drawing) /\ \A r \in finished : r.fresh => Apart(drawing \cup r.copper)
  /\ ToolAlone /\ ToolFresh

LEMMA NobodyElse ==
  /\ NoWork.by = "nobody" /\ NoWork.by # "tool"
  /\ \A run \in WorkRecord : run # NoWork
  /\ \A run : Holds(run, Connection) => run # NoWork
<1>1. NoWork.by = "nobody" /\ NoWork.by # "tool"
  BY DEF NoWork
<1>2. \A run \in WorkRecord : run.by # "nobody"
  BY DEF WorkRecord
<1> QED
  BY <1>1, <1>2 DEF Holds

(* A step of the router that commits, gives up or rips up.                 *)
LEMMA RunKeeps ==
  ASSUME AutoInv, work # NoWork, Holds(work', Connection), work'.fresh = work.fresh,
         work'.by = work.by,
         nativeBoard' \subseteq Wire, Window, UNCHANGED finished,
         work.fresh => /\ nativeBoard' = drawing \cup LaidAll(work', work'.committed)
                       /\ ~spoiled => Apart(nativeBoard')
  PROVE  AutoInv'
<1>1. UNCHANGED <<drawing, routable, started, spoiled, routeRuns, finished>>
  BY DEF Window
<1>2. BoardTrue'
  BY <1>1 DEF BoardTrue
<1>3. ToolAlone' /\ ToolFresh'
  BY <1>1 DEF AutoInv, ToolAlone, ToolFresh
<1> QED
  BY <1>1, <1>2, <1>3 DEF AutoInv

(* routeOne, for a connection in none of the lists.                        *)
LEMMA RouteOneKeeps ==
  ASSUME AutoInv, work # NoWork, NEW c \in Connection, NEW run, Holds(run, Connection \ {c}),
         run.fresh = work.fresh, run.by = work.by, run.committed = work.committed, run.way = work.way,
         RouteOne(run, c, nativeBoard), Window, UNCHANGED finished
  PROVE  AutoInv'
<1>1. run \in WorkRecord /\ c \notin ToSet(run.committed) /\ run.committed \in Seq(Connection)
      /\ IsInjective(run.committed) /\ run.way \in [Connection -> AnyWay]
      /\ ToSet(run.committed) \subseteq Connection
  BY DEF Holds, Spread, WorkRecord
<1>2. /\ nativeBoard \subseteq Wire
      /\ work.fresh => /\ nativeBoard = drawing \cup LaidAll(run, run.committed)
                       /\ ~spoiled => Apart(nativeBoard)
  <2>1. LaidAll(work, work.committed) = LaidAll(run, run.committed)
    BY DEF LaidAll
  <2> QED
    BY <2>1 DEF AutoInv, BoardTrue
<1>3. ASSUME NEW w \in FreeWays(c, nativeBoard), CommitOn(run, c, w, nativeBoard)
      PROVE  AutoInv'
  <2>1. w \in Ways[c] /\ w \in AnyWay
    BY AutoSizes DEF FreeWays
  <2>2. Holds(Commits(run, c, w), Connection)
    BY <2>1, CommitsHolds
  <2>3. work' = Commits(run, c, w) /\ nativeBoard' = nativeBoard \cup Laid(c, w)
    BY <1>3 DEF CommitOn
  <2>4. /\ work'.committed = Append(run.committed, c) /\ work'.way = [run.way EXCEPT ![c] = w]
        /\ work'.fresh = run.fresh /\ work'.by = run.by
    BY <1>1, <2>1, <2>3, CommitsFields
  <2>5. ToSet(work'.committed) = ToSet(run.committed) \cup {c}
    BY <1>1, <2>4, AddedOnce
  <2>6. LaidAll(work', work'.committed) = LaidAll(run, run.committed) \cup Laid(c, w)
    <3>1. \A d \in ToSet(run.committed) : d # c /\ work'.way[d] = run.way[d]
      BY <1>1, <2>4
    <3>2. work'.way[c] = w
      BY <1>1, <2>4
    <3> QED
      BY <2>5, <3>1, <3>2 DEF LaidAll
  <2>7. nativeBoard' \subseteq Wire
    BY <1>2, <2>1, <2>3, LaidWire
  <2>8. work.fresh => nativeBoard' = drawing \cup LaidAll(work', work'.committed)
    BY <1>2, <2>3, <2>6
  <2>9. work.fresh /\ ~spoiled => Apart(nativeBoard')
    BY <1>2, <1>3, <2>3, FreeKeepsApart
  <2> QED
    BY <2>2, <2>3, <2>4, <2>7, <2>8, <2>9, RunKeeps
<1>4. ASSUME work' = GivenUp(run, c), nativeBoard' = nativeBoard
      PROVE  AutoInv'
  <2>1. Holds(work', Connection)
    BY <1>4, GivenUpHolds
  <2>2. /\ work'.committed = run.committed /\ work'.way = [run.way EXCEPT ![c] = NoWay]
        /\ work'.fresh = run.fresh /\ work'.by = run.by
    BY <1>1, <1>4, GivenUpFields
  <2>3. LaidAll(work', work'.committed) = LaidAll(run, run.committed)
    <3>1. \A d \in ToSet(run.committed) : work'.way[d] = run.way[d]
      BY <1>1, <2>2
    <3> QED
      BY <2>2, <3>1 DEF LaidAll
  <2> QED
    BY <1>2, <1>4, <2>1, <2>2, <2>3, RunKeeps
<1> QED
  BY <1>3, <1>4 DEF RouteOne

LEMMA GreedyKeeps == ASSUME AutoInv, Greedy PROVE AutoInv'
<1> DEFINE run == [work EXCEPT !.todo = Tail(@)]
<1>1. /\ work # NoWork /\ work.todo # <<>> /\ Window /\ UNCHANGED finished
      /\ RouteOne(run, Head(work.todo), nativeBoard)
  BY DEF Greedy
<1>2. Holds(work, Connection)
  BY <1>1 DEF AutoInv
<1>3. /\ Head(work.todo) \in Connection /\ Holds(run, Connection \ {Head(work.todo)})
      /\ run.committed = work.committed /\ run.way = work.way
      /\ run.fresh = work.fresh /\ run.by = work.by
  BY <1>1, <1>2, TodoTaken
<1> HIDE DEF run
<1> QED
  BY <1>1, <1>3, RouteOneKeeps

LEMMA RerouteKeeps == ASSUME AutoInv, Reroute PROVE AutoInv'
<1> DEFINE run == [work EXCEPT !.ripped = Tail(@)]
<1>1. /\ work # NoWork /\ work.ripped # <<>> /\ Window /\ UNCHANGED finished
      /\ RouteOne(run, Head(work.ripped), nativeBoard)
  BY DEF Reroute
<1>2. Holds(work, Connection)
  BY <1>1 DEF AutoInv
<1>3. /\ Head(work.ripped) \in Connection /\ Holds(run, Connection \ {Head(work.ripped)})
      /\ run.committed = work.committed /\ run.way = work.way
      /\ run.fresh = work.fresh /\ run.by = work.by
  BY <1>1, <1>2, RippedTaken
<1> HIDE DEF run
<1> QED
  BY <1>1, <1>3, RouteOneKeeps

LEMMA StillHolds ==
  ASSUME NEW c \in Connection, NEW run, Holds(run, Connection \ {c})
  PROVE  LET new == [run EXCEPT !.still = Append(@, c)] IN
         /\ Holds(new, Connection) /\ new.committed = run.committed /\ new.way = run.way
         /\ new.fresh = run.fresh /\ new.by = run.by
<1> DEFINE new == [run EXCEPT !.still = Append(@, c)]
<1>1. run \in WorkRecord /\ run.still \in Seq(Connection) /\ Append(run.still, c) \in Seq(Connection)
  BY DEF Holds, WorkRecord
<1>2. /\ new \in WorkRecord /\ new.still = Append(run.still, c)
      /\ new.todo = run.todo /\ new.committed = run.committed /\ new.ripped = run.ripped
      /\ new.way = run.way /\ new.fresh = run.fresh /\ new.by = run.by
  BY <1>1 DEF WorkRecord
<1> HIDE DEF new
<1>3. /\ IsInjective(run.still) /\ c \notin ToSet(run.committed) /\ c \notin ToSet(run.todo)
      /\ c \notin ToSet(run.still) /\ c \notin ToSet(run.ripped)
  BY DEF Holds, Spread
<1>4. IsInjective(new.still) /\ ToSet(new.still) = ToSet(run.still) \cup {c}
  BY <1>1, <1>2, <1>3, AddedOnce
<1>5. Spread(new, Connection)
  BY <1>2, <1>3, <1>4 DEF Holds, Spread
<1> QED
  BY <1>2, <1>5 DEF Holds, new

LEMMA RipUpKeeps == ASSUME AutoInv, RipUp PROVE AutoInv'
<1> DEFINE failed == Head(work.todo)
           blockers == Blockers(failed)
           left == Among(work.committed, Connection \ ToSet(blockers))
           next == [work EXCEPT !.todo = Tail(@)]
           copper == drawing \cup LaidAll(work, left)
           rid == RunWithout(next, left, blockers)
<1>1. /\ work # NoWork /\ work.ripped = <<>> /\ work.todo # <<>> /\ Window /\ UNCHANGED finished
      /\ \/ blockers = <<>> /\ work' = [next EXCEPT !.still = Append(@, failed)]
            /\ UNCHANGED nativeBoard
         \/ \E w \in FreeWays(failed, copper) : CommitOn(rid, failed, w, copper)
         \/ work' = GivenUp(next, failed) /\ nativeBoard' = drawing \cup LaidAll(work, PutBack(left))
  BY DEF RipUp, RunWithout
<1>2. Holds(work, Connection)
  BY <1>1 DEF AutoInv
<1>3. /\ failed \in Connection /\ Holds(next, Connection \ {failed})
      /\ next.committed = work.committed /\ next.ripped = work.ripped /\ next.way = work.way
      /\ next.fresh = work.fresh /\ next.by = work.by
  BY <1>1, <1>2, TodoTaken
<1>4. /\ work \in WorkRecord /\ IsInjective(work.committed) /\ work.committed \in Seq(Connection)
      /\ ToSet(work.committed) \subseteq Connection
      /\ \A c \in Connection : work.way[c] \in Ways[c] \cup {NoWay}
  BY <1>2 DEF Holds, Spread, WorkRecord
<1>5. /\ blockers \in Seq(Connection) /\ IsInjective(blockers)
      /\ ToSet(blockers) \subseteq ToSet(next.committed)
  BY <1>3, <1>4, BlockersOnce
<1> HIDE DEF blockers, next, failed
<1>6. /\ Holds(rid, Connection \ {failed}) /\ rid.committed = left
      /\ ToSet(left) \subseteq ToSet(work.committed)
      /\ rid.way = work.way /\ rid.fresh = work.fresh /\ rid.by = work.by
  <2>1. Connection \ {failed} \in SUBSET Connection
    OBVIOUS
  <2>2. next.ripped = <<>> /\ left = Among(next.committed, Connection \ ToSet(blockers))
    BY <1>1, <1>3
  <2> DEFINE X == Connection \ {failed}
  <2> HIDE DEF left
  <2>3. Holds(next, X) /\ X \in SUBSET Connection
    BY <1>3
  <2> HIDE DEF X
  <2>4. GoesOn(next, rid, left, X)
    BY <1>5, <2>2, <2>3, RippedUp
  <2> QED
    BY <1>3, <2>4 DEF GoesOn, X
<1> HIDE DEF left, rid
<1>7. /\ drawing \subseteq Wire /\ nativeBoard \subseteq Wire
      /\ work.fresh => /\ nativeBoard = drawing \cup LaidAll(work, work.committed)
                       /\ ~spoiled => Apart(nativeBoard)
  BY <1>1 DEF AutoInv, BoardTrue
<1>8. /\ LaidAll(work, work.committed) \subseteq Wire /\ copper \subseteq Wire
      /\ LaidAll(work, left) \subseteq LaidAll(work, work.committed)
  <2>1. ToSet(left) \subseteq Connection
    BY <1>4, <1>6
  <2> QED
    BY <1>4, <1>6, <1>7, <2>1, LaidAllWire, LaidLess
<1>9. CASE work' = [next EXCEPT !.still = Append(@, failed)] /\ UNCHANGED nativeBoard
  <2>1. /\ Holds(work', Connection) /\ work'.committed = next.committed /\ work'.way = next.way
        /\ work'.fresh = next.fresh /\ work'.by = next.by
    BY <1>3, <1>9, StillHolds
  <2>2. LaidAll(work', work'.committed) = LaidAll(work, work.committed)
    BY <1>3, <2>1 DEF LaidAll
  <2> QED
    BY <1>1, <1>3, <1>7, <1>9, <2>1, <2>2, RunKeeps
<1>10. ASSUME NEW w \in FreeWays(failed, copper), CommitOn(rid, failed, w, copper)
       PROVE  AutoInv'
  <2>1. w \in Ways[failed] /\ w \in AnyWay
    BY <1>3, AutoSizes DEF FreeWays
  <2>2. rid \in WorkRecord /\ rid.committed \in Seq(Connection) /\ IsInjective(rid.committed)
        /\ rid.way \in [Connection -> AnyWay] /\ failed \notin ToSet(rid.committed)
        /\ ToSet(rid.committed) \subseteq Connection
    BY <1>6 DEF Holds, Spread, WorkRecord
  <2>3. work' = Commits(rid, failed, w) /\ nativeBoard' = copper \cup Laid(failed, w)
    BY <1>10 DEF CommitOn
  <2>4. Holds(work', Connection)
    BY <1>3, <1>6, <2>1, <2>3, CommitsHolds
  <2>5. /\ work'.committed = Append(rid.committed, failed)
        /\ work'.way = [rid.way EXCEPT ![failed] = w]
        /\ work'.fresh = rid.fresh /\ work'.by = rid.by
    BY <1>3, <2>1, <2>2, <2>3, CommitsFields
  <2>6. ToSet(work'.committed) = ToSet(rid.committed) \cup {failed}
    BY <1>3, <2>2, <2>5, AddedOnce
  <2>7. LaidAll(work', work'.committed) = LaidAll(work, left) \cup Laid(failed, w)
    <3>1. \A d \in ToSet(left) : d # failed /\ work'.way[d] = work.way[d]
      BY <1>6, <2>2, <2>5
    <3>2. work'.way[failed] = w
      BY <1>3, <2>2, <2>5
    <3> QED
      BY <1>6, <2>6, <3>1, <3>2 DEF LaidAll
  <2>8. nativeBoard' \subseteq Wire
    BY <1>3, <1>8, <2>1, <2>3, LaidWire
  <2>9. work.fresh /\ ~spoiled => Apart(copper)
    <3>1. work.fresh => copper \subseteq nativeBoard
      BY <1>7, <1>8
    <3> QED
      BY <1>7, <3>1, LessApart
  <2>10. work.fresh /\ ~spoiled => Apart(nativeBoard')
    BY <1>10, <2>3, <2>9, FreeKeepsApart
  <2>11. nativeBoard' = drawing \cup LaidAll(work', work'.committed)
    BY <2>3, <2>7
  <2> QED
    BY <1>1, <1>6, <2>4, <2>5, <2>8, <2>10, <2>11, RunKeeps
<1>11. CASE work' = GivenUp(next, failed) /\ nativeBoard' = drawing \cup LaidAll(work, PutBack(left))
  <2>1. next \in WorkRecord /\ next.way \in [Connection -> AnyWay]
        /\ failed \notin ToSet(next.committed)
    BY <1>3 DEF Holds, Spread, WorkRecord
  <2>2. Holds(work', Connection)
    BY <1>3, <1>11, GivenUpHolds
  <2>3. /\ work'.committed = next.committed /\ work'.way = [next.way EXCEPT ![failed] = NoWay]
        /\ work'.fresh = next.fresh /\ work'.by = next.by
    BY <1>3, <1>11, <2>1, GivenUpFields
  <2>4. LaidAll(work', work'.committed) = LaidAll(work, work.committed)
    <3>1. \A d \in ToSet(work.committed) : work'.way[d] = work.way[d]
      BY <1>3, <1>4, <2>1, <2>3
    <3> QED
      BY <1>3, <2>3, <3>1 DEF LaidAll
  <2>5. nativeBoard' = drawing \cup LaidAll(work', work'.committed)
    BY <1>11, <2>4 DEF PutBack
  <2>6. nativeBoard' \subseteq Wire /\ (work.fresh => nativeBoard' = nativeBoard)
    BY <1>7, <1>8, <2>4, <2>5
  <2> QED
    BY <1>1, <1>3, <1>7, <2>2, <2>3, <2>5, <2>6, RunKeeps
<1> QED
  BY <1>1, <1>9, <1>10, <1>11

LEMMA EndPassKeeps == ASSUME AutoInv, EndPass PROVE AutoInv'
<1>1. /\ work # NoWork /\ work.todo = <<>> /\ work.ripped = <<>> /\ Window /\ UNCHANGED nativeBoard
      /\ Holds(work, Connection)
  BY DEF EndPass, AutoInv
<1>2. /\ work \in WorkRecord /\ ToSet(work.committed) \subseteq Connection
      /\ \A c \in Connection : work.way[c] \in Ways[c] \cup {NoWay}
  BY <1>1 DEF Holds, Spread
<1>3. /\ work.fresh => /\ nativeBoard = drawing \cup LaidAll(work, work.committed)
                       /\ ~spoiled => Apart(nativeBoard)
  BY <1>1 DEF AutoInv, BoardTrue
<1>4. CASE /\ MorePasses /\ UNCHANGED finished
           /\ work' = [work EXCEPT !.todo = work.still, !.still = <<>>, !.pass = @ + 1,
                                   !.progress = FALSE]
  <2>1. work.pass + 1 \in 0..MaxPasses /\ <<>> \in Seq(Connection)
    BY <1>2, <1>4 DEF MorePasses, WorkRecord, MaxPasses
  <2>2. /\ work' \in WorkRecord /\ work'.todo = work.still /\ work'.still = <<>>
        /\ work'.committed = work.committed /\ work'.ripped = work.ripped
        /\ work'.way = work.way /\ work'.fresh = work.fresh /\ work'.by = work.by
    BY <1>2, <1>4, <2>1 DEF WorkRecord
  <2>3. ToSet(<<>>) = {} /\ IsInjective(<<>>)
    BY DEF ToSet, IsInjective
  <2>4. Spread(work', Connection)
    BY <1>1, <2>2, <2>3 DEF Holds, Spread
  <2>5. Holds(work', Connection)
    BY <1>1, <2>2, <2>4 DEF Holds
  <2>6. LaidAll(work', work'.committed) = LaidAll(work, work.committed)
    BY <2>2 DEF LaidAll
  <2>7. nativeBoard' \subseteq Wire
    BY <1>1 DEF AutoInv
  <2> QED
    BY <1>1, <1>3, <1>4, <2>2, <2>5, <2>6, <2>7, RunKeeps
<1>5. ASSUME finished' = finished \cup
               {[by |-> work.by, id |-> work.id, fresh |-> work.fresh, ok |-> work.still = <<>>,
                 copper |-> LaidAll(work, work.committed)]},
             work' = NoWork
      PROVE  AutoInv'
  <2> DEFINE new == [by |-> work.by, id |-> work.id, fresh |-> work.fresh, ok |-> work.still = <<>>,
                     copper |-> LaidAll(work, work.committed)]
  <2>1. LaidAll(work, work.committed) \subseteq Wire
    BY <1>2, LaidAllWire
  <2>2. /\ new \in RouteResult /\ new.by = work.by /\ new.fresh = work.fresh
        /\ new.copper = LaidAll(work, work.committed)
    <3>1. (work.still = <<>>) \in BOOLEAN
      OBVIOUS
    <3> QED
      BY <1>2, <2>1, <3>1 DEF WorkRecord, RouteResult
  <2>3. finished' = finished \cup {new}
    BY <1>5
  <2> HIDE DEF new
  <2>4. UNCHANGED <<drawing, nativeBoard, routable, started, spoiled, routeRuns>>
    BY <1>1 DEF Window
  <2>5. BoardTrue'
    BY <1>5 DEF BoardTrue
  <2>6. ~spoiled' => Apart(drawing') /\ \A r \in finished' : r.fresh => Apart(drawing' \cup r.copper)
    BY <1>3, <2>2, <2>3, <2>4 DEF AutoInv
  <2>7. ToolAlone' /\ ToolFresh'
    BY <1>5, <2>2, <2>3, <2>4, NobodyElse DEF AutoInv, ToolAlone, ToolFresh
  <2> QED
    BY <1>5, <2>2, <2>3, <2>4, <2>5, <2>6, <2>7 DEF AutoInv
<1> QED
  BY <1>4, <1>5 DEF EndPass

LEMMA BeginRunKeeps == ASSUME AutoInv, NEW r \in started, BeginRun(r) PROVE AutoInv'
<1>1. /\ work = NoWork /\ started' = started \ {r}
      /\ UNCHANGED <<drawing, routable, spoiled, routeRuns>> /\ r \in RouteRun
  BY DEF BeginRun, AutoInv
<1>2. r.by \in {"menu", "chat", "tool"} /\ r.id \in 1..MaxRouteRuns
  BY <1>1 DEF RouteRun
<1>3. CASE /\ nativeBoard' = drawing /\ UNCHANGED finished
           /\ work' = [by |-> r.by, id |-> r.id, fresh |-> TRUE, pass |-> 0, progress |-> FALSE,
                       todo |-> [c \in Connection |-> c], still |-> <<>>, committed |-> <<>>,
                       ripped |-> <<>>, way |-> [c \in Connection |-> NoWay]]
  <2> DEFINE all == [c \in Connection |-> c]
  <2>1. all \in Seq(Connection) /\ IsInjective(all) /\ ToSet(all) = Connection
    <3>1. DOMAIN all = Connection /\ \A c \in Connection : all[c] = c
      OBVIOUS
    <3>2. PICK n \in Nat : Connection = 1..n
      BY AutoSizes
    <3>3. all \in Seq(Connection)
      BY <3>2
    <3> HIDE DEF all
    <3> QED
      BY <3>1, <3>3 DEF IsInjective, ToSet
  <2> HIDE DEF all
  <2>2. /\ work'.by = r.by /\ work'.fresh = TRUE /\ work'.todo = all /\ work'.still = <<>>
        /\ work'.committed = <<>> /\ work'.ripped = <<>> /\ work'.way = [c \in Connection |-> NoWay]
    BY <1>3 DEF all
  <2>3. <<>> \in Seq(Connection) /\ [c \in Connection |-> NoWay] \in [Connection -> AnyWay]
    BY AutoSizes
  <2>4. work' \in WorkRecord
    BY <1>2, <1>3, <2>1, <2>3 DEF WorkRecord, MaxPasses, all
  <2>5. ToSet(<<>>) = {} /\ IsInjective(<<>>)
    BY DEF ToSet, IsInjective
  <2>6. Spread(work', Connection)
    BY <2>1, <2>2, <2>5 DEF Spread
  <2>7. Holds(work', Connection)
    BY <2>2, <2>4, <2>5, <2>6 DEF Holds
  <2>8. LaidAll(work', work'.committed) = {}
    BY <2>2, <2>5 DEF LaidAll
  <2>9. BoardTrue'
    BY <1>1, <1>3, <2>8 DEF BoardTrue, AutoInv
  <2>10. ToolAlone' /\ ToolFresh'
    BY <1>1, <1>3, <2>2 DEF AutoInv, ToolAlone, ToolFresh
  <2> QED
    BY <1>1, <1>3, <2>7, <2>9, <2>10 DEF AutoInv
<1>4. CASE /\ finished' = finished \cup {[by |-> r.by, id |-> r.id, fresh |-> TRUE, ok |-> FALSE,
                                          copper |-> {}]}
           /\ nativeBoard' \in {{}, drawing} /\ UNCHANGED work
  <2> DEFINE new == [by |-> r.by, id |-> r.id, fresh |-> TRUE, ok |-> FALSE, copper |-> {}]
  <2>1. new \in RouteResult /\ new.by = r.by /\ new.fresh = TRUE /\ new.copper = {}
    BY <1>2 DEF RouteResult
  <2>2. finished' = finished \cup {new} /\ work' = NoWork
    BY <1>1, <1>4
  <2> HIDE DEF new
  <2>3. BoardTrue'
    BY <2>2 DEF BoardTrue
  <2>4. ~spoiled' => Apart(drawing') /\ \A o \in finished' : o.fresh => Apart(drawing' \cup o.copper)
    BY <1>1, <2>1, <2>2 DEF AutoInv
  <2>5. ToolAlone' /\ ToolFresh'
    BY <1>1, <2>1, <2>2, NobodyElse DEF AutoInv, ToolAlone, ToolFresh
  <2>6. nativeBoard' \subseteq Wire
    BY <1>4 DEF AutoInv
  <2> QED
    BY <1>1, <2>1, <2>2, <2>3, <2>4, <2>5, <2>6 DEF AutoInv
<1> QED
  BY <1>3, <1>4 DEF BeginRun

(* The window starts runs, takes their results and edits the document.     *)
LEMMA StartRouteKeeps ==
  ASSUME AutoInv, NEW by \in {"menu", "chat", "tool"}, StartRoute(by) PROVE AutoInv'
<1> DEFINE new == [by |-> by, id |-> routeRuns']
<1>1. /\ WindowLive /\ routeRuns < MaxRouteRuns /\ routeRuns' = routeRuns + 1
      /\ routable' = (routable /\ by = "tool") /\ started' = started \cup {new}
      /\ UNCHANGED <<drawing, nativeBoard, work, finished, spoiled>>
  BY DEF StartRoute
<1>2. routeRuns' \in 1..MaxRouteRuns /\ routeRuns' \in 0..MaxRouteRuns
  BY <1>1, AutoSizes DEF AutoInv
<1>3. new \in RouteRun /\ new.by = by
  BY <1>2 DEF RouteRun
<1> HIDE DEF new
<1>4. /\ \A r \in started : r.by # "tool"
      /\ \A r \in finished : r.by # "tool"
      /\ work.by # "tool"
  BY <1>1 DEF WindowLive, ByTool
<1>5. ToolAlone' /\ ToolFresh'
  BY <1>1, <1>3, <1>4 DEF AutoInv, ToolAlone, ToolFresh
<1>6. BoardTrue'
  BY <1>1 DEF AutoInv, BoardTrue
<1>7. routable' \in BOOLEAN
  BY <1>1
<1> QED
  BY <1>1, <1>2, <1>3, <1>5, <1>6, <1>7 DEF AutoInv

(* The router goes on with a run that is of an older document.             *)
LEMMA StaleHolds ==
  ASSUME Holds(work, Connection)
  PROVE  LET new == [work EXCEPT !.fresh = FALSE] IN
         Holds(new, Connection) /\ new.fresh = FALSE /\ new.by = work.by
<1> DEFINE new == [work EXCEPT !.fresh = FALSE]
<1>1. work \in WorkRecord
  BY DEF Holds
<1>2. /\ new \in WorkRecord /\ new.still = work.still
      /\ new.todo = work.todo /\ new.committed = work.committed /\ new.ripped = work.ripped
      /\ new.way = work.way /\ new.fresh = FALSE /\ new.by = work.by
  BY <1>1 DEF WorkRecord
<1> HIDE DEF new
<1>3. Spread(new, Connection)
  BY <1>2 DEF Holds, Spread
<1> QED
  BY <1>2, <1>3 DEF Holds, new

LEMMA StaleResult ==
  ASSUME NEW r \in RouteResult
  PROVE  LET new == [r EXCEPT !.fresh = FALSE] IN
         new \in RouteResult /\ new.fresh = FALSE /\ new.by = r.by
BY DEF RouteResult

LEMMA TakeResultKeeps == ASSUME AutoInv, NEW r \in finished, TakeResult(r) PROVE AutoInv'
<1> DEFINE stale(o) == [o EXCEPT !.fresh = FALSE]
<1>1. /\ r.by = "tool" \/ WindowLive
      /\ finished' = {IF o # r /\ Takes(r) THEN stale(o) ELSE o : o \in finished} \ {r}
      /\ drawing' = IF Takes(r) THEN drawing \cup r.copper ELSE drawing
      /\ spoiled' = (spoiled \/ (Takes(r) /\ ~r.fresh))
      /\ work' = IF Takes(r) /\ work # NoWork THEN [work EXCEPT !.fresh = FALSE] ELSE work
      /\ routable' = (routable \/ r.by # "tool")
      /\ UNCHANGED <<nativeBoard, started, routeRuns>>
  BY DEF TakeResult
<1>2. \A o \in finished : stale(o) \in RouteResult /\ stale(o).fresh = FALSE /\ stale(o).by = o.by
  BY StaleResult DEF AutoInv
<1> HIDE DEF stale
<1>3. /\ r \in RouteResult /\ r.copper \subseteq Wire /\ finished \subseteq RouteResult
      /\ drawing \subseteq Wire
  BY DEF AutoInv, RouteResult
<1>4. \A o \in finished : o # r => o.by # "tool"
  BY <1>1 DEF AutoInv, ToolAlone, WindowLive, ByTool
<1>5. /\ r.by = "tool" => work.by # "tool" /\ \A a \in started : a.by # "tool"
      /\ r.by # "tool" => work.by # "tool" /\ \A a \in started : a.by # "tool"
  BY <1>1 DEF AutoInv, ToolAlone, WindowLive, ByTool
<1>6. ASSUME NEW n \in finished'
      PROVE  /\ n \in RouteResult /\ n.by # "tool"
             /\ \/ n.fresh = FALSE
                \/ ~Takes(r) /\ n \in finished
  <2>1. PICK o \in finished : n = IF o # r /\ Takes(r) THEN stale(o) ELSE o
    BY <1>1
  <2>2. n # r
    BY <1>1
  <2>3. o # r
    BY <2>1, <2>2
  <2> QED
    BY <1>2, <1>3, <1>4, <2>1, <2>3
<1>7. /\ work = NoWork /\ work' = NoWork
      \/ /\ Holds(work, Connection) /\ Holds(work', Connection) /\ work'.by = work.by
         /\ Takes(r) => work'.fresh = FALSE
         /\ ~Takes(r) => work' = work
  <2>1. CASE work = NoWork
    BY <1>1, <2>1
  <2>2. CASE Holds(work, Connection)
    BY <1>1, <2>2, StaleHolds, NobodyElse
  <2> QED
    BY <2>1, <2>2 DEF AutoInv
<1>8. work'.by # "tool"
  BY <1>5, <1>7
<1>9. ToolAlone' /\ ToolFresh'
  BY <1>1, <1>5, <1>6, <1>8 DEF ToolAlone, ToolFresh
<1>10. drawing' \subseteq Wire
  BY <1>1, <1>3
<1>11. ~spoiled' => Apart(drawing') /\ \A n \in finished' : n.fresh => Apart(drawing' \cup n.copper)
  <2>1. CASE Takes(r)
    BY <1>1, <1>6, <2>1 DEF AutoInv
  <2>2. CASE ~Takes(r)
    BY <1>1, <1>6, <2>2 DEF AutoInv
  <2> QED
    BY <2>1, <2>2
<1>12. BoardTrue'
  <2>1. CASE Takes(r)
    BY <1>7, <2>1 DEF BoardTrue
  <2>2. CASE ~Takes(r)
    BY <1>1, <1>7, <2>2 DEF AutoInv, BoardTrue
  <2> QED
    BY <2>1, <2>2
<1>13. routable' \in BOOLEAN /\ spoiled' \in BOOLEAN
  BY <1>1
<1>14. finished' \subseteq RouteResult
  BY <1>6
<1>15. nativeBoard' \subseteq Wire /\ started' \subseteq RouteRun /\ routeRuns' \in 0..MaxRouteRuns
  BY <1>1 DEF AutoInv
<1> QED
  BY <1>7, <1>9, <1>10, <1>11, <1>12, <1>13, <1>14, <1>15 DEF AutoInv

LEMMA EditBoardKeeps ==
  ASSUME AutoInv, NEW copper \in SUBSET Wire, EditBoard(copper) PROVE AutoInv'
<1> DEFINE stale(o) == [o EXCEPT !.fresh = FALSE]
<1>1. /\ WindowLive /\ Apart(copper) /\ drawing' = copper
      /\ work' = IF work = NoWork THEN work ELSE [work EXCEPT !.fresh = FALSE]
      /\ finished' = {stale(o) : o \in finished}
      /\ UNCHANGED <<nativeBoard, routable, started, spoiled, routeRuns>>
  BY DEF EditBoard
<1>2. \A o \in finished : stale(o) \in RouteResult /\ stale(o).fresh = FALSE /\ stale(o).by = o.by
  BY StaleResult DEF AutoInv
<1> HIDE DEF stale
<1>3. /\ \A o \in finished : o.by # "tool"
      /\ \A a \in started : a.by # "tool"
      /\ work.by # "tool"
  BY <1>1 DEF WindowLive, ByTool
<1>4. \A n \in finished' : n \in RouteResult /\ n.by # "tool" /\ n.fresh = FALSE
  BY <1>1, <1>2, <1>3
<1>5. \/ work' = NoWork
      \/ Holds(work', Connection) /\ work'.fresh = FALSE /\ work'.by = work.by
  BY <1>1, StaleHolds DEF AutoInv
<1>6. work'.by # "tool"
  BY <1>3, <1>5, NobodyElse
<1>7. ToolAlone' /\ ToolFresh'
  BY <1>1, <1>3, <1>4, <1>6 DEF ToolAlone, ToolFresh
<1>8. BoardTrue'
  BY <1>5 DEF BoardTrue
<1>9. ~spoiled' => Apart(drawing') /\ \A n \in finished' : n.fresh => Apart(drawing' \cup n.copper)
  BY <1>1, <1>4
<1> QED
  BY <1>1, <1>4, <1>5, <1>7, <1>8, <1>9 DEF AutoInv

LEMMA AutoStarts == AutoInit => AutoInv
<1> SUFFICES ASSUME AutoInit PROVE AutoInv
  OBVIOUS
<1>1. /\ drawing = {} /\ nativeBoard = {} /\ routable = TRUE
      /\ started = {} /\ work = NoWork /\ finished = {} /\ spoiled = FALSE /\ routeRuns = 0
  BY DEF AutoInit
<1>2. BoardTrue /\ Apart(drawing)
  BY <1>1 DEF BoardTrue, Apart
<1>3. ToolAlone /\ ToolFresh
  BY <1>1, NobodyElse DEF ToolAlone, ToolFresh
<1>4. routeRuns \in 0..MaxRouteRuns
  BY <1>1, AutoSizes
<1>5. finished \subseteq RouteResult /\ started \subseteq RouteRun /\ drawing \subseteq Wire
      /\ nativeBoard \subseteq Wire /\ routable \in BOOLEAN /\ spoiled \in BOOLEAN
  BY <1>1
<1> QED
  BY <1>1, <1>2, <1>3, <1>4, <1>5 DEF AutoInv

LEMMA AutoStep == AutoInv /\ [AutoNext]_autoVars => AutoInv'
<1> SUFFICES ASSUME AutoInv, [AutoNext]_autoVars PROVE AutoInv'
  OBVIOUS
<1>1. CASE \E by \in {"menu", "chat", "tool"} : StartRoute(by)
  BY <1>1, StartRouteKeeps
<1>2. CASE \E r \in finished : TakeResult(r)
  BY <1>2, TakeResultKeeps
<1>3. CASE \E stroke \in Stroke : EditBoard(drawing \cup {stroke})
  <2>1. PICK stroke \in Stroke : EditBoard(drawing \cup {stroke})
    BY <1>3
  <2>2. drawing \cup {stroke} \in SUBSET Wire
    BY AutoSizes DEF AutoInv
  <2> QED
    BY <2>1, <2>2, EditBoardKeeps
<1>4. CASE EditBoard({})
  BY <1>4, EditBoardKeeps
<1>5. CASE RouterStep
  BY <1>5, BeginRunKeeps, GreedyKeeps, RipUpKeeps, RerouteKeeps, EndPassKeeps DEF RouterStep
<1>6. CASE UNCHANGED autoVars
  BY <1>6 DEF autoVars, AutoInv, BoardTrue, ToolAlone, ToolFresh
<1> QED
  BY <1>1, <1>2, <1>3, <1>4, <1>5, <1>6 DEF AutoNext

LEMMA AutoInvSound == AutoInv => AutoTypeOK /\ RoutingSound
<1> SUFFICES ASSUME AutoInv PROVE AutoTypeOK /\ RoutingSound
  OBVIOUS
<1>1. Accounted
  BY AllAccounted DEF AutoInv, Accounted, Holds
<1>2. DocumentLegal /\ BoardTrue
  BY DEF AutoInv, DocumentLegal, ToolFresh
<1>3. ASSUME work # NoWork
      PROVE  /\ [by |-> work.by, id |-> work.id] \in RouteRun /\ work.pass \in 0..MaxPasses
             /\ \A c \in Connection : work.way[c] \in Ways[c] \cup {NoWay}
  <2>1. Holds(work, Connection)
    BY <1>3 DEF AutoInv
  <2>2. work.by \in {"menu", "chat", "tool"} /\ work.id \in 1..MaxRouteRuns
        /\ work.pass \in 0..MaxPasses
    BY <2>1 DEF Holds, WorkRecord
  <2> QED
    BY <2>1, <2>2 DEF Holds, RouteRun
<1>4. AutoTypeOK
  BY <1>3 DEF AutoInv, AutoTypeOK, RouteResult
<1> QED
  BY <1>1, <1>2, <1>4 DEF RoutingSound

(* RoutingSound: over passes that route, rip up and give up, no connection *)
(* is lost or counted twice, the board is what the router believes, and    *)
(* its results leave a document legal that nobody changed meanwhile.       *)
THEOREM RoutingIsSound == AutoSpec => [](AutoTypeOK /\ RoutingSound)
<1>1. AutoSpec => []AutoInv
  BY AutoStarts, AutoStep, PTL DEF AutoSpec
<1> QED
  BY <1>1, AutoInvSound, PTL

-----------------------------------------------------------------------------
(* All of them.                                                            *)

LEMMA EnginesAreTheirs ==
  EnginesSpec => Spec /\ ReleaseSpec /\ StoreSpec /\ TasksSpec /\ RouteSpec /\ AutoSpec
<1>1. EnginesInit => Init /\ ReleaseInit /\ StoreInit /\ TasksInit /\ RouteInit /\ AutoInit
  BY DEF EnginesInit
<1>2. [EnginesNext]_enginesVars =>
        /\ [Next]_vars /\ [ReleaseNext]_releaseVars /\ [StoreNext]_storeVars
        /\ [TasksNext]_taskVars /\ [RouteNext]_routeVars /\ [AutoNext]_autoVars
  BY DEF EnginesNext, Only, enginesVars
<1> QED
  BY <1>1, <1>2, PTL
     DEF EnginesSpec, Spec, ReleaseSpec, StoreSpec, TasksSpec, RouteSpec, AutoSpec

(* EnginesTypeOK: every variable of every engine keeps to its type.        *)
THEOREM EnginesTyped == EnginesSpec => []EnginesTypeOK
BY EnginesAreTheirs, IntegrationTyped, VerdictsAreSound, StoreTyped, TaskTypes, RouteIsSound,
   RoutingIsSound, PTL
   DEF EnginesTypeOK

(* The safety of all engines: sandboxes, verdicts, the store, tasks and    *)
(* both routers, each under any interleaving of its own steps.             *)
THEOREM EnginesAreSound ==
  EnginesSpec => [](/\ HeadsAdvance /\ ApprovalsSound /\ VerdictsSound /\ AckedDurable
                    /\ TrailTells /\ ReferencesResolve /\ TasksKept /\ RouteSound /\ RoutingSound)
BY EnginesAreTheirs, BranchesStayOnLine, ApprovalsAreSound, VerdictsAreSound, AnswersAreDurable,
   TrailIsComplete, ReferencesAlwaysResolve, TasksAreKept, RouteIsSound, RoutingIsSound, PTL

(* StaleForever and NothingForgotten: no step of any engine makes a stored *)
(* sandbox current again or takes a change back from the index.            *)
THEOREM EnginesNeverGoBack == EnginesSpec => StaleForever /\ NothingForgotten
BY EnginesAreTheirs, StaleStaysStale, IndexNeverForgets, PTL
=============================================================================
