--------------------------- MODULE ServicesProofs ---------------------------
(***************************************************************************)
(* Proofs about the services that queue and retry work: for each of the    *)
(* five an inductive invariant of its own variables, one lemma per action  *)
(* (named after it) that the action preserves it, and the theorem of the   *)
(* properties it implies; at the end, what follows for Services, where one *)
(* service is chosen and the others stay as they are.                      *)
(***************************************************************************)
EXTENDS Services, FiniteSetTheorems, SequenceTheorems, TLAPS

-----------------------------------------------------------------------------
(* The task queue.  A row has been started once for each retry it used and, *)
(* while it is claimed, once more; the events in the log and the one that is *)
(* owed tell what became of each row.                                      *)

Row == [status : {"none", "pending", "in_progress", "completed", "failed"},
        agent : Agent \cup {Nobody}, retries : 0..MaxRetries, backoff : BOOLEAN]

(* The event that was last told of a task, or is about to be.              *)
Told(t) == IF owed # NoEvent /\ owed[1] = t THEN <<owed[2]>> ELSE logged[t]

StartsCounted ==
  \A t \in Task :
    /\ starts[t] <= task[t].retries + 1
    /\ task[t].status \in {"none", "pending"} => starts[t] <= task[t].retries
FailedExhausted == \A t \in Task : task[t].status = "failed" => task[t].retries = MaxRetries
EventsTell ==
  deaths = 0 => \A t \in Task : task[t].status = "completed" <=> Told(t) = <<"task_completed">>

QueueInv == QueueTypeOK /\ StartsCounted /\ FailedExhausted /\ OneWorker /\ EventsTell

LEMMA QueueSizes ==
  /\ MaxRetries \in Nat /\ MaxRepeats \in Nat /\ MaxVanished \in Nat /\ MaxDeaths \in Nat
  /\ Nobody \notin Agent /\ 0 \notin Task
<1>1. \A n : 0 \notin 1..n
  OBVIOUS
<1> QED
  BY <1>1, QueueConstants

LEMMA StatusChanges ==
  ASSUME QueueTypeOK, NEW t \in Task, NEW s \in {"none", "pending", "in_progress", "completed",
                                                 "failed"},
         task' = [task EXCEPT ![t].status = s]
  PROVE  /\ task' \in [Task -> Row]
         /\ task'[t].status = s /\ task'[t].retries = task[t].retries /\ task'[t].agent = task[t].agent
         /\ \A u \in Task : u # t => task'[u] = task[u]
BY DEF QueueTypeOK, Row

LEMMA PushKeeps == ASSUME QueueInv, NEW t \in Task, Push(t) PROVE QueueInv'
<1>1. /\ task' \in [Task -> Row]
      /\ task'[t].status = "pending" /\ task'[t].retries = task[t].retries
      /\ \A u \in Task : u # t => task'[u] = task[u]
      /\ task[t].status = "none" /\ Serving /\ owed' = <<t, "task_pushed">>
      /\ UNCHANGED <<logged, works, starts, repeats, vanished, deaths>>
  BY StatusChanges DEF QueueInv, Push, Owe
<1>2. QueueTypeOK'
  BY <1>1 DEF QueueInv, QueueTypeOK, Row, Event
<1>3. StartsCounted' /\ FailedExhausted'
  BY <1>1, QueueSizes DEF QueueInv, StartsCounted, FailedExhausted
<1>4. OneWorker'
  BY <1>1 DEF QueueInv, OneWorker, QueueTypeOK
<1>5. EventsTell'
  BY <1>1 DEF QueueInv, EventsTell, Told, Serving, NoEvent
<1> QED
  BY <1>2, <1>3, <1>4, <1>5 DEF QueueInv

LEMMA ClaimKeeps == ASSUME QueueInv, NEW a \in Agent, Claim(a) PROVE QueueInv'
<1>1. PICK t \in Task : 
        /\ task' = [task EXCEPT ![t].status = "in_progress", ![t].agent = a]
        /\ works' = [works EXCEPT ![a] = t]
        /\ starts' = [starts EXCEPT ![t] = @ + 1]
        /\ task[t].status = "pending"
  BY DEF Claim, Claimable, Pending
<1>2. /\ task' \in [Task -> Row]
      /\ task'[t].status = "in_progress" /\ task'[t].retries = task[t].retries /\ task'[t].agent = a
      /\ \A u \in Task : u # t => task'[u] = task[u]
  BY <1>1 DEF QueueInv, QueueTypeOK, Row
<1>3. UNCHANGED <<logged, owed, repeats, vanished, deaths>>
  BY DEF Claim
<1>4. QueueTypeOK'
  BY <1>1, <1>2, <1>3 DEF QueueInv, QueueTypeOK, Row
<1>5. StartsCounted' /\ FailedExhausted'
  BY <1>1, <1>2, QueueSizes DEF QueueInv, StartsCounted, FailedExhausted, QueueTypeOK
<1>6. OneWorker'
  BY <1>1, <1>2, <1>3 DEF QueueInv, OneWorker, QueueTypeOK
<1>7. EventsTell'
  BY <1>1, <1>2, <1>3 DEF QueueInv, EventsTell, Told
<1> QED
  BY <1>4, <1>5, <1>6, <1>7 DEF QueueInv

(* Who reports forgets the task, or repeats the report. *)
LEMMA ReportedOnce ==
  ASSUME QueueTypeOK, NEW a \in Agent, Reported(a)
  PROVE  /\ works' \in [Agent -> Task \cup {0}] /\ repeats' \in 0..MaxRepeats
         /\ repeats' = 0 => repeats = 0 /\ works'[a] = 0
         /\ \A b \in Agent : works'[b] # 0 => works'[b] = works[b]
BY QueueSizes DEF QueueTypeOK, Reported

LEMMA CompleteKeeps == ASSUME QueueInv, NEW a \in Agent, Complete(a) PROVE QueueInv'
<1> DEFINE t == works[a]
<1>1. t \in Task /\ Serving /\ Reported(a) /\ UNCHANGED <<logged, starts, vanished, deaths>>
  BY DEF Complete, QueueInv, QueueTypeOK
<1>2. CASE InProgress(t)
  <2>1. /\ task' \in [Task -> Row]
        /\ task'[t].status = "completed" /\ task'[t].retries = task[t].retries
        /\ task[t].status = "in_progress"
        /\ \A u \in Task : u # t => task'[u] = task[u]
        /\ owed' = <<t, "task_completed">>
    BY <1>1, <1>2, StatusChanges DEF Complete, Done, InProgress, Owe, QueueInv
  <2> HIDE DEF t
  <2>2. QueueTypeOK'
    BY <1>1, <2>1, ReportedOnce DEF QueueInv, QueueTypeOK, Row, Event
  <2>3. StartsCounted' /\ FailedExhausted'
    BY <1>1, <2>1, QueueSizes DEF QueueInv, StartsCounted, FailedExhausted, QueueTypeOK
  <2>4. OneWorker'
    BY <1>1, <2>1, ReportedOnce DEF QueueInv, OneWorker, t
  <2>5. EventsTell'
    BY <1>1, <2>1 DEF QueueInv, EventsTell, Told, Serving, NoEvent
  <2> QED
    BY <2>2, <2>3, <2>4, <2>5 DEF QueueInv
<1>3. CASE ~InProgress(t)
  <2>1. UNCHANGED <<task, owed>>
    BY <1>3 DEF Complete, Done
  <2>2. QueueTypeOK'
    BY <1>1, <2>1, ReportedOnce DEF QueueInv, QueueTypeOK
  <2>3. StartsCounted' /\ FailedExhausted' /\ EventsTell'
    BY <1>1, <2>1 DEF QueueInv, StartsCounted, FailedExhausted, EventsTell, Told
  <2>4. OneWorker'
    BY <1>1, <2>1, ReportedOnce DEF QueueInv, OneWorker
  <2> QED
    BY <2>2, <2>3, <2>4 DEF QueueInv
<1> QED
  BY <1>2, <1>3

LEMMA FailTaskKeeps == ASSUME QueueInv, NEW a \in Agent, FailTask(a) PROVE QueueInv'
<1> DEFINE t == works[a]
<1>1. /\ t \in Task /\ Serving /\ Reported(a) /\ UNCHANGED <<logged, starts, vanished, deaths>>
      /\ owed' = <<t, "task_failed">> /\ task' = Failed(t)
  BY DEF FailTask, QueueInv, QueueTypeOK, Owe
<1>2. /\ task' \in [Task -> Row]
      /\ \/ task[t].retries = MaxRetries /\ task'[t].retries = MaxRetries /\ task'[t].status = "failed"
         \/ task'[t].retries = task[t].retries + 1 /\ task'[t].status = "pending"
      /\ \A u \in Task : u # t => task'[u] = task[u]
  <2>1. CASE Exhausted(t)
    <3>1. task' = [task EXCEPT ![t].status = "failed"]
      BY <1>1, <2>1 DEF Failed
    <3>2. QueueTypeOK /\ task[t].retries = MaxRetries
      <4>1. QueueTypeOK /\ task[t].retries \in 0..MaxRetries
        BY <1>1 DEF QueueInv, QueueTypeOK
      <4> QED
        BY <4>1, <2>1, QueueSizes DEF Exhausted
    <3> HIDE DEF t
    <3> QED
      BY <1>1, <3>1, <3>2, StatusChanges
  <2>2. CASE ~Exhausted(t)
    <3> DEFINE r == [status |-> "pending", agent |-> Nobody, retries |-> task[t].retries + 1,
                            backoff |-> TRUE]
    <3>1. r \in Row
      BY <1>1, <2>2, QueueSizes DEF Row, Exhausted, QueueInv, QueueTypeOK
    <3>2. task' = [task EXCEPT ![t] = r]
      BY <1>1, <2>2 DEF Failed
    <3>3. r.retries = task[t].retries + 1 /\ r.status = "pending"
      OBVIOUS
    <3> HIDE DEF r, t
    <3>4. task \in [Task -> Row]
      BY DEF QueueInv, QueueTypeOK, Row
    <3> QED
      BY <1>1, <3>1, <3>2, <3>3, <3>4
  <2> QED
    BY <2>1, <2>2
<1> HIDE DEF t
<1>3. QueueTypeOK'
  BY <1>1, <1>2, ReportedOnce DEF QueueInv, QueueTypeOK, Row, Event
<1>4. StartsCounted' /\ FailedExhausted'
  BY <1>1, <1>2, QueueSizes DEF QueueInv, StartsCounted, FailedExhausted, QueueTypeOK
<1>5. OneWorker'
  BY <1>1, <1>2, ReportedOnce DEF QueueInv, OneWorker, t
<1>6. EventsTell'
  BY <1>1, <1>2 DEF QueueInv, EventsTell, Told, Serving, NoEvent
<1> QED
  BY <1>3, <1>4, <1>5, <1>6 DEF QueueInv

LEMMA EventKeeps == ASSUME QueueInv, PushEvent \/ ServerDies PROVE QueueInv'
<1>1. /\ UNCHANGED <<task, works, starts, repeats, vanished>> /\ owed' = NoEvent
      /\ owed # NoEvent /\ owed[1] \in Task /\ owed[2] \in Event
      /\ \/ logged' = [logged EXCEPT ![owed[1]] = <<owed[2]>>] /\ deaths' = deaths
         \/ logged' = logged /\ deaths' = deaths + 1 /\ deaths < MaxDeaths
  BY DEF PushEvent, ServerDies, QueueInv, QueueTypeOK
<1>2. QueueTypeOK'
  <2>1. logged' \in [Task -> {NoEvent} \cup {<<k>> : k \in Event}]
    BY <1>1 DEF QueueInv, QueueTypeOK
  <2>2. deaths' \in 0..MaxDeaths
    BY <1>1, QueueSizes DEF QueueInv, QueueTypeOK
  <2> QED
    BY <1>1, <2>1, <2>2 DEF QueueInv, QueueTypeOK
<1>3. StartsCounted' /\ FailedExhausted' /\ OneWorker'
  BY <1>1 DEF QueueInv, StartsCounted, FailedExhausted, OneWorker
<1>4. EventsTell'
  BY <1>1 DEF QueueInv, QueueTypeOK, EventsTell, Told
<1> QED
  BY <1>2, <1>3, <1>4 DEF QueueInv

LEMMA BackoffKeeps == ASSUME QueueInv, NEW t \in Task, BackoffEnds(t) PROVE QueueInv'
<1>1. /\ task' \in [Task -> Row]
      /\ \A u \in Task : task'[u].status = task[u].status /\ task'[u].retries = task[u].retries
                         /\ task'[u].agent = task[u].agent
      /\ UNCHANGED <<logged, owed, works, starts, repeats, vanished, deaths>>
  BY DEF BackoffEnds, QueueInv, QueueTypeOK, Row
<1>2. QueueTypeOK'
  BY <1>1 DEF QueueInv, QueueTypeOK, Row
<1>3. StartsCounted' /\ FailedExhausted' /\ EventsTell'
  BY <1>1 DEF QueueInv, StartsCounted, FailedExhausted, EventsTell, Told
<1>4. OneWorker'
  BY <1>1 DEF QueueInv, QueueTypeOK, OneWorker
<1> QED
  BY <1>2, <1>3, <1>4 DEF QueueInv

LEMMA VanishKeeps == ASSUME QueueInv, NEW a \in Agent, Vanish(a) PROVE QueueInv'
BY QueueSizes
   DEF Vanish, QueueInv, QueueTypeOK, StartsCounted, FailedExhausted, OneWorker, EventsTell,
       Told

LEMMA QueueStarts == QueueInit => QueueInv
<1> SUFFICES ASSUME QueueInit PROVE QueueInv
  OBVIOUS
<1>1. QueueTypeOK
  BY QueueSizes DEF QueueInit, QueueTypeOK, NoRow, NoEvent
<1> QED
  BY <1>1, QueueSizes
     DEF QueueInit, QueueInv, StartsCounted, FailedExhausted, OneWorker, EventsTell, Told,
         NoRow, NoEvent

LEMMA QueueStep ==
  ASSUME QueueInv, [QueueNext]_queueVars
  PROVE  QueueInv' /\ \A t \in Task : task[t].status = "failed" => task'[t].status = "failed"
<1>1. QueueInv'
  <2>1. CASE UNCHANGED queueVars
    BY <2>1
       DEF queueVars, QueueInv, QueueTypeOK, StartsCounted, FailedExhausted, OneWorker,
           EventsTell, Told
  <2> QED
    BY <2>1, PushKeeps, ClaimKeeps, CompleteKeeps, FailTaskKeeps, EventKeeps, BackoffKeeps,
       VanishKeeps
       DEF QueueNext
<1>2. ASSUME NEW t \in Task, task[t].status = "failed" PROVE task'[t].status = "failed"
  <2>1. task[t].retries = MaxRetries /\ task \in [Task -> Row]
    BY <1>2 DEF QueueInv, FailedExhausted, QueueTypeOK, Row
  <2>2. ASSUME NEW u \in Task, Push(u) PROVE task'[t].status = "failed"
    BY <1>2, <2>1, <2>2 DEF Push, Row
  <2>3. ASSUME NEW u \in Task, BackoffEnds(u) PROVE task'[t].status = "failed"
    BY <1>2, <2>1, <2>3 DEF BackoffEnds, Row
  <2>4. ASSUME NEW a \in Agent, Claim(a) PROVE task'[t].status = "failed"
    BY <1>2, <2>1, <2>4 DEF Claim, Claimable, Pending, Row
  <2>5. ASSUME NEW a \in Agent, Complete(a) PROVE task'[t].status = "failed"
    BY <1>2, <2>1, <2>5 DEF Complete, InProgress, Row
  <2>6. ASSUME NEW a \in Agent, FailTask(a) PROVE task'[t].status = "failed"
    BY <1>2, <2>1, <2>6, QueueSizes DEF FailTask, Failed, Exhausted, Row, QueueInv, QueueTypeOK
  <2> QED
    BY <1>2, <2>2, <2>3, <2>4, <2>5, <2>6
       DEF QueueNext, queueVars, PushEvent, ServerDies, Vanish
<1> QED
  BY <1>1, <1>2

(* TasksSound and FailedForever: whoever reports late or twice, no task is *)
(* started more often than its retries allow or by two agents at once, the *)
(* log agrees with the rows, and a failed task is not brought back.        *)
THEOREM TasksAreSound == QueueSpec => [](QueueTypeOK /\ TasksSound) /\ FailedForever
<1>1. QueueInv => QueueTypeOK /\ TasksSound
  BY QueueSizes
     DEF QueueInv, TasksSound, StartsCounted, StartsBounded, QueueTypeOK, EventsTell, LogTells,
         Told, Serving
<1>2. QueueInv /\ [QueueNext]_queueVars => QueueInv'
  BY QueueStep
<1>3. QueueInv /\ [QueueNext]_queueVars =>
        [\A t \in Task : task[t].status = "failed" => task'[t].status = "failed"]_queueVars
  BY QueueStep
<1> QED
  BY <1>1, <1>2, <1>3, QueueStarts, PTL DEF QueueSpec, FailedForever

-----------------------------------------------------------------------------
(* The design harness.  What holds of a run depends on its phase, and is   *)
(* kept alike for the run and for its checkpoint, to which a crash returns. *)

(* What a run has done when it is in a phase.                              *)
RunOK(r) ==
  /\ r.phase \in {"start", "retrieve", "components", "datasheet", "expand"} =>
       r.netlist = "none" /\ r.refines = 0 /\ r.reusedNetlist = FALSE
  /\ r.phase = "netlist" /\ r.refines = 0 => r.netlist = "none" /\ r.reusedNetlist = FALSE
  /\ r.phase = "netlist" /\ Designed(r) => ~Overspent(r)
  /\ r.phase \in HPhase \ {"store"} => r.status = "running"
  /\ r.phase = "store" => r.status \in {"running", "failed", "partial"}
  /\ r.phase = "verify" => r.netlist # "none"

(* What it may rely on when it stores its case, and afterwards.            *)
RunSound(r) ==
  /\ r.phase = "store" /\ r.status = "running" => Passes(r)
  /\ r.phase = "store" /\ TakenOver(r) => Passes(r)
  /\ r.phase = "done" /\ r.status \in {"running", "complete"} => Passes(r) /\ r.unrealized = FALSE
  /\ r.phase = "done" /\ r.note # 0 /\ r.note = r.reuse => Passes(r)
  /\ r.phase \in HPhase => r.note = 0

(* What it has spent.                                                      *)
Spent(r) ==
  /\ Designed(r) => r.calls <= Budget(r) + 1
  /\ TakenOver(r) => Designed(r) /\ ~Overspent(r)

HarnessInv ==
  /\ HarnessTypeOK /\ MemoryIsSound
  /\ RunOK(run) /\ RunSound(run) /\ Spent(run) /\ run.reuse <= Len(notes)
  /\ RunOK(saved) /\ RunSound(saved) /\ Spent(saved) /\ saved.reuse <= Len(notes)
  /\ run.phase \in HPhase => session > 0
  /\ saved.phase \in HPhase => session > 0

CaseType == [of : 1..MaxSessions, status : {"complete", "partial", "failed"},
             quality : 0..100, parts : 0..MaxParts, netlist : NetlistKind]
RunStatus == {"running", "modify", "ask", "failed", "partial", "aborted", "complete"}

LEMMA HarnessSizes ==
  /\ MaxParts \in Nat /\ BudgetBase \in Nat /\ BudgetPerPart \in Nat /\ BudgetMax \in Nat
  /\ MaxRefine \in Nat /\ MaxRefine > 0 /\ SubstituteTries \in Nat /\ ReuseQuality \in Nat
  /\ MaxSessions \in Nat /\ MaxCrashes \in Nat /\ MaxOutcomes \in Nat
BY HarnessConstants

LEMMA BudgetIsNumber == ASSUME NEW r \in RunType PROVE Budget(r) \in Nat
<1>1. r.parts \in Nat
  BY HarnessSizes DEF RunType
<1>2. BudgetPerPart * r.parts \in Nat
  BY <1>1, HarnessSizes
<1> QED
  BY <1>2, HarnessSizes DEF Budget, Least

LEMMA RunFields ==
  ASSUME NEW r \in RunType
  PROVE  /\ r.phase \in HPhase \cup Ended /\ r.status \in RunStatus /\ r.parts \in 0..MaxParts
         /\ r.netlist \in NetlistKind /\ r.refines \in 0..MaxRefine /\ r.calls \in Nat
         /\ r.unrealized \in BOOLEAN /\ r.reuse \in Nat /\ r.reusedNetlist \in BOOLEAN
            /\ r.note \in Nat
BY DEF RunType, RunStatus

LEMMA RunGoesOn ==
  ASSUME HarnessInv, run' \in RunType, RunOK(run'), RunSound(run'), Spent(run'),
         run'.reuse <= Len(notes'),
         session > 0, UNCHANGED <<session, saved, crashes, outcomes>>,
         notes' \in Seq(CaseType), MemoryIsSound', Len(notes) <= Len(notes')
  PROVE  HarnessInv'
<1>1. saved.reuse <= Len(notes')
  <2>1. saved.reuse \in Nat /\ Len(notes) \in Nat /\ Len(notes') \in Nat
    BY RunFields DEF HarnessInv, HarnessTypeOK, CaseType
  <2> QED
    BY <2>1 DEF HarnessInv
<1>2. HarnessTypeOK'
  BY DEF HarnessInv, HarnessTypeOK, CaseType
<1>3. RunOK(saved') /\ RunSound(saved') /\ Spent(saved')
  BY DEF HarnessInv
<1> QED
  BY <1>1, <1>2, <1>3 DEF HarnessInv

(* The same when the notes stay.                                           *)
LEMMA RunMoves ==
  ASSUME HarnessInv, run.phase \in HPhase, NEW r \in RunType, To(r), UNCHANGED notes,
         RunOK(r), RunSound(r), Spent(r), r.reuse <= Len(notes)
  PROVE  HarnessInv'
<1>1. notes \in Seq(CaseType) /\ Len(notes) \in Nat /\ session > 0
  BY DEF HarnessInv, HarnessTypeOK, CaseType
<1>2. run' = r /\ UNCHANGED <<session, saved, crashes, outcomes, notes>>
  BY DEF To
<1>3. MemoryIsSound'
  BY <1>2 DEF HarnessInv, MemoryIsSound
<1> QED
  BY <1>1, <1>2, <1>3, RunGoesOn

LEMMA ClassifyKeeps == ASSUME HarnessInv, Classify PROVE HarnessInv'
<1>1. run \in RunType /\ run.phase = "start" /\ RunOK(run) /\ RunSound(run) /\ Spent(run)
      /\ run.reuse <= Len(notes) /\ UNCHANGED notes /\ run.status = "running"
  BY DEF Classify, At, HarnessInv, HarnessTypeOK, RunOK, HPhase
<1>2. CASE To([run EXCEPT !.phase = "retrieve"])
  <2> DEFINE r == [run EXCEPT !.phase = "retrieve"]
  <2>1. /\ r \in RunType /\ r.phase = "retrieve" /\ r.status = run.status /\ r.parts = run.parts
        /\ r.netlist = run.netlist /\ r.refines = run.refines /\ r.calls = run.calls
        /\ r.reuse = run.reuse /\ r.reusedNetlist = run.reusedNetlist /\ r.note = run.note
    BY <1>1 DEF RunType, HPhase
  <2>2. To(r)
    BY <1>2
  <2> HIDE DEF r
  <2>3. RunOK(r) /\ RunSound(r) /\ Spent(r) /\ r.reuse <= Len(notes)
    BY <1>1, <2>1 DEF RunOK, RunSound, Spent, HPhase, Designed, TakenOver
  <2> QED
    BY <1>1, <2>1, <2>2, <2>3, RunMoves DEF HPhase
<1>3. ASSUME NEW other \in {"modify", "ask"}, To([run EXCEPT !.status = other, !.phase = "done"])
      PROVE  HarnessInv'
  <2> DEFINE r == [run EXCEPT !.status = other, !.phase = "done"]
  <2>1. /\ r \in RunType /\ r.phase = "done" /\ r.status = other /\ r.parts = run.parts
        /\ r.netlist = run.netlist /\ r.refines = run.refines /\ r.calls = run.calls
        /\ r.reuse = run.reuse /\ r.reusedNetlist = run.reusedNetlist /\ r.note = run.note
    BY <1>1 DEF RunType, Ended
  <2>2. To(r)
    BY <1>3
  <2> HIDE DEF r
  <2>3. RunOK(r) /\ RunSound(r) /\ Spent(r) /\ r.reuse <= Len(notes)
    BY <1>1, <2>1 DEF RunOK, RunSound, Spent, HPhase, Designed, TakenOver
  <2> QED
    BY <1>1, <2>1, <2>2, <2>3, RunMoves DEF HPhase
<1> QED
  BY <1>2, <1>3 DEF Classify

LEMMA RetrieveKeeps == ASSUME HarnessInv, Retrieve PROVE HarnessInv'
<1>1. run \in RunType /\ run.phase = "retrieve" /\ RunOK(run) /\ RunSound(run) /\ Spent(run)
      /\ run.reuse <= Len(notes) /\ UNCHANGED notes
  BY DEF Retrieve, At, HarnessInv, HarnessTypeOK
<1>2. PICK found \in {0} \cup {i \in DOMAIN notes : notes[i].quality >= ReuseQuality} :
        To([run EXCEPT !.phase = "components", !.reuse = found])
  BY DEF Retrieve
<1>3. found \in Nat /\ found <= Len(notes)
  BY DEF HarnessInv, HarnessTypeOK
<1> DEFINE r == [run EXCEPT !.phase = "components", !.reuse = found]
<1>4. /\ r \in RunType /\ r.phase = "components" /\ r.status = run.status /\ r.parts = run.parts
      /\ r.netlist = run.netlist /\ r.refines = run.refines /\ r.calls = run.calls
      /\ r.reuse = found /\ r.reusedNetlist = run.reusedNetlist /\ r.note = run.note
  BY <1>1, <1>3 DEF RunType, HPhase
<1>5. To(r)
  BY <1>2
<1> HIDE DEF r
<1>6. RunOK(r) /\ RunSound(r) /\ Spent(r)
  BY <1>1, <1>4 DEF RunOK, RunSound, Spent, HPhase, Designed, TakenOver
<1> QED
  BY <1>1, <1>3, <1>4, <1>5, <1>6, RunMoves DEF HPhase

(* Parts are chosen: by a case or a proposal, read, and completed.         *)
LEMMA PartsChosen ==
  ASSUME HarnessInv, UNCHANGED notes, NEW p \in HPhase, NEW r,
         run.phase \in {"components", "datasheet", "expand"},
         p \in {"datasheet", "expand", "netlist"}, To(r),
         r \in RunType, r.phase = p, r.status = run.status, r.netlist = run.netlist,
         r.refines = run.refines, r.reuse = run.reuse, r.reusedNetlist = run.reusedNetlist,
         r.note = run.note
  PROVE  HarnessInv'
<1>1. run \in RunType /\ RunOK(run) /\ RunSound(run) /\ Spent(run) /\ run.reuse <= Len(notes)
  BY DEF HarnessInv, HarnessTypeOK
<1>2. RunOK(r) /\ RunSound(r) /\ Spent(r) /\ r.reuse <= Len(notes)
  BY <1>1 DEF RunOK, RunSound, Spent, HPhase, Designed, TakenOver
<1> QED
  BY <1>1, <1>2, RunMoves DEF HPhase

LEMMA ComponentsKeeps == ASSUME HarnessInv, Components PROVE HarnessInv'
<1>1. /\ run \in RunType /\ run.phase = "components" /\ UNCHANGED notes
      /\ notes \in Seq(CaseType) /\ run.reuse <= Len(notes)
  BY DEF Components, At, HarnessInv, HarnessTypeOK, CaseType
<1>2. CASE Reuses(run) /\ notes[run.reuse].parts > 0
  <2> DEFINE n == notes[run.reuse].parts
             r == [run EXCEPT !.phase = "datasheet", !.parts = n]
  <2>1. n \in 0..MaxParts
    <3>1. run.reuse \in 1..Len(notes)
      BY <1>1, <1>2, RunFields DEF Reuses
    <3>2. notes[run.reuse] \in CaseType
      BY <1>1, <3>1
    <3> QED
      BY <3>2 DEF CaseType
  <2>2. To(r)
    BY <1>2 DEF Components
  <2> HIDE DEF n
  <2>3. /\ r \in RunType /\ r.phase = "datasheet" /\ r.status = run.status /\ r.netlist = run.netlist
        /\ r.refines = run.refines /\ r.reuse = run.reuse /\ r.reusedNetlist = run.reusedNetlist
        /\ r.note = run.note
    BY <1>1, <2>1 DEF RunType, HPhase
  <2> HIDE DEF r
  <2> QED
    BY <1>1, <2>2, <2>3, PartsChosen DEF HPhase
<1>3. ASSUME NEW n \in 0..MaxParts, To([run EXCEPT !.phase = "datasheet", !.parts = n,
                                        !.calls = @ + 1])
      PROVE  HarnessInv'
  <2> DEFINE c == run.calls + 1
             r == [run EXCEPT !.phase = "datasheet", !.parts = n, !.calls = c]
  <2>2. To(r)
    BY <1>3
  <2>3. c \in Nat
    BY <1>1, RunFields
  <2> HIDE DEF c
  <2>1. /\ r \in RunType /\ r.phase = "datasheet" /\ r.status = run.status /\ r.netlist = run.netlist
        /\ r.refines = run.refines /\ r.reuse = run.reuse /\ r.reusedNetlist = run.reusedNetlist
        /\ r.note = run.note
    BY <1>1, <2>3 DEF RunType, HPhase
  <2> HIDE DEF r
  <2> QED
    BY <1>1, <2>1, <2>2, PartsChosen DEF HPhase
<1> QED
  BY <1>2, <1>3 DEF Components

LEMMA DatasheetKeeps == ASSUME HarnessInv, Datasheet PROVE HarnessInv'
<1>1. run \in RunType /\ run.phase = "datasheet" /\ UNCHANGED notes
  BY DEF Datasheet, At, HarnessInv, HarnessTypeOK
<1>2. PICK used \in 0..(1 + SubstituteTries) * run.parts, gone \in 0..run.parts :
        To([run EXCEPT !.phase = "expand", !.calls = @ + used, !.parts = @ - gone,
                       !.unrealized = gone > 0])
  BY DEF Datasheet
<1>3. used \in Nat /\ gone \in Nat /\ gone <= run.parts /\ run.parts \in 0..MaxParts
  BY <1>1, <1>2, RunFields, HarnessSizes
<1> DEFINE u == gone > 0
           c == run.calls + used
           n == run.parts - gone
           r == [run EXCEPT !.phase = "expand", !.calls = c, !.parts = n, !.unrealized = u]
<1>4. To(r)
  BY <1>2
<1>5. u \in BOOLEAN /\ c \in Nat /\ n \in 0..MaxParts
  BY <1>1, <1>3, RunFields, HarnessSizes
<1> HIDE DEF u, c, n
<1>6. /\ r \in RunType /\ r.phase = "expand" /\ r.status = run.status /\ r.netlist = run.netlist
      /\ r.refines = run.refines /\ r.reuse = run.reuse /\ r.reusedNetlist = run.reusedNetlist
      /\ r.note = run.note
  BY <1>1, <1>5 DEF RunType, HPhase
<1> HIDE DEF r
<1> QED
  BY <1>1, <1>4, <1>6, PartsChosen DEF HPhase

LEMMA ExpandKeeps == ASSUME HarnessInv, Expand PROVE HarnessInv'
<1>1. run \in RunType /\ run.phase = "expand" /\ UNCHANGED notes
  BY DEF Expand, At, HarnessInv, HarnessTypeOK
<1>2. PICK n \in run.parts..MaxParts : To([run EXCEPT !.phase = "netlist", !.parts = n])
  BY DEF Expand
<1>3. n \in 0..MaxParts
  BY <1>1, <1>2, RunFields, HarnessSizes
<1> DEFINE r == [run EXCEPT !.phase = "netlist", !.parts = n]
<1>4. To(r)
  BY <1>2
<1>5. /\ r \in RunType /\ r.phase = "netlist" /\ r.status = run.status /\ r.netlist = run.netlist
      /\ r.refines = run.refines /\ r.reuse = run.reuse /\ r.reusedNetlist = run.reusedNetlist
      /\ r.note = run.note
  BY <1>1, <1>3 DEF RunType, HPhase
<1> HIDE DEF r
<1> QED
  BY <1>1, <1>4, <1>5, PartsChosen DEF HPhase

LEMMA NetlistKeeps == ASSUME HarnessInv, Netlist PROVE HarnessInv'
<1>1. /\ run \in RunType /\ run.phase = "netlist" /\ RunOK(run) /\ RunSound(run) /\ Spent(run)
      /\ run.reuse <= Len(notes) /\ UNCHANGED notes /\ ~Aborts(run)
  BY DEF Netlist, At, HarnessInv, HarnessTypeOK
<1>2. ~Overspent(run) /\ Budget(run) \in Nat /\ run.calls \in Nat
  BY <1>1, BudgetIsNumber, RunFields DEF Aborts, RunOK
<1>3. ASSUME NEW k \in {"bad", "good"}, Adaptable(run),
             To([run EXCEPT !.phase = "verify", !.netlist = k, !.reusedNetlist = TRUE])
      PROVE  HarnessInv'
  <2> DEFINE r == [run EXCEPT !.phase = "verify", !.netlist = k, !.reusedNetlist = TRUE]
  <2>1. /\ r \in RunType /\ r.phase = "verify" /\ r.status = run.status /\ r.parts = run.parts
        /\ r.netlist = k /\ r.refines = run.refines /\ r.calls = run.calls
        /\ r.reuse = run.reuse /\ r.reusedNetlist = TRUE /\ r.note = run.note
    BY <1>1 DEF RunType, HPhase, NetlistKind
  <2>2. To(r)
    BY <1>3
  <2> HIDE DEF r
  <2>3. Budget(r) = Budget(run)
    BY <2>1 DEF Budget
  <2>4. RunOK(r) /\ RunSound(r) /\ r.reuse <= Len(notes)
    BY <1>1, <2>1 DEF RunOK, RunSound, HPhase
  <2>5. Spent(r)
    BY <1>2, <2>1, <2>3 DEF Spent, Designed, Overspent
  <2> QED
    BY <1>1, <2>1, <2>2, <2>4, <2>5, RunMoves DEF HPhase
<1>4. ASSUME NEW k \in {"empty", "bad", "good"},
             To([run EXCEPT !.phase = "verify", !.netlist = k, !.calls = @ + 1])
      PROVE  HarnessInv'
  <2> DEFINE c == run.calls + 1
             r == [run EXCEPT !.phase = "verify", !.netlist = k, !.calls = c]
  <2>1. To(r) /\ c \in Nat
    BY <1>2, <1>4
  <2>2. c <= Budget(run) + 1
    BY <1>2 DEF Overspent
  <2> HIDE DEF c
  <2>3. /\ r \in RunType /\ r.phase = "verify" /\ r.status = run.status /\ r.parts = run.parts
        /\ r.netlist = k /\ r.refines = run.refines /\ r.calls = c
        /\ r.reuse = run.reuse /\ r.reusedNetlist = run.reusedNetlist /\ r.note = run.note
    BY <1>1, <2>1 DEF RunType, HPhase, NetlistKind
  <2> HIDE DEF r
  <2>4. Budget(r) = Budget(run)
    BY <2>3 DEF Budget
  <2>5. RunOK(r) /\ RunSound(r) /\ r.reuse <= Len(notes)
    BY <1>1, <2>3 DEF RunOK, RunSound, HPhase
  <2>6. Spent(r)
    BY <1>1, <2>2, <2>3, <2>4 DEF Spent, TakenOver, RunOK
  <2> QED
    BY <1>1, <2>1, <2>3, <2>5, <2>6, RunMoves DEF HPhase
<1> QED
  BY <1>3, <1>4 DEF Netlist

LEMMA RefineKeeps ==
  ASSUME HarnessInv, run.phase = "verify", To(Refined(run)), UNCHANGED notes, RefinesLeft(run),
         run.netlist = "empty" \/ ~Overspent(run)
  PROVE  HarnessInv'
<1>1. run \in RunType /\ RunOK(run) /\ RunSound(run) /\ Spent(run) /\ run.reuse <= Len(notes)
  BY DEF HarnessInv, HarnessTypeOK
<1> DEFINE f == run.refines + 1
           r == [run EXCEPT !.phase = "netlist", !.refines = f]
<1>2. To(r) /\ f \in 0..MaxRefine /\ f # 0
  BY <1>1, RunFields, HarnessSizes DEF Refined, RefinesLeft
<1> HIDE DEF f
<1>3. /\ r \in RunType /\ r.phase = "netlist" /\ r.status = run.status /\ r.parts = run.parts
      /\ r.netlist = run.netlist /\ r.refines = f /\ r.calls = run.calls
      /\ r.reuse = run.reuse /\ r.reusedNetlist = run.reusedNetlist /\ r.note = run.note
  BY <1>1, <1>2 DEF RunType, HPhase
<1> HIDE DEF r
<1>4. Budget(r) = Budget(run)
  BY <1>3 DEF Budget
<1>5. RunOK(r) /\ RunSound(r) /\ r.reuse <= Len(notes)
  BY <1>1, <1>2, <1>3, <1>4 DEF RunOK, RunSound, HPhase, Designed, Overspent
<1>6. Spent(r)
  BY <1>1, <1>2, <1>3, <1>4 DEF Spent, TakenOver, Designed
<1> QED
  BY <1>2, <1>3, <1>5, <1>6, RunMoves DEF HPhase

LEMMA VerifyKeeps == ASSUME HarnessInv, Verify PROVE HarnessInv'
<1>1. /\ run \in RunType /\ run.phase = "verify" /\ RunOK(run) /\ RunSound(run) /\ Spent(run)
      /\ run.reuse <= Len(notes) /\ UNCHANGED notes /\ run.status = "running"
  BY DEF Verify, At, HarnessInv, HarnessTypeOK, RunOK, HPhase
<1>2. \A r : r = [run EXCEPT !.phase = "store"]
      => r = [run EXCEPT !.phase = "store", !.status = "running"]
  BY <1>1 DEF RunType
<1>3. ASSUME NEW s \in {"running", "partial", "failed"},
             To([run EXCEPT !.phase = "store", !.status = s]),
             s = "running" => Passes(run), TakenOver(run) => Passes(run)
      PROVE  HarnessInv'
  <2> DEFINE r == [run EXCEPT !.phase = "store", !.status = s]
  <2>1. /\ r \in RunType /\ r.phase = "store" /\ r.status = s /\ r.parts = run.parts
        /\ r.netlist = run.netlist /\ r.refines = run.refines /\ r.calls = run.calls
        /\ r.reuse = run.reuse /\ r.reusedNetlist = run.reusedNetlist /\ r.note = run.note
    BY <1>1 DEF RunType, HPhase
  <2>2. To(r)
    BY <1>3
  <2> HIDE DEF r
  <2>3. Budget(r) = Budget(run)
    BY <2>1 DEF Budget
  <2>4. RunOK(r) /\ RunSound(r)
    BY <1>1, <1>3, <2>1 DEF RunOK, RunSound, HPhase, Passes, TakenOver
  <2>5. Spent(r)
    BY <1>1, <2>1, <2>3 DEF Spent, TakenOver, Designed, Overspent
  <2> QED
    BY <1>1, <2>1, <2>2, <2>4, <2>5, RunMoves DEF HPhase
<1>4. CASE run.parts > 0 /\ run.netlist = "empty"
  <2>1. To(VerifyEmpty(run))
    <3>1. ~Passes(run)
      BY <1>1, <1>4, RunFields DEF Passes
    <3> QED
      BY <1>4, <3>1 DEF Verify
  <2>4. ~TakenOver(run)
    BY <1>1, <1>4 DEF Spent, Designed
  <2>2. CASE RefinesLeft(run)
    BY <1>1, <1>4, <2>1, <2>2, RefineKeeps DEF VerifyEmpty
  <2>3. CASE ~RefinesLeft(run)
    <3>1. To([run EXCEPT !.phase = "store", !.status = "failed"])
      BY <2>1, <2>3 DEF VerifyEmpty
    <3> QED
      BY <1>3, <2>4, <3>1
  <2> QED
    BY <2>2, <2>3
<1>5. CASE ~(run.parts > 0 /\ run.netlist = "empty") /\ Passes(run)
  <2>1. To([run EXCEPT !.phase = "store", !.status = "running"])
    BY <1>2, <1>5 DEF Verify
  <2> QED
    BY <1>3, <1>5, <2>1
<1>6. CASE ~Passes(run) /\ run.netlist # "empty"
  <2>1. To(IF Refinable(run) THEN Refined(run) ELSE Accepted(run))
    BY <1>6 DEF Verify
  <2>2. CASE Refinable(run)
    BY <1>1, <2>1, <2>2, RefineKeeps DEF Refinable
  <2>3. CASE ~Refinable(run)
    <3>1. ~TakenOver(run)
      BY <1>1, <2>3, HarnessSizes DEF Spent, TakenOver, Refinable, RefinesLeft
    <3> QED
      BY <1>3, <2>1, <2>3, <3>1 DEF Accepted
  <2> QED
    BY <2>2, <2>3
<1>7. Passes(run) \/ ~Passes(run)
  OBVIOUS
<1>8. ~Passes(run) /\ run.netlist = "empty" => run.parts > 0
  BY <1>1, RunFields DEF Passes
<1> QED
  BY <1>4, <1>5, <1>6, <1>8

LEMMA EndedEarlyKeeps == ASSUME HarnessInv, Abort \/ PhaseFails PROVE HarnessInv'
<1>1. /\ run \in RunType /\ run.phase \in HPhase /\ RunOK(run) /\ RunSound(run) /\ Spent(run)
      /\ run.reuse <= Len(notes) /\ UNCHANGED notes
  BY DEF Abort, PhaseFails, At, HarnessInv, HarnessTypeOK, HPhase
<1>2. PICK s \in {"failed", "aborted"} : To([run EXCEPT !.status = s, !.phase = s])
  BY DEF Abort, PhaseFails
<1> DEFINE r == [run EXCEPT !.status = s, !.phase = s]
<1>3. /\ r \in RunType /\ r.phase = s /\ r.status = s /\ r.parts = run.parts
      /\ r.netlist = run.netlist /\ r.refines = run.refines /\ r.calls = run.calls
      /\ r.reuse = run.reuse /\ r.reusedNetlist = run.reusedNetlist /\ r.note = run.note
  BY <1>1 DEF RunType, Ended
<1>4. To(r)
  BY <1>2
<1> HIDE DEF r
<1>5. Budget(r) = Budget(run)
  BY <1>3 DEF Budget
<1>6. RunOK(r) /\ RunSound(r)
  BY <1>3 DEF RunOK, RunSound, HPhase
<1>7. Spent(r)
  BY <1>1, <1>3, <1>5 DEF Spent, TakenOver, Designed, Overspent
<1> QED
  BY <1>1, <1>3, <1>4, <1>6, <1>7, RunMoves

LEMMA QualityInRange ==
  ASSUME NEW r \in RunType, NEW s PROVE Quality(r, s) \in 0..100
<1>1. r.refines \in Nat
  BY RunFields, HarnessSizes
<1> QED
  BY <1>1 DEF Quality

LEMMA StoreKeeps == ASSUME HarnessInv, Store PROVE HarnessInv'
<1>1. /\ run \in RunType /\ run.phase = "store" /\ RunOK(run) /\ RunSound(run) /\ Spent(run)
      /\ run.reuse <= Len(notes) /\ session \in 1..MaxSessions /\ notes \in Seq(CaseType)
  BY HarnessSizes DEF Store, At, HarnessInv, HarnessTypeOK, HPhase, CaseType
<1> DEFINE s == Outcome(run)
           Noted(o) == [run EXCEPT !.phase = "done", !.status = s, !.note = o]
<1>2. /\ s \in {"running", "failed", "partial"} /\ run.status \in {"running", "failed", "partial"}
      /\ s = "running" => Passes(run) /\ run.unrealized = FALSE
  BY <1>1, RunFields DEF Outcome, RunOK, RunSound
<1>3. ASSUME NEW o \in Nat, To(Noted(o)),
             notes' \in Seq(CaseType), MemoryIsSound', Len(notes) <= Len(notes'),
             o = run.reuse => TakenOver(run)
      PROVE  HarnessInv'
  <2> DEFINE r == Noted(o)
  <2> HIDE DEF s
  <2>1. /\ r \in RunType /\ r.phase = "done" /\ r.status = s /\ r.parts = run.parts
        /\ r.netlist = run.netlist /\ r.refines = run.refines /\ r.calls = run.calls
        /\ r.unrealized = run.unrealized
        /\ r.reuse = run.reuse /\ r.reusedNetlist = run.reusedNetlist /\ r.note = o
    BY <1>1, <1>2 DEF RunType, Ended
  <2>2. run' = r /\ UNCHANGED <<session, saved, crashes, outcomes>>
    BY <1>3 DEF To
  <2> HIDE DEF r
  <2>3. Budget(r) = Budget(run)
    BY <2>1 DEF Budget
  <2>4. RunOK(r) /\ RunSound(r)
    BY <1>1, <1>2, <1>3, <2>1 DEF RunOK, RunSound, HPhase, Passes
  <2>5. Spent(r)
    BY <1>1, <2>1, <2>3 DEF Spent, TakenOver, Designed, Overspent
  <2>6. r.reuse <= Len(notes')
    BY <1>1, <1>3, <2>1, RunFields
  <2>7. session > 0
    BY <1>1
  <2> QED
    BY <1>3, <2>1, <2>2, <2>4, <2>5, <2>6, <2>7, RunGoesOn
<1>4. run.reuse \in Nat /\ Len(notes) \in Nat
  BY <1>1, RunFields
<1>5. CASE TakenOver(run)
  <2>1. To(Noted(run.reuse)) /\ notes' = notes
    BY <1>5 DEF Store
  <2> HIDE DEF s, Noted
  <2>2. MemoryIsSound'
    BY <2>1 DEF HarnessInv, MemoryIsSound
  <2>3. notes' \in Seq(CaseType) /\ Len(notes) <= Len(notes')
    BY <1>1, <1>4, <2>1
  <2> QED
    BY <1>3, <1>4, <1>5, <2>1, <2>2, <2>3
<1>6. CASE ~TakenOver(run)
  <2> DEFINE note == [of |-> session, status |-> FinalStatus(s), quality |-> Quality(run, s),
                      parts |-> run.parts, netlist |-> run.netlist]
  <2>1. To(Noted(Len(notes) + 1))
        /\ notes' = Append(notes, note)
    BY <1>6 DEF Store
  <2>2. note \in CaseType
    BY <1>1, <1>2, RunFields, QualityInRange DEF CaseType, FinalStatus
  <2>3. note.status = "complete" => Passes(note)
    BY <1>2 DEF FinalStatus, Passes
  <2> HIDE DEF note, s, Noted
  <2>4. notes' \in Seq(CaseType) /\ Len(notes') = Len(notes) + 1
        /\ \A i \in DOMAIN notes' : notes'[i] = IF i = Len(notes) + 1 THEN note ELSE notes[i]
    BY <1>1, <2>1, <2>2
  <2>5. DOMAIN notes = 1..Len(notes) /\ DOMAIN notes' = 1..Len(notes')
    BY <1>1, <2>4
  <2>6. MemoryIsSound'
    BY <1>4, <2>3, <2>4, <2>5 DEF HarnessInv, MemoryIsSound
  <2>7. Len(notes) + 1 \in Nat /\ Len(notes) + 1 # run.reuse
    BY <1>1, <1>4
  <2>8. Len(notes) <= Len(notes')
    BY <1>4, <2>4
  <2> QED
    BY <1>3, <2>1, <2>4, <2>6, <2>7, <2>8
<1> QED
  BY <1>5, <1>6

LEMMA BuildKeeps == ASSUME HarnessInv, Build PROVE HarnessInv'
<1>1. /\ session' = session + 1 /\ session' \in 1..MaxSessions /\ run' = NewRun /\ saved' = NewRun
      /\ UNCHANGED <<notes, crashes, outcomes>>
  BY HarnessSizes DEF Build, HarnessInv, HarnessTypeOK
<1>2. NewRun \in RunType /\ NewRun.reuse = 0
  BY HarnessSizes DEF NewRun, RunType, HPhase, NetlistKind
<1>3. RunOK(NewRun) /\ RunSound(NewRun) /\ Spent(NewRun)
  BY DEF NewRun, RunOK, RunSound, Spent, HPhase, Designed, TakenOver
<1>4. notes \in Seq(CaseType) /\ MemoryIsSound' /\ HarnessTypeOK'
  BY <1>1, <1>2 DEF HarnessInv, HarnessTypeOK, MemoryIsSound, CaseType
<1> QED
  BY <1>1, <1>2, <1>3, <1>4 DEF HarnessInv

LEMMA CheckpointKeeps == ASSUME HarnessInv, Checkpoint \/ Crash PROVE HarnessInv'
<1>1. PICK r \in {saved, Finished(run)} :
        run' = r /\ saved' = r /\ UNCHANGED <<session, notes, outcomes>> /\ crashes' \in 0..MaxCrashes
  BY HarnessSizes DEF Checkpoint, Crash, HarnessInv, HarnessTypeOK
<1>2. /\ r \in RunType /\ RunOK(r) /\ RunSound(r) /\ Spent(r) /\ r.reuse <= Len(notes)
      /\ r.phase \in HPhase => session > 0
  <2>1. CASE r = saved \/ r = run
    BY <2>1 DEF HarnessInv, HarnessTypeOK
  <2>2. CASE run.phase \in Ended /\ run.status = "running" /\ r = [run EXCEPT !.status = "complete"]
    <3>1. run \in RunType /\ RunOK(run) /\ RunSound(run) /\ Spent(run) /\ run.reuse <= Len(notes)
      BY DEF HarnessInv, HarnessTypeOK
    <3>2. /\ r \in RunType /\ r.phase = run.phase /\ r.status = "complete" /\ r.parts = run.parts
          /\ r.netlist = run.netlist /\ r.refines = run.refines /\ r.calls = run.calls
          /\ r.unrealized = run.unrealized
          /\ r.reuse = run.reuse /\ r.reusedNetlist = run.reusedNetlist /\ r.note = run.note
      BY <2>2, <3>1 DEF RunType
    <3>3. Budget(r) = Budget(run)
      BY <3>2 DEF Budget
    <3>4. RunOK(r) /\ RunSound(r)
      BY <2>2, <3>1, <3>2 DEF RunOK, RunSound, HPhase, Ended, Passes
    <3>5. Spent(r)
      BY <3>1, <3>2, <3>3 DEF Spent, TakenOver, Designed, Overspent
    <3> QED
      BY <2>2, <3>1, <3>2, <3>4, <3>5 DEF HPhase, Ended
  <2> QED
    BY <1>1, <2>1, <2>2 DEF Finished
<1>3. HarnessTypeOK' /\ MemoryIsSound'
  BY <1>1, <1>2 DEF HarnessInv, HarnessTypeOK, MemoryIsSound
<1> QED
  BY <1>1, <1>2, <1>3 DEF HarnessInv

LEMMA OutcomeKeeps ==
  ASSUME HarnessInv, NEW i \in DOMAIN notes, NEW o \in DOMAIN Delta, RecordOutcome(i, o)
  PROVE  HarnessInv'
<1>1. /\ outcomes' \in 0..MaxOutcomes /\ UNCHANGED <<session, run, saved, crashes>>
      /\ notes \in Seq(CaseType)
  <2>1. outcomes \in 0..MaxOutcomes /\ outcomes < MaxOutcomes /\ outcomes' = outcomes + 1
    BY DEF RecordOutcome, HarnessInv, HarnessTypeOK
  <2>2. outcomes' \in 0..MaxOutcomes
    BY <2>1, HarnessSizes
  <2> QED
    BY <2>2 DEF RecordOutcome, HarnessInv, HarnessTypeOK, CaseType
<1> DEFINE q == Moved(notes[i].quality, o)
           note == [notes[i] EXCEPT !.quality = q]
<1>2. notes' = [notes EXCEPT ![i] = note]
  BY DEF RecordOutcome
<1>3. notes[i] \in CaseType
  BY <1>1
<1>4. Delta[o] \in Nat
  BY DEF Delta
<1>5. q \in 0..100
  <2>1. notes[i].quality \in 0..100
    BY <1>3 DEF CaseType
  <2> QED
    <3> DEFINE n == notes[i].quality
               d == Delta[o]
    <3>1. n \in 0..100 /\ d \in Nat
      BY <1>4, <2>1
    <3>2. q = IF o = "rejected" THEN n - Least(n, d) ELSE Least(100, n + d)
      BY DEF Moved
    <3> HIDE DEF n, d, q
    <3>3. n - Least(n, d) \in 0..100 /\ Least(100, n + d) \in 0..100
      BY <3>1 DEF Least
    <3> QED
      BY <3>2, <3>3
<1> HIDE DEF q
<1>6. note \in CaseType /\ note.status = notes[i].status /\ note.parts = notes[i].parts
      /\ note.netlist = notes[i].netlist
  BY <1>3, <1>5 DEF CaseType
<1> HIDE DEF note
<1>7. notes' \in Seq(CaseType) /\ Len(notes') = Len(notes) /\ DOMAIN notes' = DOMAIN notes
      /\ notes'[i] = note /\ \A k \in DOMAIN notes : k # i => notes'[k] = notes[k]
  BY <1>1, <1>2, <1>6
<1>8. MemoryIsSound'
  BY <1>6, <1>7 DEF HarnessInv, MemoryIsSound, Passes
<1>9. HarnessTypeOK'
  BY <1>1, <1>7 DEF HarnessInv, HarnessTypeOK, CaseType
<1> QED
  BY <1>1, <1>7, <1>8, <1>9 DEF HarnessInv

LEMMA HarnessStarts == HarnessInit => HarnessInv
<1> SUFFICES ASSUME HarnessInit PROVE HarnessInv
  OBVIOUS
<1> DEFINE r == NoRun
<1>1. /\ r \in RunType /\ r.phase = "done" /\ r.status = "running" /\ r.parts = 0 /\ r.netlist = "none"
      /\ r.reuse = 0 /\ r.note = 0 /\ r.unrealized = FALSE /\ r.reusedNetlist = FALSE
  <2> DEFINE n == NewRun
  <2>1. /\ n \in RunType /\ n.status = "running" /\ n.parts = 0 /\ n.netlist = "none"
        /\ n.reuse = 0 /\ n.note = 0 /\ n.unrealized = FALSE /\ n.reusedNetlist = FALSE
    BY HarnessSizes DEF NewRun, RunType, HPhase, NetlistKind
  <2>2. r = [n EXCEPT !.phase = "done"]
    BY DEF NoRun
  <2> HIDE DEF n, r
  <2> QED
    BY <2>1, <2>2 DEF RunType, Ended
<1>2. RunOK(r) /\ RunSound(r) /\ Spent(r)
  BY <1>1 DEF RunOK, RunSound, Spent, HPhase, Passes, Designed, TakenOver
<1>3. notes \in Seq(CaseType) /\ Len(notes) = 0 /\ run = r /\ saved = r
  BY DEF HarnessInit
<1>4. HarnessTypeOK /\ MemoryIsSound
  BY <1>1, <1>3, HarnessSizes DEF HarnessInit, HarnessTypeOK, MemoryIsSound, CaseType
<1> QED
  BY <1>1, <1>2, <1>3, <1>4 DEF HarnessInv, HPhase

LEMMA HarnessStep == HarnessInv /\ [HarnessNext]_harnessVars => HarnessInv'
<1> SUFFICES ASSUME HarnessInv, [HarnessNext]_harnessVars PROVE HarnessInv'
  OBVIOUS
<1>1. CASE UNCHANGED harnessVars
  BY <1>1 DEF harnessVars, HarnessInv, HarnessTypeOK, MemoryIsSound
<1> QED
  BY <1>1, ClassifyKeeps, RetrieveKeeps, ComponentsKeeps, DatasheetKeeps, ExpandKeeps,
     NetlistKeeps, VerifyKeeps, StoreKeeps, EndedEarlyKeeps, BuildKeeps, CheckpointKeeps,
     OutcomeKeeps
     DEF HarnessNext, RunStep

(* BuildsSound: through refinements, reuse of cases, resumptions and late  *)
(* outcomes, a build or a case that says "complete" passed the verifier,   *)
(* and no run spends more than a call over its budget.                     *)
THEOREM BuildsAreSound == HarnessSpec => [](HarnessTypeOK /\ BuildsSound)
<1>1. HarnessInv => HarnessTypeOK /\ BuildsSound
  BY DEF HarnessInv, BuildsSound, CompleteIsSound, CallsBounded, TakenOverIsSound, RunSound,
         Spent
<1> QED
  BY <1>1, HarnessStarts, HarnessStep, PTL DEF HarnessSpec

-----------------------------------------------------------------------------
(* Support jobs.  The desktop holds a job's number: the job behind it is of *)
(* the specification that it read.                                         *)

SupportJob ==
  [spec : Specification, status : JobStatus, result : Specification \cup {NoSpecification}]
DeskState ==
  [at : {"idle", "creating", "waiting", "fetching", "building"},
   spec : Specification \cup {NoSpecification}, job : Nat,
   result : Specification \cup {NoSpecification}]

(* The desktop waits for a job of the specification it read.               *)
DeskAsks ==
  /\ desk.at # "idle" => desk.spec \in Specification
  /\ desk.at \in {"waiting", "fetching"} => jobs[desk.job].spec = desk.spec
TasksRun == \A i \in DOMAIN jobs : tasks[i] = "asked" => jobs[i].status \in {"running", "cancelled"}

SupportInv == SupportTypeOK /\ ResultsSound /\ DeskAsks /\ TasksRun

LEMMA SupportSizes ==
  /\ MaxSubmits \in Nat /\ MaxEdits \in Nat /\ MaxRestarts \in Nat
  /\ Specification # {} /\ NoSpecification \notin Specification
BY SupportConstants

LEMMA SupportTyped ==
  ASSUME SupportTypeOK
  PROVE  /\ desk \in DeskState /\ jobs \in Seq(SupportJob) /\ Len(jobs) \in Nat
         /\ DOMAIN jobs = 1..Len(jobs) /\ DOMAIN tasks = DOMAIN jobs
         /\ \A i \in DOMAIN jobs : jobs[i] \in SupportJob
<1>1. /\ desk \in DeskState /\ jobs \in Seq(SupportJob)
      /\ tasks \in Seq({"due", "asked", "over"}) /\ Len(tasks) = Len(jobs)
  BY DEF SupportTypeOK, SupportJob, DeskState
<1>2. Len(jobs) \in Nat /\ DOMAIN jobs = 1..Len(jobs)
  BY <1>1
<1>3. DOMAIN tasks = 1..Len(tasks)
  BY <1>1
<1>4. \A i \in DOMAIN jobs : jobs[i] \in SupportJob
  BY <1>1
<1> QED
  BY <1>1, <1>2, <1>3, <1>4

LEMMA DeskWaits ==
  ASSUME SupportTypeOK, NEW i \in Nat
  PROVE  LET d == [desk EXCEPT !.at = "waiting", !.job = i] IN
         d \in DeskState /\ d.at = "waiting" /\ d.job = i /\ d.spec = desk.spec
<1>1. desk = [at |-> desk.at, spec |-> desk.spec, job |-> desk.job, result |-> desk.result]
      /\ desk.spec \in Specification \cup {NoSpecification}
         /\ desk.result \in Specification \cup {NoSpecification}
  BY DEF SupportTypeOK
<1>2. [desk EXCEPT !.at = "waiting", !.job = i]
        = [at |-> "waiting", spec |-> desk.spec, job |-> i, result |-> desk.result]
  <2> DEFINE e == [desk EXCEPT !.at = "waiting"]
  <2>1. e = [at |-> "waiting", spec |-> desk.spec, job |-> desk.job, result |-> desk.result]
    BY <1>1
  <2>2. [desk EXCEPT !.at = "waiting", !.job = i] = [e EXCEPT !.job = i]
    OBVIOUS
  <2> HIDE DEF e
  <2>3. [e EXCEPT !.job = i] = [at |-> "waiting", spec |-> desk.spec, job |-> i,
                                result |-> desk.result]
    BY <2>1
  <2> QED
    BY <2>2, <2>3
<1> QED
  BY <1>1, <1>2 DEF DeskState

LEMMA DeskMoves ==
  ASSUME SupportInv, desk' \in DeskState, UNCHANGED <<file, jobs, tasks, submits, edits, restarts>>,
         built' \in Specification \cup {NoSpecification},
         \/ desk'.at \in {"idle"}
         \/ desk'.at = "creating" /\ desk'.spec \in Specification
         \/ /\ desk'.at \in {"waiting", "fetching"} /\ desk'.job \in DOMAIN jobs
            /\ desk'.spec \in Specification /\ jobs[desk'.job].spec = desk'.spec
         \/ desk'.at = "building" /\ desk'.spec \in Specification /\ desk'.result = desk'.spec
  PROVE  SupportInv'
BY DEF SupportInv, SupportTypeOK, DeskState, ResultsSound, AskedOnce, ResultTrue, DeskAsks,
       TasksRun

LEMMA JobChanges ==
  ASSUME SupportInv, NEW i \in DOMAIN jobs, NEW s \in JobStatus,
         NEW r \in Specification \cup {NoSpecification},
         jobs' = [jobs EXCEPT ![i] = [spec |-> jobs[i].spec, status |-> s, result |-> r]]
  PROVE  /\ jobs' \in Seq(SupportJob) /\ Len(jobs') = Len(jobs) /\ DOMAIN jobs' = DOMAIN jobs
         /\ jobs'[i].spec = jobs[i].spec /\ jobs'[i].status = s /\ jobs'[i].result = r
         /\ \A k \in DOMAIN jobs : k # i => jobs'[k] = jobs[k]
<1> DEFINE w == [spec |-> jobs[i].spec, status |-> s, result |-> r]
<1>1. w \in SupportJob /\ w.spec = jobs[i].spec /\ w.status = s /\ w.result = r
  BY SupportTyped DEF SupportInv, SupportJob
<1> HIDE DEF w
<1>2. jobs' = [jobs EXCEPT ![i] = w] /\ jobs \in Seq(SupportJob) /\ i \in 1..Len(jobs)
  BY SupportTyped DEF w, SupportInv
<1>3. jobs' \in Seq(SupportJob) /\ Len(jobs') = Len(jobs)
  BY <1>1, <1>2, ExceptSeq
<1> QED
  BY <1>1, <1>2, <1>3

(* A job changes its status, and its task what it does. *)
LEMMA StatusWritten ==
  ASSUME SupportInv, NEW i \in DOMAIN jobs, NEW s \in JobStatus,
         jobs' = [jobs EXCEPT ![i].status = s]
  PROVE  /\ jobs' \in Seq(SupportJob) /\ Len(jobs') = Len(jobs) /\ DOMAIN jobs' = DOMAIN jobs
         /\ jobs'[i].spec = jobs[i].spec /\ jobs'[i].status = s /\ jobs'[i].result = jobs[i].result
         /\ \A k \in DOMAIN jobs : k # i => jobs'[k] = jobs[k]
<1>1. jobs[i] = [spec |-> jobs[i].spec, status |-> jobs[i].status, result |-> jobs[i].result]
  BY SupportTyped DEF SupportInv, SupportJob
<1>2. [jobs[i] EXCEPT !.status = s] = [spec |-> jobs[i].spec, status |-> s, result |-> jobs[i].result]
  BY <1>1
<1>3. jobs' = [jobs EXCEPT ![i] = [spec |-> jobs[i].spec, status |-> s, result |-> jobs[i].result]]
  BY <1>2
<1>4. jobs[i].result \in Specification \cup {NoSpecification}
  BY SupportTyped DEF SupportInv, SupportJob
<1> QED
  BY <1>3, <1>4, JobChanges

LEMMA TasksChange ==
  ASSUME SupportInv, NEW i \in DOMAIN jobs, NEW x \in {"due", "asked", "over"},
         tasks' = [tasks EXCEPT ![i] = x]
  PROVE  /\ tasks' \in Seq({"due", "asked", "over"}) /\ Len(tasks') = Len(tasks)
         /\ tasks'[i] = x /\ \A k \in DOMAIN jobs : k # i => tasks'[k] = tasks[k]
<1>1. tasks \in Seq({"due", "asked", "over"}) /\ i \in 1..Len(tasks) /\ DOMAIN tasks = DOMAIN jobs
  BY SupportTyped DEF SupportInv, SupportTypeOK
<1> QED
  BY <1>1, ExceptSeq

(* What a gateway step on one job may do. *)
LEMMA GatewayKeeps ==
  ASSUME SupportInv, NEW i \in DOMAIN jobs, jobs' \in Seq(SupportJob), Len(jobs') = Len(jobs),
         UNCHANGED <<file, built, submits, edits, restarts>>,
         desk' \in {desk, Idle},
         tasks' \in Seq({"due", "asked", "over"}), Len(tasks') = Len(tasks),
         \A k \in DOMAIN jobs : k # i => jobs'[k] = jobs[k] /\ tasks'[k] = tasks[k],
         jobs'[i].spec = jobs[i].spec, jobs[i].status = "lost" => jobs'[i].status = "lost",
         jobs'[i].status = "completed" => jobs'[i].result = jobs[i].spec,
         tasks'[i] = "asked" => jobs'[i].status \in {"running", "cancelled"}
  PROVE  SupportInv'
<1>1. DOMAIN jobs = 1..Len(jobs) /\ DOMAIN jobs' = DOMAIN jobs /\ desk' \in DeskState
  BY SupportTyped DEF SupportInv, Idle, DeskState
<1>2. SupportTypeOK'
  BY <1>1 DEF SupportInv, SupportTypeOK, SupportJob, DeskState, Idle
<1>5. \A k \in DOMAIN jobs :
        /\ jobs'[k].spec = jobs[k].spec /\ (jobs[k].status = "lost" => jobs'[k].status = "lost")
        /\ jobs'[k].status = "completed" => jobs'[k].result = jobs[k].spec
  BY DEF SupportInv, ResultsSound, ResultTrue
<1>3. ResultsSound'
  <2>1. AskedOnce'
    BY <1>1, <1>5 DEF SupportInv, ResultsSound, AskedOnce
  <2>2. ResultTrue'
    BY <1>1, <1>5 DEF SupportInv, ResultsSound, ResultTrue, Idle
  <2> QED
    BY <2>1, <2>2 DEF ResultsSound
<1>4. DeskAsks' /\ TasksRun'
  BY <1>1, SupportTyped DEF SupportInv, DeskAsks, TasksRun, SupportTypeOK, Idle
<1> QED
  BY <1>2, <1>3, <1>4 DEF SupportInv

LEMMA DeskStepKeeps ==
  ASSUME SupportInv, Submit \/ GiveUp \/ Poll \/ Fetch \/ BuildStructure PROVE SupportInv'
<1> USE SupportTyped DEF Bounds, SupportInv
<1>1. Idle \in DeskState /\ Idle.at = "idle"
  BY DEF Idle, DeskState
<1>2. CASE Submit
  <2>1. /\ desk' \in DeskState /\ desk'.at = "creating" /\ desk'.spec \in Specification
        /\ submits' \in 0..MaxSubmits
        /\ UNCHANGED <<file, jobs, tasks, built, edits, restarts>>
    <3>1. [Idle EXCEPT !.at = "creating", !.spec = file]
            = [at |-> "creating", spec |-> file, job |-> 0, result |-> NoSpecification]
      <4> DEFINE e == [Idle EXCEPT !.at = "creating"]
      <4>1. e = [at |-> "creating", spec |-> NoSpecification, job |-> 0, result |-> NoSpecification]
        BY DEF Idle
      <4>2. [Idle EXCEPT !.at = "creating", !.spec = file] = [e EXCEPT !.spec = file]
        OBVIOUS
      <4> HIDE DEF e
      <4>3. [e EXCEPT !.spec = file]
              = [at |-> "creating", spec |-> file, job |-> 0, result |-> NoSpecification]
        BY <4>1
      <4> QED
        BY <4>2, <4>3
    <3>2. desk' = [at |-> "creating", spec |-> file, job |-> 0, result |-> NoSpecification]
          /\ file \in Specification
      BY <1>2, <3>1 DEF Submit, SupportTypeOK
    <3>3. desk' \in DeskState /\ desk'.at = "creating" /\ desk'.spec \in Specification
      BY <3>2 DEF DeskState
    <3> QED
      BY <1>2, <3>3, SupportSizes DEF Submit, SupportTypeOK
  <2> QED
    BY <2>1
       DEF SupportTypeOK, DeskState, ResultsSound, AskedOnce, ResultTrue, DeskAsks, TasksRun
<1>3. CASE GiveUp
  BY <1>1, <1>3, DeskMoves DEF GiveUp, SupportTypeOK
<1>4. CASE Poll
  <2>1. CASE UNCHANGED desk
    BY <1>4, <2>1
       DEF Poll, SupportTypeOK, ResultsSound, AskedOnce, ResultTrue, DeskAsks, TasksRun
  <2>2. CASE desk' = [desk EXCEPT !.at = "fetching"]
    <3>1. /\ desk' \in DeskState /\ desk'.at = "fetching" /\ desk'.job \in DOMAIN jobs
          /\ desk'.spec \in Specification /\ jobs[desk'.job].spec = desk'.spec
      BY <1>4, <2>2 DEF Poll, DeskState, DeskAsks, SupportTypeOK
    <3> QED
      BY <3>1, <1>4, DeskMoves DEF Poll, SupportTypeOK
  <2>3. CASE desk' = Idle
    BY <1>1, <1>4, <2>3, DeskMoves DEF Poll, SupportTypeOK
  <2> QED
    BY <1>4, <2>1, <2>2, <2>3 DEF Poll
<1>5. CASE Fetch
  <2>1. CASE desk' = Idle
    BY <1>1, <1>5, <2>1, DeskMoves DEF Fetch, SupportTypeOK
  <2>2. CASE /\ jobs[desk.job].status = "completed"
             /\ desk' = [desk EXCEPT !.at = "building", !.result = jobs[desk.job].result]
    <3>1. /\ desk' \in DeskState /\ desk'.at = "building" /\ desk'.spec \in Specification
          /\ desk'.result = desk'.spec
      BY <1>5, <2>2 DEF Fetch, DeskState, DeskAsks, SupportTypeOK, ResultsSound, ResultTrue
    <3> QED
      BY <3>1, <1>5, DeskMoves DEF Fetch, SupportTypeOK
  <2> QED
    BY <1>5, <2>1, <2>2 DEF Fetch
<1>6. CASE BuildStructure
  <2>1. built' \in Specification \cup {NoSpecification}
    BY <1>6 DEF BuildStructure, SupportTypeOK
  <2> QED
    BY <1>1, <1>6, <2>1, DeskMoves DEF BuildStructure
<1> QED
  BY <1>2, <1>3, <1>4, <1>5, <1>6

LEMMA CreateJobKeeps ==
  ASSUME SupportInv, CreateJob PROVE SupportInv'
<1> USE SupportTyped DEF SupportInv
<1>1. UNCHANGED <<file, built, submits, edits, restarts>> /\ desk.spec \in Specification
  BY DEF CreateJob, Bounds, DeskAsks
<1>2. ASSUME NEW i \in Existing(desk.spec),
             Answered([desk EXCEPT !.at = "waiting", !.job = i]), UNCHANGED <<jobs, tasks>>
      PROVE  SupportInv'
  <2>1. CASE desk' = Idle
    BY <1>1, <1>2, <2>1, DeskMoves DEF Idle, DeskState, SupportTypeOK
  <2>2. CASE desk' = [desk EXCEPT !.at = "waiting", !.job = i]
    <3>1. /\ desk' \in DeskState /\ desk'.at = "waiting" /\ desk'.job \in DOMAIN jobs
          /\ desk'.spec \in Specification /\ jobs[desk'.job].spec = desk'.spec
      <4>1. i \in DOMAIN jobs /\ i \in Nat /\ jobs[i].spec = desk.spec
        BY DEF Existing
      <4> QED
        BY <1>1, <2>2, <4>1, DeskWaits
    <3> QED
      BY <1>1, <1>2, <3>1, DeskMoves DEF SupportTypeOK
  <2> QED
    BY <1>2, <2>1, <2>2 DEF Answered
<1>3. ASSUME Existing(desk.spec) = {},
             jobs' = Append(jobs, [spec |-> desk.spec, status |-> "queued",
                                   result |-> NoSpecification]),
             tasks' = Append(tasks, "due"),
             Answered([desk EXCEPT !.at = "waiting", !.job = Len(jobs) + 1])
      PROVE  SupportInv'
  <2> DEFINE w == [spec |-> desk.spec, status |-> "queued", result |-> NoSpecification]
             n == Len(jobs) + 1
  <2>1. w \in SupportJob /\ w.spec = desk.spec /\ w.status = "queued"
    BY <1>1 DEF SupportJob, JobStatus
  <2>2. jobs' = Append(jobs, w)
    BY <1>3
  <2> HIDE DEF w
  <2>3. /\ jobs' \in Seq(SupportJob) /\ Len(jobs') = n /\ jobs'[n] = w
        /\ \A i \in DOMAIN jobs : jobs'[i] = jobs[i]
        /\ DOMAIN jobs' = DOMAIN jobs \cup {n} /\ n \notin DOMAIN jobs
    BY <2>1, <2>2, AppendProperties
  <2>4. /\ tasks' \in Seq({"due", "asked", "over"}) /\ Len(tasks') = Len(jobs') /\ tasks'[n] = "due"
        /\ \A i \in DOMAIN jobs : tasks'[i] = tasks[i]
    BY <1>3, <2>3, AppendProperties DEF SupportTypeOK
  <2>5. desk' \in DeskState /\ (desk'.at = "waiting" => desk'.job = n /\ desk'.spec = desk.spec)
        /\ desk'.at \in {"idle", "waiting"}
    <3>1. n \in Nat
      OBVIOUS
    <3>2. desk' \in {[desk EXCEPT !.at = "waiting", !.job = n], Idle}
      BY <1>3 DEF Answered
    <3>3. Idle \in DeskState /\ Idle.at = "idle"
      BY DEF Idle, DeskState
    <3> HIDE DEF n
    <3> QED
      BY <3>1, <3>2, <3>3, DeskWaits
  <2> HIDE DEF n
  <2>6. SupportTypeOK'
    BY <1>1, <2>3, <2>4, <2>5 DEF SupportTypeOK, SupportJob, DeskState
  <2>7. ResultsSound'
    <3>1. \A i \in DOMAIN jobs : jobs[i].spec = desk.spec => jobs[i].status = "lost"
      BY <1>3 DEF Existing
    <3> QED
      BY <2>1, <2>3, <2>5, <3>1 DEF ResultsSound, AskedOnce, ResultTrue
  <2>8. DeskAsks' /\ TasksRun'
    BY <1>1, <2>1, <2>3, <2>4, <2>5 DEF DeskAsks, TasksRun
  <2> QED
    BY <2>6, <2>7, <2>8
<1> QED
  BY <1>2, <1>3 DEF CreateJob

LEMMA TimedOutKeeps == ASSUME SupportInv, TimedOut PROVE SupportInv'
<1> DEFINE i == desk.job
<1>1. /\ i \in DOMAIN jobs /\ desk' = Idle /\ UNCHANGED <<file, tasks, built, submits, edits,
         restarts>>
      /\ jobs' = jobs \/ (Cancels(jobs[i].status) /\ jobs' = [jobs EXCEPT ![i].status = "cancelled"])
  BY DEF TimedOut, CancelSent, Bounds, SupportInv, SupportTypeOK
<1> HIDE DEF i
<1>2. /\ jobs' \in Seq(SupportJob) /\ Len(jobs') = Len(jobs)
      /\ \A k \in DOMAIN jobs : k # i => jobs'[k] = jobs[k]
      /\ jobs'[i].spec = jobs[i].spec /\ jobs'[i].result = jobs[i].result
      /\ jobs'[i].status = jobs[i].status \/ (jobs'[i].status = "cancelled" /\ jobs[i].status # "lost")
  <2>1. CASE jobs' = jobs
    BY <2>1, SupportTyped DEF SupportInv
  <2>2. CASE Cancels(jobs[i].status) /\ jobs' = [jobs EXCEPT ![i].status = "cancelled"]
    <3>1. "cancelled" \in JobStatus /\ jobs[i].result \in Specification \cup {NoSpecification}
      BY <1>1, SupportTyped DEF JobStatus, Terminal, SupportInv, SupportJob
    <3> QED
      BY <1>1, <2>2, <3>1, StatusWritten DEF Cancels
  <2> QED
    BY <1>1, <2>1, <2>2
<1> QED
  BY <1>1, <1>2, GatewayKeeps DEF SupportInv, SupportTypeOK, TasksRun, ResultsSound, ResultTrue

LEMMA RunRemoteKeeps == ASSUME SupportInv, NEW i \in DOMAIN jobs, RunRemote(i) PROVE SupportInv'
<1>1. /\ UNCHANGED <<file, desk, built, submits, edits, restarts>>
      /\ \E x \in {"asked", "over"} : tasks' = [tasks EXCEPT ![i] = x]
      /\ \/ tasks' = [tasks EXCEPT ![i] = "over"] /\ jobs' = jobs
         \/ /\ tasks' = [tasks EXCEPT ![i] = "over"] /\ jobs[i].status = "queued"
            /\ jobs' = [jobs EXCEPT ![i].status = "failed"]
         \/ /\ tasks' = [tasks EXCEPT ![i] = "asked"] /\ jobs[i].status = "queued"
            /\ jobs' = [jobs EXCEPT ![i].status = "running"]
  BY DEF RunRemote, Bounds
<1>2. {"failed", "running"} \subseteq JobStatus
      /\ jobs[i].result \in Specification \cup {NoSpecification}
  BY SupportTyped DEF JobStatus, Terminal, SupportInv, SupportJob
<1>3. CASE tasks' = [tasks EXCEPT ![i] = "over"] /\ jobs' = jobs
  <2>1. /\ jobs' \in Seq(SupportJob) /\ Len(jobs') = Len(jobs) /\ desk' \in {desk, Idle}
        /\ \A k \in DOMAIN jobs : jobs'[k] = jobs[k]
        /\ jobs'[i].status = "completed" => jobs'[i].result = jobs[i].spec
    BY <1>1, <1>3, SupportTyped DEF SupportInv, ResultsSound, ResultTrue
  <2>2. /\ tasks' \in Seq({"due", "asked", "over"}) /\ Len(tasks') = Len(tasks)
        /\ tasks'[i] = "over" /\ \A k \in DOMAIN jobs : k # i => tasks'[k] = tasks[k]
    BY <1>1, <1>3, TasksChange
  <2> QED
    BY <1>1, <2>1, <2>2, GatewayKeeps
<1>4. CASE /\ tasks' = [tasks EXCEPT ![i] = "over"] /\ jobs[i].status = "queued"
           /\ jobs' = [jobs EXCEPT ![i].status = "failed"]
  <2>1. /\ jobs' \in Seq(SupportJob) /\ Len(jobs') = Len(jobs)
        /\ jobs'[i].spec = jobs[i].spec /\ jobs'[i].status = "failed"
        /\ \A k \in DOMAIN jobs : k # i => jobs'[k] = jobs[k]
    BY <1>2, <1>4, StatusWritten
  <2>2. /\ tasks' \in Seq({"due", "asked", "over"}) /\ Len(tasks') = Len(tasks)
        /\ tasks'[i] = "over" /\ \A k \in DOMAIN jobs : k # i => tasks'[k] = tasks[k]
    BY <1>4, TasksChange
  <2> QED
    BY <1>1, <1>4, <2>1, <2>2, GatewayKeeps
<1>5. CASE /\ tasks' = [tasks EXCEPT ![i] = "asked"] /\ jobs[i].status = "queued"
           /\ jobs' = [jobs EXCEPT ![i].status = "running"]
  <2>1. /\ jobs' \in Seq(SupportJob) /\ Len(jobs') = Len(jobs)
        /\ jobs'[i].spec = jobs[i].spec /\ jobs'[i].status = "running"
        /\ \A k \in DOMAIN jobs : k # i => jobs'[k] = jobs[k]
    BY <1>2, <1>5, StatusWritten
  <2>2. /\ tasks' \in Seq({"due", "asked", "over"}) /\ Len(tasks') = Len(tasks)
        /\ tasks'[i] = "asked" /\ \A k \in DOMAIN jobs : k # i => tasks'[k] = tasks[k]
    BY <1>5, TasksChange
  <2> QED
    BY <1>1, <1>5, <2>1, <2>2, GatewayKeeps
<1> QED
  BY <1>1, <1>3, <1>4, <1>5

LEMMA WorkerKeeps == ASSUME SupportInv, NEW i \in DOMAIN jobs, WorkerAnswers(i) \/ TaskDies(i)
                     PROVE SupportInv'
<1>1. /\ UNCHANGED <<file, desk, built, submits, edits, restarts>>
      /\ tasks' = [tasks EXCEPT ![i] = "over"] /\ tasks[i] = "asked"
  BY DEF WorkerAnswers, TaskDies, Bounds
<1>2. /\ tasks' \in Seq({"due", "asked", "over"}) /\ Len(tasks') = Len(tasks)
      /\ tasks'[i] = "over" /\ \A k \in DOMAIN jobs : k # i => tasks'[k] = tasks[k]
  BY <1>1, TasksChange
<1>3. /\ jobs' \in Seq(SupportJob) /\ Len(jobs') = Len(jobs)
      /\ jobs'[i].spec = jobs[i].spec
      /\ \A k \in DOMAIN jobs : k # i => jobs'[k] = jobs[k]
      /\ jobs'[i].status = "completed" => jobs'[i].result = jobs[i].spec
  <2>1. CASE jobs' = jobs
    BY <2>1, SupportTyped DEF SupportInv, ResultsSound, ResultTrue
  <2>2. ASSUME NEW s \in {"completed", "failed"}, NEW r \in Specification \cup {NoSpecification},
               jobs' = [jobs EXCEPT ![i].status = s, ![i].result = r],
               s = "completed" => r = jobs[i].spec
        PROVE  /\ jobs' \in Seq(SupportJob) /\ Len(jobs') = Len(jobs)
               /\ jobs'[i].spec = jobs[i].spec
               /\ \A k \in DOMAIN jobs : k # i => jobs'[k] = jobs[k]
               /\ jobs'[i].status = "completed" => jobs'[i].result = jobs[i].spec
    <3>1. jobs[i] = [spec |-> jobs[i].spec, status |-> jobs[i].status, result |-> jobs[i].result]
      BY SupportTyped DEF SupportInv, SupportJob
    <3> DEFINE g == [jobs EXCEPT ![i].status = s]
    <3>2. [jobs[i] EXCEPT !.status = s] = [spec |-> jobs[i].spec, status |-> s,
                                           result |-> jobs[i].result]
      BY <3>1
    <3>3. /\ g[i] = [spec |-> jobs[i].spec, status |-> s, result |-> jobs[i].result]
          /\ DOMAIN g = DOMAIN jobs /\ \A k \in DOMAIN jobs : k # i => g[k] = jobs[k]
      BY <3>2
    <3>4. jobs' = [g EXCEPT ![i].result = r]
      BY <2>2
    <3> HIDE DEF g
    <3>5. [g[i] EXCEPT !.result = r] = [spec |-> jobs[i].spec, status |-> s, result |-> r]
      BY <3>3
    <3>6. jobs' = [jobs EXCEPT ![i] = [spec |-> jobs[i].spec, status |-> s, result |-> r]]
      BY <3>3, <3>4, <3>5, SupportTyped DEF SupportInv
    <3>7. s \in JobStatus
      BY DEF JobStatus, Terminal
    <3>8. /\ jobs' \in Seq(SupportJob) /\ Len(jobs') = Len(jobs)
          /\ jobs'[i].spec = jobs[i].spec /\ jobs'[i].status = s /\ jobs'[i].result = r
          /\ \A k \in DOMAIN jobs : k # i => jobs'[k] = jobs[k]
      BY <3>6, <3>7, JobChanges
    <3> QED
      BY <2>2, <3>8
  <2>3. CASE TaskDies(i)
    BY <2>1, <2>3 DEF TaskDies
  <2>4. CASE WorkerAnswers(i)
    <3>1. PICK r \in Specification \cup {NoSpecification} :
            IF r # NoSpecification /\ RightAnswer(i, r) THEN Settle(i, "completed", r)
            ELSE Settle(i, "failed", NoSpecification)
      BY <2>4 DEF WorkerAnswers
    <3>2. CASE r # NoSpecification /\ RightAnswer(i, r)
      BY <3>1, <3>2, <2>1, <2>2 DEF Settle, RightAnswer
    <3>3. CASE ~(r # NoSpecification /\ RightAnswer(i, r))
      BY <3>1, <3>3, <2>1, <2>2 DEF Settle
    <3> QED
      BY <3>2, <3>3
  <2> QED
    BY <2>3, <2>4
<1>4. jobs[i].status # "lost"
  BY <1>1 DEF SupportInv, TasksRun
<1> QED
  BY <1>1, <1>2, <1>3, <1>4, GatewayKeeps

LEMMA EditKeeps == ASSUME SupportInv, EditFile PROVE SupportInv'
<1>1. /\ file' \in Specification /\ edits' \in 0..MaxEdits
      /\ UNCHANGED <<desk, jobs, tasks, built, submits, restarts>>
  BY SupportSizes DEF EditFile, SupportInv, SupportTypeOK
<1> QED
  BY <1>1 DEF SupportInv, SupportTypeOK, ResultsSound, AskedOnce, ResultTrue, DeskAsks, TasksRun

LEMMA RestartKeeps == ASSUME SupportInv, RestartGateway PROVE SupportInv'
<1> USE SupportTyped DEF SupportInv
<1>1. /\ restarts' \in 0..MaxRestarts /\ UNCHANGED <<file, desk, built, submits, edits>>
      /\ jobs' = [i \in DOMAIN jobs |-> [jobs[i] EXCEPT !.status = "lost"]]
      /\ tasks' = [i \in DOMAIN tasks |-> "over"]
  BY SupportSizes DEF RestartGateway, SupportTypeOK
<1>2. \A i \in DOMAIN jobs : /\ jobs'[i] \in SupportJob /\ jobs'[i].status = "lost"
                             /\ jobs'[i].spec = jobs[i].spec
  BY <1>1 DEF SupportJob, JobStatus
<1>3. /\ DOMAIN jobs' = DOMAIN jobs /\ jobs' \in Seq(SupportJob) /\ Len(jobs') = Len(jobs)
  <2>1. jobs' = [i \in 1..Len(jobs) |-> jobs'[i]]
    BY <1>1
  <2> QED
    BY <2>1, <1>2
<1>4. /\ tasks' \in Seq({"due", "asked", "over"}) /\ Len(tasks') = Len(jobs')
      /\ \A i \in DOMAIN jobs : tasks'[i] = "over"
  BY <1>1, <1>3
<1> QED
  BY <1>1, <1>2, <1>3, <1>4
     DEF SupportTypeOK, SupportJob, DeskState, ResultsSound, AskedOnce, ResultTrue, DeskAsks,
         TasksRun

LEMMA SupportStarts == SupportInit => SupportInv
BY SupportSizes
   DEF SupportInit, SupportInv, SupportTypeOK, Idle, ResultsSound, AskedOnce, ResultTrue,
       DeskAsks, TasksRun

(* A job that has ended stays as it ended. *)
LEMMA EndedStays ==
  ASSUME SupportInv, SupportNext, NEW i \in DOMAIN jobs, jobs[i].status \in Terminal
  PROVE  jobs'[i].status \in {jobs[i].status, "lost"}
<1> USE SupportTyped DEF SupportInv
<1>1. CASE Submit \/ GiveUp \/ Poll \/ Fetch \/ BuildStructure \/ EditFile
  BY <1>1 DEF Submit, GiveUp, Poll, Fetch, BuildStructure, EditFile
<1>2. CASE CreateJob
  <2>1. CASE jobs' = jobs
    BY <2>1
  <2>2. CASE Existing(desk.spec) = {} /\ jobs' = Append(jobs,
                                                        [spec |-> desk.spec, status |-> "queued",
                                                         result |-> NoSpecification])
    BY <2>2, <1>2
  <2> QED
    BY <1>2, <2>1, <2>2 DEF CreateJob
<1>3. CASE TimedOut
  BY <1>3 DEF TimedOut, CancelSent, Cancels, SupportTypeOK, SupportJob
<1>4. CASE RestartGateway
  <2>1. jobs'[i] = [jobs[i] EXCEPT !.status = "lost"] /\ jobs[i] \in SupportJob
    BY <1>4 DEF RestartGateway
  <2> QED
    BY <2>1 DEF SupportJob
<1>5. ASSUME NEW k \in DOMAIN jobs, RunRemote(k) PROVE jobs'[i].status \in {jobs[i].status, "lost"}
  BY <1>5 DEF RunRemote, Terminal
<1>6. ASSUME NEW k \in DOMAIN jobs, WorkerAnswers(k) PROVE jobs'[i].status \in {jobs[i].status, "lost"}
  <2>1. jobs[k].status = "running" \/ ~StillWanted(k)
    BY <1>6 DEF WorkerAnswers, TasksRun, StillWanted
  <2> QED
    BY <1>6, <2>1 DEF WorkerAnswers, Settle, Terminal
<1>7. ASSUME NEW k \in DOMAIN jobs, TaskDies(k) PROVE jobs'[i].status \in {jobs[i].status, "lost"}
  BY <1>7 DEF TaskDies
<1> QED
  BY <1>1, <1>2, <1>3, <1>4, <1>5, <1>6, <1>7 DEF SupportNext, DeskStep

LEMMA BuiltAsFile ==
  ASSUME SupportNext PROVE built' # built => built' = file
BY DEF SupportNext, DeskStep, Submit, CreateJob, GiveUp, Poll, TimedOut, Fetch, BuildStructure,
       Matches, EditFile, RestartGateway, RunRemote, WorkerAnswers, TaskDies

LEMMA SupportStep == SupportInv /\ [SupportNext]_supportVars => SupportInv'
<1> SUFFICES ASSUME SupportInv, [SupportNext]_supportVars PROVE SupportInv'
  OBVIOUS
<1>1. CASE UNCHANGED supportVars
  BY <1>1
     DEF supportVars, SupportInv, SupportTypeOK, ResultsSound, AskedOnce, ResultTrue, DeskAsks,
         TasksRun
<1> QED
  BY <1>1, DeskStepKeeps, CreateJobKeeps, TimedOutKeeps, RunRemoteKeeps, WorkerKeeps, EditKeeps,
     RestartKeeps
     DEF SupportNext, DeskStep

(* ResultsSound, TerminalStays and BuiltForFile: one live job for each     *)
(* specification and results only of the specification that was asked, no  *)
(* job that has ended changes, and a structure is built for the file.      *)
THEOREM ResultsAreSound ==
  SupportSpec => [](SupportTypeOK /\ ResultsSound) /\ TerminalStays /\ BuiltForFile
<1>1. SupportInv => SupportTypeOK /\ ResultsSound
  BY DEF SupportInv
<1>2. SupportInv /\ [SupportNext]_supportVars =>
        /\ [\A i \in DOMAIN jobs : jobs[i].status \in Terminal =>
                                     jobs'[i].status \in {jobs[i].status, "lost"}]_supportVars
        /\ [built' # built => built' = file]_supportVars
  BY EndedStays, BuiltAsFile
<1> QED
  BY <1>1, <1>2, SupportStep, SupportStarts, PTL DEF SupportSpec, TerminalStays, BuiltForFile

-----------------------------------------------------------------------------
(* Mesh-generation jobs.  What is on the disk of a job follows the place of *)
(* its thread, and a directory is only removed under no thread.            *)

(* The types, in two parts. *)
JobsTyped ==
  /\ status \in [Job -> Active \cup Final \cup {"absent"}]
  /\ meshes \in [Job -> 0..Candidates] /\ manifest \subseteq Job
  /\ worker \in [Job -> Busy \cup Over \cup {"none", "queued"}]
HandlerTyped ==
  /\ handler \in [op : {"cancel", "delete", "remove"}, job : Job] \cup {IdleHandler}
  /\ cancelled \subseteq Job /\ deleted \subseteq Job /\ removing \subseteq Job
  /\ serviceKills \in 0..MaxServiceKills /\ generationFaults \in 0..MaxGenerationFaults

(* What a worker has done of its job. *)
WorkOf(j) ==
  /\ worker[j] = "queued" => meshes[j] = 0
  /\ worker[j] \in {"checking", "generating"} => meshes[j] < Candidates
  /\ worker[j] \in {"publishing", "finishing"} => meshes[j] = Candidates
  /\ worker[j] = "finishing" => j \in manifest
  /\ status[j] = "absent" /\ j \notin removing => worker[j] = "none" /\ meshes[j] = 0
  /\ status[j] = "succeeded" => Quiet(j) /\ (j \notin removing => j \in manifest
                                             /\ meshes[j] = Candidates)
  /\ j \in removing => Quiet(j)
Worked == \A j \in Job : WorkOf(j)

(* Who removes what. *)
Removals ==
  /\ DeletedStays /\ deleted \subseteq removing
  /\ handler.op # "idle" => handler.job \notin deleted
  /\ handler.op = "remove" => handler.job \in removing

(* The threads of the pool.                                                *)
PoolKept == IsFiniteSet(Running) /\ Cardinality(Running) <= Workers

GenerationInv == JobsTyped /\ HandlerTyped /\ Worked /\ Removals

LEMMA ServiceSizes ==
  /\ Workers \in Nat /\ Workers > 0 /\ Candidates \in Nat /\ Candidates > 0
  /\ MaxServiceKills \in Nat /\ MaxGenerationFaults \in Nat
BY ServiceConstants

LEMMA WrittenTyped ==
  ASSUME JobsTyped, NEW j \in Job, NEW s \in Active \cup Final,
         NEW x \in Busy \cup Over \cup {"none", "queued"},
         NEW y \in Busy \cup Over \cup {"none", "queued"},
         generationFaults \in 0..MaxGenerationFaults, Written(j, s, x, y)
  PROVE  /\ status' \in [Job -> Active \cup Final \cup {"absent"}]
         /\ worker' \in [Job -> Busy \cup Over \cup {"none", "queued"}]
         /\ generationFaults' \in 0..MaxGenerationFaults
         /\ \A k \in Job : k # j => status'[k] = status[k] /\ worker'[k] = worker[k]
         /\ \/ status[j] # "absent" /\ status'[j] = s /\ worker'[j] = x
            \/ status'[j] = status[j] /\ worker'[j] = y
BY ServiceSizes DEF Written, WorkerIn, GenerationFault, JobsTyped

(* A step for one job leaves the others as they are. *)
LEMMA OthersWork ==
  ASSUME NEW j \in Job, Worked, removing' = removing, WorkOf(j)',
         \A k \in Job : k # j => /\ status'[k] = status[k] /\ worker'[k] = worker[k]
                               /\ meshes'[k] = meshes[k] /\ (k \in manifest' <=> k \in manifest)
  PROVE  Worked'
BY DEF Worked, WorkOf, Quiet

(* A thread that writes the status of its job. *)
LEMMA WriteKeeps ==
  ASSUME JobsTyped, Worked, NEW j \in Job, j \notin removing, removing' = removing, meshes' = meshes,
         manifest' = manifest,
         generationFaults \in 0..MaxGenerationFaults,
         NEW s \in Active \cup Final, NEW x \in Over \cup {"checking"},
         NEW y \in Over \cup {"failing"},
         Written(j, s, x, y), worker[j] \in Busy \cup {"queued"},
         x = "checking" => meshes[j] < Candidates,
         s = "succeeded" => worker[j] = "finishing" /\ x \in Over
  PROVE  JobsTyped' /\ generationFaults' \in 0..MaxGenerationFaults /\ Worked'
<1>1. {x, y} \subseteq Busy \cup Over \cup {"none", "queued"}
  BY DEF Busy, Over
<1>2. /\ status' \in [Job -> Active \cup Final \cup {"absent"}]
      /\ worker' \in [Job -> Busy \cup Over \cup {"none", "queued"}]
      /\ generationFaults' \in 0..MaxGenerationFaults
      /\ \A k \in Job : k # j => status'[k] = status[k] /\ worker'[k] = worker[k]
      /\ \/ status[j] # "absent" /\ status'[j] = s /\ worker'[j] = x
         \/ status'[j] = status[j] /\ worker'[j] = y
  BY <1>1, WrittenTyped
<1>3. JobsTyped'
  BY <1>2 DEF JobsTyped
<1>4. status[j] # "absent" /\ status[j] # "succeeded"
  BY DEF Worked, WorkOf, Quiet, Busy, Over
<1>5. WorkOf(j)
  BY DEF Worked
<1>6. WorkOf(j)'
  <2>1. CASE status'[j] = s /\ worker'[j] = x
    BY <1>4, <1>5, <2>1 DEF WorkOf, Quiet, Over, Active, Final
  <2>2. CASE status'[j] = status[j] /\ worker'[j] = y
    BY <1>4, <1>5, <2>2 DEF WorkOf, Quiet, Over
  <2> QED
    BY <1>2, <2>1, <2>2
<1>7. Worked'
  BY <1>2, <1>6, OthersWork
<1> QED
  BY <1>2, <1>3, <1>7

(* A thread that goes on to its next step. *)
LEMMA MoveKeeps ==
  ASSUME JobsTyped, Worked, NEW j \in Job, j \notin removing, removing' = removing, status' = status,
         NEW x \in {"returned", "generating", "failing", "checking", "publishing", "finishing"},
         WorkerIn(j, x), worker[j] \in Busy,
         meshes' \in [Job -> 0..Candidates], manifest' \subseteq Job,
         \A k \in Job : k # j => meshes'[k] = meshes[k] /\ (k \in manifest' <=> k \in manifest),
         x \in {"checking", "generating"} => meshes'[j] < Candidates,
         x \in {"publishing", "finishing"} => meshes'[j] = Candidates,
         x = "finishing" => j \in manifest'
  PROVE  JobsTyped' /\ Worked'
<1>1. x \in Busy \cup Over \cup {"none", "queued"}
  BY DEF Busy, Over
<1>2. worker' \in [Job -> Busy \cup Over \cup {"none", "queued"}] /\ worker'[j] = x
      /\ \A k \in Job : k # j => worker'[k] = worker[k]
  BY <1>1 DEF WorkerIn, JobsTyped
<1>3. JobsTyped'
  BY <1>2 DEF JobsTyped
<1>4. status[j] # "absent" /\ status[j] # "succeeded"
  BY DEF Worked, WorkOf, Quiet, Busy, Over
<1>5. WorkOf(j)'
  BY <1>2, <1>4 DEF WorkOf, Quiet, Over
<1>6. Worked'
  BY <1>2, <1>5, OthersWork
<1> QED
  BY <1>3, <1>6

(* A step of the thread of a job. *)
LEMMA JobWorkKeeps ==
  ASSUME GenerationInv, NEW j \in Job, JobWork(j) PROVE GenerationInv'
<1> USE ServiceSizes DEF GenerationInv
<1>1. UNCHANGED <<handler, cancelled, deleted, removing, serviceKills>>
  BY DEF JobWork, BeginJob, Check, Generate, PublishManifest, Finish, FailJob, generationHistory
<1>2. j \notin removing /\ j \notin deleted
  BY DEF JobWork, BeginJob, Check, Generate, PublishManifest, Finish, FailJob, Worked, WorkOf,
         Removals, Quiet, Over
<1>3. meshes \in [Job -> 0..Candidates] /\ manifest \subseteq Job
      /\ generationFaults \in 0..MaxGenerationFaults /\ WorkOf(j)
  BY DEF JobsTyped, HandlerTyped, Worked
<1>4. ASSUME BeginJob(j) PROVE JobsTyped' /\ generationFaults' \in 0..MaxGenerationFaults /\ Worked'
  <2>1. worker[j] = "queued" /\ Written(j, "running", "checking", "failing") /\ UNCHANGED <<meshes,
                    manifest>>
    BY <1>4 DEF BeginJob
  <2>2. meshes[j] < Candidates
    BY <1>3, <2>1 DEF WorkOf
  <2>3. "running" \in Active \cup Final /\ "checking" \in Over \cup {"checking"}
        /\ "failing" \in Over \cup {"failing"}
        /\ worker[j] \in Busy \cup {"queued"} /\ JobsTyped /\ Worked
    BY <2>1 DEF Active
  <2> QED
    BY <1>1, <1>2, <1>3, <2>1, <2>2, <2>3, WriteKeeps
<1>5. ASSUME Finish(j) PROVE JobsTyped' /\ generationFaults' \in 0..MaxGenerationFaults /\ Worked'
  <2>1. worker[j] = "finishing" /\ Written(j, "succeeded", "returned", "failing")
                    /\ UNCHANGED <<meshes, manifest>>
    BY <1>5 DEF Finish
  <2> QED
    BY <1>1, <1>2, <1>3, <2>1, WriteKeeps DEF Final, Busy, Over
<1>6. ASSUME FailJob(j) PROVE JobsTyped' /\ generationFaults' \in 0..MaxGenerationFaults /\ Worked'
  <2>1. worker[j] = "failing" /\ Written(j, "failed", "returned", "raised") /\ UNCHANGED <<meshes,
                    manifest>>
    BY <1>6 DEF FailJob
  <2> QED
    BY <1>1, <1>2, <1>3, <2>1, WriteKeeps DEF Final, Busy, Over
<1>8. ASSUME Check(j) PROVE JobsTyped' /\ generationFaults' \in 0..MaxGenerationFaults /\ Worked'
  <2>1. /\ generationFaults' \in 0..MaxGenerationFaults /\ UNCHANGED <<status, meshes, manifest>>
        /\ worker[j] = "checking"
        /\ WorkerIn(j, "returned") \/ WorkerIn(j, "generating") \/ WorkerIn(j, "failing")
    BY <1>3, <1>8 DEF Check, GenerationFault, disk
  <2>2. meshes[j] < Candidates /\ worker[j] \in Busy
    BY <1>3, <2>1 DEF WorkOf, Busy
  <2> QED
    BY <1>1, <1>2, <1>3, <2>1, <2>2, MoveKeeps
<1>9. ASSUME Generate(j) PROVE JobsTyped' /\ generationFaults' \in 0..MaxGenerationFaults /\ Worked'
  <2>1. /\ generationFaults' \in 0..MaxGenerationFaults /\ UNCHANGED <<status, manifest>>
        /\ worker[j] = "generating"
    BY <1>3, <1>9 DEF Generate, GenerationFault
  <2>2. meshes[j] < Candidates /\ worker[j] \in Busy
    BY <1>3, <2>1 DEF WorkOf, Busy
  <2>3. CASE meshes' = [meshes EXCEPT ![j] = @ + 1]
        /\ WorkerIn(j, IF MoreToDo(j) THEN "checking" ELSE "publishing")
    <3>1. meshes' \in [Job -> 0..Candidates] /\ meshes'[j] = meshes[j] + 1
          /\ \A k \in Job : k # j => meshes'[k] = meshes[k]
      BY <1>3, <2>2, <2>3
    <3>2. CASE MoreToDo(j)
      <4>1. WorkerIn(j, "checking") /\ meshes'[j] < Candidates
        BY <2>3, <3>1, <3>2 DEF MoreToDo
      <4> QED
        BY <1>1, <1>2, <1>3, <2>1, <2>2, <3>1, <4>1, MoveKeeps
    <3>3. CASE ~MoreToDo(j)
      <4>1. WorkerIn(j, "publishing")
        BY <2>3, <3>3
      <4>2. meshes'[j] = Candidates
        BY <1>3, <2>2, <3>1, <3>3 DEF MoreToDo
      <4> QED
        BY <1>1, <1>2, <1>3, <2>1, <2>2, <3>1, <4>1, <4>2, MoveKeeps
    <3> QED
      BY <3>2, <3>3
  <2>4. CASE WorkerIn(j, "failing") /\ UNCHANGED meshes
    BY <1>1, <1>2, <1>3, <2>1, <2>2, <2>4, MoveKeeps
  <2> QED
    BY <1>9, <2>3, <2>4 DEF Generate
<1>10. ASSUME PublishManifest(j) PROVE JobsTyped' /\ generationFaults' \in 0..MaxGenerationFaults
              /\ Worked'
  <2>1. /\ generationFaults' \in 0..MaxGenerationFaults /\ UNCHANGED <<status, meshes>>
        /\ worker[j] = "publishing"
        /\ \/ manifest' = manifest \cup {j} /\ WorkerIn(j, "finishing")
           \/ manifest' = manifest /\ WorkerIn(j, "failing")
    BY <1>3, <1>10 DEF PublishManifest, GenerationFault
  <2>2. meshes[j] = Candidates /\ worker[j] \in Busy
    BY <1>3, <2>1 DEF WorkOf, Busy
  <2>3. CASE manifest' = manifest \cup {j} /\ WorkerIn(j, "finishing")
    BY <1>1, <1>2, <1>3, <2>1, <2>2, <2>3, MoveKeeps
  <2>4. CASE manifest' = manifest /\ WorkerIn(j, "failing")
    BY <1>1, <1>2, <1>3, <2>1, <2>2, <2>4, MoveKeeps
  <2> QED
    BY <2>1, <2>3, <2>4
<1>11. JobsTyped' /\ generationFaults' \in 0..MaxGenerationFaults /\ Worked'
  BY <1>4, <1>5, <1>6, <1>8, <1>9, <1>10 DEF JobWork
<1>12. HandlerTyped'
  BY <1>1, <1>11 DEF HandlerTyped
<1>13. Removals'
  <2>1. \A k \in deleted : status'[k] = status[k] /\ meshes'[k] = meshes[k]
        /\ (k \in manifest' <=> k \in manifest)
    BY <1>2
       DEF JobWork, BeginJob, Check, Generate, PublishManifest, Finish, FailJob, Written, disk,
           JobsTyped, HandlerTyped
  <2> QED
    BY <1>1, <2>1 DEF Removals, DeletedStays
<1> QED
  BY <1>11, <1>12, <1>13

(* The handlers. *)
LEMMA HandlersKeep ==
  ASSUME GenerationInv, NEW j \in Job,
         SubmitJob(j) \/ Cancel(j) \/ Delete(j) \/ Handle(j) \/ RecoverJobs(j)
  PROVE  GenerationInv'
<1> USE ServiceSizes DEF GenerationInv
<1>1. CASE SubmitJob(j)
  <2>1. UNCHANGED <<meshes, manifest, handler, cancelled, deleted, removing, serviceKills,
        generationFaults>>
    BY <1>1 DEF SubmitJob, generationHistory, generationBounds
  <2>2. /\ status[j] = "absent" /\ j \notin deleted /\ j \notin removing
        /\ status' = [status EXCEPT ![j] = "queued"] /\ worker' = [worker EXCEPT ![j] = "queued"]
    BY <1>1 DEF SubmitJob, WorkerIn
  <2>3. JobsTyped'
    BY <2>1, <2>2 DEF JobsTyped, Active
  <2>4. Worked'
    BY <2>1, <2>2 DEF Worked, WorkOf, JobsTyped, Quiet, Over
  <2>5. HandlerTyped' /\ Removals'
    BY <2>1, <2>2 DEF HandlerTyped, Removals, DeletedStays, JobsTyped
  <2> QED
    BY <2>3, <2>4, <2>5
<1>2. CASE Cancel(j) \/ Delete(j)
  <2>1. /\ UNCHANGED <<status, meshes, manifest, worker, cancelled, deleted, removing,
           serviceKills, generationFaults>>
        /\ handler' \in {[op |-> "cancel", job |-> j], [op |-> "delete", job |-> j]}
        /\ status[j] # "absent"
    BY <1>2 DEF Cancel, Delete, generationHistory, generationBounds, disk, Active, Final
  <2>2. HandlerTyped' /\ Removals'
    BY <2>1 DEF HandlerTyped, Removals, DeletedStays
  <2> QED
    BY <2>1, <2>2 DEF JobsTyped, Worked, WorkOf, Quiet
<1>3. CASE CancelWrites(j)
  <2>1. /\ UNCHANGED <<meshes, manifest, worker, deleted, removing, serviceKills>>
        /\ handler = [op |-> "cancel", job |-> j] /\ handler' = IdleHandler
        /\ cancelled' \in {cancelled, cancelled \cup {j}}
        /\ status' = [status EXCEPT ![j] = "cancelled"] \/ status' = status
        /\ generationFaults' \in 0..MaxGenerationFaults
    BY <1>3 DEF CancelWrites, ServesRequests, GenerationFault, HandlerTyped
  <2>2. j \notin deleted
    BY <2>1 DEF Removals
  <2>3. JobsTyped' /\ Worked'
    BY <2>1 DEF JobsTyped, Worked, WorkOf, Quiet, Final
  <2>4. HandlerTyped' /\ Removals'
    BY <2>1, <2>2 DEF HandlerTyped, Removals, DeletedStays, IdleHandler, JobsTyped
  <2> QED
    BY <2>3, <2>4
<1>4. CASE DeleteWaits(j)
  <2>1. /\ UNCHANGED <<status, meshes, manifest, worker, cancelled, deleted, serviceKills,
           generationFaults>>
        /\ handler = [op |-> "delete", job |-> j]
        /\ \/ Quiet(j) /\ handler' = [op |-> "remove", job |-> j] /\ removing' = removing \cup {j}
           \/ handler' = IdleHandler /\ removing' = removing
    BY <1>4 DEF DeleteWaits, ServesRequests, generationBounds, disk
  <2>2. JobsTyped' /\ Worked'
    BY <2>1 DEF JobsTyped, Worked, WorkOf, Quiet
  <2>3. HandlerTyped' /\ Removals'
    BY <2>1 DEF HandlerTyped, Removals, DeletedStays, IdleHandler
  <2> QED
    BY <2>2, <2>3
<1>5. CASE RemoveJob(j)
  <2>1. /\ UNCHANGED <<worker, handler, cancelled, deleted, removing, serviceKills, generationFaults>>
        /\ handler = [op |-> "remove", job |-> j] /\ j \in removing
    BY <1>5 DEF RemoveJob, ServesRequests, generationHistory, generationBounds, Removals
  <2>2. /\ JobsTyped'
        /\ \A k \in Job \ {j} : status'[k] = status[k] /\ meshes'[k] = meshes[k]
           /\ (k \in manifest' <=> k \in manifest)
        /\ status'[j] = "absent" \/ status'[j] = status[j]
    BY <1>5, <2>1 DEF RemoveJob, JobsTyped
  <2>3. Quiet(j) /\ j \notin deleted
    BY <2>1 DEF Worked, WorkOf, Removals
  <2>4. Worked'
    BY <2>1, <2>2, <2>3 DEF Worked, WorkOf, Quiet, Over
  <2>5. HandlerTyped' /\ Removals'
    BY <2>1, <2>2, <2>3 DEF HandlerTyped, Removals, DeletedStays
  <2> QED
    BY <2>2, <2>4, <2>5
<1>6. CASE Removed(j)
  <2>1. /\ UNCHANGED <<status, meshes, manifest, worker, cancelled, removing, serviceKills,
           generationFaults>>
        /\ handler = [op |-> "remove", job |-> j] /\ handler' = IdleHandler
           /\ deleted' = deleted \cup {j}
        /\ status[j] = "absent" /\ meshes[j] = 0 /\ j \notin manifest
    BY <1>6 DEF Removed, ServesRequests, generationBounds, disk
  <2>2. HandlerTyped' /\ Removals'
    BY <2>1 DEF HandlerTyped, Removals, DeletedStays, IdleHandler
  <2> QED
    BY <2>1, <2>2 DEF JobsTyped, Worked, WorkOf, Quiet
<1>7. CASE RecoverJobs(j)
  <2>1. /\ UNCHANGED <<meshes, manifest, worker, handler, cancelled, deleted, removing,
           serviceKills, generationFaults>>
        /\ status' = [status EXCEPT ![j] = "failed"] /\ status[j] # "absent"
    BY <1>7 DEF RecoverJobs, Orphaned, Active, generationHistory, generationBounds
  <2>2. JobsTyped' /\ Worked'
    BY <2>1 DEF JobsTyped, Worked, WorkOf, Quiet, Final
  <2>3. HandlerTyped' /\ Removals'
    BY <2>1 DEF HandlerTyped, Removals, DeletedStays, JobsTyped
  <2> QED
    BY <2>2, <2>3
<1> QED
  BY <1>1, <1>2, <1>3, <1>4, <1>5, <1>6, <1>7 DEF Handle

LEMMA ServiceRestarts ==
  ASSUME GenerationInv, KillService \/ Serve PROVE GenerationInv'
<1> USE ServiceSizes DEF GenerationInv
<1>1. CASE KillService
  <2>1. /\ serviceKills' \in 0..MaxServiceKills /\ worker' = [k \in Job |-> "none"]
           /\ handler' = IdleHandler
        /\ UNCHANGED <<status, meshes, manifest, cancelled, deleted, removing, generationFaults>>
    BY <1>1 DEF KillService, disk, generationHistory, HandlerTyped
  <2> QED
    BY <2>1
       DEF JobsTyped, HandlerTyped, Worked, WorkOf, Quiet, Removals, DeletedStays, IdleHandler
<1>2. CASE Serve
  <2>1. /\ generationFaults' \in 0..MaxGenerationFaults
        /\ UNCHANGED <<status, meshes, manifest, worker, handler, cancelled, deleted, removing,
           serviceKills>>
    BY <1>2 DEF Serve, disk, generationHistory, GenerationFault, HandlerTyped
  <2> QED
    BY <2>1 DEF JobsTyped, HandlerTyped, Worked, WorkOf, Quiet, Removals, DeletedStays
<1> QED
  BY <1>1, <1>2

LEMMA GenerationStarts == GenerationInit => GenerationInv
BY ServiceSizes
   DEF GenerationInit, GenerationInv, JobsTyped, HandlerTyped, Worked, WorkOf, Removals, Quiet,
       DeletedStays, IdleHandler

LEMMA GenerationStep == GenerationInv /\ [GenerationNext]_generationVars => GenerationInv'
<1> SUFFICES ASSUME GenerationInv, [GenerationNext]_generationVars PROVE GenerationInv'
  OBVIOUS
<1>1. CASE UNCHANGED generationVars
  BY <1>1
     DEF generationVars, disk, generationHistory, generationBounds, GenerationInv, JobsTyped,
         HandlerTyped, Worked, WorkOf, Quiet, Removals, DeletedStays
<1> QED
  BY <1>1, JobWorkKeeps, HandlersKeep, ServiceRestarts DEF GenerationNext

(* No more threads are busy than the pool has: the pool is only asked for  *)
(* one more by BeginJob, which finds one idle.                             *)
LEMMA PoolShrinks ==
  ASSUME PoolKept, \A k \in Job : worker'[k] \in Busy => worker[k] \in Busy
  PROVE  PoolKept'
<1>1. Running' \in SUBSET Running
  BY DEF Running
<1>2. IsFiniteSet(Running') /\ Cardinality(Running') <= Cardinality(Running)
  BY <1>1, FS_Subset DEF PoolKept
<1>3. Cardinality(Running') \in Nat /\ Cardinality(Running) \in Nat
  BY <1>2, FS_CardinalityType DEF PoolKept
<1> QED
  BY <1>2, <1>3, ServiceSizes DEF PoolKept

LEMMA PoolStep ==
  ASSUME GenerationInv, PoolKept, GenerationNext PROVE PoolKept'
<1>1. worker \in [Job -> Busy \cup Over \cup {"none", "queued"}]
  BY DEF GenerationInv, JobsTyped
<1>2. ASSUME NEW j \in Job, JobWork(j) PROVE PoolKept'
  <2>1. worker[j] \in Busy \cup {"queued"} /\ \E x : WorkerIn(j, x)
    BY <1>2
       DEF JobWork, BeginJob, Check, Generate, PublishManifest, Finish, FailJob, Written, Busy
  <2>2. \A k \in Job : k # j => worker'[k] = worker[k]
    BY <1>1, <2>1 DEF WorkerIn
  <2>3. CASE worker[j] \in Busy
    BY <2>2, <2>3, PoolShrinks
  <2>4. CASE BeginJob(j)
    <3>1. Running' \in SUBSET (Running \cup {j}) /\ Cardinality(Running) < Workers
          /\ IsFiniteSet(Running)
      BY <2>2, <2>4 DEF Running, BeginJob, PoolKept
    <3>2. Cardinality(Running) \in Nat /\ IsFiniteSet(Running \cup {j})
          /\ Cardinality(Running \cup {j}) <= Cardinality(Running) + 1
      <4>1. Cardinality(Running) \in Nat
        BY <3>1, FS_CardinalityType
      <4>2. /\ IsFiniteSet(Running \cup {j})
            /\ Cardinality(Running \cup {j})
                 = IF j \in Running THEN Cardinality(Running) ELSE Cardinality(Running) + 1
        BY <3>1, FS_AddElement, Zenon
      <4> QED
        BY <4>1, <4>2
    <3>3. IsFiniteSet(Running') /\ Cardinality(Running') <= Cardinality(Running \cup {j})
      BY <3>1, <3>2, FS_Subset
    <3>4. Cardinality(Running') \in Nat /\ Cardinality(Running \cup {j}) \in Nat
      BY <3>2, <3>3, FS_CardinalityType
    <3> QED
      BY <3>1, <3>2, <3>3, <3>4, ServiceSizes DEF PoolKept
  <2> QED
    BY <1>2, <2>1, <2>3, <2>4
       DEF JobWork, BeginJob, Check, Generate, PublishManifest, Finish, FailJob, Busy
<1>3. ASSUME NEW j \in Job, SubmitJob(j) PROVE PoolKept'
  <2>1. worker' = [worker EXCEPT ![j] = "queued"]
    BY <1>3 DEF SubmitJob, WorkerIn
  <2> QED
    BY <1>1, <2>1, PoolShrinks DEF Busy
<1>4. CASE KillService
  BY <1>4, PoolShrinks DEF KillService, Busy
<1>5. ASSUME UNCHANGED worker PROVE PoolKept'
  BY <1>5, PoolShrinks
<1>6. ASSUME NEW j \in Job, Cancel(j) \/ Delete(j) \/ Handle(j) \/ RecoverJobs(j)
      PROVE UNCHANGED worker
  BY <1>6 DEF Cancel, Delete, Handle, CancelWrites, DeleteWaits, RemoveJob, Removed, RecoverJobs
<1>7. Serve => UNCHANGED worker
  BY DEF Serve
<1> QED
  BY <1>2, <1>3, <1>4, <1>5, <1>6, <1>7 DEF GenerationNext

LEMMA UpStep == ASSUME up \in BOOLEAN, GenerationNext PROVE up' \in BOOLEAN
BY DEF GenerationNext, SubmitJob, Cancel, Delete, JobWork, BeginJob, Check, Generate,
       PublishManifest, Finish, FailJob, Handle, CancelWrites, DeleteWaits, RemoveJob, Removed,
       RecoverJobs, KillService, Serve

ServiceInv == GenerationInv /\ PoolKept /\ up \in BOOLEAN

LEMMA ServiceStarts == GenerationInit => ServiceInv
<1> SUFFICES ASSUME GenerationInit PROVE ServiceInv
  OBVIOUS
<1>1. Running = {}
  BY DEF GenerationInit, Running, Busy
<1> QED
  BY <1>1, GenerationStarts, FS_EmptySet, ServiceSizes DEF ServiceInv, PoolKept, GenerationInit

LEMMA ServiceStep == ServiceInv /\ [GenerationNext]_generationVars => ServiceInv'
<1> SUFFICES ASSUME ServiceInv, [GenerationNext]_generationVars PROVE ServiceInv'
  OBVIOUS
<1>1. GenerationInv'
  BY GenerationStep DEF ServiceInv
<1>2. CASE GenerationNext
  BY <1>1, <1>2, PoolStep, UpStep DEF ServiceInv
<1>3. CASE UNCHANGED generationVars
  BY <1>1, <1>3 DEF ServiceInv, PoolKept, Running, generationVars
<1> QED
  BY <1>2, <1>3

LEMMA ServiceHolds == ServiceInv => GenerationTypeOK /\ JobsSound
<1> SUFFICES ASSUME ServiceInv PROVE GenerationTypeOK /\ JobsSound
  OBVIOUS
<1>1. GenerationTypeOK
  BY DEF ServiceInv, GenerationInv, JobsTyped, HandlerTyped, PoolKept, GenerationTypeOK
<1>2. JobsSound
  BY DEF ServiceInv, GenerationInv, JobsSound, PublishedWhole, Worked, WorkOf, Removals
<1> QED
  BY <1>1, <1>2

(* JobsSound, with the types and the bound of the pool: what is reported   *)
(* as succeeded is whole on the disk, and what was deleted stays deleted.  *)
THEOREM JobsAreSound == GenerationSpec => [](GenerationTypeOK /\ JobsSound)
BY ServiceStarts, ServiceStep, ServiceHolds, PTL DEF GenerationSpec

-----------------------------------------------------------------------------
(* The design assistant.  Prompts that wait come after all that were sent, *)
(* a process and a thread belong to the product that is open, and a turn is *)
(* the only one of a run that the panel shows.                             *)

ChatState == {"stopped", "starting", "initializing", "ready", "running", "failed"}
Turn == [prompt : 1..MaxPrompts, dir : Product, phase : {"sent", "live", "asking", "interrupted"}]
SentPrompt == [prompt : 1..MaxPrompts, over : 0..MaxPrompts]
ToolCard == [prompt : 0..MaxPrompts, product : Product \cup {NoProduct},
             phase : {"none", "card", "taken", "active"}]

(* The types, in four parts.                                               *)
PanelTyped ==
  /\ product \in Product /\ running \in BOOLEAN /\ left \in BOOLEAN
  /\ card \in ToolCard /\ executing \in ToolCard
ClientTyped ==
  /\ state \in ChatState /\ supervise \in BOOLEAN /\ timer \in BOOLEAN
  /\ process \in {"none", "starting", "alive", "dying"}
  /\ asks \subseteq {"initialize", "thread"} /\ (asks # {} => process = "alive")
ThreadTyped ==
  /\ cwd \in Product /\ thread \in Product \cup {NoProduct} /\ turnId \in 0..MaxPrompts
TurnsTyped ==
  /\ turnAsk \in 0..MaxPrompts /\ inFlight \in BOOLEAN /\ queue \in Seq(1..MaxPrompts)
  /\ turns \subseteq Turn /\ (turns # {} => process \in {"alive", "dying"})
  /\ sent \in Seq(SentPrompt) /\ over \in 0..MaxPrompts /\ prompts \in 0..MaxPrompts

(* Prompts that wait follow all that were sent, in their order, and the    *)
(* last stop.                                                              *)
Ordered(q, s, stopped, n) ==
  /\ stopped <= n
  /\ \A k \in DOMAIN q : q[k] > stopped /\ q[k] <= n
  /\ \A k, l \in DOMAIN q : k < l => q[k] < q[l]
  /\ \A i \in DOMAIN s : s[i].prompt <= n /\ s[i].prompt > s[i].over
  /\ \A i \in DOMAIN s, k \in DOMAIN q : s[i].prompt < q[k]
  /\ \A i, j \in DOMAIN s : i < j => s[i].prompt < s[j].prompt
PromptsInOrder == Ordered(queue, sent, over, prompts)

(* A server is one of the product that is open.                            *)
Connected ==
  /\ timer \/ process # "none" => cwd = product
  /\ thread # NoProduct => thread = cwd /\ process = "alive" /\ asks = {}
  /\ state \in {"stopped", "failed"} => process = "none"
  /\ process \in {"none", "starting"} => inFlight = FALSE
  /\ RightProduct

(* One turn at a time, of the run that the panel shows.                    *)
OneTurn ==
  left = FALSE =>
    /\ \A t, u \in turns : t = u
    /\ turns # {} => running = TRUE /\ queue = <<>>
    /\ queue # <<>> => running = TRUE /\ Len(queue) = 1
    /\ asks # {} => turns = {}
    /\ inFlight = TRUE => turns # {}
    /\ \A t \in turns : t.prompt = turnAsk

ChatInv == /\ PanelTyped /\ ClientTyped /\ ThreadTyped /\ TurnsTyped
           /\ PromptsInOrder /\ Connected /\ OneTurn

LEMMA ChatSizes ==
  MaxPrompts \in Nat /\ NoProduct \notin Product /\ 0 \in 0..MaxPrompts
BY ChatConstants

LEMMA NoPrompts ==
  /\ <<>> \in Seq(1..MaxPrompts) /\ Len(<<>>) = 0
  /\ \A q \in Seq(1..MaxPrompts) : q = <<>> <=> Len(q) = 0
BY EmptySeq

LEMMA WaitsLast ==
  ASSUME NEW q \in Seq(1..MaxPrompts), NEW s \in Seq(SentPrompt), NEW o \in Nat, NEW n \in Nat,
         n + 1 <= MaxPrompts, Ordered(q, s, o, n)
  PROVE  /\ Append(q, n + 1) \in Seq(1..MaxPrompts) /\ Len(Append(q, n + 1)) = Len(q) + 1
         /\ Append(q, n + 1) # <<>> /\ Ordered(Append(q, n + 1), s, o, n + 1)
<1> DEFINE r == Append(q, n + 1)
<1>1. n + 1 \in 1..MaxPrompts
  BY ChatSizes
<1>2. /\ r \in Seq(1..MaxPrompts) /\ Len(r) = Len(q) + 1 /\ r # <<>>
      /\ \A i \in 1..Len(q) : r[i] = q[i]
  BY <1>1, AppendProperties
<1>3. Len(q) \in Nat /\ DOMAIN q = 1..Len(q) /\ DOMAIN r = 1..Len(q) + 1
      /\ \A i \in DOMAIN q : q[i] \in 1..MaxPrompts
  BY <1>2, LenProperties
<1>4. \A i \in DOMAIN s : s[i] \in SentPrompt
  BY LenProperties
<1> HIDE DEF r
<1>5. r[Len(q) + 1] = n + 1
  BY <1>1, AppendProperties DEF r
<1>6. \A i \in DOMAIN s : s[i].prompt \in Nat
  BY <1>4, ChatSizes DEF SentPrompt
<1>7. \A k \in DOMAIN r : (k \in DOMAIN q /\ r[k] = q[k] /\ r[k] \in Nat)
      \/ (k = Len(q) + 1 /\ r[k] = n + 1)
  BY <1>2, <1>3, <1>5
<1>8. \A k, l \in DOMAIN r : k < l => r[k] < r[l]
  BY <1>3, <1>7 DEF Ordered
<1>9. /\ o <= n + 1
      /\ \A k \in DOMAIN r : r[k] > o /\ r[k] <= n + 1
      /\ \A i \in DOMAIN s : s[i].prompt <= n + 1 /\ s[i].prompt > s[i].over
      /\ \A i \in DOMAIN s, k \in DOMAIN r : s[i].prompt < r[k]
  BY <1>3, <1>6, <1>7 DEF Ordered
<1>10. Ordered(r, s, o, n + 1)
  BY <1>8, <1>9 DEF Ordered
<1> QED
  BY <1>2, <1>10 DEF r

LEMMA FirstIsSent ==
  ASSUME NEW q \in Seq(1..MaxPrompts), NEW s \in Seq(SentPrompt), NEW o \in 0..MaxPrompts,
         NEW n \in Nat,
         q # <<>>, Ordered(q, s, o, n)
  PROVE  LET t == Append(s, [prompt |-> Head(q), over |-> o])
         IN Head(q) \in 1..MaxPrompts /\ Tail(q) \in Seq(1..MaxPrompts) /\ Len(Tail(q)) = Len(q) - 1
            /\ t \in Seq(SentPrompt) /\ Ordered(Tail(q), t, o, n)
<1> DEFINE e == [prompt |-> Head(q), over |-> o]
           t == Append(s, e)
           r == Tail(q)
<1>1. /\ Head(q) \in 1..MaxPrompts /\ r \in Seq(1..MaxPrompts) /\ Len(r) = Len(q) - 1
      /\ \A i \in 1..Len(r) : r[i] = q[i + 1]
  BY HeadTailProperties
<1>2. Head(q) = q[1] /\ Len(q) \in Nat \ {0} /\ DOMAIN q = 1..Len(q)
  BY EmptySeq, LenProperties
<1>3. e \in SentPrompt /\ e.prompt = q[1] /\ e.over = o
  BY <1>1, <1>2 DEF SentPrompt
<1> HIDE DEF e, r
<1>4. /\ t \in Seq(SentPrompt) /\ Len(t) = Len(s) + 1 /\ t[Len(s) + 1] = e
      /\ \A i \in 1..Len(s) : t[i] = s[i]
  BY <1>3, AppendProperties
<1>5. Len(s) \in Nat /\ DOMAIN s = 1..Len(s) /\ DOMAIN t = 1..Len(s) + 1 /\ DOMAIN r = 1..(Len(q) - 1)
  BY <1>1, <1>2, <1>4, LenProperties
<1> HIDE DEF t
<1>6. \A i \in DOMAIN t : (i \in DOMAIN s /\ t[i] = s[i]) \/ (i = Len(s) + 1 /\ t[i] = e)
  BY <1>4, <1>5
<1>7. \A k \in DOMAIN r : k + 1 \in DOMAIN q /\ k + 1 > 1 /\ r[k] = q[k + 1]
  BY <1>1, <1>2, <1>5
<1>8. 1 \in DOMAIN q /\ (\A i \in DOMAIN q : q[i] \in Nat) /\ \A i \in DOMAIN s : s[i].prompt \in Nat
  <2>1. \A i \in DOMAIN s : s[i] \in SentPrompt
    BY LenProperties
  <2>2. \A i \in DOMAIN q : q[i] \in 1..MaxPrompts
    BY LenProperties
  <2> QED
    BY <1>2, <2>1, <2>2, ChatSizes DEF SentPrompt
<1>9. /\ o <= n
      /\ \A k \in DOMAIN r : r[k] > o /\ r[k] <= n
      /\ \A k, l \in DOMAIN r : k < l => r[k] < r[l]
  <2>1. \A k, l \in DOMAIN r : k < l => k + 1 < l + 1
    BY <1>5
  <2> QED
    BY <1>7, <2>1 DEF Ordered
<1>10. \A i \in DOMAIN t : t[i].prompt <= n /\ t[i].prompt > t[i].over
  BY <1>3, <1>6, <1>8 DEF Ordered
<1>11. \A i \in DOMAIN t, k \in DOMAIN r : t[i].prompt < r[k]
  BY <1>3, <1>6, <1>7, <1>8 DEF Ordered
<1>12. \A i, j \in DOMAIN t : i < j => t[i].prompt < t[j].prompt
  <2> SUFFICES ASSUME NEW i \in DOMAIN t, NEW j \in DOMAIN t, i < j PROVE t[i].prompt < t[j].prompt
    OBVIOUS
  <2>1. i \in DOMAIN s
    BY <1>5
  <2> QED
    BY <1>3, <1>6, <1>8, <2>1 DEF Ordered
<1>13. Ordered(r, t, o, n)
  BY <1>9, <1>10, <1>11, <1>12 DEF Ordered
<1> QED
  BY <1>1, <1>4, <1>13 DEF r, t, e

(* What startNextTurn does.                                                *)
NextTurn(s, on, waiting, going, flight, n) ==
  /\ queue' \in Seq(1..MaxPrompts) /\ turns' \subseteq Turn /\ inFlight' \in BOOLEAN
  /\ turnAsk' \in 0..MaxPrompts /\ sent' \in Seq(SentPrompt) /\ Ordered(queue', sent', over, n)
  /\ \/ queue' = waiting /\ inFlight' = flight /\ turns' = going /\ turnAsk' = turnAsk
     \/ /\ s = "ready" /\ on \in Product /\ waiting # <<>> /\ queue' = Tail(waiting)
        /\ Len(queue') = Len(waiting) - 1 /\ inFlight' = TRUE
        /\ \E t \in Turn : t.dir = on /\ t.prompt = turnAsk' /\ turns' = going \cup {t}

LEMMA TurnStarts ==
  ASSUME TurnsTyped, NEW s, NEW on \in Product \cup {NoProduct}, NEW waiting \in Seq(1..MaxPrompts),
         NEW going \in SUBSET Turn, NEW flight \in BOOLEAN, NEW n \in Nat,
         StartNextTurn(s, on, waiting, going, flight), Ordered(waiting, sent, over, n)
  PROVE  NextTurn(s, on, waiting, going, flight, n)
<1>1. CASE s = "ready" /\ on # NoProduct /\ waiting # <<>>
  <2>1. /\ queue' = Tail(waiting) /\ inFlight' = TRUE /\ turnAsk' = Head(waiting)
        /\ turns' = going \cup {[prompt |-> Head(waiting), dir |-> on, phase |-> "sent"]}
        /\ sent' = Append(sent, [prompt |-> Head(waiting), over |-> over])
    BY <1>1 DEF StartNextTurn
  <2>2. /\ Head(waiting) \in 1..MaxPrompts /\ Tail(waiting) \in Seq(1..MaxPrompts)
        /\ Len(Tail(waiting)) = Len(waiting) - 1
        /\ sent' \in Seq(SentPrompt) /\ Ordered(Tail(waiting), sent', over, n)
    BY <1>1, <2>1, FirstIsSent DEF TurnsTyped
  <2> DEFINE t == [prompt |-> Head(waiting), dir |-> on, phase |-> "sent"]
  <2>3. t \in Turn /\ t.dir = on /\ t.prompt = turnAsk' /\ turns' = going \cup {t}
    BY <1>1, <2>1, <2>2 DEF Turn
  <2> HIDE DEF t
  <2>4. turns' \subseteq Turn /\ turnAsk' \in 0..MaxPrompts /\ on \in Product
    BY <1>1, <2>1, <2>2, <2>3, ChatSizes
  <2> QED
    BY <1>1, <2>1, <2>2, <2>3, <2>4 DEF NextTurn
<1>2. CASE ~(s = "ready" /\ on # NoProduct /\ waiting # <<>>)
  <2>1. queue' = waiting /\ inFlight' = flight /\ turns' = going /\ turnAsk' = turnAsk /\ sent' = sent
    BY <1>2 DEF StartNextTurn
  <2> QED
    BY <2>1 DEF TurnsTyped, NextTurn
<1> QED
  BY <1>1, <1>2


(* The parts that a step does not touch.                                   *)
LEMMA PromptsStay ==
  ASSUME PromptsInOrder, UNCHANGED <<queue, sent, over, prompts>> PROVE PromptsInOrder'
BY DEF PromptsInOrder

LEMMA ChatParts ==
  ASSUME ChatInv
  PROVE  PanelTyped /\ ClientTyped /\ ThreadTyped /\ TurnsTyped /\ PromptsInOrder /\ Connected
         /\ OneTurn
BY DEF ChatInv

(* A process that ends under supervision.                                  *)
LEMMA FinishedKeeps ==
  ASSUME ChatInv, FinishedSignal, process # "none", UNCHANGED prompts PROVE ChatInv'
<1>1. /\ UNCHANGED <<product, card, executing, sent, over, left, cwd, supervise, queue, prompts>>
      /\ process' = "none" /\ asks' = {} /\ turns' = {} /\ turnAsk' = 0 /\ inFlight' = FALSE
      /\ thread' = NoProduct /\ turnId' = 0 /\ timer' = TRUE /\ state' \in {state, "starting"}
      /\ running' \in BOOLEAN /\ (inFlight = FALSE => running' = running)
  BY ChatParts DEF FinishedSignal, ScheduleRestart, Waiting, history, PanelTyped, TurnsTyped
<1>2. PanelTyped' /\ ClientTyped' /\ ThreadTyped' /\ TurnsTyped'
  <2>1. PanelTyped' /\ ThreadTyped'
    BY <1>1, ChatParts, ChatSizes DEF PanelTyped, ThreadTyped
  <2>2. ClientTyped'
    BY <1>1, ChatParts DEF ClientTyped, ChatState
  <2>3. TurnsTyped'
    BY <1>1, ChatParts, ChatSizes DEF TurnsTyped
  <2> QED
    BY <2>1, <2>2, <2>3
<1>3. PromptsInOrder'
  BY <1>1, ChatParts, PromptsStay
<1>4. Connected'
  BY <1>1, ChatParts DEF Connected, RightProduct
<1>5. OneTurn'
  BY <1>1, ChatParts DEF OneTurn, TurnsTyped
<1> QED
  BY <1>2, <1>3, <1>4, <1>5 DEF ChatInv

(* A stop, and what is said meanwhile.                                     *)
LEMMA StopClientKeeps ==
  ASSUME ChatInv, NEW late \in SUBSET Undelivered, StopClient(late), UNCHANGED prompts,
         product' \in Product, running' \in BOOLEAN, card' \in ToolCard, executing' \in ToolCard
  PROVE  ChatInv'
<1>1. /\ UNCHANGED <<sent, cwd, prompts>> /\ supervise' = FALSE /\ timer' = FALSE
      /\ process' = "none" /\ asks' = {} /\ turns' = {} /\ turnAsk' = 0 /\ inFlight' = FALSE
      /\ thread' = NoProduct /\ turnId' = 0 /\ queue' = <<>> /\ over' = prompts /\ left' = FALSE
      /\ state' \in {"ready", "initializing", "stopped"}
  BY DEF StopClient, StateAfter, QueueAfterStop
<1>2. PanelTyped' /\ ClientTyped' /\ ThreadTyped'
  <2>1. PanelTyped' /\ ThreadTyped'
    BY <1>1, ChatParts, ChatSizes DEF PanelTyped, ThreadTyped
  <2>2. ClientTyped'
    BY <1>1 DEF ClientTyped, ChatState
  <2> QED
    BY <2>1, <2>2
<1>3. TurnsTyped'
  BY <1>1, ChatParts, ChatSizes, NoPrompts DEF TurnsTyped
<1>4. PromptsInOrder'
  BY <1>1, ChatParts, ChatSizes DEF PromptsInOrder, Ordered, TurnsTyped
<1>5. Connected' /\ OneTurn'
  BY <1>1 DEF Connected, RightProduct, OneTurn
<1> QED
  BY <1>2, <1>3, <1>4, <1>5 DEF ChatInv

LEMMA NoToolTyped == NoTool \in ToolCard
BY ChatSizes DEF NoTool, ToolCard

LEMMA ProposalTyped == ASSUME ChatInv, NEW t \in turns PROVE Proposal(t.prompt) \in ToolCard
<1>1. t.prompt \in 0..MaxPrompts /\ product \in Product
  BY ChatParts, ChatSizes DEF TurnsTyped, Turn, PanelTyped
<1> QED
  BY <1>1 DEF Proposal, ToolCard

LEMMA StopKeeps == ASSUME ChatInv, Stop PROVE ChatInv'
<1>1. PICK late \in SUBSET Undelivered : StopClient(late)
  BY DEF Stop
<1>2. /\ UNCHANGED prompts /\ product' \in Product /\ running' \in BOOLEAN /\ card' \in ToolCard
      /\ executing' \in ToolCard
  BY ChatParts, NoToolTyped DEF Stop, chatBounds, PanelTyped
<1> QED
  BY <1>1, <1>2, StopClientKeeps

LEMMA SwitchKeeps ==
  ASSUME ChatInv, NEW q \in Product, SwitchTo(q), executing' \in {executing, NoTool} PROVE ChatInv'
<1>1. PICK late \in SUBSET Undelivered :
        /\ StopClient(late)
        /\ running' = (running /\ "completed" \notin late)
        /\ \/ \E t \in {u \in turns : u.phase = "live"} : card' = Proposal(t.prompt)
           \/ card' = card
  BY DEF SwitchTo
<1>2. UNCHANGED prompts /\ product' \in Product
  BY DEF SwitchTo
<1>3. card' \in ToolCard /\ executing' \in ToolCard
  BY <1>1, ChatParts, NoToolTyped, ProposalTyped DEF PanelTyped
<1>4. running' \in BOOLEAN
  BY <1>1
<1> QED
  BY <1>1, <1>2, <1>3, <1>4, StopClientKeeps

LEMMA SendKeeps == ASSUME ChatInv, Send PROVE ChatInv'
<1>1. /\ UNCHANGED <<product, card, executing, thread, turnId, over, left>>
      /\ running = FALSE /\ prompts < MaxPrompts /\ prompts \in Nat /\ over \in Nat
  BY ChatParts, ChatSizes DEF Send, history, PanelTyped, TurnsTyped
<1>2. /\ queue \in Seq(1..MaxPrompts) /\ sent \in Seq(SentPrompt) /\ prompts + 1 <= MaxPrompts
      /\ prompts + 1 \in 0..MaxPrompts /\ prompts + 1 \in Nat
  BY <1>1, ChatParts, ChatSizes DEF TurnsTyped
<1>3. left = FALSE => turns = {} /\ queue = <<>>
  BY <1>1, ChatParts DEF OneTurn, TurnsTyped
<1> DEFINE r == Append(queue, prompts + 1)
<1>4. r \in Seq(1..MaxPrompts) /\ Len(r) = Len(queue) + 1 /\ r # <<>>
      /\ Ordered(r, sent, over, prompts + 1)
  BY <1>1, <1>2, ChatParts, WaitsLast DEF PromptsInOrder
<1>5. CASE state \in {"stopped", "failed"} /\ Launch
  <2>1. /\ cwd' = product /\ running' = TRUE /\ prompts' = prompts + 1 /\ queue' = r
        /\ UNCHANGED <<inFlight, turnAsk, turns, sent, asks>>
        /\ supervise' = TRUE /\ timer' = FALSE /\ state' = "starting" /\ process' = "starting"
    BY <1>5 DEF Send, Launch, Unavailable
  <2> HIDE DEF r
  <2>2. process = "none" /\ turns = {} /\ asks = {} /\ inFlight = FALSE /\ thread = NoProduct
    BY <1>5, ChatParts DEF Connected, TurnsTyped, ClientTyped
  <2>3. PanelTyped' /\ ClientTyped' /\ ThreadTyped'
    BY <1>1, <2>1, <2>2, ChatParts DEF PanelTyped, ClientTyped, ThreadTyped, ChatState
  <2>4. TurnsTyped' /\ PromptsInOrder'
    BY <1>1, <1>2, <1>4, <2>1, <2>2, ChatParts DEF TurnsTyped, PromptsInOrder
  <2>5. Connected'
    BY <1>1, <2>1, <2>2 DEF Connected, RightProduct
  <2>6. OneTurn'
    BY <1>1, <1>3, <1>4, <2>1, <2>2, EmptySeq DEF OneTurn
  <2> QED
    BY <2>3, <2>4, <2>5, <2>6 DEF ChatInv
<1>6. CASE state \in {"stopped", "failed"} /\ Unavailable /\ ~Launch
  <2>1. /\ cwd' = product /\ UNCHANGED <<running, queue, inFlight, turnAsk, turns, sent, process,
           asks, prompts>>
        /\ supervise' = FALSE /\ timer' = FALSE /\ state' = "failed"
    BY <1>6 DEF Send, Unavailable, ChatFault
  <2>2. process = "none" /\ turns = {} /\ asks = {} /\ inFlight = FALSE /\ thread = NoProduct
    BY <1>6, ChatParts DEF Connected, TurnsTyped, ClientTyped
  <2>3. PanelTyped' /\ ClientTyped' /\ ThreadTyped'
    BY <1>1, <2>1, <2>2, ChatParts DEF PanelTyped, ClientTyped, ThreadTyped, ChatState
  <2>4. TurnsTyped' /\ PromptsInOrder'
    BY <1>1, <2>1, <2>2, ChatParts DEF TurnsTyped, PromptsInOrder
  <2>5. Connected' /\ OneTurn'
    BY <1>1, <1>3, <2>1, <2>2 DEF Connected, RightProduct, OneTurn
  <2> QED
    BY <2>3, <2>4, <2>5 DEF ChatInv
<1>7. CASE state \notin {"stopped", "failed"}
  <2>1. /\ running' = TRUE /\ prompts' = prompts + 1
        /\ StartNextTurn(state, thread, Append(queue, prompts'), turns, inFlight)
        /\ UNCHANGED <<state, supervise, timer, process, asks, cwd>>
    BY <1>7 DEF Send, supervision
  <2>2. StartNextTurn(state, thread, r, turns, inFlight)
    BY <2>1
  <2> HIDE DEF r
  <2>3. thread \in Product \cup {NoProduct} /\ turns \in SUBSET Turn /\ inFlight \in BOOLEAN
        /\ TurnsTyped
    BY ChatParts DEF ThreadTyped, TurnsTyped
  <2>4. /\ queue' \in Seq(1..MaxPrompts) /\ turns' \subseteq Turn /\ inFlight' \in BOOLEAN
        /\ turnAsk' \in 0..MaxPrompts /\ sent' \in Seq(SentPrompt)
           /\ Ordered(queue', sent', over, prompts + 1)
        /\ \/ queue' = r /\ inFlight' = inFlight /\ turns' = turns /\ turnAsk' = turnAsk
           \/ /\ state = "ready" /\ thread \in Product /\ r # <<>> /\ queue' = Tail(r)
              /\ Len(queue') = Len(r) - 1 /\ inFlight' = TRUE
              /\ \E t \in Turn : t.dir = thread /\ t.prompt = turnAsk' /\ turns' = turns \cup {t}
    <3>1. r \in Seq(1..MaxPrompts) /\ Ordered(r, sent, over, prompts + 1) /\ prompts + 1 \in Nat
      BY <1>2, <1>4
    <3>2. NextTurn(state, thread, r, turns, inFlight, prompts + 1)
      BY <2>2, <2>3, <3>1, TurnStarts
    <3> QED
      BY <3>2 DEF NextTurn
  <2>5. PanelTyped' /\ ClientTyped' /\ ThreadTyped'
    BY <1>1, <2>1, ChatParts DEF PanelTyped, ClientTyped, ThreadTyped
  <2>6. thread \in Product => process = "alive" /\ thread = product /\ asks = {}
    BY ChatParts, ChatSizes DEF Connected
  <2>7. TurnsTyped' /\ PromptsInOrder'
    BY <1>1, <1>2, <2>1, <2>4, <2>6, ChatParts DEF TurnsTyped, PromptsInOrder
  <2>8. Connected'
    BY <1>1, <2>1, <2>4, <2>6, ChatParts DEF Connected, RightProduct
  <2>9. OneTurn'
    <3>1. ASSUME left = FALSE, queue' = r, inFlight' = inFlight, turns' = turns,
                 turnAsk' = turnAsk PROVE OneTurn'
      <4>1. Len(queue') = 1
        BY <1>2, <1>3, <1>4, <3>1, NoPrompts
      <4> QED
        BY <1>1, <1>3, <2>1, <3>1, <4>1, ChatParts DEF OneTurn
    <3>2. ASSUME left = FALSE, NEW t \in Turn, Len(queue') = Len(r) - 1, thread \in Product,
                 t.prompt = turnAsk', turns' = turns \cup {t}
          PROVE  OneTurn'
      <4>1. queue' = <<>>
        <5>1. Len(queue') = 0
          BY <1>2, <1>3, <1>4, <3>2, NoPrompts
        <5> QED
          BY <2>4, <5>1, NoPrompts
      <4> QED
        BY <1>3, <2>1, <2>6, <3>2, <4>1 DEF OneTurn
    <3>3. CASE left # FALSE
      BY <1>1, <3>3 DEF OneTurn
    <3> QED
      BY <2>4, <3>1, <3>2, <3>3
  <2> QED
    BY <2>5, <2>7, <2>8, <2>9 DEF ChatInv
<1> QED
  BY <1>5, <1>6, <1>7 DEF Send

LEMMA NewChatKeeps == ASSUME ChatInv, NewChat PROVE ChatInv'
<1>1. /\ UNCHANGED <<product, card, executing, running, state, supervise, timer, process, cwd, turnAsk,
                     queue, sent, over, left, prompts>>
      /\ running = FALSE /\ thread' = NoProduct /\ turnId' = 0 /\ inFlight' = FALSE
      /\ asks' = IF process = "alive" THEN asks \cup {"thread"} ELSE asks
  BY ChatParts DEF NewChat, panel, history, PanelTyped
<1>2. turns' \subseteq Turn /\ (turns = {} => turns' = {}) /\ (turns' # {} => turns # {})
      /\ \A t \in turns' : \E u \in turns : t.dir = u.dir
  <2>1. \A t \in turns : /\ [t EXCEPT !.phase = "interrupted"] \in Turn
                         /\ [t EXCEPT !.phase = "interrupted"].dir = t.dir
    BY ChatParts DEF TurnsTyped, Turn
  <2>2. turns \subseteq Turn
    BY ChatParts DEF TurnsTyped
  <2>3. turns' = turns \/ turns' = {IF t.prompt = turnId THEN [t EXCEPT !.phase = "interrupted"] ELSE t :
                                t \in turns}
    BY DEF NewChat
  <2> QED
    BY <2>1, <2>2, <2>3
<1>3. PanelTyped' /\ ClientTyped' /\ ThreadTyped'
  BY <1>1, ChatParts, ChatSizes DEF PanelTyped, ClientTyped, ThreadTyped
<1>4. TurnsTyped' /\ PromptsInOrder'
  BY <1>1, <1>2, ChatParts DEF TurnsTyped, PromptsInOrder
<1>5. Connected'
  BY <1>1, <1>2, ChatParts DEF Connected, RightProduct
<1>6. OneTurn'
  BY <1>1, <1>2, ChatParts DEF OneTurn
<1> QED
  BY <1>3, <1>4, <1>5, <1>6 DEF ChatInv


(* The process and the requests that open a thread.                        *)
LEMMA ProcessKeeps ==
  ASSUME ChatInv, Started \/ FailedToStart \/ InitializeAnswered PROVE ChatInv'
<1>1. CASE Started
  <2>1. /\ UNCHANGED <<product, running, card, executing, supervise, timer, cwd, thread, turnId,
                       turnAsk, inFlight, queue, turns, sent, over, left, prompts>>
        /\ process = "starting" /\ process' = "alive" /\ state' = "initializing"
           /\ asks' = {"initialize"}
    BY <1>1 DEF Started, panel, threading, turning, history, chatBounds
  <2>2. turns = {} /\ thread = NoProduct
    BY <2>1, ChatParts DEF TurnsTyped, Connected
  <2>3. PanelTyped' /\ ClientTyped' /\ ThreadTyped'
    BY <2>1, ChatParts DEF PanelTyped, ClientTyped, ThreadTyped, ChatState
  <2>4. TurnsTyped' /\ PromptsInOrder'
    BY <2>1, <2>2, ChatParts DEF TurnsTyped, PromptsInOrder
  <2>5. Connected' /\ OneTurn'
    BY <2>1, <2>2, ChatParts DEF Connected, RightProduct, OneTurn
  <2> QED
    BY <2>3, <2>4, <2>5 DEF ChatInv
<1>2. CASE FailedToStart
  <2>1. /\ UNCHANGED <<product, running, card, executing, supervise, cwd, asks,
                       turnAsk, inFlight, queue, turns, sent, over, left, prompts>>
        /\ process = "starting" /\ process' = "none" /\ state' \in {state, "starting"} /\ timer' = TRUE
        /\ thread' = NoProduct /\ turnId' = 0
    BY <1>2 DEF FailedToStart, ScheduleRestart, panel, turning, history, ChatFault
  <2>2. turns = {} /\ asks = {}
    BY <2>1, ChatParts DEF TurnsTyped, ClientTyped
  <2>3. PanelTyped' /\ ClientTyped' /\ ThreadTyped'
    BY <2>1, <2>2, ChatParts, ChatSizes DEF PanelTyped, ClientTyped, ThreadTyped, ChatState
  <2>4. TurnsTyped' /\ PromptsInOrder'
    BY <2>1, <2>2, ChatParts DEF TurnsTyped, PromptsInOrder
  <2>5. Connected' /\ OneTurn'
    BY <2>1, <2>2, ChatParts DEF Connected, RightProduct, OneTurn
  <2> QED
    BY <2>3, <2>4, <2>5 DEF ChatInv
<1>3. CASE InitializeAnswered
  <2>1. /\ UNCHANGED <<product, running, card, executing, state, supervise, timer, process, cwd,
           thread,
                       turnId, turnAsk, inFlight, queue, turns, sent, over, left, prompts>>
        /\ asks' = (asks \ {"initialize"}) \cup {"thread"} /\ asks # {}
    BY <1>3 DEF InitializeAnswered, panel, threading, turning, history, chatBounds
  <2>2. PanelTyped' /\ ClientTyped' /\ ThreadTyped'
    BY <2>1, ChatParts DEF PanelTyped, ClientTyped, ThreadTyped
  <2>3. TurnsTyped' /\ PromptsInOrder'
    BY <2>1, ChatParts DEF TurnsTyped, PromptsInOrder
  <2>4. Connected' /\ OneTurn'
    BY <2>1, ChatParts DEF Connected, RightProduct, OneTurn
  <2> QED
    BY <2>2, <2>3, <2>4 DEF ChatInv
<1> QED
  BY <1>1, <1>2, <1>3

LEMMA ErrorKeeps == ASSUME ChatInv, Dies \/ ProtocolError \/ ProcessEnds PROVE ChatInv'
<1>1. process # "none" /\ UNCHANGED prompts
  BY ChatParts DEF Dies, ProtocolError, ProcessEnds, ChatFault, chatBounds, ClientTyped
<1>2. CASE FinishedSignal
  BY <1>1, <1>2, FinishedKeeps
<1>3. CASE ~FinishedSignal
  <2>1. /\ UNCHANGED <<product, running, card, executing, supervise, cwd,
                       turnAsk, inFlight, queue, turns, sent, over, left, prompts>>
        /\ process' = "dying" /\ asks' = {} /\ asks # {} /\ timer' = TRUE
           /\ state' \in {state, "starting"}
        /\ thread' = NoProduct /\ turnId' = 0
    BY <1>1, <1>3 DEF Dies, ProtocolError, ProcessEnds, ScheduleRestart, panel, turning, history
  <2>2. state' \notin {"stopped", "failed"}
    BY <1>1, <2>1, ChatParts DEF Connected
  <2>3. PanelTyped' /\ ClientTyped' /\ ThreadTyped'
    BY <2>1, ChatParts, ChatSizes DEF PanelTyped, ClientTyped, ThreadTyped, ChatState
  <2>4. TurnsTyped' /\ PromptsInOrder'
    BY <2>1, ChatParts DEF TurnsTyped, PromptsInOrder
  <2>5. Connected' /\ OneTurn'
    BY <1>1, <2>1, <2>2, ChatParts DEF Connected, RightProduct, OneTurn
  <2> QED
    BY <2>3, <2>4, <2>5 DEF ChatInv
<1> QED
  BY <1>2, <1>3

LEMMA RestartTimerKeeps == ASSUME ChatInv, RestartTimer PROVE ChatInv'
<1>1. /\ UNCHANGED <<product, card, executing, cwd, thread, turnId, turnAsk, inFlight, queue,
         turns, sent,
                     over, prompts, asks>>
      /\ timer = TRUE /\ timer' = FALSE
      /\ \/ process # "none" /\ UNCHANGED <<running, left, state, supervise, process>>
         \/ /\ process = "none" /\ UNCHANGED <<running, left>> /\ supervise' = TRUE
            /\ state' = "starting" /\ process' = "starting"
         \/ /\ process = "none" /\ running' = FALSE /\ left' = (queue # <<>>) /\ supervise' = FALSE
            /\ state' = "failed" /\ process' = "none"
  BY ChatParts
     DEF RestartTimer, Launch, Unavailable, ChatFault, threading, turning, chatBounds,
         ClientTyped
<1>2. process = "none" => turns = {} /\ asks = {} /\ thread = NoProduct /\ inFlight = FALSE
  BY ChatParts DEF TurnsTyped, ClientTyped, Connected
<1>3. running' \in BOOLEAN /\ left' \in BOOLEAN
  BY <1>1, ChatParts DEF PanelTyped
<1>4. PanelTyped' /\ ThreadTyped'
  BY <1>1, <1>3, ChatParts DEF PanelTyped, ThreadTyped
<1>5. ClientTyped'
  BY <1>1, <1>2, ChatParts DEF ClientTyped, ChatState
<1>6. TurnsTyped' /\ PromptsInOrder'
  BY <1>1, <1>2, ChatParts DEF TurnsTyped, PromptsInOrder
<1>7. Connected'
  BY <1>1, <1>2, ChatParts DEF Connected, RightProduct
<1>8. OneTurn'
  BY <1>1, <1>2, ChatParts DEF OneTurn
<1> QED
  BY <1>4, <1>5, <1>6, <1>7, <1>8 DEF ChatInv

LEMMA ThreadAnsweredKeeps == ASSUME ChatInv, ThreadAnswered PROVE ChatInv'
<1>1. /\ UNCHANGED <<product, running, card, executing, supervise, timer, process, cwd, turnId,
         over, left, prompts>>
      /\ asks = {"thread"} /\ asks' = {} /\ thread' = cwd /\ state' = "ready"
      /\ StartNextTurn("ready", cwd, queue, turns, inFlight)
  BY DEF ThreadAnswered, panel, history, chatBounds
<1>2. /\ cwd \in Product /\ queue \in Seq(1..MaxPrompts) /\ turns \in SUBSET Turn
         /\ inFlight \in BOOLEAN
      /\ prompts \in Nat /\ TurnsTyped /\ Ordered(queue, sent, over, prompts)
  BY ChatParts, ChatSizes DEF ThreadTyped, TurnsTyped, PromptsInOrder
<1>3. NextTurn("ready", cwd, queue, turns, inFlight, prompts)
  BY <1>1, <1>2, TurnStarts
<1>4. process = "alive" /\ cwd = product /\ (left = FALSE => turns = {})
  BY <1>1, ChatParts DEF ClientTyped, Connected, OneTurn
<1>5. PanelTyped' /\ ClientTyped' /\ ThreadTyped'
  BY <1>1, <1>2, ChatParts DEF PanelTyped, ClientTyped, ThreadTyped, ChatState
<1>6. TurnsTyped' /\ PromptsInOrder'
  BY <1>1, <1>3, <1>4, ChatParts DEF TurnsTyped, PromptsInOrder, NextTurn
<1>7. Connected'
  BY <1>1, <1>3, <1>4, ChatParts DEF Connected, RightProduct, NextTurn
<1>8. OneTurn'
  <2> SUFFICES ASSUME left = FALSE PROVE OneTurn'
    BY <1>1 DEF OneTurn
  <2>1. CASE queue' = queue /\ inFlight' = inFlight /\ turns' = turns /\ turnAsk' = turnAsk
    BY <1>1, <1>4, <2>1, ChatParts DEF OneTurn
  <2>2. ASSUME NEW t \in Turn, queue # <<>>, Len(queue') = Len(queue) - 1, t.prompt = turnAsk',
               turns' = turns \cup {t}
        PROVE  OneTurn'
    <3>1. Len(queue') = 0 /\ running = TRUE
      <4>1. Len(queue) = 1 /\ running = TRUE
        BY <2>2, ChatParts DEF OneTurn
      <4> QED
        BY <2>2, <4>1
    <3>2. queue' = <<>>
      BY <1>3, <3>1, NoPrompts DEF NextTurn
    <3> QED
      BY <1>1, <1>4, <2>2, <3>1, <3>2 DEF OneTurn
  <2> QED
    BY <1>3, <2>1, <2>2 DEF NextTurn
<1> QED
  BY <1>5, <1>6, <1>7, <1>8 DEF ChatInv

(* A turn changes its phase.                                               *)
LEMMA TurnBecomes ==
  ASSUME ChatInv, NEW t \in turns, NEW ph \in {"sent", "live", "asking", "interrupted"},
         turns' = Become(t, ph)
  PROVE  /\ turns' \subseteq Turn /\ turns # {}
            /\ \A u \in turns' : \E w \in turns : u.dir = w.dir /\ u.prompt = w.prompt
         /\ (\A u, w \in turns : u = w) => \A u, w \in turns' : u = w
<1> DEFINE w == [t EXCEPT !.phase = ph]
<1>1. w \in Turn /\ w.dir = t.dir /\ w.prompt = t.prompt
  BY ChatParts DEF TurnsTyped, Turn
<1>2. turns' = (turns \ {t}) \cup {w} /\ turns \subseteq Turn
  BY ChatParts DEF Become, TurnsTyped
<1> HIDE DEF w
<1> QED
  BY <1>1, <1>2

(* What holds after a step that only touches turns that are there.         *)
LEMMA TurnsStay ==
  ASSUME ChatInv, turns' \subseteq Turn, turns' # {} => turns # {},
         \A u \in turns' : \E w \in turns : u.dir = w.dir /\ u.prompt = w.prompt,
         (\A u, w \in turns : u = w) => \A u, w \in turns' : u = w,
         UNCHANGED <<product, supervise, timer, process, asks, cwd, thread, turnAsk, queue, sent,
                     over, left, prompts>>,
         running' \in BOOLEAN, inFlight' \in BOOLEAN, card' \in ToolCard, executing' \in ToolCard,
         turnId' \in 0..MaxPrompts,
         state' = state \/ (state' \in ChatState \ {"stopped", "failed"} /\ turns # {}),
         inFlight' = TRUE => inFlight = TRUE,
         left = FALSE =>
           (turns' # {} => running' = TRUE) /\ (running = TRUE /\ running' = FALSE => turns # {})
           /\ (inFlight' = TRUE => turns' # {})
  PROVE  ChatInv'
<1>1. PanelTyped' /\ ClientTyped' /\ ThreadTyped'
  BY ChatParts DEF PanelTyped, ClientTyped, ThreadTyped
<1>2. TurnsTyped' /\ PromptsInOrder'
  BY ChatParts DEF TurnsTyped, PromptsInOrder
<1>3. Connected'
  BY ChatParts DEF Connected, RightProduct
<1>4. OneTurn'
  BY ChatParts DEF OneTurn, PanelTyped
<1> QED
  BY <1>1, <1>2, <1>3, <1>4 DEF ChatInv


LEMMA TurnMovesKeeps ==
  ASSUME ChatInv, NEW t \in turns, TurnAnswered(t) \/ TurnSpeaks(t) \/ ToolCall(t) PROVE ChatInv'
<1>1. t.prompt \in 0..MaxPrompts /\ turns \subseteq Turn /\ turns # {}
  BY ChatParts DEF TurnsTyped, Turn
<1>2. running \in BOOLEAN /\ inFlight \in BOOLEAN /\ card \in ToolCard /\ executing \in ToolCard
      /\ turnId \in 0..MaxPrompts
  BY ChatParts DEF PanelTyped, TurnsTyped, ThreadTyped
<1>3. left = FALSE => running = TRUE
  BY ChatParts DEF OneTurn
<1>4. CASE TurnAnswered(t)
  <2>1. /\ UNCHANGED <<product, running, card, executing, supervise, timer, process, asks, cwd,
           thread, turnAsk,
                       inFlight, queue, sent, over, left, prompts>>
        /\ turns' = Become(t, "live")
        /\ \/ turnId' = t.prompt /\ state' = "running"
           \/ turnId' = turnId /\ state' = state
    BY <1>4 DEF TurnAnswered, panel, history, chatBounds
  <2>2. /\ turns' \subseteq Turn /\ \A u \in turns' : \E w \in turns : u.dir = w.dir
           /\ u.prompt = w.prompt
        /\ (\A u, w \in turns : u = w) => \A u, w \in turns' : u = w
    BY <2>1, TurnBecomes
  <2>3. turns' # {}
    BY <2>1 DEF Become
  <2> QED
    BY <1>1, <1>2, <1>3, <2>1, <2>2, <2>3, TurnsStay DEF ChatState
<1>5. CASE TurnSpeaks(t)
  <2>1. /\ UNCHANGED <<product, card, executing, state, supervise, timer, process, asks, cwd,
           thread, turnId,
                       turnAsk, inFlight, queue, sent, over, left, prompts, turns>>
        /\ running' = TRUE
    BY <1>5 DEF TurnSpeaks, supervision, threading, turning, history, chatBounds
  <2> QED
    BY <1>1, <1>2, <2>1, TurnsStay
<1>6. CASE ToolCall(t)
  <2>1. /\ UNCHANGED <<product, running, executing, state, supervise, timer, process, asks, cwd,
           thread, turnId,
                       turnAsk, inFlight, queue, sent, over, left, prompts>>
        /\ turns' = Become(t, "asking") /\ card' = Proposal(t.prompt)
    BY <1>6 DEF ToolCall, supervision, threading, history
  <2>2. /\ turns' \subseteq Turn /\ \A u \in turns' : \E w \in turns : u.dir = w.dir
           /\ u.prompt = w.prompt
        /\ (\A u, w \in turns : u = w) => \A u, w \in turns' : u = w
    BY <2>1, TurnBecomes
  <2>3. turns' # {} /\ card' \in ToolCard
    BY <2>1, ProposalTyped DEF Become
  <2> QED
    BY <1>1, <1>2, <1>3, <2>1, <2>2, <2>3, TurnsStay
<1> QED
  BY <1>4, <1>5, <1>6

LEMMA TurnRefusedKeeps == ASSUME ChatInv, NEW t \in turns, TurnRefused(t) PROVE ChatInv'
<1>1. /\ UNCHANGED <<product, card, executing, state, supervise, timer, process, asks, cwd, thread,
         turnId,
                     turnAsk, queue, sent, over, left, prompts>>
      /\ turns' = turns \ {t}
      /\ \/ t.prompt = turnAsk /\ inFlight' = FALSE /\ running' = FALSE
         \/ t.prompt # turnAsk /\ inFlight' = inFlight /\ running' = running
  BY DEF TurnRefused, supervision, threading, history, ChatFault
<1>2. running \in BOOLEAN /\ inFlight \in BOOLEAN /\ card \in ToolCard /\ executing \in ToolCard
      /\ turnId \in 0..MaxPrompts
  BY ChatParts DEF PanelTyped, TurnsTyped, ThreadTyped
<1>3. turns' \subseteq Turn /\ turns # {} /\ (\A u \in turns' : u \in turns)
  BY <1>1, ChatParts DEF TurnsTyped
<1>4. left = FALSE => t.prompt = turnAsk /\ turns' = {}
  BY <1>1, ChatParts DEF OneTurn
<1>5. running' \in BOOLEAN /\ inFlight' \in BOOLEAN /\ (inFlight' = TRUE => inFlight = TRUE)
  BY <1>1, <1>2
<1> QED
  BY <1>1, <1>2, <1>3, <1>4, <1>5, TurnsStay

LEMMA TurnCompletedKeeps == ASSUME ChatInv, NEW t \in turns, TurnCompleted(t) PROVE ChatInv'
<1>1. /\ UNCHANGED <<product, card, executing, supervise, timer, process, asks, cwd, thread, over,
         left, prompts>>
      /\ turnId' = 0 /\ state' = "ready" /\ running' = FALSE
      /\ StartNextTurn("ready", thread, queue, turns \ {t}, FALSE)
  BY DEF TurnCompleted, history, chatBounds
<1>2. /\ thread \in Product \cup {NoProduct} /\ queue \in Seq(1..MaxPrompts)
         /\ turns \ {t} \in SUBSET Turn
      /\ prompts \in Nat /\ TurnsTyped /\ Ordered(queue, sent, over, prompts)
  BY ChatParts, ChatSizes DEF ThreadTyped, TurnsTyped, PromptsInOrder
<1>3. NextTurn("ready", thread, queue, turns \ {t}, FALSE, prompts)
  BY <1>1, <1>2, TurnStarts
<1>4. process \in {"alive", "dying"} /\ (thread \in Product => thread = product)
      /\ (left = FALSE => turns \ {t} = {} /\ queue = <<>>)
  BY ChatParts, ChatSizes DEF TurnsTyped, Connected, OneTurn
<1>5. PanelTyped' /\ ClientTyped' /\ ThreadTyped'
  BY <1>1, ChatParts, ChatSizes DEF PanelTyped, ClientTyped, ThreadTyped, ChatState
<1>6. TurnsTyped' /\ PromptsInOrder'
  BY <1>1, <1>3, <1>4, ChatParts DEF TurnsTyped, PromptsInOrder, NextTurn
<1>7. Connected'
  BY <1>1, <1>3, <1>4, ChatParts DEF Connected, RightProduct, NextTurn
<1>8. OneTurn'
  <2> SUFFICES ASSUME left = FALSE PROVE OneTurn'
    BY <1>1 DEF OneTurn
  <2>1. queue' = <<>> /\ turns' = {} /\ inFlight' = FALSE
    BY <1>3, <1>4 DEF NextTurn
  <2> QED
    BY <2>1 DEF OneTurn
<1> QED
  BY <1>5, <1>6, <1>7, <1>8 DEF ChatInv

(* The tools: the answer to a call goes to a turn that waits for it.       *)
LEMMA AnswerGoesBack ==
  ASSUME ChatInv, NEW p, ToolAnswered(p)
  PROVE  /\ turns' \subseteq Turn /\ (turns' # {} <=> turns # {})
         /\ \A u \in turns' : \E w \in turns : u.dir = w.dir /\ u.prompt = w.prompt
         /\ (\A u, w \in turns : u = w) => \A u, w \in turns' : u = w
<1>1. \A t \in turns : /\ [t EXCEPT !.phase = "live"] \in Turn
                       /\ [t EXCEPT !.phase = "live"].dir = t.dir
                          /\ [t EXCEPT !.phase = "live"].prompt = t.prompt
  BY ChatParts DEF TurnsTyped, Turn
<1>2. turns \subseteq Turn
  BY ChatParts DEF TurnsTyped
<1> DEFINE f(t) == IF t.prompt = p /\ t.phase = "asking" THEN [t EXCEPT !.phase = "live"] ELSE t
<1>3. turns' = {f(t) : t \in turns}
  BY DEF ToolAnswered
<1>4. \A t \in turns : f(t) \in Turn /\ f(t).dir = t.dir /\ f(t).prompt = t.prompt
  BY <1>1, <1>2
<1> HIDE DEF f
<1> QED
  BY <1>3, <1>4

LEMMA ToolsKeep == ASSUME ChatInv, Reject \/ Approve \/ BeginTool \/ EndTool PROVE ChatInv'
<1>1. running \in BOOLEAN /\ inFlight \in BOOLEAN /\ card \in ToolCard /\ executing \in ToolCard
      /\ turnId \in 0..MaxPrompts /\ turns \subseteq Turn
  BY ChatParts DEF PanelTyped, TurnsTyped, ThreadTyped
<1>2. left = FALSE => (turns # {} => running = TRUE) /\ (inFlight = TRUE => turns # {})
  BY ChatParts DEF OneTurn
<1>3. [card EXCEPT !.phase = "taken"] \in ToolCard
      /\ [executing EXCEPT !.phase = "active"] \in ToolCard
  BY <1>1 DEF ToolCard
<1>4. ASSUME NEW p, ToolAnswered(p), card' \in ToolCard, executing' \in ToolCard,
             UNCHANGED <<product, running, supervision, threading, turnAsk, inFlight, queue, sent,
                         history, chatBounds>>
      PROVE  ChatInv'
  <2>1. /\ turns' \subseteq Turn /\ (turns' # {} <=> turns # {})
        /\ \A u \in turns' : \E w \in turns : u.dir = w.dir /\ u.prompt = w.prompt
        /\ (\A u, w \in turns : u = w) => \A u, w \in turns' : u = w
    BY <1>4, AnswerGoesBack
  <2>2. UNCHANGED <<product, running, state, supervise, timer, process, asks, cwd, thread, turnId,
        turnAsk,
                    inFlight, queue, sent, over, left, prompts>>
    BY <1>4 DEF supervision, threading, history, chatBounds
  <2> QED
    BY <1>1, <1>2, <1>4, <2>1, <2>2, TurnsStay
<1>5. ASSUME card' \in ToolCard, executing' \in ToolCard,
             UNCHANGED <<product, running, supervision, threading, turning, history, chatBounds>>
      PROVE  ChatInv'
  <2>1. UNCHANGED <<product, running, state, supervise, timer, process, asks, cwd, thread, turnId,
        turnAsk,
                    inFlight, queue, turns, sent, over, left, prompts>>
    BY <1>5 DEF supervision, threading, turning, history, chatBounds
  <2> QED
    BY <1>1, <1>2, <1>5, <2>1, TurnsStay
<1>6. CASE Reject
  BY <1>1, <1>4, <1>6, NoToolTyped DEF Reject
<1>7. CASE Approve
  BY <1>1, <1>3, <1>5, <1>7, NoToolTyped DEF Approve
<1>8. CASE BeginTool
  BY <1>1, <1>3, <1>5, <1>8 DEF BeginTool
<1>9. CASE EndTool
  <2>1. CASE ToolAnswered(executing.prompt) /\ UNCHANGED <<product, running, card, supervision,
        threading, turnAsk,
                                                  inFlight, queue, sent, history, chatBounds>>
    <3>1. executing' = NoTool
      BY <1>9 DEF EndTool
    <3> QED
      BY <1>1, <1>4, <2>1, <3>1, NoToolTyped
  <2>2. ASSUME NEW q \in Product, SwitchTo(q) PROVE ChatInv'
    BY <1>9, <2>2, SwitchKeeps DEF EndTool
  <2> QED
    BY <1>9, <2>1, <2>2 DEF EndTool
<1> QED
  BY <1>6, <1>7, <1>8, <1>9

LEMMA ChatStarts == ChatInit => ChatInv
<1> SUFFICES ASSUME ChatInit PROVE ChatInv
  OBVIOUS
<1>1. PanelTyped /\ ClientTyped
  BY NoToolTyped DEF ChatInit, PanelTyped, ClientTyped, ChatState
<1>2. ThreadTyped /\ TurnsTyped
  <2>1. sent \in Seq(SentPrompt)
    BY EmptySeq DEF ChatInit
  <2> QED
    BY <2>1, ChatSizes, NoPrompts DEF ChatInit, ThreadTyped, TurnsTyped
<1>3. PromptsInOrder
  BY DEF ChatInit, PromptsInOrder, Ordered
<1>4. Connected /\ OneTurn
  BY DEF ChatInit, Connected, RightProduct, OneTurn
<1> QED
  BY <1>1, <1>2, <1>3, <1>4 DEF ChatInv

LEMMA ChatStep == ChatInv /\ [ChatNext]_chatVars => ChatInv'
<1> SUFFICES ASSUME ChatInv, [ChatNext]_chatVars PROVE ChatInv'
  OBVIOUS
<1>1. CASE UNCHANGED chatVars
  BY <1>1
     DEF chatVars, panel, supervision, threading, turning, history, chatBounds, ChatInv,
         PanelTyped, ClientTyped, ThreadTyped, TurnsTyped, PromptsInOrder, Connected,
         RightProduct, OneTurn
<1>2. ASSUME NEW q \in Product, ChangeProduct(q) PROVE ChatInv'
  BY <1>2, SwitchKeeps DEF ChangeProduct
<1> QED
  BY <1>1, <1>2, SendKeeps, StopKeeps, NewChatKeeps, ProcessKeeps, ErrorKeeps,
     RestartTimerKeeps, ThreadAnsweredKeeps, TurnMovesKeeps, TurnRefusedKeeps,
     TurnCompletedKeeps, ToolsKeep
     DEF ChatNext

LEMMA ChatHolds == ChatInv => ChatTypeOK /\ ChatSound
<1> SUFFICES ASSUME ChatInv PROVE ChatTypeOK /\ ChatSound
  OBVIOUS
<1>1. {running, supervise, timer, inFlight, left} \subseteq BOOLEAN
  BY ChatParts, Zenon DEF PanelTyped, ClientTyped, TurnsTyped
<1>2. ChatTypeOK
  BY <1>1, ChatParts, ChatSizes
     DEF ChatTypeOK, PanelTyped, ClientTyped, ThreadTyped, TurnsTyped, ChatState, Turn,
         SentPrompt, ToolCard
<1>3. SentOnce
  BY ChatParts DEF SentOnce, PromptsInOrder, Ordered
<1>4. RightProduct
  BY ChatParts DEF Connected
<1>5. Stoppable
  <2> SUFFICES ASSUME ~left PROVE Cardinality(turns) <= 1 /\ (turns # {} => running)
    BY DEF Stoppable
  <2>1. left = FALSE
    BY ChatParts, Zenon DEF PanelTyped
  <2>2. CASE turns = {}
    BY <2>2, FS_EmptySet
  <2>3. ASSUME NEW t \in turns PROVE Cardinality(turns) <= 1
    <3>1. turns = {t}
      BY <2>1, ChatParts DEF OneTurn
    <3> QED
      BY <3>1, FS_Singleton
  <2> QED
    BY <2>1, <2>2, <2>3, ChatParts DEF OneTurn
<1> QED
  BY <1>2, <1>3, <1>4, <1>5 DEF ChatSound

(* ChatSound: prompts reach the app server once and in order, none after a *)
(* stop, each turn works on the product that is open, and, but for prompts *)
(* left over by a missing executable, there is one turn at most and the    *)
(* panel shows it.                                                         *)
THEOREM ChatIsSound == ChatSpec => [](ChatTypeOK /\ ChatSound)
BY ChatStarts, ChatStep, ChatHolds, PTL DEF ChatSpec

-----------------------------------------------------------------------------
(* All of them.                                                            *)


LEMMA ServicesAreTheirs ==
  Spec => QueueSpec /\ HarnessSpec /\ SupportSpec /\ GenerationSpec /\ ChatSpec
<1>1. Init => QueueInit /\ HarnessInit /\ SupportInit /\ GenerationInit /\ ChatInit
  BY DEF Init
<1>2. [Next]_serviceVars =>
        /\ [QueueNext]_queueVars /\ [HarnessNext]_harnessVars /\ [SupportNext]_supportVars
        /\ [GenerationNext]_generationVars /\ [ChatNext]_chatVars
  BY DEF Next, Keep, serviceVars
<1> QED
  BY <1>1, <1>2, PTL DEF Spec, QueueSpec, HarnessSpec, SupportSpec, GenerationSpec, ChatSpec

(* TypeOK: every variable of every service keeps to its type.              *)
THEOREM ServicesTyped == Spec => []TypeOK
BY ServicesAreTheirs, TasksAreSound, BuildsAreSound, ResultsAreSound, JobsAreSound, ChatIsSound,
   PTL
   DEF TypeOK

(* HandedOutSound: the results of support jobs and of generation jobs are  *)
(* whole and of the request they are handed out for.                       *)
THEOREM HandedOutIsSound == Spec => []HandedOutSound
BY ServicesAreTheirs, ResultsAreSound, JobsAreSound, PTL DEF HandedOutSound

(* StepsSound: no step brings back a failed task or a support job that has *)
(* ended, or builds a structure for another specification than the file's. *)
THEOREM StepsAreSound == Spec => StepsSound
BY ServicesAreTheirs, TasksAreSound, ResultsAreSound, PTL DEF StepsSound

(* The safety of the other services, under the specification of all.       *)
THEOREM ServicesAreSound == Spec => [](TasksSound /\ BuildsSound /\ ChatSound)
BY ServicesAreTheirs, TasksAreSound, BuildsAreSound, ChatIsSound, PTL
=============================================================================
