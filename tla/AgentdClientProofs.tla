------------------------- MODULE AgentdClientProofs -------------------------
(***************************************************************************)
(* The desktop is never ready on a workspace or revision other than the    *)
(* one it resolved, for any number of workspaces, openings, requests,      *)
(* edits, deaths and timed-out waits.                                      *)
(*                                                                         *)
(* The argument.  A project/open is alone in the daemon's stdin and has    *)
(* nothing before it in stdout (Alone); so the identity in its answer is   *)
(* the one the daemon has open when the answer is handled (Echo), which is *)
(* what handleResponse compares with m_workspace.                          *)
(***************************************************************************)
EXTENDS AgentdClient, TLAPS

(* An answer finds the pending request it belongs to.                      *)
SameMethod ==
  \A i \in DOMAIN requests, p \in pending :
    requests[i].id = p.id => requests[i].method = p.method

Alone ==
  \A i \in DOMAIN requests :
    requests[i].method = "project/open" =>
      Len(requests) = 1 /\ inbox = <<>> /\ state # "ready"

Echo ==
  \A i \in DOMAIN inbox, p \in pending :
    (inbox[i].id = p.id /\ p.method = "project/open" /\ inbox[i].kind = "result")
      => inbox[i].identity = opened

(* A process that is starting has said nothing, and is asked nothing.      *)
Lives ==
  /\ alive => process = "running" /\ ~waiting
  /\ process = "starting" => pending = {} /\ inbox = <<>>
  /\ waiting => process = "running"
  /\ wanted = Nothing => process = "down" /\ timers = 0

IInv ==
  /\ TypeOK /\ SameMethod /\ Alone /\ Echo /\ Lives
  /\ ReadyMeansOpened /\ CallsReachTheirWorkspace

-----------------------------------------------------------------------------
(* Sequences over a set that grows.                                        *)
LEMMA SeqGrows ==
  ASSUME NEW S, NEW T, S \subseteq T, NEW s \in Seq(S) PROVE s \in Seq(T)
OBVIOUS

LEMMA SeqAppend ==
  ASSUME NEW S, NEW s \in Seq(S), NEW e \in S
  PROVE  /\ Append(s, e) \in Seq(S)
         /\ Len(Append(s, e)) = Len(s) + 1
         /\ DOMAIN Append(s, e) = 1..(Len(s) + 1)
         /\ \A i \in 1..Len(s) : Append(s, e)[i] = s[i]
         /\ Append(s, e)[Len(s) + 1] = e
OBVIOUS

LEMMA SeqTail ==
  ASSUME NEW S, NEW s \in Seq(S), s # <<>>
  PROVE  /\ Tail(s) \in Seq(S) /\ Head(s) \in S
         /\ Len(Tail(s)) = Len(s) - 1
         /\ DOMAIN Tail(s) = 1..(Len(s) - 1)
         /\ \A i \in 1..(Len(s) - 1) : Tail(s)[i] = s[i + 1]
         /\ Head(s) = s[1] /\ 1 \in DOMAIN s /\ DOMAIN s = 1..Len(s)
OBVIOUS

LEMMA SeqMember ==
  ASSUME NEW S, NEW s \in Seq(S)
  PROVE  DOMAIN s = 1..Len(s) /\ Len(s) \in Nat /\ \A i \in DOMAIN s : s[i] \in S
OBVIOUS

LEMMA SeqOne ==
  ASSUME NEW S, NEW e \in S
  PROVE  /\ <<e>> \in Seq(S) /\ Append(<<>>, e) = <<e>>
         /\ Len(<<e>>) = 1 /\ DOMAIN <<e>> = {1} /\ <<e>>[1] = e
OBVIOUS

LEMMA SeqNone == ASSUME NEW S PROVE <<>> \in Seq(S) /\ DOMAIN <<>> = {}
OBVIOUS

LEMMA IdsGrow ==
  ASSUME NEW n \in Nat \ {0}
  PROVE  Pendings(n) \subseteq Pendings(n + 1) /\ Requests(n) \subseteq Requests(n + 1)
         /\ Lines(n) \subseteq Lines(n + 1)
<1>1. 1..(n - 1) \subseteq 1..(n + 1 - 1) /\ 0..(n - 1) \subseteq 0..(n + 1 - 1)
  OBVIOUS
<1> QED
  BY <1>1 DEF Pendings, Requests, Lines

LEMMA NothingTyped == Nothing \in Identity \cup {Nothing} /\ Nothing \notin Identity
BY DEF Nothing, Identity

LEMMA OnDiskTyped == ASSUME BoundsTyped, NEW w \in Workspace PROVE OnDisk(w) \in Identity
<1>1. revision[w] \in 1..(MaxEdits + 1)
  BY DEF BoundsTyped
<1> QED
  BY <1>1 DEF OnDisk, Identity

LEMMA InitHolds == ASSUME Init PROVE IInv
<1>1. ControlTyped
  BY DEF Init, ControlTyped
<1>2. TrafficTyped
  BY SeqNone, NothingTyped DEF Init, TrafficTyped
<1>3. BoundsTyped
  BY ClientConstants DEF Init, BoundsTyped
<1>4. SameMethod /\ Alone /\ Echo /\ Lives /\ ReadyMeansOpened /\ CallsReachTheirWorkspace
  BY SeqNone DEF Init, SameMethod, Alone, Echo, Lives, ReadyMeansOpened,
                 CallsReachTheirWorkspace
<1> QED
  BY <1>1, <1>2, <1>3, <1>4 DEF IInv, TypeOK

-----------------------------------------------------------------------------
(* Most steps say and ask nothing new: they give up requests, lose what is *)
(* in a pipe or handle the first line of it.  Such a step may make the     *)
(* client ready only on what the daemon has open.                          *)
Quiet ==
  /\ pending' \subseteq pending /\ requests' \in {requests, <<>>}
  /\ inbox' \in {inbox, <<>>} \/ (inbox # <<>> /\ inbox' = Tail(inbox))
  /\ nextId' = nextId /\ opened' = opened
  /\ state' = "ready" =>
       process' = "running" /\ wanted' = opened /\ (state = "ready" \/ inbox # <<>>)

LEMMA FewerLines ==
  ASSUME TrafficTyped, Quiet
  PROVE  /\ inbox' \in Seq(Lines(nextId)) /\ requests' \in Seq(Requests(nextId))
         /\ \A j \in DOMAIN inbox' : \E i \in DOMAIN inbox : inbox'[j] = inbox[i]
         /\ \A j \in DOMAIN requests' : j \in DOMAIN requests /\ requests' = requests
         /\ inbox = <<>> => inbox' = <<>>
<1>1. inbox \in Seq(Lines(nextId)) /\ requests \in Seq(Requests(nextId))
  BY DEF TrafficTyped
<1>2. inbox' \in Seq(Lines(nextId)) /\ requests' \in Seq(Requests(nextId))
  <2>1. <<>> \in Seq(Lines(nextId)) /\ <<>> \in Seq(Requests(nextId))
    BY SeqNone
  <2>2. inbox # <<>> => Tail(inbox) \in Seq(Lines(nextId))
    BY <1>1, SeqTail
  <2> QED
    BY <1>1, <2>1, <2>2 DEF Quiet
<1>3. ASSUME NEW j \in DOMAIN inbox' PROVE \E i \in DOMAIN inbox : inbox'[j] = inbox[i]
  <2>1. CASE inbox' = inbox
    BY <1>3, <2>1
  <2>2. CASE inbox' = <<>>
    BY <1>3, <2>2, SeqNone
  <2>3. CASE inbox # <<>> /\ inbox' = Tail(inbox)
    <3>1. j \in 1..(Len(inbox) - 1) /\ inbox'[j] = inbox[j + 1]
      BY <1>1, <1>3, <2>3, SeqTail
    <3>2. j + 1 \in DOMAIN inbox
      BY <1>1, <3>1, SeqMember
    <3> QED
      BY <3>1, <3>2
  <2> QED
    BY <2>1, <2>2, <2>3 DEF Quiet
<1>4. \A j \in DOMAIN requests' : j \in DOMAIN requests /\ requests' = requests
  BY SeqNone DEF Quiet
<1>5. inbox = <<>> => inbox' = <<>>
  BY DEF Quiet
<1> QED
  BY <1>2, <1>3, <1>4, <1>5

LEMMA QuietKeeps ==
  ASSUME IInv, Quiet, wanted' \in Identity \cup {Nothing}
  PROVE  /\ TrafficTyped' /\ SameMethod' /\ Alone' /\ Echo'
         /\ ReadyMeansOpened' /\ CallsReachTheirWorkspace'
<1>1. TrafficTyped'
  BY FewerLines DEF IInv, TypeOK, TrafficTyped, Quiet
<1>2. SameMethod' /\ CallsReachTheirWorkspace'
  BY FewerLines DEF IInv, TypeOK, Quiet, SameMethod, CallsReachTheirWorkspace
<1>3. Alone'
  BY FewerLines DEF IInv, TypeOK, Quiet, Alone
<1>4. ReadyMeansOpened'
  BY DEF Quiet, ReadyMeansOpened
<1>5. Echo'
  <2> SUFFICES ASSUME NEW j \in DOMAIN inbox', NEW p \in pending',
                      inbox'[j].id = p.id, p.method = "project/open",
                      inbox'[j].kind = "result"
               PROVE  inbox'[j].identity = opened'
    BY DEF Echo
  <2>1. PICK i \in DOMAIN inbox : inbox'[j] = inbox[i]
    BY FewerLines DEF IInv, TypeOK
  <2> QED
    BY <2>1 DEF IInv, Echo, Quiet
<1> QED
  BY <1>1, <1>2, <1>3, <1>4, <1>5

(* stop() empties the pipes; what is asked while it waits has a new id.    *)
LEMMA NewIds ==
  ASSUME NEW m \in Nat \ {0}, NEW n \in {m, m + 1}
  PROVE  n \in Nat \ {0} /\ m..(n - 1) \subseteq 1..(n - 1)
OBVIOUS

LEMMA StoppedKeeps ==
  ASSUME IInv, requests' = <<>>, inbox' = <<>>, nextId' \in {nextId, nextId + 1},
         pending' \subseteq AskedLate, state' # "ready", wanted' \in Identity \cup {Nothing},
         opened' = opened
  PROVE  /\ TrafficTyped' /\ SameMethod' /\ Alone' /\ Echo'
         /\ ReadyMeansOpened' /\ CallsReachTheirWorkspace'
<1>1. nextId \in Nat \ {0} /\ nextId' \in Nat \ {0}
  BY NewIds DEF IInv, TypeOK, TrafficTyped
<1>2. pending' \subseteq Pendings(nextId')
  <2>1. nextId..(nextId' - 1) \subseteq 1..(nextId' - 1)
    BY <1>1, NewIds
  <2> QED
    BY <2>1 DEF AskedLate, Pendings, Method
<1>3. TrafficTyped'
  BY <1>1, <1>2, SeqNone DEF IInv, TypeOK, TrafficTyped
<1> QED
  BY <1>3, SeqNone
     DEF SameMethod, Alone, Echo, ReadyMeansOpened, CallsReachTheirWorkspace

LEMMA OpenStep == ASSUME IInv, NEW w \in Workspace, OpenWorkspace(w) PROVE IInv'
<1>1. /\ requests' = <<>> /\ inbox' = <<>> /\ nextId' \in {nextId, nextId + 1}
      /\ pending' \subseteq AskedLate /\ state' # "ready" /\ opened' = opened
  BY DEF OpenWorkspace, StopProcess, IsDown, Launch, Gone
<1>2. wanted' \in Identity
  BY OnDiskTyped DEF OpenWorkspace, IInv, TypeOK
<1>3. ControlTyped'
  BY DEF OpenWorkspace, StopProcess, IsDown, Launch, Gone, IInv, TypeOK, ControlTyped
<1>4. hangs' \in 0..MaxHangs
  BY ClientConstants DEF OpenWorkspace, StopProcess, Hang, IInv, TypeOK, BoundsTyped
<1>5. BoundsTyped'
  BY <1>4, ClientConstants DEF OpenWorkspace, IInv, TypeOK, BoundsTyped
<1>6. Lives'
  BY <1>2, NothingTyped DEF OpenWorkspace, StopProcess, IsDown, Launch, Gone, Lives
<1> QED
  BY <1>1, <1>2, <1>3, <1>5, <1>6, StoppedKeeps DEF IInv, TypeOK

LEMMA StopStep == ASSUME IInv, Stop PROVE IInv'
<1>1. /\ requests' = <<>> /\ inbox' = <<>> /\ nextId' \in {nextId, nextId + 1}
      /\ pending' \subseteq AskedLate /\ state' # "ready" /\ opened' = opened
  BY DEF Stop, StopProcess, IsDown, Gone
<1>2. ControlTyped'
  BY DEF Stop, StopProcess, IsDown, Gone, IInv, TypeOK, ControlTyped
<1>3. BoundsTyped'
  BY ClientConstants DEF Stop, StopProcess, Hang, IInv, TypeOK, BoundsTyped
<1>4. Lives'
  BY DEF Stop, StopProcess, IsDown, Gone, IInv, Lives
<1>5. wanted' \in Identity \cup {Nothing}
  BY DEF Stop, IInv, TypeOK, TrafficTyped
<1> QED
  BY <1>1, <1>2, <1>3, <1>4, <1>5, StoppedKeeps DEF IInv, TypeOK

LEMMA TimerStep == ASSUME IInv, Timer PROVE IInv'
<1>1. Quiet
  BY DEF Timer, Launch, daemon, Quiet, IInv, ReadyMeansOpened
<1>2. ControlTyped'
  BY DEF Timer, Launch, daemon, IInv, TypeOK, ControlTyped
<1>3. BoundsTyped'
  BY DEF Timer, bounds, IInv, TypeOK, BoundsTyped
<1>4. Lives'
  BY DEF Timer, Launch, daemon, IInv, TypeOK, ControlTyped, Lives
<1>5. wanted' \in Identity \cup {Nothing}
  BY DEF Timer, IInv, TypeOK, TrafficTyped
<1> QED
  BY <1>1, <1>2, <1>3, <1>4, <1>5, QuietKeeps DEF IInv, TypeOK

(* A restart is scheduled only for a process that was started, so for a    *)
(* workspace that was opened.                                              *)
LEMMA RetryKeeps ==
  ASSUME IInv, Retry
  PROVE  /\ pending' = {} /\ state' \in {"recovering", "failed"}
         /\ attempts' \in Nat /\ timers' \in Nat
BY DEF Retry, Remaining, BudgetLeft, IInv, TypeOK, ControlTyped

LEMMA StartFailsStep == ASSUME IInv, StartFails PROVE IInv'
<1>1. Quiet
  BY RetryKeeps DEF StartFails, daemon, Quiet
<1>2. ControlTyped'
  BY RetryKeeps DEF StartFails, daemon, IInv, TypeOK, ControlTyped
<1>3. faults' \in 0..MaxFaults
  BY ClientConstants DEF StartFails, Fault, IInv, TypeOK, BoundsTyped
<1>4. BoundsTyped'
  BY <1>3 DEF StartFails, IInv, TypeOK, BoundsTyped
<1>5. Lives'
  BY RetryKeeps DEF StartFails, daemon, IInv, TypeOK, ControlTyped, Lives
<1>6. wanted' \in Identity \cup {Nothing}
  BY DEF StartFails, IInv, TypeOK, TrafficTyped
<1> QED
  BY <1>1, <1>2, <1>4, <1>5, <1>6, QuietKeeps DEF IInv, TypeOK

LEMMA FinishedStep == ASSUME IInv, Finished PROVE IInv'
<1>1. Quiet
  BY RetryKeeps DEF Finished, daemon, Quiet
<1>2. ControlTyped'
  BY RetryKeeps DEF Finished, daemon, IInv, TypeOK, ControlTyped
<1>3. BoundsTyped'
  BY DEF Finished, bounds, IInv, TypeOK, BoundsTyped
<1>4. Lives'
  BY RetryKeeps DEF Finished, daemon, IInv, TypeOK, ControlTyped, Lives
<1>5. wanted' \in Identity \cup {Nothing}
  BY DEF Finished, IInv, TypeOK, TrafficTyped
<1> QED
  BY <1>1, <1>2, <1>3, <1>4, <1>5, QuietKeeps DEF IInv, TypeOK

LEMMA KilledStep == ASSUME IInv, Killed PROVE IInv'
<1>1. Quiet
  BY RetryKeeps DEF Killed, daemon, Quiet
<1>2. ControlTyped'
  BY RetryKeeps DEF Killed, daemon, IInv, TypeOK, ControlTyped
<1>3. hangs' \in 0..MaxHangs
  BY ClientConstants DEF Killed, Hang, IInv, TypeOK, BoundsTyped
<1>4. BoundsTyped'
  BY <1>3 DEF Killed, IInv, TypeOK, BoundsTyped
<1>5. Lives'
  BY RetryKeeps DEF Killed, daemon, IInv, TypeOK, ControlTyped, Lives
<1>6. wanted' \in Identity \cup {Nothing}
  BY DEF Killed, IInv, TypeOK, TrafficTyped
<1> QED
  BY <1>1, <1>2, <1>4, <1>5, <1>6, QuietKeeps DEF IInv, TypeOK

LEMMA ErrorSignalStep == ASSUME IInv, ErrorSignal PROVE IInv'
<1>1. Quiet
  BY DEF ErrorSignal, Kill, Gone, Quiet, IInv, ReadyMeansOpened
<1>2. ControlTyped'
  BY DEF ErrorSignal, Kill, Gone, IInv, TypeOK, ControlTyped
<1>3. BoundsTyped'
  BY ClientConstants DEF ErrorSignal, Fault, IInv, TypeOK, BoundsTyped
<1>4. Lives'
  BY DEF ErrorSignal, Kill, Gone, IInv, TypeOK, ControlTyped, Lives
<1>5. wanted' \in Identity \cup {Nothing}
  BY DEF ErrorSignal, IInv, TypeOK, TrafficTyped
<1> QED
  BY <1>1, <1>2, <1>3, <1>4, <1>5, QuietKeeps DEF IInv, TypeOK

LEMMA DieStep == ASSUME IInv, Die PROVE IInv'
<1>1. Quiet
  BY DEF Die, client, Gone, Quiet, IInv, ReadyMeansOpened
<1>2. ControlTyped'
  BY DEF Die, client, Gone, IInv, TypeOK, ControlTyped
<1>3. BoundsTyped'
  BY ClientConstants DEF Die, Fault, IInv, TypeOK, BoundsTyped
<1>4. Lives'
  BY DEF Die, client, Gone, IInv, TypeOK, ControlTyped, Lives
<1>5. wanted' \in Identity \cup {Nothing}
  BY DEF Die, client, IInv, TypeOK, TrafficTyped
<1> QED
  BY <1>1, <1>2, <1>3, <1>4, <1>5, QuietKeeps DEF IInv, TypeOK

LEMMA EditStep == ASSUME IInv, NEW w \in Workspace, Edit(w) PROVE IInv'
<1>1. Quiet
  BY DEF Edit, client, daemon, Quiet, IInv, ReadyMeansOpened
<1>2. ControlTyped'
  BY DEF Edit, client, daemon, IInv, TypeOK, ControlTyped
<1>3. BoundsTyped'
  <2>1. revision[w] \in Nat \ {0} /\ revision[w] + 1 \in 1..(MaxEdits + 1)
    BY ClientConstants DEF Edit, IInv, TypeOK, BoundsTyped
  <2>2. revision' \in [Workspace -> 1..(MaxEdits + 1)]
    BY <2>1 DEF Edit, IInv, TypeOK, BoundsTyped
  <2> QED
    BY <2>2 DEF Edit, bounds, IInv, TypeOK, BoundsTyped
<1>4. Lives'
  BY DEF Edit, client, daemon, IInv, Lives
<1>5. wanted' \in Identity \cup {Nothing}
  BY DEF Edit, client, IInv, TypeOK, TrafficTyped
<1> QED
  BY <1>1, <1>2, <1>3, <1>4, <1>5, QuietKeeps DEF IInv, TypeOK

LEMMA StutterStep == ASSUME IInv, UNCHANGED vars PROVE IInv'
<1>1. Quiet
  BY DEF vars, client, daemon, Quiet, IInv, ReadyMeansOpened
<1>2. ControlTyped'
  BY DEF vars, client, daemon, IInv, TypeOK, ControlTyped
<1>3. BoundsTyped'
  BY DEF vars, bounds, IInv, TypeOK, BoundsTyped
<1>4. Lives'
  BY DEF vars, client, daemon, IInv, Lives
<1>5. wanted' \in Identity \cup {Nothing}
  BY DEF vars, client, IInv, TypeOK, TrafficTyped
<1> QED
  BY <1>1, <1>2, <1>3, <1>4, <1>5, QuietKeeps DEF IInv, TypeOK

(* handleResponse compares the identity in the answer; Echo makes it the   *)
(* one the daemon has open.                                                *)
LEMMA DeliverStep == ASSUME IInv, Deliver PROVE IInv'
<1> DEFINE answer == Head(inbox)
<1>1. /\ inbox # <<>> /\ inbox' = Tail(inbox) /\ process = "running"
      /\ UNCHANGED <<process, timers, wanted, executable, nextId, opened, revision, bounds>>
  BY DEF Deliver
<1>2. 1 \in DOMAIN inbox /\ answer = inbox[1]
  BY <1>1, SeqTail DEF IInv, TypeOK, TrafficTyped
<1>3. BoundsTyped' /\ wanted' \in Identity \cup {Nothing}
  BY <1>1 DEF bounds, IInv, TypeOK, BoundsTyped, TrafficTyped
<1>4. SUFFICES Quiet /\ ControlTyped' /\ Lives'
  BY <1>3, QuietKeeps DEF IInv, TypeOK
<1>5. CASE Respond(answer)
  <2>1. PICK p \in pending :
          /\ p.id = answer.id /\ pending' = pending \ {p}
          /\ IF Decides(answer, p.method) THEN Accept(answer)
             ELSE UNCHANGED <<state, attempts, restarts>>
          /\ UNCHANGED <<waiting, alive, requests>>
    BY <1>5 DEF Respond
  <2>2. state' = "ready" => wanted = opened
    <3>1. CASE Decides(answer, p.method)
      BY <2>1, <3>1, <1>2 DEF Decides, Accept, Matches, IInv, Echo
    <3>2. CASE ~Decides(answer, p.method)
      BY <2>1, <3>2 DEF IInv, ReadyMeansOpened
    <3> QED
      BY <3>1, <3>2
  <2>3. /\ state' \in {"stopped", "starting", "recovering", "ready", "failed"}
        /\ attempts' \in Nat /\ restarts' \in Nat
    BY <2>1 DEF Accept, IInv, TypeOK, ControlTyped
  <2>4. Quiet
    BY <1>1, <2>1, <2>2 DEF Quiet
  <2>5. ControlTyped'
    BY <1>1, <2>1, <2>3 DEF IInv, TypeOK, ControlTyped
  <2>6. Lives'
    BY <1>1, <2>1 DEF IInv, Lives
  <2> QED
    BY <2>4, <2>5, <2>6
<1>6. CASE /\ answer.kind = "malformed" /\ ~waiting /\ Kill
           /\ UNCHANGED <<state, attempts, restarts, pending>>
  <2>1. Quiet
    BY <1>1, <1>6 DEF Kill, Gone, Quiet, IInv, ReadyMeansOpened
  <2>2. ControlTyped'
    BY <1>1, <1>6 DEF Kill, Gone, IInv, TypeOK, ControlTyped
  <2>3. Lives'
    BY <1>1, <1>6 DEF Kill, Gone, IInv, Lives
  <2> QED
    BY <2>1, <2>2, <2>3
<1>7. CASE UNCHANGED <<state, attempts, restarts, pending, waiting, alive, requests>>
  <2>1. Quiet
    BY <1>1, <1>7 DEF Quiet, IInv, ReadyMeansOpened
  <2>2. ControlTyped'
    BY <1>1, <1>7 DEF IInv, TypeOK, ControlTyped
  <2>3. Lives'
    BY <1>1, <1>7 DEF IInv, Lives
  <2> QED
    BY <2>1, <2>2, <2>3
<1> QED
  BY <1>5, <1>6, <1>7 DEF Deliver

-----------------------------------------------------------------------------
(* The four steps that ask or say something new.                           *)
LEMMA SendKeeps ==
  ASSUME IInv, NEW method \in Method, NEW waits \in Seq(Requests(nextId)),
         Send(method, waits), wanted \in Identity
  PROVE  /\ nextId' \in Nat \ {0} /\ pending' \subseteq Pendings(nextId')
         /\ requests' \in Seq(Requests(nextId')) /\ inbox \in Seq(Lines(nextId'))
         /\ requests' # <<>>
<1> DEFINE sent == [id |-> nextId, method |-> method]
           asked == [id |-> nextId, method |-> method, about |-> wanted]
<1>1. nextId \in Nat \ {0} /\ nextId' = nextId + 1 /\ pending \subseteq Pendings(nextId)
      /\ inbox \in Seq(Lines(nextId)) /\ pending' = pending \cup {sent}
      /\ requests' = Append(waits, asked)
  BY DEF IInv, TypeOK, TrafficTyped, Send
<1>2. nextId \in 1..(nextId + 1 - 1)
  BY <1>1
<1>3. sent \in Pendings(nextId + 1)
  BY <1>2 DEF Pendings
<1>4. asked \in Requests(nextId + 1)
  BY <1>2 DEF Requests
<1> HIDE DEF sent, asked
<1>5. pending' \subseteq Pendings(nextId')
  BY <1>1, <1>3, IdsGrow
<1>6. waits \in Seq(Requests(nextId + 1)) /\ inbox \in Seq(Lines(nextId + 1))
  BY <1>1, IdsGrow, SeqGrows
<1>7. requests' \in Seq(Requests(nextId + 1)) /\ Len(requests') = Len(waits) + 1
  BY <1>1, <1>4, <1>6, SeqAppend
<1>8. Len(waits) \in Nat /\ Len(<<>>) = 0
  BY SeqMember
<1>9. requests' # <<>>
  BY <1>7, <1>8
<1> QED
  BY <1>1, <1>5, <1>6, <1>7, <1>9

LEMMA StartedStep == ASSUME IInv, Started PROVE IInv'
<1> DEFINE asked == [id |-> nextId, method |-> "project/open", about |-> wanted]
<1>1. pending = {} /\ inbox = <<>> /\ wanted \in Identity /\ state # "ready"
  BY DEF Started, IInv, TypeOK, TrafficTyped, Lives, ReadyMeansOpened
<1>2. asked \in Requests(nextId + 1)
  BY <1>1 DEF Requests, Method, IInv, TypeOK, TrafficTyped
<1>3. requests' = <<asked>> /\ Len(requests') = 1 /\ DOMAIN requests' = {1}
      /\ requests'[1] = asked
  <2>1. requests' = Append(<<>>, asked)
    BY DEF Started, Send
  <2> HIDE DEF asked
  <2> QED
    BY <1>2, <2>1, SeqOne
<1>4. TrafficTyped'
  BY <1>1, SendKeeps, SeqNone DEF Started, TrafficTyped, Method
<1>5. ControlTyped'
  BY DEF Started, IInv, TypeOK, ControlTyped
<1>6. BoundsTyped'
  BY DEF Started, bounds, IInv, TypeOK, BoundsTyped
<1>7. Lives' /\ ReadyMeansOpened'
  BY <1>1 DEF Started, IInv, Lives, ReadyMeansOpened
<1>8. SameMethod'
  BY <1>1, <1>3 DEF Started, Send, SameMethod
<1>9. Alone' /\ CallsReachTheirWorkspace'
  BY <1>1, <1>3 DEF Started, Alone, CallsReachTheirWorkspace
<1>10. Echo'
  BY <1>1, SeqNone DEF Started, Echo
<1> QED
  BY <1>4, <1>5, <1>6, <1>7, <1>8, <1>9, <1>10 DEF IInv, TypeOK

(* A call is sent in the ready state only, where no project/open waits and *)
(* the daemon has open what the client resolved.                           *)
LEMMA InvokeStep == ASSUME IInv, Invoke PROVE IInv'
<1> DEFINE asked == [id |-> nextId, method |-> "call", about |-> wanted]
           n == Len(requests)
<1>1. state = "ready" /\ process = "running" /\ opened = wanted /\ wanted \in Identity
  BY DEF Invoke, CanInvoke, IInv, TypeOK, TrafficTyped, Lives, ReadyMeansOpened
<1>2. nextId \in Nat \ {0} /\ requests \in Seq(Requests(nextId))
      /\ inbox \in Seq(Lines(nextId)) /\ pending \subseteq Pendings(nextId)
  BY DEF IInv, TypeOK, TrafficTyped
<1>3. /\ DOMAIN requests = 1..n /\ DOMAIN requests' = 1..(n + 1) /\ n \in Nat
      /\ \A i \in 1..n : requests'[i] = requests[i]
      /\ requests'[n + 1] = asked
  <2>1. requests' = Append(requests, asked)
    BY DEF Invoke, Send
  <2>2. requests \in Seq(Requests(nextId + 1)) /\ asked \in Requests(nextId + 1)
    <3>1. asked \in Requests(nextId + 1)
      BY <1>1, <1>2 DEF Requests, Method
    <3> HIDE DEF asked
    <3> QED
      BY <1>2, <3>1, IdsGrow, SeqGrows
  <2> HIDE DEF asked
  <2> QED
    BY <1>2, <2>1, <2>2, SeqAppend, SeqMember
<1>4. \A i \in DOMAIN requests : requests[i].id \in 1..(nextId - 1) /\ requests[i].method \in Method
  <2>1. \A i \in DOMAIN requests : requests[i] \in Requests(nextId)
    BY <1>2, SeqMember
  <2> QED
    BY <2>1 DEF Requests
<1>5. \A i \in DOMAIN inbox : inbox[i].id \in 0..(nextId - 1)
  <2>1. \A i \in DOMAIN inbox : inbox[i] \in Lines(nextId)
    BY <1>2, SeqMember
  <2> QED
    BY <2>1 DEF Lines
<1>6. \A p \in pending : p.id \in 1..(nextId - 1)
  BY <1>2 DEF Pendings
<1>7. TrafficTyped'
  BY <1>1, <1>2, SendKeeps DEF Invoke, IInv, TypeOK, TrafficTyped, Method
<1>8. ControlTyped'
  BY DEF Invoke, IInv, TypeOK, ControlTyped
<1>9. BoundsTyped'
  BY ClientConstants DEF Invoke, IInv, TypeOK, BoundsTyped
<1>10. Lives' /\ ReadyMeansOpened'
  BY <1>1 DEF Invoke, IInv, Lives, ReadyMeansOpened
<1>11. pending' = pending \cup {[id |-> nextId, method |-> "call"]}
  BY DEF Invoke, Send
<1>12. SameMethod'
  <2> SUFFICES ASSUME NEW i \in DOMAIN requests', NEW p \in pending', requests'[i].id = p.id
               PROVE  requests'[i].method = p.method
    BY DEF SameMethod
  <2>1. CASE i \in 1..n /\ p \in pending
    BY <1>3, <2>1 DEF IInv, SameMethod
  <2>2. CASE i \in 1..n /\ p = [id |-> nextId, method |-> "call"]
    BY <1>2, <1>3, <1>4, <2>2
  <2>3. CASE i = n + 1
    BY <1>2, <1>3, <1>6, <1>11, <2>3
  <2> QED
    BY <1>3, <1>11, <2>1, <2>2, <2>3
<1>13. Alone'
  BY <1>1, <1>3 DEF Invoke, IInv, Alone
<1>14. Echo'
  BY <1>2, <1>5, <1>11 DEF Invoke, IInv, Echo
<1>15. CallsReachTheirWorkspace'
  BY <1>1, <1>3 DEF Invoke, IInv, CallsReachTheirWorkspace
<1> QED
  BY <1>7, <1>8, <1>9, <1>10, <1>12, <1>13, <1>14, <1>15 DEF IInv, TypeOK

(* What the daemon takes from its stdin, and what it adds to its stdout.   *)
LEMMA SayKeeps ==
  ASSUME IInv, NEW line \in Lines(nextId), Say(line), requests # <<>>
  PROVE  /\ requests' \in Seq(Requests(nextId)) /\ inbox' \in Seq(Lines(nextId))
         /\ Head(requests) = requests[1] /\ Head(requests) \in Requests(nextId)
         /\ 1 \in DOMAIN requests
         /\ Len(requests) \in Nat /\ Len(requests') = Len(requests) - 1
         /\ \A i \in DOMAIN requests' :
              i + 1 \in DOMAIN requests /\ requests'[i] = requests[i + 1]
         /\ \A i \in DOMAIN inbox' :
              (i \in DOMAIN inbox /\ inbox'[i] = inbox[i]) \/ inbox'[i] = line
<1>1. requests \in Seq(Requests(nextId)) /\ inbox \in Seq(Lines(nextId))
      /\ requests' = Tail(requests) /\ inbox' = Append(inbox, line)
  BY DEF IInv, TypeOK, TrafficTyped, Say
<1>2. Len(requests) \in Nat /\ DOMAIN requests = 1..Len(requests)
      /\ Len(inbox) \in Nat /\ DOMAIN inbox = 1..Len(inbox)
  BY <1>1, SeqMember
<1>3. /\ requests' \in Seq(Requests(nextId)) /\ Head(requests) \in Requests(nextId)
      /\ Head(requests) = requests[1] /\ 1 \in DOMAIN requests
      /\ Len(requests') = Len(requests) - 1
  BY <1>1, SeqTail
<1>4. \A i \in DOMAIN requests' :
        i + 1 \in DOMAIN requests /\ requests'[i] = requests[i + 1]
  <2>1. DOMAIN requests' = 1..(Len(requests) - 1)
        /\ \A i \in 1..(Len(requests) - 1) : requests'[i] = requests[i + 1]
    BY <1>1, SeqTail
  <2> QED
    BY <1>2, <2>1
<1>5. /\ inbox' \in Seq(Lines(nextId)) /\ DOMAIN inbox' = 1..(Len(inbox) + 1)
      /\ \A i \in 1..Len(inbox) : inbox'[i] = inbox[i]
      /\ inbox'[Len(inbox) + 1] = line
  BY <1>1, SeqAppend
<1> QED
  BY <1>2, <1>3, <1>4, <1>5

(* A line that answers nothing with a result disturbs no more than the     *)
(* place of the requests behind it.                                        *)
LEMMA SaidKeeps ==
  ASSUME IInv, NEW line \in Lines(nextId), Say(line), requests # <<>>,
         Head(requests).method = "project/open" \/ opened' = opened,
         opened' \in Identity \cup {Nothing},
         faults' \in 0..MaxFaults,
         line.kind = "result" =>
           /\ line.id = Head(requests).id
           /\ Head(requests).method = "project/open" => line.identity = opened'
  PROVE  IInv'
<1> DEFINE first == Head(requests)
<1>1. UNCHANGED <<state, process, waiting, timers, attempts, wanted, executable, pending,
                  nextId, alive, revision, restarts, opens, calls, hangs>>
  BY DEF Say
<1>2. first = requests[1] /\ 1 \in DOMAIN requests
      /\ Len(requests) \in Nat /\ Len(requests') = Len(requests) - 1
  BY SayKeeps
<1>3. first.method = "project/open" => requests' = <<>> /\ inbox = <<>> /\ state # "ready"
  <2>1. first.method = "project/open" => Len(requests) = 1 /\ inbox = <<>> /\ state # "ready"
    BY <1>2 DEF IInv, Alone
  <2>2. requests' \in Seq(Requests(nextId))
    BY SayKeeps
  <2>3. Len(requests') = 0 => requests' = <<>>
    BY <2>2
  <2> QED
    BY <1>2, <2>1, <2>3
<1>4. TrafficTyped'
  BY <1>1, SayKeeps DEF IInv, TypeOK, TrafficTyped
<1>5. ControlTyped'
  BY <1>1 DEF IInv, TypeOK, ControlTyped
<1>6. BoundsTyped'
  BY <1>1 DEF IInv, TypeOK, BoundsTyped
<1>7. Lives'
  BY <1>1 DEF Say, IInv, Lives
<1>8. ReadyMeansOpened'
  BY <1>1, <1>3 DEF IInv, ReadyMeansOpened
<1>9. SameMethod'
  BY <1>1, SayKeeps DEF IInv, SameMethod
<1>10. CallsReachTheirWorkspace'
  BY <1>1, <1>3, SayKeeps, SeqNone DEF IInv, CallsReachTheirWorkspace
<1>11. \A i \in DOMAIN requests' : requests'[i].method # "project/open"
  <2> SUFFICES ASSUME NEW i \in DOMAIN requests', requests'[i].method = "project/open"
               PROVE  FALSE
    OBVIOUS
  <2>1. i + 1 \in DOMAIN requests /\ requests[i + 1].method = "project/open"
    BY SayKeeps
  <2>2. Len(requests) = 1 /\ DOMAIN requests = 1..Len(requests)
    BY <2>1, SeqMember DEF IInv, Alone, TypeOK, TrafficTyped
  <2>3. requests' \in Seq(Requests(nextId))
    BY SayKeeps
  <2>4. DOMAIN requests' = 1..Len(requests')
    BY <2>3, SeqMember
  <2>5. Len(requests') = 0
    BY <1>2, <2>2
  <2>6. i \in 1..0
    BY <2>4, <2>5
  <2> QED
    BY <2>6
<1>12. Alone'
  BY <1>11 DEF Alone
<1>13. Echo'
  <2> SUFFICES ASSUME NEW i \in DOMAIN inbox', NEW p \in pending,
                      inbox'[i].id = p.id, p.method = "project/open",
                      inbox'[i].kind = "result"
               PROVE  inbox'[i].identity = opened'
    BY <1>1 DEF Echo
  <2>1. CASE i \in DOMAIN inbox /\ inbox'[i] = inbox[i]
    <3>1. inbox # <<>>
      BY <2>1, SeqNone
    <3>2. opened' = opened
      BY <1>3, <3>1
    <3> QED
      BY <2>1, <3>2 DEF IInv, Echo
  <2>2. CASE inbox'[i] = line
    <3>1. first.method = "project/open"
      BY <1>2, <2>2 DEF IInv, SameMethod
    <3> QED
      BY <2>2, <3>1
  <2> QED
    BY <2>1, <2>2, SayKeeps
<1> QED
  BY <1>4, <1>5, <1>6, <1>7, <1>8, <1>9, <1>10, <1>12, <1>13 DEF IInv, TypeOK

LEMMA HeadTyped ==
  ASSUME IInv, requests # <<>>
  PROVE  Head(requests).id \in 1..(nextId - 1) /\ Head(requests).about \in Identity
<1>1. Head(requests) \in Requests(nextId)
  BY SeqTail DEF IInv, TypeOK, TrafficTyped
<1> QED
  BY <1>1 DEF Requests

LEMMA AnswerStep == ASSUME IInv, Answer PROVE IInv'
<1> DEFINE request == Head(requests)
           identity == OnDisk(request.about.workspace)
           result == [id |-> request.id, kind |-> "result", identity |-> identity]
<1>1. /\ requests # <<>> /\ Say(result) /\ UNCHANGED faults
      /\ opened' = IF request.method = "project/open" THEN identity ELSE opened
  BY DEF Answer
<1>2. request.id \in 1..(nextId - 1) /\ request.about \in Identity
  BY <1>1, HeadTyped
<1>3. nextId \in Nat \ {0} /\ opened \in Identity \cup {Nothing} /\ faults \in 0..MaxFaults
  BY DEF IInv, TypeOK, TrafficTyped, BoundsTyped
<1>4. identity \in Identity
  <2>1. request.about.workspace \in Workspace
    BY <1>2 DEF Identity
  <2> QED
    BY <2>1, OnDiskTyped DEF IInv, TypeOK
<1>5. result \in Lines(nextId)
  <2> HIDE DEF identity, request
  <2> QED
    BY <1>2, <1>3, <1>4 DEF Lines
<1>6. result.kind = "result" /\ result.id = request.id /\ result.identity = identity
  OBVIOUS
<1> HIDE DEF identity, result
<1> QED
  BY <1>1, <1>3, <1>4, <1>5, <1>6, SaidKeeps

LEMMA RefuseStep == ASSUME IInv, Refuse PROVE IInv'
<1> DEFINE error == [id |-> Head(requests).id, kind |-> "error", identity |-> Nothing]
           malformed == [id |-> 0, kind |-> "malformed", identity |-> Nothing]
<1>1. requests # <<>> /\ opened' = opened /\ (Say(error) \/ Say(malformed))
  BY DEF Refuse
<1>2. faults' \in 0..MaxFaults
  BY ClientConstants DEF Refuse, Fault, IInv, TypeOK, BoundsTyped
<1>3. nextId \in Nat \ {0} /\ opened \in Identity \cup {Nothing}
  BY DEF IInv, TypeOK, TrafficTyped
<1>4. error \in Lines(nextId) /\ malformed \in Lines(nextId)
  BY <1>1, <1>3, HeadTyped DEF Lines
<1>5. error.kind # "result" /\ malformed.kind # "result"
  OBVIOUS
<1> HIDE DEF error, malformed
<1> QED
  BY <1>1, <1>2, <1>3, <1>4, <1>5, SaidKeeps

-----------------------------------------------------------------------------
LEMMA NextStep == ASSUME IInv, [Next]_vars PROVE IInv'
BY OpenStep, EditStep, StopStep, TimerStep, StartedStep, StartFailsStep, InvokeStep,
   FinishedStep, KilledStep, ErrorSignalStep, DeliverStep, AnswerStep, RefuseStep, DieStep,
   StutterStep
   DEF Next

(* The conjunction of everything the argument needs is an invariant of the *)
(* client and its daemon.                                                  *)
LEMMA Inductive == Spec => []IInv
<1>1. Init => IInv
  BY InitHolds
<1>2. IInv /\ [Next]_vars => IInv'
  BY NextStep
<1> QED
  BY <1>1, <1>2, PTL DEF Spec

(* Every variable of AgentdClient and of the daemon keeps to its type.     *)
THEOREM TypeCorrect == Spec => []TypeOK
<1>1. IInv => TypeOK
  BY DEF IInv
<1> QED
  BY <1>1, Inductive, PTL

(* While the client is ready, the daemon it talks to has open the very     *)
(* workspace and revision that openWorkspace resolved: handleResponse      *)
(* accepts no answer of an earlier process, workspace or revision.         *)
THEOREM ReadyCorrect == Spec => []ReadyMeansOpened
<1>1. IInv => ReadyMeansOpened
  BY DEF IInv
<1> QED
  BY <1>1, Inductive, PTL

(* No request that invoke sent waits at a daemon that has not opened the   *)
(* workspace and revision the caller had selected.                         *)
THEOREM CallsCorrect == Spec => []CallsReachTheirWorkspace
<1>1. IInv => CallsReachTheirWorkspace
  BY DEF IInv
<1> QED
  BY <1>1, Inductive, PTL

(* The client is ready, and its calls are served, only on the workspace    *)
(* and revision that it resolved.                                          *)
THEOREM AlwaysOnItsWorkspace == Spec => []OnItsWorkspace
<1>1. ReadyMeansOpened /\ CallsReachTheirWorkspace => OnItsWorkspace
  BY DEF OnItsWorkspace
<1> QED
  BY <1>1, ReadyCorrect, CallsCorrect, PTL

-----------------------------------------------------------------------------
(* A timer is armed only where the process it is to replace is gone, so    *)
(* restarts that are due and those that were made are never more than the  *)
(* attempts counted.                                                       *)
Due == restarts + timers

Counted ==
  /\ opens = 0 => process = "down" /\ timers = 0
  /\ opens <= 1 /\ hangs = 0 =>
       /\ Due <= attempts /\ Due <= Retries
       /\ timers <= 1 /\ (timers > 0 => process = "down")

LEMMA RetryCounts ==
  ASSUME TypeOK, Counted, Retry, process # "down", process' = "down" \/ hangs' # 0,
         restarts' = restarts, opens' = opens, hangs' = hangs \/ hangs' # 0
  PROVE  Counted'
<1>1. /\ timers \in Nat /\ attempts \in Nat /\ restarts \in Nat
      /\ opens \in Nat /\ hangs \in Nat
  BY ClientConstants DEF TypeOK, ControlTyped, BoundsTyped
<1>2. opens # 0
  BY DEF Counted
<1>3. attempts' = attempts + 1
      /\ ((attempts < 3 /\ timers' = timers + 1) \/ (~(attempts < 3) /\ timers' = timers))
  BY DEF Retry, BudgetLeft, Retries
<1>4. ASSUME opens' <= 1, hangs' = 0
      PROVE  Due' <= attempts' /\ Due' <= 3 /\ timers' <= 1 /\ process' = "down"
  <2>1. restarts + timers <= attempts /\ restarts + timers <= 3 /\ timers = 0
    BY <1>1, <1>4 DEF Counted, Due, Retries
  <2> QED
    BY <1>1, <1>3, <1>4, <2>1 DEF Due
<1> QED
  BY <1>2, <1>4 DEF Counted, Retries

(* The steps that touch neither a timer nor a counter.                     *)
LEMMA StillCounts ==
  ASSUME Counted, UNCHANGED <<timers, attempts, restarts, opens>>,
         hangs' = hangs \/ hangs' # 0,
         process' = process \/ hangs' # 0 \/ process' = "down"
           \/ (process = "starting" /\ process' = "running"),
         opens # 0 \/ process' = process
  PROVE  Counted'
BY DEF Counted, Due

LEMMA OpenCounts ==
  ASSUME TypeOK, Counted, NEW w \in Workspace, OpenWorkspace(w) PROVE Counted'
<1>1. /\ timers' = timers /\ attempts' = 0 /\ restarts' = 0 /\ opens' = opens + 1
      /\ opens \in Nat /\ timers \in Nat
  BY ClientConstants DEF OpenWorkspace, TypeOK, ControlTyped, BoundsTyped
<1>2. opens' <= 1 => timers = 0
  BY <1>1 DEF Counted
<1> QED
  BY <1>1, <1>2 DEF Counted, Due, Retries

LEMMA TimerCounts == ASSUME TypeOK, Counted, Timer PROVE Counted'
<1>1. /\ timers \in Nat /\ attempts \in Nat /\ restarts \in Nat
  BY DEF TypeOK, ControlTyped
<1>2. /\ timers > 0 /\ timers' = timers - 1 /\ UNCHANGED <<attempts, opens, hangs>>
      /\ restarts' = restarts \/ (restarts' = restarts + 1 /\ process = "down")
      /\ process' = process \/ process = "down"
  BY DEF Timer, Launch, bounds
<1>3. opens # 0
  BY <1>1, <1>2 DEF Counted
<1>4. ASSUME opens <= 1, hangs = 0
      PROVE  Due' <= attempts /\ Due' <= 3 /\ timers' = 0
  <2>1. restarts + timers <= attempts /\ restarts + timers <= 3 /\ timers <= 1
    BY <1>4 DEF Counted, Due, Retries
  <2> QED
    BY <1>1, <1>2, <2>1 DEF Due
<1> QED
  BY <1>1, <1>2, <1>3, <1>4 DEF Counted, Retries

LEMMA StopCounts == ASSUME TypeOK, Counted, Stop PROVE Counted'
<1>1. hangs \in Nat
  BY DEF TypeOK, BoundsTyped
<1>2. /\ opens # 0 /\ UNCHANGED <<timers, attempts, restarts, opens>>
      /\ (hangs' = hangs /\ process' = "down") \/ hangs' = hangs + 1
  BY ClientConstants DEF Stop, StopProcess, IsDown, Hang, TypeOK, BoundsTyped
<1> QED
  BY <1>1, <1>2, StillCounts

LEMMA KilledCounts == ASSUME IInv, Counted, Killed PROVE Counted'
<1>1. hangs \in Nat /\ TypeOK
  BY DEF IInv, TypeOK, BoundsTyped
<1>2. process = "running"
  BY DEF Killed, IInv, Lives
<1>3. /\ Retry /\ UNCHANGED <<restarts, opens>>
      /\ (hangs' = hangs /\ process' = "down") \/ hangs' = hangs + 1
  BY DEF Killed, Hang
<1> QED
  BY <1>1, <1>2, <1>3, RetryCounts

LEMMA AcceptCounts == ASSUME IInv, Counted, Deliver PROVE Counted'
<1>1. /\ process = "running" /\ UNCHANGED <<process, timers, opens, hangs>>
      /\ timers \in Nat
  BY DEF Deliver, bounds, IInv, TypeOK, ControlTyped
<1>2. UNCHANGED <<attempts, restarts>> \/ (attempts' = 0 /\ restarts' = 0)
  BY DEF Deliver, Respond, Accept
<1>3. opens # 0
  BY <1>1 DEF Counted
<1>4. CASE UNCHANGED <<attempts, restarts>>
  BY <1>1, <1>3, <1>4, StillCounts
<1>5. CASE attempts' = 0 /\ restarts' = 0
  <2>1. opens <= 1 /\ hangs = 0 => timers = 0
    BY <1>1 DEF Counted
  <2> QED
    BY <1>1, <1>3, <1>5, <2>1 DEF Counted, Due, Retries
<1> QED
  BY <1>2, <1>4, <1>5

LEMMA StepCounts == ASSUME IInv, Counted, [Next]_vars PROVE Counted'
<1>0. TypeOK
  BY DEF IInv
<1>1. ASSUME NEW w \in Workspace, OpenWorkspace(w) PROVE Counted'
  BY <1>0, <1>1, OpenCounts
<1>2. CASE Stop
  BY <1>0, <1>2, StopCounts
<1>3. CASE Timer
  BY <1>0, <1>3, TimerCounts
<1>4. CASE StartFails
  BY <1>0, <1>4, RetryCounts DEF StartFails
<1>5. CASE Finished
  BY <1>0, <1>5, RetryCounts DEF Finished, bounds
<1>6. CASE Killed
  BY <1>6, KilledCounts
<1>7. CASE Deliver
  BY <1>7, AcceptCounts
<1>8. CASE Started
  <2>1. opens # 0
    BY <1>8 DEF Counted, Started
  <2> QED
    BY <1>8, <2>1, StillCounts DEF Started, bounds
<1>9. CASE UNCHANGED <<process, timers, attempts, restarts, opens, hangs>>
  BY <1>9, StillCounts
<1>10. Invoke \/ ErrorSignal \/ Answer \/ Refuse \/ Die \/ (\E w \in Workspace : Edit(w))
         \/ UNCHANGED vars
       => UNCHANGED <<process, timers, attempts, restarts, opens, hangs>>
  BY DEF Invoke, ErrorSignal, Answer, Refuse, Say, Die, Edit, vars, client, bounds
<1> QED
  BY <1>1, <1>2, <1>3, <1>4, <1>5, <1>6, <1>7, <1>8, <1>9, <1>10 DEF Next

(* While the user opens one workspace and no wait for a killed process     *)
(* times out, the shell restarts the daemon at most Retries times without  *)
(* an accepted project/open in between.                                    *)
THEOREM RestartsAreBounded == Spec => []RestartsBounded
<1>1. Init => Counted
  BY DEF Init, Counted, Due, Retries
<1>2. IInv /\ Counted /\ [Next]_vars => Counted'
  BY StepCounts
<1>3. IInv /\ Counted => RestartsBounded
  <2> SUFFICES ASSUME IInv, Counted, opens <= 1, hangs = 0 PROVE restarts <= Retries
    BY DEF RestartsBounded, BoundedRestarts
  <2> QED
    BY DEF Counted, Due, Retries, IInv, TypeOK, ControlTyped
<1> QED
  BY <1>1, <1>2, <1>3, Inductive, PTL DEF Spec
=============================================================================
