---------------------------- MODULE AgentdClient ----------------------------
(***************************************************************************)
(* The Qt shell's AgentdClient and the designstudio-agentd process it      *)
(* supervises: opening a workspace, requests and answers over the pipes,   *)
(* crashes, kills, restarts after a timer, and the retry budget.           *)
(*                                                                         *)
(* The event loop runs one handler at a time, so a handler is one step.    *)
(* The exception is scheduleRestart while the process still runs: its wait *)
(* for the killed process hands over what the pipe still holds, so it is   *)
(* split into Kill and Killed, with `waiting' true between them.           *)
(***************************************************************************)
EXTENDS Naturals, FiniteSets, Sequences

CONSTANTS
  Workspace,     \* the workspaces a user may open
  NoWorkspace,   \* none of them
  MaxOpens, MaxCalls, MaxEdits,  \* bounds on what others do
  MaxFaults,     \* bound on deaths, failed starts, errors and malformed lines
  MaxHangs       \* bound on waits for a killed process that time out

Retries == 3  \* restarts without an accepted project/open in between

ASSUME ClientConstants ==
  /\ NoWorkspace \notin Workspace
  /\ MaxOpens \in Nat /\ MaxCalls \in Nat /\ MaxEdits \in Nat
  /\ MaxFaults \in Nat /\ MaxHangs \in Nat

VARIABLES
  state,     \* m_state
  process,   \* m_process.state()
  waiting,   \* m_stopping inside scheduleRestart
  timers,    \* single-shot timers that will call startProcess(true)
  attempts,  \* m_restartAttempts
  wanted,    \* identity in m_workspace
  executable, \* m_executable names a program
  pending,   \* m_pending
  nextId,    \* m_nextRequestId
  inbox,     \* lines of the daemon's stdout not yet handled
  alive, requests, opened,  \* daemon: it runs, its stdin, the workspace it has open
  revision,  \* revision of each workspace's manifest on disk
  restarts,  \* history: restarts since openWorkspace or an accepted project/open
  opens, calls, faults, hangs

client == <<state, process, waiting, timers, attempts, wanted, executable,
            pending, nextId, inbox>>
daemon == <<alive, requests, opened>>
bounds == <<opens, calls, faults, hangs>>
vars == <<client, daemon, revision, restarts, bounds>>

Identity == [workspace : Workspace, revision : 1..(MaxEdits + 1)]
Nothing == [workspace |-> NoWorkspace, revision |-> 0]
Method == {"project/open", "call"}

(* What may be pending, asked and said once n - 1 ids were given out.      *)
Pendings(n) == [id : 1..(n - 1), method : Method]
Requests(n) == [id : 1..(n - 1), method : Method, about : Identity]
Lines(n) == [id : 0..(n - 1), kind : {"result", "error", "malformed"},
             identity : Identity \cup {Nothing}]

OnDisk(w) == [workspace |-> w, revision |-> revision[w]]

Init ==
  /\ state = "stopped" /\ process = "down" /\ waiting = FALSE
  /\ timers = 0 /\ attempts = 0 /\ wanted = Nothing /\ executable = FALSE
  /\ pending = {} /\ nextId = 1 /\ inbox = <<>>
  /\ alive = FALSE /\ requests = <<>> /\ opened = Nothing
  /\ revision = [w \in Workspace |-> 1]
  /\ restarts = 0 /\ opens = 0 /\ calls = 0 /\ faults = 0 /\ hangs = 0

Fault == faults < MaxFaults /\ faults' = faults + 1
Hang == hangs < MaxHangs /\ hangs' = hangs + 1

(* What ends with the process: its life, and what it had not read.         *)
Gone == alive' = FALSE /\ requests' = <<>>

-----------------------------------------------------------------------------
(* startProcess, once it is known that no process runs.                    *)
Launch(as) ==
  /\ process' = "starting" /\ state' = as
  /\ pending' = {} /\ inbox' = <<>>

(* sendRequest to a running process: the daemon's stdin holds `waits', and *)
(* `about' is the workspace the caller means.  A write that is cut short   *)
(* restarts the process, as ErrorSignal does.                              *)
SendUncounted(method, waits) ==  \* mutant: the id is used again
  /\ pending' = pending \cup {[id |-> nextId, method |-> method]}
  /\ requests' = Append(waits, [id |-> nextId, method |-> method, about |-> wanted])
  /\ UNCHANGED nextId
Send(method, waits) ==
  /\ pending' = pending \cup {[id |-> nextId, method |-> method]}
  /\ requests' = Append(waits, [id |-> nextId, method |-> method, about |-> wanted])
  /\ nextId' = nextId + 1

(* The tail of scheduleRestart.                                            *)
Kept == pending  \* mutant: requests in flight are not given up
Remaining == {}
OneMore == attempts <= Retries  \* mutant: the retry after the last one as well
BudgetLeft == attempts < Retries
Retry ==
  /\ pending' = Remaining
  /\ attempts' = attempts + 1
  /\ IF BudgetLeft THEN state' = "recovering" /\ timers' = timers + 1
     ELSE state' = "failed" /\ UNCHANGED timers

(* stop(): terminate, kill, and two waits that may both time out.  A       *)
(* process that starts meanwhile is asked once more, which stays pending.  *)
AskedLate == {[id |-> n, method |-> "project/open"] : n \in nextId..(nextId' - 1)}

StopProcess(then, as) ==
  /\ inbox' = <<>> /\ Gone
  /\ \/ UNCHANGED nextId
     \/ process = "starting" /\ executable /\ nextId' = nextId + 1
  /\ \/ UNCHANGED hangs /\ then
     \/ Hang /\ process # "down" /\ process' = "running" /\ state' = as /\ pending' = AskedLate

IsDown(as) == process' = "down" /\ state' = as /\ pending' = AskedLate

(* openWorkspace after a manifest that resolves: stop(), then              *)
(* startProcess(false), which a process still there turns into nothing, or *)
(* without an executable a failure.                                        *)
OpenWorkspace(w) ==
  /\ ~waiting /\ opens < MaxOpens /\ opens' = opens + 1
  /\ wanted' = OnDisk(w) /\ attempts' = 0 /\ restarts' = 0
  /\ \/ StopProcess(Launch("starting"), "stopped") /\ executable' = TRUE
     \/ StopProcess(IsDown("failed"), "failed") /\ executable' = FALSE
  /\ UNCHANGED <<waiting, timers, opened, revision, calls, faults>>

Stop ==
  /\ ~waiting /\ opens > 0
  /\ StopProcess(IsDown("stopped"), "stopped")
  /\ UNCHANGED <<waiting, timers, attempts, wanted, executable, opened, revision,
                 restarts, opens, calls, faults>>

(* A single-shot timer of scheduleRestart: startProcess(true).             *)
Timer ==
  /\ ~waiting /\ timers > 0 /\ timers' = timers - 1
  /\ IF process = "down" THEN Launch("recovering") /\ restarts' = restarts + 1
     ELSE UNCHANGED <<process, state, pending, inbox, restarts>>
  /\ UNCHANGED <<waiting, attempts, wanted, executable, nextId, daemon, revision, bounds>>

Started ==
  /\ ~waiting /\ process = "starting" /\ process' = "running" /\ executable
  /\ alive' = TRUE /\ opened' = Nothing
  /\ Send("project/open", <<>>)
  /\ UNCHANGED <<state, waiting, timers, attempts, wanted, executable, inbox, revision, restarts, bounds>>

StartFails ==
  /\ ~waiting /\ process = "starting" /\ process' = "down"
  /\ Retry
  /\ IF executable THEN Fault ELSE UNCHANGED faults
  /\ UNCHANGED <<waiting, wanted, executable, nextId, inbox, daemon, revision, restarts, opens, calls, hangs>>

(* invoke, also from a slot that runs while scheduleRestart waits.         *)
ProcessRuns == process = "running"  \* mutant: a running process is enough
CanInvoke == state = "ready" /\ process = "running"
Invoke ==
  /\ calls < MaxCalls /\ calls' = calls + 1
  /\ CanInvoke
  /\ Send("call", requests)
  /\ UNCHANGED <<state, process, waiting, timers, attempts, wanted, executable, inbox, alive, opened,
                 revision, restarts, opens, faults, hangs>>

-----------------------------------------------------------------------------
(* The end of the process reaches the client, after all of its output.     *)
Finished ==
  /\ ~waiting /\ process = "running" /\ ~alive /\ inbox = <<>>
  /\ process' = "down"
  /\ Retry
  /\ UNCHANGED <<waiting, wanted, executable, nextId, inbox, daemon, revision, restarts, bounds>>

(* scheduleRestart while the process runs: kill it and wait.  Lines that   *)
(* came with one that is no answer may stay in m_stdoutBuffer.             *)
Kill == process = "running" /\ waiting' = TRUE /\ Gone
Killed ==
  /\ waiting /\ waiting' = FALSE
  /\ \/ process' = "down" /\ UNCHANGED hangs
     \/ Hang /\ UNCHANGED process  \* the wait timed out
  /\ Retry
  /\ UNCHANGED <<wanted, executable, nextId, inbox, daemon, revision, restarts, opens, calls, faults>>

(* errorOccurred with another error than a crash, or a short write.        *)
ErrorSignal ==
  /\ ~waiting /\ Fault /\ Kill
  /\ UNCHANGED <<state, process, timers, attempts, wanted, executable, pending, nextId, inbox, opened,
                 revision, restarts, opens, calls, hangs>>

-----------------------------------------------------------------------------
(* handleResponse.                                                         *)
SameWorkspace(identity) ==  \* mutant: the revision is not compared
  identity.workspace = wanted.workspace
Matches(identity) == identity = wanted

DecidedByResult(answer, method) ==  \* mutant: no error is fatal to the session
  method = "project/open" /\ answer.kind = "result"
Decides(answer, method) == method = "project/open"

Accept(answer) ==
  IF answer.kind = "result" /\ Matches(answer.identity)
  THEN state' = "ready" /\ attempts' = 0 /\ restarts' = 0
  ELSE state' = "failed" /\ UNCHANGED <<attempts, restarts>>

Respond(answer) ==
  \E p \in pending :
    /\ p.id = answer.id
    /\ pending' = pending \ {p}
    /\ IF Decides(answer, p.method) THEN Accept(answer)
       ELSE UNCHANGED <<state, attempts, restarts>>
    /\ UNCHANGED <<waiting, alive, requests>>

(* consumeStdout: a line that is no JSON object restarts the process, one  *)
(* that answers no pending request is dropped.                             *)
Deliver ==
  /\ process = "running" /\ inbox # <<>>
  /\ inbox' = Tail(inbox)
  /\ LET answer == Head(inbox) IN
     \/ /\ answer.kind = "malformed" /\ ~waiting /\ Kill
        /\ UNCHANGED <<state, attempts, restarts, pending>>
     \/ answer.kind # "malformed" /\ Respond(answer)
     \/ /\ answer.kind = "malformed" => waiting
        /\ \A p \in pending : p.id # answer.id
        /\ UNCHANGED <<state, attempts, restarts, pending, waiting, alive, requests>>
  /\ UNCHANGED <<process, timers, wanted, executable, nextId, opened, revision, bounds>>

-----------------------------------------------------------------------------
(* The daemon: it answers its requests in order and may die at any time.   *)
Say(answer) ==
  /\ alive /\ requests # <<>> /\ requests' = Tail(requests)
  /\ inbox' = Append(inbox, answer)
  /\ UNCHANGED <<state, process, waiting, timers, attempts, wanted, executable, pending, nextId,
                 alive, revision, restarts, opens, calls, hangs>>

Answer ==
  LET request == Head(requests)
      identity == OnDisk(request.about.workspace)
      result == [id |-> request.id, kind |-> "result", identity |-> identity]
  IN  /\ requests # <<>>
      /\ Say(result)
      /\ opened' = IF request.method = "project/open" THEN identity ELSE opened
      /\ UNCHANGED faults

Refuse ==
  /\ requests # <<>> /\ Fault /\ UNCHANGED opened
  /\ \/ Say([id |-> Head(requests).id, kind |-> "error", identity |-> Nothing])
     \/ Say([id |-> 0, kind |-> "malformed", identity |-> Nothing])

Die ==
  /\ alive /\ Fault /\ Gone
  /\ UNCHANGED <<client, opened, revision, restarts, opens, calls, hangs>>

(* Someone edits the manifest of a workspace.                              *)
Edit(w) ==
  /\ revision[w] <= MaxEdits
  /\ revision' = [revision EXCEPT ![w] = @ + 1]
  /\ UNCHANGED <<client, daemon, restarts, bounds>>

Next ==
  \/ \E w \in Workspace : OpenWorkspace(w) \/ Edit(w)
  \/ Stop \/ Timer \/ Started \/ StartFails \/ Invoke
  \/ Finished \/ Killed \/ ErrorSignal \/ Deliver
  \/ Answer \/ Refuse \/ Die

(* Timers fire, the operating system reports starts and ends, waits are    *)
(* bounded, the event loop reads the pipe, and a living daemon answers.    *)
Fairness ==
  /\ WF_vars(Timer) /\ WF_vars(Started \/ StartFails)
  /\ WF_vars(Finished) /\ WF_vars(Killed) /\ WF_vars(Deliver)
  /\ WF_vars(Answer \/ Refuse)

Spec == Init /\ [][Next]_vars
FairSpec == Spec /\ Fairness

-----------------------------------------------------------------------------
ControlTyped ==
  /\ state \in {"stopped", "starting", "recovering", "ready", "failed"}
  /\ process \in {"down", "starting", "running"}
  /\ waiting \in BOOLEAN /\ executable \in BOOLEAN /\ alive \in BOOLEAN
  /\ timers \in Nat /\ attempts \in Nat /\ restarts \in Nat

TrafficTyped ==
  /\ wanted \in Identity \cup {Nothing} /\ opened \in Identity \cup {Nothing}
  /\ nextId \in Nat \ {0}
  /\ pending \subseteq Pendings(nextId)
  /\ inbox \in Seq(Lines(nextId)) /\ requests \in Seq(Requests(nextId))

BoundsTyped ==
  /\ revision \in [Workspace -> 1..(MaxEdits + 1)]
  /\ opens \in 0..MaxOpens /\ calls \in 0..MaxCalls /\ faults \in 0..MaxFaults
  /\ hangs \in 0..MaxHangs

(* Every variable holds a value of its type: no id is pending, asked or    *)
(* answered that was not given out.                                        *)
TypeOK == ControlTyped /\ TrafficTyped /\ BoundsTyped

(* "A mismatch is [...] never silently accepted": in the ready state the   *)
(* process the client talks to has open exactly the workspace and revision *)
(* the client resolved, however often either was replaced meanwhile.       *)
ReadyMeansOpened == state = "ready" => process = "running" /\ opened = wanted

(* No request reaches a daemon that has not opened the workspace for which *)
(* the caller meant it: one of an earlier process, workspace or revision.  *)
CallsReachTheirWorkspace ==
  \A i \in DOMAIN requests : requests[i].method = "call" => opened = requests[i].about

(* Both: the client and its calls are on the workspace it resolved.        *)
OnItsWorkspace == ReadyMeansOpened /\ CallsReachTheirWorkspace

(* "If the daemon exits, the shell restarts it with a bounded retry        *)
(* budget": no more than Retries restarts without success in between.      *)
BoundedRestarts == restarts <= Retries

(* The same while the user opens one workspace and every killed process is *)
(* gone before the wait for it ends, which is when the budget does hold.   *)
RestartsBounded == opens <= 1 /\ hangs = 0 => BoundedRestarts

(* The client does not stay starting or recovering for ever, whatever      *)
(* dies or stalls.                                                         *)
SettlesAgain ==
  state \in {"starting", "recovering"} ~> state \in {"ready", "failed", "stopped"}

(* A request does not stay pending for ever, but the project/open of a     *)
(* process that was stopped while it started.                              *)
Idle == state = "stopped" \/ ~executable

RequestsSettle ==
  \A n \in 1..(MaxCalls + MaxOpens + MaxFaults + 1) :
    (\E p \in pending : p.id = n) ~>
      \A p \in pending : p.id = n => Idle /\ p.method = "project/open"

(* Neither the client nor a request of it is left hanging.                 *)
EverythingSettles == SettlesAgain /\ RequestsSettle
=============================================================================
