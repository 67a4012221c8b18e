----------------------------- MODULE CodexChat -----------------------------
(***************************************************************************)
(* The design assistant: the chat panel (DesignChatPanel.cpp), its         *)
(* supervisor of the Codex app server (CodexAppServerClient.cpp) and the   *)
(* window that executes approved tools (MainWindow.cpp), next to an app    *)
(* server that answers, refuses, is slow or dies.                          *)
(*                                                                         *)
(* The application is one thread, so a handler is one action; signals that *)
(* Qt delivers while a handler waits for the process to end are part of    *)
(* it.  Prompts are numbered in the order in which the user sends them.    *)
(***************************************************************************)
EXTENDS Naturals, FiniteSets, Sequences

CONSTANTS
  Product,    \* paths of project documents
  NoProduct,  \* stands for no thread, and for no card
  MaxPrompts, MaxProductChanges, MaxNewChats, MaxTools,
  MaxChatFaults  \* bound on deaths, failed starts, refusals and a missing executable

ASSUME ChatConstants ==
  /\ Product # {} /\ NoProduct \notin Product
  /\ {MaxPrompts, MaxProductChanges, MaxNewChats, MaxTools, MaxChatFaults} \subseteq Nat

VARIABLES
  product, running,           \* of the panel: m_projectPath, m_agentRunning
  card, executing,            \* the tool that waits for approval, and the one at work
  state, supervise, timer,    \* of the client: m_state, m_supervise, m_restartTimer
  cwd, thread, turnId, turnAsk, inFlight, queue,
  process, asks, turns,       \* the app server, what it was asked, its turns
  sent, over, left,           \* history, see below
  prompts, productChanges, newChats, tools, chatFaults

panel == <<product, running, card, executing>>
supervision == <<state, supervise, timer, process, asks>>
threading == <<cwd, thread, turnId>>
turning == <<turnAsk, inFlight, queue, turns, sent>>
history == <<over, left>>
chatBounds == <<prompts, productChanges, newChats, tools, chatFaults>>
chatVars == <<panel, supervision, threading, turning, history, chatBounds>>

NoTool == [prompt |-> 0, product |-> NoProduct, phase |-> "none"]
Proposal(p) == [prompt |-> p, product |-> product, phase |-> "card"]

ChatInit ==
  /\ product \in Product /\ running = FALSE
  /\ card = NoTool /\ executing = NoTool
  /\ state = "stopped" /\ supervise = FALSE /\ timer = FALSE
  /\ cwd = product /\ thread = NoProduct
  /\ turnId = 0 /\ turnAsk = 0 /\ inFlight = FALSE /\ queue = <<>>
  /\ process = "none" /\ asks = {} /\ turns = {}
  /\ sent = <<>> /\ over = 0 /\ left = FALSE
  /\ prompts = 0 /\ productChanges = 0 /\ newChats = 0 /\ tools = 0 /\ chatFaults = 0

ChatFault ==
  /\ chatFaults < MaxChatFaults /\ chatFaults' = chatFaults + 1
  /\ UNCHANGED <<prompts, productChanges, newChats, tools>>

-----------------------------------------------------------------------------
(* startNextTurn, in a state and on a thread that its caller has just set. *)
StartNextTurn(s, on, waiting, going, flight) ==
  IF s = "ready" /\ on # NoProduct /\ waiting # <<>>
  THEN /\ queue' = Tail(waiting) /\ inFlight' = TRUE /\ turnAsk' = Head(waiting)
       /\ turns' = going \cup {[prompt |-> Head(waiting), dir |-> on, phase |-> "sent"]}
       /\ sent' = Append(sent, [prompt |-> Head(waiting), over |-> over])
  ELSE /\ queue' = waiting /\ inFlight' = flight /\ turns' = going
       /\ UNCHANGED <<turnAsk, sent>>

(* start, once the executable was found or was not.                        *)
Launch ==
  /\ supervise' = TRUE /\ timer' = FALSE /\ state' = "starting" /\ process' = "starting"
  /\ UNCHANGED asks
Unavailable ==
  /\ supervise' = FALSE /\ timer' = FALSE /\ state' = "failed" /\ UNCHANGED <<process, asks>>

(* scheduleRestart: the thread is gone, what waits goes on waiting; a      *)
(* second one, while the timer runs, changes nothing.                      *)
ScheduleRestart ==
  /\ thread' = NoProduct /\ turnId' = 0 /\ timer' = TRUE
  /\ state' = IF timer THEN state ELSE "starting"
  /\ UNCHANGED <<cwd, supervise>>

(* The finished signal of a process that ends under supervision: a turn    *)
(* that was under way is reported as failed and is not sent again.         *)
Requeued == IF inFlight THEN <<turnAsk>> \o queue ELSE queue  \* mutant: sent again
Waiting == queue
FinishedSignal ==
  /\ process' = "none" /\ asks' = {} /\ turns' = {} /\ turnAsk' = 0 /\ inFlight' = FALSE
  /\ running' = (running /\ ~inFlight)
  /\ queue' = Waiting
  /\ ScheduleRestart
  /\ UNCHANGED <<product, card, executing, sent, history>>

(* What a process may still say while stop waits for its end, and stop:    *)
(* a completed turn makes the client ready, a started one initializing.    *)
Undelivered ==
  (IF process = "starting" THEN {"started"} ELSE {})
    \cup (IF \E t \in turns : t.phase # "sent" THEN {"completed"} ELSE {})
    \cup (IF \E t \in turns : t.phase = "live" THEN {"tool"} ELSE {})

StateAfter(late) ==
  IF "completed" \in late THEN "ready"
  ELSE IF "started" \in late THEN "initializing" ELSE "stopped"

QueueKept == queue  \* mutant: prompts that wait survive a stop
QueueAfterStop == <<>>

StopClient(late) ==
  /\ state' = StateAfter(late) /\ supervise' = FALSE /\ timer' = FALSE
  /\ process' = "none" /\ asks' = {} /\ turns' = {}
  /\ thread' = NoProduct /\ turnId' = 0 /\ turnAsk' = 0 /\ inFlight' = FALSE
  /\ queue' = QueueAfterStop
  /\ over' = prompts /\ left' = FALSE
  /\ UNCHANGED <<cwd, sent>>

-----------------------------------------------------------------------------
(* The user.  onSend: the client is started when it is not there, and the  *)
(* prompt goes to it.                                                      *)
Send ==
  /\ ~running /\ prompts < MaxPrompts
  /\ IF state \in {"stopped", "failed"}
     THEN /\ cwd' = product
          /\ \/ /\ Launch /\ running' = TRUE
                /\ prompts' = prompts + 1 /\ queue' = Append(queue, prompts')
                /\ UNCHANGED <<productChanges, newChats, tools, chatFaults>>
             \/ Unavailable /\ ChatFault /\ UNCHANGED <<running, queue>>
          /\ UNCHANGED <<inFlight, turnAsk, turns, sent>>
     ELSE /\ running' = TRUE /\ prompts' = prompts + 1
          /\ StartNextTurn(state, thread, Append(queue, prompts'), turns, inFlight)
          /\ UNCHANGED <<supervision, cwd, productChanges, newChats, tools, chatFaults>>
  /\ UNCHANGED <<product, card, executing, thread, turnId, history>>

(* stopAgent, and what codexRunStopped tells the window.                   *)
Stop ==
  /\ running /\ \E late \in SUBSET Undelivered : StopClient(late)
  /\ running' = FALSE /\ card' = NoTool
  /\ UNCHANGED <<product, executing, chatBounds>>

(* setProjectPath, when another document has been loaded: the panel is not *)
(* told of the stop, and the window keeps its cards.                       *)
SwitchTo(q) ==
  /\ q # product /\ product' = q
  /\ productChanges < MaxProductChanges /\ productChanges' = productChanges + 1
  /\ UNCHANGED <<prompts, newChats, chatFaults>>
  /\ \E late \in SUBSET Undelivered :
       /\ StopClient(late)
       /\ running' = (running /\ "completed" \notin late)
       /\ IF "tool" \in late /\ tools < MaxTools
          THEN /\ tools' = tools + 1
               /\ \E t \in {u \in turns : u.phase = "live"} : card' = Proposal(t.prompt)
          ELSE UNCHANGED <<card, tools>>

ChangeProduct(q) == SwitchTo(q) /\ UNCHANGED executing

NewChat ==
  /\ ~running /\ newChats < MaxNewChats /\ newChats' = newChats + 1
  /\ turns' = IF state = "running" /\ thread # NoProduct
              THEN {IF t.prompt = turnId THEN [t EXCEPT !.phase = "interrupted"] ELSE t : t \in turns}
              ELSE turns
  /\ thread' = NoProduct /\ turnId' = 0 /\ inFlight' = FALSE
  /\ asks' = IF process = "alive" THEN asks \cup {"thread"} ELSE asks
  /\ UNCHANGED <<panel, state, supervise, timer, process, cwd, turnAsk, queue, sent, history,
                 prompts, productChanges, tools, chatFaults>>

-----------------------------------------------------------------------------
(* The process and the requests that open a thread.                        *)
Started ==
  /\ process = "starting" /\ process' = "alive" /\ state' = "initializing"
  /\ asks' = {"initialize"}
  /\ UNCHANGED <<panel, supervise, timer, threading, turning, history, chatBounds>>

FailedToStart ==
  /\ process = "starting" /\ ChatFault
  /\ process' = "none" /\ ScheduleRestart
  /\ UNCHANGED <<panel, asks, turning, history>>

Dies == process = "alive" /\ ChatFault /\ FinishedSignal

(* An error to initialize or thread/start: the client ends the process,    *)
(* which may outlast the wait.                                             *)
ProtocolError ==
  /\ asks # {} /\ ChatFault
  /\ \/ FinishedSignal
     \/ process' = "dying" /\ asks' = {} /\ ScheduleRestart
        /\ UNCHANGED <<panel, turning, history>>

ProcessEnds == process = "dying" /\ FinishedSignal /\ UNCHANGED chatBounds

RestartTimer ==
  /\ timer
  /\ IF process # "none"
     THEN timer' = FALSE /\ UNCHANGED <<running, left, state, supervise, process, asks, chatBounds>>
     ELSE \/ Launch /\ UNCHANGED <<running, left, chatBounds>>
          \/ Unavailable /\ ChatFault /\ running' = FALSE /\ left' = (queue # <<>>)
  /\ UNCHANGED <<product, card, executing, threading, turning, over>>

InitializeAnswered ==
  /\ "initialize" \in asks
  /\ asks' = (asks \ {"initialize"}) \cup {"thread"}
  /\ UNCHANGED <<panel, state, supervise, timer, process, threading, turning, history, chatBounds>>

ThreadAnswered ==
  /\ asks = {"thread"} /\ asks' = {}
  /\ thread' = cwd /\ state' = "ready"
  /\ StartNextTurn("ready", cwd, queue, turns, inFlight)
  /\ UNCHANGED <<panel, supervise, timer, process, cwd, turnId, history, chatBounds>>

-----------------------------------------------------------------------------
(* Turns.                                                                  *)
Become(t, phase) == (turns \ {t}) \cup {[t EXCEPT !.phase = phase]}

TurnAnswered(t) ==
  /\ t.phase = "sent" /\ turns' = Become(t, "live")
  /\ IF t.prompt = turnAsk THEN turnId' = t.prompt /\ state' = "running"
     ELSE UNCHANGED <<turnId, state>>
  /\ UNCHANGED <<panel, supervise, timer, process, asks, cwd, thread, turnAsk, inFlight, queue, sent,
                 history, chatBounds>>

TurnRefused(t) ==
  /\ t.phase = "sent" /\ ChatFault /\ turns' = turns \ {t}
  /\ IF t.prompt = turnAsk THEN inFlight' = FALSE /\ running' = FALSE
     ELSE UNCHANGED <<inFlight, running>>
  /\ UNCHANGED <<product, card, executing, supervision, threading, turnAsk, queue, sent, history>>

TurnCompleted(t) ==
  /\ t.phase \in {"live", "interrupted"}
  /\ turnId' = 0 /\ state' = "ready" /\ running' = FALSE
  /\ StartNextTurn("ready", thread, queue, turns \ {t}, FALSE)
  /\ UNCHANGED <<product, card, executing, supervise, timer, process, asks, cwd, thread, history,
                 chatBounds>>

(* Text of a turn shows the run as going on.                               *)
TurnSpeaks(t) ==
  /\ t.phase = "live" /\ ~running /\ running' = TRUE
  /\ UNCHANGED <<product, card, executing, supervision, threading, turning, history, chatBounds>>

(* A mutating tool: the card takes the place of an earlier one.            *)
ToolCall(t) ==
  /\ t.phase = "live" /\ tools < MaxTools /\ tools' = tools + 1
  /\ turns' = Become(t, "asking") /\ card' = Proposal(t.prompt)
  /\ UNCHANGED <<product, running, executing, supervision, threading, turnAsk, inFlight, queue, sent,
                 history, prompts, productChanges, newChats, chatFaults>>

(* completeToolCall: an answer to a call that is forgotten is dropped.     *)
ToolAnswered(p) ==
  turns' = {IF t.prompt = p /\ t.phase = "asking" THEN [t EXCEPT !.phase = "live"] ELSE t : t \in turns}

Reject ==
  /\ card # NoTool /\ card' = NoTool /\ ToolAnswered(card.prompt)
  /\ UNCHANGED <<product, running, executing, supervision, threading, turnAsk, inFlight, queue, sent,
                 history, chatBounds>>

(* executeApprovedCodexTool takes the token, lets Qt process its events,   *)
(* and then executes the tool, which may open another document.            *)
Approve ==
  /\ card # NoTool /\ executing = NoTool /\ card' = NoTool
  /\ executing' = [card EXCEPT !.phase = "taken"]
  /\ UNCHANGED <<product, running, supervision, threading, turning, history, chatBounds>>

BeginTool ==
  /\ executing.phase = "taken" /\ executing' = [executing EXCEPT !.phase = "active"]
  /\ UNCHANGED <<product, running, card, supervision, threading, turning, history, chatBounds>>

EndTool ==
  /\ executing.phase = "active" /\ executing' = NoTool
  /\ \/ /\ ToolAnswered(executing.prompt)
        /\ UNCHANGED <<product, running, card, supervision, threading, turnAsk, inFlight, queue, sent,
                       history, chatBounds>>
     \/ \E q \in Product : SwitchTo(q)

-----------------------------------------------------------------------------
ChatNext ==
  \/ Send \/ Stop \/ NewChat
  \/ \E q \in Product : ChangeProduct(q)
  \/ Started \/ FailedToStart \/ Dies \/ ProtocolError \/ ProcessEnds \/ RestartTimer
  \/ InitializeAnswered \/ ThreadAnswered
  \/ \E t \in turns :
       TurnAnswered(t) \/ TurnRefused(t) \/ TurnCompleted(t) \/ TurnSpeaks(t) \/ ToolCall(t)
  \/ Reject \/ Approve \/ BeginTool \/ EndTool

ChatSpec == ChatInit /\ [][ChatNext]_chatVars

-----------------------------------------------------------------------------
ChatTypeOK ==
  /\ product \in Product /\ cwd \in Product /\ thread \in Product \cup {NoProduct}
  /\ {running, supervise, timer, inFlight, left} \subseteq BOOLEAN
  /\ {card, executing} \subseteq
       [prompt : 0..MaxPrompts, product : Product \cup {NoProduct},
        phase : {"none", "card", "taken", "active"}]
  /\ state \in {"stopped", "starting", "initializing", "ready", "running", "failed"}
  /\ process \in {"none", "starting", "alive", "dying"}
  /\ asks \subseteq {"initialize", "thread"} /\ (asks # {} => process = "alive")
  /\ {turnId, turnAsk, over} \subseteq 0..MaxPrompts /\ queue \in Seq(1..MaxPrompts)
  /\ turns \subseteq [prompt : 1..MaxPrompts, dir : Product,
                      phase : {"sent", "live", "asking", "interrupted"}]
  /\ turns # {} => process \in {"alive", "dying"}
  /\ sent \in Seq([prompt : 1..MaxPrompts, over : 0..MaxPrompts])

(* "Never replay an in-flight mutating turn automatically" and "do not     *)
(* leave a prompt queued for the next start" (CodexAppServerClient.cpp):   *)
(* prompts reach the server in their order, each once, and none of them    *)
(* after a stop that followed it.                                          *)
SentOnce ==
  /\ \A i, j \in DOMAIN sent : i < j => sent[i].prompt < sent[j].prompt
  /\ \A i \in DOMAIN sent : sent[i].prompt > sent[i].over

(* A turn works on the product that is open.                               *)
RightProduct == \A t \in turns : t.dir = product

(* Whatever the server works on, the panel shows it as running, so that    *)
(* the user can stop it, and it is one turn; but for prompts that were     *)
(* left over when a restart found no executable.                           *)
Stoppable == ~left => Cardinality(turns) <= 1 /\ (turns # {} => running)

ChatSound == SentOnce /\ RightProduct /\ Stoppable

(* "Force a clean lazy restart when the active product changes"            *)
(* (DesignChatPanel.cpp): a run that the panel shows has a client.         *)
RunHasClient == running => supervise

(* A run comes to an end, or its client has been stopped without it.       *)
RunsEnd == running ~> (~running \/ ~supervise)
=============================================================================
