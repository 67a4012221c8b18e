----------------------------- MODULE Services -----------------------------
(* The services that queue and retry work, side by side and on small       *)
(* instances.  They share no state, so a behaviour is one of a single      *)
(* service, chosen at the start.                                           *)
EXTENDS TaskQueue, Harness, SupportJobs, GenerationService, CodexChat

CONSTANTS
  ann, bob   \* agents of the task queue

VARIABLE service

serviceVars == <<service, queueVars, harnessVars, supportVars, generationVars, chatVars>>

\* Three tasks: the second waits for the first, and bob can only do documents.
MCBlocker == <<0, 1, 0>>
MCPriority == <<5, 5, 1>>
MCKind == <<"cpp", "docs", "docs">>
MCCapable == [a \in Agent |-> IF a = ann THEN {"cpp", "docs"} ELSE {"docs"}]

Init ==
  /\ service \in {"queue", "harness", "support", "generation", "chat"}
  /\ QueueInit /\ HarnessInit /\ SupportInit /\ GenerationInit /\ ChatInit
  /\ service # "support" => file = CHOOSE s \in Specification : TRUE
  /\ service # "chat" => product = CHOOSE p \in Product : TRUE

Is(name) == service = name

(* A step of the chosen service; nothing of the others changes.            *)
Keep(others) == UNCHANGED <<service, others>>

Next ==
  \/ Is("queue") /\ QueueNext
     /\ Keep(<<harnessVars, supportVars, generationVars, chatVars>>)
  \/ Is("harness") /\ HarnessNext
     /\ Keep(<<queueVars, supportVars, generationVars, chatVars>>)
  \/ Is("support") /\ SupportNext
     /\ Keep(<<queueVars, harnessVars, generationVars, chatVars>>)
  \/ Is("generation") /\ GenerationNext
     /\ Keep(<<queueVars, harnessVars, supportVars, chatVars>>)
  \/ Is("chat") /\ ChatNext
     /\ Keep(<<queueVars, harnessVars, supportVars, generationVars>>)

(* The fairness of the service that was chosen.                            *)
Fairness ==
  /\ WF_queueVars(Is("queue") /\ PushEvent)
  /\ \A t \in Task : WF_queueVars(Is("queue") /\ BackoffEnds(t))
  /\ \A a \in Agent :
       /\ WF_queueVars(Is("queue") /\ Claim(a))
       /\ WF_queueVars(Is("queue") /\ (Complete(a) \/ FailTask(a)))
  /\ WF_harnessVars(Is("harness") /\ (RunStep \/ Checkpoint))
  /\ WF_supportVars(Is("support") /\ (CreateJob \/ Fetch \/ BuildStructure))
  /\ WF_supportVars(Is("support") /\ TimedOut)
  /\ \A j \in Job :
       /\ WF_generationVars(Is("generation") /\ JobWork(j))
       /\ WF_generationVars(Is("generation") /\ Handle(j))
       /\ WF_generationVars(Is("generation") /\ RecoverJobs(j))
  /\ WF_generationVars(Is("generation") /\ Serve)
  /\ WF_chatVars(Is("chat") /\ (Started \/ ProcessEnds))
  /\ WF_chatVars(Is("chat") /\ RestartTimer)
  /\ WF_chatVars(Is("chat") /\ (InitializeAnswered \/ ThreadAnswered))
  /\ WF_chatVars(Is("chat") /\ \E t \in turns : TurnAnswered(t))
  /\ WF_chatVars(Is("chat") /\ \E t \in turns : TurnCompleted(t))
  /\ WF_chatVars(Is("chat") /\ (Approve \/ Reject))
  /\ WF_chatVars(Is("chat") /\ (BeginTool \/ EndTool))

Spec == Init /\ [][Next]_serviceVars /\ Fairness

-----------------------------------------------------------------------------
(* Every service keeps its types.                                          *)
TypeOK ==
  /\ QueueTypeOK /\ HarnessTypeOK /\ SupportTypeOK /\ GenerationTypeOK /\ ChatTypeOK

(* What no step of a service does: bring back a failed task or a support   *)
(* job that has ended, whoever reports late, or build a structure for      *)
(* another specification than the file's.                                  *)
StepsSound == FailedForever /\ TerminalStays /\ BuiltForFile

(* What a job service hands out is whole and of the request it is handed   *)
(* out for: results of support jobs, and of generation jobs.               *)
HandedOutSound == ResultsSound /\ JobsSound

(* Whatever was handed to a service comes to its end: tasks of the queue,  *)
(* builds, submissions of the desktop, generation jobs, prompts.           *)
WorkEnds == TasksEnd /\ RunEnds /\ SubmissionEnds /\ JobsEnd /\ RunsEnd
=============================================================================
