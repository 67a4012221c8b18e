------------------------------ MODULE Release ------------------------------
(***************************************************************************)
(* Evidence and release in designstudio-agentd: the records the daemon     *)
(* holds come from the evidence directories at project/open and from       *)
(* propagation/run; release/evaluate decides on the newest record of each  *)
(* required gate.                                                          *)
(*                                                                         *)
(* A record keeps its configuration, gate, status and time stamp.  The     *)
(* slots' required gates and the equipped variants are those of one        *)
(* product graph, none of whose variants has open gates of its own.        *)
(***************************************************************************)
EXTENDS Naturals, FiniteSets, SequencesExt

CONSTANTS
  Configuration, Committed,  \* configurations, and those that are committed
  GateOrder,   \* the gates of propagation/run, in the order it evaluates them
  Required,    \* the gates the equipped slots require
  Result,      \* what a run may make of a gate, of RunResult
  MaxFiles, MaxRuns, MaxTime,  \* bounds on filed records, runs and time
  MaxReleaseFaults  \* bound on failed writes and crashes

Gate == {GateOrder[i] : i \in DOMAIN GateOrder} \cup Required
Status == {"pass", "fail", "incomplete", "not_applicable"}

(* What evaluate_propagation_gate makes of a gate's input: a status, or a  *)
(* malformed input, which fails the request.                               *)
Malformed == "malformed"
RunResult == Status \cup {Malformed}

ASSUME ReleaseConstants ==
  /\ Committed \subseteq Configuration
  /\ GateOrder \in Seq(Required \cup {GateOrder[i] : i \in DOMAIN GateOrder})
  /\ \A i, j \in DOMAIN GateOrder : GateOrder[i] = GateOrder[j] => i = j
  /\ Result \subseteq RunResult
  /\ {MaxFiles, MaxRuns, MaxTime, MaxReleaseFaults} \subseteq Nat

VARIABLES
  serving,  \* a daemon has the workspace open
  now,      \* the clock, which does not run backwards
  files,    \* records in the evidence directories
  held,     \* records the daemon holds, in order
  verdict,  \* the answer of the last step, if it was a release/evaluate
  word,     \* the last status the daemon put in held for a gate, since opening
  told,     \* the last status a run was answered with, unless one was filed since
  runs, releaseFaults

releaseVars == <<serving, now, files, held, verdict, word, told, runs, releaseFaults>>

Record == [config : Configuration, gate : Gate, status : Status, time : 0..MaxTime]
Unknown == "unknown"
NoVerdict == [config |-> Unknown, status |-> Unknown]
Words == [Configuration -> [Gate -> Status \cup {Unknown}]]
Silence == [c \in Configuration |-> [g \in Gate |-> Unknown]]

ReleaseInit ==
  /\ serving = FALSE /\ now = 0
  /\ files = {} /\ held = <<>>
  /\ verdict = NoVerdict
  /\ word = Silence /\ told = Silence
  /\ runs = 0 /\ releaseFaults = 0

ReleaseFault == releaseFaults < MaxReleaseFaults /\ releaseFaults' = releaseFaults + 1
Tick == now' \in {now, now + 1} /\ now' <= MaxTime

-----------------------------------------------------------------------------
(* An adapter or a person files a record; the daemon sees it at the next   *)
(* opening.                                                                *)
File(c, g, status) ==
  /\ \A r \in files : r.config = c /\ r.gate = g => r.time < now
  /\ Cardinality(files) < MaxFiles
  /\ files' = files \cup {[config |-> c, gate |-> g, status |-> status, time |-> now]}
  /\ told' = [told EXCEPT ![c][g] = Unknown]
  /\ Tick
  /\ verdict' = NoVerdict
  /\ UNCHANGED <<serving, held, word, runs, releaseFaults>>

(* project/open: what the daemon held is replaced by what load_evidence    *)
(* finds, in the order of the directory.                                   *)
OpenEvidence ==
  /\ ~serving
  /\ serving' = TRUE
  /\ held' \in SetToSeqs(files)
  /\ word' = Silence
  /\ verdict' = NoVerdict
  /\ UNCHANGED <<now, files, told, runs, releaseFaults>>

(* propagation/run: one record per gate, put in the state as soon as the   *)
(* gate is evaluated; a malformed input ends the request there.            *)
ReachedToo(results) ==  \* mutant: a record for the malformed gate as well
  {i \in DOMAIN GateOrder : \A j \in 1..(i - 1) : results[j] # Malformed}
Reached(results) ==
  {i \in DOMAIN GateOrder : \A j \in 1..i : results[j] # Malformed}
Records(c, results) ==
  [i \in Reached(results) |->
    [config |-> c, gate |-> GateOrder[i], status |-> results[i], time |-> now]]

RecordedEarlier(c, results) ==  \* mutant: the new records go before the older ones
  Records(c, results) \o held
Recorded(c, results) == held \o Records(c, results)

Said(words, c, results) ==
  [words EXCEPT ![c] = [g \in Gate |->
    IF \E i \in Reached(results) : GateOrder[i] = g
    THEN results[CHOOSE i \in Reached(results) : GateOrder[i] = g] ELSE @[g]]]

Answered(results) == Reached(results) = DOMAIN GateOrder

Run(c, results) ==
  /\ serving /\ runs < MaxRuns
  /\ runs' = runs + 1
  /\ held' = Recorded(c, results)
  /\ word' = Said(word, c, results)
  /\ \/ Answered(results) /\ told' = Said(told, c, results) /\ UNCHANGED releaseFaults
     \/ UNCHANGED <<told, releaseFaults>>  \* a malformed gate or malformed scores
     \/ ReleaseFault /\ UNCHANGED told
  /\ Tick
  /\ verdict' = NoVerdict
  /\ UNCHANGED <<serving, files>>

-----------------------------------------------------------------------------
(* release/evaluate.  Of several newest records the last one counts.       *)
About(c, g) == {i \in DOMAIN held : held[i].config = c /\ held[i].gate = g}

LatestOfAny(c, g) ==  \* mutant: the records of all configurations
  CHOOSE i \in UNION {About(d, g) : d \in Configuration} :
    \A j \in UNION {About(d, g) : d \in Configuration} :
      held[j].time < held[i].time \/ (held[j].time = held[i].time /\ j <= i)
Latest(c, g) ==
  CHOOSE i \in About(c, g) : \A j \in About(c, g) :
    held[j].time < held[i].time \/ (held[j].time = held[i].time /\ j <= i)

Satisfied(c, g) == About(c, g) # {} /\ held[Latest(c, g)].status = "pass"

Evaluate(c) ==
  /\ serving
  /\ verdict' = [config |-> c,
                 status |-> IF c \in Committed /\ \A g \in Required : Satisfied(c, g)
                            THEN "ready" ELSE "blocked"]
  /\ UNCHANGED <<serving, now, files, held, word, told, runs, releaseFaults>>

DaemonDies ==
  /\ serving /\ ReleaseFault
  /\ serving' = FALSE
  /\ held' = <<>>
  /\ word' = Silence
  /\ verdict' = NoVerdict
  /\ UNCHANGED <<now, files, told, runs>>

ReleaseNext ==
  \/ OpenEvidence \/ DaemonDies
  \/ \E c \in Configuration :
       \/ \E g \in Gate, status \in Status \cap Result : File(c, g, status)
       \/ \E results \in [DOMAIN GateOrder -> Result] : Run(c, results)
       \/ Evaluate(c)

ReleaseSpec == ReleaseInit /\ [][ReleaseNext]_releaseVars

-----------------------------------------------------------------------------
(* Every variable holds a value of its type.                               *)
ReleaseTypeOK ==
  /\ serving \in BOOLEAN /\ now \in 0..MaxTime
  /\ files \subseteq Record
  /\ held \in Seq(Record)
  /\ verdict \in [config : Configuration \cup {Unknown},
                  status : {"ready", "blocked", Unknown}]
  /\ word \in Words /\ told \in Words
  /\ runs \in 0..MaxRuns /\ releaseFaults \in 0..MaxReleaseFaults

(* Time stamps order the records as the runs did: since the opening, the   *)
(* last run to reach a required gate decides it, whatever was filed before *)
(* and for whichever configuration others ran.                             *)
LastRunDecides ==
  LET c == verdict.config
      known == {g \in Required : word[c][g] # Unknown}
  IN  verdict # NoVerdict =>
        /\ verdict.status = "ready" => \A g \in known : word[c][g] = "pass"
        /\ (verdict.status = "blocked" /\ c \in Committed) =>
             (known = Required => \E g \in Required : word[c][g] # "pass")

(* A configuration is ready only when some record, filed or of a run,      *)
(* passes each of its required gates: "Missing evidence is never           *)
(* interpreted as a pass."                                                 *)
ReadyHasEvidence ==
  verdict.status = "ready" =>
    /\ verdict.config \in Committed
    /\ \A g \in Required : \E i \in DOMAIN held :
         held[i].config = verdict.config /\ held[i].gate = g /\ held[i].status = "pass"

(* Both: a verdict follows from the evidence, and from the newest of it.   *)
VerdictsSound == LastRunDecides /\ ReadyHasEvidence

(* "A committed configuration is blocked when any evidence required by its *)
(* slots is missing, failed, or incomplete", as the last run that was      *)
(* answered reported it.                                                   *)
ReadyOnReported ==
  verdict.status = "ready" =>
    \A g \in Required : told[verdict.config][g] \in {"pass", Unknown}
=============================================================================
