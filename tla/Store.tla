------------------------------- MODULE Store -------------------------------
(***************************************************************************)
(* How designstudio-agentd keeps a workspace: the state in memory, the     *)
(* recovery index .designstudio/state.json, the audit log events.jsonl and *)
(* the immutable configuration snapshots, from the creation of the         *)
(* workspace on.                                                           *)
(*                                                                         *)
(* A change is an element of Change.  What the state says is abstracted to *)
(* the set of changes it holds, since every handler inserts or replaces a  *)
(* record and persist writes the whole state.  Each file operation is a    *)
(* step, may fail, and the process may die between any two of them.        *)
(***************************************************************************)
EXTENDS Naturals, Sequences

CONSTANTS
  MaxChange,   \* bound on the number of changes requested
  MaxBoards,   \* bound on the configurations created by one request
  MaxOpenRev,  \* bound on the revision at which the workspace is still opened again
  MaxStoreFaults    \* bound on failed operations and crashes

ASSUME StoreBounds ==
  /\ MaxChange \in Nat /\ MaxBoards \in Nat \ {0}
  /\ MaxOpenRev \in Nat /\ MaxStoreFaults \in Nat

Change == 1..MaxChange

VARIABLES
  made,      \* how many parts of the workspace directory exist
  live,      \* a daemon has the workspace open
  memory,    \* [rev, has] : the state in memory
  index,     \* [rev, has] : state.json
  log,       \* events.jsonl, a sequence of appended chunks
  snaps,     \* changes whose configuration snapshot is complete on disk
  pc,        \* the next file operation of the request being served
  req,       \* [todo, done] : configurations left and changes made by it
  issued,    \* changes requested so far
  confs,     \* those that are configurations
  acked,     \* changes whose request was answered with a result
  toldRevs,  \* sequence numbers whose request was answered with a result
  storeFaults

storeVars ==
  <<made, live, memory, index, log, snaps, pc, req, issued, confs, acked, toldRevs, storeFaults>>

LayoutManifestEarly ==  \* mutant: the manifest is written before the baseline
  <<"directories", "graph", "manifest", "baseline">>
Layout == <<"directories", "graph", "baseline", "manifest">>
Files == {Layout[i] : i \in 1..made}
Openable == "manifest" \in Files

(* An appended chunk: a whole line, a line without its end, or a part of a *)
(* line.                                                                   *)
ChunkKind == {"whole", "bare", "torn"}

Empty == [rev |-> 0, has |-> {}]
NoReq == [todo |-> 0, done |-> {}]

StoreInit ==
  /\ made = 0
  /\ live = FALSE
  /\ memory = Empty /\ index = Empty
  /\ log = <<>>
  /\ snaps = {}
  /\ pc = "idle" /\ req = NoReq
  /\ issued = 0 /\ confs = {}
  /\ acked = {} /\ toldRevs = {}
  /\ storeFaults = 0

Idle == pc = "idle"
StoreFail == storeFaults < MaxStoreFaults /\ storeFaults' = storeFaults + 1
Answer == pc' = "idle" /\ req' = NoReq

-----------------------------------------------------------------------------
(* project/create makes the directories, then the files one by one, the    *)
(* manifest last; a failure removes what was made.                         *)
CreateWorkspace ==
  /\ Idle /\ made = 0
  /\ made' = 1
  /\ pc' = "create"
  /\ UNCHANGED <<live, memory, index, log, snaps, req, issued, confs, acked, toldRevs, storeFaults>>

CreateFile ==
  /\ pc = "create"
  /\ \/ /\ made' = made + 1
        /\ pc' = IF made + 1 = Len(Layout) THEN "idle" ELSE pc
        /\ UNCHANGED storeFaults
     \/ /\ StoreFail
        /\ made' = 0
        /\ pc' = "idle"
  /\ UNCHANGED <<live, memory, index, log, snaps, req, issued, confs, acked, toldRevs>>

(* project/open takes the state from state.json alone, then persists it.   *)
ReloadedEmpty == Empty                        \* mutant: the index is not read
ReloadedAnswered ==  \* mutant: what no caller was told of is dropped
  [index EXCEPT !.has = @ \cap acked]
ReloadedRevision == [index EXCEPT !.rev = 0]   \* mutant: revisions start over
Reloaded == index

OpenStore ==
  /\ Idle /\ Openable /\ index.rev < MaxOpenRev
  /\ live' = TRUE
  /\ memory' = Reloaded
  /\ pc' = "state"
  /\ UNCHANGED <<made, index, log, snaps, req, issued, confs, acked, toldRevs, storeFaults>>

Inserted(c) == [memory EXCEPT !.has = @ \cup {c}]

(* A handler that changes a record in memory and persists it.              *)
UpdateRecord ==
  /\ Idle /\ live /\ issued < MaxChange
  /\ issued' = issued + 1
  /\ memory' = Inserted(issued + 1)
  /\ req' = [todo |-> 0, done |-> {issued + 1}]
  /\ pc' = "state"
  /\ UNCHANGED <<made, live, index, log, snaps, confs, acked, toldRevs, storeFaults>>

(* A handler that creates configurations: one for equip, save and commit,  *)
(* one per board for application/apply.                                    *)
Configure(boards) ==
  /\ Idle /\ live /\ issued + boards <= MaxChange
  /\ req' = [todo |-> boards, done |-> {}]
  /\ pc' = "snapshot"
  /\ UNCHANGED <<made, live, memory, index, log, snaps, issued, confs, acked, toldRevs, storeFaults>>

(* write_configuration, then the insertion into the state in memory, which *)
(* does not happen when the snapshot fails.                                *)
InsertedAnyway(c) == Inserted(c)  \* mutant: the insertion comes first
WithoutSnapshot(c) == memory

Snapshot ==
  /\ pc = "snapshot"
  /\ issued' = issued + 1
  /\ confs' = confs \cup {issued + 1}
  /\ \/ /\ snaps' = snaps \cup {issued + 1}
        /\ memory' = Inserted(issued + 1)
        /\ req' = [todo |-> req.todo - 1, done |-> req.done \cup {issued + 1}]
        /\ pc' = "state"
        /\ UNCHANGED storeFaults
     \/ /\ StoreFail
        /\ snaps' \in {snaps, snaps \cup {issued + 1}}
        /\ Answer
        /\ memory' = WithoutSnapshot(issued + 1)
  /\ UNCHANGED <<made, live, index, log, acked, toldRevs>>

(* persist, first half: bump the revision, replace state.json.             *)
Bumped == [memory EXCEPT !.rev = @ + 1]

WriteState ==
  /\ pc = "state"
  /\ memory' = Bumped
  /\ \/ index' = Bumped /\ pc' = "log" /\ UNCHANGED <<req, storeFaults>>
     \/ StoreFail /\ index' = index /\ Answer
  /\ UNCHANGED <<made, live, log, snaps, issued, confs, acked, toldRevs>>

(* persist, second half: append the event; then the next configuration of  *)
(* the request, or the answer.                                             *)
ChunkNext(kind) == [seq |-> memory.rev + 1, kind |-> kind]  \* mutant: numbered one too far
Chunk(kind) == [seq |-> memory.rev, kind |-> kind]

MoreAlways == req.todo >= 0  \* mutant: off by one
More == req.todo > 0

AppendLog ==
  /\ pc = "log"
  /\ \/ /\ log' = Append(log, Chunk("whole"))
        /\ IF More
           THEN pc' = "snapshot" /\ UNCHANGED <<req, acked, toldRevs>>
           ELSE /\ Answer
                /\ acked' = acked \cup req.done
                /\ toldRevs' = toldRevs \cup {memory.rev}
        /\ UNCHANGED storeFaults
     \/ /\ StoreFail
        /\ log' \in {log} \cup {Append(log, Chunk(kind)) : kind \in ChunkKind}
        /\ Answer
        /\ UNCHANGED <<acked, toldRevs>>
  /\ UNCHANGED <<made, live, memory, index, snaps, issued, confs>>

(* The process dies; what it was writing may be there in part.             *)
StoreCrash ==
  /\ live \/ pc = "create"
  /\ StoreFail
  /\ live' = FALSE
  /\ memory' = Empty
  /\ Answer
  /\ log' \in {log} \cup (IF pc = "log" THEN {Append(log, Chunk(kind)) : kind \in ChunkKind} ELSE {})
  /\ UNCHANGED <<made, index, snaps, issued, confs, acked, toldRevs>>

StoreNext ==
  \/ CreateWorkspace \/ CreateFile \/ OpenStore
  \/ UpdateRecord \/ (\E boards \in 1..MaxBoards : Configure(boards))
  \/ Snapshot \/ WriteState \/ AppendLog \/ StoreCrash

StoreSpec == StoreInit /\ [][StoreNext]_storeVars

-----------------------------------------------------------------------------
IndexOK(s) == s \in [rev : Nat, has : SUBSET Change]

(* Every variable holds a value of its type.                               *)
StoreTypeOK ==
  /\ made \in 0..4
  /\ live \in BOOLEAN
  /\ IndexOK(memory) /\ IndexOK(index)
  /\ log \in Seq([seq : Nat, kind : ChunkKind])
  /\ snaps \subseteq Change
  /\ pc \in {"idle", "create", "snapshot", "state", "log"}
  /\ req \in [todo : 0..MaxBoards, done : SUBSET Change]
  /\ issued \in 0..MaxChange /\ confs \subseteq Change
  /\ acked \subseteq Change /\ toldRevs \subseteq Nat
  /\ storeFaults \in 0..MaxStoreFaults

(* A change that was answered is in state.json, and stays there whatever   *)
(* fails afterwards.                                                       *)
AckedDurable == acked \subseteq index.has

(* The recovery index only ever gains changes: no crash, failed write or   *)
(* reopening takes one back.                                               *)
NothingForgotten == [][index.has \subseteq index'.has]_storeVars

(* events.jsonl: sequence numbers strictly increase and never run ahead of *)
(* the state they describe, although revisions are skipped by failed       *)
(* writes and reloaded after crashes.                                      *)
LogOrdered ==
  /\ \A i, j \in 1..Len(log) : i < j => log[i].seq < log[j].seq
  /\ \A i \in 1..Len(log) : log[i].seq <= index.rev

(* The event of every answered request was appended whole.                 *)
AnsweredLogged ==
  \A s \in toldRevs : \E i \in 1..Len(log) : log[i] = [seq |-> s, kind |-> "whole"]

(* The trail: every answered request has its event, in its place.          *)
TrailTells == LogOrdered /\ AnsweredLogged

(* Every configuration that the index or the memory refers to has its      *)
(* complete, immutable snapshot.                                           *)
SnapshotsBehindIndex == confs \cap (memory.has \cup index.has) \subseteq snaps

(* A workspace that can be opened has its graph and baseline, although its *)
(* files are created one by one.                                           *)
ManifestLast == Openable => {"directories", "graph", "baseline"} \subseteq Files
(* Whatever is referred to is there: by the index, the memory, or the      *)
(* manifest that makes the workspace one.                                  *)
ReferencesResolve == SnapshotsBehindIndex /\ ManifestLast
=============================================================================
