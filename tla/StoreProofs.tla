---------------------------- MODULE StoreProofs ----------------------------
(***************************************************************************)
(* The durability of the workspace store for any number of changes, boards *)
(* per request, faults and reopenings.                                     *)
(*                                                                         *)
(* The argument.  While a daemon is up the state in memory holds at least  *)
(* what state.json holds and is at least as recent (Behind); between the   *)
(* two halves of persist both are equal and no event has their revision    *)
(* yet (Appending).  So replacing the file loses nothing, and the number   *)
(* that is appended next is new.                                           *)
(***************************************************************************)
EXTENDS Store, TLAPS

Serving == {"snapshot", "state", "log"}

Behind == live => index.has \subseteq memory.has /\ index.rev <= memory.rev

Appending ==
  pc = "log" => memory = index /\ \A i \in 1..Len(log) : log[i].seq < index.rev

Request ==
  /\ pc \in Serving => live
  /\ pc \in Serving => req.done \subseteq memory.has
  /\ pc = "snapshot" => req.todo > 0 /\ issued + req.todo <= MaxChange
  /\ (pc \in {"state", "log"} /\ req.todo > 0) => issued + req.todo <= MaxChange
  /\ pc = "create" => made < 4 /\ ~live
  /\ live => made = 4
  /\ pc \in {"idle", "create"} => req = NoReq

Fresh == \A c \in Change : c \in confs \cup memory.has \cup index.has => c <= issued

StoreInv ==
  /\ StoreTypeOK /\ Behind /\ Appending /\ Request /\ Fresh
  /\ AckedDurable /\ LogOrdered /\ AnsweredLogged /\ SnapshotsBehindIndex

USE StoreBounds DEF Change

LEMMA NoReqTyped == NoReq \in [todo : 0..MaxBoards, done : SUBSET Change]
BY DEF NoReq

LEMMA InitHolds == ASSUME StoreInit PROVE StoreInv
<1>1. /\ made = 0 /\ live = FALSE /\ pc = "idle" /\ log = <<>> /\ storeFaults = 0 /\ issued = 0
      /\ memory = [rev |-> 0, has |-> {}] /\ index = memory /\ req = [todo |-> 0, done |-> {}]
      /\ snaps = {} /\ confs = {} /\ acked = {} /\ toldRevs = {}
  BY DEF StoreInit, Empty, NoReq
<1>2. StoreTypeOK
  <2>1. IndexOK(memory) /\ IndexOK(index)
    BY <1>1 DEF IndexOK
  <2>2. log \in Seq([seq : Nat, kind : ChunkKind])
    BY <1>1
  <2>3. live \in BOOLEAN
    BY <1>1
  <2> QED
    BY <1>1, <2>1, <2>2, <2>3 DEF StoreTypeOK
<1>3. Behind /\ Appending /\ Request /\ Fresh
  BY <1>1 DEF Behind, Appending, Request, Serving, NoReq, Fresh
<1>4. AckedDurable /\ LogOrdered /\ AnsweredLogged /\ SnapshotsBehindIndex
  BY <1>1 DEF AckedDurable, LogOrdered, AnsweredLogged, SnapshotsBehindIndex
<1> QED
  BY <1>2, <1>3, <1>4 DEF StoreInv

(* The elements of a sequence over a set belong to the set.                *)
LEMMA ElementTyped ==
  ASSUME NEW S, NEW s \in Seq(S) PROVE \A i \in 1..Len(s) : s[i] \in S
OBVIOUS

(* Steps that touch neither the log nor state.json.                        *)
Quiet == index' = index /\ log' = log /\ acked' = acked /\ toldRevs' = toldRevs

LEMMA QuietKeeps ==
  ASSUME StoreInv, Quiet PROVE AckedDurable' /\ LogOrdered' /\ AnsweredLogged'
BY DEF StoreInv, Quiet, AckedDurable, LogOrdered, AnsweredLogged

LEMMA CreateStep == ASSUME StoreInv, CreateWorkspace \/ CreateFile PROVE StoreInv'
<1>1. /\ UNCHANGED <<live, memory, index, log, snaps, req, issued, confs, acked, toldRevs>>
      /\ pc \in {"idle", "create"} /\ pc' \in {"create", "idle"} /\ ~live
  BY DEF StoreInv, Request, CreateWorkspace, CreateFile, Idle
<1>2. made' \in 0..4 /\ (pc' = "create" => made' < 4) /\ storeFaults' \in 0..MaxStoreFaults
  BY DEF StoreInv, StoreTypeOK, Request, CreateWorkspace, CreateFile, Layout, StoreFail
<1>3. StoreTypeOK'
  BY <1>1, <1>2 DEF StoreInv, StoreTypeOK, IndexOK
<1>4. Quiet
  BY <1>1 DEF Quiet
<1>5. Behind' /\ Appending' /\ SnapshotsBehindIndex'
  BY <1>1 DEF StoreInv, Behind, Appending, SnapshotsBehindIndex
<1>8. Fresh'
  BY DEF StoreInv, Fresh, CreateWorkspace, CreateFile
<1>6. req = NoReq
  BY <1>1 DEF StoreInv, Request
<1>7. Request'
  BY <1>1, <1>2, <1>6 DEF Request, Serving, NoReq
<1> QED
  BY <1>3, <1>4, <1>5, <1>7, <1>8, QuietKeeps DEF StoreInv

LEMMA OpenStep == ASSUME StoreInv, OpenStore PROVE StoreInv'
<1>1. made = 4
  BY DEF OpenStore, Idle, Openable, Files, Layout, StoreInv, StoreTypeOK
<1>2. StoreTypeOK'
  BY DEF StoreInv, StoreTypeOK, IndexOK, OpenStore, Reloaded
<1>3. Quiet
  BY DEF OpenStore, Quiet
<1>4. req.done = {} /\ req.todo = 0
  BY DEF StoreInv, Request, OpenStore, Idle, NoReq
<1>5. Behind' /\ Appending' /\ Request'
  BY <1>1, <1>4 DEF OpenStore, Reloaded, StoreInv, StoreTypeOK, IndexOK, Behind, Appending, Request, Serving
<1>6. SnapshotsBehindIndex'
  BY DEF OpenStore, Reloaded, StoreInv, SnapshotsBehindIndex
<1>7. Fresh'
  BY DEF OpenStore, Reloaded, StoreInv, Fresh
<1> QED
  BY <1>2, <1>3, <1>5, <1>6, <1>7, QuietKeeps DEF StoreInv

LEMMA UpdateStep == ASSUME StoreInv, UpdateRecord PROVE StoreInv'
<1>1. issued + 1 \in Change /\ issued' = issued + 1
  BY DEF StoreInv, StoreTypeOK, UpdateRecord
<1>2. memory' = [memory EXCEPT !.has = @ \cup {issued + 1}]
  BY DEF UpdateRecord, Inserted
<1>3. memory'.rev = memory.rev /\ memory'.has = memory.has \cup {issued + 1} /\ IndexOK(memory)'
  BY <1>1, <1>2 DEF StoreInv, StoreTypeOK, IndexOK
<1>4. StoreTypeOK'
  BY <1>1, <1>3 DEF StoreInv, StoreTypeOK, IndexOK, UpdateRecord
<1>5. Quiet
  BY DEF UpdateRecord, Quiet
<1>6. Behind' /\ Appending' /\ Request'
  BY <1>3 DEF StoreInv, Behind, Appending, Request, Serving, UpdateRecord, Idle
<1>7. SnapshotsBehindIndex'
  <2>1. confs' = confs /\ snaps' = snaps /\ index' = index
    BY DEF UpdateRecord
  <2>2. issued + 1 \notin confs
    BY <1>1 DEF StoreInv, StoreTypeOK, Fresh
  <2> QED
    BY <1>3, <2>1, <2>2 DEF StoreInv, SnapshotsBehindIndex
<1>8. Fresh'
  BY <1>1, <1>3 DEF StoreInv, StoreTypeOK, Fresh, UpdateRecord
<1> QED
  BY <1>4, <1>5, <1>6, <1>7, <1>8, QuietKeeps DEF StoreInv

LEMMA ConfigureStep ==
  ASSUME StoreInv, NEW boards \in 1..MaxBoards, Configure(boards) PROVE StoreInv'
<1>1. StoreTypeOK'
  BY DEF StoreInv, StoreTypeOK, IndexOK, Configure
<1>2. Quiet
  BY DEF Configure, Quiet
<1>3. Behind' /\ Appending' /\ Request' /\ SnapshotsBehindIndex'
  BY DEF StoreInv, StoreTypeOK, Behind, Appending, Request, Serving, SnapshotsBehindIndex, Configure, Idle
<1>4. Fresh'
  BY DEF StoreInv, Fresh, Configure
<1> QED
  BY <1>1, <1>2, <1>3, <1>4, QuietKeeps DEF StoreInv

LEMMA SnapshotStep == ASSUME StoreInv, Snapshot PROVE StoreInv'
<1>1. /\ issued + 1 \in Change /\ issued' = issued + 1 /\ confs' = confs \cup {issued + 1}
      /\ live /\ made = 4 /\ req.todo > 0
      /\ UNCHANGED <<made, live, index, log, acked, toldRevs>>
  BY DEF StoreInv, StoreTypeOK, Request, Serving, Snapshot
<1>2. Quiet
  BY <1>1 DEF Quiet
<1>3. issued + 1 \notin memory.has \cup index.has
  BY <1>1 DEF StoreInv, StoreTypeOK, Fresh
<1>4. CASE snaps' = snaps \cup {issued + 1} /\ memory' = Inserted(issued + 1) /\ UNCHANGED storeFaults
          /\ req' = [todo |-> req.todo - 1, done |-> req.done \cup {issued + 1}] /\ pc' = "state"
  <2>1. memory'.rev = memory.rev /\ memory'.has = memory.has \cup {issued + 1} /\ IndexOK(memory)'
    BY <1>1, <1>4 DEF StoreInv, StoreTypeOK, IndexOK, Inserted
  <2>2. req'.todo = req.todo - 1 /\ req'.done = req.done \cup {issued + 1}
        /\ req' \in [todo : 0..MaxBoards, done : SUBSET Change]
    BY <1>1, <1>4 DEF StoreInv, StoreTypeOK
  <2>3. StoreTypeOK'
    BY <1>1, <1>4, <2>1, <2>2 DEF StoreInv, StoreTypeOK, IndexOK
  <2>4. Behind' /\ Appending'
    BY <1>1, <1>4, <2>1 DEF StoreInv, Behind, Appending
  <2>5. Request'
    BY <1>1, <1>4, <2>1, <2>2 DEF StoreInv, StoreTypeOK, Request, Serving, Snapshot
  <2>6. SnapshotsBehindIndex'
    BY <1>1, <1>4, <2>1 DEF StoreInv, SnapshotsBehindIndex
  <2>7. Fresh'
    BY <1>1, <2>1 DEF StoreInv, StoreTypeOK, Fresh
  <2> QED
    BY <1>2, <2>3, <2>4, <2>5, <2>6, <2>7, QuietKeeps DEF StoreInv
<1>5. CASE StoreFail /\ snaps' \in {snaps, snaps \cup {issued + 1}} /\ Answer
          /\ memory' = WithoutSnapshot(issued + 1)
  <2>1. StoreTypeOK'
    BY <1>1, <1>5 DEF StoreInv, StoreTypeOK, IndexOK, StoreFail, Answer, WithoutSnapshot, NoReq
  <2>2. Behind' /\ Appending' /\ Request'
    BY <1>1, <1>5
    DEF StoreInv, Behind, Appending, Request, Serving, Answer, WithoutSnapshot, NoReq
  <2>3. SnapshotsBehindIndex'
    BY <1>1, <1>3, <1>5 DEF StoreInv, SnapshotsBehindIndex, WithoutSnapshot
  <2>4. Fresh'
    BY <1>1, <1>5 DEF StoreInv, StoreTypeOK, Fresh, WithoutSnapshot
  <2> QED
    BY <1>2, <2>1, <2>2, <2>3, <2>4, QuietKeeps DEF StoreInv
<1> QED
  BY <1>4, <1>5 DEF Snapshot

(* Nothing else changes when the request is answered.                      *)
LEMMA AnswerKeepsRequest ==
  ASSUME StoreInv, Answer, live, UNCHANGED <<made, live, issued>> PROVE Request'
BY DEF StoreInv, Request, Serving, Answer, NoReq

LEMMA WriteStateStep == ASSUME StoreInv, WriteState PROVE StoreInv'
<1>1. /\ live /\ made = 4 /\ memory' = Bumped /\ pc = "state"
      /\ UNCHANGED <<made, live, log, snaps, issued, confs, acked, toldRevs>>
  BY DEF StoreInv, Request, Serving, WriteState
<1>2. memory'.rev = memory.rev + 1 /\ memory'.has = memory.has /\ IndexOK(memory)'
  BY <1>1 DEF StoreInv, StoreTypeOK, IndexOK, Bumped
<1>3. index.has \subseteq memory.has /\ index.rev <= memory.rev /\ index.rev \in Nat /\ memory.rev \in Nat
  BY <1>1 DEF StoreInv, StoreTypeOK, IndexOK, Behind
<1>4. CASE index' = Bumped /\ pc' = "log" /\ UNCHANGED <<req, storeFaults>>
  <2>1. index' = memory'
    BY <1>1, <1>4
  <2>2. StoreTypeOK'
    BY <1>1, <1>2, <1>4, <2>1 DEF StoreInv, StoreTypeOK, IndexOK
  <2>3. Behind' /\ Fresh' /\ SnapshotsBehindIndex'
    BY <1>1, <1>2, <1>3, <2>1 DEF StoreInv, Behind, Fresh, SnapshotsBehindIndex
  <2>4. \A i \in 1..Len(log) : log[i].seq \in Nat /\ log[i].seq <= index.rev
    <3>0. log \in Seq([seq : Nat, kind : ChunkKind])
      BY DEF StoreInv, StoreTypeOK
    <3>1. \A i \in 1..Len(log) : log[i] \in [seq : Nat, kind : ChunkKind]
      BY <3>0, ElementTyped
    <3>2. \A i \in 1..Len(log) : log[i].seq <= index.rev
      BY DEF StoreInv, LogOrdered
    <3>3. \A i \in 1..Len(log) : log[i].seq \in Nat
      BY <3>1
    <3> QED
      BY <3>2, <3>3
  <2>5. Appending' /\ LogOrdered'
    <3>1. \A i \in 1..Len(log) : log[i].seq < index'.rev
      BY <1>2, <1>3, <2>1, <2>4
    <3>2. index'.rev \in Nat
      BY <1>2, <1>3, <2>1
    <3> QED
      BY <1>1, <2>1, <2>4, <3>1, <3>2 DEF StoreInv, Appending, LogOrdered
  <2>6. Request'
    BY <1>1, <1>2, <1>4 DEF StoreInv, Request, Serving
  <2>7. AckedDurable' /\ AnsweredLogged'
    BY <1>1, <1>2, <1>3, <2>1 DEF StoreInv, AckedDurable, AnsweredLogged
  <2> QED
    BY <2>2, <2>3, <2>5, <2>6, <2>7 DEF StoreInv
<1>5. CASE StoreFail /\ index' = index /\ Answer
  <2>1. Quiet
    BY <1>1, <1>5 DEF Quiet
  <2>2. StoreTypeOK'
    BY <1>1, <1>2, <1>5 DEF StoreInv, StoreTypeOK, IndexOK, StoreFail, Answer, NoReq
  <2>3. Request'
    BY <1>1, <1>5, AnswerKeepsRequest
  <2>4. Behind' /\ Appending' /\ Fresh' /\ SnapshotsBehindIndex'
    BY <1>1, <1>2, <1>3, <1>5
    DEF StoreInv, Answer, Behind, Appending, Fresh, SnapshotsBehindIndex
  <2> QED
    BY <2>1, <2>2, <2>3, <2>4, QuietKeeps DEF StoreInv
<1> QED
  BY <1>4, <1>5 DEF WriteState

(* A chunk numbered with the current revision may be appended between the  *)
(* two halves of persist.                                                  *)
LEMMA AppendKeeps ==
  ASSUME StoreInv, pc = "log", NEW kind \in ChunkKind, log' = Append(log, Chunk(kind)),
         UNCHANGED index
  PROVE  /\ log' \in Seq([seq : Nat, kind : ChunkKind])
         /\ LogOrdered'
         /\ Len(log') = Len(log) + 1 /\ log'[Len(log) + 1] = [seq |-> memory.rev, kind |-> kind]
         /\ \A i \in 1..Len(log) : log'[i] = log[i]
<1>1. Chunk(kind) = [seq |-> memory.rev, kind |-> kind] /\ memory.rev \in Nat /\ memory.rev = index.rev
  BY DEF StoreInv, StoreTypeOK, IndexOK, Appending, Chunk
<1>2. log \in Seq([seq : Nat, kind : ChunkKind]) /\ Len(log) \in Nat
  BY DEF StoreInv, StoreTypeOK
<1>3. Chunk(kind) \in [seq : Nat, kind : ChunkKind]
  BY <1>1
<1>4. /\ Len(log') = Len(log) + 1 /\ log'[Len(log) + 1] = Chunk(kind)
      /\ \A i \in 1..Len(log) : log'[i] = log[i]
      /\ log' \in Seq([seq : Nat, kind : ChunkKind])
  BY <1>2, <1>3
<1>5. \A i \in 1..Len(log) : log[i].seq < index.rev
  BY DEF StoreInv, Appending
<1>6. LogOrdered'
  <2>1. \A i, j \in 1..Len(log') : i < j => log'[i].seq < log'[j].seq
    <3> SUFFICES ASSUME NEW i \in 1..Len(log'), NEW j \in 1..Len(log'), i < j
                 PROVE  log'[i].seq < log'[j].seq
      OBVIOUS
    <3>1. i \in 1..Len(log) /\ (j \in 1..Len(log) \/ j = Len(log) + 1)
      BY <1>2, <1>4
    <3>2. CASE j \in 1..Len(log)
      BY <1>4, <3>1, <3>2 DEF StoreInv, LogOrdered
    <3>3. CASE j = Len(log) + 1
      BY <1>1, <1>4, <1>5, <3>1, <3>3
    <3> QED
      BY <3>1, <3>2, <3>3
  <2>2. ASSUME NEW i \in 1..Len(log') PROVE log'[i].seq <= index.rev
    <3>1. CASE i \in 1..Len(log)
      BY <1>4, <3>1 DEF StoreInv, LogOrdered
    <3>2. CASE i = Len(log) + 1
      BY <1>1, <1>4, <3>2
    <3> QED
      BY <1>2, <1>4, <3>1, <3>2
  <2> QED
    BY <2>1, <2>2 DEF LogOrdered
<1> QED
  BY <1>1, <1>4, <1>6

LEMMA AnsweredKept ==
  ASSUME StoreInv, Len(log) \in Nat, Len(log') = Len(log) + 1, \A i \in 1..Len(log) : log'[i] = log[i]
  PROVE  \A s \in toldRevs : \E i \in 1..Len(log') : log'[i] = [seq |-> s, kind |-> "whole"]
<1> SUFFICES ASSUME NEW s \in toldRevs
             PROVE  \E i \in 1..Len(log') : log'[i] = [seq |-> s, kind |-> "whole"]
  OBVIOUS
<1>1. PICK i \in 1..Len(log) : log[i] = [seq |-> s, kind |-> "whole"]
  BY DEF StoreInv, AnsweredLogged
<1>2. i \in 1..Len(log') /\ log'[i] = [seq |-> s, kind |-> "whole"]
  BY <1>1
<1> QED
  BY <1>2

LEMMA AppendLogStep == ASSUME StoreInv, AppendLog PROVE StoreInv'
<1>1. /\ live /\ made = 4 /\ pc = "log" /\ memory = index
      /\ UNCHANGED <<made, live, memory, index, snaps, issued, confs>>
      /\ Len(log) \in Nat
  BY DEF StoreInv, StoreTypeOK, Request, Serving, Appending, AppendLog
<1>2. Behind' /\ Fresh' /\ SnapshotsBehindIndex'
  BY <1>1 DEF StoreInv, Behind, Fresh, SnapshotsBehindIndex
<1>3. CASE /\ log' = Append(log, Chunk("whole")) /\ UNCHANGED storeFaults
           /\ IF More THEN pc' = "snapshot" /\ UNCHANGED <<req, acked, toldRevs>>
              ELSE Answer /\ acked' = acked \cup req.done /\ toldRevs' = toldRevs \cup {memory.rev}
  <2>1. "whole" \in ChunkKind
    BY DEF ChunkKind
  <2>2. /\ log' \in Seq([seq : Nat, kind : ChunkKind]) /\ LogOrdered'
        /\ Len(log') = Len(log) + 1 /\ log'[Len(log) + 1] = [seq |-> memory.rev, kind |-> "whole"]
        /\ \A i \in 1..Len(log) : log'[i] = log[i]
    BY <1>1, <1>3, <2>1, AppendKeeps
  <2>3. \A s \in toldRevs : \E i \in 1..Len(log') : log'[i] = [seq |-> s, kind |-> "whole"]
    BY <1>1, <2>2, AnsweredKept
  <2>4. CASE More /\ pc' = "snapshot" /\ UNCHANGED <<req, acked, toldRevs>>
    <3>1. StoreTypeOK'
      BY <1>1, <1>3, <2>2, <2>4 DEF StoreInv, StoreTypeOK, IndexOK
    <3>2. Request' /\ Appending'
      BY <1>1, <2>4 DEF StoreInv, StoreTypeOK, Request, Serving, More, Appending
    <3>3. AckedDurable' /\ AnsweredLogged'
      BY <1>1, <2>3, <2>4 DEF StoreInv, AckedDurable, AnsweredLogged
    <3> QED
      BY <1>2, <2>2, <3>1, <3>2, <3>3 DEF StoreInv
  <2>5. CASE Answer /\ acked' = acked \cup req.done /\ toldRevs' = toldRevs \cup {memory.rev}
    <3>1. req.done \subseteq index.has /\ req.done \subseteq Change
      BY <1>1 DEF StoreInv, StoreTypeOK, Request, Serving
    <3>2. StoreTypeOK'
      <4>1. memory.rev \in Nat /\ req' = NoReq /\ pc' = "idle"
        BY <2>5 DEF StoreInv, StoreTypeOK, IndexOK, Answer
      <4>2. acked' \subseteq Change /\ toldRevs' \subseteq Nat
        BY <2>5, <3>1, <4>1 DEF StoreInv, StoreTypeOK
      <4> QED
        BY <1>1, <1>3, <2>2, <4>1, <4>2, NoReqTyped DEF StoreInv, StoreTypeOK, IndexOK
    <3>3. Request'
      BY <1>1, <2>5, AnswerKeepsRequest
    <3>4. AckedDurable' /\ Appending'
      BY <1>1, <2>5, <3>1 DEF StoreInv, AckedDurable, Appending, Answer
    <3>5. AnsweredLogged'
      <4> SUFFICES ASSUME NEW s \in toldRevs \cup {memory.rev}
                   PROVE  \E i \in 1..Len(log') : log'[i] = [seq |-> s, kind |-> "whole"]
        BY <2>5 DEF AnsweredLogged
      <4>1. CASE s \in toldRevs
        BY <2>3, <4>1
      <4>2. CASE s = memory.rev
        BY <1>1, <2>2, <4>2
      <4> QED
        BY <4>1, <4>2
    <3> QED
      BY <1>2, <2>2, <3>2, <3>3, <3>4, <3>5 DEF StoreInv
  <2>6. IF More THEN pc' = "snapshot" /\ UNCHANGED <<req, acked, toldRevs>>
        ELSE Answer /\ acked' = acked \cup req.done /\ toldRevs' = toldRevs \cup {memory.rev}
    BY <1>3
  <2> QED
    BY <2>4, <2>5, <2>6
<1>4. CASE /\ StoreFail /\ Answer /\ UNCHANGED <<acked, toldRevs>>
           /\ log' \in {log} \cup {Append(log, Chunk(kind)) : kind \in ChunkKind}
  <2>1. log' \in Seq([seq : Nat, kind : ChunkKind]) /\ LogOrdered' /\ AnsweredLogged'
    <3>1. CASE log' = log
      BY <1>1, <1>4, <3>1 DEF StoreInv, StoreTypeOK, LogOrdered, AnsweredLogged
    <3>2. ASSUME NEW kind \in ChunkKind, log' = Append(log, Chunk(kind))
          PROVE  log' \in Seq([seq : Nat, kind : ChunkKind]) /\ LogOrdered' /\ AnsweredLogged'
      <4>1. /\ log' \in Seq([seq : Nat, kind : ChunkKind]) /\ LogOrdered'
            /\ Len(log') = Len(log) + 1 /\ \A i \in 1..Len(log) : log'[i] = log[i]
        BY <1>1, <3>2, AppendKeeps
      <4>2. AnsweredLogged'
        BY <1>1, <1>4, <4>1, AnsweredKept DEF AnsweredLogged
      <4> QED
        BY <4>1, <4>2
    <3> QED
      BY <1>4, <3>1, <3>2
  <2>2. StoreTypeOK'
    BY <1>1, <1>4, <2>1 DEF StoreInv, StoreTypeOK, IndexOK, StoreFail, Answer, NoReq
  <2>3. Request'
    BY <1>1, <1>4, AnswerKeepsRequest
  <2>4. AckedDurable' /\ Appending'
    BY <1>1, <1>4 DEF StoreInv, AckedDurable, Appending, Answer
  <2> QED
    BY <1>2, <2>1, <2>2, <2>3, <2>4 DEF StoreInv
<1> QED
  BY <1>3, <1>4 DEF AppendLog

LEMMA CrashStep == ASSUME StoreInv, StoreCrash PROVE StoreInv'
<1>1. /\ live' = FALSE /\ memory' = [rev |-> 0, has |-> {}] /\ pc' = "idle" /\ req' = NoReq
      /\ StoreFail /\ UNCHANGED <<made, index, snaps, issued, confs, acked, toldRevs>>
  BY DEF StoreCrash, Empty, Answer
<1>2. Len(log) \in Nat
  BY DEF StoreInv, StoreTypeOK
<1>3. log' \in Seq([seq : Nat, kind : ChunkKind]) /\ LogOrdered' /\ AnsweredLogged'
  <2>1. CASE log' = log
    BY <1>1, <2>1 DEF StoreInv, StoreTypeOK, LogOrdered, AnsweredLogged
  <2>2. ASSUME pc = "log", NEW kind \in ChunkKind, log' = Append(log, Chunk(kind))
        PROVE  log' \in Seq([seq : Nat, kind : ChunkKind]) /\ LogOrdered' /\ AnsweredLogged'
    <3>1. /\ log' \in Seq([seq : Nat, kind : ChunkKind]) /\ LogOrdered'
          /\ Len(log') = Len(log) + 1 /\ \A i \in 1..Len(log) : log'[i] = log[i]
      BY <1>1, <2>2, AppendKeeps
    <3>2. AnsweredLogged'
      BY <1>1, <1>2, <3>1, AnsweredKept DEF AnsweredLogged
    <3> QED
      BY <3>1, <3>2
  <2> QED
    BY <2>1, <2>2 DEF StoreCrash
<1>4. IndexOK(memory)'
  BY <1>1 DEF IndexOK
<1>5. StoreTypeOK'
  <2>1. live' \in BOOLEAN
    BY <1>1
  <2>6. storeFaults' \in 0..MaxStoreFaults
    BY <1>1 DEF StoreInv, StoreTypeOK, StoreFail
  <2>2. UNCHANGED <<made, index, snaps, issued, confs, acked, toldRevs>>
    BY <1>1
  <2>3. req' \in [todo : 0..MaxBoards, done : SUBSET Change]
    BY <1>1, NoReqTyped
  <2>4. pc' = "idle"
    BY <1>1
  <2>5. made' \in 0..4 /\ IndexOK(index)' /\ snaps' \subseteq Change /\ issued' \in 0..MaxChange
        /\ confs' \subseteq Change /\ acked' \subseteq Change /\ toldRevs' \subseteq Nat
    BY <2>2 DEF StoreInv, StoreTypeOK, IndexOK
  <2> QED
    BY <1>3, <1>4, <2>1, <2>3, <2>4, <2>5, <2>6 DEF StoreTypeOK
<1>6. Behind' /\ Appending' /\ Fresh' /\ Request'
  BY <1>1 DEF StoreInv, Behind, Appending, Fresh, Request, Serving
<1>7. AckedDurable' /\ SnapshotsBehindIndex'
  BY <1>1 DEF StoreInv, AckedDurable, SnapshotsBehindIndex
<1> QED
  BY <1>3, <1>5, <1>6, <1>7 DEF StoreInv

LEMMA StutterStep == ASSUME StoreInv, UNCHANGED storeVars PROVE StoreInv'
<1>1. Quiet
  BY DEF storeVars, Quiet
<1>2. StoreTypeOK' /\ Behind' /\ Appending' /\ Request' /\ Fresh' /\ SnapshotsBehindIndex'
  BY DEF storeVars, StoreInv, StoreTypeOK, IndexOK, Behind, Appending, Request, Fresh, SnapshotsBehindIndex
<1> QED
  BY <1>1, <1>2, QuietKeeps DEF StoreInv

LEMMA StoreStepKeeps == ASSUME StoreInv, [StoreNext]_storeVars PROVE StoreInv'
BY CreateStep, OpenStep, UpdateStep, ConfigureStep, SnapshotStep, WriteStateStep,
   AppendLogStep, CrashStep, StutterStep DEF StoreNext

-----------------------------------------------------------------------------
(* The inductive invariant holds of every reachable state.                 *)
LEMMA StoreInvariant == StoreSpec => []StoreInv
BY InitHolds, StoreStepKeeps, PTL DEF StoreSpec

(* Every variable keeps its type: in particular no request creates more    *)
(* configurations than it was asked for, and revisions are never lost.     *)
THEOREM StoreTyped == StoreSpec => []StoreTypeOK
<1>1. StoreInv => StoreTypeOK
  BY DEF StoreInv
<1> QED
  BY StoreInvariant, <1>1, PTL

(* A change that was answered is in state.json, whatever write fails and   *)
(* whenever the daemon dies.                                               *)
THEOREM AnswersAreDurable == StoreSpec => []AckedDurable
<1>1. StoreInv => AckedDurable
  BY DEF StoreInv
<1> QED
  BY StoreInvariant, <1>1, PTL

(* The recovery index only gains changes.                                  *)
THEOREM IndexNeverForgets == StoreSpec => NothingForgotten
<1>1. ASSUME StoreInv, [StoreNext]_storeVars PROVE [index.has \subseteq index'.has]_storeVars
  <2>1. CASE WriteState
    BY <1>1, <2>1 DEF StoreInv, StoreTypeOK, IndexOK, Request, Serving, Behind, WriteState, Bumped
  <2>2. CASE UNCHANGED index
    BY <2>2
  <2> QED
    BY <1>1, <2>1, <2>2
    DEF StoreNext, storeVars, CreateWorkspace, CreateFile, OpenStore, UpdateRecord, Configure,
        Snapshot, AppendLog, StoreCrash
<1> QED
  BY StoreInvariant, <1>1, PTL DEF StoreSpec, NothingForgotten

(* Sequence numbers of the audit trail strictly increase and never run     *)
(* ahead of the recovery index.                                            *)
THEOREM TrailIsOrdered == StoreSpec => []LogOrdered
<1>1. StoreInv => LogOrdered
  BY DEF StoreInv
<1> QED
  BY StoreInvariant, <1>1, PTL

(* The event of every answered request was appended whole.                 *)
THEOREM AnswersAreLogged == StoreSpec => []AnsweredLogged
<1>1. StoreInv => AnsweredLogged
  BY DEF StoreInv
<1> QED
  BY StoreInvariant, <1>1, PTL

(* No configuration is referred to without its complete snapshot.          *)
THEOREM SnapshotsComeFirst == StoreSpec => []SnapshotsBehindIndex
<1>1. StoreInv => SnapshotsBehindIndex
  BY DEF StoreInv
<1> QED
  BY StoreInvariant, <1>1, PTL

(* The trail is in order and tells of every answered request.              *)
THEOREM TrailIsComplete == StoreSpec => []TrailTells
<1>1. LogOrdered /\ AnsweredLogged => TrailTells
  BY DEF TrailTells
<1> QED
  BY <1>1, TrailIsOrdered, AnswersAreLogged, PTL

(* Nothing that is referred to is missing: a workspace with a manifest has *)
(* its graph and baseline, a configuration in the index its snapshot.      *)
THEOREM ReferencesAlwaysResolve == StoreSpec => []ReferencesResolve
<1>1. StoreTypeOK => ManifestLast
  BY DEF StoreTypeOK, ManifestLast, Openable, Files, Layout
<1>2. SnapshotsBehindIndex /\ ManifestLast => ReferencesResolve
  BY DEF ReferencesResolve
<1> QED
  BY <1>1, <1>2, SnapshotsComeFirst, StoreTyped, PTL
=============================================================================
