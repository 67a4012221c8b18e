--------------------------- MODULE CampaignProofs ---------------------------
(***************************************************************************)
(* Proofs about the campaign scheduler, for any jobs, lanes, dependencies  *)
(* and retries.  The invariant says what a lane may hold (LanesOK), counts *)
(* the attempts over all starts of the controller (AttemptsOK), and keeps  *)
(* the reasons of failures (BlameOK); it has to speak of the saved records *)
(* as well, which a start takes up.  One lemma per action, or per group    *)
(* that touches the same, says that it is preserved.                       *)
(***************************************************************************)
EXTENDS Campaign, TLAPS, WellFoundedInduction

Ended(s) == s \in Final \ {"succeeded"}

(* What the lanes do: nothing without a controller; a lane runs a job that *)
(* is recorded as running, until it has reported it.                       *)
LanesOK ==
  /\ up # "running" => turn = NoLane /\ \A l \in Lane : job[l] = NoJob
  /\ \A l \in left \cup dropped : job[l] = NoJob
  /\ turn # NoLane => job[turn] # NoJob /\ process[turn] = "none"
  /\ \A l \in Lane : job[l] # NoJob => /\ ~record[job[l]].blamed
                                       /\ turn # l => /\ record[job[l]].status = "running"
                                                       /\ process[l] # "none"

(* Attempts, of which a pending job has one left.                          *)
AttemptsOK ==
  /\ up = "running" => starts > 0
  /\ \A j \in Job :
       /\ record[j].attempts < Allowed[j] + starts /\ saved[j].attempts < Allowed[j] + starts
       /\ up = "running" /\ record[j].status = "pending" =>
            record[j].attempts + 1 < Allowed[j] + starts

(* Who is blamed, and for whom: never for the job whose retry is decided.  *)
BlameOK ==
  \A j \in Job :
    /\ record[j].blamed =>
         /\ record[j].status = "failed"
         /\ \E n \in Needs[j] : Ended(record[n].status) /\ (turn # NoLane => n # job[turn])
    /\ saved[j].blamed =>
         saved[j].status = "failed" /\ \E n \in Needs[j] : Ended(saved[n].status)

(* What is saved as done is done.                                          *)
SavedOK ==
  up = "running" => \A j \in Job : saved[j].status = "succeeded" => record[j].status = "succeeded"

CampaignInv == TypeOK /\ LanesOK /\ NeedsFirst /\ AttemptsOK /\ BlameOK /\ SavedOK

LEMMA CampaignSizes ==
  /\ NoJob \notin Job /\ NoLane \notin Lane /\ NoFile \notin Version
  /\ MaxStarts \in Nat /\ MaxTampers \in Nat /\ MaxTime \in Nat
  /\ \A j \in Job : Needs[j] \subseteq Job /\ Allowed[j] \in Nat /\ Allowed[j] > 0
BY CampaignConstants

(* Every non-empty set of numbers has a least one.                         *)
LEMMA LeastNumber ==
  ASSUME NEW T \in SUBSET Nat, T # {}
  PROVE  \E x \in T : \A y \in T : x <= y
<1>1. IsWellFoundedOn(OpToRel(<, Nat), Nat)
  BY NatLessThanWellFounded
<1>2. PICK x \in T : \A y \in T : ~ (<<y, x>> \in OpToRel(<, Nat))
  BY <1>1, WFMin
<1>3. \A y \in T : ~ (y < x)
  BY <1>2 DEF OpToRel
<1> QED
  BY <1>3

(* A lane claims one of its candidates.                                    *)
LEMMA BestIsOne ==
  ASSUME NEW l \in Lane, NEW J \in SUBSET Job, J # {}
  PROVE  Best(l, J) \in J
<1>1. \A j \in Job : Position(j) \in Nat
  <2>1. Len(Order) \in Nat /\ DOMAIN Order = 1..Len(Order)
    BY CampaignConstants
  <2>2. \A j \in Job : \E i \in DOMAIN Order : Order[i] = j
    BY DEF Job, Range
  <2> QED
    BY <2>1, <2>2 DEF Position
<1>2. \A j \in J : Rank(l, j) \in Nat
  BY <1>1, CampaignConstants DEF Rank
<1> DEFINE T == {Rank(l, j) : j \in J}
<1>3. T \in SUBSET Nat /\ T # {}
  BY <1>2
<1>4. PICK x \in T : \A y \in T : x <= y
  BY <1>3, LeastNumber
<1>5. \E j \in J : \A k \in J : Rank(l, j) <= Rank(l, k)
  BY <1>4
<1> QED
  BY <1>5 DEF Best

(* The pass over the jobs.                                                 *)
LEMMA PassBlames ==
  ASSUME record \in [Job -> JobRecord], NEW J \in SUBSET Job, FailsInPass(record, J)
  PROVE  LET r == Blamed(record, J) IN
         /\ r \in [Job -> JobRecord]
         /\ \A j \in Job \ J : r[j] = record[j]
         /\ \A j \in J : /\ record[j].status = "pending"
                         /\ r[j].status = "failed" /\ r[j].blamed /\ r[j].attempts = record[j].attempts
                         /\ \E n \in Needs[j] : Ended(r[n].status)
<1> DEFINE r == Blamed(record, J)
<1>1. r \in [Job -> JobRecord]
  BY DEF Blamed, JobRecord, Status, Final
<1>2. \A j \in Job \ J : r[j] = record[j]
  BY DEF Blamed
<1>3. \A j \in J : /\ record[j].status = "pending" /\ r[j].status = "failed"
                   /\ r[j].blamed = TRUE /\ r[j].attempts = record[j].attempts
  BY DEF Blamed, FailsInPass, JobRecord
<1>4. ASSUME NEW j \in J PROVE \E n \in Needs[j] : Ended(r[n].status)
  <2>1. Needs[j] \subseteq Job
    BY CampaignSizes
  <2>2. CASE FailedNeeds(record, j) # {}
    <3>1. PICK n \in Needs[j] : record[n].status \in Final \ {"succeeded"}
      BY <2>2 DEF FailedNeeds
    <3>2. n \notin J
      BY <1>3, <3>1 DEF Final
    <3> QED
      BY <1>2, <2>1, <3>1, <3>2 DEF Ended
  <2>3. CASE \E n \in Needs[j] \cap J : Position(n) < Position(j)
    BY <1>3, <2>3 DEF Ended, Final
  <2> QED
    BY <2>2, <2>3 DEF FailsInPass
<1> QED
  BY <1>1, <1>2, <1>3, <1>4

(* What a lane knows after its pass, before it claims or waits.            *)
LEMMA PassKeeps ==
  ASSUME CampaignInv, Running, NEW J \in SUBSET Job, FailsInPass(record, J), NEW r,
         r = Blamed(record, J)
  PROVE  /\ r \in [Job -> JobRecord]
         /\ \A j \in Job : /\ r[j].attempts = record[j].attempts
                           /\ r[j].status = "pending" => r[j] = record[j]
                           /\ record[j].status # "pending" => r[j] = record[j]
                           /\ r[j].blamed => /\ r[j].status = "failed"
                                             /\ \E n \in Needs[j] : Ended(r[n].status)
<1>1. record \in [Job -> JobRecord]
  BY DEF CampaignInv, TypeOK
<1>2. /\ r \in [Job -> JobRecord]
      /\ \A j \in Job \ J : r[j] = record[j]
      /\ \A j \in J : /\ record[j].status = "pending"
                      /\ r[j].status = "failed" /\ r[j].blamed /\ r[j].attempts = record[j].attempts
                      /\ \E n \in Needs[j] : Ended(r[n].status)
  BY <1>1, PassBlames
<1>3. ASSUME NEW j \in Job \ J, r[j].blamed
      PROVE  r[j].status = "failed" /\ \E n \in Needs[j] : Ended(r[n].status)
  <2>1. r[j] = record[j]
    BY <1>2
  <2>2. record[j].status = "failed" /\ \E n \in Needs[j] : Ended(record[n].status)
    BY <1>3, <2>1 DEF CampaignInv, BlameOK
  <2>3. PICK n \in Needs[j] : Ended(record[n].status)
    BY <2>2
  <2>4. n \in Job \ J
    BY <1>2, <2>3, CampaignSizes DEF Ended, Final
  <2> QED
    BY <1>2, <2>1, <2>2, <2>3, <2>4
<1> QED
  BY <1>2, <1>3

LEMMA ClaimKeeps ==
  ASSUME CampaignInv, NEW l \in Lane, Claim(l) PROVE CampaignInv'
<1> USE CampaignSizes
<1>1. /\ up = "running" /\ turn = NoLane /\ l \notin left \cup dropped /\ job[l] = NoJob
      /\ UNCHANGED <<up, stopping, limit, starts, doomed, dropped, orphans, left, turn, file,
         tampers, age>>
      /\ process' = [process EXCEPT ![l] = "alive"]
  BY DEF Claim, Waiting, Running, loop, disk
<1>2. PICK J \in SUBSET Job :
        /\ FailsInPass(record, J) /\ Candidates(Blamed(record, J), l) # {}
        /\ record' = [Blamed(record, J) EXCEPT ![Best(l, Candidates(Blamed(record, J), l))] =
                        [status |-> "running", attempts |-> @.attempts + 1,
                         blamed |-> FALSE, output |-> NoFile]]
        /\ saved' = record'
        /\ job' = [job EXCEPT ![l] = Best(l, Candidates(Blamed(record, J), l))]
  BY DEF Claim
<1> DEFINE r == Blamed(record, J)
           j == Best(l, Candidates(r, l))
<1>3. j \in Candidates(r, l) /\ Candidates(r, l) \subseteq Job
  BY <1>2, BestIsOne DEF Candidates
<1>4. /\ r \in [Job -> JobRecord]
      /\ \A k \in Job : /\ r[k].attempts = record[k].attempts
                        /\ r[k].status = "pending" => r[k] = record[k]
                        /\ record[k].status # "pending" => r[k] = record[k]
                        /\ r[k].blamed => /\ r[k].status = "failed"
                                          /\ \E n \in Needs[k] : Ended(r[n].status)
  BY <1>1, <1>2, PassKeeps DEF Running
<1>5. /\ j \in Job /\ record[j].status = "pending" /\ r[j] = record[j]
      /\ \A n \in Needs[j] : r[n].status = "succeeded"
  BY <1>3, <1>4 DEF Candidates, Free, Ready
<1>6. /\ record' = [r EXCEPT ![j] = [status |-> "running", attempts |-> record[j].attempts + 1,
                                     blamed |-> FALSE, output |-> NoFile]]
      /\ saved' = record' /\ job' = [job EXCEPT ![l] = j]
  BY <1>2, <1>5
<1> HIDE DEF r, j
<1>7. /\ record' \in [Job -> JobRecord] /\ record'[j].status = "running"
      /\ record'[j].attempts = record[j].attempts + 1 /\ ~record'[j].blamed
      /\ \A k \in Job : k # j => record'[k] = r[k]
  BY <1>4, <1>5, <1>6 DEF CampaignInv, TypeOK, JobRecord, Status
<1>8. /\ job' \in [Lane -> Job \cup {NoJob}] /\ job'[l] = j /\ process'[l] = "alive"
      /\ \A k \in Lane : k # l => job'[k] = job[k] /\ process'[k] = process[k]
  BY <1>1, <1>5, <1>6 DEF CampaignInv, TypeOK
<1>9. \A k \in Lane : job[k] \in Job \cup {NoJob} /\ job[k] # j
  BY <1>1, <1>5 DEF CampaignInv, TypeOK, LanesOK
<1>10. TypeOK'
  BY <1>1, <1>6, <1>7, <1>8, <1>9 DEF CampaignInv, TypeOK
<1>11. LanesOK'
  <2>1. \A k \in Lane : k # l /\ job[k] # NoJob => /\ record'[job[k]] = record[job[k]]
                                                 /\ record[job[k]].status = "running"
                                                 /\ ~record[job[k]].blamed /\ process[k] # "none"
    BY <1>1, <1>4, <1>7, <1>9 DEF CampaignInv, LanesOK
  <2>2. \A k \in left \cup dropped : k # l /\ job[k] = NoJob
    BY <1>1 DEF CampaignInv, LanesOK
  <2>3. left \cup dropped \subseteq Lane
    BY DEF CampaignInv, TypeOK
  <2> QED
    BY <1>1, <1>7, <1>8, <2>1, <2>2, <2>3 DEF LanesOK
<1>12. NeedsFirst'
  BY <1>1, <1>4, <1>5, <1>7, <1>8, <1>9 DEF CampaignInv, NeedsFirst, Works, TypeOK
<1>13. AttemptsOK'
  <2>1. up = "running" /\ up' = up /\ starts' = starts /\ saved' = record' /\ starts > 0
    BY <1>1, <1>6 DEF CampaignInv, AttemptsOK
  <2>2. record'[j].attempts < Allowed[j] + starts /\ record'[j].status # "pending"
    BY <1>5, <1>7, <2>1 DEF CampaignInv, AttemptsOK
  <2>3. ASSUME NEW k \in Job, k # j
        PROVE  /\ record'[k].attempts < Allowed[k] + starts
               /\ record'[k].status = "pending" => record'[k].attempts + 1 < Allowed[k] + starts
    <3>1. record'[k].attempts = record[k].attempts
          /\ (record'[k].status = "pending" => record[k].status = "pending")
      BY <1>4, <1>7, <2>3
    <3> QED
      BY <2>1, <2>3, <3>1 DEF CampaignInv, AttemptsOK
  <2> QED
    BY <2>1, <2>2, <2>3 DEF AttemptsOK
<1>14. BlameOK'
  BY <1>1, <1>4, <1>5, <1>6, <1>7 DEF BlameOK, Ended, Final
<1>15. SavedOK'
  BY <1>6 DEF SavedOK
<1> QED
  BY <1>10, <1>11, <1>12, <1>13, <1>14, <1>15 DEF CampaignInv

LEMMA PollKeeps ==
  ASSUME CampaignInv, NEW l \in Lane, Poll(l) PROVE CampaignInv'
<1> USE CampaignSizes
<1>1. /\ Running /\ up = "running" /\ turn = NoLane /\ job[l] = NoJob
      /\ UNCHANGED <<up, stopping, limit, starts, doomed, dropped, saved, job, process, orphans,
         turn, file, tampers, age>>
      /\ left' \in {left, left \cup {l}}
  BY DEF Poll, Waiting, Running, loop, disk
<1>2. PICK J \in SUBSET Job : FailsInPass(record, J) /\ record' = Blamed(record, J)
  BY DEF Poll
<1>3. /\ record' \in [Job -> JobRecord]
      /\ \A k \in Job : /\ record'[k].attempts = record[k].attempts
                        /\ record'[k].status = "pending" => record'[k] = record[k]
                        /\ record[k].status # "pending" => record'[k] = record[k]
                        /\ record'[k].blamed => /\ record'[k].status = "failed"
                                                /\ \E n \in Needs[k] : Ended(record'[n].status)
  BY <1>1, <1>2, PassKeeps
<1>4. TypeOK'
  BY <1>1, <1>3 DEF CampaignInv, TypeOK
<1>5. LanesOK'
  BY <1>1, <1>3 DEF CampaignInv, LanesOK, TypeOK
<1>6. NeedsFirst'
  BY <1>1, <1>3 DEF CampaignInv, NeedsFirst, Works, TypeOK
<1>7. AttemptsOK'
  BY <1>1, <1>3 DEF CampaignInv, AttemptsOK
<1>8. BlameOK'
  BY <1>1, <1>3 DEF CampaignInv, BlameOK
<1>9. SavedOK'
  BY <1>1, <1>3 DEF CampaignInv, SavedOK
<1> QED
  BY <1>4, <1>5, <1>6, <1>7, <1>8, <1>9 DEF CampaignInv

LEMMA ReportKeeps ==
  ASSUME CampaignInv, NEW l \in Lane, Report(l) PROVE CampaignInv'
<1> USE CampaignSizes
<1> DEFINE j == job[l]
<1>1. /\ up = "running" /\ turn = NoLane /\ j \in Job /\ turn' = l /\ saved' = record'
      /\ process' = [process EXCEPT ![l] = "none"]
      /\ UNCHANGED <<up, stopping, limit, starts, doomed, dropped, job, orphans, left, file,
         tampers, age>>
  BY DEF Report, Running, loop, disk, CampaignInv, TypeOK
<1> DEFINE s == Outcome(l)
<1>2. record' = [record EXCEPT ![j].status = s,
                               ![j].output = IF s = "succeeded" THEN file[j] ELSE NoFile]
  BY DEF Report
<1>3. s \in Final
  BY DEF Outcome, Final
<1> HIDE DEF s
<1>4. record[j].status = "running" /\ ~record[j].blamed /\ l # NoLane
  BY <1>1 DEF CampaignInv, LanesOK
<1>5. /\ record' \in [Job -> JobRecord] /\ record'[j].status = s
      /\ record'[j].attempts = record[j].attempts /\ record'[j].blamed = record[j].blamed
      /\ \A k \in Job : k # j => record'[k] = record[k]
  <2> DEFINE out == IF s = "succeeded" THEN file[j] ELSE NoFile
  <2>1. s \in Status /\ out \in Version \cup {NoFile} /\ record \in [Job -> JobRecord]
    BY <1>1, <1>3 DEF CampaignInv, TypeOK, Status
  <2>2. record' = [record EXCEPT ![j] = [record[j] EXCEPT !.status = s, !.output = out]]
    BY <1>1, <1>2, <2>1
  <2> HIDE DEF out
  <2> QED
    BY <1>1, <2>1, <2>2 DEF JobRecord
<1>6. process' \in [Lane -> {"none", "alive", "ok", "failed", "stopped", "reaped"}]
      /\ process'[l] = "none" /\ \A k \in Lane : k # l => process'[k] = process[k]
  BY <1>1 DEF CampaignInv, TypeOK
<1>7. TypeOK'
  BY <1>1, <1>5, <1>6 DEF CampaignInv, TypeOK
<1>8. LanesOK'
  BY <1>1, <1>4, <1>5, <1>6 DEF CampaignInv, LanesOK, TypeOK
<1>9. NeedsFirst'
  BY <1>1, <1>4, <1>5, <1>6 DEF CampaignInv, NeedsFirst, Works, TypeOK
<1>10. AttemptsOK'
  BY <1>1, <1>3, <1>5 DEF CampaignInv, AttemptsOK, Final
<1>11. BlameOK'
  BY <1>1, <1>4, <1>5 DEF CampaignInv, BlameOK, Ended, Final
<1>12. SavedOK'
  BY <1>1 DEF SavedOK
<1> QED
  BY <1>7, <1>8, <1>9, <1>10, <1>11, <1>12 DEF CampaignInv

LEMMA RetryKeeps ==
  ASSUME CampaignInv, NEW l \in Lane, Retry(l) PROVE CampaignInv'
<1> USE CampaignSizes
<1> DEFINE j == job[l]
<1>1. /\ up = "running" /\ turn = l /\ turn' = NoLane /\ l # NoLane /\ j \in Job
      /\ job' = [job EXCEPT ![l] = NoJob]
      /\ UNCHANGED <<up, stopping, limit, starts, doomed, dropped, process, orphans, left, file,
         tampers, age>>
  BY DEF Retry, loop, disk, CampaignInv, TypeOK, LanesOK
<1>2. process[l] = "none" /\ ~record[j].blamed
  BY <1>1 DEF CampaignInv, LanesOK
<1>3. /\ job' \in [Lane -> Job \cup {NoJob}] /\ job'[l] = NoJob
      /\ \A k \in Lane : k # l => job'[k] = job[k] /\ job[k] # j
  BY <1>1 DEF CampaignInv, TypeOK
<1>4. CASE record[j].status # "succeeded" /\ MayRetry(j)
  <2>1. record' = [record EXCEPT ![j].status = "pending"] /\ saved' = record'
        /\ record[j].status # "succeeded" /\ record[j].attempts < Allowed[j]
    BY <1>4 DEF Retry, MayRetry
  <2> HIDE DEF j
  <2>2. /\ record' \in [Job -> JobRecord] /\ record'[j].status = "pending"
        /\ record'[j].attempts = record[j].attempts /\ record'[j].blamed = record[j].blamed
        /\ \A k \in Job : k # j => record'[k] = record[k]
    <3>1. j \in Job /\ record \in [Job -> JobRecord] /\ "pending" \in Status
      BY <1>1 DEF CampaignInv, TypeOK, Status
    <3> QED
      BY <2>1, <3>1 DEF JobRecord
  <2> USE DEF j
  <2>3. TypeOK'
    BY <1>1, <1>2, <1>3, <2>1, <2>2 DEF CampaignInv, TypeOK
  <2>4. LanesOK'
    BY <1>1, <1>3, <2>2 DEF CampaignInv, LanesOK, TypeOK
  <2>5. NeedsFirst'
    BY <1>1, <1>2, <1>3, <2>1, <2>2 DEF CampaignInv, NeedsFirst, Works, TypeOK
  <2>6. AttemptsOK'
    BY <1>1, <2>1, <2>2 DEF CampaignInv, AttemptsOK, TypeOK, JobRecord
  <2>7. BlameOK'
    BY <1>1, <1>2, <2>1, <2>2 DEF CampaignInv, BlameOK
  <2>8. SavedOK'
    BY <2>1 DEF SavedOK
  <2> QED
    BY <2>3, <2>4, <2>5, <2>6, <2>7, <2>8 DEF CampaignInv
<1>5. CASE ~(record[j].status # "succeeded" /\ MayRetry(j))
  <2>1. UNCHANGED <<record, saved>>
    BY <1>5 DEF Retry
  <2>2. TypeOK'
    BY <1>1, <1>2, <1>3, <2>1 DEF CampaignInv, TypeOK
  <2>3. LanesOK'
    BY <1>1, <1>3, <2>1 DEF CampaignInv, LanesOK, TypeOK
  <2>4. NeedsFirst'
    BY <1>1, <1>2, <1>3, <2>1 DEF CampaignInv, NeedsFirst, Works, TypeOK
  <2>5. AttemptsOK' /\ BlameOK' /\ SavedOK'
    BY <1>1, <2>1 DEF CampaignInv, AttemptsOK, BlameOK, SavedOK
  <2> QED
    BY <2>2, <2>3, <2>4, <2>5 DEF CampaignInv
<1> QED
  BY <1>4, <1>5

(* The controller starts, and takes up what was saved.                     *)
LEMMA StartKeeps == ASSUME CampaignInv, Start PROVE CampaignInv'
<1> USE CampaignSizes
<1>1. /\ up # "running" /\ up' = "running" /\ stopping' = FALSE /\ limit' = "none" /\ age' = 0
      /\ doomed' = {} /\ dropped' = {}
      /\ starts' = starts + 1 /\ starts' \in 0..MaxStarts /\ left' = {} /\ saved' = record'
      /\ record' = [j \in Job |-> Recovered(saved[j], j)]
      /\ UNCHANGED <<job, process, orphans, turn, file, tampers>>
  BY DEF Start, disk, CampaignInv, TypeOK
<1>2. saved \in [Job -> JobRecord] /\ starts \in Nat
  BY DEF CampaignInv, TypeOK
<1>3. /\ record' \in [Job -> JobRecord]
      /\ \A j \in Job : /\ record'[j].attempts = saved[j].attempts
                           /\ record'[j].blamed = saved[j].blamed
                        /\ saved[j].status \notin {"running", "succeeded"} => record'[j] = saved[j]
  <2>1. ASSUME NEW j \in Job
        PROVE  /\ record'[j] \in JobRecord
               /\ record'[j].attempts = saved[j].attempts /\ record'[j].blamed = saved[j].blamed
               /\ saved[j].status \notin {"running", "succeeded"} => record'[j] = saved[j]
    <3>1. saved[j] \in JobRecord /\ "pending" \in Status
      BY <1>2 DEF Status
    <3>2. record'[j] \in {saved[j], [saved[j] EXCEPT !.status = "pending"]}
          /\ (saved[j].status \notin {"running", "succeeded"} => record'[j] = saved[j])
      BY <1>1 DEF Recovered, Untrusted
    <3> QED
      BY <3>1, <3>2 DEF JobRecord
  <2>2. DOMAIN record' = Job /\ record' = [j \in Job |-> record'[j]]
    BY <1>1
  <2> QED
    BY <2>1, <2>2
<1>4. turn = NoLane /\ \A l \in Lane : job[l] = NoJob /\ process[l] = "none"
  BY <1>1 DEF CampaignInv, TypeOK, LanesOK
<1>5. TypeOK'
  <2>1. stopping' \in BOOLEAN
    BY <1>1, Zenon
  <2> QED
    BY <1>1, <1>3, <2>1 DEF CampaignInv, TypeOK
<1>6. LanesOK' /\ NeedsFirst' /\ SavedOK'
  BY <1>1, <1>4 DEF LanesOK, NeedsFirst, Works, SavedOK
<1>7. AttemptsOK'
  BY <1>1, <1>2, <1>3 DEF CampaignInv, AttemptsOK, JobRecord
<1>8. BlameOK'
  <2>1. ASSUME NEW j \in Job, saved[j].blamed
        PROVE  record'[j].status = "failed" /\ \E n \in Needs[j] : Ended(record'[n].status)
    <3>1. saved[j].status = "failed" /\ \E n \in Needs[j] : Ended(saved[n].status)
      BY <2>1 DEF CampaignInv, BlameOK
    <3>2. PICK n \in Needs[j] : Ended(saved[n].status)
      BY <3>1
    <3> QED
      BY <1>3, <3>1, <3>2 DEF Ended, Final
  <2> QED
    BY <1>1, <1>3, <1>4, <2>1 DEF BlameOK
<1> QED
  BY <1>5, <1>6, <1>7, <1>8 DEF CampaignInv

(* The controller dies.                                                    *)
LEMMA CrashKeeps == ASSUME CampaignInv, Crash PROVE CampaignInv'
<1> USE CampaignSizes
<1>1. /\ up' = "down" /\ stopping' = FALSE /\ limit' = "none" /\ turn' = NoLane /\ age' = 0
      /\ left' = {} /\ doomed' = {} /\ dropped' = {}
      /\ record' = [j \in Job |-> Fresh] /\ job' = [l \in Lane |-> NoJob]
      /\ process' = [l \in Lane |-> "none"] /\ UNCHANGED <<starts, saved, file, tampers>>
  BY DEF Crash, Idle, disk
<1>2. orphans' \subseteq Job
  BY CampaignSizes DEF Crash, Works, CampaignInv, TypeOK
<1>3. record' \in [Job -> JobRecord] /\ \A j \in Job : record'[j] = Fresh
  BY <1>1 DEF Fresh, JobRecord, Status
<1>4. TypeOK'
  <2>1. stopping' \in BOOLEAN
    BY <1>1, Zenon
  <2> QED
    BY <1>1, <1>2, <1>3, <2>1 DEF CampaignInv, TypeOK
<1>5. LanesOK' /\ NeedsFirst' /\ SavedOK'
  BY <1>1 DEF LanesOK, NeedsFirst, Works, SavedOK
<1>6. AttemptsOK'
  BY <1>1, <1>3 DEF CampaignInv, AttemptsOK, Fresh, TypeOK
<1>7. BlameOK'
  BY <1>1, <1>3 DEF CampaignInv, BlameOK, Fresh
<1> QED
  BY <1>4, <1>5, <1>6, <1>7 DEF CampaignInv

(* The steps that touch no record.                                         *)
LEMMA LoopKeeps ==
  ASSUME CampaignInv, Finish \/ Tamper \/ Tick \/ OrphanWrites \/ OrphanExits
                      \/ \E l \in Lane : Leave(l) \/ Write(l) \/ Exit(l)
  PROVE  CampaignInv'
<1> USE CampaignSizes
<1>1. UNCHANGED <<record, saved, job, turn, starts>>
  BY DEF Finish, Tamper, Tick, OrphanWrites, OrphanExits, Leave, Write, Exit, loop
<1>2. \/ UNCHANGED <<up, limit, doomed, dropped>>
      \/ /\ up = "running" /\ up' = "ended" /\ turn = NoLane /\ left \cup dropped = Lane
         /\ limit' = "none" /\ doomed' = {} /\ dropped' = {} /\ left' = {}
  BY DEF Finish, Tamper, Tick, OrphanWrites, OrphanExits, Leave, Write, Exit, loop, Running
<1>3. \/ UNCHANGED left
      \/ left' = {}
      \/ \E l \in Lane : left' = left \cup {l} /\ job[l] = NoJob
  BY DEF Finish, Tamper, Tick, OrphanWrites, OrphanExits, Leave, Write, Exit, Waiting
<1>4. \/ UNCHANGED process
      \/ \E l \in Lane, how \in {"ok", "failed", "stopped"} :
           process[l] = "alive" /\ process' = [process EXCEPT ![l] = how]
  BY DEF Finish, Tamper, Tick, OrphanWrites, OrphanExits, Leave, Write, Exit
<1>5. process' \in [Lane -> {"none", "alive", "ok", "failed", "stopped", "reaped"}]
      /\ \A l \in Lane : /\ process'[l] = "none" <=> process[l] = "none"
                         /\ Works(l)' => Works(l)
  BY <1>4 DEF CampaignInv, TypeOK, Works
<1>6. /\ file' \in [Job -> Version \cup {NoFile}]
      /\ orphans' \subseteq Job /\ age' \in 0..MaxTime /\ tampers' \in 0..MaxTampers
  BY DEF Finish, Tamper, Tick, OrphanWrites, OrphanExits, Leave, Write, Exit, Works, disk,
         CampaignInv, TypeOK
<1>7. stopping' \in BOOLEAN
  BY Zenon
     DEF Finish, Tamper, Tick, OrphanWrites, OrphanExits, Leave, Write, Exit, loop, CampaignInv,
         TypeOK
<1>8. TypeOK'
  BY <1>1, <1>2, <1>3, <1>5, <1>6, <1>7 DEF CampaignInv, TypeOK
<1>9. LanesOK'
  BY <1>1, <1>2, <1>3, <1>5 DEF CampaignInv, LanesOK, TypeOK
<1>10. NeedsFirst' /\ BlameOK'
  BY <1>1, <1>5 DEF CampaignInv, NeedsFirst, BlameOK
<1>11. AttemptsOK' /\ SavedOK'
  BY <1>1, <1>2 DEF CampaignInv, AttemptsOK, SavedOK
<1> QED
  BY <1>8, <1>9, <1>10, <1>11 DEF CampaignInv

(* The limit, and what cancels lanes and commands, but for a lane it ends. *)
LEMMA CancelKeeps ==
  ASSUME CampaignInv, Signal \/ Limit \/ LimitEnds \/ \E l \in Lane : StopCommand(l) \/ Swallow(l)
  PROVE  CampaignInv'
<1> USE CampaignSizes
<1>1. UNCHANGED <<up, starts, dropped, record, saved, job, orphans, left, turn, file, tampers, age>>
  BY DEF Signal, Limit, LimitEnds, StopCommand, Swallow, disk
<1>2. \/ UNCHANGED process
      \/ \E l \in Lane, how \in {"stopped", "reaped"} :
           /\ process[l] \in {"alive", "ok", "failed"} /\ (how = "stopped" => process[l] = "alive")
           /\ process' = [process EXCEPT ![l] = how]
  BY DEF Signal, Limit, LimitEnds, StopCommand, Swallow
<1>3. /\ process' \in [Lane -> {"none", "alive", "ok", "failed", "stopped", "reaped"}]
      /\ \A l \in Lane : /\ process'[l] = "none" <=> process[l] = "none"
                         /\ Works(l)' => Works(l)
  BY <1>2 DEF CampaignInv, TypeOK, Works
<1>4. limit' \in {"none", "reached", "over"} /\ doomed' \subseteq Lane
  BY DEF Signal, Limit, LimitEnds, StopCommand, Swallow, Notices, CampaignInv, TypeOK
<1>5. stopping' \in BOOLEAN
  BY Zenon DEF Signal, Limit, LimitEnds, StopCommand, Swallow, CampaignInv, TypeOK
<1>6. TypeOK'
  BY <1>1, <1>3, <1>4, <1>5 DEF CampaignInv, TypeOK
<1>7. LanesOK'
  BY <1>1, <1>3 DEF CampaignInv, LanesOK, TypeOK
<1>8. NeedsFirst'
  BY <1>1, <1>3 DEF CampaignInv, NeedsFirst
<1>9. AttemptsOK' /\ BlameOK' /\ SavedOK'
  BY <1>1 DEF CampaignInv, AttemptsOK, BlameOK, SavedOK
<1> QED
  BY <1>6, <1>7, <1>8, <1>9 DEF CampaignInv

(* A lane that the cancellation ends.                                      *)
LEMMA DropLaneKeeps ==
  ASSUME CampaignInv, NEW l \in Lane, DropLane(l) PROVE CampaignInv'
<1> USE CampaignSizes
<1>1. /\ up = "running" /\ turn = NoLane /\ dropped' = dropped \cup {l} /\ doomed' \subseteq Lane
      /\ job' = [job EXCEPT ![l] = NoJob] /\ process' = [process EXCEPT ![l] = "none"]
      /\ UNCHANGED <<up, stopping, limit, starts, record, saved, left, turn, file, tampers, age>>
  BY DEF DropLane, Notices, Running, disk, CampaignInv, TypeOK
<1>2. orphans' \subseteq Job
  BY DEF DropLane, Works, CampaignInv, TypeOK
<1>3. /\ job' \in [Lane -> Job \cup {NoJob}] /\ job'[l] = NoJob
      /\ process' \in [Lane -> {"none", "alive", "ok", "failed", "stopped", "reaped"}] /\ process'[l] = "none"
      /\ \A k \in Lane : k # l => job'[k] = job[k] /\ process'[k] = process[k]
  BY <1>1 DEF CampaignInv, TypeOK
<1>4. TypeOK'
  BY <1>1, <1>2, <1>3 DEF CampaignInv, TypeOK
<1>5. LanesOK'
  BY <1>1, <1>3 DEF CampaignInv, LanesOK, TypeOK
<1>6. NeedsFirst'
  BY <1>1, <1>3 DEF CampaignInv, NeedsFirst, Works, TypeOK
<1>7. AttemptsOK' /\ BlameOK' /\ SavedOK'
  BY <1>1 DEF CampaignInv, AttemptsOK, BlameOK, SavedOK
<1> QED
  BY <1>4, <1>5, <1>6, <1>7 DEF CampaignInv

LEMMA CampaignStarts == Init => CampaignInv
<1> SUFFICES ASSUME Init PROVE CampaignInv
  OBVIOUS
<1> USE CampaignSizes
<1>1. record \in [Job -> JobRecord] /\ saved = record /\ \A j \in Job : record[j] = Fresh
  BY DEF Init, Fresh, JobRecord, Status
<1>2. TypeOK
  <2>1. stopping \in BOOLEAN
    BY Zenon DEF Init
  <2> QED
    BY <1>1, <2>1 DEF Init, TypeOK, Idle
<1>3. LanesOK /\ NeedsFirst /\ SavedOK
  BY DEF Init, LanesOK, NeedsFirst, Works, SavedOK, Idle
<1>4. AttemptsOK /\ BlameOK
  BY <1>1 DEF Init, AttemptsOK, BlameOK, Fresh
<1> QED
  BY <1>2, <1>3, <1>4 DEF CampaignInv

LEMMA CampaignStep == CampaignInv /\ [Next]_vars => CampaignInv'
<1> SUFFICES ASSUME CampaignInv, [Next]_vars PROVE CampaignInv'
  OBVIOUS
<1>1. CASE UNCHANGED vars
  BY <1>1
     DEF vars, loop, disk, CampaignInv, TypeOK, LanesOK, NeedsFirst, Works, AttemptsOK, BlameOK,
         SavedOK
<1>2. CASE Next
  BY <1>2, ClaimKeeps, PollKeeps, ReportKeeps, RetryKeeps, StartKeeps, CrashKeeps, LoopKeeps,
     CancelKeeps, DropLaneKeeps DEF Next, LaneStep, RunStep
<1> QED
  BY <1>1, <1>2

(* CampaignSound: jobs run after those they need, as often as they may and *)
(* one lane at a time, and fail for a reason, through retries, signals,    *)
(* crashes and resumptions.                                                *)
THEOREM CampaignIsSound == Spec => []CampaignSound
<1>1. CampaignInv => CampaignSound
  <2>1. CampaignInv => AttemptsBounded
    BY DEF CampaignInv, AttemptsOK, AttemptsBounded
  <2>2. CampaignInv => BlameJustified
    BY DEF CampaignInv, BlameOK, BlameJustified, Ended
  <2> QED
    BY <2>1, <2>2 DEF CampaignInv, CampaignSound
<1> QED
  BY <1>1, CampaignStarts, CampaignStep, PTL DEF Spec

(* FinishedStays: no step takes back what is saved as succeeded while its  *)
(* output is the recorded one.                                             *)
THEOREM DoneStaysDone == Spec => FinishedStays
<1>1. ASSUME CampaignInv, [Next]_vars, NEW j \in Job,
             saved[j].status = "succeeded", file[j] = saved[j].output
      PROVE  saved'[j].status = "succeeded"
  <2>1. CASE Start
    BY <1>1, <2>1 DEF Start, Recovered, Untrusted
  <2>2. CASE saved' = saved
    BY <1>1, <2>2
  <2>3. ASSUME up = "running", saved' = record', NEW l \in Lane, Claim(l) \/ Report(l) \/ Retry(l)
        PROVE  record'[j].status = "succeeded"
    <3>1. record[j].status = "succeeded" /\ record \in [Job -> JobRecord]
      BY <1>1, <2>3 DEF CampaignInv, SavedOK, TypeOK
    <3>2. CASE Claim(l)
      <4>1. PICK J \in SUBSET Job :
              /\ FailsInPass(record, J) /\ Candidates(Blamed(record, J), l) # {}
              /\ record' = [Blamed(record, J) EXCEPT ![Best(l, Candidates(Blamed(record, J), l))] =
                              [status |-> "running", attempts |-> @.attempts + 1,
                               blamed |-> FALSE, output |-> NoFile]]
        BY <3>2 DEF Claim
      <4> DEFINE r == Blamed(record, J)
                 b == Best(l, Candidates(r, l))
      <4>2. r \in [Job -> JobRecord] /\ r[j] = record[j]
        BY <3>1, <4>1, PassBlames
      <4>3. b \in Candidates(r, l) /\ Candidates(r, l) \subseteq Job
        BY <4>1, BestIsOne DEF Candidates
      <4>4. b # j
        BY <3>1, <4>2, <4>3 DEF Candidates, Free
      <4> HIDE DEF r, b
      <4> QED
        BY <3>1, <4>1, <4>2, <4>4 DEF r, b
    <3>3. CASE Report(l)
      <4>1. job[l] # j
        <5>1. job[l] # NoJob /\ turn = NoLane
          BY <1>1, <3>3 DEF Report, Running, CampaignInv, TypeOK
        <5>2. record[job[l]].status = "running"
          BY <1>1, <5>1, CampaignSizes DEF CampaignInv, LanesOK
        <5> QED
          BY <3>1, <5>2
      <4> QED
        BY <3>1, <3>3, <4>1 DEF Report
    <3>4. CASE Retry(l)
      BY <3>1, <3>4 DEF Retry
    <3> QED
      BY <2>3, <3>2, <3>3, <3>4
  <2>4. CASE \E l \in Lane : Claim(l) \/ Report(l) \/ Retry(l)
    <3>1. PICK l \in Lane : Claim(l) \/ Report(l) \/ Retry(l)
      BY <2>4
    <3>2. up = "running" /\ (saved' = record' \/ saved' = saved)
      BY <3>1 DEF Claim, Report, Retry, Waiting, Running
    <3> QED
      BY <1>1, <2>3, <3>1, <3>2
  <2> QED
    BY <1>1, <2>1, <2>2, <2>4
       DEF Next, LaneStep, RunStep, vars, Signal, Limit, LimitEnds, Finish, Crash, Tamper, Tick,
           OrphanWrites, OrphanExits, Poll, Leave, Write, Exit, StopCommand, Swallow, DropLane
<1>2. CampaignInv /\ [Next]_vars =>
        [\A j \in Job : saved[j].status = "succeeded" /\ file[j] = saved[j].output
                          => saved'[j].status = "succeeded"]_vars
  BY <1>1
<1> QED
  BY <1>2, CampaignStarts, CampaignStep, PTL DEF Spec, FinishedStays

-----------------------------------------------------------------------------
(* The pass as the loop.  Up to a job, those before it have failed that    *)
(* fail; so the set of them is one of FailsInPass.                         *)
Passing(g, r) ==
  g = [i \in 0..Len(Order) |-> IF i = 0 THEN r ELSE Visited(g[i - 1], Order[i])]

LEMMA Positions ==
  /\ Len(Order) \in Nat
  /\ \A j \in Job : Position(j) \in 1..Len(Order) /\ Order[Position(j)] = j
  /\ \A i \in 1..Len(Order) : Order[i] \in Job /\ Position(Order[i]) = i
<1>1. Len(Order) \in Nat /\ DOMAIN Order = 1..Len(Order)
      /\ \A i \in 1..Len(Order) : Order[i] \in Job
  BY CampaignConstants
<1>2. \A i, k \in 1..Len(Order) : Order[i] = Order[k] => i = k
  BY <1>1, CampaignConstants DEF IsInjective
<1>3. \A j \in Job : \E i \in 1..Len(Order) : Order[i] = j
  BY <1>1 DEF Job, Range
<1>4. \A j \in Job : Position(j) \in 1..Len(Order) /\ Order[Position(j)] = j
  BY <1>1, <1>3 DEF Position
<1> QED
  BY <1>1, <1>2, <1>4

LEMMA PassingExists ==
  ASSUME NEW r
  PROVE  \E g : Passing(g, r)
<1> DEFINE Value(i, g) == IF i = 0 THEN r ELSE Visited(g[i - 1], Order[i])
           Upto(m, g) == g = [i \in 0..m |-> Value(i, g)]
           Bad == {m \in Nat : ~ \E g : Upto(m, g)}
<1>1. Bad = {}
  <2> SUFFICES ASSUME Bad # {} PROVE FALSE
    OBVIOUS
  <2>1. PICK m \in Bad : \A k \in Bad : m <= k
    <3>1. Bad \in SUBSET Nat
      OBVIOUS
    <3> HIDE DEF Bad
    <3> QED
      BY <3>1, LeastNumber
  <2>2. CASE m = 0
    <3> DEFINE g == [i \in 0..0 |-> r]
    <3>1. g = [i \in 0..0 |-> Value(i, g)]
      OBVIOUS
    <3> QED
      BY <2>1, <2>2, <3>1
  <2>3. CASE m # 0
    <3>1. m \in Nat /\ m - 1 \in Nat /\ m - 1 \notin Bad
      <4>1. m \in Nat /\ \A k \in Bad : m <= k
        BY <2>1
      <4> HIDE DEF Bad
      <4> QED
        BY <2>3, <4>1
    <3>2. PICK h : Upto(m - 1, h)
      BY <3>1
    <3> DEFINE g == [i \in 0..m |-> Value(i, h)]
    <3>3. \A i \in 0..m : i # 0 => i - 1 \in 0..(m - 1) /\ i - 1 \in 0..m
      BY <3>1
    <3>4. ASSUME NEW i \in 0..m, i # 0 PROVE g[i - 1] = h[i - 1]
      <4> DEFINE k == i - 1
      <4>1. k \in 0..(m - 1) /\ k \in 0..m
        BY <3>3, <3>4
      <4> HIDE DEF k, Value
      <4>2. h[k] = Value(k, h)
        <5>1. h = [q \in 0..(m - 1) |-> Value(q, h)]
          BY <3>2
        <5> HIDE DEF Upto
        <5> QED
          BY <4>1, <5>1, Zenon
      <4>3. g[k] = Value(k, h)
        BY <4>1
      <4> QED
        BY <4>2, <4>3 DEF k
    <3>5. \A i \in 0..m : Value(i, h) = Value(i, g)
      <4> TAKE i \in 0..m
      <4>1. i # 0 => g[i - 1] = h[i - 1]
        BY <3>4
      <4> HIDE DEF g
      <4> QED
        BY <4>1
    <3>6. g = [i \in 0..m |-> Value(i, g)]
      <4> HIDE DEF Value
      <4> QED
        BY <3>5
    <3>7. Upto(m, g)
      BY <3>6
    <3> QED
      BY <2>1, <3>7
  <2> QED
    BY <2>2, <2>3
<1>2. PICK g : Upto(Len(Order), g)
  BY <1>1, Positions
<1> QED
  BY <1>2 DEF Passing

(* Two sets of FailsInPass would differ first at some job.                 *)
LEMMA OneSetFails ==
  ASSUME NEW r, NEW J \in SUBSET Job, NEW K \in SUBSET Job,
         FailsInPass(r, J), FailsInPass(r, K)
  PROVE  J = K
<1> DEFINE Bad == {Position(j) : j \in {j \in Job : ~ (j \in J <=> j \in K)}}
<1>1. CASE Bad = {}
  BY <1>1
<1>2. CASE Bad # {}
  <2>1. Bad \in SUBSET Nat
    BY Positions
  <2>2. PICK p \in Bad : \A q \in Bad : p <= q
    <3> HIDE DEF Bad
    <3> QED
      BY <1>2, <2>1, LeastNumber
  <2>3. PICK j \in Job : p = Position(j) /\ ~ (j \in J <=> j \in K)
    BY <2>2
  <2>4. \A n \in Job : Position(n) < Position(j) => (n \in J <=> n \in K)
    <3>1. ASSUME NEW n \in Job, Position(n) < Position(j), ~ (n \in J <=> n \in K) PROVE FALSE
      <4>1. Position(n) \in Bad
        BY <3>1
      <4>2. Position(j) <= Position(n) /\ Position(n) \in Nat /\ Position(j) \in Nat
        BY <2>2, <2>3, <4>1, Positions
      <4> QED
        BY <3>1, <4>2
    <3> QED
      BY <3>1
  <2>5. Needs[j] \subseteq Job
    BY CampaignSizes
  <2>6. (\E n \in Needs[j] \cap J : Position(n) < Position(j))
          <=> (\E n \in Needs[j] \cap K : Position(n) < Position(j))
    BY <2>4, <2>5
  <2> QED
    BY <2>3, <2>6 DEF FailsInPass
<1> QED
  BY <1>1, <1>2

(* FailsInPass names what the loop of the code over the jobs comes to: for *)
(* any records there is one such set of jobs, and blaming it is the pass.  *)
THEOREM PassIsTheLoop ==
  ASSUME NEW r \in [Job -> JobRecord]
  PROVE  /\ \E J \in SUBSET Job : FailsInPass(r, J)
         /\ \A J \in SUBSET Job : FailsInPass(r, J) => Blamed(r, J) = Pass(r)
<1> DEFINE P == CHOOSE g : Passing(g, r)
           n == Len(Order)
<1>1. Passing(P, r)
  BY PassingExists
<1>2. Pass(r) = P[n]
  BY DEF Pass, Passing
<1> HIDE DEF P
<1>3. n \in Nat
  BY Positions
<1>4. P[0] = r /\ \A i \in 1..n : P[i] = Visited(P[i - 1], Order[i])
  <2>1. 0 \in 0..n /\ \A i \in 1..n : i \in 0..n /\ i # 0
    BY <1>3
  <2> QED
    BY <1>1, <2>1 DEF Passing
<1> HIDE DEF n
<1> DEFINE J == {j \in Job : r[j].status = "pending" /\ FailedNeeds(P[Position(j) - 1], j) # {}}
           Before(i) == {j \in J : Position(j) <= i}
           Bad == {i \in 0..n : P[i] # Blamed(r, Before(i))}
<1>5. \A i \in 0..n : P[i] = Blamed(r, Before(i))
  <2> SUFFICES ASSUME Bad # {} PROVE FALSE
    OBVIOUS
  <2>1. PICK i \in Bad : \A k \in Bad : i <= k
    <3>1. Bad \in SUBSET Nat
      BY <1>3
    <3> HIDE DEF Bad
    <3> QED
      BY <3>1, LeastNumber
  <2>2. i \in 0..n /\ P[i] # Blamed(r, Before(i))
    BY <2>1
  <2>3. CASE i = 0
    <3>1. Before(0) = {}
      BY Positions
    <3>2. Blamed(r, {}) = r
      BY DEF Blamed
    <3> QED
      BY <1>4, <2>2, <2>3, <3>1, <3>2
  <2>4. CASE i # 0
    <3>1. i \in 1..n /\ i - 1 \in 0..n
      BY <1>3, <2>2, <2>4
    <3>2. P[i - 1] = Blamed(r, Before(i - 1))
      <4>1. i - 1 \notin Bad
        <5>1. \A k \in Bad : i <= k
          BY <2>1
        <5> HIDE DEF Bad
        <5> QED
          BY <3>1, <5>1
      <4> QED
        BY <3>1, <4>1
    <3> DEFINE o == Order[i]
               q == P[i - 1]
    <3>3. o \in Job /\ Position(o) = i
      BY <3>1, Positions DEF n
    <3>4. o \notin Before(i - 1)
      BY <3>1, <3>3
    <3>5. q[o] = r[o]
      BY <3>2, <3>3, <3>4 DEF Blamed
    <3>6. P[i] = Visited(q, o)
      BY <1>4, <3>1
    <3>7. o \in J <=> q[o].status = "pending" /\ FailedNeeds(q, o) # {}
      BY <3>3, <3>5
    <3>8. \A j \in Job : Position(j) \in Nat /\ (Position(j) = i => j = o)
      BY <3>3, Positions
    <3> HIDE DEF q, o, J
    <3>9. CASE o \in J
      <4>1. Before(i) = Before(i - 1) \cup {o}
        BY <3>1, <3>3, <3>8, <3>9 DEF J
      <4>2. P[i] = Blamed(q, {o})
        BY <3>6, <3>7, <3>9 DEF Visited
      <4> HIDE DEF Before
      <4>3. Blamed(Blamed(r, Before(i - 1)), {o}) = Blamed(r, Before(i - 1) \cup {o})
        BY <3>4 DEF Blamed
      <4> QED
        BY <2>2, <3>2, <4>1, <4>2, <4>3 DEF q
    <3>10. CASE o \notin J
      <4>1. Before(i) = Before(i - 1)
        BY <3>1, <3>3, <3>8, <3>10 DEF J
      <4>2. P[i] = q
        BY <3>6, <3>7, <3>10 DEF Visited
      <4> QED
        BY <2>2, <3>2, <4>1, <4>2 DEF q
    <3> QED
      BY <3>9, <3>10
  <2> QED
    BY <2>3, <2>4
<1>6. P[n] = Blamed(r, J)
  <2>1. Before(n) = J /\ n \in 0..n
    BY <1>3, Positions DEF n
  <2> QED
    BY <1>5, <2>1
<1>7. FailsInPass(r, J)
  <2> SUFFICES ASSUME NEW j \in Job, r[j].status = "pending"
               PROVE  FailedNeeds(P[Position(j) - 1], j) # {}
                        <=> FailedNeeds(r, j) # {}
                            \/ \E k \in Needs[j] \cap J : Position(k) < Position(j)
    BY DEF FailsInPass
  <2> DEFINE i == Position(j) - 1
             q == P[i]
  <2>1. i \in 0..n /\ i + 1 = Position(j)
    BY Positions DEF n
  <2>2. q = Blamed(r, Before(i))
    BY <1>5, <2>1
  <2>3. Needs[j] \subseteq Job
    BY CampaignSizes
  <2>4. \A k \in J : r[k].status = "pending" /\ Position(k) \in Nat
    BY Positions
  <2> HIDE DEF q, i, J
  <2>5. \A k \in Job : k \in Before(i) <=> k \in J /\ Position(k) < Position(j)
    <3>1. i \in Nat /\ Position(j) = i + 1
      BY <1>3, <2>1
    <3> QED
      BY <2>4, <3>1
  <2> HIDE DEF Before
  <2>6. \A k \in Job : q[k].status = IF k \in Before(i) THEN "failed" ELSE r[k].status
    BY <2>2 DEF Blamed, JobRecord
  <2>7. \A k \in Needs[j] : q[k].status \in Final \ {"succeeded"}
          <=> r[k].status \in Final \ {"succeeded"} \/ (k \in J /\ Position(k) < Position(j))
    BY <2>3, <2>5, <2>6 DEF Final
  <2>8. FailedNeeds(q, j) # {} <=> FailedNeeds(r, j) # {}
                                   \/ \E k \in Needs[j] \cap J : Position(k) < Position(j)
    BY <2>7 DEF FailedNeeds
  <2> QED
    BY <2>8 DEF q, i
<1>8. J \in SUBSET Job
  OBVIOUS
<1> HIDE DEF J
<1>9. \A K \in SUBSET Job : FailsInPass(r, K) => K = J
  BY <1>7, <1>8, OneSetFails
<1> QED
  BY <1>2, <1>6, <1>7, <1>8, <1>9

=============================================================================
