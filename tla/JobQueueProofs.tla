---------------------------- MODULE JobQueueProofs ----------------------------
(***************************************************************************)
(* What holds of JobQueue for any number of jobs, workers, cancel requests *)
(* and faults.                                                             *)
(***************************************************************************)
EXTENDS JobQueue, FiniteSetTheorems, TLAPS

(* A worker that is in the loop, and a cancel request between its read and  *)
(* its write, know the job they are about.                                  *)
HasJob ==
  /\ \A w \in Workers : pc[w] # "idle" => wjob[w] \in Jobs
  /\ \A r \in Requests : rpc[r] = "loaded" => rjob[r] \in Jobs

TInv == TypeOK /\ HasJob

(* A claim takes one job that was pending, or whose run lost its lease.     *)
LEMMA ClaimPicks ==
  ASSUME NEW w \in Workers, Claim(w)
  PROVE  \E j \in Jobs : (status[j] = "pending" \/ Expired(j)) /\ Take(w, j)
BY DEF Claim, Claimable, Requeued

LEMMA TInvInit == Init => TInv
BY JobsAssumption, WorkersAssumption
   DEF Init, TInv, TypeOK, HasJob, Statuses, TERMINAL_STATUSES, Jobs

(* Every transaction keeps the columns in their types and the workers and   *)
(* requests pointed at real jobs.                                           *)
LEMMA TInvNext == TInv /\ [Next]_vars => TInv'
<1> SUFFICES ASSUME TInv, [Next]_vars PROVE TInv'
  OBVIOUS
<1> USE JobsAssumption, WorkersAssumption
    DEF TInv, TypeOK, HasJob, Statuses, TERMINAL_STATUSES, row, worker, request
<1>1. ASSUME NEW j \in Jobs, Enqueue(j) PROVE TInv'
  BY <1>1 DEF Enqueue
<1>2. ASSUME NEW j \in Jobs, BecomeDue(j) PROVE TInv'
  BY <1>2 DEF BecomeDue
<1>3. ASSUME NEW j \in Jobs, LeaseLapses(j) PROVE TInv'
  BY <1>3 DEF LeaseLapses, Expire
<1>4. ASSUME NEW j \in Jobs, LeaseOverruns(j) PROVE TInv'
  BY <1>4 DEF LeaseOverruns, Expire
<1>5. ASSUME NEW w \in Workers, Poll(w) PROVE TInv'
  BY <1>5 DEF Poll, Requeued, RequeueOwner
<1>6. ASSUME NEW w \in Workers, Claim(w) PROVE TInv'
  <2>1. PICK j \in Jobs : Take(w, j)
    BY <1>6, ClaimPicks
  <2>2. status' \in [Jobs -> Statuses] /\ attempts' \in [Jobs -> Nat]
    BY <2>1 DEF Take, Requeued
  <2>3. lease' \in [Jobs -> {"none", "live", "expired"}] /\ due' \in [Jobs -> BOOLEAN]
    BY <2>1 DEF Take, Requeued
  <2>4. lease_owner' \in [Jobs -> Owners \union {NoOwner}]
    BY <2>1 DEF Take, Requeued, RequeueOwner
  <2>5. /\ pc' \in [Workers -> {"idle", "claimed", "processing", "raised", "failing"}]
        /\ wjob' \in [Workers -> Jobs \union {NoJob}]
        /\ \A v \in Workers : pc'[v] # "idle" => wjob'[v] \in Jobs
    BY <2>1 DEF Take
  <2>6. QED
    BY <2>1, <2>2, <2>3, <2>4, <2>5 DEF Take
<1>7. ASSUME NEW w \in Workers, Begin(w) PROVE TInv'
  BY <1>7 DEF Begin, GoIdle
<1>8. ASSUME NEW w \in Workers, Finish(w) PROVE TInv'
  BY <1>8 DEF Finish, Settle, GoIdle
<1>9. ASSUME NEW w \in Workers, Raise(w) PROVE TInv'
  BY <1>9 DEF Raise
<1>10. ASSUME NEW w \in Workers, FailRead(w) PROVE TInv'
  BY <1>10 DEF FailRead, GoIdle
<1>11. ASSUME NEW w \in Workers, FailCommit(w) PROVE TInv'
  BY <1>11 DEF FailCommit, FailStatus, Settle, GoIdle
<1>12. ASSUME NEW w \in Workers, Crash(w) PROVE TInv'
  BY <1>12 DEF Crash, GoIdle
<1>13. ASSUME NEW r \in Requests, NEW j \in Jobs, CancelRead(r, j) PROVE TInv'
  BY <1>13 DEF CancelRead
<1>14. ASSUME NEW r \in Requests, CancelCommit(r) PROVE TInv'
  BY <1>14 DEF CancelCommit, Settle
<1>15. CASE UNCHANGED vars
  BY <1>15 DEF vars
<1>16. QED
  BY <1>1, <1>2, <1>3, <1>4, <1>5, <1>6, <1>7, <1>8, <1>9, <1>10, <1>11, <1>12,
     <1>13, <1>14, <1>15 DEF Next, Proceed

(* Type correctness: the rows, the workers and the requests keep their types.*)
THEOREM TypeCorrect == Spec => []TypeOK
<1>1. TInv => TypeOK
  BY DEF TInv
<1>2. QED
  BY <1>1, TInvInit, TInvNext, PTL DEF Spec

LEMMA TInvariant == Spec => []TInv
BY TInvInit, TInvNext, PTL DEF Spec

-----------------------------------------------------------------------------
(* LeaseCoherent is not inductive by itself: a row that is not enqueued yet  *)
(* must have no lease either.                                                *)
LeaseInv ==
  /\ LeaseCoherent
  /\ \A j \in Jobs : status[j] = "absent" => lease[j] = "none" /\ lease_owner[j] = NoOwner

LEMMA LeaseNext == TInv /\ LeaseInv /\ [Next]_vars => LeaseInv'
<1> SUFFICES ASSUME TInv, LeaseInv, [Next]_vars PROVE LeaseInv'
  OBVIOUS
<1> USE JobsAssumption, WorkersAssumption
    DEF TInv, TypeOK, HasJob, LeaseInv, LeaseCoherent, row
<1>1. ASSUME NEW j \in Jobs, Enqueue(j) PROVE LeaseInv'
  BY <1>1 DEF Enqueue
<1>2. ASSUME NEW j \in Jobs, BecomeDue(j) PROVE LeaseInv'
  BY <1>2 DEF BecomeDue
<1>3. ASSUME NEW j \in Jobs, Expire(j) PROVE LeaseInv'
  BY <1>3 DEF Expire
<1>4. ASSUME NEW w \in Workers, Poll(w) PROVE LeaseInv'
  BY <1>4 DEF Poll, Requeued, RequeueOwner, Expired
<1>5. ASSUME NEW w \in Workers, Claim(w) PROVE LeaseInv'
  <2>1. PICK j \in Jobs : Take(w, j)
    BY <1>5, ClaimPicks
  <2>2. ASSUME NEW k \in Jobs, k # j
        PROVE  /\ status'[k] = Requeued(status, "pending")[k]
               /\ lease'[k] = Requeued(lease, "none")[k]
               /\ lease_owner'[k] = RequeueOwner[k]
    BY <2>1, <2>2 DEF Take, Requeued, RequeueOwner
  <2>3. status'[j] = "running" /\ lease'[j] = "live" /\ lease_owner'[j] = OwnerOf[w]
    BY <2>1 DEF Take, Requeued, RequeueOwner
  <2>4. QED
    BY <2>2, <2>3 DEF Requeued, RequeueOwner, Expired
<1>6. ASSUME NEW j \in Jobs, NEW s \in {"completed", "pending", "failed", "cancelled"},
             Settle(j, s)
      PROVE  LeaseInv'
  BY <1>6 DEF Settle
<1>7. ASSUME NEW w \in Workers, Proceed(w) PROVE LeaseInv'
  <2>1. CASE Begin(w) \/ Raise(w) \/ FailRead(w)
    BY <2>1 DEF Begin, Raise, FailRead
  <2>2. CASE Finish(w)
    BY <2>2, <1>6 DEF Finish
  <2>3. CASE FailCommit(w)
    BY <2>3, <1>6 DEF FailCommit, FailStatus
  <2>4. QED
    BY <1>7, <2>1, <2>2, <2>3 DEF Proceed
<1>8. ASSUME NEW w \in Workers, Crash(w) PROVE LeaseInv'
  BY <1>8 DEF Crash
<1>9. ASSUME NEW r \in Requests, NEW j \in Jobs, CancelRead(r, j) PROVE LeaseInv'
  BY <1>9 DEF CancelRead
<1>10. ASSUME NEW r \in Requests, CancelCommit(r) PROVE LeaseInv'
  <2>1. CASE rseen[r] = "running"
    BY <2>1, <1>10, <1>6 DEF CancelCommit
  <2>2. CASE rseen[r] # "running"
    BY <2>2, <1>10 DEF CancelCommit
  <2>3. QED
    BY <2>1, <2>2
<1>11. CASE UNCHANGED vars
  BY <1>11 DEF vars
<1>12. QED
  BY <1>1, <1>2, <1>3, <1>4, <1>5, <1>7, <1>8, <1>9, <1>10, <1>11
     DEF Next, LeaseLapses, LeaseOverruns

(* A running job always has an owner and an expiry and a pending one neither,*)
(* whatever late writes land on the row: no run is out of reach of           *)
(* requeue_expired.                                                          *)
THEOREM LeasesCoherent == Spec => []LeaseCoherent
<1>1. Init => LeaseInv
  BY DEF Init, LeaseInv, LeaseCoherent
<1>2. LeaseInv => LeaseCoherent
  BY DEF LeaseInv
<1>3. QED
  BY <1>1, <1>2, LeaseNext, TInvariant, PTL DEF Spec
-----------------------------------------------------------------------------
(* A failing session has loaded a number of attempts the row has really had, *)
(* and attempts only grow: that is why a late failure cannot give up early.  *)
SeenIsPast ==
  \A w \in Workers :
    pc[w] \in {"processing", "failing"} => seen[w] <= attempts[wjob[w]]

FailInv == SeenIsPast /\ FailedIsExhausted /\ FailedIsAlerted

LEMMA FailNext == TInv /\ FailInv /\ [Next]_vars => FailInv'
<1> SUFFICES ASSUME TInv, FailInv, [Next]_vars PROVE FailInv'
  OBVIOUS
<1> USE JobsAssumption
    DEF TInv, TypeOK, HasJob, FailInv, SeenIsPast, FailedIsExhausted,
        FailedIsAlerted, row, worker, request
<1>1. ASSUME NEW j \in Jobs, Enqueue(j) PROVE FailInv'
  BY <1>1 DEF Enqueue
<1>2. ASSUME NEW j \in Jobs, BecomeDue(j) PROVE FailInv'
  BY <1>2 DEF BecomeDue
<1>3. ASSUME NEW j \in Jobs, LeaseLapses(j) \/ LeaseOverruns(j) PROVE FailInv'
  BY <1>3 DEF LeaseLapses, LeaseOverruns, Expire
<1>4. ASSUME NEW w \in Workers, Poll(w) PROVE FailInv'
  BY <1>4 DEF Poll, Requeued
<1>5. ASSUME NEW w \in Workers, Claim(w) PROVE FailInv'
  <2>1. PICK j \in Jobs : Take(w, j)
    BY <1>5, ClaimPicks
  <2>2. /\ attempts'[j] = attempts[j] + 1
        /\ \A k \in Jobs \ {j} : attempts'[k] = attempts[k]
        /\ \A k \in Jobs : status'[k] = "failed" => status[k] = "failed"
    BY <2>1 DEF Take, Requeued
  <2>3. /\ pc'[w] = "claimed" /\ seen' = seen /\ alerted' = alerted
        /\ \A v \in Workers \ {w} : pc'[v] = pc[v] /\ wjob'[v] = wjob[v]
    BY <2>1 DEF Take
  <2>4. QED
    BY <2>2, <2>3
<1>6. ASSUME NEW w \in Workers, Begin(w) PROVE FailInv'
  BY <1>6 DEF Begin, GoIdle
<1>7. ASSUME NEW w \in Workers, Finish(w) PROVE FailInv'
  BY <1>7 DEF Finish, Settle, GoIdle
<1>8. ASSUME NEW w \in Workers, Raise(w) PROVE FailInv'
  BY <1>8 DEF Raise
<1>9. ASSUME NEW w \in Workers, FailRead(w) PROVE FailInv'
  BY <1>9 DEF FailRead, GoIdle
<1>10. ASSUME NEW w \in Workers, FailCommit(w) PROVE FailInv'
  <2> DEFINE j == wjob[w]
  <2>1. /\ j \in Jobs /\ seen[w] <= attempts[j] /\ attempts' = attempts /\ seen' = seen
        /\ \A v \in Workers : pc'[v] \in {"processing", "failing"}
                               => pc[v] = pc'[v] /\ wjob'[v] = wjob[v]
    BY <1>10 DEF FailCommit, GoIdle
  <2>2. /\ status'[j] = FailStatus(seen[w], j)
        /\ \A k \in Jobs \ {j} : status'[k] = status[k]
        /\ alerted' = IF Alert(seen[w], j) THEN alerted \union {j} ELSE alerted
    BY <1>10 DEF FailCommit, Settle
  <2>3. status'[j] = "failed" => attempts[j] >= MaxAttempts[j]
    BY <2>1, <2>2 DEF FailStatus
  <2>4. status'[j] = "failed" /\ j \notin NotifyJobs => j \in alerted'
    BY <2>2 DEF Alert
  <2>5. QED
    BY <2>1, <2>2, <2>3, <2>4
<1>11. ASSUME NEW w \in Workers, Crash(w) PROVE FailInv'
  BY <1>11 DEF Crash, GoIdle
<1>12. ASSUME NEW r \in Requests, NEW j \in Jobs, CancelRead(r, j) PROVE FailInv'
  BY <1>12 DEF CancelRead
<1>13. ASSUME NEW r \in Requests, CancelCommit(r) PROVE FailInv'
  BY <1>13 DEF CancelCommit, Settle
<1>14. CASE UNCHANGED vars
  BY <1>14 DEF vars
<1>15. QED
  BY <1>1, <1>2, <1>3, <1>4, <1>5, <1>6, <1>7, <1>8, <1>9, <1>10, <1>11, <1>12,
     <1>13, <1>14 DEF Next, Proceed

LEMMA FailInvariant == Spec => []FailInv
<1>1. Init => FailInv
  BY DEF Init, FailInv, SeenIsPast, FailedIsExhausted, FailedIsAlerted
<1>2. QED
  BY <1>1, FailNext, TInvariant, PTL DEF Spec

(* A job is given up only when its attempts are used, although the failure   *)
(* may be committed by a worker whose lease has passed to another.           *)
THEOREM FailuresAreExhausted == Spec => []FailedIsExhausted
<1>1. FailInv => FailedIsExhausted
  BY DEF FailInv
<1>2. QED
  BY <1>1, FailInvariant, PTL

(* No job other than an alert is ever failed without an alert in the queue.  *)
THEOREM FailuresAreAlerted == Spec => []FailedIsAlerted
<1>1. FailInv => FailedIsAlerted
  BY DEF FailInv
<1>2. QED
  BY <1>1, FailInvariant, PTL

-----------------------------------------------------------------------------
(* The argument for fencing: a worker that processes the latest attempt of a *)
(* job still running holds its lease, so a second worker that re-reads that  *)
(* row finds another owner, provided no two workers share an owner name.     *)
DistinctOwners == \A v, w \in Workers : OwnerOf[v] = OwnerOf[w] => v = w

HoldsCurrent ==
  \A w \in Workers :
    (/\ pc[w] = "processing" /\ status[wjob[w]] = "running"
     /\ seen[w] = attempts[wjob[w]])
      => lease_owner[wjob[w]] = OwnerOf[w]

FenceInv == SeenIsPast /\ HoldsCurrent /\ OneRunPerAttempt
LEMMA FenceNext ==
  DistinctOwners /\ TInv /\ FenceInv /\ [Next]_vars => FenceInv'
<1> SUFFICES ASSUME DistinctOwners, TInv, FenceInv, [Next]_vars PROVE FenceInv'
  OBVIOUS
<1> USE JobsAssumption, WorkersAssumption
    DEF TInv, TypeOK, HasJob, FenceInv, SeenIsPast, HoldsCurrent, OneRunPerAttempt,
        row, worker, request
<1>1. ASSUME NEW j \in Jobs, Enqueue(j) PROVE FenceInv'
  BY <1>1 DEF Enqueue
<1>2. ASSUME NEW j \in Jobs, BecomeDue(j) PROVE FenceInv'
  BY <1>2 DEF BecomeDue
<1>3. ASSUME NEW j \in Jobs, LeaseLapses(j) \/ LeaseOverruns(j) PROVE FenceInv'
  BY <1>3 DEF LeaseLapses, LeaseOverruns, Expire
<1>4. ASSUME NEW w \in Workers, Poll(w) PROVE FenceInv'
  <2>1. \A k \in Jobs : status'[k] = "running" =>
                          status[k] = "running" /\ lease_owner'[k] = lease_owner[k]
    BY <1>4 DEF Poll, Requeued, RequeueOwner
  <2>2. QED
    BY <1>4, <2>1 DEF Poll
<1>5. ASSUME NEW w \in Workers, Claim(w) PROVE FenceInv'
  <2>1. PICK j \in Jobs : Take(w, j)
    BY <1>5, ClaimPicks
  <2>2. /\ attempts'[j] = attempts[j] + 1
        /\ \A k \in Jobs \ {j} :
             /\ attempts'[k] = attempts[k]
             /\ status'[k] = "running" =>
                  status[k] = "running" /\ lease_owner'[k] = lease_owner[k]
    BY <2>1 DEF Take, Requeued, RequeueOwner
  <2>3. /\ pc'[w] = "claimed" /\ seen' = seen
        /\ \A v \in Workers \ {w} : pc'[v] = pc[v] /\ wjob'[v] = wjob[v]
    BY <2>1 DEF Take
  <2>4. SeenIsPast' /\ OneRunPerAttempt'
    BY <2>2, <2>3
  <2>5. HoldsCurrent'
    BY <2>2, <2>3
  <2>6. QED
    BY <2>4, <2>5
<1>6. ASSUME NEW w \in Workers, Begin(w) PROVE FenceInv'
  <2>1. CASE ~StillMine(w)
    BY <2>1, <1>6 DEF Begin, GoIdle
  <2>2. CASE StillMine(w)
    <3>1. /\ pc' = [pc EXCEPT ![w] = "processing"] /\ wjob' = wjob
          /\ seen' = [seen EXCEPT ![w] = attempts[wjob[w]]]
          /\ UNCHANGED <<status, attempts, lease_owner>> /\ pc[w] = "claimed"
      BY <2>2, <1>6 DEF Begin
    <3>2. SeenIsPast' /\ HoldsCurrent'
      BY <2>2, <3>1 DEF StillMine
    <3>3. ASSUME NEW v \in Workers, v # w, pc[v] = "processing", wjob[v] = wjob[w]
          PROVE  seen[v] # attempts[wjob[w]]
      BY <2>2, <3>3 DEF StillMine, DistinctOwners
    <3>4. OneRunPerAttempt'
      BY <3>1, <3>3
    <3>5. QED
      BY <3>2, <3>4
  <2>3. QED
    BY <2>1, <2>2
<1>7. ASSUME NEW w \in Workers, Finish(w) PROVE FenceInv'
  BY <1>7 DEF Finish, Settle, GoIdle
<1>8. ASSUME NEW w \in Workers, Raise(w) PROVE FenceInv'
  BY <1>8 DEF Raise
<1>9. ASSUME NEW w \in Workers, FailRead(w) PROVE FenceInv'
  BY <1>9 DEF FailRead, GoIdle
<1>10. ASSUME NEW w \in Workers, FailCommit(w) PROVE FenceInv'
  <2>1. FailStatus(seen[w], wjob[w]) # "running"
    BY DEF FailStatus
  <2>2. QED
    BY <1>10, <2>1 DEF FailCommit, Settle, GoIdle
<1>11. ASSUME NEW w \in Workers, Crash(w) PROVE FenceInv'
  BY <1>11 DEF Crash, GoIdle
<1>12. ASSUME NEW r \in Requests, NEW j \in Jobs, CancelRead(r, j) PROVE FenceInv'
  BY <1>12 DEF CancelRead
<1>13. ASSUME NEW r \in Requests, CancelCommit(r) PROVE FenceInv'
  BY <1>13 DEF CancelCommit, Settle
<1>14. CASE UNCHANGED vars
  BY <1>14 DEF vars
<1>15. QED
  BY <1>1, <1>2, <1>3, <1>4, <1>5, <1>6, <1>7, <1>8, <1>9, <1>10, <1>11, <1>12,
     <1>13, <1>14 DEF Next, Proceed

(* With distinct worker ids, an attempt of a job is processed by one worker  *)
(* only, however leases expire between a claim and the worker's re-read.     *)
THEOREM Fencing == ASSUME DistinctOwners PROVE Spec => []OneRunPerAttempt
<1>1. Init => FenceInv
  BY DEF Init, FenceInv, SeenIsPast, HoldsCurrent, OneRunPerAttempt
<1>2. TInv /\ FenceInv /\ [Next]_vars => FenceInv'
  BY FenceNext
<1>3. FenceInv => OneRunPerAttempt
  BY DEF FenceInv
<1>4. QED
  BY <1>1, <1>2, <1>3, TInvariant, PTL DEF Spec

-----------------------------------------------------------------------------
(* No step but the commit of a failure handler reopens a cancelled job, for  *)
(* any number of workers and concurrent cancel requests.                     *)
THEOREM CancelUndone == Spec => CancelUndoneOnlyByFailure
<1> DEFINE Kept == \A j \in Jobs :
      (status[j] = "cancelled" /\ status'[j] \in {"pending", "running"})
        => \E w \in Workers : pc[w] = "failing" /\ wjob[w] = j
<1>1. ASSUME TInv, [Next]_vars PROVE [Kept]_vars
  <2> USE JobsAssumption DEF TInv, TypeOK, HasJob, row
  <2>1. ASSUME NEW j \in Jobs,
               Enqueue(j) \/ BecomeDue(j) \/ LeaseLapses(j) \/ LeaseOverruns(j)
        PROVE  Kept
    <3>1. CASE Enqueue(j)
      BY <3>1 DEF Enqueue
    <3>2. CASE status' = status
      BY <3>2
    <3>3. QED
      BY <2>1, <3>1, <3>2 DEF BecomeDue, LeaseLapses, LeaseOverruns, Expire
  <2>2. ASSUME NEW w \in Workers, Poll(w) PROVE Kept
    BY <2>2 DEF Poll, Requeued, Expired
  <2>3. ASSUME NEW w \in Workers, Claim(w) PROVE Kept
    <3>1. PICK j \in Jobs : (status[j] = "pending" \/ Expired(j)) /\ Take(w, j)
      BY <2>3, ClaimPicks
    <3>2. QED
      BY <3>1 DEF Take, Requeued, Expired
  <2>4. ASSUME NEW w \in Workers, Begin(w) \/ Raise(w) \/ FailRead(w) \/ Crash(w)
        PROVE  Kept
    BY <2>4 DEF Begin, Raise, FailRead, Crash
  <2>5. ASSUME NEW w \in Workers, Finish(w) PROVE Kept
    BY <2>5 DEF Finish, Settle
  <2>6. ASSUME NEW w \in Workers, FailCommit(w) PROVE Kept
    BY <2>6 DEF FailCommit, Settle
  <2>7. ASSUME NEW r \in Requests, NEW j \in Jobs, CancelRead(r, j) PROVE Kept
    BY <2>7 DEF CancelRead
  <2>8. ASSUME NEW r \in Requests, CancelCommit(r) PROVE Kept
    <3>1. status' = [status EXCEPT ![rjob[r]] = "cancelled"]
      BY <2>8 DEF CancelCommit, Settle
    <3>2. QED
      BY <3>1
  <2>9. QED
    BY <1>1, <2>1, <2>2, <2>3, <2>4, <2>5, <2>6, <2>7, <2>8 DEF Next, Proceed
<1>2. QED
  BY <1>1, TInvariant, PTL DEF Spec, CancelUndoneOnlyByFailure

-----------------------------------------------------------------------------
(* Starts beyond the limit.  On(j) are the workers that have the job in hand *)
(* and Late(j) those of them about to put it back on an old count; Loose(j)  *)
(* says that a claim may take it now, or once a lease lapses that no worker  *)
(* renews.  A worker that leaves frees the job at most once, and what the    *)
(* crowd around a job has in excess of one worker was paid for by faults.    *)
On(j) == {w \in Workers : wjob[w] = j}
Late(j) == {w \in On(j) : pc[w] = "failing" /\ seen[w] < MaxAttempts[j]}
Held(j) == \E w \in On(j) : OwnerOf[w] = lease_owner[j]
Loose(j) ==
  \/ status[j] = "pending"
  \/ status[j] = "running" /\ (lease[j] = "expired" \/ ~Held(j))
Free(j) == IF Loose(j) THEN 1 ELSE 0

Paid(j) ==
  /\ status[j] = "absent" => On(j) = {} /\ attempts[j] = 0
  /\ Cardinality(On(j)) + Free(j) <= 1 + faults
  /\ attempts[j] >= MaxAttempts[j] =>
       attempts[j] + Free(j) + Cardinality(Late(j)) <= MaxAttempts[j] + faults

PaidInv ==
  /\ \A w \in Workers : pc[w] = "idle" => wjob[w] = NoJob
  /\ \A j \in Jobs : Paid(j)

LEMMA Numbers ==
  ASSUME TInv, NEW j \in Jobs
  PROVE  /\ IsFiniteSet(On(j)) /\ Cardinality(On(j)) \in Nat
         /\ IsFiniteSet(Late(j)) /\ Cardinality(Late(j)) \in Nat
         /\ Cardinality(Late(j)) <= Cardinality(On(j))
         /\ attempts[j] \in Nat /\ MaxAttempts[j] \in Nat \ {0} /\ faults \in Nat
<1>1. On(j) \subseteq Workers /\ Late(j) \subseteq On(j)
  BY DEF On, Late
<1>2. IsFiniteSet(On(j)) /\ IsFiniteSet(Late(j))
      /\ Cardinality(Late(j)) <= Cardinality(On(j))
  BY <1>1, WorkersAssumption, FS_Subset
<1>3. QED
  BY <1>2, FS_CardinalityType, JobsAssumption DEF TInv, TypeOK

(* A step that neither starts the job nor frees it, *)
LEMMA PaidKept ==
  ASSUME TInv, TInv', NEW j \in Jobs, Paid(j), UNCHANGED <<attempts, faults>>,
         On(j)' \subseteq On(j), Loose(j)' => Loose(j),
         attempts[j] >= MaxAttempts[j] => Late(j)' \subseteq Late(j),
         status'[j] = "absent" => status[j] = "absent"
  PROVE  Paid(j)'
<1> USE DEF Paid
<1>1. Cardinality(On(j)') <= Cardinality(On(j)) /\ Cardinality(On(j)') \in Nat
  BY Numbers, FS_Subset, FS_CardinalityType
<1>2. attempts[j] >= MaxAttempts[j] =>
        Cardinality(Late(j)') <= Cardinality(Late(j)) /\ Cardinality(Late(j)') \in Nat
  BY Numbers, FS_Subset, FS_CardinalityType
<1>3. Free(j)' <= Free(j) /\ Free(j) \in {0, 1} /\ Free(j)' \in {0, 1}
  BY DEF Free
<1>4. Cardinality(On(j))' = Cardinality(On(j)') /\ Cardinality(Late(j))' = Cardinality(Late(j)')
  OBVIOUS
<1>5. QED
  BY <1>1, <1>2, <1>3, <1>4, Numbers

(* and one that counts as a fault, which pays for whatever it frees. *)
LEMMA PaidFault ==
  ASSUME TInv, TInv', NEW j \in Jobs, Paid(j), UNCHANGED attempts, faults' = faults + 1,
         On(j)' \subseteq On(j), Late(j)' \subseteq Late(j),
         status'[j] = "absent" => status[j] = "absent"
  PROVE  Paid(j)'
<1> USE DEF Paid
<1>1. Cardinality(On(j)') <= Cardinality(On(j)) /\ Cardinality(On(j)') \in Nat
  BY Numbers, FS_Subset, FS_CardinalityType
<1>2. Cardinality(Late(j)') <= Cardinality(Late(j)) /\ Cardinality(Late(j)') \in Nat
  BY Numbers, FS_Subset, FS_CardinalityType
<1>3. Free(j) \in {0, 1} /\ Free(j)' \in {0, 1}
  BY DEF Free
<1>4. Cardinality(On(j))' = Cardinality(On(j)') /\ Cardinality(Late(j))' = Cardinality(Late(j)')
  OBVIOUS
<1>5. QED
  BY <1>1, <1>2, <1>3, <1>4, Numbers

LEMMA PaidNext == TInv /\ PaidInv /\ [Next]_vars => PaidInv'
<1> SUFFICES ASSUME TInv, PaidInv, [Next]_vars PROVE PaidInv'
  OBVIOUS
<1>t. TInv'
  BY TInvNext
<1>f. ASSUME NEW j \in Jobs PROVE Paid(j)
  BY DEF PaidInv
<1> USE JobsAssumption, WorkersAssumption DEF TInv, TypeOK, HasJob, PaidInv
<1> USE DEF row, worker, request
<1>k. ASSUME NEW j \in Jobs, UNCHANGED <<attempts, faults>>, On(j)' = On(j),
             Held(j) => Held(j)', Late(j)' \subseteq Late(j),
             status'[j] \in {status[j], "completed", "failed", "cancelled"},
             lease'[j] = lease[j] \/ status'[j] # "running"
      PROVE  Paid(j)'
  <2>1. Loose(j)' => Loose(j)
    BY <1>k DEF Loose
  <2>2. status'[j] = "absent" => status[j] = "absent"
    BY <1>k
  <2>3. QED
    BY ONLY <1>t, <1>f, <1>k, <2>1, <2>2, TInv, PaidKept
<1>1. ASSUME NEW j \in Jobs, Enqueue(j) PROVE PaidInv'
  <2>1. ASSUME NEW k \in Jobs PROVE Paid(k)'
    <3>1. CASE k # j
      BY <1>1, <1>k, <3>1 DEF Enqueue, On, Late, Held
    <3>2. CASE k = j
      <4>1. On(j) = {} /\ attempts[j] = 0
        BY <1>1, <1>f DEF Enqueue, Paid
      <4>2. On(j)' = {} /\ Cardinality(On(j))' = 0
        BY <1>1, <4>1, FS_EmptySet DEF Enqueue, On
      <4>3. attempts'[j] = 0 /\ MaxAttempts[j] > 0 /\ faults' = faults /\ status'[j] = "pending"
        BY <1>1, <4>1 DEF Enqueue
      <4>4. faults \in Nat /\ Free(j)' \in {0, 1}
        BY DEF Free
      <4>5. QED
        BY <3>2, <4>2, <4>3, <4>4 DEF Paid
    <3>3. QED
      BY <3>1, <3>2
  <2>2. QED
    BY <1>1, <2>1 DEF Enqueue
<1>2. ASSUME NEW j \in Jobs, BecomeDue(j) PROVE PaidInv'
  BY <1>2, <1>k DEF BecomeDue, On, Late, Held
<1>3. ASSUME NEW j \in Jobs, LeaseLapses(j) PROVE PaidInv'
  <2>1. ASSUME NEW k \in Jobs PROVE Paid(k)'
    <3>1. On(k)' = On(k) /\ Late(k)' = Late(k) /\ (Held(k)' <=> Held(k))
      BY <1>3 DEF LeaseLapses, Expire, On, Late, Held
    <3>2. Loose(k)' => Loose(k)
      <4>1. CASE k = j
        <5>1. ~Held(j)
          BY <1>3 DEF LeaseLapses, Working, Held, On
        <5>2. QED
          BY <1>3, <3>1, <4>1, <5>1 DEF LeaseLapses, Expire, Loose
      <4>2. CASE k # j
        BY <1>3, <3>1, <4>2 DEF LeaseLapses, Expire, Loose
      <4>3. QED
        BY <4>1, <4>2
    <3>3. UNCHANGED <<attempts, faults, status>>
      BY <1>3 DEF LeaseLapses, Expire
    <3>4. QED
      BY ONLY <1>t, <1>f, <3>1, <3>2, <3>3, TInv, PaidKept
  <2>2. QED
    BY <1>3, <2>1 DEF LeaseLapses, Expire
<1>4. ASSUME NEW j \in Jobs, LeaseOverruns(j) PROVE PaidInv'
  <2>1. ASSUME NEW k \in Jobs PROVE Paid(k)'
    <3>1. On(k)' = On(k) /\ Late(k)' = Late(k)
      BY <1>4 DEF LeaseOverruns, Expire, On, Late
    <3>2. UNCHANGED <<attempts, status>> /\ faults' = faults + 1
      BY <1>4 DEF LeaseOverruns, Expire
    <3>3. QED
      BY ONLY <1>t, <1>f, <3>1, <3>2, TInv, PaidFault
  <2>2. QED
    BY <1>4, <2>1 DEF LeaseOverruns, Expire
<1>5. ASSUME NEW w \in Workers, Poll(w) PROVE PaidInv'
  <2>1. ASSUME NEW k \in Jobs PROVE Paid(k)'
    <3>1. On(k)' = On(k) /\ Late(k)' = Late(k) /\ UNCHANGED <<attempts, faults>>
      BY <1>5 DEF Poll, On, Late
    <3>2. \/ status[k] = "running" /\ lease[k] = "expired" /\ status'[k] = "pending"
          \/ /\ status'[k] = status[k] /\ lease'[k] = lease[k]
             /\ lease_owner'[k] = lease_owner[k] /\ UNCHANGED wjob
      BY <1>5 DEF Poll, Requeued, RequeueOwner, Expired
    <3>3. Loose(k)' => Loose(k)
      BY <3>2 DEF Loose, Held, On
    <3>4. status'[k] = "absent" => status[k] = "absent"
      BY <3>2
    <3>5. QED
      BY ONLY <1>t, <1>f, <3>1, <3>3, <3>4, TInv, PaidKept
  <2>2. QED
    BY <1>5, <2>1 DEF Poll
<1>6. ASSUME NEW w \in Workers, Claim(w) PROVE PaidInv'
  <2>1. PICK j \in Jobs : (status[j] = "pending" \/ Expired(j)) /\ Take(w, j)
    BY <1>6, ClaimPicks
  <2>2. wjob[w] = NoJob /\ pc[w] = "idle"
    BY <1>6 DEF Claim
  <2>3. \A v \in Workers : /\ wjob'[v] = (IF v = w THEN j ELSE wjob[v])
                            /\ pc'[v] = (IF v = w THEN "claimed" ELSE pc[v])
    BY <2>1 DEF Take
  <2>4. \A k \in Jobs : attempts'[k] = (IF k = j THEN attempts[j] + 1 ELSE attempts[k])
    BY <2>1 DEF Take
  <2>5. UNCHANGED <<seen, faults>>
    BY <2>1 DEF Take
  <2>6. ASSUME NEW k \in Jobs, k # j PROVE Paid(k)'
    <3>1. On(k)' = On(k) /\ Late(k)' = Late(k)
      BY <2>2, <2>3, <2>5, <2>6 DEF On, Late
    <3>2. \/ status[k] = "running" /\ lease[k] = "expired" /\ status'[k] = "pending"
          \/ /\ status'[k] = status[k] /\ lease'[k] = lease[k]
             /\ lease_owner'[k] = lease_owner[k]
      BY <2>1, <2>6 DEF Take, Requeued, RequeueOwner, Expired
    <3>3. Free(k)' <= Free(k) /\ Free(k) \in {0, 1} /\ Free(k)' \in {0, 1}
      BY <3>1, <3>2 DEF Free, Loose, Held
    <3>4. status'[k] = "absent" => status[k] = "absent"
      BY <3>2
    <3>5. attempts'[k] = attempts[k] /\ faults' = faults
      BY <2>4, <2>5, <2>6
    <3>6. QED
      BY <1>f, <3>1, <3>3, <3>4, <3>5, Numbers DEF Paid
  <2>7. Paid(j)'
    <3>1. On(j)' = On(j) \union {w} /\ w \notin On(j)
      BY <2>2, <2>3 DEF On
    <3>2. Late(j)' = Late(j)
      BY <2>2, <2>3, <2>5 DEF Late, On
    <3>3. Cardinality(On(j)') = Cardinality(On(j)) + 1
      <4>1. IsFiniteSet(On(j))
        BY Numbers
      <4>2. Cardinality(On(j) \union {w}) = Cardinality(On(j)) + 1
        BY ONLY <3>1, <4>1, FS_AddElement
      <4>3. QED
        BY ONLY <3>1, <4>2
    <3>4. Free(j) = 1
      BY <2>1 DEF Free, Loose, Expired
    <3>5. status'[j] = "running" /\ lease'[j] = "live" /\ lease_owner'[j] = OwnerOf[w]
      BY <2>1 DEF Take, Requeued, RequeueOwner
    <3>6. Free(j)' = 0
      BY <3>1, <3>5 DEF Free, Loose, Held
    <3>7. attempts'[j] = attempts[j] + 1 /\ faults' = faults
      BY <2>4, <2>5
    <3>8. QED
      BY <1>f, <3>2, <3>3, <3>4, <3>5, <3>6, <3>7, Numbers DEF Paid
  <2>8. QED
    BY <2>3, <2>6, <2>7
<1>7. ASSUME NEW w \in Workers, UNCHANGED <<row, faults>>, pc[w] # "idle", GoIdle(w),
             UNCHANGED seen, ~StillMine(w)
      PROVE  PaidInv'
  <2>1. \A v \in Workers : /\ wjob'[v] = (IF v = w THEN NoJob ELSE wjob[v])
                            /\ pc'[v] = (IF v = w THEN "idle" ELSE pc[v])
    BY <1>7 DEF GoIdle
  <2>2. ASSUME NEW k \in Jobs PROVE Paid(k)'
    <3>1. On(k)' = On(k) \ {w} /\ Late(k)' \subseteq Late(k)
      BY <1>7, <2>1 DEF On, Late
    <3>2. status[k] = "running" /\ Held(k) => Held(k)'
      BY <1>7, <2>1 DEF Held, On, StillMine
    <3>3. Loose(k)' => Loose(k)
      BY <1>7, <3>2 DEF Loose
    <3>4. UNCHANGED <<attempts, faults, status>> /\ On(k)' \subseteq On(k)
      BY <1>7, <3>1
    <3>5. QED
      BY ONLY <1>t, <1>f, <3>1, <3>3, <3>4, TInv, PaidKept
  <2>3. QED
    BY <2>1, <2>2
<1>8. ASSUME NEW w \in Workers, Begin(w) PROVE PaidInv'
  <2>1. CASE StillMine(w)
    BY <1>8, <1>k, <2>1 DEF Begin, On, Late, Held
  <2>2. CASE ~StillMine(w)
    BY <1>7, <1>8, <2>2 DEF Begin
  <2>3. QED
    BY <2>1, <2>2
<1>9. ASSUME NEW w \in Workers, NEW j \in Jobs, wjob[w] = j, GoIdle(w),
             UNCHANGED <<attempts, seen, faults>>,
             NEW s \in {"completed", "pending", "failed"}, Settle(j, s),
             s = "pending" => pc[w] = "failing" /\ seen[w] < MaxAttempts[j]
      PROVE  PaidInv'
  <2>1. \A v \in Workers : /\ wjob'[v] = (IF v = w THEN NoJob ELSE wjob[v])
                            /\ pc'[v] = (IF v = w THEN "idle" ELSE pc[v])
    BY <1>9 DEF GoIdle
  <2>2. On(j)' = On(j) \ {w} /\ Late(j)' = Late(j) \ {w}
    BY <1>9, <2>1 DEF On, Late
  <2>3. ASSUME NEW k \in Jobs, k # j PROVE Paid(k)'
    <3>1. status'[k] = status[k] /\ lease'[k] = lease[k] /\ lease_owner'[k] = lease_owner[k]
      BY <1>9, <2>3 DEF Settle
    <3>2. On(k)' = On(k) /\ Late(k)' = Late(k)
      BY <1>9, <2>1, <2>3 DEF On, Late
    <3>3. Held(k) => Held(k)'
      BY <3>1, <3>2 DEF Held
    <3>4. QED
      BY <1>9, <1>k, <3>1, <3>2, <3>3
  <2>4. Paid(j)'
    <3>1. status'[j] = s
      BY <1>9 DEF Settle
    <3>2. CASE s # "pending"
      <4>1. ~Loose(j)' /\ status'[j] # "absent" /\ UNCHANGED <<attempts, faults>>
        BY <1>9, <3>1, <3>2 DEF Loose
      <4>2. On(j)' \subseteq On(j) /\ Late(j)' \subseteq Late(j)
        BY <2>2
      <4>3. QED
        BY ONLY <1>t, <1>f, <4>1, <4>2, TInv, PaidKept
    <3>3. CASE s = "pending"
      <4>1. w \in On(j) /\ w \in Late(j)
        BY <1>9, <3>3 DEF On, Late
      <4>2. /\ Cardinality(On(j)') = Cardinality(On(j)) - 1
            /\ Cardinality(Late(j)') = Cardinality(Late(j)) - 1
        BY <2>2, <4>1, Numbers, FS_RemoveElement
      <4>3. Free(j)' = 1 /\ Free(j) \in {0, 1}
        BY <3>1, <3>3 DEF Free, Loose
      <4>4. attempts'[j] = attempts[j] /\ faults' = faults
        BY <1>9
      <4>5. QED
        BY <1>f, <3>1, <3>3, <4>2, <4>3, <4>4, Numbers DEF Paid
    <3>4. QED
      BY <3>2, <3>3
  <2>5. QED
    BY <2>1, <2>3, <2>4
<1>10. ASSUME NEW w \in Workers, Finish(w) PROVE PaidInv'
  <2>1. wjob[w] \in Jobs
    BY <1>10 DEF Finish
  <2>2. QED
    BY <1>9, <1>10, <2>1 DEF Finish
<1>11. ASSUME NEW w \in Workers, Raise(w) PROVE PaidInv'
  BY <1>11, <1>k DEF Raise, On, Late, Held
<1>12. ASSUME NEW w \in Workers, FailRead(w) PROVE PaidInv'
  <2>1. CASE status[wjob[w]] = "running"
    <3>1. ASSUME NEW k \in Jobs PROVE Paid(k)'
      <4>1. On(k)' = On(k) /\ UNCHANGED <<attempts, faults, status, lease, lease_owner>>
        BY <1>12, <2>1 DEF FailRead, On
      <4>2. attempts[k] >= MaxAttempts[k] => Late(k)' \subseteq Late(k)
        BY <1>12, <2>1, <4>1 DEF FailRead, On, Late
      <4>3. Loose(k)' => Loose(k)
        BY <4>1 DEF Loose, Held
      <4>4. QED
        BY ONLY <1>t, <1>f, <4>1, <4>2, <4>3, TInv, PaidKept
    <3>2. QED
      BY <1>12, <2>1, <3>1 DEF FailRead
  <2>2. CASE status[wjob[w]] # "running"
    BY <1>7, <1>12, <2>2 DEF FailRead, StillMine
  <2>3. QED
    BY <2>1, <2>2
<1>13. ASSUME NEW w \in Workers, FailCommit(w) PROVE PaidInv'
  <2>1. PICK j \in Jobs : j = wjob[w]
    BY <1>13 DEF FailCommit
  <2>2. /\ FailStatus(seen[w], j) \in {"pending", "failed"}
        /\ FailStatus(seen[w], j) = "pending" => seen[w] < MaxAttempts[j]
    BY DEF FailStatus
  <2>3. /\ Settle(j, FailStatus(seen[w], j)) /\ GoIdle(w) /\ pc[w] = "failing"
        /\ UNCHANGED <<attempts, seen, faults>>
    BY <1>13, <2>1 DEF FailCommit
  <2>4. QED
    BY <1>9, <2>1, <2>2, <2>3
<1>14. ASSUME NEW w \in Workers, Crash(w) PROVE PaidInv'
  <2>1. \A v \in Workers : /\ wjob'[v] = (IF v = w THEN NoJob ELSE wjob[v])
                            /\ pc'[v] = (IF v = w THEN "idle" ELSE pc[v])
    BY <1>14 DEF Crash, GoIdle
  <2>2. ASSUME NEW k \in Jobs PROVE Paid(k)'
    <3>1. On(k)' \subseteq On(k) /\ Late(k)' \subseteq Late(k)
      BY <1>14, <2>1 DEF Crash, On, Late
    <3>2. UNCHANGED <<attempts, status>> /\ faults' = faults + 1
      BY <1>14 DEF Crash
    <3>3. QED
      BY ONLY <1>t, <1>f, <3>1, <3>2, TInv, PaidFault
  <2>3. QED
    BY <2>1, <2>2
<1>15. ASSUME NEW r \in Requests, NEW j \in Jobs, CancelRead(r, j) PROVE PaidInv'
  BY <1>15, <1>k DEF CancelRead, On, Late, Held
<1>16. ASSUME NEW r \in Requests, CancelCommit(r) PROVE PaidInv'
  <2>1. rjob[r] \in Jobs /\ UNCHANGED <<attempts, faults, pc, wjob, seen>>
    BY <1>16 DEF CancelCommit
  <2>2. ASSUME NEW k \in Jobs PROVE Paid(k)'
    <3>1. On(k)' = On(k) /\ Late(k)' = Late(k)
      BY <2>1 DEF On, Late
    <3>2. \/ status'[k] = "cancelled"
          \/ /\ status'[k] = status[k] /\ lease'[k] = lease[k]
             /\ lease_owner'[k] = lease_owner[k]
      BY <1>16, <2>1 DEF CancelCommit, Settle
    <3>3. Loose(k)' => Loose(k)
      BY <3>1, <3>2 DEF Loose, Held
    <3>4. status'[k] = "absent" => status[k] = "absent"
      BY <3>2
    <3>5. QED
      BY ONLY <1>t, <1>f, <2>1, <3>1, <3>3, <3>4, TInv, PaidKept
  <2>3. QED
    BY <2>1, <2>2
<1>17. CASE UNCHANGED vars
  BY <1>17, <1>k DEF vars, On, Late, Held
<1>18. QED
  BY <1>1, <1>2, <1>3, <1>4, <1>5, <1>6, <1>8, <1>10, <1>11, <1>12, <1>13, <1>14,
     <1>15, <1>16, <1>17 DEF Next, Proceed

(* A job is started more often than its limit only after as many crashes and *)
(* overrun leases, whichever workers report late and whoever cancels.        *)
THEOREM StartsBeyondArePaidFor == Spec => []StartsArePaidFor
<1>1. Init => PaidInv
  <2> SUFFICES ASSUME Init, NEW j \in Jobs PROVE Paid(j)
    BY DEF Init, PaidInv
  <2>1. On(j) = {} /\ Late(j) = {} /\ attempts[j] = 0 /\ faults = 0 /\ ~Loose(j)
    BY JobsAssumption DEF Init, On, Late, Loose
  <2>2. QED
    BY <2>1, FS_EmptySet, JobsAssumption DEF Paid, Free
<1>2. TInv /\ PaidInv => StartsArePaidFor
  <2> SUFFICES ASSUME TInv, PaidInv, NEW j \in Jobs
               PROVE  attempts[j] <= MaxAttempts[j] + faults
    BY DEF StartsArePaidFor
  <2>1. Free(j) \in {0, 1}
    BY DEF Free
  <2>2. QED
    BY <2>1, Numbers DEF PaidInv, Paid
<1>3. QED
  BY <1>1, <1>2, PaidNext, TInvariant, PTL DEF Spec

-----------------------------------------------------------------------------
(* The queue implements the life of a job, JobLifecycle, for every job that  *)
(* one worker serves and nobody cancels (Single).                            *)

(* A worker has jobs of its own queues only, and one that it alone serves    *)
(* has not settled behind its back; a request names a cancellable job.       *)
OwnInv ==
  /\ \A w \in Workers : pc[w] # "idle" =>
       /\ QueueOf[wjob[w]] \in Serves[w]
       /\ wjob[w] \in Single => status[wjob[w]] \in {"pending", "running"}
  /\ \A r \in Requests : rpc[r] = "loaded" => rjob[r] \in Cancellable

(* Two workers are never in the loop with the same job of this kind. *)
LEMMA Alone ==
  ASSUME OwnInv, NEW v \in Workers, NEW w \in Workers, pc[v] # "idle", pc[w] # "idle",
         wjob[v] = wjob[w], wjob[w] \in Single
  PROVE  v = w
BY DEF OwnInv, Single

LEMMA ClaimOwn ==
  ASSUME NEW w \in Workers, Claim(w)
  PROVE  \E j \in Jobs : /\ QueueOf[j] \in Serves[w] /\ Take(w, j)
                         /\ status[j] = "pending" \/ Expired(j)
BY DEF Claim, Claimable, Requeued

LEMMA OwnNext ==
  ASSUME TInv, OwnInv, [Next]_vars
  PROVE  OwnInv'
<1> USE DEF TInv, TypeOK, HasJob, OwnInv, row, worker, request
<1>1. ASSUME NEW j \in Jobs, Enqueue(j) PROVE OwnInv'
  BY <1>1 DEF Enqueue
<1>2. ASSUME NEW j \in Jobs, BecomeDue(j) \/ LeaseLapses(j) \/ LeaseOverruns(j) PROVE OwnInv'
  BY <1>2 DEF BecomeDue, LeaseLapses, LeaseOverruns, Expire
<1>3. ASSUME NEW w \in Workers, Poll(w) PROVE OwnInv'
  BY <1>3 DEF Poll, Requeued
<1>4. ASSUME NEW w \in Workers, Claim(w) PROVE OwnInv'
  <2>1. PICK j \in Jobs : QueueOf[j] \in Serves[w] /\ Take(w, j)
    BY <1>4, ClaimOwn
  <2>2. /\ pc' = [pc EXCEPT ![w] = "claimed"] /\ wjob' = [wjob EXCEPT ![w] = j]
        /\ status'[j] = "running" /\ UNCHANGED request
        /\ \A k \in Jobs : status[k] \in {"pending", "running"}
                             => status'[k] \in {"pending", "running"}
    BY <2>1 DEF Take, Requeued
  <2>3. QED
    BY <2>1, <2>2
<1>5. ASSUME NEW w \in Workers, Begin(w) \/ Raise(w) \/ FailRead(w) \/ Crash(w) PROVE OwnInv'
  BY <1>5 DEF Begin, Raise, FailRead, Crash, GoIdle
<1>6. ASSUME NEW w \in Workers, Finish(w) \/ FailCommit(w) PROVE OwnInv'
  <2>1. /\ pc[w] # "idle" /\ pc' = [pc EXCEPT ![w] = "idle"]
        /\ wjob' = [wjob EXCEPT ![w] = NoJob] /\ UNCHANGED request
        /\ \A k \in Jobs \ {wjob[w]} : status'[k] = status[k]
    BY <1>6 DEF Finish, FailCommit, Settle, GoIdle
  <2>2. \A v \in Workers \ {w} : pc[v] # "idle" /\ wjob[v] \in Single => wjob[v] # wjob[w]
    BY <2>1, Alone
  <2>3. QED
    BY <2>1, <2>2
<1>7. ASSUME NEW r \in Requests, NEW j \in Jobs, CancelRead(r, j) PROVE OwnInv'
  BY <1>7 DEF CancelRead
<1>8. ASSUME NEW r \in Requests, CancelCommit(r) PROVE OwnInv'
  <2>1. /\ rpc' = [rpc EXCEPT ![r] = "idle"] /\ rjob' = [rjob EXCEPT ![r] = NoJob]
        /\ UNCHANGED worker /\ rjob[r] \notin Single
        /\ \A k \in Jobs \ {rjob[r]} : status'[k] = status[k]
    BY <1>8 DEF CancelCommit, Settle, Single
  <2>2. QED
    BY <2>1
<1>9. CASE UNCHANGED vars
  BY <1>9 DEF vars
<1>10. QED
  BY <1>1, <1>2, <1>3, <1>4, <1>5, <1>6, <1>7, <1>8, <1>9 DEF Next, Proceed

-----------------------------------------------------------------------------
(* A step of the queue is, job by job, a step of the lifecycle. *)
Kept(j) == status'[j] = status[j] /\ attempts'[j] = attempts[j]
Released(j) == status[j] = "running" /\ status'[j] = "pending" /\ attempts'[j] = attempts[j]

LEMMA PhaseOf ==
  ASSUME TypeOK, NEW j \in Jobs
  PROVE  /\ status[j] = "absent" => Phase(j) = "unborn"
         /\ status[j] = "pending" => Phase(j) = "waiting"
         /\ status[j] = "running" => Phase(j) = "held"
         /\ status[j] \in TERMINAL_STATUSES => Phase(j) = status[j]
BY DEF Phase, TERMINAL_STATUSES

Moved(j) ==
  \/ Kept(j) \/ Released(j)
  \/ status[j] = "absent" /\ status'[j] = "pending" /\ attempts'[j] = attempts[j]
  \/ /\ status[j] \in {"pending", "running"} /\ status'[j] = "running"
     /\ attempts'[j] = attempts[j] + 1
  \/ /\ status[j] \in {"pending", "running"} /\ status'[j] \in {"completed", "failed"}
     /\ attempts'[j] = attempts[j]
     /\ status'[j] = "failed" => attempts[j] >= MaxAttempts[j]

LEMMA StepMoves ==
  ASSUME TInv, FailInv, OwnInv, [Next]_vars, NEW j \in Jobs, j \in Single
  PROVE  Moved(j)
<1> USE DEF TInv, TypeOK, HasJob, Moved, Kept, Released, row
<1>1. ASSUME NEW k \in Jobs, Enqueue(k) PROVE Moved(j)
  BY <1>1 DEF Enqueue
<1>2. CASE UNCHANGED <<status, attempts>>
  BY <1>2
<1>3. ASSUME NEW w \in Workers, Poll(w) PROVE Moved(j)
  BY <1>3 DEF Poll, Requeued, Expired
<1>4. ASSUME NEW w \in Workers, Claim(w) PROVE Moved(j)
  <2>1. PICK k \in Jobs : Take(w, k) /\ (status[k] = "pending" \/ Expired(k))
    BY <1>4, ClaimOwn
  <2>2. /\ attempts' = [attempts EXCEPT ![k] = @ + 1] /\ status'[k] = "running"
        /\ status[k] \in {"pending", "running"}
        /\ \A i \in Jobs \ {k} : status'[i] = IF Expired(i) THEN "pending" ELSE status[i]
    BY <2>1 DEF Take, Requeued, Expired
  <2>3. CASE j = k
    BY <2>2, <2>3
  <2>4. CASE j # k
    BY <2>2, <2>4 DEF Expired
  <2>5. QED
    BY <2>3, <2>4
<1>5. ASSUME NEW w \in Workers, Finish(w) PROVE Moved(j)
  <2>1. /\ wjob[w] \in Jobs /\ attempts' = attempts
        /\ wjob[w] \in Single => status[wjob[w]] \in {"pending", "running"}
        /\ status' = [status EXCEPT ![wjob[w]] = "completed"]
    BY <1>5 DEF Finish, Settle, OwnInv
  <2>2. QED
    BY <2>1
<1>6. ASSUME NEW w \in Workers, FailCommit(w) PROVE Moved(j)
  <2>1. /\ wjob[w] \in Jobs /\ attempts' = attempts /\ seen[w] <= attempts[wjob[w]]
        /\ wjob[w] \in Single => status[wjob[w]] \in {"pending", "running"}
        /\ status' = [status EXCEPT ![wjob[w]] = FailStatus(seen[w], wjob[w])]
    BY <1>6 DEF FailCommit, Settle, OwnInv, FailInv, SeenIsPast
  <2>2. FailStatus(seen[w], wjob[w]) = "pending"
          \/ /\ FailStatus(seen[w], wjob[w]) = "failed"
             /\ attempts[wjob[w]] >= MaxAttempts[wjob[w]]
    <3>1. MaxAttempts[wjob[w]] \in Nat /\ seen[w] \in Nat /\ attempts[wjob[w]] \in Nat
      BY <2>1, JobsAssumption
    <3>2. CASE seen[w] < MaxAttempts[wjob[w]]
      BY <3>2 DEF FailStatus
    <3>3. CASE seen[w] >= MaxAttempts[wjob[w]]
      BY <2>1, <3>1, <3>3 DEF FailStatus
    <3>4. QED
      BY <3>1, <3>2, <3>3
  <2>3. QED
    BY <2>1, <2>2
<1>7. ASSUME NEW r \in Requests, CancelCommit(r) PROVE Moved(j)
  <2>1. j # rjob[r] /\ attempts' = attempts
    BY <1>7 DEF CancelCommit, OwnInv, Single
  <2>2. status'[j] = status[j]
    BY <1>7, <2>1 DEF CancelCommit, Settle
  <2>3. QED
    BY <2>1, <2>2
<1>8. QED
  BY <1>1, <1>2, <1>3, <1>4, <1>5, <1>6, <1>7
     DEF Next, Proceed, vars, BecomeDue, LeaseLapses, LeaseOverruns, Expire,
         Begin, Raise, FailRead, Crash, CancelRead

(* For any jobs, workers, requests and faults, a job that one worker serves  *)
(* and nobody cancels keeps its outcome once it is settled, and every start  *)
(* of it is counted, whatever workers, leases and requests do to the others. *)
THEOREM QueueImplementsLifecycle == Spec => LifecycleSpec
<1> DEFINE phase == [j \in Jobs |-> IF j \in Single THEN Phase(j) ELSE "unborn"]
           starts == [j \in Jobs |-> IF j \in Single THEN attempts[j] ELSE 0]
<1>1. Init => Lifecycle!Init /\ OwnInv
  BY DEF Init, Lifecycle!Init, OwnInv, Phase
<1>2. ASSUME TInv, TInv', FailInv, OwnInv, [Next]_vars
      PROVE  [Lifecycle!Next]_<<phase, starts>>
  <2>1. ASSUME NEW j \in Jobs
        PROVE  \/ Lifecycle!Submit(j) \/ Lifecycle!Take(j) \/ Lifecycle!Release(j)
               \/ Lifecycle!Same(j)
               \/ \E outcome \in {"completed", "failed"} : Lifecycle!Settle(j, outcome)
    <3>1. CASE j \notin Single
      BY <3>1 DEF Lifecycle!Same
    <3>2. CASE j \in Single
      <4>1. Moved(j)
        BY <1>2, <3>2, StepMoves
      <4>2. /\ status[j] = "absent" => phase[j] = "unborn"
            /\ status[j] = "pending" => phase[j] = "waiting"
            /\ status[j] = "running" => phase[j] = "held"
        BY <1>2, <3>2, PhaseOf DEF TInv
      <4>3. /\ status'[j] = "pending" => phase'[j] = "waiting"
            /\ status'[j] = "running" => phase'[j] = "held"
            /\ status'[j] \in {"completed", "failed"} => phase'[j] = status'[j]
        BY <3>2 DEF Phase
      <4>4. status'[j] = status[j] => phase'[j] = phase[j]
        BY <3>2 DEF Phase
      <4>5. starts[j] = attempts[j] /\ starts'[j] = attempts'[j]
        BY <3>2
      <4>6. CASE Kept(j)
        BY <4>4, <4>5, <4>6 DEF Kept, Lifecycle!Same
      <4>7. QED
        BY <4>1, <4>2, <4>3, <4>5, <4>6
           DEF Moved, Released, Lifecycle!Submit, Lifecycle!Take, Lifecycle!Release,
               Lifecycle!Settle, Lifecycle!Move
    <3>3. QED
      BY <3>1, <3>2
  <2>2. QED
    BY <2>1 DEF Lifecycle!Next
<1>3. TInv /\ OwnInv /\ [Next]_vars => OwnInv'
  BY OwnNext
<1>4. QED
  BY <1>1, <1>2, <1>3, TInvariant, FailInvariant, PTL
     DEF Spec, LifecycleSpec, Lifecycle!Spec
=============================================================================
