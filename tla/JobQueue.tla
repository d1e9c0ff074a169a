------------------------------ MODULE JobQueue ------------------------------
(***************************************************************************)
(* The durable job queue (bbpipeline/queue.py), the loop every worker runs *)
(* on it (workers.worker_loop) and the cancel endpoint of the API.         *)
(*                                                                         *)
(* A step is one database transaction, or one half of a transaction that   *)
(* reads a row without locking it and writes it later.  The ORM writes     *)
(* only the columns whose value differs from the one it loaded, and checks *)
(* no version, so a late write lands on whatever the row has become.       *)
(* Times are abstracted to what the queries compare: whether a lease has   *)
(* run out and whether run_after has passed.                               *)
(***************************************************************************)
EXTENDS Integers, FiniteSets

CONSTANTS NumJobs,      \* jobs are numbered in the order of created_at
          Workers,      \* processes running worker_loop
          Requests,     \* cancel requests the API serves concurrently
          Owners,       \* values of lease_owner
          OwnerOf,      \* worker -> "<BB_WORKER_ID>:<provider>"
          Serves,       \* worker -> the queues it claims from
          QueueOf, Priority, MaxAttempts,   \* columns set at enqueue
          Cancellable, \* the jobs that requests may name
          NotifyJobs,   \* the jobs of kind notify_discord
          Online,       \* workers that keep running (fairness only)
          MaxFaults,    \* bound on crashes and overrun leases together
          NoOwner, NoJob

Jobs == 1 .. NumJobs
TERMINAL_STATUSES == {"completed", "failed", "cancelled"}
Statuses == {"absent", "pending", "running"} \union TERMINAL_STATUSES

ASSUME JobsAssumption ==
  /\ NumJobs \in Nat /\ MaxFaults \in Nat
  /\ MaxAttempts \in [Jobs -> Nat \ {0}] /\ Priority \in [Jobs -> Int]
  /\ NotifyJobs \subseteq Jobs /\ Cancellable \subseteq Jobs
  /\ NoJob \notin Jobs

ASSUME WorkersAssumption ==
  /\ OwnerOf \in [Workers -> Owners] /\ NoOwner \notin Owners
  /\ Online \subseteq Workers /\ IsFiniteSet(Workers)

VARIABLES
  status, attempts, lease_owner,   \* columns of the jobs table
  lease,      \* lease_expires_at: "none", "live" (ahead) or "expired"
  due,        \* run_after <= now
  alerted,    \* jobs with a notify:job-failed:<id> row
  pc, wjob, seen,      \* worker: place in the loop, job_id, loaded attempts
  rpc, rjob, rseen,    \* cancel request: place, job, loaded status
  faults      \* crashes and overruns so far

row == <<status, attempts, lease_owner, lease, due>>
worker == <<pc, wjob, seen>>
request == <<rpc, rjob, rseen>>
vars == <<row, alerted, worker, request, faults>>

TypeOK ==
  /\ status \in [Jobs -> Statuses] /\ attempts \in [Jobs -> Nat]
  /\ lease_owner \in [Jobs -> Owners \union {NoOwner}]
  /\ lease \in [Jobs -> {"none", "live", "expired"}]
  /\ due \in [Jobs -> BOOLEAN] /\ alerted \subseteq Jobs
  /\ pc \in [Workers -> {"idle", "claimed", "processing", "raised", "failing"}]
  /\ wjob \in [Workers -> Jobs \union {NoJob}] /\ seen \in [Workers -> Nat]
  /\ rpc \in [Requests -> {"idle", "loaded"}]
  /\ rjob \in [Requests -> Jobs \union {NoJob}]
  /\ rseen \in [Requests -> Statuses]
  /\ faults \in 0 .. MaxFaults

Init ==
  /\ status = [j \in Jobs |-> "absent"] /\ attempts = [j \in Jobs |-> 0]
  /\ lease_owner = [j \in Jobs |-> NoOwner]
  /\ lease = [j \in Jobs |-> "none"]
  /\ due = [j \in Jobs |-> FALSE] /\ alerted = {}
  /\ pc = [w \in Workers |-> "idle"] /\ wjob = [w \in Workers |-> NoJob]
  /\ seen = [w \in Workers |-> 0]
  /\ rpc = [r \in Requests |-> "idle"] /\ rjob = [r \in Requests |-> NoJob]
  /\ rseen = [r \in Requests |-> "absent"]
  /\ faults = 0

-----------------------------------------------------------------------------
(* enqueue: every caller leaves run_after at now. *)
Enqueue(j) ==
  /\ status[j] = "absent" /\ \A k \in 1 .. (j - 1) : status[k] # "absent"
  /\ status' = [status EXCEPT ![j] = "pending"]
  /\ due' = [due EXCEPT ![j] = TRUE]
  /\ UNCHANGED <<attempts, lease_owner, lease, alerted, worker, request, faults>>

(* The backoff of a retried job has passed. *)
BecomeDue(j) ==
  /\ status[j] = "pending" /\ ~due[j]
  /\ due' = [due EXCEPT ![j] = TRUE]
  /\ UNCHANGED <<status, attempts, lease_owner, lease, alerted, worker, request, faults>>

Working(w, j) == wjob[w] = j

Expire(j) ==
  /\ lease[j] = "live"
  /\ lease' = [lease EXCEPT ![j] = "expired"]
  /\ UNCHANGED <<status, attempts, lease_owner, due, alerted, worker, request>>

(* lease_expires_at passes: of a run whose worker is gone, *)
LeaseLapses(j) ==
  /\ \A w \in Workers : ~Working(w, j)
  /\ Expire(j) /\ UNCHANGED faults

(* or of one still in progress (a bbot job may run longer than the lease). *)
LeaseOverruns(j) ==
  /\ \E w \in Workers : Working(w, j)
  /\ faults < MaxFaults /\ faults' = faults + 1
  /\ Expire(j)

-----------------------------------------------------------------------------
(* requeue_expired, which every claim runs first, for all queues. *)
Expired_Exhausted(j) ==
  status[j] = "running" /\ lease[j] = "expired" /\ attempts[j] < MaxAttempts[j]
Expired_AnyStatus(j) == lease[j] = "expired"
Expired(j) == status[j] = "running" /\ lease[j] = "expired"

Requeued(f, v) == [j \in Jobs |-> IF Expired(j) THEN v ELSE f[j]]

RequeueOwner_Kept == lease_owner
RequeueOwner == Requeued(lease_owner, NoOwner)

Claimable_AnyStatus(w) ==
  {j \in Jobs : /\ QueueOf[j] \in Serves[w] /\ Requeued(due, TRUE)[j]
                /\ Requeued(lease, "none")[j] # "live"}
Claimable(w) ==
  {j \in Jobs : /\ QueueOf[j] \in Serves[w]
                /\ Requeued(status, "pending")[j] = "pending"
                /\ Requeued(due, TRUE)[j]
                /\ Requeued(lease, "none")[j] # "live"}

Before(j, k) == Priority[j] > Priority[k] \/ (Priority[j] = Priority[k] /\ j < k)

(* A poll that finds nothing still commits the requeue. *)
Poll(w) ==
  /\ pc[w] = "idle" /\ Claimable(w) = {}
  /\ status' = Requeued(status, "pending") /\ due' = Requeued(due, TRUE)
  /\ lease' = Requeued(lease, "none") /\ lease_owner' = RequeueOwner
  /\ UNCHANGED <<attempts, alerted, worker, request, faults>>

Take(w, j) ==
  /\ status' = [Requeued(status, "pending") EXCEPT ![j] = "running"]
  /\ attempts' = [attempts EXCEPT ![j] = @ + 1]
  /\ lease' = [Requeued(lease, "none") EXCEPT ![j] = "live"]
  /\ lease_owner' = [RequeueOwner EXCEPT ![j] = OwnerOf[w]]
  /\ due' = Requeued(due, TRUE)
  /\ wjob' = [wjob EXCEPT ![w] = j] /\ pc' = [pc EXCEPT ![w] = "claimed"]
  /\ UNCHANGED <<alerted, seen, request, faults>>

(* The row lock of FOR UPDATE SKIP LOCKED makes the whole claim one step. *)
Claim(w) ==
  /\ pc[w] = "idle"
  /\ \E j \in Claimable(w) :
       Take(w, j) /\ \A k \in Claimable(w) \ {j} : Before(j, k)

-----------------------------------------------------------------------------
(* The rest of one iteration of worker_loop. *)
StillMine_AnyOwner(w) == status[wjob[w]] = "running"
StillMine(w) == status[wjob[w]] = "running" /\ lease_owner[wjob[w]] = OwnerOf[w]

GoIdle(w) == /\ pc' = [pc EXCEPT ![w] = "idle"]
             /\ wjob' = [wjob EXCEPT ![w] = NoJob]

(* The second transaction re-reads the row before it processes the job. *)
Begin(w) ==
  /\ pc[w] = "claimed"
  /\ IF StillMine(w)
       THEN /\ pc' = [pc EXCEPT ![w] = "processing"]
            /\ seen' = [seen EXCEPT ![w] = attempts[wjob[w]]] /\ UNCHANGED wjob
       ELSE GoIdle(w) /\ UNCHANGED seen
  /\ UNCHANGED <<row, alerted, request, faults>>

(* Status, owner and lease all differ from the running row that was loaded, *)
(* so all three are written, whatever they are by now.                      *)
Settle(j, s) ==
  /\ status' = [status EXCEPT ![j] = s]
  /\ lease' = [lease EXCEPT ![j] = "none"]
  /\ lease_owner' = [lease_owner EXCEPT ![j] = NoOwner]

Finish(w) ==
  /\ pc[w] = "processing"
  /\ Settle(wjob[w], "completed") /\ GoIdle(w)
  /\ UNCHANGED <<attempts, due, alerted, seen, request, faults>>

(* An exception: the transaction rolls back and the handler starts. *)
Raise(w) ==
  /\ pc[w] \in {"claimed", "processing"}
  /\ pc' = [pc EXCEPT ![w] = "raised"]
  /\ UNCHANGED <<row, alerted, wjob, seen, request, faults>>

(* The handler checks the status of the row, not who owns the lease. *)
FailRead(w) ==
  /\ pc[w] = "raised"
  /\ IF status[wjob[w]] = "running"
       THEN /\ pc' = [pc EXCEPT ![w] = "failing"]
            /\ seen' = [seen EXCEPT ![w] = attempts[wjob[w]]] /\ UNCHANGED wjob
       ELSE GoIdle(w) /\ UNCHANGED seen
  /\ UNCHANGED <<row, alerted, request, faults>>

FailStatus_OneLate(a, j) == IF a <= MaxAttempts[j] THEN "pending" ELSE "failed"
FailStatus_OneShort(a, j) == IF a + 1 < MaxAttempts[j] THEN "pending" ELSE "failed"
FailStatus(a, j) == IF a < MaxAttempts[j] THEN "pending" ELSE "failed"

Alert(a, j) == FailStatus(a, j) = "failed" /\ j \notin NotifyJobs

FailCommit(w) ==
  /\ pc[w] = "failing"
  /\ LET j == wjob[w] IN
       /\ Settle(j, FailStatus(seen[w], j))
       /\ due' = [due EXCEPT ![j] = IF FailStatus(seen[w], j) = "failed" THEN @ ELSE FALSE]
       /\ alerted' = IF Alert(seen[w], j) THEN alerted \union {j} ELSE alerted
  /\ GoIdle(w)
  /\ UNCHANGED <<attempts, seen, request, faults>>

(* The process dies anywhere in the loop; its transaction rolls back and the *)
(* container restarts with the same worker id and no memory of the job.      *)
Crash(w) ==
  /\ pc[w] # "idle" /\ faults < MaxFaults
  /\ faults' = faults + 1 /\ GoIdle(w)
  /\ UNCHANGED <<row, alerted, seen, request>>

-----------------------------------------------------------------------------
(* POST /jobs/{id}/cancel: an unlocked read, *)
CancelRead(r, j) ==
  /\ rpc[r] = "idle" /\ j \in Cancellable /\ status[j] \in {"pending", "running"}
  /\ rpc' = [rpc EXCEPT ![r] = "loaded"] /\ rjob' = [rjob EXCEPT ![r] = j]
  /\ rseen' = [rseen EXCEPT ![r] = status[j]]
  /\ UNCHANGED <<row, alerted, worker, faults>>

(* then the write: a row loaded as pending had no lease columns to clear. *)
CancelCommit(r) ==
  /\ rpc[r] = "loaded"
  /\ IF rseen[r] = "running" THEN Settle(rjob[r], "cancelled")
     ELSE /\ status' = [status EXCEPT ![rjob[r]] = "cancelled"]
          /\ UNCHANGED <<lease, lease_owner>>
  /\ rpc' = [rpc EXCEPT ![r] = "idle"] /\ rjob' = [rjob EXCEPT ![r] = NoJob]
  /\ rseen' = [rseen EXCEPT ![r] = "absent"]
  /\ UNCHANGED <<attempts, due, alerted, worker, faults>>

-----------------------------------------------------------------------------
Proceed(w) == Begin(w) \/ Finish(w) \/ Raise(w) \/ FailRead(w) \/ FailCommit(w)

Next ==
  \/ \E j \in Jobs : Enqueue(j) \/ BecomeDue(j) \/ LeaseLapses(j) \/ LeaseOverruns(j)
  \/ \E w \in Workers : Poll(w) \/ Claim(w) \/ Proceed(w) \/ Crash(w)
  \/ \E r \in Requests : (\E j \in Jobs : CancelRead(r, j)) \/ CancelCommit(r)

Spec == Init /\ [][Next]_vars

(* Time passes, and a worker that is online keeps going round its loop. *)
Fairness ==
  /\ \A j \in Jobs : WF_vars(BecomeDue(j)) /\ WF_vars(LeaseLapses(j))
  /\ \A w \in Online : WF_vars(Poll(w) \/ Claim(w)) /\ WF_vars(Proceed(w))
  /\ \A r \in Requests : WF_vars(CancelCommit(r))

FairSpec == Spec /\ Fairness

-----------------------------------------------------------------------------
(* A running job always carries an owner and an expiry, and a pending job    *)
(* neither: requeue_expired skips rows without an expiry, so a run without   *)
(* one would never be recovered, and a pending row with a live lease would   *)
(* not be claimed.  It must survive late writes of other workers' sessions.  *)
LeaseCoherent ==
  \A j \in Jobs :
    /\ status[j] = "running" => lease[j] # "none" /\ lease_owner[j] # NoOwner
    /\ status[j] = "pending" => lease[j] = "none" /\ lease_owner[j] = NoOwner

(* A job is failed only after its configured attempts were used, even when   *)
(* the failure is written by a worker that lost the lease in the meantime.   *)
FailedIsExhausted ==
  \A j \in Jobs : status[j] = "failed" => attempts[j] >= MaxAttempts[j]

(* "Exhausted failures create a redacted Discord alert": no job reaches      *)
(* failed without its alert row, whoever wrote the failure.                  *)
FailedIsAlerted ==
  \A j \in Jobs \ NotifyJobs : status[j] = "failed" => j \in alerted

(* The re-read of the row fences workers: two never process the same attempt *)
(* of a job, although a lease may expire between the claim and the re-read.  *)
OneRunPerAttempt ==
  \A v, w \in Workers :
    (v # w /\ pc[v] = "processing" /\ pc[w] = "processing" /\ wjob[v] = wjob[w])
      => seen[v] # seen[w]

(* Nothing brings a cancelled job back (requeue_expired and claim look at    *)
(* the status, although a cancelled row may keep its lease columns), except  *)
(* a failure handler that had read the row before the cancellation.          *)
CancelUndoneOnlyByFailure ==
  [][\A j \in Jobs :
       (status[j] = "cancelled" /\ status'[j] \in {"pending", "running"})
         => \E w \in Workers : pc[w] = "failing" /\ wjob[w] = j]_vars

(* Every job that an online worker serves is eventually completed, failed or *)
(* cancelled, through crashes, overrun leases and retries, whatever happens  *)
(* to the other queues ("Scanner collection continues when LLM workers are   *)
(* offline").                                                                *)
JobsSettle ==
  \A j \in Jobs :
    (status[j] = "pending" /\ \E w \in Online : QueueOf[j] \in Serves[w])
      ~> status[j] \in TERMINAL_STATUSES

(* A job whose queue one worker serves and that nobody cancels has the life  *)
(* of JobLifecycle, whatever happens to the others: it stays settled with    *)
(* its outcome, and every start is counted.  The others stay unborn there.   *)
Phase(j) ==
  CASE status[j] = "absent" -> "unborn"
    [] status[j] = "pending" -> "waiting"
    [] status[j] = "running" -> "held"
    [] OTHER -> status[j]

Single == {j \in Jobs \ Cancellable :
             \A v, w \in Workers : QueueOf[j] \in Serves[v] \intersect Serves[w] => v = w}

Lifecycle == INSTANCE JobLifecycle
               WITH phase <- [j \in Jobs |-> IF j \in Single THEN Phase(j) ELSE "unborn"],
                    starts <- [j \in Jobs |-> IF j \in Single THEN attempts[j] ELSE 0]
LifecycleSpec == Lifecycle!Spec

(* "Jobs use leases and retry up to their configured attempt limit": a start *)
(* beyond the limit is paid for by a crash or an overrun lease.  The handler *)
(* that fails a job counts, requeue_expired does not, so the two must not    *)
(* let a late failure and a requeue start a job twice for one fault.         *)
StartsArePaidFor ==
  \A j \in Jobs : attempts[j] <= MaxAttempts[j] + faults
=============================================================================
