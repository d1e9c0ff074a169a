---------------------------- MODULE JobLifecycle ----------------------------
(***************************************************************************)
(* What the queue promises of a job, without workers, leases or columns:   *)
(* it waits, it is held while it runs, it settles once and for good, and   *)
(* it is given up only after MaxAttempts starts.  Several jobs may move in *)
(* one step, because a claim also releases every job whose lease ran out.  *)
(***************************************************************************)
EXTENDS Naturals

CONSTANTS Jobs, MaxAttempts
VARIABLES phase, starts

Init == phase = [j \in Jobs |-> "unborn"] /\ starts = [j \in Jobs |-> 0]

Move(j, from, to) == phase[j] \in from /\ phase'[j] = to

Submit(j) == Move(j, {"unborn"}, "waiting") /\ starts'[j] = starts[j]

(* From held: the lease ran out and the same transaction took the job again. *)
Take(j) == Move(j, {"waiting", "held"}, "held") /\ starts'[j] = starts[j] + 1

Release(j) == Move(j, {"held"}, "waiting") /\ starts'[j] = starts[j]

(* From waiting: a worker that outlived its lease reports after the release. *)
Settle(j, outcome) ==
  /\ Move(j, {"waiting", "held"}, outcome) /\ starts'[j] = starts[j]
  /\ outcome = "failed" => starts[j] >= MaxAttempts[j]

Same(j) == phase'[j] = phase[j] /\ starts'[j] = starts[j]

Next ==
  \A j \in Jobs :
    \/ Submit(j) \/ Take(j) \/ Release(j) \/ Same(j)
    \/ \E outcome \in {"completed", "failed"} : Settle(j, outcome)

Spec == Init /\ [][Next]_<<phase, starts>>
=============================================================================
