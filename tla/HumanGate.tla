------------------------------ MODULE HumanGate ------------------------------
(***************************************************************************)
(* What the pipeline promises a person who answers for a finding, without  *)
(* rows, jobs or overlapping requests: a review that was made stays made,  *)
(* a finding is accepted only when it is reviewed, submitted only when a   *)
(* person has accepted it at least once, and a submission stays on record. *)
(* Each step changes one of these: no late write takes two of them along.  *)
(***************************************************************************)
VARIABLES reviewed,   \* verified and criticised, or excused from that
          accepted,   \* human_validated
          submitted,
          ever        \* a person has accepted it some time

gate == <<reviewed, accepted, submitted, ever>>

Init == ~reviewed /\ ~accepted /\ ~submitted /\ ~ever

Review == ~reviewed /\ reviewed' /\ UNCHANGED <<accepted, submitted, ever>>

Accept == reviewed /\ accepted' /\ ever' /\ UNCHANGED <<reviewed, submitted>>

(* Also of what was submitted meanwhile.                                     *)
Withdraw == accepted /\ ~accepted' /\ UNCHANGED <<reviewed, submitted, ever>>

Submit == ever /\ submitted' /\ UNCHANGED <<reviewed, accepted, ever>>

Next == Review \/ Accept \/ Withdraw \/ Submit

Spec == Init /\ [][Next]_gate
=============================================================================
