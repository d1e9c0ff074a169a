-------------------------- MODULE ArtifactLifecycle --------------------------
(***************************************************************************)
(* What the evidence store promises of an artifact, without rows, files,   *)
(* transactions or retention jobs: it can be read from the step it appears *)
(* in until it is due, it is removed only when it is due, it is marked     *)
(* deleted only when it is removed, and none of this is ever taken back.   *)
(* A transaction stores several artifacts, and a retention job marks       *)
(* several at once, also such as another has marked before it.             *)
(***************************************************************************)
CONSTANT Evidence
VARIABLE state

Init == state = [e \in Evidence |-> "none"]

Becomes(E, from, to) ==
  /\ \A e \in E : state[e] \in from
  /\ state' = [e \in Evidence |-> IF e \in E THEN to ELSE state[e]]

Store(E) == Becomes(E, {"none"}, "readable")
Expire(e) == Becomes({e}, {"readable"}, "due")
Remove(e) == Becomes({e}, {"due"}, "removed")
Mark(E) == Becomes(E, {"removed", "deleted"}, "deleted")

Next == \/ \E E \in SUBSET Evidence : Store(E) \/ Mark(E)
        \/ \E e \in Evidence : Expire(e) \/ Remove(e)

Spec == Init /\ [][Next]_state
=============================================================================
