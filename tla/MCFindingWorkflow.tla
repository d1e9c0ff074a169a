-------------------------- MODULE MCFindingWorkflow --------------------------
(* Instances of FindingWorkflow: two overlapping API requests and the two    *)
(* workers, on a finding that is verified up to three times.                 *)
EXTENDS FindingWorkflow

CONSTANTS r1, r2
OneRequest == {r1}
TwoRequests == {r1, r2}
=============================================================================
