----------------------------- MODULE MCJobQueue -----------------------------
(* The deployment of compose.yml with one scan worker, and the LLM queue     *)
(* scaled to two workers of different BB_WORKER_ID.                          *)
EXTENDS JobQueue

CONSTANTS scanner, codex, codex2

ComposeOwner == [w \in Workers |-> w]
OneEach == [w \in Workers |-> IF w = scanner THEN {"scan"} ELSE {"llm-codex"}]

(* Jobs 1 and 2 are scans, the second urgent; job 3 is a planner job.        *)
QueueTable == [j \in Jobs |-> IF j = 3 THEN "llm-codex" ELSE "scan"]
PriorityTable == [j \in Jobs |-> IF j = 2 THEN 50 ELSE 10]
AttemptTable == [j \in Jobs |-> IF j = 2 THEN 1 ELSE 2]
AlertJobs == Jobs \intersect {2}
=============================================================================
