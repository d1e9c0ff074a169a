---------------------------- MODULE MCScheduler ----------------------------
(* Instances of Scheduler: a regular and an irregular expression, two gaps   *)
(* of which are too small for the jitter and a poll, and hashes that give    *)
(* no, full and uneven jitter.                                               *)
EXTENDS Scheduler

CONSTANTS hourly, daily

OccursTable == [c \in Crons |-> IF c = hourly THEN {5 * k : k \in 0 .. 8}
                                ELSE {7, 13, 16, 20, 27, 40, 47}]
AllTimes == UNION {OccursTable[c] : c \in Crons}
SpreadTable == {[t \in AllTimes |-> 0], [t \in AllTimes |-> 3],
                [t \in AllTimes |-> (t * 7) % 11]}
=============================================================================
