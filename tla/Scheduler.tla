------------------------------ MODULE Scheduler ------------------------------
(***************************************************************************)
(* The scheduler (bbpipeline/scheduler.py): every tick queues the day's    *)
(* retention job, the platform_sync job of the current slot, and the scan  *)
(* of a program whose next_run_at has passed.  One program and one kind of *)
(* scan; the cron expression stands for the times it occurs at, and the    *)
(* hash that spreads them is an arbitrary function of the occurrence.      *)
(***************************************************************************)
EXTENDS Naturals, FiniteSets, FiniteSetsExt

CONSTANTS Horizon,      \* the run ends here
          Crons,        \* cron expressions
          Occurs,       \* expression -> the times it occurs at
          JitterSeconds,\* manifest.schedule_jitter_seconds
          Spreads,      \* possible hashes, as functions of the occurrence
          Poll,         \* longest time between two ticks of a running scheduler
          Day, PlatformSync,   \* lengths of a day and of a platform_sync slot
          NoCron,       \* no schedule, an invalid one, or the kind is disabled
          MaxEdits      \* bound on edits, outages and lost ticks

ASSUME SchedulerAssumption ==
  /\ {Horizon, JitterSeconds, MaxEdits} \subseteq Nat
  /\ {Poll, Day, PlatformSync} \subseteq Nat \ {0}
  /\ NoCron \notin Crons /\ Occurs \in [Crons -> SUBSET Nat]

Times == UNION {Occurs[c] : c \in Crons}

(* An expression occurs again after any time, and after that once more.      *)
IsNext(c, t, o) ==
  o \in Occurs[c] /\ o > t /\ \A p \in Occurs[c] : p > t => o <= p

ASSUME OccursAssumption ==
  /\ \A c \in Crons, t \in 0 .. Horizon :
       \E o \in Occurs[c] : IsNext(c, t, o) /\ \E p \in Occurs[c] : IsNext(c, o, p)
  /\ \A h \in Spreads : \A t \in Times : h[t] \in Nat

VARIABLES
  now,
  spread,      \* occurrence -> its hash; chosen once
  active,      \* sync_programs leaves the program active
  cron,        \* the schedule in its manifest
  row,         \* the schedule_states row: cron and next_run_at
  jobs,        \* dedupe keys of the jobs queued
  pc, current, seen,   \* the tick: place, its clock and the row, cron it loaded
  rested,      \* the poll interval since the last tick has passed
  setUp,       \* history: clock of the tick that created the row or changed its cron
  lastTick,    \* history: clock of the last tick that committed
  steady,      \* history: since this tick they came at most Poll apart
  lastQueued,  \* history: clock of the tick that queued the last scan
  edits

vars == <<now, spread, active, cron, row, jobs, pc, current, seen, rested, setUp,
          lastTick, steady, lastQueued, edits>>

NoRow == [cron |-> NoCron, next |-> 0]
Rows == [cron : Crons \union {NoCron}, next : Nat]

TypeOK ==
  /\ now \in Nat /\ spread \in Spreads /\ active \in BOOLEAN
  /\ cron \in Crons \union {NoCron} /\ row \in Rows
  /\ jobs \subseteq ({"scan", "retention", "platform"} \X Nat)
  /\ pc \in {"idle", "ticking"} /\ current \in Nat
  /\ seen \in [row : Rows, cron : Crons \union {NoCron}]
  /\ rested \in BOOLEAN /\ setUp \in Nat /\ {lastTick, steady} \subseteq Nat
  /\ lastQueued \in Nat /\ edits \in 0 .. MaxEdits

Init ==
  /\ now = 0 /\ spread \in Spreads /\ active \in BOOLEAN
  /\ cron \in Crons /\ row = NoRow /\ jobs = {}
  /\ pc = "idle" /\ current = 0 /\ seen = [row |-> NoRow, cron |-> NoCron]
  /\ rested = TRUE /\ setUp = 0 /\ lastTick = 0 /\ steady = 0 /\ lastQueued = 0 /\ edits = 0

-----------------------------------------------------------------------------
(* _next_run: the jitter stays below the gap to the following occurrence. *)
Base(c, after) == Min({t \in Occurs[c] : t > after})
Ceiling(c, base) == Min({JitterSeconds, Base(c, base) - base - 1})
NextRun(c, after) ==
  LET base == Base(c, after) IN base + (spread[base] % (Ceiling(c, base) + 1))

(* One schedule in scheduler_tick. *)
Due(s, t) == s.row.cron = s.cron /\ s.row.next <= t

Following_Distant(s, t) == NextRun(s.cron, t + JitterSeconds)
Following_FromSlot(s, t) == IF Due(s, t) THEN NextRun(s.cron, s.row.next) ELSE NextRun(s.cron, t)
Following(s, t) == NextRun(s.cron, t)

Scheduled_Kept(s, t) ==
  IF s.cron = NoCron THEN s.row
  ELSE IF s.row.cron # s.cron \/ Due(s, t) THEN [cron |-> s.cron, next |-> Following(s, t)]
  ELSE s.row
Scheduled(s, t) ==
  IF s.cron = NoCron THEN NoRow
  ELSE IF s.row.cron # s.cron \/ Due(s, t) THEN [cron |-> s.cron, next |-> Following(s, t)]
  ELSE s.row

Queues(s, t) ==
  {<<"retention", t \div Day>>, <<"platform", t \div PlatformSync>>}
    \union (IF s.cron # NoCron /\ Due(s, t) THEN {<<"scan", s.row.next>>} ELSE {})

-----------------------------------------------------------------------------
(* A tick reads the clock, the manifests and the rows, *)
TickBegin ==
  /\ pc = "idle" /\ rested /\ pc' = "ticking" /\ current' = now
  /\ seen' = [row |-> row, cron |-> IF active THEN cron ELSE NoCron]
  /\ UNCHANGED <<now, spread, active, cron, row, jobs, rested, setUp, lastTick, steady,
                 lastQueued, edits>>

TickEnd == /\ pc' = "idle" /\ rested' = FALSE /\ current' = 0
           /\ seen' = [row |-> NoRow, cron |-> NoCron]

(* and commits the rows and the jobs together. *)
TickCommit ==
  /\ pc = "ticking"
  /\ row' = Scheduled(seen, current) /\ jobs' = jobs \union Queues(seen, current)
  /\ lastQueued' = IF seen.cron # NoCron /\ Due(seen, current) THEN current ELSE lastQueued
  /\ setUp' = IF seen.cron # seen.row.cron THEN current ELSE setUp
  /\ lastTick' = current /\ steady' = IF current - lastTick > Poll THEN current ELSE steady
  /\ TickEnd /\ UNCHANGED <<now, spread, active, cron, edits>>

(* The tick raises or the process dies: everything rolls back. *)
Edit == edits < MaxEdits /\ edits' = edits + 1
TickLost ==
  /\ pc = "ticking" /\ Edit /\ TickEnd
  /\ UNCHANGED <<now, spread, active, cron, row, jobs, setUp, lastTick, steady, lastQueued>>

-----------------------------------------------------------------------------
Sleep ==
  /\ pc = "idle" /\ ~rested /\ rested' = TRUE
  /\ \E d \in 1 .. Poll : now + d <= Horizon /\ now' = now + d
  /\ UNCHANGED <<spread, active, cron, row, jobs, pc, current, seen, setUp, lastTick, steady,
                 lastQueued, edits>>

(* The scheduler is down for longer. *)
Outage ==
  /\ pc = "idle" /\ ~rested /\ rested' = TRUE /\ Edit
  /\ \E t \in (now + Poll + 1) .. Horizon : now' = t
  /\ UNCHANGED <<spread, active, cron, row, jobs, pc, current, seen, setUp, lastTick, steady,
                 lastQueued>>

(* The program is paused or resumed, or its schedule edited, at any moment. *)
EditProgram ==
  /\ Edit /\ active' \in BOOLEAN /\ cron' \in Crons \union {NoCron}
  /\ <<active', cron'>> # <<active, cron>>
  /\ UNCHANGED <<now, spread, row, jobs, pc, current, seen, rested, setUp, lastTick, steady,
                 lastQueued>>

Next == TickBegin \/ TickCommit \/ TickLost \/ Sleep \/ Outage \/ EditProgram

Spec == Init /\ [][Next]_vars

-----------------------------------------------------------------------------
ScanSlots == {k[2] : k \in {j \in jobs : j[1] = "scan"}}

(* "Never let a global schedule accidentally concentrate traffic on one      *)
(* target": what was missed during an outage, a pause or an edit of the      *)
(* schedule is made up for once; a scan is never queued for a slot that had  *)
(* already passed when the one before it was queued.                         *)
CatchUpIsSingle ==
  [][\A t \in ScanSlots' \ ScanSlots :
       t > lastQueued /\ Cardinality(ScanSlots' \ ScanSlots) = 1]_vars

(* The jitter never makes a running scheduler pass over an occurrence: once  *)
(* the row is set up and the ticks are regular, every occurrence has its     *)
(* scan at the first tick after its slot, where the expression leaves room   *)
(* for the jitter and a poll since the occurrence before it.                 *)
Slot(c, base) == base + (spread[base] % (Ceiling(c, base) + 1))
Roomy(c, base) == \A o \in Occurs[c] : o < base => base - o >= JitterSeconds + Poll
NoSlotSkipped ==
  pc = "idle" /\ ~rested /\ lastTick = now /\ row # NoRow =>
    \A base \in Occurs[row.cron] :
      /\ Roomy(row.cron, base) /\ setUp < base /\ steady < base
      /\ base <= now /\ Slot(row.cron, base) <= now
      => Slot(row.cron, base) \in ScanSlots

(* A program that comes back from a pause, and one whose schedule was        *)
(* edited, waits for the next occurrence: no slot from before is made up.    *)
ResumeWaits == [][\A t \in ScanSlots' \ ScanSlots : t > setUp]_vars
=============================================================================
