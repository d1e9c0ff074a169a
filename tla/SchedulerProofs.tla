--------------------------- MODULE SchedulerProofs ---------------------------
(***************************************************************************)
(* What holds of Scheduler for any expressions, hashes, jitter and         *)
(* interval of the ticks.                                                  *)
(***************************************************************************)
EXTENDS Scheduler, FiniteSetTheorems, TLAPS

(* The next run lies after the time it is asked for: the jitter adds to the  *)
(* next occurrence and never takes from it.                                  *)
LEMMA BaseIsNext ==
  ASSUME NEW c \in Crons, NEW t, NEW o, IsNext(c, t, o)
  PROVE  IsNext(c, t, Base(c, t))
<1> DEFINE S == {u \in Occurs[c] : u > t}
<1>1. o \in S /\ \A y \in S : o <= y
  BY DEF IsNext
<1>2. Base(c, t) \in S /\ \A y \in S : Base(c, t) <= y
  BY <1>1 DEF Base, Min
<1>3. QED
  BY <1>2 DEF IsNext

LEMMA MinOfTwo ==
  ASSUME NEW a \in Nat, NEW b \in Nat
  PROVE  Min({a, b}) \in Nat /\ Min({a, b}) <= a /\ Min({a, b}) <= b
<1>1. \E x \in {a, b} : \A y \in {a, b} : x <= y
  <2>1. CASE a <= b
    BY <2>1
  <2>2. CASE b <= a
    BY <2>2
  <2>3. QED
    BY <2>1, <2>2
<1>2. Min({a, b}) \in {a, b} /\ \A y \in {a, b} : Min({a, b}) <= y
  BY <1>1 DEF Min
<1>3. QED
  BY <1>2

LEMMA NextRunLater ==
  ASSUME NEW c \in Crons, NEW t \in 0 .. Horizon, spread \in Spreads
  PROVE  NextRun(c, t) \in Nat /\ NextRun(c, t) > t
<1> DEFINE b == Base(c, t)
<1>1. PICK o \in Occurs[c] : IsNext(c, t, o) /\ \E p \in Occurs[c] : IsNext(c, o, p)
  BY OccursAssumption
<1>2. IsNext(c, t, b)
  BY <1>1, BaseIsNext
<1>3. b = o /\ b \in Nat /\ b > t
  BY <1>1, <1>2, SchedulerAssumption DEF IsNext
<1>4. IsNext(c, b, Base(c, b))
  BY <1>1, <1>3, BaseIsNext
<1>5. Base(c, b) - b - 1 \in Nat
  BY <1>3, <1>4, SchedulerAssumption DEF IsNext
<1>6. Ceiling(c, b) \in Nat
  BY <1>5, MinOfTwo, SchedulerAssumption DEF Ceiling
<1>7. spread[b] \in Nat
  BY <1>2, OccursAssumption DEF IsNext, Times
<1> HIDE DEF b
<1>8. spread[b] % (Ceiling(c, b) + 1) \in Nat
  BY <1>6, <1>7
<1>9. NextRun(c, t) = b + (spread[b] % (Ceiling(c, b) + 1))
  BY DEF NextRun, b
<1>10. QED
  BY <1>3, <1>8, <1>9

-----------------------------------------------------------------------------
(* The clock of a tick is the present, a tick works on the row as it is, and *)
(* the slot in the row lies ahead of everything the row has been used for.   *)
Clock ==
  /\ now <= Horizon /\ setUp <= now /\ lastQueued <= now
  /\ pc = "ticking" => current = now /\ seen.row = row
  /\ row.cron # NoCron => lastQueued < row.next /\ setUp < row.next

Inv == TypeOK /\ Clock

LEMMA InvInit == Init => Inv
BY SchedulerAssumption
   DEF Init, Inv, TypeOK, Clock, NoRow, Rows

LEMMA TickCommitStep ==
  ASSUME Inv, TickCommit PROVE Inv'
<1> USE SchedulerAssumption DEF Inv, TypeOK, Clock
<1>1. /\ current = now /\ now \in 0 .. Horizon /\ seen.row = row
      /\ seen.cron \in Crons \union {NoCron}
      /\ row \in Rows /\ row.next \in Nat /\ row.cron \in Crons \union {NoCron}
  BY DEF TickCommit, Rows
<1>2. row' = Scheduled(seen, current)
  BY DEF TickCommit
<1>3. seen.cron # NoCron =>
        Following(seen, current) \in Nat /\ Following(seen, current) > current
  BY <1>1, NextRunLater DEF Following
<1>4. row' \in Rows
  BY <1>1, <1>2, <1>3 DEF Scheduled, Rows, NoRow
<1>5. lastQueued' \in Nat /\ lastQueued' <= now /\ setUp' \in Nat /\ setUp' <= now
  BY <1>1 DEF TickCommit
<1>6. row'.cron # NoCron => lastQueued' < row'.next /\ setUp' < row'.next
  <2>1. CASE seen.cron = NoCron
    BY <1>2, <2>1 DEF Scheduled, NoRow
  <2>2. CASE seen.cron # NoCron /\ (row.cron # seen.cron \/ Due(seen, current))
    <3>1. row'.next > current
      BY <1>1, <1>2, <1>3, <2>2 DEF Scheduled
    <3>2. QED
      BY <1>1, <1>4, <1>5, <3>1 DEF Rows
  <2>3. CASE seen.cron # NoCron /\ row.cron = seen.cron /\ ~Due(seen, current)
    <3>1. row' = row
      BY <1>1, <1>2, <2>3 DEF Scheduled
    <3>2. lastQueued' = lastQueued /\ setUp' = setUp
      BY <1>1, <2>3 DEF TickCommit
    <3>3. QED
      BY <2>3, <3>1, <3>2
  <2>4. QED
    BY <2>1, <2>2, <2>3
<1>7. jobs' \subseteq ({"scan", "retention", "platform"} \X Nat)
  <2>1. current \div Day \in Nat /\ current \div PlatformSync \in Nat
    BY <1>1
  <2>2. QED
    BY <1>1, <2>1 DEF TickCommit, Queues
<1>8. seen' \in [row : Rows, cron : Crons \union {NoCron}]
  BY DEF TickCommit, TickEnd, NoRow, Rows
<1>9. QED
  BY <1>1, <1>4, <1>5, <1>6, <1>7, <1>8 DEF TickCommit, TickEnd

LEMMA InvNext == Inv /\ [Next]_vars => Inv'
<1> SUFFICES ASSUME Inv, [Next]_vars PROVE Inv'
  OBVIOUS
<1> USE SchedulerAssumption DEF Inv, TypeOK, Clock
<1>1. CASE TickBegin
  BY <1>1 DEF TickBegin
<1>2. CASE TickCommit
  BY <1>2, TickCommitStep
<1>3. CASE TickLost
  <2>1. NoRow \in Rows
    BY DEF NoRow, Rows
  <2>2. seen' \in [row : Rows, cron : Crons \union {NoCron}] /\ current' \in Nat
    BY <1>3, <2>1 DEF TickLost, TickEnd
  <2>3. edits' \in 0 .. MaxEdits /\ pc' = "idle"
    BY <1>3 DEF TickLost, TickEnd, Edit
  <2>4. rested' \in BOOLEAN
    BY <1>3, Zenon DEF TickLost, TickEnd
  <2>5. UNCHANGED <<now, spread, active, cron, row, jobs, setUp, lastTick, steady, lastQueued>>
    BY <1>3 DEF TickLost
  <2>6. QED
    BY <2>2, <2>3, <2>4, <2>5
<1>4. CASE Sleep
  BY <1>4 DEF Sleep
<1>5. CASE Outage
  BY <1>5 DEF Outage, Edit
<1>6. CASE EditProgram
  BY <1>6 DEF EditProgram, Edit
<1>7. CASE UNCHANGED vars
  BY <1>7 DEF vars
<1>8. QED
  BY <1>1, <1>2, <1>3, <1>4, <1>5, <1>6, <1>7 DEF Next

LEMMA Invariant == Spec => []Inv
BY InvInit, InvNext, PTL DEF Spec

(* Type correctness: the row, the jobs, the clock and the tick.              *)
THEOREM TypeCorrect == Spec => []TypeOK
<1>1. Inv => TypeOK
  BY DEF Inv
<1>2. QED
  BY <1>1, Invariant, PTL

-----------------------------------------------------------------------------
(* The only scan a tick can queue is that of the slot in the row.            *)
LEMMA NewSlot ==
  ASSUME Inv, [Next]_vars, NEW t \in ScanSlots' \ ScanSlots
  PROVE  t = row.next /\ row.cron # NoCron
<1>1. CASE TickCommit
  <2>1. PICK k \in jobs' : k[1] = "scan" /\ k[2] = t
    BY DEF ScanSlots
  <2>2. k \notin jobs
    BY <2>1 DEF ScanSlots
  <2>3. k \in Queues(seen, current)
    BY <1>1, <2>1, <2>2 DEF TickCommit
  <2>4. k = <<"scan", seen.row.next>> /\ seen.cron # NoCron /\ Due(seen, current)
    BY <2>1, <2>3 DEF Queues
  <2>5. QED
    BY <1>1, <2>1, <2>4 DEF Due, Inv, Clock, TickCommit
<1>2. CASE jobs' = jobs
  BY <1>2 DEF ScanSlots
<1>3. QED
  BY <1>1, <1>2 DEF Next, vars, TickBegin, TickLost, Sleep, Outage, EditProgram

(* What was missed is made up for once: a tick queues one scan, for a slot   *)
(* after the tick that queued the scan before.                               *)
THEOREM CatchUpsAreSingle == Spec => CatchUpIsSingle
<1>1. Inv /\ [Next]_vars =>
        [\A t \in ScanSlots' \ ScanSlots :
           t > lastQueued /\ Cardinality(ScanSlots' \ ScanSlots) = 1]_vars
  <2> SUFFICES ASSUME Inv, [Next]_vars, NEW t \in ScanSlots' \ ScanSlots
               PROVE  t > lastQueued /\ Cardinality(ScanSlots' \ ScanSlots) = 1
    OBVIOUS
  <2>1. t > lastQueued
    BY NewSlot DEF Inv, Clock, TypeOK, Rows
  <2>2. ScanSlots' \ ScanSlots = {t}
    BY NewSlot
  <2>3. QED
    BY <2>1, <2>2, FS_Singleton
<1>2. QED
  BY <1>1, Invariant, PTL DEF Spec, CatchUpIsSingle

(* A schedule that comes back, or was edited, waits for the next occurrence. *)
THEOREM ResumesWait == Spec => ResumeWaits
<1>1. Inv /\ [Next]_vars => [\A t \in ScanSlots' \ ScanSlots : t > setUp]_vars
  BY NewSlot DEF Inv, Clock, TypeOK, Rows
<1>2. QED
  BY <1>1, Invariant, PTL DEF Spec, ResumeWaits

-----------------------------------------------------------------------------
(* The slot of an occurrence lies within the jitter and before the following *)
(* occurrence.                                                               *)
LEMMA SlotWithinGap ==
  ASSUME NEW c \in Crons, NEW t \in 0 .. Horizon, spread \in Spreads
  PROVE  LET b == Base(c, t) IN
           /\ b \in Occurs[c] /\ b \in Nat /\ b > t /\ NextRun(c, t) = Slot(c, b)
           /\ \A y \in Occurs[c] : y > t => b <= y
           /\ Slot(c, b) \in Nat /\ Slot(c, b) <= b + JitterSeconds
           /\ \A y \in Occurs[c] : y > b => y > Slot(c, b)
<1> DEFINE b == Base(c, t)
           gap == Base(c, b) - b - 1
           m == Ceiling(c, b)
<1>1. PICK o \in Occurs[c] : IsNext(c, t, o) /\ \E p \in Occurs[c] : IsNext(c, o, p)
  BY OccursAssumption
<1>2. IsNext(c, t, b)
  BY <1>1, BaseIsNext
<1>3. b = o /\ b \in Nat /\ b > t
  BY <1>1, <1>2, SchedulerAssumption DEF IsNext
<1>4. IsNext(c, b, Base(c, b))
  BY <1>1, <1>3, BaseIsNext
<1>5. gap \in Nat /\ \A y \in Occurs[c] : y > b => y > b + gap
  BY <1>3, <1>4, SchedulerAssumption DEF IsNext
<1>6. spread[b] \in Nat
  BY <1>2, OccursAssumption DEF IsNext, Times
<1>7. m = Min({JitterSeconds, gap})
  BY DEF Ceiling
<1>8. NextRun(c, t) = b + (spread[b] % (m + 1)) /\ Slot(c, b) = b + (spread[b] % (m + 1))
  BY DEF NextRun, Slot
<1>9. b \in Occurs[c] /\ \A y \in Occurs[c] : y > t => b <= y
  BY <1>2 DEF IsNext
<1> HIDE DEF b, gap, m
<1>10. m \in Nat /\ m <= JitterSeconds /\ m <= gap
  BY <1>5, <1>7, MinOfTwo, SchedulerAssumption
<1>11. spread[b] % (m + 1) \in 0 .. m
  BY <1>6, <1>10
<1>12. Slot(c, b) \in Nat /\ Slot(c, b) <= b + JitterSeconds /\ Slot(c, b) <= b + gap
  BY <1>3, <1>5, <1>8, <1>10, <1>11, SchedulerAssumption
<1>13. \A y \in Occurs[c] : y > b => y > Slot(c, b)
  <2> SUFFICES ASSUME NEW y \in Occurs[c], y > b PROVE y > Slot(c, b)
    OBVIOUS
  <2>1. y \in Nat /\ y > b + gap
    BY <1>5, SchedulerAssumption
  <2> QED
    BY <1>3, <1>5, <1>12, <2>1
<1> QED
  BY <1>3, <1>8, <1>9, <1>12, <1>13 DEF b

(* The row's slot is ahead of the last tick and belongs to an occurrence     *)
(* before which none is missing, since the schedule was set up and the ticks *)
(* are regular.                                                              *)
Planned(b) ==
  /\ b \in Nat /\ row.next = Slot(row.cron, b) /\ row.next <= b + JitterSeconds
  /\ \A y \in Occurs[row.cron] : y > b => y > row.next
  /\ \A y \in Occurs[row.cron] :
       Roomy(row.cron, y) /\ setUp < y /\ steady < y /\ y < b => Slot(row.cron, y) \in ScanSlots
Covered ==
  IF row.cron = NoCron THEN row = NoRow
  ELSE lastTick < row.next /\ \E b \in Occurs[row.cron] : Planned(b)

LEMMA CoveredCommit ==
  ASSUME Inv, Covered, lastTick <= now, steady <= now, TickCommit PROVE Covered'
<1>0. PICK c : c = seen.cron
  OBVIOUS
<1>1. /\ current = now /\ now \in 0 .. Horizon /\ seen.row = row /\ spread \in Spreads
      /\ c \in Crons \union {NoCron} /\ row.next \in Nat
      /\ lastTick \in Nat /\ steady \in Nat /\ setUp \in Nat
  BY <1>0 DEF TickCommit, Inv, Clock, TypeOK, Rows
<1>2. /\ row' = Scheduled(seen, current) /\ lastTick' = now /\ spread' = spread
      /\ steady' = IF now - lastTick > Poll THEN now ELSE steady
      /\ setUp' = IF c # row.cron THEN now ELSE setUp
      /\ ScanSlots \subseteq ScanSlots'
  BY <1>0, <1>1 DEF TickCommit, ScanSlots
<1>3. CASE c = NoCron
  <2>1. row' = NoRow
    BY <1>0, <1>2, <1>3 DEF Scheduled
  <2> QED
    BY <2>1 DEF Covered, NoRow
<1>4. CASE c # NoCron /\ (row.cron # c \/ Due(seen, now))
  <2>0. PICK b : b = Base(c, now)
    OBVIOUS
  <2>1. c \in Crons
    BY <1>1, <1>4
  <2>2. row'.cron = c /\ row'.next = NextRun(c, now)
    BY <1>0, <1>1, <1>2, <1>4 DEF Scheduled, Following
  <2>3. /\ b \in Occurs[c] /\ b \in Nat /\ b > now /\ NextRun(c, now) = Slot(c, b)
        /\ \A y \in Occurs[c] : y > now => b <= y
        /\ Slot(c, b) \in Nat /\ Slot(c, b) <= b + JitterSeconds
        /\ \A y \in Occurs[c] : y > b => y > Slot(c, b)
    BY <1>1, <2>0, <2>1, SlotWithinGap
  <2>4. \A y : Slot(c, y)' = Slot(c, y)
    BY <1>2 DEF Slot
  <2>5. ASSUME NEW y \in Occurs[c], Roomy(c, y), setUp' < y, steady' < y, y < b
        PROVE  Slot(c, y) \in ScanSlots'
    <3>1. y \in Nat /\ y <= now
      BY <2>1, <2>3, <2>5, <1>1, SchedulerAssumption
    <3>2. c = row.cron /\ Due(seen, now) /\ setUp' = setUp
      BY <1>1, <1>2, <1>4, <2>5, <3>1
    <3>3. PICK o \in Occurs[c] : Planned(o)
      BY <1>4, <3>2 DEF Covered
    <3>4. now - lastTick <= Poll /\ steady' = steady
      BY <1>1, <1>2, <2>5, <3>1, SchedulerAssumption
    <3>5. lastTick < row.next /\ row.next <= now
      BY <1>0, <1>1, <1>4, <3>2 DEF Covered, Due
    <3>6. CASE y < o
      BY <1>2, <2>5, <3>2, <3>3, <3>4, <3>6 DEF Planned
    <3>7. CASE y = o
      <4>1. <<"scan", row.next>> \in jobs'
        BY <1>0, <1>1, <1>4, <3>2 DEF TickCommit, Queues
      <4>2. row.next \in ScanSlots'
        BY <4>1 DEF ScanSlots
      <4> QED
        BY <3>2, <3>3, <3>7, <4>2 DEF Planned
    <3>8. CASE y > o
      <4>1. y - o >= JitterSeconds + Poll
        BY <2>5, <3>8 DEF Roomy
      <4>2. o \in Nat /\ row.next <= o + JitterSeconds
        BY <3>3 DEF Planned
      <4> QED
        BY <1>1, <3>1, <3>4, <3>5, <4>1, <4>2, SchedulerAssumption
    <3> QED
      BY <3>1, <3>3, <3>6, <3>7, <3>8 DEF Planned
  <2>6. Planned(b)'
    BY <2>2, <2>3, <2>4, <2>5 DEF Planned, Roomy
  <2>7. row'.next > now
    BY <1>1, <2>1, <2>2, NextRunLater
  <2> QED
    BY <1>1, <1>2, <1>4, <2>2, <2>3, <2>6, <2>7 DEF Covered
<1>5. CASE c # NoCron /\ row.cron = c /\ ~Due(seen, now)
  <2>1. row' = row /\ setUp' = setUp
    BY <1>0, <1>1, <1>2, <1>5 DEF Scheduled
  <2>2. PICK o \in Occurs[c] : Planned(o)
    BY <1>5 DEF Covered
  <2>3. row.next > now
    BY <1>0, <1>1, <1>5 DEF Due
  <2>4. \A y : Slot(c, y)' = Slot(c, y)
    BY <1>2 DEF Slot
  <2>5. \A y \in Occurs[c] : steady' < y => steady < y
    BY <1>1, <1>2, <1>5, SchedulerAssumption
  <2>6. Planned(o)'
    <3>1. /\ o \in Nat /\ row.next = Slot(c, o) /\ row.next <= o + JitterSeconds
          /\ \A y \in Occurs[c] : y > o => y > row.next
      BY <1>5, <2>2 DEF Planned
    <3>2. ASSUME NEW y \in Occurs[c], Roomy(c, y), setUp < y, steady' < y, y < o
          PROVE  Slot(c, y) \in ScanSlots'
      BY <1>2, <1>5, <2>2, <2>5, <3>2 DEF Planned
    <3> QED
      BY <1>5, <2>1, <2>4, <3>1, <3>2 DEF Planned, Roomy
  <2> QED
    BY <1>2, <1>5, <2>1, <2>2, <2>3, <2>6 DEF Covered
<1> QED
  BY <1>1, <1>3, <1>4, <1>5

CInv == Covered /\ lastTick <= now /\ steady <= now

LEMMA CInvNext == Inv /\ CInv /\ [Next]_vars => CInv'
<1> SUFFICES ASSUME Inv, CInv, [Next]_vars PROVE CInv'
  OBVIOUS
<1>1. now \in Nat /\ lastTick \in Nat /\ steady \in Nat
  BY DEF Inv, TypeOK
<1>2. CASE TickCommit
  <2>1. now' = now /\ lastTick' = now /\ steady' <= now
    BY <1>1, <1>2 DEF TickCommit, Inv, Clock, CInv
  <2> QED
    BY <1>1, <1>2, <2>1, CoveredCommit DEF CInv
<1>3. CASE ~TickCommit
  <2>1. UNCHANGED <<row, jobs, spread, setUp, lastTick, steady>> /\ now' >= now /\ now' \in Nat
    BY <1>1, <1>3, SchedulerAssumption
       DEF Next, vars, TickBegin, TickLost, Sleep, Outage, EditProgram
  <2>2. Covered'
    BY <2>1 DEF CInv, Covered, Planned, Roomy, Slot, ScanSlots
  <2> QED
    BY <1>1, <2>1, <2>2 DEF CInv
<1> QED
  BY <1>2, <1>3

(* No occurrence is passed over, for any expressions, hashes and jitter: the *)
(* jitter and a poll that fit between two occurrences bring a tick between   *)
(* the slot of the one and the other (scheduler.py, _next_run).              *)
THEOREM SlotsAreKept == Spec => []NoSlotSkipped
<1>1. Init => CInv
  BY DEF Init, CInv, Covered, NoRow
<1>2. Inv /\ CInv => NoSlotSkipped
  <2> SUFFICES ASSUME Inv, CInv, lastTick = now, row # NoRow,
                      NEW base \in Occurs[row.cron], Roomy(row.cron, base),
                      setUp < base, steady < base,
                      base <= now, Slot(row.cron, base) <= now
               PROVE  Slot(row.cron, base) \in ScanSlots
    BY DEF NoSlotSkipped
  <2>1. row.cron # NoCron /\ row.cron \in Crons /\ row.next \in Nat /\ now \in Nat
    BY DEF CInv, Covered, Inv, TypeOK, Rows
  <2>2. now < row.next
    BY <2>1 DEF CInv, Covered
  <2>3. PICK b \in Occurs[row.cron] : Planned(b)
    BY <2>1 DEF CInv, Covered
  <2>4. base \in Nat /\ b \in Nat
    BY <2>1, SchedulerAssumption
  <2>5. ~(base > b)
    BY <2>1, <2>2, <2>3, <2>4 DEF Planned
  <2>6. base # b
    BY <2>1, <2>2, <2>3 DEF Planned
  <2>7. base < b
    BY <2>4, <2>5, <2>6
  <2> QED
    BY <2>3, <2>7 DEF Planned
<1> QED
  BY <1>1, <1>2, CInvNext, Invariant, PTL DEF Spec
=============================================================================
