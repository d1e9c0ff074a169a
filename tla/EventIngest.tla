----------------------------- MODULE EventIngest -----------------------------
(***************************************************************************)
(* One asset seen again and again (bbpipeline/events.py and scoring.py):   *)
(* each observation is redacted, compared with the event row of its        *)
(* fingerprint and scored, and a new or changed one of enough value queues *)
(* a planner job, whose answer becomes a finding (workflow.py).  A scan    *)
(* result is stored in the transaction of its scan job, which may still    *)
(* fail; the planner job's dedupe key is the event and the payload hash.   *)
(* Every scan adds the ids of its evidence to the row, the job's packet    *)
(* lists them all, and a packet that cannot be cut to the ceiling fails    *)
(* the scan job.                                                           *)
(***************************************************************************)
EXTENDS Packets, FiniteSets

CONSTANTS Scanners,      \* transactions of scan jobs
          Raw,           \* what an adapter may report
          Payloads, Redacted,   \* payload hashes, and redact: Raw -> Payloads
          Values,        \* severity, type bonus, confidence and flags, added up
          TriggerScore,  \* manifest.llm.trigger_score
          Enabled,       \* manifest.llm.enabled
          Scannable,     \* payloads of a GitHub repository neither archived nor forked
          NoPayload,
          PacketOf,      \* payload -> the packet of its event, without evidence ids
          IdBytes,       \* what the evidence ids of one scan add to a packet
          MaxContextBytes,
          MaxScans,      \* the row stops counting the scans behind its evidence ids here
          MaxFaults      \* bound on attempts that do not commit

ASSUME IngestAssumption ==
  /\ Redacted \in [Raw -> Payloads] /\ NoPayload \notin Payloads
  /\ Values \subseteq Int /\ TriggerScore \in Int /\ Enabled \in BOOLEAN
  /\ Scannable \subseteq Payloads /\ MaxFaults \in Nat
  /\ PacketOf \in [Payloads -> Packet] /\ IdBytes \in Nat
  /\ MaxContextBytes \in Nat /\ MaxScans \in Nat

VARIABLES
  event,      \* the row
  planner,    \* payload -> the job planner:<event>:<payload>:<provider>
  listed,     \* payload -> the scans whose evidence ids the packet of that job lists
  gitleaks,   \* payloads with a job gitleaks:<program>:<repository>:<payload>
  findings,   \* payload -> findings made of its planner's answer
  spc, sseen, snew,   \* scanner: place, row it loaded, row it has written
  sobs,       \* scanner: payload and value of the observation
  squeue,     \* scanner: payloads whose planner job it has queued
  lpc, ljob, lseen,   \* LLM worker: place, payload it works on, row it loaded
  returned,   \* history: a change has brought back an earlier payload
  past,       \* history: payloads the row has had
  faults

scan == <<spc, sseen, snew, sobs, squeue>>
llm == <<lpc, ljob, lseen>>
vars == <<event, planner, listed, gitleaks, findings, scan, llm, returned, past, faults>>

Statuses == {"none", "observed", "changed", "llm_queued", "candidate", "rejected"}
Hashes == Payloads \union {NoPayload}
Rows == [payload : Hashes, score : 0 .. 100, status : Statuses, queued : Hashes,
         scans : 0 .. MaxScans]
NoRow == [payload |-> NoPayload, score |-> 0, status |-> "none", queued |-> NoPayload,
          scans |-> 0]
NoObservation == <<NoPayload, 0>>

(* The packet of a payload that n scans have seen evidence of, and whether it *)
(* can be cut to the ceiling; else build_planner_packet raises.              *)
Prepared(p, n) == [PacketOf[p] EXCEPT !.rest = @ + n * IdBytes]
Fits == [p \in Payloads |-> [n \in 0 .. MaxScans |-> Packs(Prepared(p, n), MaxContextBytes)]]

TypeOK ==
  /\ event \in Rows /\ findings \in [Payloads -> Nat]
  /\ planner \in [Payloads -> {"absent", "queued", "completed", "dead"}]
  /\ listed \in [Payloads -> 0 .. MaxScans]
  /\ gitleaks \subseteq Payloads
  /\ spc \in [Scanners -> {"idle", "selected", "open"}]
  /\ sseen \in [Scanners -> Rows] /\ snew \in [Scanners -> Rows]
  /\ sobs \in [Scanners -> (Payloads \X Values) \union {NoObservation}]
  /\ squeue \in [Scanners -> SUBSET Payloads]
  /\ lpc \in {"idle", "asking", "loaded"} /\ ljob \in Hashes /\ lseen \in Rows
  /\ returned \in BOOLEAN /\ past \subseteq Payloads /\ faults \in 0 .. MaxFaults

Init ==
  /\ event = NoRow /\ planner = [p \in Payloads |-> "absent"] /\ gitleaks = {}
  /\ listed = [p \in Payloads |-> 0]
  /\ findings = [p \in Payloads |-> 0]
  /\ spc = [s \in Scanners |-> "idle"] /\ sseen = [s \in Scanners |-> NoRow]
  /\ snew = [s \in Scanners |-> NoRow] /\ sobs = [s \in Scanners |-> NoObservation]
  /\ squeue = [s \in Scanners |-> {}]
  /\ lpc = "idle" /\ ljob = NoPayload /\ lseen = NoRow
  /\ returned = FALSE /\ past = {} /\ faults = 0

Fault == faults < MaxFaults /\ faults' = faults + 1

-----------------------------------------------------------------------------
Scanned(l) == IF l.scans < MaxScans THEN l.scans + 1 ELSE l.scans

(* score_event *)
Clamp(n) == IF n < 0 THEN 0 ELSE IF n > 100 THEN 100 ELSE n
IsNew(l) == l = NoRow
Changed(l, p) == ~IsNew(l) /\ l.payload # p
Score(l, p, v) == Clamp(v + (IF IsNew(l) THEN 5 ELSE 0) + (IF Changed(l, p) THEN 10 ELSE 0))

ShouldQueue_IfItFits(l, p, v) ==
  /\ Enabled /\ Score(l, p, v) >= TriggerScore
  /\ IsNew(l) \/ Changed(l, p)
  /\ l.queued # p /\ Fits[p][Scanned(l)]
ShouldQueue_AnyObservation(l, p, v) == Enabled /\ Score(l, p, v) >= TriggerScore
ShouldQueue(l, p, v) ==
  /\ Enabled /\ Score(l, p, v) >= TriggerScore
  /\ IsNew(l) \/ Changed(l, p)
  /\ l.queued # p

(* The row as ingest_event leaves it. *)
Unasked(l, p) ==
  CASE IsNew(l) -> "observed"
    [] Changed(l, p) -> "changed"
    [] OTHER -> l.status
Status_ByScore(l, p, v) ==
  IF Enabled /\ Score(l, p, v) >= TriggerScore THEN "llm_queued" ELSE Unasked(l, p)
Status(l, p, v) == IF ShouldQueue(l, p, v) THEN "llm_queued" ELSE Unasked(l, p)
Ingested(l, p, v) ==
  [payload |-> p, score |-> Score(l, p, v), status |-> Status(l, p, v),
   queued |-> IF ShouldQueue(l, p, v) THEN p ELSE l.queued,
   scans |-> Scanned(l)]

Refused(l, p, v) == ShouldQueue(l, p, v) /\ ~Fits[p][Scanned(l)]

-----------------------------------------------------------------------------
(* The adapter has run; the row of the fingerprint is selected, *)
Select(s, raw, v) ==
  /\ spc[s] = "idle" /\ spc' = [spc EXCEPT ![s] = "selected"]
  /\ sseen' = [sseen EXCEPT ![s] = event]
  /\ sobs' = [sobs EXCEPT ![s] = <<Redacted[raw], v>>]
  /\ UNCHANGED <<event, planner, listed, gitleaks, findings, snew, squeue, llm, returned, past,
                 faults>>

(* and written: the row is locked until the scan job's transaction ends. *)
Flush(s) ==
  LET l == sseen[s]
      p == sobs[s][1]
      v == sobs[s][2]
  IN  /\ spc[s] = "selected" /\ \A t \in Scanners : spc[t] # "open"
      /\ IsNew(l) => event = NoRow
      /\ ~Refused(l, p, v)
      /\ spc' = [spc EXCEPT ![s] = "open"]
      /\ snew' = [snew EXCEPT ![s] = Ingested(l, p, v)]
      /\ squeue' = [squeue EXCEPT ![s] = IF ShouldQueue(l, p, v) THEN {p} ELSE {}]
      /\ UNCHANGED <<event, planner, listed, gitleaks, findings, sseen, sobs, llm, returned,
                     past, faults>>

(* The columns that were changed; of two flushes the second writes the       *)
(* status, which by then was "changed".                                      *)
Column(l, n, now) == IF n = l THEN now ELSE n
Written(l, n) ==
  [payload |-> Column(l.payload, n.payload, event.payload),
   score |-> Column(l.score, n.score, event.score),
   status |-> IF l.payload # n.payload /\ n.queued # l.queued THEN n.status
              ELSE Column(l.status, n.status, event.status),
   queued |-> Column(l.queued, n.queued, event.queued),
   scans |-> Column(l.scans, n.scans, event.scans)]

(* enqueue returns the job that already has the key. *)
Enqueued_Again(s) ==
  [p \in Payloads |-> IF p \in squeue[s] THEN "queued" ELSE planner[p]]
Enqueued_PerEvent(s) ==
  [p \in Payloads |-> IF p \in squeue[s] /\ \A q \in Payloads : planner[q] = "absent"
                      THEN "queued" ELSE planner[p]]
Enqueued(s) ==
  [p \in Payloads |-> IF p \in squeue[s] /\ planner[p] = "absent" THEN "queued"
                      ELSE planner[p]]

Leave(s) ==
  /\ spc' = [spc EXCEPT ![s] = "idle"] /\ sseen' = [sseen EXCEPT ![s] = NoRow]
  /\ snew' = [snew EXCEPT ![s] = NoRow] /\ sobs' = [sobs EXCEPT ![s] = NoObservation]
  /\ squeue' = [squeue EXCEPT ![s] = {}]

Commit(s) ==
  /\ spc[s] = "open"
  /\ event' = Written(sseen[s], snew[s]) /\ planner' = Enqueued(s)
  /\ listed' = [p \in Payloads |-> IF planner[p] = "absent" /\ planner'[p] = "queued"
                                   THEN snew[s].scans ELSE listed[p]]
  /\ gitleaks' = gitleaks \union ({snew[s].payload} \intersect Scannable)
  /\ returned' = (returned \/ (event'.payload # event.payload /\ event'.payload \in past))
  /\ past' = past \union {event'.payload}
  /\ Leave(s) /\ UNCHANGED <<findings, llm, faults>>

(* The scan job fails after storing some of its result, its insert violates  *)
(* the unique fingerprint, its packet is refused, or its worker dies: nothing *)
(* of it remains.                                                            *)
ScanLost(s) ==
  /\ spc[s] # "idle" /\ Leave(s)
  /\ IF spc[s] = "selected"
        /\ \/ IsNew(sseen[s]) /\ event # NoRow
           \/ Refused(sseen[s], sobs[s][1], sobs[s][2])
     THEN UNCHANGED faults ELSE Fault
  /\ UNCHANGED <<event, planner, listed, gitleaks, findings, llm, returned, past>>

-----------------------------------------------------------------------------
(* The LLM worker asks about the packet of the job, which holds the payload. *)
Ask(p) ==
  /\ lpc = "idle" /\ planner[p] = "queued"
  /\ lpc' = "asking" /\ ljob' = p
  /\ UNCHANGED <<event, planner, listed, gitleaks, findings, scan, lseen, returned, past, faults>>

(* process_planner_output: the event is loaded after the model has answered, *)
LoadEvent ==
  /\ lpc = "asking" /\ lpc' = "loaded" /\ lseen' = event
  /\ UNCHANGED <<event, planner, listed, gitleaks, findings, scan, ljob, returned, past, faults>>

LeaveLLM == lpc' = "idle" /\ ljob' = NoPayload /\ lseen' = NoRow

(* and its status written, whatever the payload is by now. *)
CompletedJob == [planner EXCEPT ![ljob] = "completed"]
Answer(verdict) ==
  /\ lpc = "loaded" /\ \A s \in Scanners : spc[s] # "open"
  /\ event' = [event EXCEPT !.status = Column(lseen.status, verdict, event.status)]
  /\ findings' = [findings EXCEPT ![ljob] = @ + 1]
  /\ planner' = CompletedJob /\ LeaveLLM
  /\ UNCHANGED <<listed, gitleaks, scan, returned, past, faults>>

(* The attempt fails; the job is retried or, in the end, given up. *)
AnswerLost ==
  /\ lpc # "idle" /\ Fault /\ LeaveLLM
  /\ \E state \in {"queued", "dead"} : planner' = [planner EXCEPT ![ljob] = state]
  /\ UNCHANGED <<event, listed, gitleaks, findings, scan, returned, past>>

-----------------------------------------------------------------------------
Next ==
  \/ \E s \in Scanners : \/ \E raw \in Raw, v \in Values : Select(s, raw, v)
                         \/ Flush(s) \/ Commit(s) \/ ScanLost(s)
  \/ (\E p \in Payloads : Ask(p)) \/ LoadEvent \/ AnswerLost
  \/ \E verdict \in {"candidate", "rejected"} : Answer(verdict)

Spec == Init /\ [][Next]_vars

(* The LLM worker is online, and scan transactions end. *)
FairSpec ==
  /\ Spec /\ WF_vars(\E p \in Payloads : Ask(p)) /\ WF_vars(LoadEvent)
  /\ SF_vars(\E verdict \in {"candidate", "rejected"} : Answer(verdict))
  /\ \A s \in Scanners : WF_vars(Commit(s) \/ ScanLost(s))

-----------------------------------------------------------------------------
(* "Unchanged routine recon generates no LLM job": where one worker scans, a *)
(* result that stores the payload the row already has queues nothing, also   *)
(* when it differs in redacted parts, scores higher, or repeats a result     *)
(* whose transaction was lost.                                               *)
UnchangedQueuesNothing ==
  [][event'.payload = event.payload
       => \A p \in Payloads : planner[p] = "absent" => planner'[p] = "absent"]_vars

(* A payload is put to the model once: however often the asset returns to it *)
(* and whatever attempts die, it makes at most one finding.                  *)
OneFindingPerPayload == \A p \in Payloads : findings[p] <= 1

(* An event shown as llm_queued is waiting for a planner job about what it   *)
(* shows, although answers about earlier payloads write its status late,     *)
(* unless that job died or the payload had been there before: then the       *)
(* dedupe key has returned the old job and nothing is queued.                *)
WaitingIsHonest ==
  event.status = "llm_queued" /\ ~returned => planner[event.payload] \in {"queued", "dead"}

(* What a model is asked about fits the ceiling of a packet, however many    *)
(* scans have added evidence ids, and the observation in it is cut only when *)
(* no card and no reference is left.                                         *)
PacketsKeepTheObservation ==
  \A p \in Payloads : planner[p] # "absent" =>
    LET k == Prepared(p, listed[p])
        left == Fitted(k, MaxContextBytes)
    IN  /\ Within(k, left, MaxContextBytes)
        /\ left.cuts > 1 => left.cards = 0 /\ left.references = 0

(* No change of value is stored without its question: where the packet is    *)
(* refused, or the transaction dies between the row and the job, neither is. *)
ChangeIsAsked ==
  [][event'.payload # event.payload /\ Enabled /\ event'.score >= TriggerScore
       => planner'[event'.payload] # "absent"]_vars

(* A valuable payload, once stored, is answered while the LLM worker lives,  *)
(* unless its job dies, also when the asset has changed since.               *)
ValuableIsAnswered ==
  \A p \in Payloads :
    (event.queued = p) ~> (findings[p] > 0 \/ planner[p] = "dead")
=============================================================================
