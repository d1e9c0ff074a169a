--------------------------- MODULE FindingWorkflow ---------------------------
(***************************************************************************)
(* The life of one finding (bbpipeline/workflow.py and the finding actions *)
(* of api.py): the planner creates it, the deterministic verifier and the  *)
(* critic report on it from the workers, and people act on it through the  *)
(* API, several requests at a time.  Findings share no state.              *)
(*                                                                         *)
(* Every handler loads the row, computes, and commits later.  Flush is the *)
(* ORM's write: the columns the handler changed, over whatever the row has *)
(* become.  A verification and a critique are numbered by the verification *)
(* they are about; 0 is NULL.                                              *)
(***************************************************************************)
EXTENDS Naturals, FiniteSets

CONSTANTS Requests,          \* concurrent POST /findings/{id}/action
          MaxVerifications,  \* bound on recorded verifications
          MaxFaults,         \* bound on job attempts that do not commit
          MaxSwitches        \* bound on re-approvals that turn the LLM on or off

ASSUME BoundsAssumption ==
  IsFiniteSet(Requests) /\ MaxVerifications \in Nat \ {0} /\ MaxFaults \in Nat
    /\ MaxSwitches \in Nat

VARIABLES
  llm,             \* manifest.llm.enabled
  vllm, rllm,      \* the same as the scan worker and those requests that record have loaded it
  finding,         \* the row
  recorded,        \* verifications recorded so far
  verifyJob,       \* the job with dedupe_key verify:<id>
  criticJob,       \* the job with dedupe_key critic:<id>:<provider>
  packet,          \* the verification in the critic job's packet
  vpc, vseen,      \* scan worker: loaded or not, the row it loaded
  cpc, cseen,      \* LLM worker: the same, after the model has answered
  rpc, rseen,      \* request: the action past its guards, the row it loaded
  validated_once,  \* history: a validate has been committed
  asked,           \* history: a verification has been recorded with the LLM on
  waived,          \* history: a validate was let pass with the LLM off
  faults, switches

vars == <<llm, vllm, rllm, finding, recorded, verifyJob, criticJob, packet, vpc, vseen,
          cpc, cseen, rpc, rseen, validated_once, asked, waived, faults, switches>>

Versions == 0 .. MaxVerifications
Dispositions == {"candidate", "not_a_finding", "inconclusive", "needs_manual_validation"}
Verdicts == {"supported", "unsupported", "inconclusive", "needs_manual_validation"}
Actions == {"record_manual_verification", "validate", "reject", "mark_submitted"}
Statuses == {"none", "rejected", "needs_human", "verification_queued", "critic_queued",
             "awaiting_human", "validated", "rejected_by_human", "submitted"}
Rows == [status : Statuses, verification : Versions, critique : Versions,
         evidence_ids : SUBSET Versions, human_validated : BOOLEAN, submitted : BOOLEAN]
NoRow == [status |-> "none", verification |-> 0, critique |-> 0, evidence_ids |-> {},
          human_validated |-> FALSE, submitted |-> FALSE]
JobStates == {"absent", "queued", "completed", "dead"}

TypeOK ==
  /\ llm \in BOOLEAN /\ vllm \in BOOLEAN /\ rllm \in [Requests -> BOOLEAN]
  /\ finding \in Rows /\ recorded \in Versions
  /\ verifyJob \in JobStates /\ criticJob \in JobStates /\ packet \in Versions
  /\ vpc \in {"idle", "loaded"} /\ vseen \in Rows
  /\ cpc \in {"idle", "loaded"} /\ cseen \in Rows
  /\ rpc \in [Requests -> Actions \union {"idle"}] /\ rseen \in [Requests -> Rows]
  /\ validated_once \in BOOLEAN /\ asked \in BOOLEAN /\ waived \in BOOLEAN
  /\ faults \in 0 .. MaxFaults /\ switches \in 0 .. MaxSwitches

Init ==
  /\ llm \in BOOLEAN /\ vllm = FALSE /\ rllm = [r \in Requests |-> FALSE]
  /\ finding = NoRow /\ recorded = 0
  /\ verifyJob = "absent" /\ criticJob = "absent" /\ packet = 0
  /\ vpc = "idle" /\ vseen = NoRow /\ cpc = "idle" /\ cseen = NoRow
  /\ rpc = [r \in Requests |-> "idle"] /\ rseen = [r \in Requests |-> NoRow]
  /\ validated_once = FALSE /\ asked = FALSE /\ waived = FALSE /\ faults = 0 /\ switches = 0

(* The UPDATE of a session that loaded l and changed it to n. *)
Column(l, n, now) == IF n = l THEN now ELSE n
Flush_Blind(l, n) == n
Flush(l, n) ==
  [status |-> Column(l.status, n.status, finding.status),
   verification |-> Column(l.verification, n.verification, finding.verification),
   critique |-> Column(l.critique, n.critique, finding.critique),
   evidence_ids |-> Column(l.evidence_ids, n.evidence_ids, finding.evidence_ids),
   human_validated |-> Column(l.human_validated, n.human_validated, finding.human_validated),
   submitted |-> Column(l.submitted, n.submitted, finding.submitted)]

-----------------------------------------------------------------------------
(* process_planner_output: the status and the verify job are chosen by two   *)
(* separate conditions on the disposition and the compiled plan.             *)
PlannedStatus(d, automatic) ==
  CASE d = "not_a_finding" -> "rejected"
    [] d = "candidate" /\ automatic -> "verification_queued"
    [] OTHER -> "needs_human"

QueuesVerify(d, automatic) == d = "candidate" /\ automatic

Plan(d, automatic) ==
  /\ finding.status = "none"
  /\ finding' = [finding EXCEPT !.status = PlannedStatus(d, automatic)]
  /\ verifyJob' = IF QueuesVerify(d, automatic) THEN "queued" ELSE "absent"
  /\ UNCHANGED <<llm, vllm, rllm, recorded, criticJob, packet, vpc, vseen, cpc, cseen, rpc,
                 rseen, validated_once, asked, waived, faults, switches>>

(* A manifest approved again with the LLM turned on or off.  A session reads *)
(* the manifest when it starts (require_active_program, and session.get).    *)
SwitchLlm ==
  /\ switches < MaxSwitches /\ switches' = switches + 1 /\ llm' = ~llm
  /\ UNCHANGED <<vllm, rllm, finding, recorded, verifyJob, criticJob, packet, vpc, vseen, cpc,
                 cseen, rpc, rseen, validated_once, asked, waived, faults>>

(* record_verification and queue_critic: the dedupe key makes enqueue return *)
(* the finding's existing critic job, whatever its state and its packet.     *)
Record(l, on) ==
  /\ recorded' = recorded + 1
  /\ finding' = Flush(l, [l EXCEPT !.verification = recorded',
                                   !.evidence_ids = @ \union {recorded'},
                                   !.status = IF on THEN "critic_queued"
                                              ELSE "awaiting_human"])
  /\ asked' = (asked \/ on)
  /\ IF on /\ criticJob = "absent" THEN criticJob' = "queued" /\ packet' = recorded'
     ELSE UNCHANGED <<criticJob, packet>>

-----------------------------------------------------------------------------
(* verify_http: the finding is loaded, then the requests are made, and       *)
(* record_verification gets the same loaded row from the session.            *)
VerifyLoad ==
  /\ verifyJob = "queued" /\ vpc = "idle"
  /\ vpc' = "loaded" /\ vseen' = finding /\ vllm' = llm
  /\ UNCHANGED <<llm, rllm, finding, recorded, verifyJob, criticJob, packet, cpc, cseen,
                 rpc, rseen, validated_once, asked, waived, faults, switches>>

VerifyCommit ==
  /\ vpc = "loaded" /\ vpc' = "idle" /\ vseen' = NoRow /\ vllm' = FALSE
  /\ Record(vseen, vllm) /\ verifyJob' = "completed"
  /\ UNCHANGED <<llm, rllm, cpc, cseen, rpc, rseen, validated_once, waived, faults, switches>>

(* The attempt does not commit: the request fails, the program is paused or  *)
(* the worker dies.  The job is retried until its attempts are used, and     *)
(* then failed for good; it may also have been cancelled.                    *)
AttemptLost(job) ==
  /\ faults < MaxFaults /\ faults' = faults + 1
  /\ job' \in {"queued", "dead"}

VerifyLost ==
  /\ vpc = "loaded" /\ vpc' = "idle" /\ vseen' = NoRow /\ vllm' = FALSE
  /\ AttemptLost(verifyJob)
  /\ UNCHANGED <<llm, rllm, finding, recorded, criticJob, packet, cpc, cseen, rpc, rseen,
                 validated_once, asked, waived, switches>>

CriticLoad ==
  /\ criticJob = "queued" /\ cpc = "idle"
  /\ cpc' = "loaded" /\ cseen' = finding
  /\ UNCHANGED <<llm, vllm, rllm, finding, recorded, verifyJob, criticJob, packet, vpc, vseen,
                 rpc, rseen, validated_once, asked, waived, faults, switches>>

(* process_critic_output does not look at the status it replaces; its own    *)
(* evidence is 0.                                                            *)
Criticised_SkipRejected(l, verdict) ==
  IF verdict = "unsupported" THEN [l EXCEPT !.status = "rejected"]
  ELSE [l EXCEPT !.critique = packet, !.evidence_ids = @ \union {0}, !.status = "awaiting_human"]
Criticised(l, verdict) ==
  [l EXCEPT !.critique = packet, !.evidence_ids = @ \union {0},
            !.status = IF verdict = "unsupported" THEN "rejected" ELSE "awaiting_human"]

CriticCommit(verdict) ==
  /\ cpc = "loaded" /\ cpc' = "idle" /\ cseen' = NoRow
  /\ finding' = Flush(cseen, Criticised(cseen, verdict)) /\ criticJob' = "completed"
  /\ UNCHANGED <<llm, vllm, rllm, recorded, verifyJob, packet, vpc, vseen, rpc, rseen,
                 validated_once, asked, waived, faults, switches>>

CriticLost ==
  /\ cpc = "loaded" /\ cpc' = "idle" /\ cseen' = NoRow /\ AttemptLost(criticJob)
  /\ UNCHANGED <<llm, vllm, rllm, finding, recorded, verifyJob, packet, vpc, vseen, rpc, rseen,
                 validated_once, asked, waived, switches>>

-----------------------------------------------------------------------------
(* finding_action: which actions the loaded row allows (409 otherwise). *)
Allows_NoCritique(l, a, on) ==
  /\ l.submitted => a = "mark_submitted"
  /\ a = "record_manual_verification" => l.status \notin {"rejected", "rejected_by_human"}
  /\ a = "validate" => l.verification # 0
  /\ a = "mark_submitted" => l.human_validated
Allows_AnySubmission(l, a, on) ==
  /\ l.submitted => a = "mark_submitted"
  /\ a = "record_manual_verification" => l.status \notin {"rejected", "rejected_by_human"}
  /\ a = "validate" => l.verification # 0 /\ (on => l.critique # 0)
Allows_Closed(l, a, on) ==
  /\ l.submitted => a = "mark_submitted"
  /\ a = "validate" => l.verification # 0 /\ (on => l.critique # 0)
  /\ a = "mark_submitted" => l.human_validated
Allows(l, a, on) ==
  /\ l.submitted => a = "mark_submitted"
  /\ a = "record_manual_verification" => l.status \notin {"rejected", "rejected_by_human"}
  /\ a = "validate" => l.verification # 0 /\ (on => l.critique # 0)
  /\ a = "mark_submitted" => l.human_validated

(* Verifications recorded or under way; the bound is on new requests. *)
Verifications ==
  recorded + (IF verifyJob = "queued" THEN 1 ELSE 0)
    + Cardinality({r \in Requests : rpc[r] = "record_manual_verification"})

Request(r, a) ==
  /\ finding.status # "none" /\ rpc[r] = "idle" /\ Allows(finding, a, llm)
  /\ a = "record_manual_verification" => Verifications < MaxVerifications
  /\ rpc' = [rpc EXCEPT ![r] = a] /\ rseen' = [rseen EXCEPT ![r] = finding]
  /\ rllm' = [rllm EXCEPT ![r] = llm /\ a = "record_manual_verification"]
  /\ waived' = (waived \/ (a = "validate" /\ ~llm))
  /\ UNCHANGED <<llm, vllm, finding, recorded, verifyJob, criticJob, packet, vpc, vseen,
                 cpc, cseen, validated_once, asked, faults, switches>>

Refuse(r, a) ==
  finding.status # "none" /\ rpc[r] = "idle" /\ ~Allows(finding, a, llm) /\ UNCHANGED vars

Decided(l, a) ==
  CASE a = "validate" -> [l EXCEPT !.human_validated = TRUE, !.status = "validated"]
    [] a = "reject" -> [l EXCEPT !.human_validated = FALSE, !.status = "rejected_by_human"]
    [] a = "mark_submitted" -> [l EXCEPT !.submitted = TRUE, !.status = "submitted"]

Answer(r) ==
  /\ rpc' = [rpc EXCEPT ![r] = "idle"] /\ rseen' = [rseen EXCEPT ![r] = NoRow]
  /\ rllm' = [rllm EXCEPT ![r] = FALSE]
  /\ UNCHANGED <<llm, vllm, verifyJob, vpc, vseen, cpc, cseen, waived, faults, switches>>

RecordManual(r) ==
  /\ rpc[r] = "record_manual_verification" /\ Record(rseen[r], rllm[r])
  /\ Answer(r) /\ UNCHANGED validated_once

Decide(r) ==
  /\ rpc[r] \in {"validate", "reject", "mark_submitted"}
  /\ finding' = Flush(rseen[r], Decided(rseen[r], rpc[r]))
  /\ validated_once' = (validated_once \/ rpc[r] = "validate")
  /\ Answer(r) /\ UNCHANGED <<recorded, criticJob, packet, asked>>

-----------------------------------------------------------------------------
Next ==
  \/ \E d \in Dispositions, automatic \in BOOLEAN : Plan(d, automatic)
  \/ SwitchLlm
  \/ VerifyLoad \/ VerifyCommit \/ VerifyLost
  \/ CriticLoad \/ (\E v \in Verdicts : CriticCommit(v)) \/ CriticLost
  \/ \E r \in Requests : (\E a \in Actions : Request(r, a) \/ Refuse(r, a))
                         \/ RecordManual(r) \/ Decide(r)

Spec == Init /\ [][Next]_vars

(* The workers keep running; nobody has to send a request. *)
FairSpec ==
  /\ Spec /\ WF_vars(VerifyLoad) /\ WF_vars(VerifyCommit)
  /\ WF_vars(CriticLoad) /\ WF_vars(\E v \in Verdicts : CriticCommit(v))

-----------------------------------------------------------------------------
(* A finding is submitted only after a human validated it, with requests     *)
(* that validate, reject and submit in any overlap.                          *)
SubmittedWasValidated == finding.submitted => validated_once

(* What a human validated had a recorded verification and, unless a validate *)
(* has been let pass with the LLM off, a critique, although the guard was    *)
(* evaluated on an earlier row and under an earlier manifest.                *)
Reviewed == finding.verification # 0 /\ (waived \/ finding.critique # 0)
ValidatedWasReviewed == finding.human_validated => Reviewed

(* A finding shown as verification_queued has its verify job, which only the *)
(* planner can create, unless that job died.                                 *)
QueuedStatusHasJob ==
  finding.status = "verification_queued" => verifyJob \in {"queued", "dead"}

(* A finding verified with the LLM on has a critique or a critic job to      *)
(* come, so that a human can validate it some day, unless the critic job     *)
(* died.  (Verified with the LLM off it gets none when that is turned on,    *)
(* and has to be verified again.)                                            *)
VerifiedIsReviewable ==
  asked => finding.verification # 0
             /\ (finding.critique # 0 \/ criticJob \in {"queued", "dead"})

(* A finding that a person has closed is shown as open again only by work    *)
(* that was under way or queued, which does not look at the status, or by a  *)
(* person who accepts it after all: a request that loads it closed records   *)
(* no verification on it.                                                    *)
Closed == {"rejected_by_human", "submitted"}
ClosedReopensLate ==
  [][finding.status \in Closed /\ finding'.status \notin Closed =>
       \/ vpc = "loaded" /\ vpc' = "idle"
       \/ cpc = "loaded" /\ cpc' = "idle"
       \/ \E r \in Requests : /\ rpc[r] # "idle" /\ rpc'[r] = "idle" /\ ~rseen[r].submitted
                              /\ rpc[r] = "validate" \/ rseen[r].status \notin Closed]_vars

(* With requests that overlap and workers that write late, the finding still *)
(* obeys the gate: its reviews and its submission are never undone by a      *)
(* session that had loaded it before, and acceptance and submission come in  *)
(* steps of their own.                                                       *)
Gate == INSTANCE HumanGate
          WITH reviewed <- Reviewed, accepted <- finding.human_validated,
               submitted <- finding.submitted, ever <- validated_once
GateSpec == Gate!Spec

(* And the critique does come.                                               *)
VerifiedGetsCritique ==
  asked ~> (finding.critique # 0 \/ criticJob = "dead")

(* "Wait for the fresh critic, ... then accept": what is accepted carries    *)
(* the critique of its verification.                                         *)
AcceptedOnFreshCritique ==
  [][~waived /\ finding.human_validated' /\ ~finding.human_validated
       => finding.critique = finding.verification]_vars
=============================================================================
