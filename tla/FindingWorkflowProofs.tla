------------------------ MODULE FindingWorkflowProofs ------------------------
(***************************************************************************)
(* What holds of FindingWorkflow for any number of concurrent requests,    *)
(* verifications and lost attempts.                                        *)
(***************************************************************************)
EXTENDS FindingWorkflow, FiniteSetTheorems, TLAPS

(* Requests about to record a verification. *)
Recording == {r \in Requests : rpc[r] = "record_manual_verification"}

(* There is room for every verification under way, a worker has a finding    *)
(* loaded only while its job is queued, and before the planner's answer      *)
(* there is nothing to work on.                                              *)
Bounded ==
  /\ Verifications <= MaxVerifications
  /\ vpc = "loaded" => verifyJob = "queued"
  /\ cpc = "loaded" => criticJob = "queued"
  /\ finding.status = "none" =>
       /\ recorded = 0 /\ verifyJob = "absent" /\ criticJob = "absent"
       /\ \A r \in Requests : rpc[r] = "idle"

TInv == TypeOK /\ Bounded

(* A late write of a row of the right type leaves a row of the right type.   *)
LEMMA FlushType ==
  ASSUME finding \in Rows, NEW l \in Rows, NEW n \in Rows
  PROVE  Flush(l, n) \in Rows
BY DEF Flush, Column, Rows

(* Only finitely many requests record at once. *)
LEMMA RecordingCount == Cardinality(Recording) \in Nat /\ IsFiniteSet(Recording)
<1>1. IsFiniteSet(Recording)
  BY BoundsAssumption, FS_Subset DEF Recording
<1>2. QED
  BY <1>1, FS_CardinalityType

(* A request that passes its guard may be one more, *)
LEMMA RecordingMore ==
  ASSUME TypeOK, NEW r \in Requests, rpc[r] = "idle",
         NEW a \in Actions, rpc' = [rpc EXCEPT ![r] = a]
  PROVE  /\ a # "record_manual_verification" => Recording' = Recording
         /\ a = "record_manual_verification" =>
              Cardinality(Recording') = Cardinality(Recording) + 1
<1>1. a # "record_manual_verification" => Recording' = Recording
  BY DEF TypeOK, Recording, Actions
<1>2. a = "record_manual_verification" =>
        Recording' = Recording \cup {r} /\ r \notin Recording
  BY DEF TypeOK, Recording
<1>3. QED
  BY <1>1, <1>2, RecordingCount, FS_AddElement

(* and one that answers may be one less. *)
LEMMA RecordingLess ==
  ASSUME TypeOK, NEW r \in Requests, rpc' = [rpc EXCEPT ![r] = "idle"]
  PROVE  /\ rpc[r] # "record_manual_verification" => Recording' = Recording
         /\ rpc[r] = "record_manual_verification" =>
              /\ Cardinality(Recording') = Cardinality(Recording) - 1
              /\ Cardinality(Recording') \in Nat
<1>1. rpc[r] # "record_manual_verification" => Recording' = Recording
  BY DEF TypeOK, Recording
<1>2. rpc[r] = "record_manual_verification" =>
        Recording' = Recording \ {r} /\ r \in Recording
  BY DEF TypeOK, Recording
<1>3. QED
  BY <1>1, <1>2, RecordingCount, FS_RemoveElement, FS_CardinalityType

LEMMA TInvInit == Init => TInv
<1> SUFFICES ASSUME Init PROVE TInv
  OBVIOUS
<1>1. NoRow \in Rows
  BY BoundsAssumption DEF NoRow, Rows, Statuses, Versions
<1>2. TypeOK
  <2>1. /\ rpc \in [Requests -> Actions \union {"idle"}] /\ rseen \in [Requests -> Rows]
        /\ rllm \in [Requests -> BOOLEAN]
    BY <1>1 DEF Init
  <2>2. 0 \in Versions /\ 0 \in 0 .. MaxFaults /\ 0 \in 0 .. MaxSwitches
    BY BoundsAssumption DEF Versions
  <2>3. QED
    BY <1>1, <2>1, <2>2, Zenon DEF Init, TypeOK, JobStates
<1>3. Recording = {}
  BY DEF Init, Recording
<1>4. Verifications = 0
  BY <1>3, FS_EmptySet DEF Init, Verifications, Recording
<1>5. QED
  BY <1>2, <1>4, BoundsAssumption DEF Init, TInv, Bounded

-----------------------------------------------------------------------------
(* Recording on a loaded row: there is room, and the row keeps its type.     *)
LEMMA RecordStep ==
  ASSUME TypeOK, NEW l \in Rows, NEW on \in BOOLEAN, Record(l, on), recorded < MaxVerifications
  PROVE  /\ recorded' = recorded + 1 /\ recorded' \in Versions
         /\ finding' \in Rows /\ packet' \in Versions /\ criticJob' \in JobStates
         /\ asked' \in BOOLEAN
         /\ finding.status # "none" => finding'.status # "none"
<1>1. recorded' = recorded + 1 /\ recorded' \in Versions
  BY BoundsAssumption DEF TypeOK, Record, Versions
<1> DEFINE n == [l EXCEPT !.verification = recorded',
                          !.evidence_ids = @ \union {recorded'},
                          !.status = IF on THEN "critic_queued" ELSE "awaiting_human"]
<1>2. n \in Rows
  BY <1>1 DEF Rows, Statuses
<1>3. finding' = Flush(l, n)
  BY DEF Record
<1>4. finding' \in Rows
  BY <1>2, <1>3, FlushType DEF TypeOK
<1>5. finding.status # "none" => finding'.status # "none"
  BY <1>2, <1>3 DEF Flush, Column, Rows
<1>6. packet' \in Versions /\ criticJob' \in JobStates /\ asked' \in BOOLEAN
  BY <1>1 DEF Record, TypeOK, JobStates
<1>7. QED
  BY <1>1, <1>4, <1>5, <1>6

(* Every handler keeps the types and the room for the verifications under    *)
(* way; a recording turns one that was under way into a recorded one.        *)
LEMMA TInvNext == TInv /\ [Next]_vars => TInv'
<1> SUFFICES ASSUME TInv, [Next]_vars PROVE TInv'
  OBVIOUS
<1> DEFINE Queued == IF verifyJob = "queued" THEN 1 ELSE 0
           Count == Cardinality(Recording)
<1>0. /\ Verifications = recorded + Queued + Count
      /\ Verifications' = recorded' + Queued' + Count'
      /\ Count \in Nat /\ recorded \in Nat
  BY RecordingCount, BoundsAssumption DEF Verifications, Recording, TInv, TypeOK, Versions
<1>a. rpc' = rpc => Count' = Count
  BY DEF Recording
<1> HIDE DEF Count
<1> USE DEF TInv, TypeOK, Bounded
<1>1. ASSUME NEW d \in Dispositions, NEW automatic \in BOOLEAN, Plan(d, automatic)
      PROVE  TInv'
  <2>1. finding' \in Rows /\ finding'.status # "none"
    BY <1>1 DEF Plan, PlannedStatus, Rows, Statuses
  <2>2. Count = 0
    <3>1. Recording = {}
      BY <1>1 DEF Plan, Recording
    <3>2. QED
      BY <3>1, FS_EmptySet DEF Count
  <2>3. Verifications' <= MaxVerifications
    BY <1>0, <1>a, <1>1, <2>2, BoundsAssumption DEF Plan
  <2>4. QED
    BY <1>1, <2>1, <2>3 DEF Plan, JobStates
<1>2. CASE VerifyLoad
  BY <1>0, <1>a, <1>2 DEF VerifyLoad
<1>3. CASE VerifyCommit
  <2>1. recorded < MaxVerifications
    BY <1>0, <1>3, BoundsAssumption DEF VerifyCommit
  <2>2. Record(vseen, vllm) /\ vseen \in Rows /\ vllm \in BOOLEAN
    BY <1>3 DEF VerifyCommit
  <2>3. /\ recorded' = recorded + 1 /\ recorded' \in Versions
        /\ finding' \in Rows /\ packet' \in Versions /\ criticJob' \in JobStates
        /\ asked' \in BOOLEAN
        /\ finding.status # "none" => finding'.status # "none"
    BY <2>1, <2>2, RecordStep
  <2>4. Verifications' <= MaxVerifications
    BY <1>0, <1>a, <1>3, <2>3, BoundsAssumption DEF VerifyCommit
  <2>5. finding.status # "none"
    BY <1>3 DEF VerifyCommit
  <2>6. NoRow \in Rows
    BY BoundsAssumption DEF NoRow, Rows, Statuses, Versions
  <2>7. cpc = "loaded" => criticJob' = "queued"
    BY <2>2 DEF Record
  <2>8. QED
    BY <1>3, <2>3, <2>4, <2>5, <2>6, <2>7 DEF VerifyCommit, JobStates
<1>4. CASE VerifyLost
  <2>1. NoRow \in Rows
    BY BoundsAssumption DEF NoRow, Rows, Statuses, Versions
  <2>2. Verifications' <= MaxVerifications
    BY <1>0, <1>a, <1>4, BoundsAssumption DEF VerifyLost, AttemptLost
  <2>3. verifyJob' \in JobStates /\ faults' \in 0 .. MaxFaults
    BY <1>4, BoundsAssumption DEF VerifyLost, AttemptLost, JobStates
  <2>4. /\ vpc' = "idle" /\ vseen' = NoRow /\ vllm' = FALSE
        /\ UNCHANGED <<llm, rllm, finding, recorded, criticJob, packet, cpc, cseen, rpc, rseen,
                       validated_once, asked, waived, switches>>
    BY <1>4 DEF VerifyLost
  <2>5. finding.status # "none"
    BY <1>4 DEF VerifyLost
  <2>6. TypeOK'
    BY <2>1, <2>3, <2>4
  <2>7. Bounded'
    BY <2>2, <2>4, <2>5
  <2>8. QED
    BY <2>6, <2>7
<1>5. CASE CriticLoad
  BY <1>0, <1>a, <1>5 DEF CriticLoad
<1>6. ASSUME NEW v \in Verdicts, CriticCommit(v) PROVE TInv'
  <2>1. NoRow \in Rows
    BY BoundsAssumption DEF NoRow, Rows, Statuses, Versions
  <2>2. Criticised(cseen, v) \in Rows /\ Criticised(cseen, v).status # "none"
    <3>1. cseen.evidence_ids \union {0} \in SUBSET Versions
      BY BoundsAssumption DEF Rows, Versions
    <3>2. (IF v = "unsupported" THEN "rejected" ELSE "awaiting_human") \in Statuses \ {"none"}
      BY DEF Statuses
    <3> DEFINE s == IF v = "unsupported" THEN "rejected" ELSE "awaiting_human"
               e == cseen.evidence_ids \union {0}
    <3>3. Criticised(cseen, v) = [cseen EXCEPT !.critique = packet, !.evidence_ids = e, !.status = s]
      BY DEF Criticised, Rows
    <3> HIDE DEF s, e
    <3>4. e \in SUBSET Versions /\ s \in Statuses \ {"none"}
      BY <3>1, <3>2 DEF s, e
    <3>5. QED
      BY <3>3, <3>4 DEF Rows
  <2>3. finding' \in Rows
    BY <1>6, <2>2, FlushType DEF CriticCommit
  <2>4. finding.status # "none" /\ finding'.status # "none"
    BY <1>6, <2>2 DEF CriticCommit, Flush, Column
  <2>5. QED
    BY <1>0, <1>a, <1>6, <2>1, <2>3, <2>4 DEF CriticCommit, JobStates
<1>7. CASE CriticLost
  <2>1. NoRow \in Rows
    BY BoundsAssumption DEF NoRow, Rows, Statuses, Versions
  <2>2. QED
    BY <1>0, <1>a, <1>7, <2>1, BoundsAssumption DEF CriticLost, AttemptLost, JobStates
<1>8. ASSUME NEW r \in Requests, NEW a \in Actions, Request(r, a) PROVE TInv'
  <2>1. Verifications' <= MaxVerifications
    <3>1. Count' = IF a = "record_manual_verification" THEN Count + 1 ELSE Count
      BY <1>8, RecordingMore DEF Request, Count
    <3>2. QED
      BY <1>0, <1>8, <3>1, BoundsAssumption DEF Request, Versions
  <2>2. QED
    BY <1>8, <2>1 DEF Request
<1>9. ASSUME NEW r \in Requests, RecordManual(r) PROVE TInv'
  <2>1. /\ rpc[r] = "record_manual_verification" /\ Record(rseen[r], rllm[r])
        /\ rseen[r] \in Rows /\ rllm[r] \in BOOLEAN
    BY <1>9 DEF RecordManual
  <2>2. Count' = Count - 1 /\ Count' \in Nat
    BY <1>9, <2>1, RecordingLess
       DEF RecordManual, Answer, Count
  <2>3. recorded < MaxVerifications
    BY <1>0, <2>2, BoundsAssumption
  <2>4. /\ recorded' = recorded + 1 /\ recorded' \in Versions
        /\ finding' \in Rows /\ packet' \in Versions /\ criticJob' \in JobStates
        /\ asked' \in BOOLEAN
        /\ finding.status # "none" => finding'.status # "none"
    BY <2>1, <2>3, RecordStep
  <2>5. NoRow \in Rows
    BY BoundsAssumption DEF NoRow, Rows, Statuses, Versions
  <2>6. Verifications' <= MaxVerifications
    BY <1>0, <1>9, <2>2, <2>4, BoundsAssumption DEF RecordManual, Answer
  <2>7. cpc = "loaded" => criticJob' = "queued"
    BY <2>1 DEF Record
  <2>8. finding.status # "none"
    BY <2>1
  <2>9. QED
    BY <1>9, <2>4, <2>5, <2>6, <2>7, <2>8 DEF RecordManual, Answer
<1>10. ASSUME NEW r \in Requests, Decide(r) PROVE TInv'
  <2>1. NoRow \in Rows
    BY BoundsAssumption DEF NoRow, Rows, Statuses, Versions
  <2>2. /\ Decided(rseen[r], rpc[r]) \in Rows
        /\ Decided(rseen[r], rpc[r]).status # "none"
    BY <1>10 DEF Decide, Decided, Rows, Statuses
  <2>3. finding' \in Rows
    BY <1>10, <2>2, FlushType DEF Decide
  <2>4. finding.status # "none" /\ finding'.status # "none"
    BY <1>10, <2>2 DEF Decide, Flush, Column
  <2>5. Count' = Count
    BY <1>10, RecordingLess DEF Decide, Answer, Count
  <2>6. QED
    BY <1>0, <1>10, <2>1, <2>3, <2>4, <2>5 DEF Decide, Answer
<1>11. CASE UNCHANGED vars
  BY <1>0, <1>a, <1>11 DEF vars
<1>12. ASSUME NEW r \in Requests, NEW a \in Actions, Refuse(r, a) PROVE TInv'
  BY <1>11, <1>12 DEF Refuse
<1>13. CASE SwitchLlm
  BY <1>0, <1>a, <1>13, BoundsAssumption DEF SwitchLlm
<1>14. QED
  BY <1>1, <1>2, <1>3, <1>4, <1>5, <1>6, <1>7, <1>8, <1>9, <1>10, <1>11, <1>12, <1>13 DEF Next

(* Type correctness: the row, the loaded rows and the jobs keep their types, *)
(* and no verification is recorded beyond the bound.                         *)
THEOREM TypeCorrect == Spec => []TypeOK
<1>1. TInv => TypeOK
  BY DEF TInv
<1>2. QED
  BY <1>1, TInvInit, TInvNext, PTL DEF Spec

LEMMA TInvariant == Spec => []TInv
BY TInvInit, TInvNext, PTL DEF Spec

-----------------------------------------------------------------------------
(* What a recording changes of the row, whatever the row has become since it *)
(* was loaded: the human's columns and the critique stay as they are.        *)
LEMMA RecordColumns ==
  ASSUME TypeOK, NEW l \in Rows, NEW on \in BOOLEAN, Record(l, on)
  PROVE  /\ finding'.human_validated = finding.human_validated
         /\ finding'.submitted = finding.submitted
         /\ finding'.critique = finding.critique
         /\ finding.verification # 0 => finding'.verification # 0
         /\ \/ finding'.status \in {"critic_queued", "awaiting_human"}
            \/ /\ finding'.status = finding.status
               /\ l.status \in {"critic_queued", "awaiting_human"}
<1> DEFINE n == [l EXCEPT !.verification = recorded',
                          !.evidence_ids = @ \union {recorded'},
                          !.status = IF on THEN "critic_queued" ELSE "awaiting_human"]
<1>1. /\ n.human_validated = l.human_validated /\ n.submitted = l.submitted
      /\ n.critique = l.critique /\ n.verification = recorded'
      /\ n.status \in {"critic_queued", "awaiting_human"}
  BY DEF Rows
<1>2. finding' = Flush(l, n) /\ recorded' # 0
  BY BoundsAssumption DEF Record, TypeOK, Versions
<1> HIDE DEF n
<1>3. QED
  BY <1>1, <1>2 DEF Flush, Column

(* The human gate.  A validation precedes every submission, because the rows *)
(* that requests have loaded, and not only the row, carry validated ones     *)
(* only after one was committed.                                             *)
GateInv ==
  /\ SubmittedWasValidated
  /\ finding.human_validated => validated_once
  /\ \A r \in Requests :
       /\ rseen[r].human_validated => validated_once
       /\ rpc[r] = "mark_submitted" => rseen[r].human_validated

LEMMA GateNext == TInv /\ GateInv /\ [Next]_vars => GateInv'
<1> SUFFICES ASSUME TInv, GateInv, [Next]_vars PROVE GateInv'
  OBVIOUS
<1> USE DEF TInv, GateInv, SubmittedWasValidated
<1>n. ~NoRow.human_validated
  BY DEF NoRow
<1>1. ASSUME NEW d \in Dispositions, NEW automatic \in BOOLEAN, Plan(d, automatic)
      PROVE  GateInv'
  BY <1>1 DEF Plan, TypeOK, Rows
<1>2. ASSUME VerifyCommit PROVE GateInv'
  BY <1>2, RecordColumns DEF VerifyCommit, TypeOK
<1>3. ASSUME NEW v \in Verdicts, CriticCommit(v) PROVE GateInv'
  <2>1. /\ Criticised(cseen, v).human_validated = cseen.human_validated
        /\ Criticised(cseen, v).submitted = cseen.submitted
    BY DEF Criticised, TypeOK, Rows
  <2>2. QED
    BY <1>3, <2>1 DEF CriticCommit, Flush, Column
<1>4. ASSUME NEW r \in Requests, NEW a \in Actions, Request(r, a) PROVE GateInv'
  BY <1>4 DEF Request, Allows, TypeOK
<1>5. ASSUME NEW r \in Requests, RecordManual(r) PROVE GateInv'
  BY <1>n, <1>5, RecordColumns DEF RecordManual, Answer, TypeOK
<1>6. ASSUME NEW r \in Requests, Decide(r) PROVE GateInv'
  <2>1. \A q \in Requests : rpc'[q] = (IF q = r THEN "idle" ELSE rpc[q])
                           /\ rseen'[q] = (IF q = r THEN NoRow ELSE rseen[q])
    BY <1>6 DEF Decide, Answer, TypeOK
  <2>2. rseen[r] \in Rows
    BY DEF TypeOK
  <2>3. CASE rpc[r] = "validate"
    BY <1>n, <1>6, <2>1, <2>3 DEF Decide
  <2>4. CASE rpc[r] = "reject"
    <3>1. /\ ~Decided(rseen[r], rpc[r]).human_validated
          /\ Decided(rseen[r], rpc[r]).submitted = rseen[r].submitted
      BY <2>2, <2>4 DEF Decided, Rows
    <3>2. QED
      BY <1>n, <1>6, <2>1, <2>4, <3>1 DEF Decide, Flush, Column
  <2>5. CASE rpc[r] = "mark_submitted"
    <3>1. Decided(rseen[r], rpc[r]).human_validated = rseen[r].human_validated
      BY <2>2, <2>5 DEF Decided, Rows
    <3>2. QED
      BY <1>n, <1>6, <2>1, <2>5, <3>1 DEF Decide, Flush, Column
  <2>6. QED
    BY <1>6, <2>3, <2>4, <2>5 DEF Decide
<1>7. ASSUME UNCHANGED <<finding, validated_once, rpc, rseen>> PROVE GateInv'
  BY <1>7
<1>8. QED
  BY <1>1, <1>2, <1>3, <1>4, <1>5, <1>6, <1>7
     DEF Next, vars, SwitchLlm, VerifyLoad, VerifyLost, CriticLoad, CriticLost, Refuse

(* Nothing is submitted that no human validated, whatever requests overlap   *)
(* and whatever the workers write late.                                      *)
THEOREM SubmissionsWereValidated == Spec => []SubmittedWasValidated
<1>1. Init => GateInv
  BY DEF Init, GateInv, SubmittedWasValidated, NoRow
<1>2. GateInv => SubmittedWasValidated
  BY DEF GateInv
<1>3. QED
  BY <1>1, <1>2, GateNext, TInvariant, PTL DEF Spec

-----------------------------------------------------------------------------
(* The review.  A guard evaluated on a loaded row still holds of the row it  *)
(* is written on, because verifications and critiques are never taken back:  *)
(* what a session has loaded, the row still has.  A critic job always has a  *)
(* packet, and once completed it has left a critique.                        *)
ReviewInv ==
  /\ ValidatedWasReviewed /\ VerifiedIsReviewable
  /\ \A r \in Requests :
       /\ rseen[r].verification # 0 => finding.verification # 0
       /\ rseen[r].critique # 0 => finding.critique # 0
       /\ rpc[r] = "validate" =>
            rseen[r].verification # 0 /\ (waived \/ rseen[r].critique # 0)
  /\ cseen.critique # 0 => finding.critique # 0
  /\ vseen.verification # 0 => finding.verification # 0
  /\ criticJob # "absent" => packet # 0
  /\ asked => criticJob # "absent"
  /\ criticJob = "completed" => finding.critique # 0

LEMMA ReviewNext == TInv /\ ReviewInv /\ [Next]_vars => ReviewInv'
<1> SUFFICES ASSUME TInv, ReviewInv, [Next]_vars PROVE ReviewInv'
  OBVIOUS
<1> USE DEF TInv, ReviewInv, ValidatedWasReviewed, VerifiedIsReviewable, Reviewed
<1>n. NoRow.verification = 0 /\ NoRow.critique = 0
  BY DEF NoRow
<1>1. ASSUME NEW d \in Dispositions, NEW automatic \in BOOLEAN, Plan(d, automatic)
      PROVE  ReviewInv'
  <2>1. /\ finding'.verification = finding.verification
        /\ finding'.critique = finding.critique
        /\ finding'.human_validated = finding.human_validated
    BY <1>1 DEF Plan, TypeOK, Rows
  <2>2. QED
    BY <1>1, <2>1 DEF Plan
<1>2. ASSUME NEW l \in Rows, NEW on \in BOOLEAN, Record(l, on),
             l.verification # 0 => finding.verification # 0
      PROVE  /\ criticJob # "absent" => criticJob' = criticJob /\ packet' = packet
             /\ criticJob' # "absent" => packet' # 0
             /\ asked' => criticJob' # "absent"
             /\ criticJob' = "completed" => criticJob = "completed"
             /\ finding'.human_validated = finding.human_validated
             /\ finding'.critique = finding.critique
             /\ finding'.verification # 0
             /\ criticJob' \in JobStates
  <2>1. recorded' # 0
    BY <1>2, BoundsAssumption DEF Record, TypeOK, Versions
  <2>a. asked' = (asked \/ on) /\ finding'.verification # 0
    <3> DEFINE n == [l EXCEPT !.verification = recorded',
                              !.evidence_ids = @ \union {recorded'},
                              !.status = IF on THEN "critic_queued" ELSE "awaiting_human"]
    <3>1. n.verification = recorded'
      BY DEF Rows
    <3>2. finding' = Flush(l, n) /\ asked' = (asked \/ on)
      BY <1>2 DEF Record
    <3> HIDE DEF n
    <3> QED
      BY <1>2, <2>1, <3>1, <3>2 DEF Flush, Column
  <2>2. CASE on /\ criticJob = "absent"
    BY <1>2, <2>1, <2>2, <2>a, RecordColumns DEF Record, JobStates
  <2>3. CASE ~(on /\ criticJob = "absent")
    <3>1. criticJob' = criticJob /\ packet' = packet
      BY <1>2, <2>3 DEF Record
    <3>2. QED
      BY <1>2, <2>1, <2>3, <2>a, <3>1, RecordColumns DEF TypeOK
  <2>4. QED
    BY <2>2, <2>3
<1>3. ASSUME VerifyCommit PROVE ReviewInv'
  <2>1. /\ vseen \in Rows /\ vllm \in BOOLEAN /\ Record(vseen, vllm)
        /\ UNCHANGED <<waived, cseen, rpc, rseen>> /\ vseen' = NoRow
    BY <1>3 DEF VerifyCommit, TypeOK
  <2>2. asked' => criticJob' \in {"queued", "completed", "dead"}
    BY <1>2, <2>1 DEF JobStates
  <2>3. QED
    BY <1>n, <1>2, <2>1, <2>2
<1>4. CASE VerifyLost
  BY <1>n, <1>4 DEF VerifyLost
<1>5. CASE CriticLoad
  BY <1>5 DEF CriticLoad
<1>6. ASSUME NEW v \in Verdicts, CriticCommit(v) PROVE ReviewInv'
  <2>1. /\ Criticised(cseen, v).human_validated = cseen.human_validated
        /\ Criticised(cseen, v).verification = cseen.verification
        /\ Criticised(cseen, v).critique = packet
    BY DEF Criticised, TypeOK, Rows
  <2>2. packet # 0
    BY <1>6 DEF CriticCommit, Bounded
  <2>3. /\ finding'.human_validated = finding.human_validated
        /\ finding'.verification = finding.verification
        /\ finding'.critique # 0
    BY <1>6, <2>1, <2>2 DEF CriticCommit, Flush, Column
  <2>4. QED
    BY <1>n, <1>6, <2>2, <2>3 DEF CriticCommit
<1>7. CASE CriticLost
  BY <1>n, <1>7 DEF CriticLost, AttemptLost, Bounded
<1>8. ASSUME NEW r \in Requests, NEW a \in Actions, Request(r, a) PROVE ReviewInv'
  BY <1>8 DEF Request, Allows, TypeOK
<1>9. ASSUME NEW r \in Requests, RecordManual(r) PROVE ReviewInv'
  <2>1. \A q \in Requests : rpc'[q] = (IF q = r THEN "idle" ELSE rpc[q])
                           /\ rseen'[q] = (IF q = r THEN NoRow ELSE rseen[q])
    BY <1>9 DEF RecordManual, Answer, TypeOK
  <2>2. /\ rseen[r] \in Rows /\ rllm[r] \in BOOLEAN /\ Record(rseen[r], rllm[r])
        /\ UNCHANGED <<waived, cseen, vseen>>
    BY <1>9 DEF RecordManual, Answer, TypeOK
  <2>3. asked' => criticJob' \in {"queued", "completed", "dead"}
    BY <1>2, <2>2 DEF JobStates
  <2>4. QED
    BY <1>n, <1>2, <2>1, <2>2, <2>3
<1>10. ASSUME NEW r \in Requests, Decide(r) PROVE ReviewInv'
  <2>1. \A q \in Requests : rpc'[q] = (IF q = r THEN "idle" ELSE rpc[q])
                           /\ rseen'[q] = (IF q = r THEN NoRow ELSE rseen[q])
    BY <1>10 DEF Decide, Answer, TypeOK
  <2>2. rseen[r] \in Rows
    BY DEF TypeOK
  <2>3. /\ Decided(rseen[r], rpc[r]).verification = rseen[r].verification
        /\ Decided(rseen[r], rpc[r]).critique = rseen[r].critique
        /\ rpc[r] # "validate" => \/ ~Decided(rseen[r], rpc[r]).human_validated
                                 \/ Decided(rseen[r], rpc[r]).human_validated
                                      = rseen[r].human_validated
    BY <1>10, <2>2 DEF Decide, Decided, Rows
  <2>4. finding'.verification = finding.verification /\ finding'.critique = finding.critique
    BY <1>10, <2>3 DEF Decide, Flush, Column
  <2>5. rpc[r] # "validate" /\ finding'.human_validated => finding.human_validated
    BY <1>10, <2>3 DEF Decide, Flush, Column
  <2>6. UNCHANGED <<waived, asked, criticJob, packet, cseen, vseen>>
    BY <1>10 DEF Decide, Answer
  <2>7. QED
    BY <1>n, <2>1, <2>4, <2>5, <2>6
<1>11. ASSUME UNCHANGED vars PROVE ReviewInv'
  BY <1>11 DEF vars
<1>12. CASE VerifyLoad
  BY <1>12 DEF VerifyLoad
<1>13. CASE SwitchLlm
  BY <1>13 DEF SwitchLlm
<1>14. QED
  BY <1>1, <1>3, <1>4, <1>5, <1>6, <1>7, <1>8, <1>9, <1>10, <1>11, <1>12, <1>13 DEF Next, Refuse

LEMMA ReviewInvariant == Spec => []ReviewInv
<1>1. Init => ReviewInv
  BY DEF Init, ReviewInv, ValidatedWasReviewed, VerifiedIsReviewable, Reviewed, NoRow
<1>2. QED
  BY <1>1, ReviewNext, TInvariant, PTL DEF Spec

(* What a human validated was verified and, with LLMs on, criticised, also   *)
(* when the guard was evaluated long before the write.                       *)
THEOREM ValidationsWereReviewed == Spec => []ValidatedWasReviewed
<1>1. ReviewInv => ValidatedWasReviewed
  BY DEF ReviewInv
<1>2. QED
  BY <1>1, ReviewInvariant, PTL

(* A verified finding has its critique, or a critic job that will bring it   *)
(* or has died.                                                              *)
THEOREM VerifiedAreReviewable == Spec => []VerifiedIsReviewable
<1>1. ReviewInv => VerifiedIsReviewable
  BY DEF ReviewInv
<1>2. QED
  BY <1>1, ReviewInvariant, PTL

-----------------------------------------------------------------------------
(* A finding waits for its verification only while the verifier, if it has   *)
(* loaded the row, has loaded it waiting too, and will write another status. *)
WaitInv ==
  /\ QueuedStatusHasJob
  /\ finding.status = "verification_queued" /\ vpc = "loaded"
       => vseen.status = "verification_queued"

LEMMA WaitNext == TInv /\ WaitInv /\ [Next]_vars => WaitInv'
<1> SUFFICES ASSUME TInv, WaitInv, [Next]_vars PROVE WaitInv'
  OBVIOUS
<1> USE DEF TInv, WaitInv, QueuedStatusHasJob
<1>1. ASSUME NEW d \in Dispositions, NEW automatic \in BOOLEAN, Plan(d, automatic)
      PROVE  WaitInv'
  <2>1. finding'.status = PlannedStatus(d, automatic)
    BY <1>1 DEF Plan, TypeOK, Rows
  <2>2. vpc' # "loaded"
    BY <1>1 DEF Plan, Bounded
  <2>3. QED
    BY <1>1, <2>1, <2>2 DEF Plan, PlannedStatus, QueuesVerify
<1>2. CASE VerifyLoad
  BY <1>2 DEF VerifyLoad
<1>3. CASE VerifyCommit
  BY <1>3, RecordColumns DEF VerifyCommit, TypeOK
<1>4. CASE VerifyLost
  BY <1>4 DEF VerifyLost, AttemptLost
<1>5. ASSUME NEW v \in Verdicts, CriticCommit(v) PROVE WaitInv'
  <2>1. Criticised(cseen, v).status # "verification_queued"
    BY DEF Criticised, TypeOK, Rows
  <2>2. finding'.status = "verification_queued" => finding.status = "verification_queued"
    BY <1>5, <2>1 DEF CriticCommit, Flush, Column
  <2>3. QED
    BY <1>5, <2>2 DEF CriticCommit
<1>6. ASSUME NEW r \in Requests, RecordManual(r) PROVE WaitInv'
  <2>1. finding'.status = "verification_queued" => finding.status = "verification_queued"
    BY <1>6, RecordColumns DEF RecordManual, TypeOK
  <2>2. QED
    BY <1>6, <2>1 DEF RecordManual, Answer
<1>7. ASSUME NEW r \in Requests, Decide(r) PROVE WaitInv'
  <2>1. Decided(rseen[r], rpc[r]).status # "verification_queued"
    BY <1>7 DEF Decide, Decided, TypeOK, Rows
  <2>2. finding'.status = "verification_queued" => finding.status = "verification_queued"
    BY <1>7, <2>1 DEF Decide, Flush, Column
  <2>3. QED
    BY <1>7, <2>2 DEF Decide, Answer
<1>8. ASSUME UNCHANGED <<finding, verifyJob, vpc, vseen>> PROVE WaitInv'
  BY <1>8
<1>9. QED
  BY <1>1, <1>2, <1>3, <1>4, <1>5, <1>6, <1>7, <1>8
     DEF Next, vars, SwitchLlm, CriticLoad, CriticLost, Request, Refuse

(* A finding shown as verification_queued has a verify job, unless it died.  *)
THEOREM QueuedStatusesHaveJobs == Spec => []QueuedStatusHasJob
<1>1. Init => WaitInv
  BY DEF Init, WaitInv, QueuedStatusHasJob, NoRow
<1>2. WaitInv => QueuedStatusHasJob
  BY DEF WaitInv
<1>3. QED
  BY <1>1, <1>2, WaitNext, TInvariant, PTL DEF Spec

-----------------------------------------------------------------------------
(* Closing.  A request is processed on a row that allowed it, and what such  *)
(* a row said of the submission is still true of the finding, since nothing  *)
(* takes a submission back.                                                  *)
ClosedInv ==
  /\ finding.status = "submitted" => finding.submitted
  /\ \A r \in Requests :
       /\ rpc[r] # "idle" => \E on \in BOOLEAN : Allows(rseen[r], rpc[r], on)
       /\ rseen[r].submitted => finding.submitted
       /\ rseen[r].status = "submitted" => rseen[r].submitted

LEMMA ClosedNext == TInv /\ ClosedInv /\ [Next]_vars => ClosedInv'
<1> SUFFICES ASSUME TInv, ClosedInv, [Next]_vars PROVE ClosedInv'
  OBVIOUS
<1> USE DEF TInv, ClosedInv
<1>n. NoRow.status # "submitted" /\ ~NoRow.submitted
  BY DEF NoRow
<1>l. ASSUME NEW r \in Requests, rpc'[r] = rpc[r], rseen'[r] = rseen[r]
      PROVE  rpc'[r] # "idle" => \E on \in BOOLEAN : Allows(rseen[r], rpc[r], on)'
  BY <1>l DEF Allows
<1>1. ASSUME NEW d \in Dispositions, NEW automatic \in BOOLEAN, Plan(d, automatic)
      PROVE  ClosedInv'
  <2>1. finding'.status # "submitted" /\ finding'.submitted = finding.submitted
    BY <1>1 DEF Plan, PlannedStatus, TypeOK, Rows
  <2>2. QED
    BY <1>1, <1>l, <2>1 DEF Plan
<1>2. ASSUME VerifyCommit PROVE ClosedInv'
  <2>1. /\ finding'.status = "submitted" => finding.status = "submitted"
        /\ finding'.submitted = finding.submitted
    BY <1>2, RecordColumns DEF VerifyCommit, TypeOK
  <2>2. QED
    BY <1>2, <1>l, <2>1 DEF VerifyCommit
<1>3. ASSUME NEW v \in Verdicts, CriticCommit(v) PROVE ClosedInv'
  <2>1. /\ Criticised(cseen, v).status # "submitted"
        /\ Criticised(cseen, v).submitted = cseen.submitted
    BY DEF Criticised, TypeOK, Rows
  <2>2. /\ finding'.status = "submitted" => finding.status = "submitted"
        /\ finding'.submitted = finding.submitted
    BY <1>3, <2>1 DEF CriticCommit, Flush, Column
  <2>3. QED
    BY <1>3, <1>l, <2>2 DEF CriticCommit
<1>4. ASSUME NEW r \in Requests, NEW a \in Actions, Request(r, a) PROVE ClosedInv'
  <2>1. \A q \in Requests : rpc'[q] = (IF q = r THEN a ELSE rpc[q])
                           /\ rseen'[q] = (IF q = r THEN finding ELSE rseen[q])
    BY <1>4 DEF Request, TypeOK
  <2>2. Allows(finding, a, llm) /\ llm \in BOOLEAN /\ UNCHANGED finding
    BY <1>4 DEF Request, TypeOK
  <2>3. \E on \in BOOLEAN : Allows(rseen[r], rpc[r], on)'
    BY <2>1, <2>2 DEF Allows
  <2>4. QED
    BY <1>l, <2>1, <2>2, <2>3
<1>5. ASSUME NEW r \in Requests, RecordManual(r) PROVE ClosedInv'
  <2>1. \A q \in Requests : rpc'[q] = (IF q = r THEN "idle" ELSE rpc[q])
                           /\ rseen'[q] = (IF q = r THEN NoRow ELSE rseen[q])
    BY <1>5 DEF RecordManual, Answer, TypeOK
  <2>2. /\ finding'.status = "submitted" => finding.status = "submitted"
        /\ finding'.submitted = finding.submitted
    BY <1>5, RecordColumns DEF RecordManual, TypeOK
  <2>3. QED
    BY <1>n, <1>l, <2>1, <2>2
<1>6. ASSUME NEW r \in Requests, Decide(r) PROVE ClosedInv'
  <2>1. \A q \in Requests : rpc'[q] = (IF q = r THEN "idle" ELSE rpc[q])
                           /\ rseen'[q] = (IF q = r THEN NoRow ELSE rseen[q])
    BY <1>6 DEF Decide, Answer, TypeOK
  <2>2. /\ rpc[r] # "mark_submitted" =>
             /\ Decided(rseen[r], rpc[r]).status # "submitted"
             /\ Decided(rseen[r], rpc[r]).submitted = rseen[r].submitted
        /\ rpc[r] = "mark_submitted" => Decided(rseen[r], rpc[r]).submitted
    BY <1>6 DEF Decide, Decided, TypeOK, Rows
  <2>3. rseen[r] \in Rows /\ finding \in Rows
    BY DEF TypeOK
  <2>4. finding.submitted => finding'.submitted
    BY <1>6, <2>2, <2>3 DEF Decide, Flush, Column, Rows
  <2>5. finding'.status = "submitted" => finding'.submitted
    <3>1. CASE rpc[r] = "mark_submitted"
      BY <1>6, <2>2, <2>3, <3>1 DEF Decide, Flush, Column, Rows
    <3>2. CASE rpc[r] # "mark_submitted"
      BY <1>6, <2>2, <2>3, <2>4, <3>2 DEF Decide, Flush, Column
    <3>3. QED
      BY <3>1, <3>2
  <2>6. QED
    BY <1>n, <1>l, <2>1, <2>4, <2>5
<1>7. ASSUME UNCHANGED <<finding, rpc, rseen>> PROVE ClosedInv'
  BY <1>7, <1>l
<1>8. QED
  BY <1>1, <1>2, <1>3, <1>4, <1>5, <1>6, <1>7
     DEF Next, vars, SwitchLlm, VerifyLoad, VerifyLost, CriticLoad, CriticLost, Refuse

(* What a person has closed is opened only by a worker that had it in hand,  *)
(* by a request that had loaded it open, or by an acceptance of a finding    *)
(* that request had not seen submitted.                                      *)
THEOREM ClosingsLast == Spec => ClosedReopensLate
<1> DEFINE Late ==
      finding.status \in Closed /\ finding'.status \notin Closed =>
        \/ vpc = "loaded" /\ vpc' = "idle"
        \/ cpc = "loaded" /\ cpc' = "idle"
        \/ \E r \in Requests : /\ rpc[r] # "idle" /\ rpc'[r] = "idle" /\ ~rseen[r].submitted
                               /\ rpc[r] = "validate" \/ rseen[r].status \notin Closed
<1>1. Init => ClosedInv
  BY DEF Init, ClosedInv, NoRow
<1>2. TInv /\ ClosedInv /\ [Next]_vars => [Late]_vars
  <2> SUFFICES ASSUME TInv, ClosedInv, Next,
                      finding.status \in Closed, finding'.status \notin Closed
               PROVE  Late
    BY DEF vars
  <2> USE DEF TInv
  <2>1. ASSUME NEW d \in Dispositions, NEW automatic \in BOOLEAN, Plan(d, automatic)
        PROVE  Late
    BY <2>1 DEF Plan, Closed
  <2>2. CASE VerifyCommit
    BY <2>2 DEF VerifyCommit
  <2>3. ASSUME NEW v \in Verdicts, CriticCommit(v) PROVE Late
    BY <2>3 DEF CriticCommit
  <2>4. ASSUME NEW r \in Requests, RecordManual(r) PROVE Late
    <3>1. rpc[r] # "idle" /\ rpc'[r] = "idle" /\ rpc[r] = "record_manual_verification"
      BY <2>4 DEF RecordManual, Answer, TypeOK
    <3>2. ~rseen[r].submitted /\ rseen[r].status \notin Closed
      BY <3>1 DEF ClosedInv, Allows, Closed
    <3>3. QED
      BY <3>1, <3>2
  <2>5. ASSUME NEW r \in Requests, Decide(r) PROVE Late
    <3>1. rpc[r] # "idle" /\ rpc'[r] = "idle"
      BY <2>5 DEF Decide, Answer, TypeOK
    <3>2. CASE rpc[r] = "validate"
      BY <3>1, <3>2 DEF ClosedInv, Allows
    <3>3. CASE rpc[r] # "validate"
      <4>1. Decided(rseen[r], rpc[r]).status \in Closed
        BY <2>5, <3>3 DEF Decide, Decided, TypeOK, Rows, Closed
      <4>2. QED
        BY <2>5, <4>1 DEF Decide, Flush, Column
    <3>4. QED
      BY <3>2, <3>3
  <2>6. ASSUME UNCHANGED finding PROVE Late
    BY <2>6
  <2>7. QED
    BY <2>1, <2>2, <2>3, <2>4, <2>5, <2>6
       DEF Next, vars, SwitchLlm, VerifyLoad, VerifyLost, CriticLoad, CriticLost, Request, Refuse
<1>3. QED
  BY <1>1, <1>2, ClosedNext, TInvariant, PTL DEF Spec, ClosedReopensLate

-----------------------------------------------------------------------------
(* The gate.  Every commit, on whatever row it was computed, does one of the *)
(* steps of HumanGate or nothing that a person would see.                    *)
LEMMA GateStep ==
  ASSUME TInv, GateInv, ReviewInv, [Next]_vars
  PROVE  Gate!Next \/ UNCHANGED Gate!gate
<1> USE DEF TInv, Gate!Next, Gate!gate, Gate!Review, Gate!Accept, Gate!Withdraw, Gate!Submit
<1>b. /\ finding.human_validated \in BOOLEAN /\ finding.submitted \in BOOLEAN
      /\ validated_once \in BOOLEAN /\ Reviewed \in BOOLEAN
  BY DEF TypeOK, Rows, Reviewed
<1>1. ASSUME NEW d \in Dispositions, NEW automatic \in BOOLEAN, Plan(d, automatic)
      PROVE  UNCHANGED Gate!gate
  BY <1>1 DEF Plan, TypeOK, Rows, Reviewed
<1>2. ASSUME NEW l \in Rows, NEW on \in BOOLEAN, Record(l, on), UNCHANGED <<waived, validated_once>>
      PROVE  Gate!Review \/ UNCHANGED Gate!gate
  <2>1. /\ finding'.human_validated = finding.human_validated
        /\ finding'.submitted = finding.submitted
        /\ Reviewed => Reviewed'
    BY <1>2, RecordColumns DEF Reviewed
  <2>2. QED
    BY <1>2, <1>b, <2>1 DEF Reviewed
<1>3. ASSUME NEW v \in Verdicts, CriticCommit(v)
      PROVE  Gate!Review \/ UNCHANGED Gate!gate
  <2>1. /\ Criticised(cseen, v).human_validated = cseen.human_validated
        /\ Criticised(cseen, v).submitted = cseen.submitted
        /\ Criticised(cseen, v).verification = cseen.verification
        /\ Criticised(cseen, v).critique = packet
    BY DEF Criticised, TypeOK, Rows
  <2>2. packet # 0
    BY <1>3 DEF CriticCommit, Bounded, ReviewInv
  <2>3. /\ finding'.human_validated = finding.human_validated
        /\ finding'.submitted = finding.submitted
        /\ finding'.verification = finding.verification /\ finding'.critique # 0
    BY <1>3, <2>1, <2>2 DEF CriticCommit, Flush, Column, ReviewInv
  <2>4. waived' = waived /\ validated_once' = validated_once
    BY <1>3 DEF CriticCommit
  <2>5. QED
    BY <1>b, <2>3, <2>4 DEF Reviewed
<1>4. ASSUME NEW r \in Requests, Decide(r) PROVE Gate!Next \/ UNCHANGED Gate!gate
  <2>1. /\ Decided(rseen[r], rpc[r]).verification = rseen[r].verification
        /\ Decided(rseen[r], rpc[r]).critique = rseen[r].critique
        /\ rpc[r] # "mark_submitted" => Decided(rseen[r], rpc[r]).submitted = rseen[r].submitted
    BY <1>4 DEF Decide, Decided, TypeOK, Rows
  <2>2. Reviewed' = Reviewed
    BY <1>4, <2>1 DEF Decide, Answer, Flush, Column, Reviewed
  <2>3. rpc[r] # "mark_submitted" => finding'.submitted = finding.submitted
    BY <1>4, <2>1 DEF Decide, Flush, Column
  <2>4. rseen[r] \in Rows
    BY DEF TypeOK
  <2>5. CASE rpc[r] = "validate"
    <3>1. Reviewed /\ validated_once'
      BY <1>4, <2>5 DEF ReviewInv, Reviewed, Decide
    <3>2. rseen[r].human_validated => validated_once
      BY DEF GateInv
    <3>3. Decided(rseen[r], rpc[r]).human_validated = TRUE
      BY <2>4, <2>5 DEF Decided, Rows
    <3>4. CASE rseen[r].human_validated = TRUE
      <4>1. finding'.human_validated = finding.human_validated
        BY <1>4, <3>3, <3>4 DEF Decide, Flush, Column
      <4>2. QED
        BY <1>b, <2>2, <2>3, <2>5, <3>1, <3>2, <3>4, <4>1
    <3>5. CASE rseen[r].human_validated # TRUE
      <4>1. finding'.human_validated = TRUE
        BY <1>4, <3>3, <3>5 DEF Decide, Flush, Column
      <4>2. QED
        BY <2>2, <2>3, <2>5, <3>1, <4>1
    <3>6. QED
      BY <3>4, <3>5
  <2>6. CASE rpc[r] = "reject"
    <3>1. Decided(rseen[r], rpc[r]).human_validated = FALSE
      BY <2>4, <2>6 DEF Decided, Rows
    <3>2. finding'.human_validated \in {FALSE, finding.human_validated}
      BY <1>4, <3>1 DEF Decide, Flush, Column
    <3>3. validated_once' = validated_once
      BY <1>4, <1>b, <2>6 DEF Decide
    <3>4. QED
      BY <1>b, <2>2, <2>3, <2>6, <3>2, <3>3
  <2>7. CASE rpc[r] = "mark_submitted"
    <3>1. validated_once
      BY <2>7 DEF GateInv
    <3>2. /\ Decided(rseen[r], rpc[r]).human_validated = rseen[r].human_validated
          /\ Decided(rseen[r], rpc[r]).submitted = TRUE
      BY <2>4, <2>7 DEF Decided, Rows
    <3>3. /\ finding'.human_validated = finding.human_validated
          /\ finding'.submitted \in {TRUE, finding.submitted}
      BY <1>4, <3>2 DEF Decide, Flush, Column
    <3>4. validated_once' = validated_once
      BY <1>4, <1>b, <2>7 DEF Decide
    <3>5. QED
      BY <1>b, <2>2, <3>1, <3>3, <3>4
  <2>8. QED
    BY <1>4, <2>5, <2>6, <2>7 DEF Decide
<1>5. CASE VerifyCommit
  <2>1. vseen \in Rows /\ vllm \in BOOLEAN /\ Record(vseen, vllm) /\ UNCHANGED <<waived, validated_once>>
    BY <1>5 DEF VerifyCommit, TypeOK
  <2>2. QED
    BY <1>2, <2>1
<1>6. ASSUME NEW r \in Requests, RecordManual(r) PROVE Gate!Next \/ UNCHANGED Gate!gate
  <2>1. /\ rseen[r] \in Rows /\ rllm[r] \in BOOLEAN /\ Record(rseen[r], rllm[r])
        /\ UNCHANGED <<waived, validated_once>>
    BY <1>6 DEF RecordManual, Answer, TypeOK
  <2>2. QED
    BY <1>2, <2>1
<1>7. CASE UNCHANGED <<finding, waived, validated_once>>
  BY <1>7 DEF Reviewed
<1>8. ASSUME NEW r \in Requests, NEW a \in Actions, Request(r, a)
      PROVE  Gate!Review \/ UNCHANGED Gate!gate
  BY <1>b, <1>8 DEF Request, Reviewed, TypeOK
<1>9. QED
  BY <1>1, <1>3, <1>4, <1>5, <1>6, <1>7, <1>8
     DEF Next, vars, SwitchLlm, VerifyLoad, VerifyLost, CriticLoad, CriticLost, Refuse

(* The workflow implements the gate, for any number of overlapping requests: *)
(* finding_action and the workers' late commits of workflow.py included.     *)
THEOREM WorkflowImplementsGate == Spec => GateSpec
<1>1. Init => Gate!Init /\ GateInv
  BY DEF Init, Gate!Init, Reviewed, NoRow, GateInv, SubmittedWasValidated
<1>2. TInv /\ GateInv /\ ReviewInv /\ [Next]_vars => [Gate!Next]_(Gate!gate)
  BY GateStep
<1>3. QED
  BY <1>1, <1>2, GateNext, TInvariant, ReviewInvariant, PTL DEF Spec, GateSpec, Gate!Spec
=============================================================================
