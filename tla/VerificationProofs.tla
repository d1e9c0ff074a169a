------------------------- MODULE VerificationProofs -------------------------
(***************************************************************************)
(* What holds of Verification for any manifests, steps, number of attempts *)
(* and number of changes.                                                  *)
(***************************************************************************)
EXTENDS Verification, WellFoundedInduction, TLAPS

(* An idle queued job has an attempt left; a running attempt has sent one    *)
(* request for every step before the current one, each under the headers and *)
(* the scope of the manifest it loaded.                                      *)
Attempts ==
  /\ job = "absent" => attempts = 0
  /\ pc = "idle" /\ job = "queued" => attempts < MaxAttempts
  /\ pc # "idle" => job = "queued"
  /\ job = "completed" => step = Len(plan) + 1 /\ results = Len(plan) /\ request_count = results

Progress ==
  /\ Len(sent) = request_count /\ request_count <= loaded.budget
  /\ pc = "running" => results = step - 1 /\ request_count = results /\ step <= Len(plan) + 1
  /\ pc = "waiting" => results = step - 1 /\ request_count = step /\ step <= Len(plan)

Answers ==
  pc # "idle" \/ job = "completed" =>
    \A i \in DOMAIN sent : /\ i \in DOMAIN plan /\ sent[i].target = plan[i].target
                           /\ InScope(loaded, sent[i].target)

TInv == TypeOK /\ Attempts /\ Progress
Inv == TInv /\ Answers /\ NoCookieWithoutLeave

LEMMA BudgetType == ASSUME NEW m \in Manifests PROVE m.budget \in 1 .. 20
BY VerificationAssumption

LEMMA Constants == MaxSteps \in Nat /\ MaxAttempts \in Nat \ {0} /\ MaxChanges \in Nat
BY VerificationAssumption

LEMMA TInvInit == Init => TInv
<1> SUFFICES ASSUME Init PROVE TInv
  OBVIOUS
<1>1. loaded.budget \in 1 .. 20
  BY BudgetType DEF Init
<1>2. dns \in [Targets -> SUBSET Addresses] /\ secrets \in [Roles -> HeaderKinds]
  BY DEF Init, HeaderKinds
<1>3. QED
  BY <1>1, <1>2, VerificationAssumption DEF Init, TInv, TypeOK, Attempts, Progress

-----------------------------------------------------------------------------
(* What a permitted step sends. *)
LEMMA PermittedStep ==
  ASSUME TypeOK, step \in DOMAIN plan, Permitted(loaded, plan[step])
  PROVE  /\ plan[step].target \in Targets /\ InScope(loaded, plan[step].target)
         /\ HeadersOf(loaded, plan[step]) \in HeaderKinds
         /\ HeadersOf(loaded, plan[step]) = "cookie" => loaded.authenticated
         /\ request_count + 1 <= loaded.budget
<1> DEFINE s == plan[step]
<1>1. s \in StepType /\ loaded \in Manifests
  BY VerificationAssumption DEF TypeOK
<1>2. loaded.roles \subseteq Roles
  BY <1>1, VerificationAssumption
<1>3. s.target \in Targets
  BY <1>1 DEF StepType
<1>4. InScope(loaded, s.target)
  BY DEF Permitted, Authorized
<1>5. HeadersOf(loaded, s) \in HeaderKinds
  BY <1>2 DEF Permitted, HeadersOf, TypeOK, HeaderKinds
<1>6. HeadersOf(loaded, s) = "cookie" => loaded.authenticated
  BY DEF Permitted, HeadersPass
<1>7. request_count + 1 <= loaded.budget
  BY DEF Permitted, WithinBudget
<1>8. QED
  BY <1>3, <1>4, <1>5, <1>6, <1>7

LEMMA ChangeType ==
  ASSUME TypeOK, Change PROVE changes' \in 0 .. MaxChanges /\ fresh' \in BOOLEAN
<1>1. changes' \in 0 .. MaxChanges
  BY Constants DEF Change, TypeOK
<1>2. fresh' \in BOOLEAN
  BY Zenon DEF Change
<1>3. QED
  BY <1>1, <1>2

LEMMA TInvNext == TInv /\ [Next]_vars => TInv'
<1> SUFFICES ASSUME TInv, [Next]_vars PROVE TInv'
  OBVIOUS
<1> USE Constants DEF TInv, TypeOK, Attempts, Progress, attempt
<1>1. ASSUME NEW steps \in BoundedSeq(Steps, MaxSteps), Plan(steps) PROVE TInv'
  <2>1. steps \in Seq(Steps) /\ Len(steps) <= MaxSteps
    BY DEF BoundedSeq, SeqOf
  <2>2. QED
    BY <1>1, <2>1 DEF Plan
<1>2. ASSUME NEW m \in Manifests, ApproveManifest(m) PROVE TInv'
  BY <1>2, ChangeType DEF ApproveManifest
<1>3. ASSUME NEW t \in Targets, NEW as \in SUBSET Addresses, DnsChanges(t, as) PROVE TInv'
  BY <1>3, ChangeType DEF DnsChanges
<1>4. ASSUME NEW r \in Roles, NEW h \in HeaderKinds, SecretsChange(r, h) PROVE TInv'
  BY <1>4, ChangeType DEF SecretsChange
<1>5. CASE StartAttempt
  <2>1. manifest.budget \in 1 .. 20
    BY BudgetType
  <2>2. QED
    BY <1>5, <2>1 DEF StartAttempt, FirstStep
<1>6. CASE Request
  <2>1. step \in DOMAIN plan /\ Permitted(loaded, plan[step])
    BY <1>6 DEF Request
  <2>2. [target |-> plan[step].target, headers |-> HeadersOf(loaded, plan[step])]
          \in [target : Targets, headers : HeaderKinds]
    BY <2>1, PermittedStep
  <2>3. sent' \in Seq([target : Targets, headers : HeaderKinds]) /\ Len(sent') = Len(sent) + 1
    BY <1>6, <2>2 DEF Request
  <2>4. request_count + 1 <= loaded.budget
    BY <2>1, PermittedStep
  <2>5. QED
    BY <1>6, <2>3, <2>4 DEF Request
<1>7. CASE Answer
  BY <1>7 DEF Answer
<1>8. CASE Record
  BY <1>8 DEF Record
<1>9. CASE Fail
  BY <1>9 DEF Fail, AfterFailure
<1>10. CASE UNCHANGED vars
  BY <1>10 DEF vars
<1>11. QED
  BY <1>1, <1>2, <1>3, <1>4, <1>5, <1>6, <1>7, <1>8, <1>9, <1>10 DEF Next

(* Type correctness: the plan, the job, its attempt and what it has sent.    *)
THEOREM TypeCorrect == Spec => []TypeOK
<1>1. TInv => TypeOK
  BY DEF TInv
<1>2. QED
  BY <1>1, TInvInit, TInvNext, PTL DEF Spec

(* The budget of the manifest an attempt loaded bounds what it sends, under  *)
(* whatever manifest the plan was compiled.                                  *)
THEOREM AttemptsWithinBudget == Spec => []AttemptWithinBudget
<1>1. TInv => AttemptWithinBudget
  BY DEF TInv, Progress, AttemptWithinBudget
<1>2. QED
  BY <1>1, TInvInit, TInvNext, PTL DEF Spec

-----------------------------------------------------------------------------
LEMMA InvNext == Inv /\ [Next]_vars => Inv'
<1> SUFFICES ASSUME Inv, [Next]_vars PROVE (Answers /\ NoCookieWithoutLeave)'
  BY TInvNext DEF Inv
<1> USE DEF Inv, TInv, Answers, NoCookieWithoutLeave
<1>1. ASSUME NEW steps, Plan(steps) PROVE (Answers /\ NoCookieWithoutLeave)'
  BY <1>1 DEF Plan, Attempts, attempt
<1>2. CASE StartAttempt
  BY <1>2 DEF StartAttempt
<1>3. CASE Request
  <2> DEFINE s == plan[step]
             e == [target |-> s.target, headers |-> HeadersOf(loaded, s)]
  <2>1. step \in DOMAIN plan /\ Permitted(loaded, s) /\ step = Len(sent) + 1
    BY <1>3 DEF Request, TypeOK, Progress
  <2>2. InScope(loaded, s.target) /\ (e.headers = "cookie" => loaded.authenticated)
    BY <2>1, PermittedStep
  <2>3. e \in [target : Targets, headers : HeaderKinds]
    BY <2>1, PermittedStep
  <2>4. /\ DOMAIN sent' = DOMAIN sent \union {step} /\ sent'[step] = e
        /\ \A i \in DOMAIN sent : sent'[i] = sent[i]
    BY <1>3, <2>1, <2>3 DEF Request, TypeOK
  <2>5. loaded' = loaded /\ plan' = plan /\ job' = job /\ pc # "idle"
    BY <1>3 DEF Request
  <2>6. Answers'
    <3> SUFFICES ASSUME NEW i \in DOMAIN sent'
                 PROVE  /\ i \in DOMAIN plan /\ sent'[i].target = plan[i].target
                        /\ InScope(loaded, sent'[i].target)
      BY <2>5 DEF InScope
    <3> QED
      BY <2>1, <2>2, <2>4, <2>5
  <2>7. NoCookieWithoutLeave'
    BY <2>2, <2>4, <2>5
  <2>8. QED
    BY <2>6, <2>7
<1>4. CASE /\ UNCHANGED <<plan, loaded, sent>>
           /\ (pc # "idle" \/ job = "completed")' => (pc # "idle" \/ job = "completed")
  BY <1>4 DEF InScope
<1>5. QED
  BY <1>1, <1>2, <1>3, <1>4
     DEF Next, vars, attempt, ApproveManifest, DnsChanges, SecretsChange, Answer, Record,
         Fail, AfterFailure

LEMMA Invariant == Spec => []Inv
<1>1. Init => Inv
  BY TInvInit DEF Init, Inv, Answers, NoCookieWithoutLeave
<1>2. QED
  BY <1>1, InvNext, TInvNext, PTL DEF Spec

(* No cookie and no authorization leaves without allow_authenticated.        *)
THEOREM CookiesNeedLeave == Spec => []NoCookieWithoutLeave
<1>1. Inv => NoCookieWithoutLeave
  BY DEF Inv
<1>2. QED
  BY <1>1, Invariant, PTL

(* What is recorded is the whole plan, under one manifest.                   *)
THEOREM RecordsAreWhole == Spec => []RecordedIsWhole
<1>1. Inv => RecordedIsWhole
  <2> SUFFICES ASSUME Inv, job = "completed" PROVE RecordedIsWhole
    BY DEF RecordedIsWhole
  <2>1. DOMAIN sent = DOMAIN plan /\ results = Len(plan)
    BY DEF Inv, TInv, TypeOK, Attempts, Progress
  <2>2. \A i \in DOMAIN sent : sent[i].target = plan[i].target /\ InScope(loaded, sent[i].target)
    BY DEF Inv, Answers
  <2>3. QED
    BY <2>1, <2>2 DEF RecordedIsWhole
<1>2. QED
  BY <1>1, Invariant, PTL

-----------------------------------------------------------------------------
(* Induction up to a bound, for a set of numbers: what is missing from it    *)
(* would have a least element.                                               *)
LEMMA LeastOf == ASSUME NEW T \in SUBSET Nat, T # {} PROVE \E n \in T : \A m \in T : n <= m
<1> DEFINE R == OpToRel(<, Nat)
<1>1. IsWellFoundedOn(R, Nat)
  BY NatLessThanWellFounded
<1> HIDE DEF R
<1>2. PICK n \in T : \A m \in T : <<m, n>> \notin R
  BY <1>1, WFMin
<1>3. ASSUME NEW m \in T PROVE n <= m
  <2>1. m \in Nat /\ n \in Nat /\ <<m, n>> \notin R
    BY <1>2
  <2>2. ~(m < n)
    BY <2>1 DEF R, OpToRel
  <2> QED
    BY <2>1, <2>2
<1> QED
  BY <1>3

LEMMA UpTo ==
  ASSUME NEW N \in Nat, NEW S, 0 \in S, \A n \in 1 .. N : n - 1 \in S => n \in S
  PROVE  0 .. N \subseteq S
<1>1. ASSUME (0 .. N) \ S # {} PROVE FALSE
  <2>1. (0 .. N) \ S \in SUBSET Nat
    OBVIOUS
  <2>2. PICK n \in (0 .. N) \ S : \A m \in (0 .. N) \ S : n <= m
    BY <1>1, <2>1, LeastOf
  <2>3. n \in 1 .. N /\ n - 1 \in 0 .. N /\ ~(n <= n - 1)
    BY <2>2
  <2>4. n - 1 \in S
    BY <2>2, <2>3
  <2>5. QED
    BY <2>2, <2>3, <2>4
<1>2. QED
  BY <1>1

(* The sum over a plan is defined: there is a function that satisfies its    *)
(* recursion.                                                                *)
LEMMA SumUnfolds ==
  ASSUME NEW steps \in Seq(Steps)
  PROVE  RequestsUpTo(steps) =
           [n \in 0 .. Len(steps) |-> IF n = 0 THEN 0
              ELSE RequestsUpTo(steps)[n - 1] + steps[n].max_requests]
<1> DEFINE Sums(sum, k) ==
             sum = [n \in 0 .. k |-> IF n = 0 THEN 0 ELSE sum[n - 1] + steps[n].max_requests]
           S == {k \in 0 .. Len(steps) : \E sum : Sums(sum, k)}
<1>1. 0 \in S
  <2>1. Sums([n \in 0 .. 0 |-> 0], 0)
    OBVIOUS
  <2> HIDE DEF Sums
  <2>2. QED
    BY <2>1
<1>2. ASSUME NEW k \in 1 .. Len(steps), k - 1 \in S PROVE k \in S
  <2> HIDE DEF Sums
  <2>1. PICK sum : Sums(sum, k - 1)
    BY <1>2
  <2> USE DEF Sums
  <2> DEFINE more == [n \in 0 .. k |-> IF n = k THEN sum[k - 1] + steps[k].max_requests
                                       ELSE sum[n]]
  <2>2. Sums(more, k)
    <3>1. ASSUME NEW n \in 0 .. k
          PROVE  more[n] = IF n = 0 THEN 0 ELSE more[n - 1] + steps[n].max_requests
      BY <2>1
    <3>2. QED
      BY <3>1
  <2> HIDE DEF Sums, more
  <2>3. QED
    BY <2>2
<1>3. \E sum : Sums(sum, Len(steps))
  <2> HIDE DEF Sums
  <2>1. Len(steps) \in 0 .. Len(steps) /\ Len(steps) \in Nat
    OBVIOUS
  <2>2. 0 .. Len(steps) \subseteq S
    <3> HIDE DEF S
    <3>1. QED
      BY <1>1, <1>2, <2>1, UpTo
  <2>3. QED
    BY <2>1, <2>2
<1>4. RequestsUpTo(steps) = CHOOSE sum : Sums(sum, Len(steps))
  BY DEF RequestsUpTo
<1> HIDE DEF Sums
<1>5. Sums(RequestsUpTo(steps), Len(steps))
  BY <1>3, <1>4
<1>6. QED
  BY <1>5 DEF Sums

(* Every step asks for at least one request, so a plan has no more steps     *)
(* than requests.                                                            *)
LEMMA PrefixSum ==
  ASSUME NEW steps \in Seq(Steps)
  PROVE  \A n \in 0 .. Len(steps) :
           RequestsUpTo(steps)[n] \in Nat /\ n <= RequestsUpTo(steps)[n]
<1> DEFINE sum == RequestsUpTo(steps)
           S == {n \in 0 .. Len(steps) : sum[n] \in Nat /\ n <= sum[n]}
<1>1. \A n \in 0 .. Len(steps) :
        sum[n] = IF n = 0 THEN 0 ELSE sum[n - 1] + steps[n].max_requests
  BY SumUnfolds
<1> HIDE DEF sum
<1>2. 0 \in S
  BY <1>1
<1>3. ASSUME NEW n \in 1 .. Len(steps), n - 1 \in S PROVE n \in S
  <2>1. steps[n].max_requests \in 1 .. 20
    <3>1. steps[n] \in StepType
      BY VerificationAssumption
    <3>2. QED
      BY <3>1 DEF StepType
  <2>2. sum[n] = sum[n - 1] + steps[n].max_requests
    BY <1>1
  <2>3. \A i \in Nat, j \in Nat, r \in 1 .. 20 : i - 1 <= j => i <= j + r /\ j + r \in Nat
    OBVIOUS
  <2>4. n \in Nat /\ sum[n - 1] \in Nat /\ n - 1 <= sum[n - 1]
    BY <1>3
  <2>5. n <= sum[n] /\ sum[n] \in Nat
    BY <2>1, <2>2, <2>3, <2>4
  <2>6. QED
    BY <2>5
<1>4. 0 .. Len(steps) \subseteq S
  <2>1. Len(steps) \in Nat
    OBVIOUS
  <2> HIDE DEF S
  <2>2. QED
    BY <1>2, <1>3, <2>1, UpTo
<1>5. QED
  BY <1>4 DEF sum

LEMMA PlanWithinRequests ==
  ASSUME NEW steps \in Seq(Steps)
  PROVE  TotalRequests(steps) \in Nat /\ Len(steps) <= TotalRequests(steps)
BY PrefixSum DEF TotalRequests

-----------------------------------------------------------------------------
(* While nothing has changed since the plan was compiled, a job that is      *)
(* still to run, or is running, has an automatic plan, and an attempt that   *)
(* is running has loaded the manifest the plan was compiled against.         *)
Compiled ==
  fresh => /\ job = "queued" => Automatic(manifest, plan)
           /\ pc # "idle" => loaded = manifest

LEMMA CompiledNext == TInv /\ Compiled /\ [Next]_vars => Compiled'
<1> SUFFICES ASSUME TInv, Compiled, [Next]_vars, fresh' PROVE Compiled'
  BY DEF Compiled
<1> USE DEF Compiled
<1>1. ASSUME NEW steps, Plan(steps) PROVE Compiled'
  <2>1. pc' = "idle" /\ UNCHANGED <<manifest, dns>>
    BY <1>1 DEF Plan, TInv, Attempts, attempt, TypeOK
  <2>2. job' = "queued" => Automatic(manifest, steps)
    BY <1>1 DEF Plan
  <2>3. plan' = steps
    BY <1>1 DEF Plan
  <2>4. QED
    BY <2>1, <2>2, <2>3 DEF Automatic, StepCompiles, Authorized
<1>2. CASE StartAttempt
  BY <1>2 DEF StartAttempt, Automatic, StepCompiles, Authorized
<1>3. CASE /\ UNCHANGED <<manifest, dns, plan, loaded, fresh>>
           /\ job' = "queued" => job = "queued"
           /\ pc' # "idle" => pc # "idle"
  BY <1>3 DEF Automatic, StepCompiles, Authorized
<1>4. QED
  <2>1. CASE Request \/ Answer \/ Record \/ Fail \/ UNCHANGED vars
    BY <1>3, <2>1
       DEF Request, Answer, Record, Fail, AfterFailure, vars, attempt, TInv, Attempts
  <2>2. CASE \E m \in Manifests : ApproveManifest(m)
    BY <2>2 DEF ApproveManifest, Change
  <2>3. CASE \E t \in Targets, as \in SUBSET Addresses : DnsChanges(t, as)
    BY <2>3 DEF DnsChanges, Change
  <2>4. CASE \E r \in Roles, h \in HeaderKinds : SecretsChange(r, h)
    BY <2>4 DEF SecretsChange, Change
  <2>5. CASE \E steps \in BoundedSeq(Steps, MaxSteps) : Plan(steps)
    BY <1>1, <2>5
  <2>6. QED
    BY <1>2, <2>1, <2>2, <2>3, <2>4, <2>5 DEF Next

(* What compile_plan calls automatic is not refused at its run while nothing *)
(* has changed: the step compiles under the manifest that is loaded, and the *)
(* requests sent so far are fewer than the steps, which are no more than the *)
(* requests that the budget was compared with.                               *)
THEOREM AutomaticPlansRun == Spec => []PlanIsPermitted
<1>1. Init => Compiled
  BY DEF Init, Compiled
<1>2. TInv /\ Compiled => PlanIsPermitted
  <2> SUFFICES ASSUME TInv, Compiled, pc = "running", step <= Len(plan), fresh,
                      loaded.resolve, HeadersPass(loaded, plan[step])
               PROVE  Permitted(loaded, plan[step])
    BY DEF PlanIsPermitted
  <2> DEFINE s == plan[step]
  <2>1. step \in DOMAIN plan /\ loaded \in Manifests /\ s \in StepType
    BY VerificationAssumption DEF TInv, TypeOK
  <2>2. Automatic(loaded, plan)
    BY DEF Compiled, TInv, Attempts
  <2>3. StepCompiles(loaded, s)
    BY <2>1, <2>2 DEF Automatic
  <2>4. s.primitive # "manual_required"
    BY <2>1, <2>3, VerificationAssumption DEF StepCompiles, Primitives
  <2>5. Authorized(loaded, s.target, s.primitive, TRUE)
    BY <2>3 DEF StepCompiles, Authorized
  <2>6. /\ EffectiveRole(loaded, s) \in loaded.roles \union {NoRole}
        /\ s.role # NoRole => loaded.authenticated
    <3>1. loaded.default \in loaded.roles \union {NoRole}
      BY <2>1, VerificationAssumption
    <3>2. QED
      BY <2>3, <3>1 DEF StepCompiles, EffectiveRole
  <2>7. WithinBudget(loaded, request_count)
    <3>1. request_count = step - 1 /\ step \in Nat /\ Len(plan) \in Nat /\ step <= Len(plan)
      BY <2>1 DEF TInv, TypeOK, Progress
    <3>2. TotalRequests(plan) \in Nat /\ Len(plan) <= TotalRequests(plan)
      BY PlanWithinRequests DEF TInv, TypeOK
    <3>3. TotalRequests(plan) <= loaded.budget /\ loaded.budget \in 1 .. 20
      BY <2>1, <2>2, BudgetType DEF Automatic
    <3>4. request_count + 1 <= loaded.budget
      <4>1. \A st, l, t, b \in Nat : st <= l /\ l <= t /\ t <= b => (st - 1) + 1 <= b
        OBVIOUS
      <4>2. step \in Nat /\ Len(plan) \in Nat /\ TotalRequests(plan) \in Nat /\ loaded.budget \in Nat
        BY <3>1, <3>2, <3>3
      <4>3. (step - 1) + 1 <= loaded.budget
        BY <3>1, <3>2, <3>3, <4>1, <4>2
      <4>4. QED
        BY <3>1, <4>3
    <3>5. QED
      BY <3>4 DEF WithinBudget
  <2>8. QED
    BY <2>4, <2>5, <2>6, <2>7 DEF Permitted
<1>3. QED
  BY <1>1, <1>2, TInvInit, TInvNext, CompiledNext, PTL DEF Spec

-----------------------------------------------------------------------------
(* One step seen from outside: the job is planned, an attempt takes it, gives *)
(* it back or settles it, and everything else leaves it alone.               *)
LEMMA StepMoves ==
  ASSUME TInv, [Next]_vars
  PROVE  \/ Phase = "unborn" /\ Phase' = "waiting" /\ attempts' = attempts
         \/ Phase = "waiting" /\ Phase' = "held" /\ attempts' = attempts + 1
         \/ Phase = "held" /\ Phase' = "waiting" /\ attempts' = attempts
         \/ Phase = "held" /\ Phase' = "completed" /\ attempts' = attempts
         \/ /\ Phase = "held" /\ Phase' = "failed" /\ attempts' = attempts
            /\ attempts >= MaxAttempts
         \/ Phase' = Phase /\ attempts' = attempts
<1> USE Constants DEF TInv, TypeOK, Attempts, attempt, Phase
<1>1. ASSUME NEW steps, Plan(steps)
      PROVE  /\ Phase = "unborn" /\ Phase' \in {"unborn", "waiting"}
             /\ attempts' = attempts
  BY <1>1 DEF Plan
<1>2. CASE StartAttempt
  BY <1>2 DEF StartAttempt
<1>3. CASE Request \/ Answer
  BY <1>3 DEF Request, Answer
<1>4. CASE Record
  BY <1>4 DEF Record
<1>5. CASE Fail
  BY <1>5 DEF Fail, AfterFailure
<1>6. CASE UNCHANGED <<job, pc, attempts>>
  BY <1>6
<1>7. QED
  BY <1>1, <1>2, <1>3, <1>4, <1>5, <1>6
     DEF Next, vars, ApproveManifest, DnsChanges, SecretsChange

(* The model of a verification takes no more from the queue than the queue   *)
(* promises: it implements the life of a job.                                *)
THEOREM VerificationImplementsLifecycle == Spec => LifecycleSpec
<1> DEFINE phase == [j \in VerifyJob |-> Phase]
           starts == [j \in VerifyJob |-> attempts]
<1>1. Init => Lifecycle!Init
  BY DEF Init, Lifecycle!Init, Phase
<1>2. ASSUME TInv, [Next]_vars PROVE [Lifecycle!Next]_<<phase, starts>>
  <2>1. ASSUME NEW j \in VerifyJob
        PROVE  \/ Lifecycle!Submit(j) \/ Lifecycle!Take(j) \/ Lifecycle!Release(j)
               \/ Lifecycle!Same(j)
               \/ \E outcome \in {"completed", "failed"} : Lifecycle!Settle(j, outcome)
    <3>1. /\ phase[j] = Phase /\ phase'[j] = Phase'
          /\ starts[j] = attempts /\ starts'[j] = attempts'
          /\ [i \in VerifyJob |-> MaxAttempts][j] = MaxAttempts
      OBVIOUS
    <3> HIDE DEF phase, starts
    <3>2. QED
      BY <1>2, <3>1, StepMoves
         DEF phase, starts, Lifecycle!Submit, Lifecycle!Take, Lifecycle!Release,
             Lifecycle!Settle, Lifecycle!Same, Lifecycle!Move
  <2>2. QED
    BY <2>1 DEF Lifecycle!Next
<1>3. QED
  BY <1>1, <1>2, TInvInit, TInvNext, PTL DEF Spec, LifecycleSpec, Lifecycle!Spec
=============================================================================
