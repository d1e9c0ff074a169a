---------------------------- MODULE Verification ----------------------------
(***************************************************************************)
(* From the planner's hypothesis to the recorded verification: the plan is *)
(* compiled against the manifest of that moment (bbpipeline/plans.py), and *)
(* run later, one step at a time, by a job that asks for each step's       *)
(* authorization again (verifier.py, scope.py), under the manifest its     *)
(* attempt has loaded, with the addresses and the secret headers of the    *)
(* moment.  A target is an absolute URL; a manifest is seen as the sets of *)
(* targets and addresses its rules stand for.                              *)
(***************************************************************************)
EXTENDS Naturals, Sequences, FiniteSets, SequencesExt

CONSTANTS Manifests,   \* approved manifests, as records
          Targets, Addresses, Global,   \* Global: addresses that are globally routable
          Steps,       \* what a model may propose
          MaxSteps,
          Roles, NoRole,
          MaxAttempts, \* of the verify_http job
          MaxChanges   \* bound on changes of manifest, DNS and secrets

Methods == {"GET", "HEAD", "OPTIONS"}
Primitives == {"http_get", "http_head", "http_options"}
StepType == [primitive : Primitives \union {"manual_required"}, target : Targets,
             role : Roles \union {NoRole}, max_requests : 1 .. 20]

ASSUME VerificationAssumption ==
  /\ Global \subseteq Addresses /\ NoRole \notin Roles /\ Steps \subseteq StepType
  /\ MaxSteps \in Nat /\ MaxAttempts \in Nat \ {0} /\ MaxChanges \in Nat
  /\ \A m \in Manifests :
       /\ m.methods \subseteq Methods /\ m.primitives \subseteq Primitives
       /\ m.included \subseteq Targets     \* some include rule matches
       /\ m.excluded \subseteq Targets     \* some exclude rule matches
       /\ m.shaped \subseteq Targets       \* scheme, port and path pass
       /\ m.named \subseteq Addresses      \* in an included network
       /\ m.barred \subseteq Addresses     \* in an excluded network
       /\ {m.private, m.resolve, m.authenticated, m.auto_http, m.header} \subseteq BOOLEAN
       /\ m.roles \subseteq Roles /\ m.default \in m.roles \union {NoRole}
       /\ m.budget \in 1 .. 20

(* What researcher_headers.json holds for a role: nothing, the required      *)
(* header, that and a cookie, or something that may not be sent.             *)
HeaderKinds == {"none", "required", "cookie", "invalid"}

VARIABLES
  manifest,    \* the approved manifest in force
  dns,         \* target -> addresses of its host; {} is a failed resolution
  secrets,     \* role -> headers
  plan,        \* steps of the finding's compiled plan
  job,         \* the verify_http job
  attempts,
  pc, loaded, step,   \* attempt: place, the manifest it loaded, the next step
  request_count, results,
  sent,        \* history: headers and target of this attempt's requests
  fresh,       \* history: nothing has changed since the plan was compiled
  changes

vars == <<manifest, dns, secrets, plan, job, attempts, pc, loaded, step,
          request_count, results, sent, fresh, changes>>
attempt == <<pc, loaded, step, request_count, results, sent>>

TypeOK ==
  /\ manifest \in Manifests /\ loaded \in Manifests
  /\ dns \in [Targets -> SUBSET Addresses] /\ secrets \in [Roles -> HeaderKinds]
  /\ plan \in Seq(Steps) /\ Len(plan) <= MaxSteps
  /\ job \in {"absent", "manual", "queued", "completed", "failed"}
  /\ attempts \in 0 .. MaxAttempts /\ pc \in {"idle", "running", "waiting"}
  /\ step \in 1 .. MaxSteps + 1 /\ request_count \in 0 .. MaxSteps
  /\ results \in 0 .. MaxSteps
  /\ sent \in Seq([target : Targets, headers : HeaderKinds])
  /\ fresh \in BOOLEAN /\ changes \in 0 .. MaxChanges

Init ==
  /\ manifest \in Manifests /\ loaded = manifest
  /\ dns \in [Targets -> {{a} : a \in Addresses}]
  /\ secrets \in [Roles -> HeaderKinds \ {"invalid"}]
  /\ plan = <<>> /\ job = "absent" /\ attempts = 0 /\ pc = "idle" /\ step = 1
  /\ request_count = 0 /\ results = 0 /\ sent = <<>> /\ fresh = TRUE /\ changes = 0

-----------------------------------------------------------------------------
MethodOf(p) == CASE p = "http_get" -> "GET" [] p = "http_head" -> "HEAD"
                 [] p = "http_options" -> "OPTIONS"

(* authorize_target: exclusions win, and so do excluded addresses; a private *)
(* address must be allowed in general or be named by an included network.    *)
InScope(m, t) == t \in m.included \ m.excluded
AddressesPass(m, as) ==
  as # {} /\ as \intersect m.barred = {} /\ (m.private \/ as \ Global \subseteq m.named)
Authorized(m, t, p, resolve) ==
  /\ MethodOf(p) \in m.methods /\ InScope(m, t) /\ t \in m.shaped
  /\ resolve => AddressesPass(m, dns[t])

(* compile_plan; a plan without steps has nothing against it.                *)
StepCompiles(m, s) ==
  /\ s.primitive \in m.primitives
  /\ Authorized(m, s.target, s.primitive, m.resolve)
  /\ s.role # NoRole => s.role \in m.roles /\ m.authenticated
RequestsUpTo(steps) ==
  LET sum[n \in 0 .. Len(steps)] == IF n = 0 THEN 0 ELSE sum[n - 1] + steps[n].max_requests
  IN  sum
TotalRequests(steps) == RequestsUpTo(steps)[Len(steps)]
Automatic_EachStep(m, steps) ==
  /\ \A i \in DOMAIN steps : /\ StepCompiles(m, steps[i])
                             /\ steps[i].max_requests <= m.budget
  /\ m.auto_http
Automatic(m, steps) ==
  /\ \A i \in DOMAIN steps : StepCompiles(m, steps[i])
  /\ TotalRequests(steps) <= m.budget /\ m.auto_http

(* What verify_http_plan asks of a step before its request.                  *)
EffectiveRole(m, s) == IF s.role # NoRole THEN s.role ELSE m.default
HeadersOf(m, s) == IF EffectiveRole(m, s) = NoRole THEN "none" ELSE secrets[EffectiveRole(m, s)]
HeadersPass_StepRole(m, s) ==
  /\ HeadersOf(m, s) # "invalid"
  /\ m.header => HeadersOf(m, s) \in {"required", "cookie"}
HeadersPass(m, s) ==
  /\ HeadersOf(m, s) # "invalid"
  /\ HeadersOf(m, s) = "cookie" => m.authenticated
  /\ m.header => HeadersOf(m, s) \in {"required", "cookie"}
WithinBudget_Before(m, n) == n <= m.budget
WithinBudget(m, n) == n + 1 <= m.budget
Permitted(m, s) ==
  /\ s.primitive # "manual_required"
  /\ Authorized(m, s.target, s.primitive, TRUE)
  /\ EffectiveRole(m, s) \in m.roles \union {NoRole}
  /\ s.role # NoRole => m.authenticated
  /\ HeadersPass(m, s) /\ WithinBudget(m, request_count)

-----------------------------------------------------------------------------
(* The planner's answer; a plan that is not automatic waits for a person.    *)
Plan(steps) ==
  /\ job = "absent" /\ plan' = steps /\ fresh' = TRUE
  /\ job' = IF Automatic(manifest, steps) THEN "queued" ELSE "manual"
  /\ UNCHANGED <<manifest, dns, secrets, attempts, attempt, changes>>

Change == changes < MaxChanges /\ changes' = changes + 1 /\ fresh' = FALSE

ApproveManifest(m) ==
  /\ Change /\ m # manifest /\ manifest' = m
  /\ UNCHANGED <<dns, secrets, plan, job, attempts, attempt>>
DnsChanges(t, as) ==
  /\ Change /\ as # dns[t] /\ dns' = [dns EXCEPT ![t] = as]
  /\ UNCHANGED <<manifest, secrets, plan, job, attempts, attempt>>
SecretsChange(r, h) ==
  /\ Change /\ h # secrets[r] /\ secrets' = [secrets EXCEPT ![r] = h]
  /\ UNCHANGED <<manifest, dns, plan, job, attempts, attempt>>

-----------------------------------------------------------------------------
(* An attempt starts with the manifest of its preflight and from the first   *)
(* step, whatever an earlier attempt has sent.                               *)
FirstStep_Resumed == step
FirstStep == 1
StartAttempt ==
  /\ job = "queued" /\ pc = "idle" /\ pc' = "running" /\ attempts' = attempts + 1
  /\ loaded' = manifest /\ step' = FirstStep
  /\ request_count' = 0 /\ results' = 0 /\ sent' = <<>>
  /\ UNCHANGED <<manifest, dns, secrets, plan, job, fresh, changes>>

Request ==
  /\ pc = "running" /\ step <= Len(plan) /\ Permitted(loaded, plan[step])
  /\ pc' = "waiting" /\ request_count' = request_count + 1
  /\ sent' = Append(sent, [target |-> plan[step].target,
                           headers |-> HeadersOf(loaded, plan[step])])
  /\ UNCHANGED <<manifest, dns, secrets, plan, job, attempts, loaded, step, results,
                 fresh, changes>>

Answer ==
  /\ pc = "waiting" /\ pc' = "running"
  /\ step' = step + 1 /\ results' = results + 1
  /\ UNCHANGED <<manifest, dns, secrets, plan, job, attempts, loaded, request_count, sent,
                 fresh, changes>>

Record ==
  /\ pc = "running" /\ step > Len(plan) /\ pc' = "idle" /\ job' = "completed"
  /\ UNCHANGED <<manifest, dns, secrets, plan, attempts, loaded, step, request_count,
                 results, sent, fresh, changes>>

(* The attempt raises: the step is refused, or the request fails.  Nothing   *)
(* it has seen is kept, and the job is tried again while it has attempts.    *)
AfterFailure_OneShort == IF attempts + 1 < MaxAttempts THEN "queued" ELSE "failed"
AfterFailure == IF attempts < MaxAttempts THEN "queued" ELSE "failed"
Fail ==
  /\ \/ pc = "running" /\ step <= Len(plan) /\ ~Permitted(loaded, plan[step])
     \/ pc = "waiting"
  /\ pc' = "idle" /\ job' = AfterFailure
  /\ UNCHANGED <<manifest, dns, secrets, plan, attempts, loaded, step, request_count,
                 results, sent, fresh, changes>>

Next ==
  \/ \E steps \in BoundedSeq(Steps, MaxSteps) : Plan(steps)
  \/ \E m \in Manifests : ApproveManifest(m)
  \/ \E t \in Targets, as \in SUBSET Addresses : DnsChanges(t, as)
  \/ \E r \in Roles, h \in HeaderKinds : SecretsChange(r, h)
  \/ StartAttempt \/ Request \/ Answer \/ Record \/ Fail

Spec == Init /\ [][Next]_vars

-----------------------------------------------------------------------------
(* The two sides agree: what compile_plan calls automatic is not refused by  *)
(* the verifier while manifest, DNS and secrets stay as they were.  Only two *)
(* things are the verifier's own: addresses where the manifest does not      *)
(* resolve before a scan, and the secret headers, which the planner's side   *)
(* never sees.                                                               *)
PlanIsPermitted ==
  pc = "running" /\ step <= Len(plan) /\ fresh /\ loaded.resolve
    /\ HeadersPass(loaded, plan[step])
      => Permitted(loaded, plan[step])

(* "A small request budget": no attempt sends more than its manifest allows, *)
(* also when the plan was compiled under a larger budget.                    *)
AttemptWithinBudget == Len(sent) <= loaded.budget

(* A cookie or an authorization is never sent under a manifest without       *)
(* allow_authenticated: not by the role of a step, not by the default role,  *)
(* not when the secrets change between two steps.                            *)
NoCookieWithoutLeave ==
  \A i \in DOMAIN sent : sent[i].headers = "cookie" => loaded.authenticated

(* What is recorded answers every step of the plan, once, within one         *)
(* attempt under one manifest that still has every target in scope.          *)
RecordedIsWhole ==
  job = "completed" =>
    /\ [i \in DOMAIN sent |-> sent[i].target] = [i \in DOMAIN plan |-> plan[i].target]
    /\ results = Len(plan) /\ \A i \in DOMAIN sent : InScope(loaded, sent[i].target)

(* The verify job lives as the queue promises of a job (JobLifecycle, which  *)
(* JobQueue implements): a plan that waits for a person never gets one, what *)
(* is recorded stays recorded, no attempt is lost without being counted, and *)
(* the finding is given up only after the last.                              *)
VerifyJob == {"verify_http"}
Phase == CASE job \in {"absent", "manual"} -> "unborn"
           [] job = "queued" -> IF pc = "idle" THEN "waiting" ELSE "held"
           [] OTHER -> job
Lifecycle == INSTANCE JobLifecycle
               WITH Jobs <- VerifyJob, MaxAttempts <- [j \in VerifyJob |-> MaxAttempts],
                    phase <- [j \in VerifyJob |-> Phase],
                    starts <- [j \in VerifyJob |-> attempts]
LifecycleSpec == Lifecycle!Spec
=============================================================================
