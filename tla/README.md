# A formal model of the bug bounty automation pipeline

The program in `src/bbpipeline` collects permitted reconnaissance, decides which
observations are worth a question to a language model, lets a deterministic
verifier make a few approved requests, and leaves every consequential decision to
a person. What makes it correct is mostly *when* things may happen: who may write
a row that somebody else loaded earlier, what a crash leaves behind, which gate
was looked at before a job started. Next to that there are a few algorithms on
which everything rests: what a scope rule matches, how a platform's list becomes a
manifest, how a packet is cut. This directory holds TLA+ modules of both, TLC
instances of them, and TLAPS proofs of every safety property that holds of them.

## 1. The system

### Processes and shared state

| Process | Code | What it does |
|---|---|---|
| API | `api.py` | FastAPI; each request is one database session; several at a time |
| scheduler | `scheduler.py` | a tick every 30 s: syncs programs, queues retention, platform and scan jobs |
| scan worker | `workers.py` | claims from queue `scan`: scanners, `verify_http`, retention, platform sync, Discord |
| codex / claude worker | `workers.py` | claim from `llm-codex` / `llm-claude`: planner and critic |
| Postgres | `db.py`, `models.py` | the only communication between them |
| evidence volume | `evidence.py` | files next to their rows, outside every transaction |
| configuration tree | `manifest.py`, `platform_sources.py` | manifests and source configurations, edited by the operator |

`compose.yml` runs one process of each kind with a fixed `BB_WORKER_ID` and
`restart: unless-stopped`. They interact through rows only: a job is a row, and
so are a finding, an event, a program, a platform source, a schedule.

Three facts of the database layer shape every model here:

1. A session runs in READ COMMITTED. It loads a row without locking it (only the
   queue's claim uses `FOR UPDATE SKIP LOCKED`), computes, and writes later.
2. SQLAlchemy's `UPDATE` names only the columns whose value differs from the one
   the session loaded, and checks no version. A late write therefore lands,
   column by column, on whatever the row has become. `Flush`, `Written` and
   `FlushProgram` are this write.
3. `session.get` returns the object the session already has. A handler that
   loaded a row before a slow call goes on with that row after it.

So the unit of a step is a transaction, or the half of one that ends in an
unlocked read.

### Components

| Component | State | Operations | What makes it correct |
|---|---|---|---|
| job queue (`queue.py`) | jobs table | enqueue, requeue_expired, claim, complete, fail, cancel | an attempt is run by one worker, a job retried while it has attempts, failed only with an alert, and settled in the end; starts beyond the limit are explained by lost runs |
| worker loop (`workers.py`) | place in the loop, job id | claim, re-read, process, failure handler | a worker that lost its lease must not act on the job as if it had it |
| finding workflow (`workflow.py`, `api.py`) | findings, verifications, critiques | plan, record, criticise, validate, reject, submit | nothing is submitted that no person validated; nothing is validated unreviewed; nothing gets stuck |
| evidence store (`evidence.py`) | rows and files | write, hold, release, purge | the row tells the truth about the file |
| programs (`programs.py`) | programs | sync_programs, require_active_program | only what a person approved runs |
| platform sync (`platform_sync.py`, `platform_sources.py`) | platform sources, snapshots | fetch, pause, alert | changed scope or a refused credential pauses the program; it comes back by itself |
| event ingest (`events.py`, `scoring.py`) | events | redact, compare, score, queue | unchanged recon costs no model call; no change of value is stored unasked; what is valuable is asked about once |
| packets (`packets.py`) | none kept | cut to the context ceiling | guidance goes before the observation; what cannot be cut is refused |
| scheduler (`scheduler.py`) | schedule rows | tick | every occurrence once, no storm after an outage |
| plan compiler, verifier (`plans.py`, `verifier.py`) | none kept | compile, request | no request beyond the manifest in force when it is made |
| scope rules, manifests (`scope.py`, `manifest.py`) | none kept | match, authorize, validate | a manifest that loads can do what it schedules |
| platform adapters (`platform_sources.py`) | snapshots | normalize, build a candidate, export | no exclusion is lost and nothing is included that nobody listed |
| scanner adapters (`adapters/bbot.py`, `adapters/nuclei.py`) | none kept | seeds, expansion, start | what a scanner reaches is in scope |
| skills, redaction, other adapters, notifications | none kept | pure functions and external programs | see section 7 |

### What is hard

*Interleaving of unlocked reads and late writes* (all of the above), *a lease that
runs out under a live run*, *crashes between a file operation and its commit*,
*dedupe keys that outlive what they were about* (critic and planner jobs),
*rules evaluated twice in different code* (compiler and verifier, validator and
seeds, rule matching and BBOT's recursion), *gates evaluated at a preflight and
relied upon later*, *merges of two lists under a key* (candidates), and
*boundaries* (attempt limits, request budget, score clamp, context ceiling, jitter
against the next occurrence). PROJECT.json
lists each at its line under `hazards`, with the properties aimed at it; a hazard
without a property says why.

## 2. The modules

Each `MC*.tla` only gives values to constants; several `.cfg` files may use one.

**JobQueue** is the jobs table, every worker's loop and the cancel endpoint.
A row is the functions `status`, `attempts`, `lease_owner`, `lease`, `due`; a
worker is `pc`, `wjob`, `seen`. `Claim` and `Poll` are `claim` with its leading
`requeue_expired` (one step, because of the row lock); `Begin` is the second
transaction's re-read; `Finish`, `Raise`, `FailRead`, `FailCommit` are the rest of
an iteration; `Crash` is a process that dies anywhere; `CancelRead` and
`CancelCommit` the two halves of the endpoint. Time is what the queries see of it:
a lease is `live` or `expired`, `run_after` has passed or not. Jobs are numbered
in the order of `created_at`. Not modelled: the `KEY SHARE` lock that a foreign
key to the job takes while the body runs. It would only rule out some of the
interleavings the model has.

**JobLifecycle** is what the queue promises of a job with workers, leases and
columns forgotten: it waits, is held, settles once and for good, and fails only
after its attempts. `JobQueue` implements it for the jobs that one worker serves and
nobody may cancel (`LifecycleSpec`, the jobs `Single`), whatever happens to the others.
With a second worker on the queue of a job it does not: a run that lost its lease may
still report, which is why the fencing property speaks about attempts and not about
jobs.

**JobQueueProofs** holds the theorems about the queue, the refinement included.
Each further component has its theorems in `<module>Proofs` (section 5);
PlatformScopeProofs also holds those about ScopeRules and Scanners, and
EventIngestProofs those about Packets.

**FindingWorkflow** is one finding, since findings share no state: the planner's
answer creates it, the scan worker's verification and the LLM worker's critique
write on the row they loaded before their slow call (`vseen`, `cseen`), API
requests on the one they loaded for their guard (`rseen`). Verifications are
numbered, and a critique carries the number its packet was about. Whether the program
uses a model is read from the manifest by each session when it starts (`vllm`, `rllm`),
and a re-approval may switch it (`SwitchLlm`). A finding verified while it was off gets
no critique when it is turned on: it must be verified again, or validated as it is, and
the properties are about the findings verified with the LLM on.

**HumanGate** is what the workflow promises a person, with rows, jobs and requests
forgotten: four truth values (reviewed, accepted, submitted, accepted at least once) and
a step for each change. `FindingWorkflow` implements it (`GateSpec`) although every row is
written late, because a flush writes only the columns it changed: with whole rows
written back, a stale session would take a submission or a review away.

**EvidenceStore** has rows and files apart: `write_bytes` is insert, temporary
file, `os.replace`, and the caller's commit, with rollback and death in between.
`relative_path` is unique and every insert starts with the same placeholder, so
two open inserts exclude each other. `purge_expired` selects once, unlinks row by
row and commits at the end.

**ArtifactLifecycle** is what the store promises of an artifact with rows, files and
jobs forgotten: none, readable, due, removed, deleted, in that order and never back.
`EvidenceStore` implements it (`ArtifactSpec`); a row whose columns and file disagree
maps to `broken`, which is no state there. It promises nothing about holds, since a
hold placed during a purge does not keep the file (`evidence_hold`).

**PlatformGate** composes the program row, the source row, the configuration tree
and the platform: `Load` and `TickCommit` are `sync_programs` in the scheduler and
the API, `Load`, `Start`, `Finish`, `RollBack` the same as a worker's preflight
inside its job's transaction, `PlatformLoad`, `PlatformFetch` and `PlatformCommit`
`sync_platform_source`, in the `platform_sync` job and in the operator's `platform-sync`
command (`Manual`), which runs in a session of its own beside the job (cli.py:246).
`file` stands for what `load_manifests` makes of all files of one program, `SourceOf`
for the revision a content is bound to. Loading rows, reading files and computing is one
step; a column and its JSON document move
together; a source configuration that is absent or does not match is `disabled`.
What a syncer does between its first flush after the answer and its commit is one step,
because `last_checked_at` is always written and the row lock makes syncers take turns
there. The command without a source takes all sources in one transaction, one after the
other; of that only the part about this source is modelled. A tick that computes what the
rows hold already writes nothing (`QuietTick`).

**EventIngest** is one fingerprint observed again and again, its planner jobs by
payload, and the answer that becomes a finding. A scan result is one observation
per transaction; the LLM switch and the trigger are constant. The packet of a job
holds the payload, so it is part of the job. Every scan adds evidence ids to the row
(`scans`), the job's packet lists those of its time (`listed`), and a packet that
cannot be cut fails the scan job (`Refused`).

**Packets** is `_fit_packet`: a packet is the sizes of its parts in the order in which
they are given up. `Popped` shortens the cards and then the references from the end,
`Replaced` replaces parts one after the other; both are the code's loops, as recursive
functions. `Cuttings` is every other way the packet could have been cut.

**ScopeRules** has the five kinds of rules and of targets with `rule_matches` (case by
case in `Matches`), `authorize_target` for GET, and the validators of a manifest that
relate its fields. A host is the sequence of its labels from the top level down, a
path that of its segments, an address an IP version and a number, a network its version,
a base and the width of its host part, so that subdomain, prefix and subnet are what they
are in the code and no text is parsed. Two things the code does with version 6 are
modelled as they are: `authorize_target` takes the first group of an address for a
hostname and resolves that (`FirstGroup`; an address that begins with `::` has none and
passes unresolved, `Hostless`), and comparing networks of two versions raises `TypeError`
(`Mixed`).

**Scanners** is what `run_bbot` and `run_nuclei` are started on: seeds of a job that
names no target, networks expanded to addresses, and BBOT's recursion.

**PlatformScope** lets a platform's list, the manifest in force, the candidate built of
both, its exported copy and a person's edits follow one another: `Sync`, `Export`,
`Install`, `Edit`, `PlatformChange`. Rules with one key replace each other in an order
the code takes from the platform's answer; `Picks` is any outcome of that. When jobs
may start on the result is PlatformGate's subject.

**Scheduler** is one program and one kind of scan. A cron expression is the set of
times it occurs at, the hash that spreads slots an arbitrary function of the
occurrence. `TickBegin` reads, `TickCommit` writes rows and jobs together,
`TickLost` rolls both back. The gitleaks fan-out to repositories is one scan.

**Verification** follows a plan from `compile_plan` to the recorded verification.
A target is an absolute URL, and a manifest the sets of targets and addresses its
rules stand for, so that the order of the decisions is modelled and pattern
matching is not. `Automatic` is the compiler's decision, `Permitted` the
verifier's for one step under the manifest the attempt loaded. Of the queue it uses
only what JobLifecycle promises (`LifecycleSpec`, with this one job as `Jobs`), which is
where it meets JobQueue: both implement the same abstract job.

PROJECT.json `map` gives the lines behind each definition. Definitions whose name
has a suffix (`FailStatus_OneShort`, `StillMine_AnyOwner`, ...) are not part of any
specification: they are variants a bug could produce, and each property is
violated when one of them replaces the definition it is named after.

## 3. The runs

Run a configuration with `tlc -config <cfg> <module>`.

| Run | Instance | Shows |
|---|---|---|
| `queue` | one scan worker with two jobs (2 and 1 attempts, different priorities), two LLM workers with different ids on a third, a cancel request for that one, 1 fault; the LLM workers may stop for ever | leases coherent, failures exhausted, starts beyond the limit paid for by faults, an attempt processed by one worker, only a failure handler undoes a cancellation; every scan job settles, and lives as JobLifecycle says |
| `finding_review` | two overlapping requests, both workers, 2 verifications, 1 lost attempt, LLM on or off and switched once | submission after validation, validation after review, what is closed opens only by late work or a person, critique comes; the workflow implements HumanGate |
| `finding_fresh` | one request, 2 verifications | **violated**: accepted on the critique of an earlier verification |
| `evidence_volume` | two artifacts, two writers, two retention jobs, one hold request, 2 faults | live rows have their file; the store implements ArtifactLifecycle; what is left unheld is deleted |
| `evidence_hold` | one of each, no faults | **violated**: a hold during a purge does not keep the file |
| `gate` | a bound and an unbound manifest, two revisions, scheduler, an API session on demand, a worker, the platform job and the operator's command beside it, 2 changes | jobs start on reviewed scope and, unless a sync was overtaken, on the revision last seen; failures announced with the same exception; pauses hold; the program recovers |
| `gate_rejected` | the same with one manifest and the platform job alone | **violated**: a job starts after a refused credential was committed |
| `triage` | two payloads (two raw reports redact to one), values 50, 60, 95 around the trigger of 65, a packet that always fits and one refused at the third scan, one scan worker | no job for unchanged results, no change without its question, packets fit and keep the observation, one finding per payload, honest status, every valuable payload answered |
| `scope` | six platform lists with every kind of rule and both IP versions, two drafts, three local exclusions, two switch settings, 2 changes, 27 probe targets | exclusions survive but for one of two URLs with one key, only URLs with a star widen, BBOT stays in scope and Nuclei honours nested exclusions, schedules have seeds |
| `scope_widen` | the same, 1 change | **violated**: a candidate authorizes a port that the platform does not list |
| `scheduler` | a regular expression and an irregular one with two gaps too small for jitter and poll, three hashes, horizon 24, 2 edits or outages | no occurrence with room before it passed over, one catch-up, a resumed schedule waits |
| `verification` | four manifests, four steps, plans of up to two, two attempts, 2 changes | compiler and verifier agree; budget and header rules hold; a record answers its whole plan; the job lives as JobLifecycle says |

### Bounds, and why they are enough

- *Faults* (crashes, overrun leases, lost attempts) are counted because an
  unbounded number would starve every liveness property. One is enough for a lost
  lease with its late writer, and for a start beyond the limit; a crash during the
  recovery of a crash takes two, which the evidence run has, and the theorems about the
  queue hold for any number.
- *Jobs and workers*: the queue's interactions are of two workers on one job (a
  late writer and the new owner), of one worker and a cancel, and of two jobs by
  priority in one claim. `AttemptTable` has a job that is retried and one that
  fails at once; job 2 is an alert, so the path without an alert occurs too.
  `TypeOK` is proved for every module that has a state, as part of each inductive
  invariant, so no run spends its time on it.
- *Findings*: a late writer and two requests need two requests and two workers;
  two verifications allow verify, criticise and verify again, or two in flight at once;
  one switch of the LLM lets the two be recorded under different manifests.
- *Evidence*: two artifacts so that one unlink can fail while another works.
- *Gate*: two changes are, for instance, an edit and a platform change, or a
  refused credential and its repair. A sync that a person asks for (`OnDemand`:
  the API, its startup, the CLI) counts as a change, and so does the command that syncs
  the platform; with the platform's own change that is one overtaken sync. `SourceOf`
  needs a bound and an unbound manifest. The bound also limits a dying platform sync and
  passing staleness.
- *Triage*: 60 reaches the trigger only through the bonus for new or changed,
  95 always, 50 never; two payloads allow change and return. Sizes are in units of
  some hundred bytes: one packet loses guidance only, the other is cut further with
  every scan and refused at the third, which is also where the row stops counting.
- *Scope*: hosts up to two levels below a domain distinguish apex, wildcard and what
  is below an excluded name; eight addresses of each IP version in nested networks of
  several widths; two words that differ by case only, and a list that excludes a URL in
  both spellings. Two changes are an edit and a platform change in either order. The
  probes are four hosts, both URLs of two hosts with and without port and with three
  paths, four networks, three addresses of version 4 and an excluded one of version 6, two
  repositories and a bucket.
- *Scheduler*: with jitter 3 and a poll of 2, gaps of 3 and 4 leave no room for both and
  are lost when the jitter is large, those of 5 to 13 leave it; `Roomy` asks it of each
  occurrence by itself, so one after a small gap is not excused for it. A day is 12
  and a platform slot 8, so both turn over inside the horizon.
- *Verification*: the manifests differ from the first by exactly what a
  re-approval can take away; two changes allow one before and one during the run.

### What was found

1. `finding_fresh`: the critic job's dedupe key has no verification in it, so a
   second verification queues no second critic, and `validate` (api.py:519) asks
   only for some critique. OPERATIONS.md:63 asks for "the fresh critic".
2. `evidence_hold`: `purge_expired` looks at `hold` once, before it starts to
   unlink (evidence.py:121). OPERATIONS.md:81 says held evidence is not deleted.
3. `gate_rejected`: `sync_programs` writes the source status it computed from an
   earlier load (programs.py:81) over a rejection that a platform sync committed
   meanwhile. PLATFORM-SCOPE-SYNC.md:73 says such a credential pauses immediately.
   `StartsOnKnownScope` and `PausesHold` show what holds nevertheless.
4. `scope_widen`: a URL with a star before its host becomes a domain rule, without its
   scheme and port (platform_sources.py:541), so a candidate built for
   `https://*.example.com:8443` authorizes every port of the policy.
   FINAL-PIPELINE-PLAN.md:277 says "The compiler may only narrow a platform policy, never
   broaden it" and that extra ports are added after review. `OnlyWildcardUrlsWiden` shows
   that nothing else widens, and only on the hosts named.

`requeue_expired` does not compare `attempts` with `max_attempts` (queue.py:54-66), so
a run that kills its worker is repeated without limit, although OPERATIONS.md:101 says
jobs retry "up to their configured attempt limit". `StartsArePaidFor` is the exact
bound that does hold: one start beyond the limit per crash or overrun lease.

Two more deviations are exceptions of properties and have no run of their own:

- A platform sync that another has overtaken does not write a revision equal to the one
  it loaded (platform_sync.py:188; the other is the operator's `platform-sync`,
  cli.py:246-249). The job loads revision 1 and fetches it, the command commits 2, the job
  commits: the platform last showed 1 and the row says 2, so a manifest bound to 2
  starts. PLATFORM-SCOPE-SYNC.md:65-66 asks for "approved manifest revision == latest
  remote revision", and line 71 says that a change pauses at once. In the same way a
  failure may find the key of its alert used. `known.alone` is the condition that this
  did not happen since the last fetch; `PausesHold` and `ProgramRecovers` need it not.
- Of two excluded URLs that differ only by the case of the path, which have one key, one
  is lost in a candidate (platform_sources.py:585). As far as an include covers the lost
  URL, this too broadens a policy that FINAL-PIPELINE-PLAN.md:277 says is only narrowed.
  `ExclusionsSurvive` has exactly this exception (`GaveWay`), and the run has such a list.

Behaviour that surprised but contradicts no document; most of it is in the notes of
the hazards, and the properties name it as their exception:

- a planner job found again by its key leaves an event `llm_queued` for ever;
- evidence ids in a packet grow with every scan and are never cut, so after enough
  scans a packet is refused and with it the scan's whole result, at every retry;
- a critic or verification that ends late shows a closed finding as open;
- rolled back jobs leave files without a row;
- with the default 300 s of jitter and 30 s of poll, expressions finer than about six
  minutes lose occurrences;
- a network of version 6 is never scanned by Nuclei unless the first group of its
  addresses resolves as a hostname to addresses that pass (scope.py:138-139), one that
  begins with `::` passes without a look at its addresses, and an excluded network of the
  other version ends the job with a `TypeError` (scope.py:64);
- a person's removal of an include is undone by the next candidate, which takes the
  platform's includes;
- one target that is denied fails the whole BBOT or Nuclei job.

## 4. Fairness

- *Queue*: weak fairness of time (`BecomeDue`, `LeaseLapses`) and of the loop of
  the workers in `Online`, for `worker_loop` polls for ever and compose restarts
  it. The codex worker has none: the documents promise that scanning goes on
  without the LLM workers, and `JobsSettle` is stated for served queues only. A
  claim of one particular job is *not* fair; that it comes follows from priority
  and the finite number of jobs.
- *Findings*: the workers take their jobs; nobody has to send a request.
- *Evidence*: rows expire, transactions end, and the retention job runs daily.
- *Gate*: the scheduler ticks and queues the platform job for ever (`PlatformLoad` of
  the job). Syncs on demand and the operator's command need not happen and have no
  fairness, but a platform sync that has begun ends, for its requests have timeouts.
  Commits have strong fairness because a waiting `UPDATE` queues for its row lock, which
  worker transactions take and release again and again.
- *Triage*: the LLM worker is online; scan transactions end. `Answer` has strong
  fairness for the same lock. Scans themselves need not happen.
- *Scheduler*, *Verification* and *PlatformScope* state safety only.

## 5. The proofs

Every theorem is about the `Spec` of its module and holds for all values of the
constants that satisfy the module's assumptions, which TLC evaluates in every run.

| Module | Theorem | Statement |
|---|---|---|
| `JobQueueProofs` | `TypeCorrect` | `Spec => []TypeOK` |
| | `LeasesCoherent` | `Spec => []LeaseCoherent` |
| | `FailuresAreExhausted` | `Spec => []FailedIsExhausted` |
| | `FailuresAreAlerted` | `Spec => []FailedIsAlerted` |
| | `Fencing` | with distinct owner names, `Spec => []OneRunPerAttempt` |
| | `CancelUndone` | `Spec => CancelUndoneOnlyByFailure` |
| | `StartsBeyondArePaidFor` | `Spec => []StartsArePaidFor` |
| | `QueueImplementsLifecycle` | `Spec => LifecycleSpec`, about the jobs `Single` |
| `FindingWorkflowProofs` | `TypeCorrect` | `Spec => []TypeOK` |
| | `SubmissionsWereValidated` | `Spec => []SubmittedWasValidated` |
| | `ValidationsWereReviewed` | `Spec => []ValidatedWasReviewed` |
| | `VerifiedAreReviewable` | `Spec => []VerifiedIsReviewable` |
| | `QueuedStatusesHaveJobs` | `Spec => []QueuedStatusHasJob` |
| | `ClosingsLast` | `Spec => ClosedReopensLate` |
| | `WorkflowImplementsGate` | `Spec => GateSpec` |
| `EvidenceStoreProofs` | `TypeCorrect` | `Spec => []TypeOK` |
| | `LiveRowsHaveFiles` | `Spec => []LiveEvidenceHasFile` |
| | `DeletedRowsHaveNone` | `Spec => []DeletedHasNoFile` |
| | `StoreImplementsLifecycle` | `Spec => ArtifactSpec` |
| `PlatformGateProofs` | `TypeCorrect` | `Spec => []TypeOK` |
| | `ServedAreReviewed` | `Spec => []ServedWasReviewed` |
| | `StartsKnowTheirScope` | `Spec => StartsOnKnownScope` |
| | `FailuresAreAnnounced` | `Spec => []FailureIsAlerted` |
| | `SettledPausesStay` | `Spec => [][Shut /\ Settled => Settled']_vars` |
| `PlatformScopeProofs` | `TypeCorrect` | `Spec => []TypeOK` |
| | `ScheduledScansHaveSeeds` | `Spec => []SchedulesHaveSeeds` |
| | `ExclusionsAreKept` | `Spec => []ExclusionsSurvive` |
| | `OnlyWildcardsWiden` | `Spec => []OnlyWildcardUrlsWiden` |
| | `ReachesInScope` | `Spec => []ReachInScope` |
| | `NestedExclusionsAreKept` | `Spec => []NestedExclusionsHold` |
| `EventIngestProofs` | `TypeCorrect` | `Spec => []TypeOK` |
| | `EachPayloadIsFoundOnce` | `Spec => []OneFindingPerPayload` |
| | `ObservationsAreCutLast` | `Spec => []PacketsKeepTheObservation` |
| | `RoutineReconIsFree` | with one scan worker, `Spec => UnchangedQueuesNothing` |
| | `ChangesAreAsked` | with one scan worker, `Spec => ChangeIsAsked` |
| | `WaitingEventsAreQueued` | with one scan worker, `Spec => []WaitingIsHonest` |
| | `PacketsAreRefusedLast` | a packet that `Packs` refuses is too large however it is cut |
| | `NoGuidanceIsWasted` | one more card, or one more reference, and the fitted packet would be too large |
| `SchedulerProofs` | `TypeCorrect` | `Spec => []TypeOK` |
| | `CatchUpsAreSingle` | `Spec => CatchUpIsSingle` |
| | `ResumesWait` | `Spec => ResumeWaits` |
| | `SlotsAreKept` | `Spec => []NoSlotSkipped` |
| `VerificationProofs` | `TypeCorrect` | `Spec => []TypeOK` |
| | `AttemptsWithinBudget` | `Spec => []AttemptWithinBudget` |
| | `CookiesNeedLeave` | `Spec => []NoCookieWithoutLeave` |
| | `RecordsAreWhole` | `Spec => []RecordedIsWhole` |
| | `AutomaticPlansRun` | `Spec => []PlanIsPermitted` |
| | `VerificationImplementsLifecycle` | `Spec => LifecycleSpec` |

### The queue

From `JobsAssumption` (numbers are numbers, attempt limits at least 1) and
`WorkersAssumption` (finitely many workers, owners are not `NoOwner`), for any number
of jobs, workers, cancel requests and faults.

- `TInv` is `TypeOK` and `HasJob`: a worker that is not idle, and a request that
  has loaded, has a job. Without it the writes at `wjob[w]` have no type.
- `LeaseInv` adds to `LeaseCoherent` that a row not yet enqueued has no lease; the
  `Enqueue` step makes it pending without touching the lease columns.
- `FailInv` adds `SeenIsPast`: the attempts a failing worker has loaded are at
  most those of the row, because attempts only grow. So a failure decided on an
  old count is still true when it is committed.
- `FenceInv` adds `HoldsCurrent` to that: the worker named in the lease of a
  running row is the only one whose loaded attempt is the current one. Each claim
  raises the count, so whoever lost the lease keeps an older number. Two processes
  with one `BB_WORKER_ID` break it, hence the hypothesis `DistinctOwners`.
- `CancelUndone` goes through the actions once: the requeue and the claim look at
  the status, a late `Finish` writes `completed`, and only `FailCommit` is left.
- `PaidInv` counts, for each job, the workers that have it in hand (`On`), those of
  them about to put it back on an old count (`Late`), and whether a claim may take it
  now or once an abandoned lease lapses (`Free`). A worker that leaves frees the job
  at most once, so `On + Free <= 1 + faults` always; when a claim reaches the limit,
  this bounds `Late`, and from then on `attempts + Free + Late` grows with faults only.
  The bound is tight: one overrun lets a late handler and the new owner both put the
  job back.
- `QueueImplementsLifecycle` maps each step job by job (`Moved`): a claim releases
  every job whose lease ran out and takes one of them. It needs `FailInv` and
  `OwnInv`: the job a worker is busy with is of its queues and has not settled,
  since nobody else may settle it. This is known of the jobs in `Single` only, and
  both their conditions are necessary: a second worker on the queue may settle a job
  twice, a cancellation may be undone. The other jobs are left out of the mapping.

### Findings

From `BoundsAssumption` (finitely many requests, natural bounds).

- `Bounded` ties the numbering of verifications to its bound: those recorded, the
  one a queued verify job may bring and those requests are recording stay within it
  together, which takes the cardinality lemmas on `Recording`.
- `GateInv` carries `human_validated` back to the commit of a `validate`, also in
  every row a request has loaded, since that row is written back later.
- `ReviewInv` says that once a column has a verification or a critique, it keeps
  one: whatever an old row had, the present row still has. That makes the guard of
  `validate`, taken on an old row, true of the row it is committed on. `waived` and
  `asked` remember under which setting of the LLM a validate was let pass and a
  verification recorded; the setting itself may have changed since.
- `WaitInv` adds that the worker that has loaded a queued finding has seen it
  queued, so its write moves the status on.
- `ClosedInv` keeps the guard of a request true of the row it has loaded until it
  writes, and `submitted` true of the finding once any loaded row had it.
- `WorkflowImplementsGate` takes the actions with `GateInv` and `ReviewInv`: a stale
  `validate` meets a reviewed row, and one that changes no column is a stutter.

### Evidence

From `EvidenceAssumption`. `OpenRows` says who may still write where: an open
insert is uncommitted and belongs to one writer, whose file is present or under
way. `Visits` says that retention jobs only handle committed expired rows and that
what they have visited is gone. With both, the two properties are inductive, and they
are what the refinement needs: `StoreImplementsLifecycle` takes each action to the one
step of ArtifactLifecycle it may be (`CommitStores`, `PurgeMoves`, `PurgeMarks`) or to
none. That a second retention job unlinks or marks what the first has already done is
such a stutter, or a `Mark` of artifacts that are deleted.

### The gate

From `GateAssumption`.

- `SyncersInv`: the revision that a syncer has loaded is the one in the row until another
  syncer commits, and as long as no overtaken sync has committed since the last that was
  not, the revision last seen is the one in the row. Which syncer fetched first does not
  matter, and there may be any number.
- `ApprovalInv`: every approval in a row, a computed row or a file is empty or one
  a person has given, and an active program has a manifest. `Serves` compares the
  two columns, so it holds of a reviewed manifest or not at all, even when the
  flush of one sync writes some columns over those of another.
- `ScopeInv`: a preflight that found the gate open saw the revision it is bound to.
- `AlertInv`: a `sync_programs` session writes no status but `approved`, so a status that
  a syncer nobody has overtaken finds other than it loaded is that one, and no failure
  comes in unannounced.
- `Settled`: the row is paused and no session in flight is about to activate it. As long as
  the gate is shut no step ends this (`SettledPausesStay`), since a session that loads then
  computes a pause and a flush writes no column it did not change. This is the half of
  `PausesHold` that a single step could break; that a pause settles is the other.

### Scope

From `ScopeAssumption` and `PlatformScopeAssumption`. The invariant is little more than
types: a manifest in force, a candidate and a copy are accepted by the validators (and for two
theorems, that the candidate denies or includes what its `basis` says). The rest is about the operators, for rules and
targets of any size. `SchedulesHaveSeeds` follows from the validator rule by rule.
`ExclusionsSurvive` goes from a target that something excluded matches to the rule in
the candidate with its key, which is the same rule unless it is a URL.
`ReachInScope` rests on the transitivity of `Under`. `NestedExclusionsHold` computes
that a network's addresses lie in what includes it, with `2 ^ bits` kept abstract; which
addresses Nuclei takes is proved for both IP versions, that the job starts for version 4,
where an address is its own resolution.

### Events

From `IngestAssumption`. `TInv` adds to the types what the transactions know: what an
open one has written is what `Ingested` makes of what it loaded. A payload with a
finding has a job that is not queued any more, and only a queued job is asked about,
whence `OneFindingPerPayload`.

Packets are about loops, and these are recursive functions, each a `CHOOSE` of a
function that satisfies its recursion. `Iterates` shows that a step repeated up to a
bound defines such a function, by taking the least number it could fail at
(`LeastOf`, `UpTo`), since no induction theorem with an operator parameter can be
used. From it come `TotalUnfolds` (a sum is one of partial sums), `PoppedStops` (a loop
that pops ends at the largest number that fits, or at none) and `ReplacedStops` (one
that replaces ends at the smallest, or at all). Then a replacement happens only if the
packet without guidance does not fit; no guidance is given up that could have stayed
(`NoGuidanceIsWasted`); and when even the last replacement does not help, nothing does
(`PacketsAreRefusedLast`): the loop has then seen every number of replacements without
guidance, and guidance only adds (`GuidanceAdds`). The last is not obvious from the
code, because a replacement may make a packet larger.

The other three assume `OneScanner`, which is the deployment of compose.yml: then the
row a transaction loaded is still the row when it commits, but for the status
(`Same`): that the LLM worker may write meanwhile, but never to `llm_queued`. `Loaded`
then says that the LLM worker knows a payload it answers about to be waiting.

### The scheduler

From `SchedulerAssumption` and `OccursAssumption`: up to the horizon an expression
has a next occurrence and one after it. That is what croniter returns for a valid
expression, and what `Min` over occurrences needs to be defined. `NextRunLater`
shows that the jittered slot lies after the time it is counted from. `Clock` then
says that a tick's clock is the present, the row it loaded is the row it writes,
and the row's slot lies ahead of the last scan and of the row's set-up. `Covered`
says where the planned slot lies: no occurrence since the one it belongs to has been
left behind that has room for jitter and poll since the one before it (`SlotWithinGap`).

### Verification

From `VerificationAssumption`. `Progress` counts: a running attempt has sent one
request per step before the current one, within the budget it loaded. `Answers`
says what was sent matches the plan and was in scope of the loaded manifest;
`Attempts` that a queued idle job has an attempt left, and that a completed one
went through all steps.

`PlanIsPermitted` says that compiler and verifier, which decide the same questions in
different code, agree. Its invariant adds `Compiled`: while nothing has changed since the
plan was compiled (`fresh`), a job to run has an automatic plan, and an attempt under way
has loaded the manifest it was compiled for. The budgets are compared differently: the compiler sums
`max_requests`, the verifier counts requests. `PlanWithinRequests` closes the gap: each
step asks for at least one request, so every prefix of a plan has at most as many steps
as its requests (`SumUnfolds`, `PrefixSum`). `VerificationImplementsLifecycle` goes
through the actions once (`StepMoves`).

### Only model-checked

The counterexamples of section 3, and liveness (`PausesHold`, `JobsSettle`,
`VerifiedGetsCritique`, `UnheldIsDeleted`, `ProgramRecovers`, `ValuableIsAnswered`):
liveness under fairness and ENABLED are out of the prover's reach. What `2 ^ n` computes
is not proved either; the proofs use it as an unknown function.

## 6. Correspondence in detail

Abstractions that a reader of the code may stumble over:

- `Settle` writes status, owner and lease unconditionally: a row loaded as running
  differs from the written values in all three columns.
- `CancelCommit` of a row loaded as pending writes the status alone: both lease
  columns were NULL when loaded, and setting NULL again is no change.
- `FailCommit` leaves `due` alone for a failed job; `run_after` keeps its past value.
- `PlannedStatus` and `QueuesVerify` are separate because the code has two
  conditions (workflow.py:63-96); `QueuedStatusHasJob` is about their agreement.
- `Written` (EventIngest) writes `status` when it differs from the loaded one, and also
  when the payload changed and a planner was queued: the flush of the enqueue writes
  `changed`, and the second flush what it ends as. Without a job in between, `changed`
  assigned over `changed` is no change.
- `Conflicts` (PlatformGate): two sessions inserting the same program; the second
  violates the primary key, and its tick is lost.
- `SyncedProgram` on a clash pauses after applying the loaded file, as the final
  sweep over programs does.
- A plan without steps is automatic and is recorded with no request made; neither
  schema nor documents ask for a step.
- `PlatformScope` has no order of rules: the code's lists matter only through which of
  two rules with one key survives (`Picks`).
- `Edit` and `Install` require `Accepted`: a file that does not validate changes nothing
  in the row.
- `NormalizeOne` drops what it has no rule for; what is out of scope and dropped makes the
  candidate start nothing (`Unsafe`).
- `EventIngest.scans` stops at `MaxScans`; so does the packet. In the code both go on.
- `Mixed` (ScopeRules): rules are tried in the order of the manifest, so an included
  network of the other version raises only if it comes before one that matches. The model
  takes the matching one to come first; for exclusions, which are all tried, any of the
  other version raises.
- `profile` in a policy says that the manifest has the hash and name of the Nuclei
  profile's file; `load_profile` refuses the job otherwise.
- A listed target has a category because `_normalize_one` looks at it: `owner/name` is a
  repository under code, a cloud identifier under cloud, and nothing otherwise.
- The critique's own evidence id (workflow.py:146) is number 0 in `evidence_ids`, so the
  column has the same late writes as in the code.
- The HTTP client resolves a name again after `authorize_target` has looked at its
  addresses; the library's connection is outside the model.

## 7. Not modelled

- API: authentication, listings, metrics and packet previews only read.
- Platform adapters: the formats of the four platforms, pagination beyond the kinds of
  answers a fetch ends with, discovery of programs, and hashes.
- Manifests: validators of single fields; the texts that rules are parsed from.
- HTTP verifier: pacing, body excerpts, redaction of results.
- Redaction and skills: functions over text. EventIngest takes `redact` as an arbitrary
  function and a skill as its size, so nothing is said about what is removed.
- Adapters: gitleaks, GitHub, Shodan, Claude and Codex run external programs or calls
  whose results and failures are inputs here; parsers and command lines have no state.
- Discord delivery is a job body that may fail.
- Settings, CLI and health check: configuration, front ends of modelled operations, and
  a file age.
- Scripts, containers, dashboards, methodology: installation and data.

PROJECT.json gives the reason for each component.

## 8. Plan

Done, each with its proofs: JobQueue and JobLifecycle, FindingWorkflow and HumanGate, EvidenceStore and ArtifactLifecycle,
PlatformGate, EventIngest with Packets, Scheduler, Verification, PlatformScope with
ScopeRules and Scanners. What is left, in order of importance:

1. A composed pipeline: the queue's lease rules together with a finding's jobs, so that
   the lost attempts of FindingWorkflow are those of JobQueue. Verification has its half
   of it: it implements the abstract job that JobQueue implements.
2. An abstract gate "pause within one sync" implemented by PlatformGate.
3. Pure algorithms against a reference definition over bounded inputs: redaction of
   nested structures, pagination of platform answers.
4. Verification on the rules of ScopeRules instead of sets of targets.
