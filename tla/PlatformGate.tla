---------------------------- MODULE PlatformGate ----------------------------
(***************************************************************************)
(* When may a program run?  One program and its enrolled platform source:  *)
(* sync_programs (bbpipeline/programs.py) derives the program row from the *)
(* manifest file, the source configuration and the source state, and is    *)
(* run by the scheduler, the API and every worker's preflight;             *)
(* sync_platform_source (platform_sync.py) fetches the platform and pauses *)
(* the program itself, in the platform_sync job and in the operator's      *)
(* platform-sync command beside it.  All of them load rows, compute and    *)
(* write only the columns they changed, over whatever the rows have become.*)
(***************************************************************************)
EXTENDS Naturals, FiniteSets

CONSTANTS Ticks,       \* sessions that sync and commit: scheduler, API, CLI
          OnDemand,    \* those that do so at a start or a request: API, CLI
          Workers,     \* workers, whose jobs start with a preflight sync
          Syncers,     \* those that fetch: the platform_sync job, the CLI
          Manual,      \* those of them that an operator starts: the CLI
          Contents,    \* hashes of manifest contents
          Revisions,   \* revisions of the platform's scope and policy
          SourceOf,    \* content -> revision in manifest.source, or NoRevision
          NoHash, NoRevision,
          MaxChanges   \* bound on edits, syncs on demand, changes of the platform and outages

ASSUME GateAssumption ==
  /\ NoHash \notin Contents /\ NoRevision \notin Revisions
  /\ SourceOf \in [Contents -> Revisions \union {NoRevision}]
  /\ OnDemand \subseteq Ticks /\ Manual \subseteq Syncers /\ MaxChanges \in Nat

VARIABLES
  file,        \* what load_manifests finds for the program
  config,      \* the source configuration: "disabled" is also absent or different
  platform,    \* what a fetch would return now
  program,     \* row: manifest_hash, approved_hash, active
  source,      \* row: status, revision_hash, whether last_success_at is too old
  spc, sview,  \* sync_programs sessions: place, rows loaded and computed
  ppc, pview,  \* syncers: place, the source row loaded, the answer
  alerts,      \* dedupe keys of notifications about this source
  reviewed,    \* history: contents a person has approved
  known,       \* history: the revision last fetched, whether a credential was refused
               \* since, and whether no sync since then was overtaken by another
  changes

env == <<file, config, platform, reviewed, changes>>
syncs == <<spc, sview>>
psync == <<ppc, pview>>
vars == <<env, program, source, syncs, psync, alerts, known>>

Sessions == Ticks \union Workers
Hashes == Contents \union {NoHash}
Revs == Revisions \union {NoRevision}
Answers == {"ok", "unsafe", "rejected", "down"}
Platforms == [answer : {"ok", "unsafe"}, revision : Revisions]
               \union [answer : {"rejected", "down"}, revision : {NoRevision}]
Statuses == {"none", "pending", "approved", "auth_error", "error"}
Programs == [manifest : Hashes, approved : Hashes, active : BOOLEAN]
NoProgram == [manifest |-> NoHash, approved |-> NoHash, active |-> FALSE]
Sources == [status : Statuses, revision : Revs, stale : BOOLEAN]
NoSource == [status |-> "none", revision |-> NoRevision, stale |-> TRUE]
Known == [revision : Revs, refused : BOOLEAN, alone : BOOLEAN]
Nothing == [revision |-> NoRevision, refused |-> FALSE, alone |-> TRUE]

(* defect: the policy snapshot does not match, or a second, broken file      *)
(* declares the same program_id.  There is no file also when the only one    *)
(* does not load.                                                            *)
Files == [kind : {"loaded"}, content : Contents, approval : Hashes,
          defect : {"none", "policy", "clash"}]
Manifest(c, a, d) == [kind |-> "loaded", content |-> c, approval |-> a, defect |-> d]
NoFile == [kind |-> "absent"]

Views == [program : Programs, status : Statuses, newProgram : Programs,
          newStatus : Statuses, known : Known]
NoView == [program |-> NoProgram, status |-> "none", newProgram |-> NoProgram,
           newStatus |-> "none", known |-> Nothing]

(* overtaken: another syncer has committed since this one loaded the row. *)
PViews == [source : Sources, answer : Answers \union {"none"}, revision : Revs,
           overtaken : BOOLEAN]
NoPView == [source |-> NoSource, answer |-> "none", revision |-> NoRevision,
            overtaken |-> FALSE]

TypeOK ==
  /\ file \in Files \union {NoFile}
  /\ config \in {"enabled", "disabled"}
  /\ platform \in Platforms
  /\ program \in Programs /\ source \in Sources
  /\ spc \in [Sessions -> {"idle", "loaded", "working"}] /\ sview \in [Sessions -> Views]
  /\ ppc \in [Syncers -> {"idle", "loaded", "fetched"}] /\ pview \in [Syncers -> PViews]
  /\ alerts \subseteq ({"auth_error", "error", "unsafe", "change"} \X Revs)
  /\ reviewed \subseteq Contents /\ known \in Known /\ changes \in 0 .. MaxChanges

(* The first start, without a manifest or with an approved one in place. *)
Init ==
  /\ config = "enabled" /\ changes = 0
  /\ \/ file = NoFile /\ reviewed = {}
     \/ \E c \in Contents : file = Manifest(c, c, "none") /\ reviewed = {c}
  /\ platform \in [answer : {"ok"}, revision : Revisions]
  /\ program = NoProgram /\ source = NoSource
  /\ spc = [s \in Sessions |-> "idle"] /\ sview = [s \in Sessions |-> NoView]
  /\ ppc = [f \in Syncers |-> "idle"] /\ pview = [f \in Syncers |-> NoPView]
  /\ alerts = {} /\ known = Nothing

-----------------------------------------------------------------------------
(* The operator edits the configuration tree; the platform changes.  To      *)
(* approve is to write the hash of the content into the manifest.  A defect  *)
(* makes a difference to an approved manifest only.                          *)
Change == changes < MaxChanges /\ changes' = changes + 1

SaveManifest(c, a, d) ==
  /\ Change /\ a \in reviewed \union {NoHash, c} /\ (d # "none" => a = c)
  /\ file' = Manifest(c, a, d)
  /\ reviewed' = IF a = c THEN reviewed \union {c} ELSE reviewed
  /\ UNCHANGED <<config, platform, program, source, syncs, psync, alerts, known>>

SpoilManifest ==
  /\ Change /\ file # NoFile /\ file' = NoFile
  /\ UNCHANGED <<config, platform, reviewed, program, source, syncs, psync, alerts, known>>

Reconfigure ==
  /\ Change /\ config' \in {"enabled", "disabled"} \ {config}
  /\ UNCHANGED <<file, platform, reviewed, program, source, syncs, psync, alerts, known>>

PlatformChanges ==
  /\ Change /\ platform' \in Platforms \ {platform}
  /\ UNCHANGED <<file, config, reviewed, program, source, syncs, psync, alerts, known>>

(* platform_source_max_stale_seconds have passed since the last success, and *)
(* since that of every older copy that a syncer has loaded.                  *)
GoesStale ==
  /\ Change /\ source.status # "none" /\ ~source.stale
  /\ source' = [source EXCEPT !.stale = TRUE]
  /\ pview' = [f \in Syncers |-> IF ppc[f] = "idle" THEN pview[f]
                                 ELSE [pview[f] EXCEPT !.source.stale = TRUE]]
  /\ UNCHANGED <<file, config, platform, reviewed, program, syncs, ppc, alerts, known>>

-----------------------------------------------------------------------------
(* source_pause_reason, after the checks of the configuration. *)
GateOpen_NoRevision(c, st) ==
  IF SourceOf[c] = NoRevision THEN config # "enabled"
  ELSE config = "enabled" /\ st.status \notin {"none", "auth_error", "error"} /\ ~st.stale
GateOpen(c, st) ==
  IF SourceOf[c] = NoRevision THEN config # "enabled"
  ELSE /\ config = "enabled" /\ st.status \notin {"none", "auth_error", "error"}
       /\ ~st.stale /\ st.revision = SourceOf[c]

(* LoadedManifest.approved *)
Approved == file.approval = file.content /\ file.defect # "policy"

(* What sync_programs makes of the program row and of the source's status. A *)
(* clash pauses the program again, after the loaded file has been applied.   *)
Passes(st) == Approved /\ GateOpen(file.content, st)
SyncedProgram_NoSweep(p, st) ==
  IF file.kind = "loaded"
    THEN [manifest |-> file.content, approved |-> file.approval,
          active |-> Passes(st) /\ file.defect # "clash"]
    ELSE p
SyncedProgram(p, st) ==
  IF file.kind = "loaded"
    THEN [manifest |-> file.content, approved |-> file.approval,
          active |-> Passes(st) /\ file.defect # "clash"]
    ELSE [p EXCEPT !.active = FALSE]
SyncedStatus(st) ==
  IF file.kind = "loaded" /\ Passes(st) /\ SourceOf[file.content] # NoRevision
    THEN "approved" ELSE st.status

(* The last line of defence, require_active_program. *)
Serves_NoHash(p) == p.active
Serves(p) == p.active /\ p.manifest = p.approved

ChangesProgram(v) == v.newProgram # v.program
ChangesStatus(v) == v.newStatus # v.status

(* The UPDATE of the columns that the session changed. *)
Column(l, n, now) == IF n = l THEN now ELSE n
FlushProgram(l, n) ==
  [manifest |-> Column(l.manifest, n.manifest, program.manifest),
   approved |-> Column(l.approved, n.approved, program.approved),
   active |-> Column(l.active, n.active, program.active)]

(* Two sessions inserting the row: the second violates the primary key. *)
Conflicts(v) == v.program = NoProgram /\ ChangesProgram(v) /\ program # NoProgram

(* A worker's preflight has flushed and keeps the row locks for its job. *)
LocksProgram(s) == \E w \in Workers \ {s} : spc[w] = "working" /\ ChangesProgram(sview[w])
LocksStatus(s) == \E w \in Workers \ {s} : spc[w] = "working" /\ ChangesStatus(sview[w])
MayFlush(s) == /\ ~Conflicts(sview[s])
               /\ ChangesProgram(sview[s]) => ~LocksProgram(s)
               /\ ChangesStatus(sview[s]) => ~LocksStatus(s)

Write(s) ==
  /\ program' = FlushProgram(sview[s].program, sview[s].newProgram)
  /\ source' = [source EXCEPT !.status =
                  Column(sview[s].status, sview[s].newStatus, source.status)]
  /\ UNCHANGED <<env, psync, alerts, known>>

Leave(s) == spc' = [spc EXCEPT ![s] = "idle"] /\ sview' = [sview EXCEPT ![s] = NoView]

-----------------------------------------------------------------------------
(* A tick that computes what the rows hold already writes nothing. *)
Synced == SyncedProgram(program, source) = program /\ SyncedStatus(source) = source.status
QuietTick(s) == s \in Ticks /\ spc[s] = "idle" /\ Synced /\ UNCHANGED vars

(* sync_programs: files and rows are read.  A job's program row exists; the  *)
(* preflight of one that will be refused rolls back and is no step either.   *)
Load(s) ==
  /\ spc[s] = "idle"
  /\ IF s \in Workers
       THEN program # NoProgram /\ Serves(SyncedProgram(program, source))
       ELSE ~Synced
  /\ spc' = [spc EXCEPT ![s] = "loaded"]
  /\ sview' = [sview EXCEPT ![s] =
        [program |-> program, status |-> source.status,
         newProgram |-> SyncedProgram(program, source), newStatus |-> SyncedStatus(source),
         known |-> IF s \in Workers THEN known ELSE Nothing]]
  /\ IF s \in OnDemand THEN Change ELSE UNCHANGED changes
  /\ UNCHANGED <<file, config, platform, reviewed, program, source, psync, alerts, known>>

TickCommit(s) ==
  /\ spc[s] = "loaded" /\ s \in Ticks /\ MayFlush(s)
  /\ Write(s) /\ Leave(s)

(* The preflight of a job in its own transaction: it goes on only with the   *)
(* program it has just computed, otherwise all it wrote rolls back.          *)
Start(w) ==
  /\ spc[w] = "loaded" /\ w \in Workers /\ MayFlush(w) /\ Serves(sview[w].newProgram)
  /\ spc' = [spc EXCEPT ![w] = "working"]
  /\ sview' = [sview EXCEPT ![w].known = Nothing]
  /\ UNCHANGED <<env, program, source, psync, alerts, known>>

Finish(w) == spc[w] = "working" /\ Write(w) /\ Leave(w)

(* The job fails, or its worker dies. *)
RollBack(w) ==
  /\ spc[w] # "idle" /\ w \in Workers /\ Leave(w)
  /\ UNCHANGED <<env, program, source, psync, alerts, known>>

TickConflict(s) ==
  /\ spc[s] = "loaded" /\ s \in Ticks /\ Conflicts(sview[s]) /\ Leave(s)
  /\ UNCHANGED <<env, program, source, psync, alerts, known>>

-----------------------------------------------------------------------------
(* A platform sync: the source must be enabled and its row is loaded.  A     *)
(* syncer that finds none inserts it, and whoever else would has to wait for *)
(* its commit and then fails.                                                *)
PlatformLoad(f) ==
  /\ ppc[f] = "idle" /\ config = "enabled"
  /\ source.status = "none" => \A g \in Syncers : ppc[g] = "idle"
  /\ IF f \in Manual THEN Change ELSE UNCHANGED changes
  /\ ppc' = [ppc EXCEPT ![f] = "loaded"]
  /\ pview' = [pview EXCEPT ![f] = [NoPView EXCEPT !.source = source]]
  /\ UNCHANGED <<file, config, platform, reviewed, program, source, syncs, alerts, known>>

(* The platform's answer arrives. *)
PlatformFetch(f) ==
  /\ ppc[f] = "loaded" /\ ppc' = [ppc EXCEPT ![f] = "fetched"]
  /\ pview' = [pview EXCEPT ![f].answer = platform.answer, ![f].revision = platform.revision]
  /\ UNCHANGED <<env, program, source, syncs, alerts, known>>

(* A failed fetch pauses when the credential was rejected or the loaded data *)
(* is too old; a snapshot is stored also when no safe candidate can be built.*)
Fetched(v) == v.answer \in {"ok", "unsafe"}
Fails(v) == v.answer = "rejected" \/ (v.answer = "down" /\ v.source.stale)
BoundRevision ==
  IF program.manifest = NoHash THEN NoRevision ELSE SourceOf[program.manifest]
NewStatus_Sticky(v) ==
  IF v.answer = "rejected" \/ v.source.status = "auth_error" THEN "auth_error"
  ELSE CASE v.answer = "unsafe" \/ Fails(v) -> "error"
         [] v.answer = "down" /\ ~Fails(v) -> v.source.status
         [] OTHER -> IF BoundRevision = v.revision THEN "approved" ELSE "pending"
NewStatus(v) ==
  CASE v.answer = "rejected" -> "auth_error"
    [] v.answer = "down" -> IF v.source.stale THEN "error" ELSE v.source.status
    [] v.answer = "unsafe" -> "error"
    [] v.answer = "ok" -> IF BoundRevision = v.revision THEN "approved" ELSE "pending"

StoredRevision(v) ==
  IF Fetched(v) THEN Column(v.source.revision, v.revision, source.revision)
  ELSE source.revision

(* The keys of failures hold the time of the last success, so a success      *)
(* starts afresh, and a syncer that was overtaken may use an old key.        *)
Incident_NotPending(prev, s) == prev = "approved" /\ s # prev
Incident(prev, s) == prev # s
NewAlerts(v) ==
  CASE Fails(v) -> IF Incident(v.source.status, NewStatus(v)) /\ ~v.overtaken
                     THEN {<<NewStatus(v), NoRevision>>} ELSE {}
    [] v.answer = "unsafe" -> {<<"unsafe", v.revision>>}
    [] NewStatus(v) = "pending" /\ v.answer = "ok"
         -> IF v.source.revision # v.revision THEN {<<"change", v.revision>>} ELSE {}
    [] OTHER -> {}
OldAlerts(v) == IF Fetched(v) THEN {a \in alerts : a[1] \in {"unsafe", "change"}} ELSE alerts

Pauses(v) == Fails(v) \/ v.answer = "unsafe" \/ (v.answer = "ok" /\ NewStatus(v) = "pending")

Learns(v) ==
  known' = [revision |-> IF Fetched(v) THEN v.revision ELSE known.revision,
            refused |-> v.answer = "rejected" \/ (v.answer = "down" /\ known.refused),
            alone |-> ~v.overtaken /\ (Fetched(v) \/ known.alone)]

(* The time of the check is always written, so the row lock makes the        *)
(* syncers take turns from the first flush after the answer to the commit.   *)
PlatformWrite(v) ==
  /\ \A w \in Workers : ~(spc[w] = "working" /\ ChangesStatus(sview[w]))
  /\ (Pauses(v) /\ program.active) =>
       \A w \in Workers : ~(spc[w] = "working" /\ ChangesProgram(sview[w]))
  /\ source' = [status |-> Column(v.source.status, NewStatus(v), source.status),
                revision |-> StoredRevision(v),
                stale |-> IF Fetched(v) THEN FALSE ELSE source.stale]
  /\ program' = IF Pauses(v) THEN [program EXCEPT !.active = FALSE] ELSE program
  /\ alerts' = OldAlerts(v) \union NewAlerts(v)
  /\ Learns(v)

PlatformCommit(f) ==
  /\ ppc[f] = "fetched" /\ PlatformWrite(pview[f])
  /\ ppc' = [ppc EXCEPT ![f] = "idle"]
  /\ pview' = [g \in Syncers |-> IF g = f \/ ppc[g] = "idle" THEN NoPView
                                 ELSE [pview[g] EXCEPT !.overtaken = TRUE]]
  /\ UNCHANGED <<env, syncs>>

(* Its process dies; the same bound limits this. *)
PlatformCrash(f) ==
  /\ ppc[f] # "idle" /\ Change
  /\ ppc' = [ppc EXCEPT ![f] = "idle"] /\ pview' = [pview EXCEPT ![f] = NoPView]
  /\ UNCHANGED <<file, config, platform, reviewed, program, source, syncs, alerts, known>>

-----------------------------------------------------------------------------
Edit ==
  \/ \E c \in Contents, a \in Hashes, d \in {"none", "policy", "clash"} : SaveManifest(c, a, d)
  \/ SpoilManifest \/ Reconfigure

Next ==
  \/ Edit \/ PlatformChanges \/ GoesStale
  \/ \E s \in Sessions : QuietTick(s) \/ Load(s) \/ TickCommit(s) \/ TickConflict(s)
  \/ \E w \in Workers : Start(w) \/ Finish(w) \/ RollBack(w)
  \/ \E f \in Syncers :
       PlatformLoad(f) \/ PlatformFetch(f) \/ PlatformCommit(f) \/ PlatformCrash(f)

Spec == Init /\ [][Next]_vars

(* The scheduler ticks and queues the platform_sync job for ever; jobs and   *)
(* commands end, since every request to a platform has a timeout.  A commit  *)
(* waits for row locks in a queue, so it is not overtaken for ever.          *)
FairSpec ==
  /\ Spec
  /\ \A s \in Ticks \ OnDemand :
       WF_vars(Load(s)) /\ SF_vars(TickCommit(s) \/ TickConflict(s))
  /\ \A w \in Workers : WF_vars(Finish(w) \/ RollBack(w))
  /\ \A f \in Syncers \ Manual : WF_vars(PlatformLoad(f))
  /\ \A f \in Syncers : SF_vars(PlatformFetch(f) \/ PlatformCommit(f))

-----------------------------------------------------------------------------
(* Whatever the sessions overwrite of each other, a program that             *)
(* require_active_program lets through carries a manifest a person approved: *)
(* two syncs may leave a row that is active with the columns of both.        *)
ServedWasReviewed == Serves(program) => program.manifest \in reviewed

(* A job that gets past its preflight runs a reviewed manifest, and if it is *)
(* bound to a source, on the revision that the platform showed in the last   *)
(* sync committed before the preflight.  A sync that another has overtaken   *)
(* is the exception: it does not write a revision that it finds as it had    *)
(* loaded it, although the row has moved on (platform_sync.py:188).          *)
StartsOnKnownScope ==
  [][\A w \in Workers :
       spc[w] = "loaded" /\ spc'[w] = "working" =>
         LET c == sview[w].newProgram.manifest IN
           /\ c \in reviewed
           /\ SourceOf[c] # NoRevision /\ sview[w].known.alone
                => sview[w].known.revision = SourceOf[c]]_vars

(* A source shown as failed has been announced, for this failure and not for *)
(* one before the last success, again unless a sync was overtaken since: its *)
(* key names an earlier success, and its row may be one of both.             *)
FailureIsAlerted ==
  known.alone =>
    /\ source.status = "auth_error" => <<"auth_error", NoRevision>> \in alerts
    /\ source.status = "error" =>
         <<"error", NoRevision>> \in alerts \/ <<"unsafe", source.revision>> \in alerts

(* A program whose gate is shut ends up paused and stays so, whichever       *)
(* session writes last: no late commit leaves it active.                     *)
Shut == file.kind # "loaded" \/ file.defect = "clash" \/ ~Passes(source)
PausesHold == <>[]Shut => <>[]~program.active

(* After whatever failures, an approved manifest that matches an answering   *)
(* platform is served again, without an operator touching the database.      *)
Healthy ==
  /\ file.kind = "loaded" /\ Approved /\ file.defect # "clash" /\ config = "enabled"
  /\ platform.answer = "ok" /\ platform.revision = SourceOf[file.content]
ProgramRecovers == <>[]Healthy => []<>program.active

(* "An explicitly rejected/expired credential also pauses immediately": no   *)
(* job starts on a source whose last sync was refused.                       *)
RejectedStartsNothing ==
  [][\A w \in Workers :
       spc[w] = "loaded" /\ spc'[w] = "working" =>
         LET c == sview[w].newProgram.manifest IN
           SourceOf[c] # NoRevision => ~sview[w].known.refused]_vars
=============================================================================
