------------------------- MODULE PlatformGateProofs -------------------------
(***************************************************************************)
(* What holds of PlatformGate for any number of sessions, contents,        *)
(* revisions and changes.                                                  *)
(***************************************************************************)
EXTENDS PlatformGate, TLAPS

(* A syncer has an answer once it has fetched.  As long as nobody overtakes  *)
(* it, the source's revision does not move, and as long as no sync that was  *)
(* overtaken has committed, the revision last seen is the one in the row.    *)
SyncersInv ==
  /\ \A f \in Syncers :
       /\ ppc[f] = "fetched" => pview[f].answer \in Answers
       /\ ppc[f] # "idle" /\ ~pview[f].overtaken
            => pview[f].source.revision = source.revision
  /\ known.alone => known.revision = source.revision

TInv == TypeOK /\ SyncersInv

LEMMA Constants ==
  /\ NoProgram \in Programs /\ NoSource \in Sources /\ NoView \in Views
  /\ NoPView \in PViews
  /\ Nothing \in Known
BY DEF NoProgram, NoSource, NoView, NoPView, Nothing, Programs, Sources, Views, PViews,
       Known, Hashes, Revs, Statuses, Answers

LEMMA TInvInit == Init => TInv
<1> SUFFICES ASSUME Init PROVE TInv
  OBVIOUS
<1>1. file \in Files \union {NoFile} /\ reviewed \subseteq Contents
  BY DEF Init, Manifest, Files, Hashes
<1>2. platform \in Platforms
  BY DEF Init, Platforms
<1>3. /\ spc \in [Sessions -> {"idle", "loaded", "working"}]
      /\ sview \in [Sessions -> Views]
  BY Constants DEF Init
<1>4. TypeOK
  BY <1>1, <1>2, <1>3, Constants, GateAssumption DEF Init, TypeOK
<1>5. QED
  BY <1>4 DEF Init, TInv, SyncersInv, Nothing, NoSource

(* What a sync makes of the rows keeps their types, and what it writes, too. *)
LEMMA SyncedTypes ==
  ASSUME TypeOK
  PROVE  SyncedProgram(program, source) \in Programs /\ SyncedStatus(source) \in Statuses
<1>1. SyncedProgram(program, source) \in Programs
  <2>1. CASE file.kind = "loaded"
    <3>1. file \in Files
      BY <2>1 DEF TypeOK, NoFile
    <3>2. (Passes(source) /\ file.defect # "clash") \in BOOLEAN
      OBVIOUS
    <3>3. QED
      BY <2>1, <3>1, <3>2 DEF SyncedProgram, Files, Programs, Hashes
  <2>2. CASE file.kind # "loaded"
    BY <2>2 DEF TypeOK, SyncedProgram, Programs
  <2>3. QED
    BY <2>1, <2>2
<1>2. SyncedStatus(source) \in Statuses
  BY DEF TypeOK, SyncedStatus, Sources, Statuses
<1>3. QED
  BY <1>1, <1>2

LEMMA WriteTypes ==
  ASSUME TypeOK, NEW s \in Sessions, Write(s)
  PROVE  /\ program' \in Programs /\ source' \in Sources
         /\ source'.revision = source.revision
<1>1. program \in Programs /\ source \in Sources /\ sview[s] \in Views
  BY DEF TypeOK
<1>2. program' \in Programs
  BY <1>1 DEF Write, FlushProgram, Column, Views, Programs
<1>3. source' \in Sources /\ source'.revision = source.revision
  BY <1>1 DEF Write, Column, Views, Sources
<1>4. QED
  BY <1>2, <1>3

(* A platform sync leaves rows and alerts of the right types, and unless it  *)
(* was overtaken the revision it has stored is the one it has seen.          *)
LEMMA PlatformTypes ==
  ASSUME TInv, NEW f \in Syncers, PlatformCommit(f) PROVE TInv'
<1> DEFINE v == pview[f]
<1> USE DEF TInv, TypeOK, SyncersInv
<1>1. /\ v \in PViews /\ v.answer \in Answers /\ source \in Sources
      /\ ~v.overtaken => v.source.revision = source.revision
      /\ PlatformWrite(v)
  BY DEF PlatformCommit
<1>2. /\ v.source \in Sources /\ v.revision \in Revs
      /\ known \in Known /\ alerts \subseteq ({"auth_error", "error", "unsafe", "change"} \X Revs)
      /\ program \in Programs /\ known.alone => known.revision = source.revision
  BY <1>1 DEF PViews
<1> HIDE DEF v
<1>3. NewStatus(v) \in Statuses
  BY <1>1, <1>2 DEF NewStatus, Answers, Statuses, Sources
<1>4. StoredRevision(v) \in Revs
  BY <1>1, <1>2 DEF StoredRevision, Column, Sources
<1>5. source' \in Sources
  BY <1>1, <1>2, <1>3, <1>4 DEF PlatformWrite, Column, Sources
<1>6. program' \in Programs
  BY <1>1, <1>2 DEF PlatformWrite, Programs
<1>7. alerts' \subseteq ({"auth_error", "error", "unsafe", "change"} \X Revs)
  <2>1. OldAlerts(v) \subseteq alerts
    BY DEF OldAlerts
  <2>2. NewAlerts(v) \subseteq ({"auth_error", "error", "unsafe", "change"} \X Revs)
    <3>1. NoRevision \in Revs
      BY DEF Revs
    <3>2. Fails(v) => NewStatus(v) \in {"auth_error", "error"}
      BY <1>1 DEF Fails, NewStatus, Answers
    <3>3. QED
      BY <1>2, <3>1, <3>2 DEF NewAlerts
  <2>3. QED
    BY <1>1, <1>2, <2>1, <2>2 DEF PlatformWrite
<1>8. known' \in Known
  BY <1>1, <1>2 DEF PlatformWrite, Learns, Known
<1>9. known'.alone => known'.revision = source'.revision
  <2>1. /\ known'.alone => ~v.overtaken /\ (Fetched(v) \/ known.alone)
        /\ known'.revision = IF Fetched(v) THEN v.revision ELSE known.revision
        /\ source'.revision = StoredRevision(v)
    BY <1>1 DEF PlatformWrite, Learns
  <2>2. QED
    BY <1>1, <1>2, <2>1 DEF StoredRevision, Column
<1>10. /\ ppc' \in [Syncers -> {"idle", "loaded", "fetched"}] /\ pview' \in [Syncers -> PViews]
       /\ \A g \in Syncers :
            /\ ppc'[g] = "fetched" => pview'[g].answer \in Answers
            /\ ppc'[g] # "idle" => pview'[g].overtaken
  <2>1. ASSUME NEW g \in Syncers, g # f, ppc[g] # "idle"
        PROVE  /\ pview'[g] \in PViews /\ pview'[g].overtaken
               /\ pview'[g].answer = pview[g].answer
    <3>1. pview'[g] = [pview[g] EXCEPT !.overtaken = TRUE] /\ pview[g] \in PViews
      BY <2>1 DEF PlatformCommit
    <3>2. QED
      BY <3>1 DEF PViews
  <2>2. ASSUME NEW g \in Syncers, g = f \/ ppc[g] = "idle"
        PROVE  ppc'[g] = "idle" /\ pview'[g] = NoPView
    BY <2>2 DEF PlatformCommit
  <2>3. ASSUME NEW g \in Syncers, g # f PROVE ppc'[g] = ppc[g]
    BY <2>3 DEF PlatformCommit
  <2>4. ppc' \in [Syncers -> {"idle", "loaded", "fetched"}]
    BY DEF PlatformCommit
  <2>5. pview' \in [Syncers -> PViews]
    BY <2>1, <2>2, Constants DEF PlatformCommit
  <2>6. QED
    BY <2>1, <2>2, <2>3, <2>4, <2>5
<1>11. QED
  BY <1>5, <1>6, <1>7, <1>8, <1>9, <1>10 DEF PlatformCommit, env, syncs

(* A syncer that loads, fetches or dies, and the passing of time, change no  *)
(* revision; each leaves the other syncers as they were.                     *)
LEMMA SyncerTypes ==
  ASSUME TInv, NEW f \in Syncers,
         PlatformLoad(f) \/ PlatformFetch(f) \/ PlatformCrash(f)
  PROVE  TInv'
<1> USE DEF TInv, TypeOK, SyncersInv
<1>1. /\ ppc' \in [Syncers -> {"idle", "loaded", "fetched"}]
      /\ \A g \in Syncers \ {f} : ppc'[g] = ppc[g] /\ pview'[g] = pview[g]
  BY DEF PlatformLoad, PlatformFetch, PlatformCrash
<1>2. /\ pview'[f] \in PViews
      /\ ppc'[f] = "fetched" => pview'[f].answer \in Answers
      /\ ppc'[f] # "idle" /\ ~pview'[f].overtaken => pview'[f].source.revision = source.revision
  <2>1. CASE PlatformLoad(f)
    <3>1. ppc'[f] = "loaded" /\ pview'[f] = [NoPView EXCEPT !.source = source]
      BY <2>1 DEF PlatformLoad
    <3>2. QED
      BY <3>1, Constants DEF PViews, NoPView
  <2>2. CASE PlatformFetch(f)
    <3>1. /\ ppc[f] = "loaded" /\ ppc'[f] = "fetched" /\ pview[f] \in PViews
          /\ pview'[f] = [pview[f] EXCEPT !.answer = platform.answer, !.revision = platform.revision]
      BY <2>2 DEF PlatformFetch
    <3>2. platform.answer \in Answers /\ platform.revision \in Revs
      BY DEF Platforms, Answers, Revs
    <3>3. QED
      BY <3>1, <3>2 DEF PViews
  <2>3. CASE PlatformCrash(f)
    BY <2>3, Constants DEF PlatformCrash
  <2>4. QED
    BY <2>1, <2>2, <2>3
<1>3. pview' \in [Syncers -> PViews]
  BY <1>2 DEF PlatformLoad, PlatformFetch, PlatformCrash
<1>4. changes' \in 0 .. MaxChanges
  BY GateAssumption DEF PlatformLoad, PlatformFetch, PlatformCrash, Change, env
<1>5. UNCHANGED <<file, config, platform, reviewed, program, source, syncs, alerts, known>>
  BY DEF PlatformLoad, PlatformFetch, PlatformCrash, env
<1>6. QED
  BY <1>1, <1>2, <1>3, <1>4, <1>5 DEF syncs

LEMMA Older ==
  ASSUME NEW v \in PViews
  PROVE  LET o == [v EXCEPT !.source.stale = TRUE] IN
           /\ o \in PViews /\ o.answer = v.answer /\ o.overtaken = v.overtaken
           /\ o.source.revision = v.source.revision /\ o.source.status = v.source.status
<1> DEFINE r == [v.source EXCEPT !.stale = TRUE]
<1>1. r \in Sources /\ r.revision = v.source.revision /\ r.status = v.source.status
  BY DEF PViews, Sources
<1>2. [v EXCEPT !.source.stale = TRUE] = [v EXCEPT !.source = r]
  BY DEF PViews
<1> HIDE DEF r
<1>3. QED
  BY <1>1, <1>2 DEF PViews

LEMMA StaleTypes == ASSUME TInv, GoesStale PROVE TInv'
<1> USE DEF TInv, TypeOK, SyncersInv
<1>1. source' \in Sources /\ source'.revision = source.revision
  BY DEF GoesStale, Sources
<1>2. ASSUME NEW f \in Syncers
      PROVE  /\ pview'[f] \in PViews /\ pview'[f].answer = pview[f].answer
             /\ pview'[f].overtaken = pview[f].overtaken
             /\ pview'[f].source.revision = pview[f].source.revision
  <2>1. pview'[f] = pview[f] \/ pview'[f] = [pview[f] EXCEPT !.source.stale = TRUE]
    BY DEF GoesStale
  <2>2. QED
    BY <2>1, Older
<1>3. pview' \in [Syncers -> PViews]
  BY <1>2 DEF GoesStale
<1>4. QED
  BY <1>1, <1>2, <1>3, GateAssumption DEF GoesStale, Change, syncs

LEMMA TInvNext == TInv /\ [Next]_vars => TInv'
<1> SUFFICES ASSUME TInv, [Next]_vars PROVE TInv'
  OBVIOUS
<1> USE GateAssumption DEF TInv, SyncersInv, env, syncs, psync
<1>1. ASSUME NEW c \in Contents, NEW a \in Hashes, NEW d \in {"none", "policy", "clash"},
             SaveManifest(c, a, d)
      PROVE  TInv'
  <2>1. file' \in Files /\ reviewed' \subseteq Contents
    BY <1>1 DEF SaveManifest, Manifest, Files, TypeOK
  <2>2. QED
    BY <1>1, <2>1 DEF SaveManifest, Change, TypeOK
<1>2. CASE SpoilManifest
  BY <1>2 DEF SpoilManifest, Change, TypeOK
<1>3. CASE Reconfigure
  BY <1>3 DEF Reconfigure, Change, TypeOK
<1>4. CASE PlatformChanges
  BY <1>4 DEF PlatformChanges, Change, TypeOK
<1>5. CASE GoesStale
  BY <1>5, StaleTypes
<1>6. ASSUME NEW s \in Sessions, Load(s) PROVE TInv'
  <2>1. sview'[s] \in Views
    BY <1>6, SyncedTypes, Constants DEF Load, TypeOK, Views, Sources
  <2>2. sview' \in [Sessions -> Views]
    BY <1>6, <2>1 DEF Load, TypeOK
  <2>3. changes' \in 0 .. MaxChanges
    BY <1>6 DEF Load, Change, TypeOK
  <2>4. QED
    BY <1>6, <2>2, <2>3 DEF Load, TypeOK
<1>7. ASSUME NEW s \in Sessions, Write(s), Leave(s) PROVE TInv'
  BY <1>7, WriteTypes, Constants DEF Write, Leave, TypeOK
<1>8. ASSUME NEW s \in Sessions, Leave(s),
             UNCHANGED <<env, program, source, psync, alerts, known>>
      PROVE  TInv'
  BY <1>8, Constants DEF Leave, TypeOK
<1>9. ASSUME NEW w \in Workers, Start(w) PROVE TInv'
  <2>1. sview' \in [Sessions -> Views]
    BY <1>9, Constants DEF Start, TypeOK, Views, Sessions
  <2>2. QED
    BY <1>9, <2>1 DEF Start, TypeOK
<1>10. ASSUME NEW f \in Syncers, PlatformLoad(f) \/ PlatformFetch(f) \/ PlatformCrash(f)
       PROVE  TInv'
  BY <1>10, SyncerTypes
<1>11. ASSUME NEW f \in Syncers, PlatformCommit(f) PROVE TInv'
  BY <1>11, PlatformTypes
<1>12. ASSUME NEW s \in Sessions, QuietTick(s) PROVE UNCHANGED vars
  BY <1>12 DEF QuietTick
<1>13. CASE UNCHANGED vars
  BY <1>13 DEF vars, TypeOK
<1>14. QED
  BY <1>1, <1>2, <1>3, <1>4, <1>5, <1>6, <1>7, <1>8, <1>9, <1>10, <1>11, <1>12, <1>13
     DEF Next, Edit, TickCommit, TickConflict, Finish, RollBack, Sessions

LEMMA TInvariant == Spec => []TInv
BY TInvInit, TInvNext, PTL DEF Spec

(* Type correctness: files, rows, views of the sessions and alerts.          *)
THEOREM TypeCorrect == Spec => []TypeOK
<1>1. TInv => TypeOK
  BY DEF TInv
<1>2. QED
  BY <1>1, TInvariant, PTL

-----------------------------------------------------------------------------
(* Where an approval may come from.  The file's approval, and so the hash in *)
(* the program's row and in every session's view of it, is one that a person *)
(* has given; a row that was once synced keeps a manifest; and nothing is    *)
(* made active without one.                                                  *)
Given == reviewed \union {NoHash}

ApprovalInv ==
  /\ file.kind = "loaded" => file.approval \in Given /\ file.content # NoHash
  /\ program.approved \in Given /\ (program.active => program.manifest # NoHash)
  /\ \A s \in Sessions :
       LET v == sview[s] IN
         /\ v.newProgram.approved \in Given
         /\ v.newProgram.active => v.newProgram.manifest # NoHash
         /\ v.program.manifest # NoHash =>
              v.newProgram.manifest # NoHash /\ program.manifest # NoHash

(* The write of a session's view keeps the row so, whatever it has become.   *)
LEMMA ApprovalWrite ==
  ASSUME TypeOK, ApprovalInv, NEW s \in Sessions, Write(s)
  PROVE  /\ program'.approved \in Given /\ (program'.active => program'.manifest # NoHash)
         /\ program.manifest # NoHash => program'.manifest # NoHash
<1> DEFINE v == sview[s]
<1>1. /\ program'.manifest = Column(v.program.manifest, v.newProgram.manifest, program.manifest)
      /\ program'.approved = Column(v.program.approved, v.newProgram.approved, program.approved)
      /\ program'.active = Column(v.program.active, v.newProgram.active, program.active)
  BY DEF Write, FlushProgram
<1>2. /\ v.newProgram.approved \in Given
      /\ v.newProgram.active => v.newProgram.manifest # NoHash
      /\ v.program.manifest # NoHash => v.newProgram.manifest # NoHash
      /\ program.approved \in Given /\ (program.active => program.manifest # NoHash)
      /\ v.program.manifest # NoHash => program.manifest # NoHash
  BY DEF ApprovalInv
<1> HIDE DEF v
<1>3. QED
  BY <1>1, <1>2 DEF Column

LEMMA SyncedApproval ==
  ASSUME TypeOK, ApprovalInv
  PROVE  LET p == SyncedProgram(program, source) IN
           /\ p.approved \in Given /\ (p.active => p.manifest # NoHash)
           /\ program.manifest # NoHash => p.manifest # NoHash
<1>1. CASE file.kind = "loaded"
  BY <1>1 DEF ApprovalInv, SyncedProgram
<1>2. CASE file.kind # "loaded"
  BY <1>2 DEF TypeOK, ApprovalInv, SyncedProgram, Programs
<1>3. QED
  BY <1>1, <1>2

LEMMA NoViewFacts ==
  /\ NoView.newProgram.approved = NoHash /\ ~NoView.newProgram.active
  /\ NoView.program.manifest = NoHash /\ NoView.newProgram.manifest = NoHash
BY DEF NoView, NoProgram

LEMMA ApprovalNext == TInv /\ ApprovalInv /\ [Next]_vars => ApprovalInv'
<1> SUFFICES ASSUME TInv, ApprovalInv, [Next]_vars PROVE ApprovalInv'
  OBVIOUS
<1> USE GateAssumption DEF TInv, env, syncs, psync
<1>1. ASSUME NEW c \in Contents, NEW a \in Hashes, NEW d \in {"none", "policy", "clash"},
             SaveManifest(c, a, d)
      PROVE  ApprovalInv'
  <2>1. file'.approval \in Given' /\ file'.content = c /\ reviewed \subseteq reviewed'
    BY <1>1 DEF SaveManifest, Manifest, Given
  <2>2. QED
    BY <1>1, <2>1 DEF SaveManifest, ApprovalInv, Given
<1>2. CASE SpoilManifest
  BY <1>2 DEF SpoilManifest, NoFile, ApprovalInv, Given
<1>3. ASSUME UNCHANGED <<file, reviewed, program, sview>> PROVE ApprovalInv'
  BY <1>3 DEF ApprovalInv, Given
<1>4. ASSUME NEW s \in Sessions, Load(s) PROVE ApprovalInv'
  <2>1. /\ sview'[s].newProgram = SyncedProgram(program, source)
        /\ sview'[s].program = program
        /\ \A t \in Sessions \ {s} : sview'[t] = sview[t]
    BY <1>4 DEF Load, TypeOK
  <2>2. QED
    BY <1>4, <2>1, SyncedApproval DEF Load, ApprovalInv, Given
<1>5. ASSUME NEW s \in Sessions, Write(s), Leave(s) PROVE ApprovalInv'
  <2>1. sview'[s] = NoView /\ \A t \in Sessions \ {s} : sview'[t] = sview[t]
    BY <1>5 DEF Leave, TypeOK
  <2>2. UNCHANGED <<file, reviewed>>
    BY <1>5 DEF Write
  <2>3. QED
    BY <1>5, <2>1, <2>2, ApprovalWrite, NoViewFacts DEF ApprovalInv, Given
<1>6. ASSUME NEW s \in Sessions, Leave(s), UNCHANGED <<file, reviewed, program>>
      PROVE  ApprovalInv'
  <2>1. sview'[s] = NoView /\ \A t \in Sessions \ {s} : sview'[t] = sview[t]
    BY <1>6 DEF Leave, TypeOK
  <2>2. QED
    BY <1>6, <2>1, NoViewFacts DEF ApprovalInv, Given
<1>7. ASSUME NEW w \in Workers, Start(w) PROVE ApprovalInv'
  <2>1. \A t \in Sessions : /\ sview'[t].newProgram = sview[t].newProgram
                             /\ sview'[t].program = sview[t].program
    BY <1>7 DEF Start, TypeOK, Views
  <2>2. QED
    BY <1>7, <2>1 DEF Start, ApprovalInv, Given
<1>8. ASSUME NEW f \in Syncers, PlatformCommit(f) PROVE ApprovalInv'
  <2>1. /\ program'.approved = program.approved /\ program'.manifest = program.manifest
        /\ program'.active => program.active
    BY <1>8 DEF PlatformCommit, PlatformWrite, TypeOK, Programs
  <2>2. QED
    BY <1>8, <2>1 DEF PlatformCommit, ApprovalInv, Given
<1>9. QED
  BY <1>1, <1>2, <1>3, <1>4, <1>5, <1>6, <1>7, <1>8
     DEF Next, Edit, TickCommit, TickConflict, Finish, RollBack, Sessions, vars,
         Reconfigure, PlatformChanges, GoesStale, QuietTick, PlatformLoad, PlatformFetch,
         PlatformCrash

LEMMA ApprovalInvariant == Spec => []ApprovalInv
<1>1. Init => ApprovalInv
  BY GateAssumption, NoViewFacts
     DEF Init, ApprovalInv, Given, NoFile, Manifest, NoProgram, Sessions
<1>2. QED
  BY <1>1, ApprovalNext, TInvariant, PTL DEF Spec

(* What require_active_program lets through carries a manifest a person has  *)
(* approved, whatever columns the sessions have written over each other.     *)
THEOREM ServedAreReviewed == Spec => []ServedWasReviewed
<1>1. TInv /\ ApprovalInv => ServedWasReviewed
  BY DEF ApprovalInv, ServedWasReviewed, Serves, Given
<1>2. QED
  BY <1>1, ApprovalInvariant, TInvariant, PTL

-----------------------------------------------------------------------------
(* A preflight that has loaded an open gate has seen the revision of the     *)
(* last committed platform sync, if that was not overtaken.                  *)
ScopeInv ==
  \A w \in Workers :
    LET c == sview[w].newProgram.manifest IN
      spc[w] = "loaded" /\ sview[w].newProgram.active /\ SourceOf[c] # NoRevision
        /\ sview[w].known.alone
        => sview[w].known.revision = SourceOf[c]

LEMMA ScopeNext == TInv /\ ScopeInv /\ [Next]_vars => ScopeInv'
<1> SUFFICES ASSUME TInv, ScopeInv, [Next]_vars PROVE ScopeInv'
  OBVIOUS
<1> USE DEF TInv, env, syncs, psync
<1>1. ASSUME NEW s \in Sessions, Load(s) PROVE ScopeInv'
  <2>1. /\ sview'[s].newProgram = SyncedProgram(program, source)
        /\ s \in Workers => sview'[s].known = known
        /\ \A t \in Sessions \ {s} : sview'[t] = sview[t] /\ spc'[t] = spc[t]
    BY <1>1 DEF Load, TypeOK
  <2>2. LET p == SyncedProgram(program, source) IN
          p.active /\ SourceOf[p.manifest] # NoRevision
            => source.revision = SourceOf[p.manifest]
    <3>1. CASE file.kind = "loaded"
      BY <3>1 DEF SyncedProgram, Passes, GateOpen
    <3>2. CASE file.kind # "loaded"
      BY <3>2 DEF SyncedProgram, TypeOK, Programs
    <3>3. QED
      BY <3>1, <3>2
  <2>3. QED
    BY <2>1, <2>2 DEF ScopeInv, SyncersInv, Sessions
<1>2. ASSUME NEW s \in Sessions, Leave(s) PROVE ScopeInv'
  <2>1. spc'[s] = "idle" /\ \A t \in Sessions \ {s} : sview'[t] = sview[t] /\ spc'[t] = spc[t]
    BY <1>2 DEF Leave, TypeOK
  <2>2. QED
    BY <2>1 DEF ScopeInv, Sessions
<1>3. ASSUME NEW w \in Workers, Start(w) PROVE ScopeInv'
  <2>1. /\ spc'[w] = "working"
        /\ \A t \in Sessions \ {w} : sview'[t] = sview[t] /\ spc'[t] = spc[t]
    BY <1>3 DEF Start, TypeOK, Sessions
  <2>2. QED
    BY <2>1 DEF ScopeInv, Sessions
<1>4. ASSUME UNCHANGED <<spc, sview>> PROVE ScopeInv'
  BY <1>4 DEF ScopeInv
<1>5. QED
  BY <1>1, <1>2, <1>3, <1>4
     DEF Next, Edit, TickCommit, TickConflict, Finish, RollBack, Sessions, vars, SaveManifest,
         SpoilManifest, Reconfigure, PlatformChanges, GoesStale, QuietTick, PlatformLoad,
         PlatformFetch, PlatformCommit, PlatformCrash

(* A job starts only on a reviewed manifest and, if that is bound to a       *)
(* source, on the revision that the last committed platform sync has seen,   *)
(* for any number of syncers, as long as none of them overtook another.      *)
THEOREM StartsKnowTheirScope == Spec => StartsOnKnownScope
<1>1. Init => ScopeInv
  BY DEF Init, ScopeInv, Sessions
<1>2. TInv /\ ApprovalInv /\ ScopeInv /\ [Next]_vars =>
        [\A w \in Workers :
           spc[w] = "loaded" /\ spc'[w] = "working" =>
             LET c == sview[w].newProgram.manifest IN
               /\ c \in reviewed
               /\ SourceOf[c] # NoRevision /\ sview[w].known.alone
                    => sview[w].known.revision = SourceOf[c]]_vars
  <2> SUFFICES ASSUME TInv, ApprovalInv, ScopeInv, [Next]_vars,
                      NEW w \in Workers, spc[w] = "loaded", spc'[w] = "working"
               PROVE  LET c == sview[w].newProgram.manifest IN
                        /\ c \in reviewed
                        /\ SourceOf[c] # NoRevision /\ sview[w].known.alone
                             => sview[w].known.revision = SourceOf[c]
    OBVIOUS
  <2>1. Start(w)
    <3>1. ASSUME NEW s \in Sessions, Load(s) \/ Leave(s) PROVE spc'[w] = spc[w] \/ spc'[w] # "working"
      BY <3>1 DEF Load, Leave, TInv, TypeOK, Sessions
    <3>2. ASSUME NEW v \in Workers \ {w}, Start(v) PROVE spc'[w] = spc[w]
      BY <3>2 DEF Start, TInv, TypeOK, Sessions
    <3>3. QED
      BY <3>1, <3>2
         DEF Next, Edit, TickCommit, TickConflict, Finish, RollBack, Sessions, vars,
             syncs, SaveManifest, SpoilManifest, Reconfigure, PlatformChanges, GoesStale,
             QuietTick, PlatformLoad, PlatformFetch, PlatformCommit, PlatformCrash
  <2>2. Serves(sview[w].newProgram)
    BY <2>1 DEF Start
  <2>3. QED
    BY <2>2 DEF Serves, ApprovalInv, ScopeInv, Given, Sessions
<1>3. QED
  BY <1>1, <1>2, ScopeNext, ApprovalInvariant, TInvariant, PTL DEF Spec, StartsOnKnownScope

-----------------------------------------------------------------------------
(* A sync_programs session changes the source's status to approved only, so  *)
(* a status that is not the one that a syncer has loaded is that, as long as *)
(* no other has overtaken it.                                                *)
AlertInv ==
  /\ FailureIsAlerted
  /\ \A s \in Sessions : sview[s].newStatus \in {sview[s].status, "approved"}
  /\ \A f \in Syncers :
       ppc[f] # "idle" /\ ~pview[f].overtaken
         => source.status \in {pview[f].source.status, "approved"}

LEMMA AlertWrite ==
  ASSUME TInv, AlertInv, NEW s \in Sessions, Write(s)
  PROVE  /\ source'.status \in {source.status, "approved"}
         /\ source'.revision = source.revision /\ UNCHANGED <<alerts, known, ppc, pview>>
<1>1. source'.status = Column(sview[s].status, sview[s].newStatus, source.status)
  BY DEF Write, TInv, TypeOK, Sources
<1>2. source'.status \in {source.status, "approved"}
  BY <1>1 DEF AlertInv, Column
<1> QED
  BY <1>2, WriteTypes DEF TInv, Write, psync

(* A failure that begins is announced by the commit that stores it; one that *)
(* goes on keeps its announcement.                                           *)
LEMMA AlertPlatform ==
  ASSUME TInv, AlertInv, NEW f \in Syncers, PlatformCommit(f) PROVE FailureIsAlerted'
<1> DEFINE v == pview[f]
<1>0. SUFFICES ASSUME ~v.overtaken, Fetched(v) \/ known.alone PROVE FailureIsAlerted'
  <2>1. known'.alone => ~v.overtaken /\ (Fetched(v) \/ known.alone)
    BY DEF PlatformCommit, PlatformWrite, Learns
  <2>2. QED
    BY <2>1 DEF FailureIsAlerted
<1>1. /\ v.answer \in Answers /\ v.source.revision = source.revision
      /\ source.status \in {v.source.status, "approved"}
  BY <1>0 DEF TInv, SyncersInv, AlertInv, PlatformCommit
<1>2. /\ source'.status = Column(v.source.status, NewStatus(v), source.status)
      /\ source'.revision = StoredRevision(v) /\ alerts' = OldAlerts(v) \union NewAlerts(v)
  BY DEF PlatformCommit, PlatformWrite
<1>3. known.alone => FailureIsAlerted
  BY DEF AlertInv
<1>4. CASE v.answer = "rejected"
  <2>1. Fails(v) /\ ~Fetched(v) /\ NewStatus(v) = "auth_error"
    BY <1>4 DEF Fails, Fetched, NewStatus
  <2>2. OldAlerts(v) = alerts /\ StoredRevision(v) = source.revision
    BY <2>1 DEF OldAlerts, StoredRevision
  <2>3. alerts \subseteq alerts' /\ source'.revision = source.revision
    BY <1>2, <2>2
  <2>4. CASE v.source.status = "auth_error"
    <3>1. source'.status = source.status
      BY <1>2, <2>1, <2>4 DEF Column
    <3> QED
      BY <1>0, <1>3, <2>1, <2>3, <3>1 DEF FailureIsAlerted
  <2>5. CASE v.source.status # "auth_error"
    <3>1. source'.status = "auth_error"
      BY <1>2, <2>1, <2>5 DEF Column
    <3>2. NewAlerts(v) = {<<NewStatus(v), NoRevision>>}
      BY <1>0, <1>4, <2>1, <2>5 DEF NewAlerts, Incident
    <3>3. <<"auth_error", NoRevision>> \in alerts'
      BY <1>2, <2>1, <3>2
    <3> QED
      BY <3>1, <3>3 DEF FailureIsAlerted
  <2> QED
    BY <2>4, <2>5
<1>5. CASE v.answer = "down" /\ v.source.stale
  <2>1. Fails(v) /\ ~Fetched(v) /\ NewStatus(v) = "error"
    BY <1>5 DEF Fails, Fetched, NewStatus
  <2>2. OldAlerts(v) = alerts /\ StoredRevision(v) = source.revision
    BY <2>1 DEF OldAlerts, StoredRevision
  <2>3. alerts \subseteq alerts' /\ source'.revision = source.revision
    BY <1>2, <2>2
  <2>4. CASE v.source.status = "error"
    <3>1. source'.status = source.status
      BY <1>2, <2>1, <2>4 DEF Column
    <3> QED
      BY <1>0, <1>3, <2>1, <2>3, <3>1 DEF FailureIsAlerted
  <2>5. CASE v.source.status # "error"
    <3>1. source'.status = "error"
      BY <1>2, <2>1, <2>5 DEF Column
    <3>2. NewAlerts(v) = {<<NewStatus(v), NoRevision>>}
      BY <1>0, <1>5, <2>1, <2>5 DEF NewAlerts, Incident
    <3>3. <<"error", NoRevision>> \in alerts'
      BY <1>2, <2>1, <3>2
    <3> QED
      BY <3>1, <3>3 DEF FailureIsAlerted
  <2> QED
    BY <2>4, <2>5
<1>6. CASE v.answer = "down" /\ ~v.source.stale
  <2>1. ~Fetched(v) /\ NewStatus(v) = v.source.status
    BY <1>6 DEF Fetched, NewStatus
  <2>2. OldAlerts(v) = alerts /\ StoredRevision(v) = source.revision
    BY <2>1 DEF OldAlerts, StoredRevision
  <2> QED
    BY <1>0, <1>1, <1>2, <1>3, <2>1, <2>2 DEF FailureIsAlerted, Column
<1>7. CASE v.answer = "unsafe"
  <2>1. ~Fails(v) /\ Fetched(v) /\ NewStatus(v) = "error"
    BY <1>7 DEF Fails, Fetched, NewStatus
  <2>2. StoredRevision(v) = v.revision
    BY <1>1, <2>1 DEF StoredRevision, Column
  <2>3. NewAlerts(v) = {<<"unsafe", v.revision>>}
    BY <1>7, <2>1 DEF NewAlerts
  <2>4. source'.status # "auth_error"
    BY <1>1, <1>2, <2>1 DEF Column
  <2> QED
    BY <1>2, <2>2, <2>3, <2>4 DEF FailureIsAlerted
<1>8. CASE v.answer = "ok"
  <2>1. NewStatus(v) \in {"approved", "pending"}
    BY <1>8 DEF NewStatus
  <2>2. source'.status \in {"approved", "pending"}
    BY <1>1, <1>2, <2>1 DEF Column
  <2> QED
    BY <2>2 DEF FailureIsAlerted
<1> QED
  BY <1>1, <1>4, <1>5, <1>6, <1>7, <1>8 DEF Answers

LEMMA AlertNext == TInv /\ AlertInv /\ [Next]_vars => AlertInv'
<1> SUFFICES ASSUME TInv, AlertInv, [Next]_vars PROVE AlertInv'
  OBVIOUS
<1> USE DEF env, syncs, psync
<1>1. NoView.newStatus = NoView.status
  BY DEF NoView
<1>2. ASSUME NEW s \in Sessions, Load(s) PROVE AlertInv'
  <2>1. /\ sview'[s].newStatus = SyncedStatus(source) /\ sview'[s].status = source.status
        /\ \A t \in Sessions \ {s} : sview'[t] = sview[t]
    BY <1>2 DEF Load, TInv, TypeOK
  <2>2. SyncedStatus(source) \in {source.status, "approved"}
    BY DEF SyncedStatus
  <2> QED
    BY <1>2, <2>1, <2>2 DEF Load, AlertInv, FailureIsAlerted
<1>3. ASSUME NEW s \in Sessions, Leave(s), Write(s) \/ UNCHANGED <<source, psync, alerts, known>>
      PROVE  AlertInv'
  <2>1. \A t \in Sessions : sview'[t] = NoView \/ sview'[t] = sview[t]
    BY <1>3 DEF Leave, TInv, TypeOK
  <2>2. /\ source'.status \in {source.status, "approved"} /\ source'.revision = source.revision
        /\ UNCHANGED <<alerts, known, ppc, pview>>
    BY <1>3, AlertWrite
  <2> QED
    BY <1>1, <2>1, <2>2 DEF AlertInv, FailureIsAlerted
<1>4. ASSUME NEW w \in Workers, Start(w) PROVE AlertInv'
  <2>1. \A t \in Sessions : sview'[t].newStatus = sview[t].newStatus /\ sview'[t].status = sview[t].status
    BY <1>4 DEF Start, TInv, TypeOK, Views
  <2> QED
    BY <1>4, <2>1 DEF Start, AlertInv, FailureIsAlerted
<1>5. CASE GoesStale
  <2>1. source'.status = source.status /\ source'.revision = source.revision
    BY <1>5 DEF GoesStale, TInv, TypeOK, Sources
  <2>2. ASSUME NEW f \in Syncers
        PROVE  /\ pview'[f].source.status = pview[f].source.status
               /\ pview'[f].overtaken = pview[f].overtaken
    <3>1. pview[f] \in PViews
      BY DEF TInv, TypeOK
    <3>2. pview'[f] = pview[f] \/ pview'[f] = [pview[f] EXCEPT !.source.stale = TRUE]
      BY <1>5 DEF GoesStale, TInv, TypeOK
    <3>3. QED
      BY <3>1, <3>2, Older
  <2>3. UNCHANGED <<ppc, sview, alerts, known>>
    BY <1>5 DEF GoesStale
  <2>4. FailureIsAlerted'
    BY <2>1, <2>3 DEF AlertInv, FailureIsAlerted
  <2> QED
    BY <2>1, <2>2, <2>3, <2>4 DEF AlertInv
<1>6. ASSUME NEW f \in Syncers, PlatformLoad(f) \/ PlatformFetch(f) \/ PlatformCrash(f)
      PROVE  AlertInv'
  <2>1. /\ UNCHANGED <<source, alerts, known, sview>>
        /\ \A g \in Syncers \ {f} : ppc'[g] = ppc[g] /\ pview'[g] = pview[g]
    BY <1>6 DEF PlatformLoad, PlatformFetch, PlatformCrash, TInv, TypeOK
  <2>2. ppc'[f] # "idle" /\ ~pview'[f].overtaken
          => source.status \in {pview'[f].source.status, "approved"}
    <3>1. CASE PlatformLoad(f)
      <4>1. pview'[f] = [NoPView EXCEPT !.source = source]
        BY <3>1 DEF PlatformLoad, TInv, TypeOK
      <4>2. QED
        BY <4>1 DEF NoPView
    <3>2. CASE PlatformFetch(f)
      <4>1. /\ ppc[f] # "idle" /\ pview'[f].source = pview[f].source
            /\ pview'[f].overtaken = pview[f].overtaken
        BY <3>2 DEF PlatformFetch, TInv, TypeOK, PViews
      <4>2. QED
        BY <4>1 DEF AlertInv
    <3>3. CASE PlatformCrash(f)
      BY <3>3 DEF PlatformCrash, TInv, TypeOK
    <3>4. QED
      BY <1>6, <3>1, <3>2, <3>3
  <2> QED
    BY <2>1, <2>2 DEF AlertInv, FailureIsAlerted
<1>7. ASSUME NEW f \in Syncers, PlatformCommit(f) PROVE AlertInv'
  <2>1. ASSUME NEW g \in Syncers, ppc'[g] # "idle" PROVE pview'[g].overtaken
    <3>1. g # f /\ ppc[g] # "idle" /\ pview[g] \in PViews
      BY <1>7, <2>1 DEF PlatformCommit, TInv, TypeOK
    <3>2. pview'[g] = [pview[g] EXCEPT !.overtaken = TRUE]
      BY <1>7, <3>1 DEF PlatformCommit
    <3>3. QED
      BY <3>1, <3>2 DEF PViews
  <2> QED
    BY <1>7, <2>1, AlertPlatform DEF PlatformCommit, AlertInv
<1>8. ASSUME UNCHANGED <<source, alerts, known, syncs, psync>> PROVE AlertInv'
  BY <1>8 DEF AlertInv, FailureIsAlerted
<1> QED
  BY <1>2, <1>3, <1>4, <1>5, <1>6, <1>7, <1>8
     DEF Next, Edit, TickCommit, TickConflict, Finish, RollBack, Sessions, vars, SaveManifest,
         SpoilManifest, Reconfigure, PlatformChanges, QuietTick

(* No failure of the platform goes unannounced: whichever sessions write     *)
(* between a fetch and its commit, a source shown as failed has a            *)
(* notification of this failure (platform_sync.py, sync_platform_source),    *)
(* as long as no syncer has overtaken another since the last success.        *)
THEOREM FailuresAreAnnounced == Spec => []FailureIsAlerted
<1>1. Init => AlertInv
  BY DEF Init, AlertInv, FailureIsAlerted, NoSource, NoView
<1>2. AlertInv => FailureIsAlerted
  BY DEF AlertInv
<1> QED
  BY <1>1, <1>2, AlertNext, TInvariant, PTL DEF Spec

-----------------------------------------------------------------------------
(* A pause is settled when the row is paused and no session in flight is     *)
(* about to make it active.                                                  *)
Settled ==
  /\ ~program.active
  /\ \A s \in Sessions : sview[s].newProgram.active => sview[s].program.active

LEMMA ShutPauses == ASSUME Shut, NEW p \in Programs PROVE ~SyncedProgram(p, source).active
<1>1. CASE file.kind = "loaded"
  BY <1>1 DEF Shut, SyncedProgram
<1>2. CASE file.kind # "loaded"
  BY <1>2 DEF SyncedProgram, Programs
<1>3. QED
  BY <1>1, <1>2

(* Property: as long as the gate is shut, a settled pause stays: no session  *)
(* that synchronises, no late commit and no platform job makes the program   *)
(* active again.  It is the part of PausesHold that a single step can break; *)
(* that the pause settles at all is the other.                               *)
THEOREM SettledPausesStay == Spec => [][Shut /\ Settled => Settled']_vars
<1>1. ASSUME TInv, [Next]_vars, Shut, Settled PROVE Settled'
  <2>1. program \in Programs /\ sview \in [Sessions -> Views]
        /\ NoView.newProgram.active = FALSE
    BY <1>1 DEF TInv, TypeOK, NoView, NoProgram
  <2>2. ASSUME NEW s \in Sessions, Load(s) PROVE Settled'
    <3>1. ~SyncedProgram(program, source).active
      BY <1>1, <2>1, ShutPauses
    <3>2. program' = program /\ ~sview'[s].newProgram.active
          /\ \A t \in Sessions \ {s} : sview'[t] = sview[t]
      BY <2>1, <2>2, <3>1 DEF Load
    <3>3. QED
      BY <1>1, <3>2 DEF Settled
  <2>3. ASSUME NEW s \in Sessions, Leave(s), program' = program \/ Write(s) PROVE Settled'
    <3>1. ~program'.active
      BY <1>1, <2>1, <2>3 DEF Settled, Write, FlushProgram, Column, Views, Programs
    <3>2. \A t \in Sessions : sview'[t] = sview[t] \/ sview'[t] = NoView
      BY <2>1, <2>3 DEF Leave
    <3>3. QED
      BY <1>1, <2>1, <3>1, <3>2 DEF Settled
  <2>4. ASSUME NEW w \in Workers, Start(w) PROVE Settled'
    <3>1. program' = program /\ \A t \in Sessions : /\ sview'[t].newProgram = sview[t].newProgram
                                                    /\ sview'[t].program = sview[t].program
      BY <2>1, <2>4 DEF Start, Views
    <3>2. QED
      BY <1>1, <3>1 DEF Settled
  <2>5. ASSUME NEW f \in Syncers, PlatformCommit(f) PROVE Settled'
    <3>1. ~program'.active /\ sview' = sview
      BY <1>1, <2>1, <2>5 DEF PlatformCommit, PlatformWrite, Settled, Programs, syncs
    <3>2. QED
      BY <1>1, <3>1 DEF Settled
  <2>6. ASSUME UNCHANGED <<program, sview>> PROVE Settled'
    BY <1>1, <2>6 DEF Settled
  <2>7. CASE Edit \/ PlatformChanges \/ GoesStale
    BY <2>6, <2>7
       DEF Edit, SaveManifest, SpoilManifest, Reconfigure, PlatformChanges, GoesStale, syncs
  <2>8. ASSUME NEW s \in Sessions, TickCommit(s) \/ TickConflict(s) PROVE Settled'
    BY <2>3, <2>8 DEF TickCommit, TickConflict
  <2>9. ASSUME NEW w \in Workers, Finish(w) \/ RollBack(w) PROVE Settled'
    BY <2>3, <2>9, GateAssumption DEF Finish, RollBack, Sessions
  <2>10. ASSUME NEW f \in Syncers, PlatformLoad(f) \/ PlatformFetch(f) \/ PlatformCrash(f)
         PROVE  Settled'
    BY <2>6, <2>10 DEF PlatformLoad, PlatformFetch, PlatformCrash, syncs
  <2>11. CASE UNCHANGED vars \/ \E s \in Sessions : QuietTick(s)
    BY <2>6, <2>11 DEF QuietTick, vars, syncs
  <2>12. QED
    BY <1>1, <2>2, <2>4, <2>5, <2>7, <2>8, <2>9, <2>10, <2>11 DEF Next
<1>2. QED
  BY <1>1, TInvariant, PTL DEF Spec
=============================================================================
