------------------------ MODULE PlatformScopeProofs ------------------------
(***************************************************************************)
(* What holds of PlatformScope for any snapshots, manifests, edits and     *)
(* probes.                                                                 *)
(***************************************************************************)
EXTENDS PlatformScope, FiniteSetTheorems, TLAPS

-----------------------------------------------------------------------------
(* The assumptions on the constants, one by one.                             *)
LEMMA SnapshotType == ASSUME NEW s \in Snapshots PROVE s \subseteq Assets
BY PlatformScopeAssumption

LEMMA DraftType == ASSUME NEW m \in Drafts PROVE m \in Manifests /\ Accepted(m)
BY PlatformScopeAssumption

LEMMA LocalExcludeType == LocalExcludes \subseteq Rules
BY PlatformScopeAssumption

LEMMA SwitchType ==
  ASSUME NEW s \in Switches PROVE s[1] \in SUBSET Tools /\ s[2] \in SUBSET Kinds
BY PlatformScopeAssumption

LEMMA PolicyType == DefaultPolicy \in Policies
BY PlatformScopeAssumption

LEMMA Sentinels == NoRule \notin Rules /\ NoManifest \notin Manifests
BY PlatformScopeAssumption

LEMMA ProbeType == Probes \subseteq Targets
BY PlatformScopeAssumption

LEMMA Bound == MaxChanges \in Nat
BY PlatformScopeAssumption

-----------------------------------------------------------------------------
(* What _normalize_one makes of a listed target is a rule, or none.          *)
LEMMA UrlRuleType ==
  ASSUME NEW x \in Listed, x.form = "url" PROVE UrlRule(x) \in Rules \union {NoRule}
<1>1. /\ x.scheme \in Schemes /\ x.host \in Hosts /\ x.port \in Ports /\ x.path \in Paths
  BY DEF Listed
<1>2. TRUE \in BOOLEAN /\ FALSE \in BOOLEAN
  OBVIOUS
<1>3. Domain(x.host, TRUE) \in Rules
  BY <1>1, <1>2 DEF Domain, Rules
<1>4. [type |-> "url", scheme |-> x.scheme, host |-> x.host, wild |-> FALSE,
       port |-> x.port, path |-> x.path] \in Rules
  BY <1>1, <1>2 DEF Rules
<1> QED
  BY <1>3, <1>4 DEF UrlRule

LEMMA NormalizeOneType ==
  ASSUME NEW a \in Assets PROVE NormalizeOne(a) \in Rules \union {NoRule}
<1> DEFINE x == a.target
<1>1. x \in Listed
  BY DEF Assets
<1>2. CASE x.form = "network"
  <2>1. x.network \in Networks
    BY <1>1, <1>2 DEF Listed
  <2> QED
    BY <1>2, <2>1 DEF NormalizeOne, Rules
<1>3. CASE x.form = "url"
  BY <1>1, <1>3, UrlRuleType DEF NormalizeOne
<1>4. CASE x.form \in {"github", "repository", "text"}
  <2>1. x.id \in Ids /\ (x.form # "text" => x.id \in Repositories)
    BY <1>1, <1>4 DEF Listed, Ids
  <2>2. Identifier("cloud", x.id) \in Rules
    BY <2>1 DEF Identifier, Rules
  <2>3. x.form # "text" => Identifier("repository", x.id) \in Rules
    BY <2>1 DEF Identifier, Rules
  <2> QED
    BY <1>4, <2>2, <2>3 DEF NormalizeOne
<1>5. CASE x.form = "name"
  <2>1. x.host \in Hosts /\ x.wild \in BOOLEAN
    BY <1>1, <1>5 DEF Listed
  <2>2. Domain(x.host, x.wild) \in Rules
    BY <2>1 DEF Domain, Rules
  <2> QED
    BY <1>5, <2>2 DEF NormalizeOne
<1> QED
  BY <1>1, <1>2, <1>3, <1>4, <1>5 DEF Listed

LEMMA NormalizedType ==
  ASSUME NEW assets \in SUBSET Assets, NEW in \in BOOLEAN
  PROVE Normalized(assets, in) \subseteq Rules
BY NormalizeOneType DEF Normalized

(* A key keeps the type of its rule, so only URLs can share one.             *)
LEMMA KeyKeepsType == ASSUME NEW r \in Rules PROVE Key(r).type = r.type
BY DEF Key, Rules

LEMMA OnlyUrlsShareKeys ==
  ASSUME NEW r \in Rules, NEW s \in Rules, Key(r) = Key(s), r # s PROVE r.type = "url"
<1>1. r.type = s.type
  BY KeyKeepsType
<1> QED
  BY <1>1 DEF Key

-----------------------------------------------------------------------------
(* Types, and what every manifest around has passed: the validators.         *)
Valid(m) == m = NoManifest \/ Accepted(m)
Inv == TypeOK /\ Valid(manifest) /\ Valid(candidate) /\ Valid(copy)

LEMMA PicksType == ASSUME NEW rules, NEW s \in Picks(rules) PROVE s \subseteq rules
BY DEF Picks

LEMMA ExcludedByType ==
  ASSUME NEW m \in MaybeManifests PROVE ExcludedBy(m) \in SUBSET Rules
BY DEF ExcludedBy, MaybeManifests, Manifests

LEMMA BuiltType ==
  ASSUME NEW m \in MaybeManifests, NEW assets, NEW include \in SUBSET Rules,
         NEW exclude \in SUBSET Rules
  PROVE  Built(m, assets, include, exclude) \in Manifests
<1>1. CASE m = NoManifest
  BY <1>1, PolicyType DEF Built, Manifests
<1>2. CASE m # NoManifest
  <2>1. m \in Manifests
    BY <1>2 DEF MaybeManifests
  <2> QED
    BY <1>2, <2>1 DEF Built, Manifests
<1> QED
  BY <1>1, <1>2

LEMMA InvInit == Init => Inv
<1> SUFFICES ASSUME Init PROVE Inv
  OBVIOUS
<1>1. manifest \in MaybeManifests /\ Valid(manifest)
  BY DraftType DEF Init, MaybeManifests, Valid
<1>2. candidate \in MaybeManifests /\ Valid(candidate) /\ copy \in MaybeManifests /\ Valid(copy)
  BY DEF Init, MaybeManifests, Valid
<1>3. platform \in Snapshots /\ changes \in 0 .. MaxChanges
  BY Bound DEF Init
<1>4. basis \in [assets : Snapshots \union {{}}, exclude : SUBSET Rules]
  BY DEF Init
<1> QED
  BY <1>1, <1>2, <1>3, <1>4 DEF Inv, TypeOK

LEMMA InvSync == ASSUME Inv, Sync PROVE Inv'
<1> USE DEF Inv
<1>1. PICK include \in Picks(Normalized(platform, TRUE)),
           listed \in Picks(Normalized(platform, FALSE)),
           local \in Picks(ExcludedBy(manifest)) :
         candidate' = IF Accepted(Built(manifest, platform, include, Excluded(local, listed)))
                        THEN Built(manifest, platform, include, Excluded(local, listed))
                        ELSE NoManifest
  BY DEF Sync
<1>2. platform \in Snapshots /\ platform \in SUBSET Assets /\ manifest \in MaybeManifests
  BY SnapshotType DEF TypeOK
<1>3. TRUE \in BOOLEAN /\ FALSE \in BOOLEAN
  OBVIOUS
<1>4. include \in SUBSET Rules /\ listed \in SUBSET Rules /\ local \in SUBSET Rules
  BY <1>2, <1>3, NormalizedType, PicksType, ExcludedByType
<1>5. Excluded(local, listed) \in SUBSET Rules
  BY <1>4 DEF Excluded
<1>6. Built(manifest, platform, include, Excluded(local, listed)) \in Manifests
  BY <1>2, <1>4, <1>5, BuiltType
<1>7. candidate' \in MaybeManifests /\ Valid(candidate)'
  BY <1>1, <1>6 DEF MaybeManifests, Valid
<1>8. basis' \in [assets : Snapshots \union {{}}, exclude : SUBSET Rules]
  BY <1>2, ExcludedByType DEF Sync
<1>9. UNCHANGED <<platform, manifest, copy, changes>>
  BY DEF Sync
<1>10. Valid(manifest)' /\ Valid(copy)'
  BY <1>9 DEF Valid
<1> QED
  BY <1>7, <1>8, <1>9, <1>10 DEF TypeOK

LEMMA InvExport == ASSUME Inv, Export PROVE Inv'
BY DEF Inv, Export, TypeOK, Valid

LEMMA InvInstall == ASSUME Inv, Install PROVE Inv'
<1>1. manifest' \in MaybeManifests /\ Valid(manifest)'
  BY DEF Inv, Install, TypeOK, Valid
<1>2. copy' \in MaybeManifests /\ Valid(copy)'
  BY DEF Inv, Install, TypeOK, Valid, MaybeManifests
<1>3. UNCHANGED <<platform, candidate, basis, changes>>
  BY DEF Install
<1>4. Valid(candidate)'
  BY <1>3 DEF Inv, Valid
<1> QED
  BY <1>1, <1>2, <1>3, <1>4 DEF Inv, TypeOK

LEMMA InvEdit == ASSUME Inv, Edit PROVE Inv'
<1>1. manifest \in Manifests
  BY DEF Inv, TypeOK, Edit, MaybeManifests
<1>2. manifest' \in Manifests
  <2>1. CASE \E r \in LocalExcludes : manifest' = [manifest EXCEPT !.exclude = @ \union {r}]
    BY <1>1, <2>1, LocalExcludeType DEF Manifests
  <2>2. CASE \E r \in manifest.include : manifest' = [manifest EXCEPT !.include = @ \ {r}]
    BY <1>1, <2>2 DEF Manifests
  <2>3. CASE \E s \in Switches : manifest' = [manifest EXCEPT !.tools = s[1], !.schedules = s[2]]
    <3>1. PICK s \in Switches : manifest' = [manifest EXCEPT !.tools = s[1], !.schedules = s[2]]
      BY <2>3
    <3> QED
      BY <1>1, <3>1, SwitchType DEF Manifests
  <2> QED
    BY <2>1, <2>2, <2>3 DEF Edit
<1>3. manifest' \in MaybeManifests /\ Valid(manifest)'
  BY <1>2 DEF MaybeManifests, Valid, Edit
<1>4. changes' \in 0 .. MaxChanges
  <2>1. Change
    BY DEF Edit
  <2> QED
    BY <2>1, Bound DEF Inv, TypeOK, Change
<1>5. UNCHANGED <<platform, candidate, copy, basis>>
  BY DEF Edit
<1>6. Valid(candidate)' /\ Valid(copy)'
  BY <1>5 DEF Inv, Valid
<1> QED
  BY <1>3, <1>4, <1>5, <1>6 DEF Inv, TypeOK

LEMMA InvPlatformChange == ASSUME Inv, PlatformChange PROVE Inv'
<1>1. changes' \in 0 .. MaxChanges
  BY Bound DEF Inv, TypeOK, PlatformChange, Change
<1> QED
  BY <1>1 DEF Inv, TypeOK, PlatformChange, Valid

LEMMA InvNext == Inv /\ [Next]_vars => Inv'
<1> SUFFICES ASSUME Inv, [Next]_vars PROVE Inv'
  OBVIOUS
<1>1. CASE UNCHANGED vars
  BY <1>1 DEF vars, Inv, TypeOK, Valid
<1> QED
  BY <1>1, InvSync, InvExport, InvInstall, InvEdit, InvPlatformChange DEF Next

LEMMA Invariance == Spec => []Inv
BY InvInit, InvNext, PTL DEF Spec

(* Snapshots, manifests, candidates and exported copies keep their types     *)
(* (Program, PlatformSourceState), whatever is listed, edited and installed. *)
THEOREM TypeCorrect == Spec => []TypeOK
<1>1. Inv => TypeOK
  BY DEF Inv
<1> QED
  BY <1>1, Invariance, PTL

(* A manifest that loads has a seed for the scans it schedules: what         *)
(* scheduled_scanners_need_concrete_targets accepts, default_targets finds.  *)
THEOREM ScheduledScansHaveSeeds == Spec => []SchedulesHaveSeeds
<1>1. ASSUME NEW m, NEW r \in m.include, Concrete(r) PROVE DefaultTargets(m) # {}
  <2>1. r \in Seeding(m)
    BY <1>1 DEF Concrete, Seeding
  <2> QED
    BY <2>1 DEF DefaultTargets
<1>2. Inv => SchedulesHaveSeeds
  BY <1>1 DEF Inv, Valid, Accepted, SchedulesHaveSeeds
<1> QED
  BY <1>2, Invariance, PTL

-----------------------------------------------------------------------------
(* A listed target and the rule it becomes.                                  *)
LEMMA InScopeIsBoolean ==
  ASSUME NEW a \in Assets
  PROVE  /\ a.in_scope = FALSE <=> ~a.in_scope
         /\ a.in_scope = TRUE <=> a.in_scope
<1>1. a.in_scope \in BOOLEAN
  BY DEF Assets
<1> QED
  BY <1>1, Zenon

LEMMA UrlRuleCases ==
  ASSUME NEW x \in Listed, x.form = "url", UrlRule(x) # NoRule
  PROVE  \/ x.wild /\ UrlRule(x) = Domain(x.host, TRUE)
         \/ ~x.wild /\ UrlRule(x) = [type |-> "url", scheme |-> x.scheme, host |-> x.host,
                                     wild |-> FALSE, port |-> x.port, path |-> x.path]
<1>1. x.odd \in BOOLEAN /\ x.wild \in BOOLEAN
  BY DEF Listed
<1> QED
  BY <1>1 DEF UrlRule

LEMMA MeansMatches ==
  ASSUME NEW a \in Assets, NEW t, NormalizeOne(a) # NoRule, Means(a.target, t)
  PROVE  Matches(NormalizeOne(a), t)
<1> DEFINE x == a.target
<1>1. x \in Listed
  BY DEF Assets
<1>2. CASE x.form = "network"
  BY <1>2 DEF NormalizeOne, Means, MeansNetwork, Matches
<1>3. CASE x.form = "url"
  <2>1. MeansUrl(x, t) /\ NormalizeOne(a) = UrlRule(x)
    BY <1>3 DEF Means, NormalizeOne
  <2>2. CASE x.wild /\ UrlRule(x) = Domain(x.host, TRUE)
    BY <2>1, <2>2 DEF MeansUrl, OnHost, Matches, HostMatches, Domain
  <2>3. CASE ~x.wild /\ UrlRule(x) = [type |-> "url", scheme |-> x.scheme, host |-> x.host,
                                     wild |-> FALSE, port |-> x.port, path |-> x.path]
    BY <2>1, <2>3 DEF MeansUrl, OnHost, Matches, HostMatches, EffectivePort
  <2> QED
    BY <1>1, <1>3, <2>1, <2>2, <2>3, UrlRuleCases
<1>4. CASE x.form \in {"github", "repository", "text"}
  BY <1>4 DEF NormalizeOne, Identifier, Means, MeansId, Matches
<1>5. CASE x.form = "name"
  <2>1. NormalizeOne(a) = Domain(x.host, x.wild) /\ MeansHost(x, t)
    BY <1>5 DEF NormalizeOne, Means
  <2> QED
    BY <2>1 DEF Domain, MeansHost, OnHost, Matches, HostMatches
<1> QED
  BY <1>1, <1>2, <1>3, <1>4, <1>5 DEF Listed

LEMMA MatchesMeans ==
  ASSUME NEW a \in Assets, NEW t, NormalizeOne(a) # NoRule, Matches(NormalizeOne(a), t)
  PROVE  Means(a.target, t)
         \/ (a.target.form = "url" /\ a.target.wild /\ MeansHost(a.target, t))
<1> DEFINE x == a.target
<1>1. x \in Listed
  BY DEF Assets
<1>2. CASE x.form = "network"
  BY <1>2 DEF NormalizeOne, Means, MeansNetwork, Matches
<1>3. CASE x.form = "url"
  <2>1. NormalizeOne(a) = UrlRule(x)
    BY <1>3 DEF NormalizeOne
  <2>2. CASE x.wild /\ UrlRule(x) = Domain(x.host, TRUE)
    BY <1>3, <2>1, <2>2 DEF MeansHost, OnHost, Matches, HostMatches, Domain
  <2>3. CASE ~x.wild /\ UrlRule(x) = [type |-> "url", scheme |-> x.scheme, host |-> x.host,
                                     wild |-> FALSE, port |-> x.port, path |-> x.path]
    BY <1>3, <2>1, <2>3 DEF Means, MeansUrl, OnHost, Matches, HostMatches, EffectivePort
  <2> QED
    BY <1>1, <1>3, <2>1, <2>2, <2>3, UrlRuleCases
<1>4. CASE x.form \in {"github", "repository", "text"}
  BY <1>4 DEF NormalizeOne, Identifier, Means, MeansId, Matches
<1>5. CASE x.form = "name"
  <2>1. NormalizeOne(a) = Domain(x.host, x.wild)
    BY <1>5 DEF NormalizeOne
  <2> QED
    BY <1>5, <2>1 DEF Domain, Means, MeansHost, OnHost, Matches, HostMatches
<1> QED
  BY <1>1, <1>2, <1>3, <1>4, <1>5 DEF Listed

-----------------------------------------------------------------------------
(* What a sync makes of the platform's list and the manifest in force.       *)
LEMMA ExclusionKept ==
  ASSUME NEW new \in SUBSET Rules, NEW old \in SUBSET Rules,
         NEW listed \in Picks(new), NEW local \in Picks(old), NEW r \in old \union new
  PROVE  \/ r \in Excluded(local, listed)
         \/ /\ r.type = "url"
            /\ \E other \in Excluded(local, listed) : other # r /\ Key(other) = Key(r)
<1>1. r \in Rules /\ listed \subseteq Rules /\ local \subseteq Rules
  <2>1. listed \subseteq new /\ local \subseteq old
    BY PicksType, Zenon
  <2> QED
    BY <2>1
<1>2. \E s \in Excluded(local, listed) : Key(s) = Key(r)
  <2>1. CASE r \in new
    <3>1. Key(r) \in Keys(listed)
      BY <2>1 DEF Picks, Keys
    <3>2. PICK s \in listed : Key(s) = Key(r)
      BY <3>1 DEF Keys
    <3> QED
      BY <3>2 DEF Excluded
  <2>2. CASE r \in old
    <3>1. PICK s \in local : Key(s) = Key(r)
      BY <2>2 DEF Picks, Keys
    <3>2. CASE Key(s) \in Keys(listed)
      BY <3>1, <3>2 DEF Keys, Excluded
    <3>3. CASE Key(s) \notin Keys(listed)
      BY <3>1, <3>3 DEF Excluded
    <3> QED
      BY <3>2, <3>3
  <2> QED
    BY <2>1, <2>2
<1>3. PICK s \in Excluded(local, listed) : Key(s) = Key(r)
  BY <1>2
<1>4. s \in Rules
  BY <1>1 DEF Excluded
<1> QED
  <2>1. r \in Rules
    BY <1>1
  <2>2. CASE s = r
    BY <1>3, <2>2
  <2>3. CASE s # r
    <3>1. r.type = "url"
      BY <1>3, <1>4, <2>1, <2>3, OnlyUrlsShareKeys
    <3> QED
      BY <1>3, <2>3, <3>1
  <2> QED
    BY <2>2, <2>3

LEMMA ListedTargetsAreFound ==
  ASSUME NEW assets \in SUBSET Assets, NEW a \in assets, NEW t,
         NormalizeOne(a) # NoRule, ~a.in_scope, Means(a.target, t)
  PROVE  \E r \in Normalized(assets, FALSE) : Matches(r, t)
<1>1. a \in Assets
  OBVIOUS
<1>2. Matches(NormalizeOne(a), t)
  BY <1>1, MeansMatches
<1>3. a.in_scope = FALSE
  BY <1>1, InScopeIsBoolean
<1>4. NormalizeOne(a) \in Normalized(assets, FALSE)
  BY <1>3 DEF Normalized
<1> QED
  BY <1>2, <1>4

LEMMA SyncKeepsExclusions == ASSUME Inv, Sync PROVE ExclusionsSurvive'
<1>1. PICK include \in Picks(Normalized(platform, TRUE)),
           listed \in Picks(Normalized(platform, FALSE)),
           local \in Picks(ExcludedBy(manifest)) :
         candidate' = IF Accepted(Built(manifest, platform, include, Excluded(local, listed)))
                        THEN Built(manifest, platform, include, Excluded(local, listed))
                        ELSE NoManifest
  BY DEF Sync
<1>2. basis' = [assets |-> platform, exclude |-> ExcludedBy(manifest)]
  BY DEF Sync
<1>3. basis'.assets = platform /\ basis'.exclude = ExcludedBy(manifest)
  BY <1>2
<1>4. platform \in SUBSET Assets /\ manifest \in MaybeManifests
  BY SnapshotType DEF Inv, TypeOK
<1> SUFFICES ASSUME candidate' # NoManifest, NEW t \in Probes
             PROVE  \/ Denied(candidate', t)
                    \/ GaveWay(basis.exclude \union Normalized(basis.assets, FALSE), t)'
                    \/ candidate'.tools = {} /\ candidate'.schedules = {}
                    \/ /\ ~\E a \in basis'.assets : ~a.in_scope /\ Means(a.target, t)
                       /\ ~\E r \in basis'.exclude : Matches(r, t)
  BY DEF ExclusionsSurvive
<1>5. candidate' = Built(manifest, platform, include, Excluded(local, listed))
  BY <1>1
<1>6. candidate'.exclude = Excluded(local, listed)
  BY <1>5 DEF Built
<1>7. ASSUME NEW r \in ExcludedBy(manifest) \union Normalized(platform, FALSE), Matches(r, t)
      PROVE  \/ Denied(candidate', t)
             \/ GaveWay(basis.exclude \union Normalized(basis.assets, FALSE), t)'
  <2>1. CASE r \in Excluded(local, listed)
    BY <1>6, <1>7, <2>1 DEF Denied
  <2>2. CASE /\ r.type = "url"
             /\ \E other \in Excluded(local, listed) : other # r /\ Key(other) = Key(r)
    BY <1>3, <1>6, <1>7, <2>2 DEF GaveWay
  <2>3. \/ r \in Excluded(local, listed)
        \/ /\ r.type = "url"
           /\ \E other \in Excluded(local, listed) : other # r /\ Key(other) = Key(r)
    <3> DEFINE new == Normalized(platform, FALSE)
               old == ExcludedBy(manifest)
    <3>1. FALSE \in BOOLEAN
      OBVIOUS
    <3>2. new \in SUBSET Rules
      BY <1>4, <3>1, NormalizedType
    <3>3. old \in SUBSET Rules
      BY <1>4, ExcludedByType
    <3>4. listed \in Picks(new) /\ local \in Picks(old) /\ r \in old \union new
      OBVIOUS
    <3> HIDE DEF new, old
    <3> QED
      BY <3>2, <3>3, <3>4, ExclusionKept
  <2> QED
    BY <2>1, <2>2, <2>3
<1>8. ASSUME NEW a \in platform, ~a.in_scope, NormalizeOne(a) = NoRule
      PROVE  candidate'.tools = {} /\ candidate'.schedules = {}
  <2>1. Unsafe(platform)
    BY <1>8 DEF Unsafe
  <2> QED
    BY <1>5, <2>1 DEF Built
<1>9. CASE \E a \in platform : ~a.in_scope /\ Means(a.target, t)
  <2>1. PICK a \in platform : ~a.in_scope /\ Means(a.target, t)
    BY <1>9
  <2>2. CASE NormalizeOne(a) = NoRule
    BY <1>8, <2>1, <2>2
  <2>3. CASE NormalizeOne(a) # NoRule
    <3>1. \E r \in Normalized(platform, FALSE) : Matches(r, t)
      BY <1>4, <2>1, <2>3, ListedTargetsAreFound
    <3> QED
      BY <1>7, <3>1
  <2> QED
    BY <2>2, <2>3
<1>10. CASE \E r \in ExcludedBy(manifest) : Matches(r, t)
  BY <1>7, <1>10
<1> QED
  BY <1>3, <1>9, <1>10

LEMMA ExclusionsInit == Init => ExclusionsSurvive
BY DEF Init, ExclusionsSurvive

LEMMA ExclusionsNext == Inv /\ ExclusionsSurvive /\ [Next]_vars => ExclusionsSurvive'
<1> SUFFICES ASSUME Inv, ExclusionsSurvive, [Next]_vars PROVE ExclusionsSurvive'
  OBVIOUS
<1>1. CASE Sync
  BY <1>1, SyncKeepsExclusions
<1>2. CASE ~Sync
  <2>1. UNCHANGED <<candidate, basis>>
    BY <1>2 DEF Next, Export, Install, Edit, PlatformChange, vars
  <2> QED
    BY <2>1 DEF ExclusionsSurvive, GaveWay
<1> QED
  BY <1>1, <1>2

(* Whatever is listed out of scope or was excluded locally, a candidate      *)
(* (build_candidate_manifest) denies, unless it starts nothing or an         *)
(* excluded URL gave way to one that differs by case.                        *)
THEOREM ExclusionsAreKept == Spec => []ExclusionsSurvive
BY ExclusionsInit, ExclusionsNext, Invariance, PTL DEF Spec

-----------------------------------------------------------------------------
LEMMA SyncWidensUrls == ASSUME Inv, Sync PROVE OnlyWildcardUrlsWiden'
<1>1. PICK include \in Picks(Normalized(platform, TRUE)),
           listed \in Picks(Normalized(platform, FALSE)),
           local \in Picks(ExcludedBy(manifest)) :
         candidate' = IF Accepted(Built(manifest, platform, include, Excluded(local, listed)))
                        THEN Built(manifest, platform, include, Excluded(local, listed))
                        ELSE NoManifest
  BY DEF Sync
<1>2. basis'.assets = platform
  BY DEF Sync
<1>3. platform \in SUBSET Assets
  BY SnapshotType DEF Inv, TypeOK
<1> SUFFICES ASSUME candidate' # NoManifest, NEW t \in Probes, Included(candidate', t)
             PROVE  \E a \in platform :
                      /\ a.in_scope
                      /\ \/ Means(a.target, t)
                         \/ a.target.form = "url" /\ a.target.wild /\ MeansHost(a.target, t)
  BY <1>2 DEF OnlyWildcardUrlsWiden
<1>4. candidate'.include = include
  BY <1>1 DEF Built
<1>5. PICK r \in include : Matches(r, t)
  BY <1>4 DEF Included
<1>6. r \in Normalized(platform, TRUE)
  BY PicksType
<1>7. PICK a \in platform : a.in_scope = TRUE /\ r = NormalizeOne(a) /\ r # NoRule
  BY <1>6 DEF Normalized
<1>8. a \in Assets
  BY <1>3
<1>9. a.in_scope
  BY <1>7, Zenon
<1> QED
  BY <1>5, <1>7, <1>8, <1>9, MatchesMeans

(* The widening of a candidate, which docs/FINAL-PIPELINE-PLAN.md:277 denies, *)
(* has one source: what it includes beyond what the platform lists is on a   *)
(* host below that of a URL listed with a star (_normalize_one).             *)
THEOREM OnlyWildcardsWiden == Spec => []OnlyWildcardUrlsWiden
<1>1. Init => OnlyWildcardUrlsWiden
  BY DEF Init, OnlyWildcardUrlsWiden
<1>2. Inv /\ OnlyWildcardUrlsWiden /\ [Next]_vars => OnlyWildcardUrlsWiden'
  <2> SUFFICES ASSUME Inv, OnlyWildcardUrlsWiden, [Next]_vars PROVE OnlyWildcardUrlsWiden'
    OBVIOUS
  <2>1. CASE Sync
    BY <2>1, SyncWidensUrls
  <2>2. CASE ~Sync
    <3>1. UNCHANGED <<candidate, basis>>
      BY <2>2 DEF Next, Export, Install, Edit, PlatformChange, vars
    <3> QED
      BY <3>1 DEF OnlyWildcardUrlsWiden
  <2> QED
    BY <2>1, <2>2
<1> QED
  BY <1>1, <1>2, Invariance, PTL DEF Spec

-----------------------------------------------------------------------------
LEMMA UnderIsTransitive ==
  ASSUME NEW a \in Hosts, NEW b \in Hosts, NEW c \in Hosts, Under(a, b), Under(b, c)
  PROVE  Under(a, c)
<1>1. Len(a) \in Nat /\ Len(b) \in Nat /\ Len(c) \in Nat
  BY DEF Hosts
<1> QED
  BY <1>1 DEF Under

LEMMA RecursionInScope ==
  ASSUME NEW m \in Manifests, NEW t \in Targets, NEW h \in Hosts,
         t.kind \in {"host", "url"}, CanExpand(m, t), Under(h, t.host)
  PROVE  Included(m, HostTarget(h))
<1>1. PICK r \in m.include :
         r.type = "domain" /\ r.wild /\ (t.host = r.host \/ Under(t.host, r.host))
  BY DEF CanExpand
<1>2. t.host \in Hosts
  BY DEF Targets
<1>3. r.host \in Hosts
  <2>1. r \in Rules
    BY DEF Manifests
  <2> QED
    BY <1>1, <2>1 DEF Rules
<1>4. Under(h, r.host)
  BY <1>1, <1>2, <1>3, UnderIsTransitive
<1> QED
  BY <1>1, <1>4 DEF Included, Matches, HostMatches, HostTarget

(* What BBOT reaches below a target that it may recurse from is in scope:    *)
(* _can_expand_subdomains and rule_matches agree, for any manifest.          *)
THEOREM ReachesInScope == Spec => []ReachInScope
<1>1. ASSUME Inv, manifest # NoManifest, NEW t \in Probes, NEW u \in Probes,
             t.kind \in {"host", "url"}, u.kind = "host",
             BbotStarts(manifest, {t}), BbotReaches(manifest, {t}, u.host), u.host # t.host
      PROVE  Authorized(manifest, u, FALSE)
  <2>1. manifest \in Manifests
    BY <1>1 DEF Inv, TypeOK, MaybeManifests
  <2>2. t \in Targets /\ u \in Targets
    BY ProbeType
  <2>3. u.host \in Hosts /\ u = HostTarget(u.host)
    BY <1>1, <2>2 DEF Targets, HostTarget
  <2>4. CanExpand(manifest, t) /\ Under(u.host, t.host)
    BY <1>1 DEF BbotReaches
  <2>5. Included(manifest, u)
    BY <1>1, <2>1, <2>2, <2>3, <2>4, RecursionInScope
  <2>6. ~Denied(manifest, u)
    BY <1>1, <2>3 DEF BbotReaches
  <2>7. "GET" \in manifest.policy.methods
    BY <1>1 DEF BbotStarts, Authorized
  <2>8. ~Mixed(manifest.exclude, u)
    BY <1>1 DEF Mixed
  <2> QED
    BY <1>1, <2>5, <2>6, <2>7, <2>8 DEF Authorized
<1>2. Inv => ReachInScope
  BY <1>1 DEF ReachInScope
<1> QED
  BY <1>2, Invariance, PTL

-----------------------------------------------------------------------------
(* Nuclei on a network in scope: one target for every address left.          *)
Left(m, n) == {a \in HostAddresses(n) : ~Named(m.exclude, a)}

LEMMA HostAddressType ==
  ASSUME NEW n \in Networks
  PROVE  /\ HostAddresses(n) \subseteq Addresses(n) /\ Addresses(n) \subseteq IPs
         /\ \A a \in Addresses(n) : a[1] = n.version
         /\ IsFiniteSet(HostAddresses(n))
<1> DEFINE first == n.base
           last == n.base + 2 ^ n.bits - 1
<1>1. n.base \in Nat /\ n.bits \in Nat /\ 2 ^ n.bits \in Int /\ n.version \in Versions
  BY DEF Networks
<1>2. first \in Nat /\ last \in Int /\ first .. last \subseteq Nat
  BY <1>1
<1>3. Addresses(n) = {n.version} \X (first .. last)
  BY DEF Addresses
<1>4. HostAddresses(n) \subseteq Addresses(n)
  <2>1. n.base + 2 ^ n.bits - 2 <= last
    BY <1>1
  <2>2. n.base + 1 .. n.base + 2 ^ n.bits - (IF n.version = 4 THEN 2 ELSE 1) \subseteq first .. last
    BY <1>1
  <2> HIDE DEF first, last
  <2> QED
    BY <1>3, <2>2 DEF HostAddresses
<1> HIDE DEF first, last
<1>5. Addresses(n) \subseteq IPs /\ \A a \in Addresses(n) : a[1] = n.version
  BY <1>1, <1>2, <1>3 DEF IPs
<1>6. IsFiniteSet(Addresses(n))
  <2>1. IsFiniteSet(first .. last)
    BY <1>2, FS_Interval
  <2>2. IsFiniteSet({n.version})
    BY FS_Singleton
  <2> QED
    BY <1>3, <2>1, <2>2, FS_Product
<1> QED
  BY <1>4, <1>5, <1>6, FS_Subset

LEMMA SingleAddress ==
  ASSUME NEW a \in IPs PROVE Addresses(AddressTarget(a).network) = {a}
<1>1. AddressTarget(a).network = [version |-> a[1], base |-> a[2], bits |-> 0]
  BY DEF AddressTarget
<1>2. 2 ^ 0 = 1 /\ a[2] \in Nat /\ a = <<a[1], a[2]>>
  BY DEF IPs
<1>3. Addresses(AddressTarget(a).network) = {a[1]} \X (a[2] .. a[2] + 2 ^ 0 - 1)
  BY <1>1 DEF Addresses
<1>4. a[2] .. a[2] + 2 ^ 0 - 1 = {a[2]}
  BY <1>2
<1> QED
  BY <1>2, <1>3, <1>4

LEMMA AddressMatches ==
  ASSUME NEW a \in IPs, NEW rules
  PROVE  (\E r \in rules : Matches(r, AddressTarget(a))) <=> Named(rules, a)
<1>1. AddressTarget(a).kind = "network"
  BY DEF AddressTarget
<1>2. ASSUME NEW r
      PROVE  Matches(r, AddressTarget(a)) <=> r.type = "cidr" /\ a \in Addresses(r.network)
  BY <1>1, SingleAddress DEF Matches
<1> QED
  BY <1>2 DEF Named

LEMMA ExpandedIsLeft ==
  ASSUME NEW m, NEW n \in Networks
  PROVE  Expanded(m, n) = {AddressTarget(a) : a \in Left(m, n)}
<1>1. \A a \in HostAddresses(n) : Denied(m, AddressTarget(a)) <=> Named(m.exclude, a)
  BY HostAddressType, AddressMatches DEF Denied
<1> QED
  BY <1>1 DEF Expanded, Left

LEMMA NucleiTakesLeft ==
  ASSUME NEW m, NEW t \in Targets, t.kind = "network"
  PROVE  NucleiTargets(m, {t}) = {AddressTarget(a) : a \in Left(m, t.network)}
<1>1. t.network \in Networks
  BY DEF Targets
<1>2. NucleiTargets(m, {t}) = Expanded(m, t.network)
  BY DEF NucleiTargets
<1> QED
  BY <1>1, <1>2, ExpandedIsLeft

LEMMA PolicyBounds ==
  ASSUME NEW m \in Manifests
  PROVE  m.policy.max_cidr_addresses \in Nat \ {0} /\ m.policy.max_targets \in Nat \ {0}
<1>1. m.policy \in Policies
  BY DEF Manifests
<1> QED
  BY <1>1 DEF Policies

(* Of version 4, an address left passes by itself: the network's rule names  *)
(* it, and it is what it resolves to.                                        *)
LEMMA LeftIsAuthorized ==
  ASSUME NEW m \in Manifests, NEW t \in Targets, t.kind = "network", t.network.version = 4,
         Included(m, t), "GET" \in m.policy.methods, NEW a \in Left(m, t.network)
  PROVE  Authorized(m, AddressTarget(a), TRUE)
<1> DEFINE u == AddressTarget(a)
<1>1. t.network \in Networks
  BY DEF Targets
<1>2. a \in IPs /\ a \in Addresses(t.network) /\ a[1] = 4
  BY <1>1, HostAddressType DEF Left
<1>3. /\ u.kind = "network" /\ u.network = [version |-> 4, base |-> a[2], bits |-> 0]
      /\ u.slash = FALSE /\ a = <<4, a[2]>>
  BY <1>2 DEF AddressTarget, IPs
<1>4. Named(m.include, a)
  BY <1>2 DEF Included, Matches, Named
<1>5. Included(m, u) /\ ~Denied(m, u)
  BY <1>2, <1>4, AddressMatches DEF Included, Denied, Left
<1>6. 2 ^ u.network.bits <= m.policy.max_cidr_addresses
  <2>1. m.policy.max_cidr_addresses \in Nat \ {0}
    BY PolicyBounds
  <2>2. 2 ^ 0 = 1
    OBVIOUS
  <2> QED
    BY <1>3, <2>1, <2>2
<1>7. AddressesPass(m, Resolved(u))
  <2>1. Resolved(u) = {a}
    BY <1>3 DEF Resolved, Base
  <2> QED
    BY <1>4, <2>1 DEF AddressesPass, Left
<1>8. ~Mixed(m.exclude, u)
  BY <1>3 DEF Mixed
<1> QED
  BY <1>3, <1>5, <1>6, <1>7, <1>8 DEF Authorized

LEMMA LeftStarts ==
  ASSUME NEW m \in Manifests, NEW t \in Targets, t.kind = "network", t.network.version = 4,
         Included(m, t), "GET" \in m.policy.methods,
         2 ^ t.network.bits <= m.policy.max_cidr_addresses,
         "nuclei" \in m.tools, m.policy.profile, Left(m, t.network) # {},
         Cardinality(Left(m, t.network)) <= m.policy.max_targets
  PROVE  NucleiStarts(m, {t})
<1> DEFINE ts == NucleiTargets(m, {t})
<1>1. ts = {AddressTarget(a) : a \in Left(m, t.network)}
  BY NucleiTakesLeft
<1>2. ts # {} /\ \A u \in ts : Authorized(m, u, TRUE)
  BY <1>1, LeftIsAuthorized
<1>3. Cardinality(ts) <= m.policy.max_targets
  <2>1. IsFiniteSet(Left(m, t.network))
    <3>1. t.network \in Networks
      BY DEF Targets
    <3> QED
      BY <3>1, HostAddressType, FS_Subset DEF Left
  <2>2. Cardinality(ts) <= Cardinality(Left(m, t.network)) /\ IsFiniteSet(ts)
    <3> DEFINE f == [a \in Left(m, t.network) |-> AddressTarget(a)]
    <3>1. f \in Surjection(Left(m, t.network), ts)
      BY <1>1 DEF Surjection
    <3> QED
      BY <2>1, <3>1, FS_Surjection
  <2>3. m.policy.max_targets \in Nat
    BY PolicyBounds
  <2> QED
    BY <2>1, <2>2, <2>3, FS_CardinalityType
<1> QED
  BY <1>2, <1>3 DEF NucleiStarts

(* Nuclei (run_nuclei) takes of a network in scope, of any size the policy   *)
(* admits and with any exclusions in it, exactly the addresses left, and of  *)
(* version 4 it starts on them.                                              *)
THEOREM NestedExclusionsAreKept == Spec => []NestedExclusionsHold
<1>1. ASSUME Inv, manifest # NoManifest, NEW t \in Probes, t.kind = "network"
      PROVE  manifest \in Manifests /\ t \in Targets
  BY <1>1, ProbeType DEF Inv, TypeOK, MaybeManifests
<1>2. ASSUME Inv, manifest # NoManifest, NEW t \in Probes, t.kind = "network"
      PROVE  NucleiTargets(manifest, {t}) = {AddressTarget(a) : a \in Left(manifest, t.network)}
  BY <1>1, <1>2, NucleiTakesLeft
<1>3. ASSUME Inv, manifest # NoManifest, NEW t \in Probes, t.kind = "network",
             t.network.version = 4, Included(manifest, t),
             2 ^ t.network.bits <= manifest.policy.max_cidr_addresses,
             Left(manifest, t.network) # {},
             Cardinality(Left(manifest, t.network)) <= manifest.policy.max_targets,
             "nuclei" \in manifest.tools, manifest.policy.profile,
             "GET" \in manifest.policy.methods
      PROVE  NucleiStarts(manifest, {t})
  BY <1>1, <1>3, LeftStarts
<1>4. Inv => NestedExclusionsHold
  BY <1>2, <1>3 DEF NestedExclusionsHold, Left
<1> QED
  BY <1>4, Invariance, PTL
=============================================================================
