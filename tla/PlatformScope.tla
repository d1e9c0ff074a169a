--------------------------- MODULE PlatformScope ---------------------------
(***************************************************************************)
(* How the scope of a platform becomes the scope of a manifest             *)
(* (bbpipeline/platform_sources.py, platform_sync.py): a sync normalizes   *)
(* what the platform lists and builds a candidate out of it and of the     *)
(* manifest in force, an export copies the candidate to files, a person    *)
(* installs those files or edits the manifest.  When jobs may start on a   *)
(* manifest is PlatformGate's subject; here it is what they would reach.   *)
(***************************************************************************)
EXTENDS Scanners

(* A target that a platform lists, as what its text parses as, the category  *)
(* it is listed under, and whether it is in scope.  A URL is odd if it has a *)
(* query, a fragment, or a star elsewhere than before the host; "github" is  *)
(* the URL of a repository, "repository" its owner and name alone, "name" a  *)
(* domain name.                                                              *)
Listed == [form : {"network"}, network : Networks]
          \union [form : {"url"}, scheme : Schemes, host : Hosts, wild : BOOLEAN,
                  port : Ports, path : Paths, odd : BOOLEAN]
          \union [form : {"github"}, id : Repositories]
          \union [form : {"name"}, host : Hosts, wild : BOOLEAN]
          \union [form : {"repository"}, id : Repositories]
          \union [form : {"text"}, id : {<<n>> : n \in Names}]
Assets == [target : Listed, category : {"code", "cloud", "other"}, in_scope : BOOLEAN]

CONSTANTS Snapshots,       \* sets of assets that the platform may list
          Drafts,          \* manifests a person has written without the platform
          LocalExcludes,   \* rules a person may add to the manifest in force
          Switches,        \* tools and schedules a person may set
          DefaultPolicy,
          NoRule, NoManifest,
          Probes,          \* targets the properties look at
          MaxChanges       \* bound on changes of the platform and edits

ASSUME PlatformScopeAssumption ==
  /\ Snapshots \subseteq SUBSET Assets /\ Snapshots # {}
  /\ \A m \in Drafts : m \in Manifests /\ Accepted(m)
  /\ LocalExcludes \subseteq Rules /\ DefaultPolicy \in Policies
  /\ \A s \in Switches : s[1] \subseteq Tools /\ s[2] \subseteq Kinds
  /\ NoRule \notin Rules /\ NoManifest \notin Manifests
  /\ Probes \subseteq Targets /\ MaxChanges \in Nat

VARIABLES
  platform,    \* what the platform lists now
  manifest,    \* the manifest in the program's row
  candidate,   \* the one in the source's row
  copy,        \* the exported one
  basis,       \* history: what the candidate was built from
  changes

vars == <<platform, manifest, candidate, copy, basis, changes>>

MaybeManifests == Manifests \union {NoManifest}

TypeOK ==
  /\ platform \in Snapshots /\ changes \in 0 .. MaxChanges
  /\ manifest \in MaybeManifests /\ candidate \in MaybeManifests /\ copy \in MaybeManifests
  /\ basis \in [assets : Snapshots \union {{}}, exclude : SUBSET Rules]

Init ==
  /\ platform \in Snapshots /\ manifest \in Drafts \union {NoManifest}
  /\ candidate = NoManifest /\ copy = NoManifest
  /\ basis = [assets |-> {}, exclude |-> {}] /\ changes = 0

Change == changes < MaxChanges /\ changes' = changes + 1

-----------------------------------------------------------------------------
(* _normalize_one: the rule a listed target becomes, if any.  A URL with a   *)
(* star before its host becomes that domain, without scheme and port.        *)
Domain(h, wild) == [type |-> "domain", host |-> h, wild |-> wild]
Identifier(type, id) == [type |-> type, id |-> id]
UrlRule(x) ==
  CASE x.odd -> NoRule
    [] ~x.odd /\ x.wild -> IF x.path = <<"">> THEN Domain(x.host, TRUE) ELSE NoRule
    [] OTHER -> [type |-> "url", scheme |-> x.scheme, host |-> x.host, wild |-> FALSE,
                 port |-> x.port, path |-> x.path]
NormalizeOne(a) ==
  LET x == a.target
  IN  CASE x.form = "network" -> [type |-> "cidr", network |-> x.network]
        [] x.form = "url" -> UrlRule(x)
        [] x.form = "github" -> Identifier("repository", x.id)
        [] x.form = "repository" /\ a.category = "code" -> Identifier("repository", x.id)
        [] x.form = "name" /\ a.category # "code" -> Domain(x.host, x.wild)
        [] x.form \in {"repository", "text"} /\ a.category = "cloud" -> Identifier("cloud", x.id)
        [] OTHER -> NoRule

(* normalize_snapshot: of the rules with one key, the one listed last.       *)
Normalized(assets, in) == {NormalizeOne(a) : a \in {x \in assets : x.in_scope = in}} \ {NoRule}
Key(r) ==
  IF r.type = "url" THEN [r EXCEPT !.path = [i \in DOMAIN r.path |-> LowerCase[r.path[i]]]]
  ELSE r
Keys(rules) == {Key(r) : r \in rules}
Picks(rules) == {s \in SUBSET rules : /\ Keys(s) = Keys(rules)
                                      /\ \A r1, r2 \in s : Key(r1) = Key(r2) => r1 = r2}

(* build_candidate_manifest: scope as the platform lists it, and what was    *)
(* excluded before; the rest as it was; everything off where something out   *)
(* of scope has no rule.                                                     *)
Excluded_ListedOnly(local, listed) == listed
Excluded(local, listed) == listed \union {r \in local : Key(r) \notin Keys(listed)}
Unsafe(assets) == \E a \in assets : ~a.in_scope /\ NormalizeOne(a) = NoRule
ExcludedBy(m) == IF m = NoManifest THEN {} ELSE m.exclude
Built(existing, assets, include, exclude) ==
  [include |-> include, exclude |-> exclude,
   policy |-> IF existing = NoManifest THEN DefaultPolicy ELSE existing.policy,
   tools |-> IF existing = NoManifest \/ Unsafe(assets) THEN {} ELSE existing.tools,
   schedules |-> IF existing = NoManifest \/ Unsafe(assets) THEN {} ELSE existing.schedules]

(* sync_platform_source: a candidate that is not valid is none.              *)
Sync ==
  /\ \E include \in Picks(Normalized(platform, TRUE)),
        listed \in Picks(Normalized(platform, FALSE)),
        local \in Picks(ExcludedBy(manifest)) :
       LET new == Built(manifest, platform, include, Excluded(local, listed))
       IN  candidate' = IF Accepted(new) THEN new ELSE NoManifest
  /\ basis' = [assets |-> platform, exclude |-> ExcludedBy(manifest)]
  /\ UNCHANGED <<platform, manifest, copy, changes>>

(* export_platform_candidate does not overwrite.                             *)
Export ==
  /\ candidate # NoManifest /\ copy = NoManifest /\ copy' = candidate
  /\ UNCHANGED <<platform, manifest, candidate, basis, changes>>

(* A person takes the exported files, or deletes them; sync_programs loads   *)
(* what is in force, if it is valid.                                         *)
Install ==
  /\ copy # NoManifest /\ copy' = NoManifest /\ manifest' \in {manifest, copy}
  /\ UNCHANGED <<platform, candidate, basis, changes>>

Edit ==
  /\ manifest # NoManifest /\ Change
  /\ \/ \E r \in LocalExcludes : manifest' = [manifest EXCEPT !.exclude = @ \union {r}]
     \/ \E r \in manifest.include : manifest' = [manifest EXCEPT !.include = @ \ {r}]
     \/ \E s \in Switches : manifest' = [manifest EXCEPT !.tools = s[1], !.schedules = s[2]]
  /\ Accepted(manifest')
  /\ UNCHANGED <<platform, candidate, copy, basis>>

PlatformChange ==
  /\ Change /\ platform' \in Snapshots
  /\ UNCHANGED <<manifest, candidate, copy, basis>>

Next == Sync \/ Export \/ Install \/ Edit \/ PlatformChange
Spec == Init /\ [][Next]_vars

-----------------------------------------------------------------------------
(* What a listed target names, apart from the rule it becomes.               *)
OnHost(x, h) == IF x.wild THEN Under(h, x.host) ELSE h = x.host
MeansUrl(x, t) ==
  t.kind = "url" /\ x.scheme = t.scheme /\ OnHost(x, t.host)
    /\ EffectivePort(x) = EffectivePort(t) /\ PathMatches(x.path, t.path)
MeansHost(x, t) == t.kind \in {"host", "url"} /\ OnHost(x, t.host)
MeansNetwork(x, t) == t.kind = "network" /\ Addresses(t.network) \subseteq Addresses(x.network)
MeansId(x, t) == t.kind \in {"repository", "cloud"} /\ IdMatches(x.id, t.id)
Means(x, t) ==
  \/ x.form = "network" /\ MeansNetwork(x, t)
  \/ x.form = "url" /\ MeansUrl(x, t)
  \/ x.form = "name" /\ MeansHost(x, t)
  \/ x.form \in {"github", "repository", "text"} /\ MeansId(x, t)

(* What the platform puts out of scope, and what the manifest in force had   *)
(* excluded, a candidate denies, or it has nothing switched on.  Only an     *)
(* excluded URL may give way to another that differs from it by case: paths  *)
(* are compared with case and rules kept by keys without it, so of two such  *)
(* URLs one is lost (against docs/FINAL-PIPELINE-PLAN.md:277 as well).       *)
GaveWay(rules, t) ==
  \E r \in rules : /\ r.type = "url" /\ Matches(r, t)
                   /\ \E other \in candidate.exclude : other # r /\ Key(other) = Key(r)
ExclusionsSurvive ==
  candidate # NoManifest => \A t \in Probes :
    \/ Denied(candidate, t)
    \/ GaveWay(basis.exclude \union Normalized(basis.assets, FALSE), t)
    \/ candidate.tools = {} /\ candidate.schedules = {}
    \/ /\ ~\E a \in basis.assets : ~a.in_scope /\ Means(a.target, t)
       /\ ~\E r \in basis.exclude : Matches(r, t)

(* A candidate authorizes only URLs that the platform lists in scope: the    *)
(* compiler "may only narrow a platform policy, never broaden it", and extra *)
(* ports are added after review (docs/FINAL-PIPELINE-PLAN.md:277).  It does  *)
(* not hold: a URL with a star for its host becomes a domain rule, which has *)
(* neither its scheme nor its port.                                          *)
CandidateNeverWidens ==
  candidate # NoManifest => \A t \in Probes :
    t.kind = "url" /\ Authorized(candidate, t, FALSE)
      => \E a \in basis.assets : a.in_scope /\ Means(a.target, t)

(* Those URLs are the only widening: whatever else a candidate includes is   *)
(* listed in scope, and what they add is on hosts that they name, below the  *)
(* one after the star.  Nothing a person once included by hand is left.      *)
OnlyWildcardUrlsWiden ==
  candidate # NoManifest => \A t \in Probes :
    Included(candidate, t) => \E a \in basis.assets :
      /\ a.in_scope
      /\ Means(a.target, t) \/ (a.target.form = "url" /\ a.target.wild /\ MeansHost(a.target, t))

(* Where BBOT recurses from a seed, every host below is included by itself,  *)
(* and none is excluded: that the run may expand is decided by other code    *)
(* than what is in scope.                                                    *)
ReachInScope ==
  manifest # NoManifest => \A t \in Probes, u \in Probes :
    t.kind \in {"host", "url"} /\ u.kind = "host"
      /\ BbotStarts(manifest, {t}) /\ BbotReaches(manifest, {t}, u.host)
        => u.host = t.host \/ Authorized(manifest, u, FALSE)

(* Nuclei on a network in scope takes exactly the host addresses that are    *)
(* not excluded.  On a network of version 4 the job then starts: exclusions  *)
(* inside it do not stop it, nor do rules of version 6 in the same manifest. *)
(* Of version 6 nothing is promised: authorize_target takes the first group  *)
(* of an address for a hostname and resolves that.                           *)
NestedExclusionsHold ==
  manifest # NoManifest => \A t \in Probes :
    LET left == {a \in HostAddresses(t.network) : ~Named(manifest.exclude, a)}
    IN  /\ t.kind = "network" /\ Included(manifest, t) /\ ~Denied(manifest, t)
        /\ 2 ^ t.network.bits <= manifest.policy.max_cidr_addresses
        => /\ NucleiTargets(manifest, {t}) = {AddressTarget(a) : a \in left}
           /\ /\ t.network.version = 4 /\ left # {}
              /\ Cardinality(left) <= manifest.policy.max_targets
              /\ "nuclei" \in manifest.tools /\ manifest.policy.profile
              /\ "GET" \in manifest.policy.methods
              => NucleiStarts(manifest, {t})

(* A scheduled scan, whose jobs name no target, has a seed in every manifest *)
(* that loads: validator and adapter, which read the rules apart, agree.     *)
SchedulesHaveSeeds ==
  manifest # NoManifest
    /\ {"bbot", "nuclei"} \intersect manifest.tools \intersect manifest.schedules # {}
    => DefaultTargets(manifest) # {}
=============================================================================
