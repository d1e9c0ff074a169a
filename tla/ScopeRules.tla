----------------------------- MODULE ScopeRules -----------------------------
(***************************************************************************)
(* Scope rules, the targets they match, and what a manifest authorizes     *)
(* (bbpipeline/manifest.py, scope.py).  Texts are what they parse to: a    *)
(* host is the sequence of its labels, the top level domain first; a path  *)
(* the sequence of its segments, "/" being <<"">> and "/app/" <<"app","">>;*)
(* an address its version, 4 or 6, and a number; a network its version,    *)
(* first address and the width of its host part; a repository or cloud     *)
(* identifier the sequence of its parts, of which only the last may be a   *)
(* star; what is compared without regard to case is in lower case, so path *)
(* segments are the only words that have one.                              *)
(***************************************************************************)
EXTENDS Integers, Sequences, FiniteSets, SequencesExt

CONSTANTS Labels, Words,    \* of hosts, of paths
          LowerCase,        \* word -> word
          Names,            \* owners, repositories, cloud identifiers
          Global,           \* addresses that are globally routable
          Resolve,          \* host -> its addresses; {} is a failed resolution
          FirstGroup        \* IPv6 address -> what its first group resolves to

Star == "*"                 \* also a label: the seed of a URL rule may have it

Hosts == Seq(Labels \union {Star}) \ {<<>>}
Paths == Seq(Words \union {""}) \ {<<>>}
Ports == 0 .. 65535         \* 0: none is written
Schemes == {"http", "https"}
Versions == {4, 6}
IPs == Versions \X Nat
Networks == {n \in [version : Versions, base : Nat, bits : 0 .. 128] :
               n.version = 4 => n.bits <= 32}
Repositories == Names \X (Names \union {Star})
Ids == {<<n>> : n \in Names} \union Repositories
Tools == {"bbot", "nuclei", "repositories", "shodan", "auto_http"}
Kinds == {"bbot", "nuclei", "gitleaks", "github", "shodan"}

ASSUME ScopeAssumption ==
  /\ Star \notin Labels /\ "" \notin Words
  /\ LowerCase \in [Words \union {""} -> Words \union {""}]
  /\ Global \subseteq IPs
  /\ \A h \in DOMAIN Resolve : h \in Hosts /\ Resolve[h] \subseteq IPs
  /\ \A a \in DOMAIN FirstGroup : a \in {6} \X Nat /\ FirstGroup[a] \subseteq IPs

Rules == [type : {"domain"}, host : Hosts, wild : BOOLEAN]
         \union [type : {"url"}, scheme : Schemes, host : Hosts, wild : BOOLEAN,
                 port : Ports, path : Paths]
         \union [type : {"cidr"}, network : Networks]
         \union [type : {"repository"}, id : Repositories]
         \union [type : {"cloud"}, id : Ids]

(* A network is written with its prefix length, or is a single address.      *)
Targets == [kind : {"host"}, host : Hosts]
           \union [kind : {"url"}, scheme : Schemes, host : Hosts, port : Ports, path : Paths]
           \union {t \in [kind : {"network"}, network : Networks, slash : BOOLEAN] :
                     ~t.slash => t.network.bits = 0}
           \union [kind : {"repository"}, id : Repositories]
           \union [kind : {"cloud"}, id : Ids]

Policies == [methods : SUBSET {"GET", "HEAD", "OPTIONS"}, ports : SUBSET (Ports \ {0}),
             https : BOOLEAN, private : BOOLEAN,
             closed : SUBSET Paths,   \* denied, or matched by no allowed pattern
             slow : BOOLEAN,          \* less than one request per second
             web : BOOLEAN,           \* a BBOT preset that uses HTTP
             profile : BOOLEAN,       \* has the hash and name of the Nuclei profile's file
             max_cidr_addresses : Nat \ {0}, max_targets : Nat \ {0}]

Manifests == [include : SUBSET Rules, exclude : SUBSET Rules, policy : Policies,
              tools : SUBSET Tools, schedules : SUBSET Kinds]

-----------------------------------------------------------------------------
(* rule_matches *)
Under(s, prefix) == Len(s) > Len(prefix) /\ \A i \in 1 .. Len(prefix) : s[i] = prefix[i]

HostMatches_Apex(r, h) == h = r.host \/ (r.wild /\ Under(h, r.host))
HostMatches(r, h) == IF r.wild THEN Under(h, r.host) ELSE h = r.host

EffectivePort(u) == IF u.port # 0 THEN u.port ELSE IF u.scheme = "https" THEN 443 ELSE 80

Stripped(path) == IF Last(path) = "" THEN Front(path) ELSE path
PathMatches(prefix, path) == path = prefix \/ Under(path, Stripped(prefix))

Addresses(n) == {n.version} \X (n.base .. n.base + 2 ^ n.bits - 1)

IdMatches(pattern, id) == id = pattern \/ (Last(pattern) = Star /\ Under(id, Front(pattern)))

Matches(r, t) ==
  \/ r.type = "domain" /\ t.kind \in {"host", "url"} /\ HostMatches(r, t.host)
  \/ /\ r.type = "url" /\ t.kind = "url" /\ r.scheme = t.scheme
     /\ HostMatches(r, t.host) /\ EffectivePort(r) = EffectivePort(t)
     /\ PathMatches(r.path, t.path)
  \/ r.type = "cidr" /\ t.kind = "network" /\ Addresses(t.network) \subseteq Addresses(r.network)
  \/ /\ r.type \in {"repository", "cloud"} /\ t.kind \in {"repository", "cloud"}
     /\ IdMatches(r.id, t.id)

Denied(m, t) == \E r \in m.exclude : Matches(r, t)
Included(m, t) == \E r \in m.include : Matches(r, t)

Named(rules, a) == \E r \in rules : r.type = "cidr" /\ a \in Addresses(r.network)

(* authorize_target for GET; resolve is its resolve_dns.  What urlsplit takes *)
(* for the hostname of an IPv6 address is its first group, and that is        *)
(* resolved; an address that begins with "::" has none, and passes.  The      *)
(* first part of an identifier is no host that resolves.                      *)
Base(n) == <<n.version, n.base>>
Hostless(t) ==
  t.kind = "network" /\ t.network.version = 6 /\ Base(t.network) \notin DOMAIN FirstGroup
Resolved(t) ==
  CASE t.kind = "network" /\ t.network.version = 4 -> {Base(t.network)}
    [] t.kind = "network" /\ t.network.version = 6 -> FirstGroup[Base(t.network)]
    [] t.kind \in {"host", "url"} /\ t.host \in DOMAIN Resolve -> Resolve[t.host]
    [] OTHER -> {}
AddressesPass(m, as) ==
  /\ as # {} /\ \A a \in as : ~Named(m.exclude, a)
  /\ \A a \in as \ Global : m.policy.private \/ Named(m.include, a)
(* subnet_of raises on networks of two versions, which ends the job.  Among    *)
(* the included rules one that matches is taken to come before such a one.    *)
Mixed(rules, t) ==
  t.kind = "network" /\ t.slash
    /\ \E r \in rules : r.type = "cidr" /\ r.network.version # t.network.version
Authorized(m, t, resolve) ==
  /\ "GET" \in m.policy.methods /\ ~Denied(m, t) /\ ~Mixed(m.exclude, t) /\ Included(m, t)
  /\ t.kind = "network" => 2 ^ t.network.bits <= m.policy.max_cidr_addresses
  /\ t.kind = "url" => /\ m.policy.https => t.scheme = "https"
                       /\ EffectivePort(t) \in m.policy.ports
                       /\ t.path \notin m.policy.closed
  /\ resolve /\ ~Hostless(t) => AddressesPass(m, Resolved(t))

-----------------------------------------------------------------------------
(* The validators of ProgramManifest: third party scanners need host-wide    *)
(* paths and one request per second, scheduled ones a concrete target.       *)
Concrete_AnyRule(r) == r.type \in {"domain", "url", "cidr"}
Concrete(r) == \/ r.type \in {"domain", "url"} /\ ~r.wild
               \/ r.type = "cidr"
Scanning(m) ==
  ({"bbot"} \intersect IF m.policy.web THEN m.tools ELSE {}) \union ({"nuclei"} \intersect m.tools)
Accepted(m) ==
  /\ m.include # {}
  /\ m.policy.closed # {} \/ m.policy.slow => Scanning(m) = {}
  /\ {"bbot", "nuclei"} \intersect m.tools \intersect m.schedules # {}
       => \E r \in m.include : Concrete(r)
=============================================================================
