------------------------------ MODULE Scanners ------------------------------
(***************************************************************************)
(* What the scanner adapters (bbpipeline/adapters) start an external tool  *)
(* on, given the manifest in force and the targets of a job.               *)
(***************************************************************************)
EXTENDS ScopeRules

(* default_targets: the seeds of a job that names none.                      *)
HostTarget(h) == [kind |-> "host", host |-> h]
Seed(r) ==
  CASE r.type = "domain" -> HostTarget(r.host)
    [] r.type = "url" -> [kind |-> "url", scheme |-> r.scheme, port |-> r.port,
                          path |-> r.path,
                          host |-> IF r.wild THEN Append(r.host, Star) ELSE r.host]
    [] r.type = "cidr" -> [kind |-> "network", network |-> r.network, slash |-> TRUE]
ApexInScope(m, h) == \E r \in m.include : r.type = "domain" /\ ~r.wild /\ r.host = h
Seeding(m) == {r \in m.include : /\ r.type \in {"domain", "url", "cidr"}
                                 /\ r.type = "domain" /\ r.wild => ApexInScope(m, r.host)}
DefaultTargets(m) == {Seed(r) : r \in Seeding(m)}

(* run_bbot: a job is refused as a whole; its targets go to one run that     *)
(* follows subdomains and one, with -S, that does not.                       *)
CanExpand_AnyDomain(m, t) ==
  \E r \in m.include : r.type = "domain" /\ (t.host = r.host \/ Under(t.host, r.host))
CanExpand(m, t) ==
  \E r \in m.include :
    r.type = "domain" /\ r.wild /\ (t.host = r.host \/ Under(t.host, r.host))
BbotStarts(m, ts) ==
  /\ "bbot" \in m.tools /\ ts # {} /\ Cardinality(ts) <= m.policy.max_targets
  /\ \A t \in ts : Authorized(m, t, t.kind # "network")

(* What BBOT may reach of hosts: its targets, below them where it recurses,  *)
(* nothing that is on its blacklist, which is given every exclude rule.      *)
BbotReaches(m, ts, h) ==
  /\ ~Denied(m, HostTarget(h))
  /\ \E t \in ts : /\ t.kind \in {"host", "url"}
                   /\ h = t.host \/ (CanExpand(m, t) /\ Under(h, t.host))

(* run_nuclei: a network becomes its host addresses that are not excluded;   *)
(* hosts() leaves out the first one and, of version 4, the last.             *)
HostAddresses(n) ==
  IF n.bits <= 1 THEN Addresses(n)
  ELSE {n.version} \X (n.base + 1 .. n.base + 2 ^ n.bits - (IF n.version = 4 THEN 2 ELSE 1))
AddressTarget(a) ==
  [kind |-> "network", network |-> [version |-> a[1], base |-> a[2], bits |-> 0], slash |-> FALSE]
Expanded_Whole(m, n) == {AddressTarget(a) : a \in HostAddresses(n)}
Expanded(m, n) == {t \in {AddressTarget(a) : a \in HostAddresses(n)} : ~Denied(m, t)}
NucleiTargets(m, ts) ==
  {t \in ts : t.kind # "network"}
    \union UNION {Expanded(m, t.network) : t \in {u \in ts : u.kind = "network"}}
NucleiStarts(m, ts) ==
  /\ "nuclei" \in m.tools /\ m.policy.profile
  /\ \A t \in ts : t.kind = "network" => 2 ^ t.network.bits <= m.policy.max_cidr_addresses
  /\ NucleiTargets(m, ts) # {} /\ Cardinality(NucleiTargets(m, ts)) <= m.policy.max_targets
  /\ \A t \in NucleiTargets(m, ts) : Authorized(m, t, TRUE)
=============================================================================
