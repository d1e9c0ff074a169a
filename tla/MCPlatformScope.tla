-------------------------- MODULE MCPlatformScope --------------------------
(* An instance of PlatformScope: a domain with two levels below it, networks *)
(* of both versions, one owner with two repositories.                        *)
EXTENDS PlatformScope

Com == <<"com", "ex">>
A == Append(Com, "a")
BA == Append(A, "b")
Org == <<"org", "ex">>

In(x) == [target |-> x, category |-> "other", in_scope |-> TRUE]
Out(x) == [target |-> x, category |-> "other", in_scope |-> FALSE]
Code(asset) == [asset EXCEPT !.category = "code"]
Cloud(asset) == [asset EXCEPT !.category = "cloud"]
Name(h, wild) == [form |-> "name", host |-> h, wild |-> wild]
Url(h, wild, port, path) == [form |-> "url", scheme |-> "https", host |-> h, wild |-> wild,
                             port |-> port, path |-> path, odd |-> FALSE]
Network(v, base, bits) == [version |-> v, base |-> base, bits |-> bits]
Net(v, base, bits) == [form |-> "network", network |-> Network(v, base, bits)]
Id(form, id) == [form |-> form, id |-> id]
Text == Id("text", <<"bucket">>)

LowerTable == [w \in {"app", "App", ""} |-> IF w = "App" THEN "app" ELSE w]
ResolveTable == (Com :> {<<4, 1>>} @@ A :> {<<4, 2>>, <<6, 20>>} @@ BA :> {<<4, 9>>})
GlobalTable == ({4} \X (0 .. 7)) \union ({6} \X (16 .. 23))
FirstGroupTable == [a \in {6} \X (16 .. 23) |-> {<<4, 9>>}]

SnapshotTable ==
  { {In(Name(Com, FALSE)), In(Name(Com, TRUE)), Out(Name(A, FALSE)),
     Out(Url(Com, FALSE, 443, <<"app">>)), Out(Url(Com, FALSE, 443, <<"App">>))},
    {In(Name(Com, TRUE)), In(Net(4, 0, 3)), In(Net(6, 16, 3)), Out(Net(4, 2, 1)),
     Out(Net(6, 18, 0)),
     Out(Url(A, FALSE, 443, <<"app">>))},
    {In(Url(Com, TRUE, 8443, <<"">>)), Code(In(Id("repository", <<"acme", Star>>))),
     Out(Id("github", <<"acme", "r1">>)), Cloud(In(Text))},
    {Cloud(In(Id("repository", <<"acme", Star>>))), In(Id("github", <<"acme", "r1">>)),
     Cloud(Out(Id("repository", <<"acme", "r2">>)))},
    {In(Url(A, FALSE, 0, <<"app">>)), In(Name(Com, FALSE)), Out(Text)},
    {In(Text), Out(Name(Com, FALSE))} }

PolicyTable ==
  [methods |-> {"GET", "HEAD"}, ports |-> {80, 443}, https |-> TRUE, private |-> FALSE,
   closed |-> {}, slow |-> FALSE, web |-> TRUE, profile |-> TRUE,
   max_cidr_addresses |-> 8, max_targets |-> 4]
DefaultTable == [PolicyTable EXCEPT !.profile = FALSE]

DomainRule(h, wild) == [type |-> "domain", host |-> h, wild |-> wild]
UrlRuleOf(h, path) == [type |-> "url", scheme |-> "https", host |-> h, wild |-> FALSE,
                       port |-> 443, path |-> path]
DraftTable ==
  { [include |-> {DomainRule(Com, TRUE), DomainRule(Com, FALSE)}, policy |-> PolicyTable,
     exclude |-> {UrlRuleOf(Com, <<"App">>)}, tools |-> Tools, schedules |-> {"bbot"}],
    [include |-> {DomainRule(Org, FALSE), [type |-> "cidr", network |-> Network(4, 0, 2)]},
     policy |-> PolicyTable, exclude |-> {}, tools |-> {"nuclei"}, schedules |-> {"nuclei"}] }

LocalExcludeTable == {DomainRule(A, TRUE), [type |-> "cidr", network |-> Network(4, 1, 0)],
                      [type |-> "cidr", network |-> Network(6, 20, 1)]}
SwitchTable == {<<Tools, {"bbot", "nuclei"}>>, <<{}, {}>>}

HostProbes == {HostTarget(h) : h \in {Com, A, BA, Org}}
UrlProbes == {[kind |-> "url", scheme |-> "https", host |-> h, port |-> p, path |-> path] :
                h \in {Com, A}, p \in {0, 8443}, path \in {<<"">>, <<"app">>, <<"App", "">>}}
NetProbes == {[kind |-> "network", network |-> n, slash |-> TRUE] :
                n \in {Network(4, 0, 2), Network(4, 0, 3), Network(6, 16, 2), Network(6, 20, 1)}}
             \union {AddressTarget(a) : a \in ({4} \X (1 .. 3)) \union {<<6, 18>>}}
RepoProbes == {[kind |-> "repository", id |-> <<"acme", n>>] : n \in {"r1", "r2"}}
ProbeTable == HostProbes \union UrlProbes \union NetProbes \union RepoProbes
              \union {[kind |-> "cloud", id |-> <<"bucket">>]}
=============================================================================
