--------------------------- MODULE MCPolicyRules ---------------------------
EXTENDS PolicyRules

Z == {"z1", "z2", "z3", "z4"}
R == {"r1", "r2"}
L == {<<"r1", "z1">>, <<"r1", "z2">>, <<"r1", "z4">>, <<"r2", "z2">>, <<"r2", "z3">>}
N1 == <<"z1", 0, 3>>
N2 == <<"z2", 8, 1>>
N3 == <<"z3", 12, 2>>
N3a == <<"z3", 12, 1>>
N4 == <<"z4", 10, 1>>
N4b == <<"z4", 14, 0>>
AnyNet(z) == <<z, 0, 4, "any">>
Half(z) == <<z, 8, 3, "any">>
Intfs == {<<"r1", 7, 0>>, <<"r1", 8, 0>>, <<"r1", 10, 0>>, <<"r2", 9, 0>>, <<"r2", 15, 0>>}

O(x) == <<"obj", x>>
User == <<"user">>
PrtT(a, b) == [prt |-> Tcp(a, b), range |-> PrtIP, mods |-> {}]
Svc(user, src, dst, p) ==
  [user |-> user, foreach |-> FALSE, rules |-> <<[deny |-> FALSE, src |-> src, dst |-> dst, prts |-> {p}, log |-> ""]>>]

Base ==
  [ports |-> {<<1, 1>>}, networks |-> {N1, N2, N3, N3a, N4}, aggregates |-> {}, hosts |-> {<<0, 0>>, <<1, 4>>}, interfaces |-> Intfs,
   crosslink |-> {}, groups |-> <<>>, areas |-> [a |-> {"z2", "z3"}], services |-> <<>>,
   unmanaged |-> {}, dynamic |-> {}, autoDefault |-> TRUE, filterOnly |-> <<>>,
   managed |-> [r \in R |-> "standard"], model |-> [r \in R |-> {}], noInAcl |-> <<>>]

H == <<"host", 0, 0>>
H14 == <<"host", 1, 4>>
Auto(r) == O(<<"auto", r>>)
G(g) == <<"group", g>>
Net(l) == <<"network", l>>
Area == O(<<"area", "a">>)

Standard == [r \in R |-> "standard"]
Configs ==
  {<<Standard, [r \in R |-> {}], <<>>>>,
   <<[r1 |-> "secondary", r2 |-> "standard"], [r \in R |-> {}], <<>>>>,
   <<[r1 |-> "standard", r2 |-> "primary"], [r1 |-> {"ioACL"}, r2 |-> {}], <<>>>>,
   <<Standard, [r1 |-> {"stateless"}, r2 |-> {"stateless", "ASA"}], <<>>>>,
   <<Standard, [r \in R |-> {}], [r1 |-> "z2"]>>,
   <<Standard, [r \in R |-> {}], [r1 |-> "z4"]>>}
Aggs(objs) == {a \in objs : Len(a) = 4}

\* Two services with supernets, at different routers.
Supernet1 ==
  {[Base EXCEPT !.aggregates = Aggs({x1, x2, y1, y2}), !.managed = c[1], !.model = c[2], !.noInAcl = c[3], !.networks = @ \cup n,
      !.services = <<Svc(<<O(x1)>>, <<User>>, <<O(y1)>>, PrtT(1, 1)), Svc(<<O(x2)>>, <<User>>, <<O(y2)>>, p)>>] :
     c \in Configs, <<x1, n>> \in {<<H, {}>>, <<N1, {N4b}>>}, x2 \in {N1, AnyNet("z2"), AnyNet("z1"), N4}, y1 \in {N3, N3a, AnyNet("z2"), N2},
     y2 \in {N3, AnyNet("z3")}, p \in {PrtT(1, 3)}}

\* Two rules of a service, each for a supernet together with any networks.
RuleTo(dst, n) == [deny |-> FALSE, src |-> <<User>>, dst |-> dst, prts |-> {PrtT(n, n)}, log |-> ""]
MixedRules ==
  {[Base EXCEPT !.ports = {<<1, 1>>, <<2, 2>>}, !.aggregates = Aggs({AnyNet("z3"), y}), !.managed = m,
      !.services = <<[user |-> <<O(N1)>>, foreach |-> FALSE,
                      rules |-> <<RuleTo(<<O(AnyNet("z3"))>> \o SetToSeq({O(n) : n \in S}), 1), RuleTo(<<O(y)>> \o SetToSeq({O(n) : n \in T}), 2)>>]>>] :
     S \in SUBSET {N2, N4}, T \in SUBSET {N2, N4}, y \in {AnyNet("z3"), Half("z3"), N3}, m \in {Standard, [Standard EXCEPT !["r2"] = "secondary"]}}

\* All sets of port ranges, used in one rule.
Ranges == {<<1, 1>>, <<1, 2>>, <<2, 2>>, <<2, 3>>, <<3, 3>>}
PortRules ==
  {[Base EXCEPT !.ports = P, !.services = <<Svc(<<O(N1)>>, <<User>>, <<O(N3)>>, PrtT(1, 1)),
       [user |-> <<O(N1)>>, foreach |-> FALSE,
        rules |-> <<[deny |-> d, src |-> <<User>>, dst |-> <<O(N3)>>, prts |-> {PrtT(x[1], x[2]) : x \in P}, log |-> ""]>>]>>] :
     P \in {Q \in SUBSET Ranges : <<1, 1>> \in Q}, d \in BOOLEAN}

\* Protocols with modifiers or source range.
Mods == {{}, {"reversed"}, {"oneway"}, {"stateless"}, {"srcNet"}, {"dstNet", "reversed"}, {"noCheckSupernetRules"}}
ModRules ==
  {[Base EXCEPT !.ports = {<<1, 1>>, <<2, 2>>}, !.model = [r1 |-> m, r2 |-> {"statelessSelf"}], !.managed = Standard, !.aggregates = Aggs({y}),
      !.services = <<[user |-> <<O(H), O(H14)>>, foreach |-> f,
         rules |-> <<[deny |-> d, src |-> <<User>>, dst |-> <<O(y)>>, log |-> "",
                      prts |-> {[prt |-> p, range |-> q, mods |-> x], [prt |-> p, range |-> PrtIP, mods |-> {}]}]>>]>>] :
     m \in {{}, {"stateless"}}, y \in {N3a, AnyNet("z2"), <<"r2", 15, 0>>}, f \in BOOLEAN, d \in BOOLEAN,
     <<p, q>> \in {<<Udp(1, 1), Udp(2, 2)>>, <<Tcp(1, 3), PrtIP>>, <<PrtIP, PrtIP>>}, x \in Mods}

\* All sets of hosts, each one used alone or all together.
HostRules ==
  {[Base EXCEPT !.hosts = h, !.services = <<Svc([n \in 1 .. Cardinality(h) |-> O(<<"host">> \o SetToSeq(h)[n])], <<User>>, <<O(y)>>, PrtT(1, 1))>>] :
     h \in {x \in SUBSET {<<0, 0>>, <<1, 1>>, <<0, 1>>, <<2, 5>>, <<3, 4>>, <<3, 7>>, <<0, 7>>} : Cardinality(x) \in 1 .. 3}, y \in {N3, N1}}

\* Groups, automatic groups and intersections in any combination.
Elements1 ==
  {O(N1), O(H), G("g"), G("h"), User, Net(<<O(H)>>), Net(<<G("g")>>), Net(<<Area>>), <<"any", <<G("g")>>, 8, 1>>, <<"any", <<O(N3)>>, 8, 3>>,
   <<"any", <<Area>>, 0, 4>>, <<"all", <<O(N2)>>>>, <<"all", <<Area>>>>, <<"host", <<O(N1)>>>>, <<"all", <<Auto("r1")>>>>,
   <<"and", <<G("g"), <<"not", O(N1)>>>>>>, <<"and", <<Net(<<G("h")>>), <<"not", O(N2)>>>>>>, <<"and", <<<<"not", O(N1)>>>>>>}
Elements2 ==
  {O(N1), G("h"), User, Net(<<G("g")>>), Net(<<Area>>), <<"any", <<G("g")>>, 8, 1>>, <<"all", <<Area>>>>, <<"host", <<O(N1)>>>>,
   <<"and", <<G("g"), <<"not", O(N1)>>>>>>}
GroupRules ==
  {[Base EXCEPT !.crosslink = {N2}, !.groups = [g |-> <<a, b>>, h |-> <<c>>], !.services = <<Svc(<<O(N1)>>, <<G("g")>>, <<e, User>>, PrtT(1, 1))>>] :
     a \in Elements1, b \in Elements2, c \in {O(N3), G("g"), Net(<<G("g")>>)}, e \in {G("h"), <<"all", <<G("g")>>>>}}

\* Networks and aggregates that contain each other in different zones.
MarkRules ==
  {[Base EXCEPT !.networks = {N1, <<"z1", 4, 1>>, N2, N3, N4, N4b}, !.hosts = {}, !.aggregates = a, !.services = <<Svc(<<O(N1)>>, <<User>>, <<O(N3)>>, PrtT(1, 1))>>] :
     a \in SUBSET {<<"z4", 4, 0, "any">>, Half("z3"), AnyNet("z2"), AnyNet("z3"), <<"z4", 12, 2, "any">>}}

\* Automatic interfaces.
AutoRules ==
  {[Base EXCEPT !.services = <<Svc(<<O(x)>> \o u, <<User>> \o y, <<Auto(r)>> \o z, PrtT(1, 1))>>] :
     x \in {N1, N2, N4}, u \in {<<>>, <<O(N3)>>}, r \in R, y \in {<<>>, <<Auto("r2")>>}, z \in {<<>>, <<O(N3a)>>}}

\* Rules that are part of each other.
Rule1(d, x, y, p, log) == [deny |-> d, src |-> <<O(x)>>, dst |-> <<O(y)>>, prts |-> {p}, log |-> log]
RedundantRules ==
  {[Base EXCEPT !.aggregates = Aggs({x1, x2, y2}),
      !.services = <<[user |-> <<>>, foreach |-> FALSE, rules |-> <<Rule1(FALSE, x1, N3a, PrtT(1, 1), log), Rule1(d, x2, y2, p, "")>>]>>] :
     x1 \in {H, N1, Half("z1")}, x2 \in {H, N1, AnyNet("z1")}, y2 \in {N3a, N3, Half("z3")}, p \in {PrtT(1, 1), PrtT(1, 3)},
     d \in BOOLEAN, log \in {"", "log"}}

\* Static routes: networks behind unmanaged routers, some of them inside of networks of
\* other zones.  Zone z2 has two border networks, if router r2 isn't linked to X2.
X1 == <<"z1", 0, 1>>
X1b == <<"z1", 2, 1>>
X4 == <<"z4", 4, 1>>
X4b == <<"z4", 6, 1>>
X2 == <<"z2", 8, 1>>
X2b == <<"z2", 10, 1>>
X3 == <<"z3", 12, 1>>
X3b == <<"z3", 14, 1>>
Nets8 == {X1, X1b, X4, X4b, X2, X2b, X3, X3b}
Extras == {<<"z4", 3, 0>>, <<"z4", 1, 0>>, <<"z1", 7, 0>>, <<"z3", 6, 0>>, <<"z3", 0, 2>>, <<"z1", 0, 2>>}
Link(u, n, m) == {<<u, n>>, <<u, m>>}
Border(n) == CHOOSE m \in {X1, X3, X4} : m[1] = n[1]
Direct == <<"r2", 9, 0>>
Behind == <<"r2", 10, 0>>
One == Link("u2", X2, X2b)
RouteConfigs ==
  {<<{}, TRUE, Direct, One>>, <<{<<"r1", "z4">>}, TRUE, Direct, One>>, <<{}, FALSE, Behind, One>>,
   <<{}, TRUE, Behind, One \cup Link("v2", X2, X2b)>>, <<{}, TRUE, Behind, One \cup {<<"v2", X2>>}>>}

\* An extra network is behind the router of its zone, or behind another one.
RouteRules ==
  {[Base EXCEPT !.networks = Nets8 \cup x, !.hosts = {}, !.aggregates = Aggs({d}), !.dynamic = c[1], !.autoDefault = c[2],
      !.interfaces = {<<"r1", 0, 0>>, <<"r1", 8, 0>>, <<"r1", 4, 0>>, c[3], <<"r2", 12, 0>>},
      !.unmanaged = c[4] \cup UNION {Link(n[1], n, Border(n)) : n \in {X1b, X3b, X4b}} \cup UNION {Link(IF b THEN n[1] ELSE "v", n, Border(n)) : n \in x},
      !.services = <<Svc(<<O(X1b), O(X4b)>> \o SetToSeq({O(n) : n \in x}), <<User>>, <<O(X3), O(d)>>, PrtT(1, 1))>>] :
     x \in {{n} : n \in Extras} \cup {{}}, c \in RouteConfigs, b \in BOOLEAN, d \in {X3b, <<"z3", 12, 2, "any">>, <<"r1", 8, 0>>}}

\* Router r1, or both routers, are local filters.
Filters == {{<<0, 3>>, <<8, 1>>, <<10, 1>>}, {<<0, 3>>, <<8, 2>>, <<14, 0>>}, {<<0, 4>>}}
LocalRules ==
  {[Base EXCEPT !.aggregates = Aggs({x, y}), !.networks = @ \cup n, !.managed = [r1 |-> "local", r2 |-> m[1]], !.filterOnly = [r \in R |-> f],
      !.model = [r1 |-> m[2], r2 |-> {}], !.services = <<Svc(<<O(x), O(N4)>>, <<User>>, <<O(y), O(N2)>>, PrtT(1, 1))>>] :
     f \in Filters, n \in {{}, {N4b}}, m \in {<<"standard", {}>>, <<"standard", {"stateless"}>>, <<"local", {}>>},
     x \in {H, AnyNet("z1"), AnyNet("z2")}, y \in {N3, N3a, AnyNet("z4")}}

\* Two rules, one of them for a supernet of the other zone.  A router in front of it
\* or behind it optimizes; both rules have the same networks at their other side, or not.
Rule2(src, dst, n) == [deny |-> FALSE, src |-> src, dst |-> dst, prts |-> {PrtT(n, n)}, log |-> ""]
Kinds2 ==
  {[r1 |-> "secondary", r2 |-> "standard"], [r1 |-> "standard", r2 |-> "primary"],
   [r1 |-> "standard", r2 |-> "secondary"], [r1 |-> "primary", r2 |-> "standard"]}
Near == <<O(X1), O(X1b)>>
Far == <<O(X3), O(X3b)>>
Pick(objs, S) == SetToSeq({objs[n] : n \in S})
ConflictRules ==
  {[Base EXCEPT !.ports = {<<1, 1>>, <<2, 2>>}, !.networks = Nets8, !.hosts = {}, !.aggregates = {a}, !.managed = m,
      !.interfaces = {<<"r1", 0, 0>>, <<"r1", 8, 0>>, <<"r1", 4, 0>>, Direct, <<"r2", 12, 0>>},
      !.services = <<[user |-> <<>>, foreach |-> FALSE,
                      rules |-> IF a = AnyNet("z2")
                                THEN <<Rule2(Pick(Near, S), Pick(Far, T), 1), Rule2(<<O(a)>>, Pick(Far, U), 2)>>
                                ELSE <<Rule2(Pick(Near, T), Pick(Far, S), 1), Rule2(Pick(Near, U), <<O(a)>>, 2)>>]>>] :
     a \in {AnyNet("z2"), Half("z2")}, m \in Kinds2, S \in {{1}, {1, 2}}, T \in {{1}, {1, 2}}, U \in {{1}, {2}, {1, 2}}}

\* In the other families, each zone has one unmanaged router.
Linked(P) == {[p EXCEPT !.unmanaged = {<<n[1], n>> : n \in p.networks}] : p \in P}

AllPolicies ==
  Linked(Supernet1 \cup MixedRules \cup PortRules \cup ModRules \cup HostRules \cup GroupRules \cup MarkRules \cup AutoRules \cup RedundantRules \cup LocalRules \cup ConflictRules)
    \cup RouteRules
=============================================================================
