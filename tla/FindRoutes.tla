----------------------------- MODULE FindRoutes -----------------------------
(***************************************************************************)
(* Static routes of managed routers (routes.go): for each interface of a   *)
(* managed router the next hops to networks that are used in rules.  There *)
(* are no redundancy groups, tunnels or bridged networks.                  *)
(*                                                                         *)
(* Inside of a zone, networks are linked by unmanaged routers.  A border   *)
(* network of a zone is linked to a managed router.  A border interface is *)
(* a pair <<router, zone>>, because a router has at most one interface in  *)
(* each zone.  A hop is the interface where a route leads to: a border     *)
(* interface of another router, or <<unmanaged router, border network>>.   *)
(***************************************************************************)
EXTENDS DistributeRules

VARIABLES
  toVisit,    \* hops that setRoutesInZone must still look at
  behind,     \* hop2netMap: networks behind a hop
  calls,      \* unfinished calls of setNetworksBehind, the innermost one first
  routes,     \* attribute routes of all interfaces: <<border interface, hop, network>>
  routeErrors \* networks with two static routes, together with their router

routeVars == <<toVisit, behind, calls, routes, routeErrors>>

InitRoutes == toVisit = {} /\ behind = <<>> /\ calls = <<>> /\ routes = {} /\ routeErrors = {}

BorderNet(x) == IntfNet(CHOOSE i \in policy.interfaces : i[1] = x[1] /\ IntfZone(i) = x[2])
BorderNets == {BorderNet(x) : x \in Links}
HopsAt(b) == {h \in policy.unmanaged : h[2] = b}
HopIntfs == UNION {HopsAt(b) : b \in BorderNets}

\* Mutant of RouteNets: only the largest network around.
LargestNets(list) ==
  UNION {IF IsAggregate(o) THEN subNets[o]
         ELSE {IF MaxRoutingNet(NetOf(o)) = None THEN NetOf(o) ELSE MaxRoutingNet(NetOf(o))} : o \in list}

\* getRouteNetworks
RouteNets(list) ==
  UNION {IF IsAggregate(o) THEN subNets[o]
         ELSE {NetOf(o)} \cup ({MaxRoutingNet(NetOf(o))} \ {None}) : o \in list}

-----------------------------------------------------------------------------
(***************************************************************************)
(* setRoutesInZone                                                         *)
(***************************************************************************)
\* setCluster: unmanaged routers that are connected by networks that aren't border networks.
RECURSIVE ClusterFrom(_)
ClusterFrom(S) ==
  LET inner == {h[2] : h \in {x \in policy.unmanaged : x[1] \in S}} \ BorderNets
      T == S \cup {h[1] : h \in {x \in policy.unmanaged : x[2] \in inner}}
  IN  IF T = S THEN S ELSE ClusterFrom(T)
Cluster(h) == ClusterFrom({h[1]})

LinkedTo(h) == {x[2] : x \in {y \in policy.unmanaged : y[1] \in Cluster(h)}}
ClusterNets(h) == LinkedTo(h) \ BorderNets
BordersOf(h) == LinkedTo(h) \cap BorderNets

\* All hops of a border network are looked at, if there is more than one, before the next
\* border network.
StartRoutes ==
  /\ step = "routes"
  /\ toVisit' = {h \in HopIntfs : Cardinality(HopsAt(h[2])) > 1}
  /\ step' = "networks behind"
  /\ UNCHANGED <<behind, calls, routes, routeErrors>>

CallFor(h, from) == [hop |-> h, borders |-> BordersOf(h) \ {from}, outs |-> {}]

\* setNetworksBehind: the preliminary result is the directly attached cluster.
Visit(h, from) ==
  /\ h \notin DOMAIN behind
  /\ behind' = (h :> ClusterNets(h)) @@ behind
  /\ calls' = <<CallFor(h, from)>> \o calls

VisitHop ==
  /\ step = "networks behind"
  /\ calls = <<>>
  /\ \E h \in toVisit :
       /\ \A g \in toVisit : HopsAt(g[2]) \subseteq toVisit \/ g[2] = h[2]
       /\ toVisit' = toVisit \ {h}
       /\ \/ Visit(h, h[2])
          \/ h \in DOMAIN behind /\ UNCHANGED <<behind, calls>>
  /\ UNCHANGED <<step, routes, routeErrors>>

\* Proceed with a border network: it is behind the hop, and so are networks behind hops to
\* other clusters.
NextBorder ==
  /\ calls # <<>> /\ calls[1].outs = {}
  /\ \E b \in calls[1].borders :
       /\ behind' = [behind EXCEPT ![calls[1].hop] = @ \cup {b}]
       /\ calls' = [calls EXCEPT ![1].borders = @ \ {b},
                                 ![1].outs = {o \in HopsAt(b) : Cluster(o) # Cluster(calls[1].hop)}]
  /\ UNCHANGED <<step, toVisit, routes, routeErrors>>

NextOut ==
  /\ calls # <<>>
  /\ \E o \in calls[1].outs :
       \/ Visit(o, o[2])
       \/ /\ o \in DOMAIN behind
          /\ behind' = [behind EXCEPT ![calls[1].hop] = @ \cup behind[o]]
          /\ calls' = [calls EXCEPT ![1].outs = @ \ {o}]
  /\ UNCHANGED <<step, toVisit, routes, routeErrors>>

EndOfCall ==
  /\ calls # <<>> /\ calls[1].borders = {} /\ calls[1].outs = {}
  /\ calls' = Tail(calls)
  /\ UNCHANGED <<step, toVisit, behind, routes, routeErrors>>

\* Attribute routeInZone of a border interface: hops to network n.  A single hop leads to
\* all networks.
HopsTo(x, n) ==
  {h \in HopsAt(BorderNet(x)) : Cardinality(HopsAt(BorderNet(x))) = 1 \/ (n # BorderNet(x) /\ n \in behind[h])}

-----------------------------------------------------------------------------
(***************************************************************************)
(* generateRoutingTree and generateRoutingInfo.  Networks of source and    *)
(* destination are handled alike, hence a rule leads to the same routes in *)
(* a pseudo rule for each pair of zones as it does alone.                  *)
(***************************************************************************)
Dynamic(x) == x \in policy.dynamic

\* addPathRoutes: inside of a zone, from one border interface to another one.
PathRoutes(x, y, nets) ==
  IF Dynamic(x) THEN {}
  ELSE {x} \X (IF BorderNet(x) = BorderNet(y) THEN {y} ELSE HopsTo(x, BorderNet(y))) \X nets

\* addEndRoutes: networks inside of the zone of an interface.
EndRoutes(x, nets) ==
  IF Dynamic(x) THEN {} ELSE UNION {{x} \X HopsTo(x, n) \X {n} : n \in nets \ {BorderNet(x)}}

\* Border interfaces where a path from zone a leaves zones on its way to zone b.
NextIn(z, b) == CHOOSE h \in Hops[z, b] : h.in = z

\* Routes at all routers between zones a and b to networks of zone b.
RoutesTo(a, b, nets) ==
  UNION {IF h.out = b THEN EndRoutes(<<h.router, b>>, nets)
         ELSE PathRoutes(<<h.router, h.out>>, <<NextIn(h.out, b).router, h.out>>, nets) : h \in Hops[a, b]}

\* Source or destination is interface x of a managed router: routes of this router.
IntfRoutes(x, b, nets) ==
  IF NextIn(x[2], b).router = x[1] THEN {} ELSE PathRoutes(x, <<NextIn(x[2], b).router, x[2]>>, nets)

\* Rules are split for interfaces that are grouped at routers.
Ends(p, list) == IF p \in Zones THEN {<<p, None, list>>} ELSE {<<IntfZone(i), <<p, IntfZone(i)>>, {i}>> : i \in list}

RoutesOfEnds(s, d) ==
  IF s[1] = d[1]
  THEN (IF s[2] = None THEN {} ELSE EndRoutes(s[2], RouteNets(d[3])))
         \cup (IF d[2] = None THEN {} ELSE EndRoutes(d[2], RouteNets(s[3])))
  ELSE RoutesTo(s[1], d[1], RouteNets(d[3])) \cup RoutesTo(d[1], s[1], RouteNets(s[3]))
         \cup (IF s[2] = None THEN {} ELSE IntfRoutes(s[2], d[1], RouteNets(d[3])))
         \cup (IF d[2] = None THEN {} ELSE IntfRoutes(d[2], s[1], RouteNets(s[3])))

RoutesOfRule(r) == UNION {RoutesOfEnds(s, d) : s \in Ends(r.srcPath, r.src), d \in Ends(r.dstPath, r.dst)}

\* checkAndConvertRoutes: a network must be reached by one interface and one hop.
TwoRoutes(R) ==
  {<<x[1][1], x[3]>> : x \in {y \in R : \E z \in R : z[1][1] = y[1][1] /\ z[3] = y[3] /\ z # y}}

FindActiveRoutes ==
  /\ step = "networks behind"
  /\ toVisit = {} /\ calls = <<>>
  /\ \E R \in {UNION {RoutesOfRule(r) : r \in {q \in pathRules : ~q.deny}}} :
       routes' = R /\ routeErrors' = TwoRoutes(R)
  /\ step' = "reverse"
  /\ UNCHANGED <<toVisit, behind, calls>>

NextRoutes ==
  \/ StartRoutes
  \/ VisitHop
  \/ NextBorder
  \/ NextOut
  \/ EndOfCall
  \/ FindActiveRoutes

-----------------------------------------------------------------------------
\* Networks of a zone that are reached from hop h without crossing network b.
RECURSIVE Reach(_, _)
Reach(S, b) ==
  LET T == S \cup UNION {{x[2] : x \in {y \in policy.unmanaged : y[1] = h[1]}} \ {b} : h \in {g \in policy.unmanaged : g[2] \in S}}
  IN  IF T = S THEN S ELSE Reach(T, b)
ReachedBy(h, b) == Reach({x[2] : x \in {y \in policy.unmanaged : y[1] = h[1]}} \ {b}, b)
=============================================================================
