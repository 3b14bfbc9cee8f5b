----------------------------- MODULE PrintRoutes -----------------------------
(***************************************************************************)
(* Routing code of managed routers (printRoutes in print-code.go): routes  *)
(* of a router are combined, redundant ones are left out, and one hop may  *)
(* get a default route.  There is no device with VPN.                      *)
(***************************************************************************)
EXTENDS FindRoutes

VARIABLE
  printed     \* routes of generated code: <<border interface, hop, <<ip, size>>>>

InitPrint == printed = {}

\* A route is a triple <<border interface, hop, address>>.
Via(r) == <<r[1], r[2]>>
OfRouter(R, router) == {r \in R : r[1][1] = router}
Found(router) == {<<r[1], r[2], Addr2(r[3])>> : r \in OfRouter(routes, router)}

(***************************************************************************)
(* Adjacent networks of the same hop are combined, from small to large     *)
(* networks: routes in "all" have been seen, those in "live" are used.     *)
(***************************************************************************)
LeftParts(all, size) ==
  {r \in all :
     /\ r[3][2] = size
     /\ r[3][1] % 2^(size + 1) = 0
     /\ <<r[1], r[2], <<r[3][1] + 2^size, size>>>> \in all
     /\ ~\E q \in all : q[3] = <<r[3][1], size + 1>>}
RightPart(r) == <<r[1], r[2], <<r[3][1] + 2^r[3][2], r[3][2]>>>>
Joined(r) == <<r[1], r[2], <<r[3][1], r[3][2] + 1>>>>

WithWhole(x, left, whole) ==
  [all |-> x.all \cup whole, live |-> (x.live \ (left \cup {RightPart(r) : r \in left})) \cup whole]

Combine1(x, left) == WithWhole(x, left, {Joined(r) : r \in left})
Combine(x, size) == Combine1(x, LeftParts(x.all, size))

Combined(R) == FoldLeft(LAMBDA x, n : Combine(x, n - 1), [all |-> R, live |-> R], [n \in 1 .. AddrBits |-> n]).live

(***************************************************************************)
(* A route is redundant, if the next larger network uses the same hop.  It *)
(* must be kept (noOpt), if the next larger network uses another hop.      *)
(***************************************************************************)
Around(r, R) == {q \in R : r[3][2] < q[3][2] /\ AddrBelow(r[3], q[3])}
NextAround(r, R) == {q \in Around(r, R) : \A p \in Around(r, R) : q[3][2] <= p[3][2]}

Redundant(r, R) == \E q \in NextAround(r, R) : Via(q) = Via(r)

NoOpt(r, R) == \E q \in NextAround(r, R) : Via(q) # Via(r)

(***************************************************************************)
(* Automatic default route for an interface and hop with largest number of *)
(* routes, at least two.  Among equal ones the order is arbitrary.         *)
(***************************************************************************)
AutoDefault(router) ==
  /\ policy.autoDefault
  /\ \A x \in Links : x[1] = router => ~Dynamic(x)
  /\ \A r \in Found(router) : r[3][2] < AddrBits

Count(R, all, v) == Cardinality({r \in R : Via(r) = v /\ ~NoOpt(r, all)})
Best(R, all) ==
  {v \in {Via(r) : r \in R} : Count(R, all, v) > 1 /\ \A q \in R : Count(R, all, Via(q)) <= Count(R, all, v)}

WithDefault(R, v, all) == {r \in R : Via(r) # v \/ NoOpt(r, all)} \cup {<<v[1], v[2], <<0, AddrBits>>>>}

\* What may be printed for a router, with all its combined routes or the ones that are used.
Defaults(R, all, vias) == IF vias = {} THEN {R} ELSE {WithDefault(R, v, all) : v \in vias}

PrintRoutes ==
  /\ step = "print routes"
  /\ \E all \in {[r \in Routers |-> Combined(Found(r))]} :
       \E R \in {[r \in Routers |-> {x \in all[r] : ~Redundant(x, all[r])}]} :
         \E out \in {[r \in Routers |-> Defaults(R[r], all[r], IF AutoDefault(r) THEN Best(R[r], all[r]) ELSE {})]} :
           \E f \in [Routers -> UNION {out[r] : r \in Routers}] :
             /\ \A r \in Routers : f[r] \in out[r]
             /\ printed' = UNION {f[r] : r \in Routers}
  /\ step' = "done"

-----------------------------------------------------------------------------
(***************************************************************************)
(* A router takes the most specific one of its networks and routes.        *)
(***************************************************************************)
ConnectedNets(router) == {BorderNet(x) : x \in {y \in Links : y[1] = router}}
LocalRoutes(router) == {<<x, x, Addr2(BorderNet(x))>> : x \in {y \in Links : y[1] = router}}
Taken(router, a) ==
  {r \in LocalRoutes(router) \cup OfRouter(printed, router) :
     /\ a \in Block(r[3])
     /\ \A q \in LocalRoutes(router) \cup OfRouter(printed, router) : a \in Block(q[3]) => r[3][2] <= q[3][2]}

\* Route r of a router leads to network n in zone z of the router, or through zone z to
\* the next router.
LeadsInto(r, n) ==
  IF n = BorderNet(r[1]) THEN r[2] = r[1] ELSE r[2] \in policy.unmanaged /\ n \in ReachedBy(r[2], BorderNet(r[1]))
LeadsThrough(r, next) ==
  IF BorderNet(r[1]) = BorderNet(next) THEN r[2] = next ELSE LeadsInto(r, BorderNet(next))

Leads(h, r, n) ==
  /\ r[1] = <<h.router, h.out>>
  /\ IF h.out = n[1] THEN LeadsInto(r, n) ELSE LeadsThrough(r, <<NextIn(h.out, n[1]).router, h.out>>)

\* Networks that are used together in a rule, in both directions.
RealNet(list) == {o \in list : IsNetwork(o) /\ ~IsAggregate(o)}
UsedPairs ==
  UNION {RealNet(r.src) \X RealNet(r.dst) : r \in {q \in pathRules : ~q.deny /\ {q.srcPath, q.dstPath} \subseteq Zones}}
BothWays == UsedPairs \cup {<<x[2], x[1]>> : x \in UsedPairs}

StaticOnly(h) == ~Dynamic(<<h.router, h.out>>)

WayIsFound(x) ==
  \A h \in Hops[x[1][1], x[2][1]], a \in {b \in AddrOf(x[2]) : Home(b) = x[2]} :
    StaticOnly(h) => Taken(h.router, a) # {} /\ \A r \in Taken(h.router, a) : Leads(h, r, x[2])

\* A network behind a hop is part of a network that is connected to the router.
InConnected ==
  \E r \in routes : \E n \in ConnectedNets(r[1][1]) : IsSmaller(r[3], n)

\* Packets between networks of a rule find their way at each managed router, and so do
\* the answers: the most specific route leads to the next router or to the network.
RoutesLead ==
  step = "done" /\ routeErrors = {} /\ ~InConnected => \A x \in BothWays : WayIsFound(x)

\* The comment at print-code.go:355 says "But still generate routes for small networks
\* with supernet behind other hop."  The code violates this, if the supernet is connected
\* to the router itself.
SubnetsKeepRoutes ==
  step = "done" /\ routeErrors = {} => \A x \in BothWays : WayIsFound(x)
=============================================================================
