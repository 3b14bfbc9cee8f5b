--------------------------- MODULE PolicyObjects ---------------------------
(***************************************************************************)
(* Topology, objects and services that pass 1 works on after zones have    *)
(* been found.  There are no loops and no NAT, so the path between two     *)
(* nodes is unique; module PathWalk has the search for paths.              *)
(*                                                                         *)
(* A node is a zone or a managed router.  A network is a triple <<zone,    *)
(* ip, size>> of its zone, its first address and the number of its host    *)
(* bits.  An aggregate has "any" as fourth element, a subnet of network    *)
(* HostNet, which stands for hosts, has "subnet".  An interface is a       *)
(* triple <<router, ip, 0>>.  A host is a triple <<"host", first, last>>   *)
(* of network HostNet; its addresses are relative to the network.          *)
(***************************************************************************)
EXTENDS AclObjects, SequencesExt

CONSTANTS
  Zones,
  Routers,
  Links,      \* pairs <<router, zone>>
  HostNet,    \* the network that has hosts
  None,       \* attribute is not set
  Policies    \* what the program may read

VARIABLES
  policy,     \* what the program has read, see below
  step,       \* next step of the program
  netUp,      \* attribute up of networks and aggregates
  subNets,    \* attribute networks of networks and aggregates
  zoneAggs    \* ipmask2aggregate of all zones: TRUE for objects that are visible

netVars == <<netUp, subNets, zoneAggs>>

\* The fields of a policy are
\*   ports       port ranges that are in use, for tcp as well as udp
\*   networks    set of networks
\*   aggregates  set of explicitly defined aggregates
\*   hosts       hosts of network HostNet, as pairs of addresses
\*   interfaces  set of interfaces
\*   crosslink   networks with attribute crosslink
\*   groups      function from names to sequences of elements
\*   areas       function from names to sets of zones
\*   services    sequence of services
\*   managed     function from routers to "primary", "full", "standard", "secondary"
\*               or "local"
\*   filterOnly  function from local routers to addresses of attribute filter_only
\*   model       function from routers to a set of "stateless", "statelessSelf", "ioACL"
\*               and "ASA"
\*   unmanaged   unmanaged routers: set of pairs of a router and a network
\*   dynamic     pairs of router and zone whose interface has dynamic routing
\*   autoDefault configuration option auto_default_route
\*   noInAcl     function from some routers to the zone of an interface without ACL

AddrOf(obj) == Block(<<obj[2], obj[3]>>)
IsIntf(obj) == obj[1] \in Routers
IsHost(obj) == obj[1] = "host"
IsAggregate(obj) == Len(obj) = 4 /\ obj[4] = "any"
IsSubnet(obj) == Len(obj) = 4 /\ obj[4] = "subnet"
IsNetwork(obj) == obj[1] \in Zones /\ ~IsSubnet(obj)
Is(r, flag) == flag \in policy.model[r]

NetObjects == DOMAIN netUp
IsSmaller(a, b) == a[3] < b[3] /\ AddrBelow(<<a[2], a[3]>>, <<b[2], b[3]>>)
SameAddr(a, b) == a[2] = b[2] /\ a[3] = b[3]

\* The smallest network of a zone with address ip.
NetworkIn(z, ip) ==
  CHOOSE n \in policy.networks :
    /\ n[1] = z /\ ip \in AddrOf(n)
    /\ \A m \in policy.networks : m[1] = z /\ ip \in AddrOf(m) => n[3] <= m[3]

\* Zone and network of an interface.
IntfZone(i) ==
  CHOOSE z \in Zones : <<i[1], z>> \in Links /\ \E n \in policy.networks : n[1] = z /\ i[2] \in AddrOf(n)
IntfNet(i) == NetworkIn(IntfZone(i), i[2])

\* getPathNode
PathNode(obj) == IF IsHost(obj) THEN HostNet[1] ELSE obj[1]

-----------------------------------------------------------------------------
(***************************************************************************)
(* Paths                                                                   *)
(***************************************************************************)
Nodes == Zones \cup Routers
Adjacent(a, b) == <<a, b>> \in Links \/ <<b, a>> \in Links

WithNext(S, N) == S \cup {b \in N : \E a \in S : Adjacent(a, b)}

\* Nodes that are reached from nodes of S through nodes of N.
ReachedFrom(S, N) ==
  LET Reached[k \in Nat] == IF k = 0 THEN S ELSE WithNext(Reached[k - 1], N)
  IN  Reached[Cardinality(N)]

\* Zones that are connected by routers of R.
Connected(a, b, R) == {a, b} \subseteq Zones /\ b \in ReachedFrom({a}, Zones \cup R)

\* Nodes of the path from a to b.
OnPath ==
  [a \in Nodes, b \in Nodes |->
     {a, b} \cup {n \in Nodes \ {a, b} : b \notin ReachedFrom({a}, Nodes \ {n})}]

\* The zone where a path from node a enters router r.
Entry(a, r) ==
  IF a = r THEN None ELSE CHOOSE z \in OnPath[a, r] : <<r, z>> \in Links

\* What pathWalk calls its function with: routers of the path, each with the zones of its
\* incoming and outgoing interface.
Hop(r, in, out) == [router |-> r, in |-> in, out |-> out]
Hops ==
  [a \in Nodes, b \in Nodes |->
     IF a = b THEN {} ELSE {Hop(r, Entry(a, r), Entry(b, r)) : r \in OnPath[a, b] \cap Routers}]
=============================================================================
