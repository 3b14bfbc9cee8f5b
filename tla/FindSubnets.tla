---------------------------- MODULE FindSubnets ----------------------------
(***************************************************************************)
(* Subnet relation between networks and aggregates inside of a zone and    *)
(* inside of a single NAT domain (find-subnets.go, get-aggregates.go).     *)
(***************************************************************************)
EXTENDS PolicyObjects

VARIABLES
  firstNet,     \* maskIPMap: of objects with equal address the one that comes first
  netTodo,      \* objects whose relation isIn must still be looked at
  pending,      \* pendingOtherSubnet as pairs of subnet and larger network
  hasOther      \* objects with attribute hasOtherSubnet

subnetVars == <<firstNet, netTodo, pending, hasOther>>

InitSubnets ==
  /\ netUp = [n \in policy.networks \cup policy.aggregates |-> None]
  /\ subNets = [n \in policy.networks \cup policy.aggregates |-> {}]
  /\ zoneAggs = [n \in policy.aggregates |-> TRUE]
  /\ firstNet = {} /\ netTodo = {} /\ pending = {} /\ hasOther = {}

\* processSubnetRelation: the smallest larger element of S around s.
DirectUp(s, S) ==
  LET larger == {b \in S : IsSmaller(s, b)}
  IN  IF larger = {} THEN None ELSE CHOOSE b \in larger : \A c \in larger : b[3] <= c[3]

OfZone(z) == {n \in NetObjects : n[1] = z}

\* Networks whose smallest supernet is b, or an aggregate below b.
RECURSIVE NetsBelow(_, _)
NetsBelow(b, up) ==
  UNION {IF IsAggregate(n) THEN NetsBelow(n, up) ELSE {n} : n \in {m \in DOMAIN up : up[m] = b}}

FindSubnetsInZone ==
  /\ step = "subnets in zone"
  /\ \E up \in {[n \in NetObjects |-> DirectUp(n, OfZone(n[1]))]} :
       /\ netUp' = up
       /\ subNets' = [b \in NetObjects |-> NetsBelow(b, up)]
  /\ step' = "services"
  /\ UNCHANGED <<zoneAggs, subnetVars>>

-----------------------------------------------------------------------------
(***************************************************************************)
(* Aggregates that are created while groups are expanded (getAny)          *)
(***************************************************************************)
\* All larger objects of the same zone.
RECURSIVE UpNets(_)
UpNets(n) == IF netUp[n] = None THEN {} ELSE {netUp[n]} \cup UpNets(netUp[n])

\* Networks of a zone without those that are part of another one: zone.networks.
TopNetworks(z) ==
  {n \in OfZone(z) : ~IsAggregate(n) /\ \A b \in UpNets(n) : IsAggregate(b)}

\* Objects that get the new aggregate as supernet, instead of one that isn't smaller.
MovedBelow(agg) ==
  {n \in OfZone(agg[1]) : IsSmaller(n, agg) /\ (netUp[n] = None \/ netUp[n][3] >= agg[3])}

\* The aggregate that already exists for an address of a zone, or a network like this.
Existing(z, ip, size) ==
  {n \in DOMAIN zoneAggs \cup TopNetworks(z) : n[1] = z /\ n[2] = ip /\ n[3] = size}

GetAny(z, ip, size) ==
  IF Existing(z, ip, size) = {} THEN <<z, ip, size, "any">> ELSE CHOOSE n \in Existing(z, ip, size) : TRUE

\* linkImplicitAggregateToZone for aggregates of different zones.
MovedTo(n, aggs) == {a \in aggs : n \in MovedBelow(a)}

LinkAggregates(aggs) ==
  /\ netUp' = [n \in NetObjects \cup aggs |->
                 IF n \in aggs THEN DirectUp(n, OfZone(n[1]))
                 ELSE IF MovedTo(n, aggs) # {} THEN CHOOSE a \in MovedTo(n, aggs) : TRUE
                 ELSE netUp[n]]
  /\ subNets' = [n \in NetObjects \cup aggs |->
                   IF n \in aggs
                   THEN UNION {IF IsAggregate(m) THEN subNets[m] ELSE {m} : m \in MovedBelow(n)}
                   ELSE subNets[n]]

-----------------------------------------------------------------------------
(***************************************************************************)
(* findSubnetsInNatDomain                                                  *)
(***************************************************************************)
\* Objects with equal address; at least one of two is an aggregate.  Networks come before
\* aggregates, otherwise their order is arbitrary.
IdenticalNetworks ==
  /\ step = "identical"
  /\ \E S \in {NetObjects \ D : D \in SUBSET {n \in NetObjects : \E m \in NetObjects \ {n} : SameAddr(m, n)}} :
       /\ \A n \in NetObjects : Cardinality({m \in S : SameAddr(m, n)}) = 1
       /\ \A n \in NetObjects \ S, m \in S : SameAddr(m, n) /\ IsAggregate(m) => IsAggregate(n)
       /\ firstNet' = S
       /\ netTodo' = {n \in S : DirectUp(n, S) # None}
  /\ hasOther' = {n \in NetObjects : \E m \in NetObjects \ {n} : SameAddr(m, n)}
  /\ step' = "relation"
  /\ UNCHANGED <<netVars, pending>>

\* markNetworkAndPending
RECURSIVE Mark(_, _)
Mark(marked, n) ==
  IF n \in marked THEN marked
  ELSE FoldSet(LAMBDA b, m : Mark(m, b), marked \cup {n}, {p[2] : p \in {q \in pending : q[1] = n}})

IsIn(n) == DirectUp(n, firstNet)

\* Mutant of SameZone: a subnet that may be marked later is not remembered.
SameZoneNow(sub, big) ==
  /\ sub[1] = big[1]
  /\ hasOther' = IF sub \in hasOther THEN hasOther \cup {big} ELSE hasOther
  /\ UNCHANGED pending

\* A network has a subnet in its zone; this subnet may be marked later.
SameZone(sub, big) ==
  /\ sub[1] = big[1]
  /\ IF sub \in hasOther
     THEN hasOther' = hasOther \cup {big} /\ UNCHANGED pending
     ELSE pending' = pending \cup {<<sub, big>>} /\ UNCHANGED hasOther

\* An aggregate inside of a supernet of another zone is marked as well.
OtherZone(sub, big) ==
  /\ sub[1] # big[1]
  /\ hasOther' = IF IsAggregate(sub) THEN Mark(Mark(hasOther, big), sub) ELSE Mark(hasOther, big)
  /\ UNCHANGED pending

SubnetRelation ==
  /\ step = "relation"
  /\ \E n \in netTodo :
       /\ IsAggregate(n) => \A m \in netTodo : IsAggregate(m)
       /\ SameZone(n, IsIn(n)) \/ OtherZone(n, IsIn(n))
       /\ netTodo' = netTodo \ {n}
  /\ UNCHANGED <<step, netVars, firstNet>>

EndOfRelation ==
  /\ step = "relation"
  /\ netTodo = {}
  /\ step' = "local"
  /\ UNCHANGED <<netVars, subnetVars>>

NextSubnets ==
  \/ FindSubnetsInZone
  \/ IdenticalNetworks
  \/ SubnetRelation
  \/ EndOfRelation

-----------------------------------------------------------------------------
Largest(S) == IF S = {} THEN None ELSE CHOOSE b \in S : \A c \in S : c[3] <= b[3]

\* maxRoutingNet, and maxSecondaryNet below the first network with hasOtherSubnet.
MaxRoutingNet(n) == Largest({b \in UpNets(n) : ~IsAggregate(b)})
MaxSecondaryNet(n) ==
  IF MaxRoutingNet(n) \notin hasOther THEN MaxRoutingNet(n)
  ELSE Largest({b \in UpNets(n) : /\ ~IsAggregate(b)
                                  /\ \A c \in UpNets(n) : c[3] <= b[3] => c \notin hasOther})

\* A zone where an object has two supernets, see OthersMarked.
NestedTwice == \E n \in NetObjects : netUp[n] # None /\ netUp[netUp[n]] # None

\* The comment at find-subnets.go:373 says "Bignet must be marked, if subnet is marked
\* later with hasOtherSubnet."  The code violates this: a larger network that is marked
\* because its subnet is marked already doesn't mark those that wait for it.
PendingIsMarked == \A p \in pending : p[1] \in hasOther => p[2] \in hasOther

\* findSubnetsInNatDomain: a network is marked if addresses of it belong to an object of
\* another zone, so that a rule for this network would also apply there, and only an
\* aggregate may be marked for another reason, a supernet in another zone.  Both the check
\* of supernet rules and secondary optimization rely on this mark.
OthersMarked ==
  step = "local" /\ ~NestedTwice =>
    \A n \in NetObjects :
      \E others \in {{m \in NetObjects : m[1] # n[1]}} :
        /\ (\E m \in others : IsSmaller(m, n) \/ SameAddr(m, n)) => n \in hasOther
        /\ n \in hasOther =>
             \E m \in others : \/ IsSmaller(m, n) \/ SameAddr(m, n)
                              \/ (IsAggregate(n) /\ IsSmaller(n, m))
=============================================================================
