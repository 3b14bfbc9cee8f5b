---------------------------- MODULE ManagedLocal ----------------------------
(***************************************************************************)
(* Routers with managed=local filter traffic only between networks that    *)
(* match their attribute filter_only (mark-managed-local.go).              *)
(***************************************************************************)
EXTENDS CheckRedundant

VARIABLES
  filterAt,     \* <<router, object>>: attribute filterAt of the object has the mark of router
  filterErrors  \* errors of getManagedLocalClusters

localVars == <<filterAt, filterErrors>>

InitLocal == filterAt = {} /\ filterErrors = {}

IsLocal(r) == policy.managed[r] = "local"
LocalRouters == {r \in Routers : IsLocal(r)}
AttachedTo(r) == {z \in Zones : <<r, z>> \in Links}

\* Routers of the same cluster have the same mark.
LocalCluster(r) == {q \in LocalRouters : \E y \in AttachedTo(r), z \in AttachedTo(q) : Connected(y, z, LocalRouters)}

MatchesFilter(n, r) == \E f \in policy.filterOnly[r] : n[3] <= f[2] /\ n[2] \in Block(f)

\* All networks at the routers of a cluster must match, and the attribute must be equal.
LocalErrors(r) ==
  {<<r, n>> : n \in {m \in UNION {TopNetworks(z) : z \in AttachedTo(r)} : ~MatchesFilter(m, r)}}
    \cup {<<r, q>> : q \in {x \in LocalCluster(r) : policy.filterOnly[x] # policy.filterOnly[r]}}

\* markNetworks: a network and the objects around it.
Marked(r) == UNION {{n} \cup UpNets(n) : n \in {m \in policy.networks : MatchesFilter(m, r)}}

MarkManagedLocal ==
  /\ step = "local"
  /\ filterErrors' = UNION {LocalErrors(r) : r \in LocalRouters}
  /\ filterAt' = UNION {{r} \X Marked(r) : r \in LocalRouters}
  /\ step' = "supernets"

-----------------------------------------------------------------------------
\* getNetwork
NetOf(o) == IF IsSubnet(o) THEN HostNet ELSE IF IsIntf(o) THEN IntfNet(o) ELSE o

\* The elements of a list that a router filters.
FilteredAt(r, list) == IF IsLocal(r) THEN {o \in list : <<r, NetOf(o)>> \in filterAt} ELSE list
=============================================================================
