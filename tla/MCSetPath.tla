----------------------------- MODULE MCSetPath -----------------------------
(***************************************************************************)
(* Instances of module SetPath for TLC.                                    *)
(***************************************************************************)
EXTENDS SetPath

CONSTANTS z1, z2, z3, r1, r2, r3

(***************************************************************************)
(* All topologies with these nodes, up to the names of the nodes and       *)
(* interfaces: interfaces are numbered by their ends, nodes are named in   *)
(* the order of their number of interfaces, each router has one at least.  *)
(***************************************************************************)
Code == [router : Routers, zone : Zones]
Rank(e) ==
  (CASE e.zone = z1 -> 0 [] e.zone = z2 -> 1 [] e.zone = z3 -> 2)
    + 3 * (CASE e.router = r1 -> 0 [] e.router = r2 -> 1 [] e.router = r3 -> 2)
Degree(g, n) == Cardinality({i \in Intfs : n \in {g[i].router, g[i].zone}})

Sorted(g) == \A i \in Intfs : i + 1 \in Intfs => Rank(g[i]) <= Rank(g[i + 1])

MCTopologies ==
  {g \in [Intfs -> Code] :
     /\ Sorted(g)
     /\ Degree(g, z1) >= Degree(g, z2) /\ Degree(g, z2) >= Degree(g, z3)
     /\ Degree(g, r1) >= Degree(g, r2) /\ Degree(g, r2) >= Degree(g, r3)
     /\ Degree(g, r3) > 0}
=============================================================================
