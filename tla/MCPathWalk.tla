----------------------------- MODULE MCPathWalk -----------------------------
(***************************************************************************)
(* Instances of module PathWalk for TLC.                                   *)
(***************************************************************************)
EXTENDS PathWalk

CONSTANTS z1, z2, z3, z4, r1, r2, r3, r4

Edges(list) == [i \in Intfs |-> [router |-> list[i][1], zone |-> list[i][2]]]

\* A loop of four nodes with a tail at a zone and a tail at a router.
TwoTails ==
  Edges(<<<<r1, z1>>, <<r1, z2>>, <<r2, z1>>, <<r2, z2>>, <<r3, z2>>, <<r3, z3>>, <<r2, z4>>, <<r4, z4>>>>)

\* Two loops of the same cluster, united by three parallel paths, with a tail.
Parallel ==
  Edges(<<<<r1, z1>>, <<r2, z1>>, <<r3, z1>>, <<r1, z2>>, <<r2, z2>>, <<r3, z2>>, <<r4, z2>>, <<r4, z3>>>>)

\* Two loops with a common node, and a tail behind each of them.
Eight ==
  Edges(<<<<r1, z1>>, <<r1, z1>>, <<r1, z2>>, <<r1, z2>>, <<r2, z2>>, <<r2, z3>>, <<r3, z1>>, <<r3, z4>>>>)

\* Two clusters, connected by one interface between a router of the first and a
\* zone of the second one.
TwoClusters ==
  Edges(<<<<r1, z1>>, <<r1, z1>>, <<r1, z2>>, <<r2, z2>>, <<r2, z2>>, <<r3, z2>>, <<r3, z3>>, <<r4, z1>>>>)

MCTopologies == {TwoTails, Parallel, Eight, TwoClusters}

\* No pathrestriction, any one with two interfaces, some larger or overlapping ones.
MCRestrictions ==
  {{}, {{1, 3, 5}}, {{1, 4}, {4, 5}}, {{1, 6}, {3, 8}}}
    \cup {{r} : r \in {s \in SUBSET Intfs : Cardinality(s) = 2}}
=============================================================================
