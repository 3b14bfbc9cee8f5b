--------------------------- MODULE ClusterProofs ---------------------------
(***************************************************************************)
(* Proofs about clusters of loops in module SetPath.                       *)
(*                                                                         *)
(* Nodes are tied to each other if they are connected without bridges.     *)
(* Two invariants build on SetPathInv and StepsInv:                        *)
(*   - TiedInv: each node of a loop is tied to the exit of its loop, each  *)
(*     loop to the one it is redirected to and to its cluster exit, because *)
(*     an interface that leads back to an active node closes a cycle;      *)
(*   - TreeInv: the nodes that have been reached by a call that returns no *)
(*     loop have only one interface that leads out of them, the one of the *)
(*     call.  So it is a bridge.                                           *)
(***************************************************************************)
EXTENDS SetPathProofs

-----------------------------------------------------------------------------
(***************************************************************************)
(* Connected nodes.                                                        *)
(***************************************************************************)
LEMMA ConnectedIsEquivalence ==
  ASSUME graph \in Topologies, NEW E, E \in SUBSET Intfs
  PROVE  /\ \A n \in Node : Connected(n, n, E)
         /\ \A n, m \in Node : Connected(n, m, E) => Connected(m, n, E)
         /\ \A k, n, m \in Node : Connected(k, n, E) /\ Connected(n, m, E) => Connected(k, m, E)
         /\ \A i \in E : \A n, m \in Node : Joins(i, n, m) => Connected(n, m, E)
<1>1. \A n \in Node : Connected(n, n, E)
  BY DEF Connected
<1>2. ASSUME NEW n \in Node, NEW m \in Node, Connected(n, m, E) PROVE Connected(m, n, E)
  <2> SUFFICES ASSUME NEW S \in SUBSET Node, m \in S,
                      \A i \in E : graph[i].router \in S <=> graph[i].zone \in S
               PROVE  n \in S
    BY DEF Connected
  <2> DEFINE T == Node \ S
  <2>1. \A i \in E : graph[i].router \in Node /\ graph[i].zone \in Node
    BY TopologyAssumption DEF Node
  <2>2. \A i \in E : graph[i].router \in T <=> graph[i].zone \in T
    BY <2>1
  <2>3. n \in T => m \in T
    <3>1. T \in SUBSET Node
      OBVIOUS
    <3> HIDE DEF T
    <3> QED  BY <1>2, <2>2, <3>1 DEF Connected
  <2> QED  BY <2>3
<1>3. \A k, n, m \in Node : Connected(k, n, E) /\ Connected(n, m, E) => Connected(k, m, E)
  BY DEF Connected
<1>4. ASSUME NEW i \in E, NEW n \in Node, NEW m \in Node, Joins(i, n, m) PROVE Connected(n, m, E)
  <2>1. i \in IntfList(n) /\ m = Next1(n, i) /\ {n, m} = {graph[i].router, graph[i].zone} /\ i \in Intfs
    BY <1>4, TwoEnds DEF Joins
  <2> QED  BY <2>1 DEF Connected
<1> QED  BY <1>1, <1>2, <1>3, <1>4

\* An interface joins no other nodes than its two ends.
LEMMA EndsOfJoint ==
  ASSUME graph \in Topologies, NEW i, NEW n \in Node, NEW m \in Node, Joins(i, n, m)
  PROVE  /\ i \in Intfs
         /\ \/ n = graph[i].router /\ m = graph[i].zone
            \/ m = graph[i].router /\ n = graph[i].zone
<1>1. i \in IntfList(n) /\ i \in IntfList(m) /\ n # m
  BY DEF Joins
<1>2. i \in Intfs /\ (graph[i].router = n \/ graph[i].zone = n) /\ (graph[i].router = m \/ graph[i].zone = m)
  BY <1>1 DEF IntfList
<1> QED  BY <1>1, <1>2

LEMMA SameEnds ==
  ASSUME graph \in Topologies, NEW i, NEW n \in Node, NEW m \in Node, Joins(i, n, m),
         NEW x \in Node, NEW y \in Node, Joins(i, x, y)
  PROVE  (x = n /\ y = m) \/ (x = m /\ y = n)
<1>1. x # y /\ n # m
  BY DEF Joins
<1> QED  BY <1>1, EndsOfJoint

\* An interface is no bridge if its ends are connected without it.
NonBridges == {i \in Intfs : ~Bridge(i)}

LEMMA NoBridge ==
  ASSUME graph \in Topologies, NEW i \in Intfs, NEW n \in Node, NEW m \in Node, Joins(i, n, m)
  PROVE  i \in NonBridges <=> Connected(n, m, Intfs \ {i})
<1>1. (n = graph[i].router /\ m = graph[i].zone) \/ (m = graph[i].router /\ n = graph[i].zone)
  BY EndsOfJoint
<1>2. Intfs \ {i} \in SUBSET Intfs
  OBVIOUS
<1>3. Connected(n, m, Intfs \ {i}) <=> Connected(m, n, Intfs \ {i})
  BY <1>2, ConnectedIsEquivalence
<1> QED  BY <1>1, <1>3 DEF NonBridges, Bridge

\* Nodes of the same cluster.
Tied(n, m) == Connected(n, m, NonBridges)

LEMMA TiedIsEquivalence ==
  ASSUME graph \in Topologies
  PROVE  /\ \A n \in Node : Tied(n, n)
         /\ \A n, m \in Node : Tied(n, m) => Tied(m, n)
         /\ \A k, n, m \in Node : Tied(k, n) /\ Tied(n, m) => Tied(k, m)
<1>1. NonBridges \in SUBSET Intfs
  BY DEF NonBridges
<1> QED  BY <1>1, ConnectedIsEquivalence DEF Tied

LEMMA TiedKept ==
  ASSUME graph' = graph
  PROVE  \A n, m : Tied(n, m)' <=> Tied(n, m)
BY DEF Tied, NonBridges, Bridge, Connected

-----------------------------------------------------------------------------
(***************************************************************************)
(* Active calls.                                                           *)
(***************************************************************************)
\* The nodes of active calls and the interfaces between them.
CallsOf(c) ==
  /\ c \in Nat /\ c = Len(stack) /\ DOMAIN stack = 1 .. c
  /\ \A k \in 1 .. c : stack[k].obj \in Node
  /\ \A j, k \in 1 .. c : /\ j < k => dist[stack[j].obj] < dist[stack[k].obj]
                          /\ j # k => stack[j].obj # stack[k].obj
                          /\ dist[stack[k].obj] \in Nat
  /\ \A k \in 2 .. c : /\ k - 1 \in 1 .. c
                       /\ stack[k].intf \in Intfs
                       /\ Joins(stack[k].intf, stack[k].obj, stack[k - 1].obj)
  /\ \A k \in 1 .. c : \A i \in stack[k].todo : i \in Intfs /\ i # stack[k].intf

LEMMA CallsKnownOf ==
  ASSUME SearchInv, NEW c, c = Len(stack)
  PROVE  CallsOf(c)
<1>1. /\ stack \in Seq(FrameSet) /\ graph \in Topologies /\ dist \in [Node -> Nat]
      /\ CallsDescend(stack, dist) /\ CallsJoined
  BY DEF SearchInv, Types
<1>2. c \in Nat /\ DOMAIN stack = 1 .. c /\ \A k \in 1 .. c : stack[k] \in FrameSet
  BY <1>1
<1>3. \A k \in 1 .. c : stack[k].obj \in Node /\ dist[stack[k].obj] \in Nat
  BY <1>1, <1>2 DEF FrameSet
<1>4. \A j, k \in 1 .. c : j < k => dist[stack[j].obj] < dist[stack[k].obj]
  <2> SUFFICES ASSUME NEW j \in 1 .. c, NEW k \in 1 .. c, j < k
               PROVE  dist[stack[j].obj] < dist[stack[k].obj]
    OBVIOUS
  <2>1. dist[stack[j].obj] + 2 <= dist[stack[k].obj]
    BY <1>1, <1>2 DEF CallsDescend
  <2> QED  BY <1>3, <2>1
<1>5. \A j, k \in 1 .. c : j # k => stack[j].obj # stack[k].obj
  <2> SUFFICES ASSUME NEW j \in 1 .. c, NEW k \in 1 .. c, j # k, stack[j].obj = stack[k].obj PROVE FALSE
    OBVIOUS
  <2>1. dist[stack[j].obj] < dist[stack[k].obj] \/ dist[stack[k].obj] < dist[stack[j].obj]
    BY <1>2, <1>4
  <2> QED  BY <1>3, <2>1
<1>6. ASSUME NEW k \in 2 .. c
      PROVE  /\ k - 1 \in 1 .. c
             /\ stack[k].intf \in Intfs
             /\ Joins(stack[k].intf, stack[k].obj, stack[k - 1].obj)
  <2>1. k \in 1 .. c /\ k > 1 /\ k - 1 \in 1 .. c
    BY <1>2
  <2>2. Joins(stack[k].intf, stack[k].obj, stack[k - 1].obj)
    BY <1>1, <1>2, <1>3, <2>1 DEF CallsJoined
  <2>3. stack[k].intf \in Intfs
    BY <2>2, IntfListIsSet DEF Joins
  <2> QED  BY <2>1, <2>2, <2>3
<1>7. ASSUME NEW k \in 1 .. c, NEW i \in stack[k].todo PROVE i \in Intfs /\ i # stack[k].intf
  <2>1. stack[k].todo \subseteq IntfList(stack[k].obj) \ {stack[k].intf}
    BY <1>1, <1>2, <1>3 DEF CallsJoined
  <2> QED  BY <2>1, IntfListIsSet
<1> QED  BY <1>2, <1>3, <1>4, <1>5, <1>6, <1>7 DEF CallsOf

\* Calls are connected by the interfaces between them.
LEMMA CallsConnected ==
  ASSUME graph \in Topologies, NEW c, CallsOf(c), NEW E, E \in SUBSET Intfs,
         NEW a \in 1 .. c, NEW b \in 1 .. c, a <= b,
         \A q \in a + 1 .. b : stack[q].intf \in E
  PROVE  Connected(stack[a].obj, stack[b].obj, E)
<1> DEFINE Bad == {d \in Nat : a <= d /\ d <= b /\ ~Connected(stack[a].obj, stack[d].obj, E)}
<1>1. /\ c \in Nat /\ a \in Nat /\ b \in Nat /\ a >= 1 /\ b <= c
      /\ \A k \in 1 .. c : stack[k].obj \in Node
  BY DEF CallsOf
<1>2. Bad = {}
  <2> SUFFICES ASSUME Bad # {} PROVE FALSE
    OBVIOUS
  <2>1. PICK d \in Bad : \A x \in Bad : d <= x
    <3>1. Bad \in SUBSET Nat
      OBVIOUS
    <3> HIDE DEF Bad
    <3> QED  BY <3>1, LeastNumber
  <2>2. d \in Nat /\ a <= d /\ d <= b /\ d \in 1 .. c
    BY <1>1
  <2>3. d # a
    BY <1>1, <2>1, ConnectedIsEquivalence
  <2>4. /\ d \in 2 .. c /\ d \in a + 1 .. b
        /\ d - 1 \in Nat /\ a <= d - 1 /\ d - 1 <= b /\ d - 1 < d /\ d - 1 \in 1 .. c
    BY <1>1, <2>2, <2>3
  <2>5. d - 1 \notin Bad
    BY <2>1, <2>2, <2>4
  <2>6. Connected(stack[a].obj, stack[d - 1].obj, E)
    BY <2>4, <2>5
  <2>7. Joins(stack[d].intf, stack[d - 1].obj, stack[d].obj) /\ stack[d].intf \in E
    BY <2>4, JoinsBoth DEF CallsOf
  <2>8. Connected(stack[d - 1].obj, stack[d].obj, E)
    BY <1>1, <2>2, <2>4, <2>7, ConnectedIsEquivalence
  <2>9. Connected(stack[a].obj, stack[d].obj, E)
    BY <1>1, <2>2, <2>4, <2>6, <2>8, ConnectedIsEquivalence
  <2> QED  BY <2>1, <2>9
<1>3. b \notin Bad
  BY <1>2
<1> QED  BY <1>1, <1>3

\* An interface that leads back to an active node closes a cycle.
LEMMA CycleTied ==
  ASSUME graph \in Topologies, NEW c, CallsOf(c), NEW p \in 1 .. c - 1,
         NEW i \in stack[c].todo, Joins(i, stack[c].obj, stack[p].obj), NEW q \in p .. c
  PROVE  Tied(stack[q].obj, stack[c].obj)
<1>1. /\ c \in Nat /\ c \in 1 .. c /\ p \in 1 .. c /\ p < c /\ p \in Nat /\ q \in 1 .. c /\ q <= c
      /\ \A k \in 1 .. c : stack[k].obj \in Node
      /\ i \in Intfs /\ i # stack[c].intf
  BY DEF CallsOf
<1>2. ASSUME NEW r \in p + 1 .. c PROVE stack[r].intf \in NonBridges
  <2> DEFINE e == stack[r].intf
             E == Intfs \ {e}
  <2>1. /\ r \in 2 .. c /\ r \in 1 .. c /\ r - 1 \in 1 .. c /\ p <= r - 1 /\ r <= c /\ r \in Nat
        /\ e \in Intfs /\ Joins(e, stack[r].obj, stack[r - 1].obj)
    <3>1. r \in 2 .. c /\ r \in 1 .. c /\ r - 1 \in 1 .. c /\ p <= r - 1 /\ r <= c /\ r \in Nat
      BY <1>1
    <3> QED  BY <3>1 DEF CallsOf
  <2>2. E \in SUBSET Intfs
    OBVIOUS
  <2>4. ASSUME NEW s \in p + 1 .. c, s # r PROVE stack[s].intf \in E
    <3>1. s \in 2 .. c /\ s \in 1 .. c /\ s - 1 \in 1 .. c /\ s \in Nat /\ s - 1 # s
      BY <1>1
    <3>2. stack[s].intf \in Intfs /\ Joins(stack[s].intf, stack[s].obj, stack[s - 1].obj)
      BY <3>1 DEF CallsOf
    <3>5. stack[s].obj # stack[r].obj
      BY <2>1, <2>4, <3>1 DEF CallsOf
    <3>6. stack[s].obj = stack[r - 1].obj => s = r - 1
      BY <2>1, <3>1 DEF CallsOf
    <3>7. stack[s - 1].obj = stack[r].obj => s - 1 = r
      BY <2>1, <3>1 DEF CallsOf
    <3>8. stack[s].intf # e
      <4> SUFFICES ASSUME stack[s].intf = e PROVE FALSE
        OBVIOUS
      <4>1. stack[s].obj = stack[r - 1].obj /\ stack[s - 1].obj = stack[r].obj
        BY <1>1, <2>1, <3>1, <3>2, <3>5, SameEnds
      <4> QED  BY <2>1, <3>1, <3>6, <3>7, <4>1
    <3> QED  BY <3>2, <3>8
  <2>5. i \in E
    <3> SUFFICES ASSUME i = e PROVE FALSE
      BY <1>1
    <3>2. stack[c].obj = stack[r].obj \/ stack[c].obj = stack[r - 1].obj
      BY <1>1, <2>1, SameEnds
    <3>3. c = r \/ c = r - 1
      BY <1>1, <2>1, <3>2 DEF CallsOf
    <3>4. c = r
      BY <1>1, <2>1, <3>3
    <3> QED  BY <1>1, <3>4
  <2>6. Connected(stack[r].obj, stack[c].obj, E)
    <3>1. \A s \in r + 1 .. c : s \in p + 1 .. c /\ s # r
      BY <1>1, <2>1
    <3>2. \A s \in r + 1 .. c : stack[s].intf \in E
      BY <2>4, <3>1
    <3> HIDE DEF E
    <3> QED  BY <1>1, <2>1, <2>2, <3>2, CallsConnected
  <2>7. Connected(stack[p].obj, stack[r - 1].obj, E)
    <3>1. \A s \in p + 1 .. r - 1 : s \in p + 1 .. c /\ s # r
      BY <1>1, <2>1
    <3>2. \A s \in p + 1 .. r - 1 : stack[s].intf \in E
      BY <2>4, <3>1
    <3> HIDE DEF E
    <3> QED  BY <1>1, <2>1, <2>2, <3>2, CallsConnected
  <2>8. Connected(stack[c].obj, stack[p].obj, E)
    <3> HIDE DEF E
    <3> QED  BY <1>1, <2>2, <2>5, ConnectedIsEquivalence
  <2>9. Connected(stack[r].obj, stack[r - 1].obj, E)
    <3> HIDE DEF E
    <3>1. Connected(stack[r].obj, stack[p].obj, E)
      BY <1>1, <2>1, <2>2, <2>6, <2>8, ConnectedIsEquivalence
    <3> QED  BY <1>1, <2>1, <2>2, <2>7, <3>1, ConnectedIsEquivalence
  <2> QED  BY <1>1, <2>1, <2>9, NoBridge
<1>3. \A r \in q + 1 .. c : r \in p + 1 .. c
  BY <1>1
<1>4. NonBridges \in SUBSET Intfs
  BY DEF NonBridges
<1> QED  BY <1>1, <1>2, <1>3, <1>4, CallsConnected DEF Tied

-----------------------------------------------------------------------------
(***************************************************************************)
(* The invariants.                                                         *)
(***************************************************************************)
\* Active calls are tied from the one on where the loop of a later call starts.
CallsTied(S, NL, L, D) ==
  \A k \in DOMAIN S : \A q \in 1 .. k :
    NL[S[k].obj] # 0 /\ D[L[NL[S[k].obj]].exit] <= D[S[q].obj] => Tied(S[q].obj, S[k].obj)

\* Nodes are tied to the exit of their loop, loops to the one they are redirected to and
\* to their cluster exit.
NodesTied(NL, L) == \A n \in Node : NL[n] # 0 => Tied(n, L[NL[n]].exit)
RedirectsTied(L) ==
  \A l \in DOMAIN L : L[l].redirect # 0 => Tied(L[l].exit, L[L[l].redirect].exit)
ExitsTied(L) ==
  \A l \in DOMAIN L : L[l].clusterExit # None => Tied(L[l].exit, L[l].clusterExit)

TiedInv ==
  /\ CallsTied(stack, nodeLoop, loops, dist)
  /\ NodesTied(nodeLoop, loops)
  /\ RedirectsTied(loops)
  /\ ExitsTied(loops)

\* An interface of node x that call x has still to handle.
Open(i, x) == \E q \in DOMAIN stack : stack[q].obj = x /\ i \in stack[q].todo /\ intfLoop[i] = 0

\* Node y is active before call k, and a later call has a loop that starts at y or before.
Back(k, y) ==
  \E j, q \in DOMAIN stack :
    /\ j < k /\ k <= q /\ stack[j].obj = y
    /\ nodeLoop[stack[q].obj] # 0 /\ dist[loops[nodeLoop[stack[q].obj]].exit] <= dist[y]

\* Nodes F have been reached by call k, which is still active.
ReachedBy(F, k) ==
  /\ \A x \in F : Reached(x) /\ (x # stack[k].obj => dist[stack[k].obj] < dist[x])
  /\ \A q \in DOMAIN stack : stack[q].obj \in F <=> k <= q
  /\ \A x \in F : \A y \in Node \ F : \A i \in Intfs :
       Joins(i, x, y) /\ i # stack[k].intf => Open(i, x) \/ Back(k, y)
CallsKnown ==
  \A k \in DOMAIN stack :
    /\ stack[k].obj \in partitions => k = 1
    /\ \E F \in SUBSET Node : ReachedBy(F, k)

\* Nodes T are behind node n: only the interface of n to zone1 leads out of them.
Encloses(T, n, D) ==
  /\ n \in T
  /\ \A x \in T : x # n => D[n] < D[x]
  /\ \A x \in T : \A y \in Node : \A i \in Intfs : Joins(i, x, y) => (y \in T <=> i # nodeToZone1[n])
SubtreesKnown(D, R) ==
  \A n \in Node : nodeToZone1[n] # None \/ (n \in partitions /\ ~Active(n)) =>
    \E T \in SUBSET R : Encloses(T, n, D)

ReachedNodes == {n \in Node : Reached(n)}
TreeInv ==
  /\ phase = "search" => CallsKnown /\ SubtreesKnown(dist, ReachedNodes)
  /\ phase # "search" => \E D \in [Node -> Nat] : SubtreesKnown(D, Node)

-----------------------------------------------------------------------------
(***************************************************************************)
(* A loop is found.                                                        *)
(***************************************************************************)
\* Call n finds loop f behind its interface i; L are the loops so far.
Found(L, f, n, i) ==
  /\ Finds(stack', nodeLoop, L, dist, f, n)
  /\ Made(stack[n].obj, f, nodeLoop, L, dist, nodeLoop', loops')
  /\ intfLoop' = [intfLoop EXCEPT ![i] = f]
  /\ DOMAIN loops \subseteq DOMAIN L
  /\ \A l \in DOMAIN loops : L[l] = loops[l]
  /\ \A l \in DOMAIN L \ DOMAIN loops : L[l].redirect = 0
  /\ \A x, y \in Node : Joins(i, x, y) =>
       y = stack[n].obj \/ y = stack[Len(stack)].obj \/ y = L[f].exit
  /\ n <= Len(stack)
  /\ \A k \in 1 .. n : /\ stack'[k].obj = stack[k].obj /\ stack'[k].intf = stack[k].intf
                       /\ \A j \in stack[k].todo : j # i => j \in stack'[k].todo
  /\ n # Len(stack) => /\ nodeLoop[stack[Len(stack)].obj] = f
                       /\ Len(stack) = n + 1
                       /\ \A j \in stack[Len(stack)].todo : intfLoop[j] # 0
  /\ UNCHANGED <<graph, phase, partitions, dist, nodeToZone1>>

\* Ties before the last call makes NM and M of loop f that it has found.
TiesBefore(S, NL, L, D, f, n, obj, NM, M) ==
  /\ Finds(S, NL, L, D, f, n) /\ obj = S[n].obj /\ Made(obj, f, NL, L, D, NM, M)
  /\ \A m \in Node : NL[m] # 0 => NL[m] \in DOMAIN L
  /\ CallsTied(S, NL, L, D) /\ NodesTied(NL, L) /\ RedirectsTied(L)
  /\ \A q \in 1 .. n : D[L[f].exit] <= D[S[q].obj] => Tied(S[q].obj, obj)

LEMMA FoundTies ==
  ASSUME graph \in Topologies,
         NEW S, NEW NL, NEW L, NEW D, NEW f, NEW n, NEW obj, NEW NM, NEW M,
         TiesBefore(S, NL, L, D, f, n, obj, NM, M)
  PROVE  CallsTied(S, NM, M, D) /\ NodesTied(NM, M) /\ RedirectsTied(M)
<1> SUFFICES ASSUME Finds(S, NL, L, D, f, n), obj = S[n].obj, Made(obj, f, NL, L, D, NM, M),
                    \A m \in Node : NL[m] # 0 => NL[m] \in DOMAIN L,
                    CallsTied(S, NL, L, D), NodesTied(NL, L), RedirectsTied(L),
                    \A q \in 1 .. n : D[L[f].exit] <= D[S[q].obj] => Tied(S[q].obj, obj)
             PROVE  CallsTied(S, NM, M, D) /\ NodesTied(NM, M) /\ RedirectsTied(M)
  BY DEF TiesBefore
<1>1. /\ n \in Nat \ {0} /\ DOMAIN S = 1 .. n /\ n \in DOMAIN S /\ n \in 1 .. n
      /\ NL \in [Node -> Nat] /\ D \in [Node -> Nat]
      /\ IsLoops(L) /\ f \in DOMAIN L
      /\ CallsDescend(S, D) /\ LoopsOfCalls(S, NL, L, D)
  BY DEF Finds, NewlyFound
<1>2. /\ obj \in Node
      /\ \A k \in 1 .. n - 1 : S[k].obj \in Node /\ S[k].obj # obj
  <2>1. FoundFacts(S, NL, L, D, f, n, obj, NL[obj])
    BY FindsFacts
  <2> QED  BY <2>1 DEF FoundFacts
<1>3. /\ MadeLoops(S, NL, L, D, f, obj, NM, M)
  BY MadeCases
<1>4. /\ NM \in [Node -> Nat] /\ NM[obj] \in DOMAIN M
      /\ \A m \in Node : m # obj => NM[m] = NL[m]
      /\ DOMAIN L \subseteq DOMAIN M
      /\ \A l \in DOMAIN L : M[l].exit = L[l].exit
  BY <1>3 DEF MadeLoops
<1>5. /\ \A x \in Node : Tied(x, x)
      /\ \A x, y \in Node : Tied(x, y) => Tied(y, x)
      /\ \A x, y, z \in Node : Tied(x, y) /\ Tied(y, z) => Tied(x, z)
  BY TiedIsEquivalence
<1>6. \A k \in 1 .. n : S[k].obj \in Node /\ D[S[k].obj] \in Nat
  BY <1>1, <1>2
\* The loop of obj starts at an active node that is tied to obj.
<1>7. NL[obj] # 0 => /\ NL[obj] \in DOMAIN L /\ L[NL[obj]].exit \in Node
                     /\ Tied(L[NL[obj]].exit, obj)
  <2> SUFFICES ASSUME NL[obj] # 0
               PROVE  /\ NL[obj] \in DOMAIN L /\ L[NL[obj]].exit \in Node
                      /\ Tied(L[NL[obj]].exit, obj)
    OBVIOUS
  <2>1. PICK j \in 1 .. n : L[NL[obj]].exit = S[j].obj
    BY <1>1 DEF LoopsOfCalls
  <2>2. D[L[NL[obj]].exit] <= D[S[j].obj]
    BY <1>6, <2>1
  <2>3. Tied(S[j].obj, S[n].obj)
    BY <1>1, <2>2 DEF CallsTied
  <2> QED  BY <1>2, <1>6, <2>1, <2>3
<1>8. L[f].exit \in Node /\ Tied(L[f].exit, obj)
  <2>1. PICK j \in 1 .. n : L[f].exit = S[j].obj
    BY <1>1 DEF Finds, NewlyFound
  <2>2. D[L[f].exit] <= D[S[j].obj]
    BY <1>6, <2>1
  <2> QED  BY <1>6, <2>1, <2>2
<1>9. /\ NM[obj] # 0 => Tied(obj, M[NM[obj]].exit)
      /\ \A q \in 1 .. n : NM[obj] # 0 /\ D[M[NM[obj]].exit] <= D[S[q].obj] => Tied(S[q].obj, obj)
  <2>1. CASE NM = NL
    <3>1. NL[obj] # 0 => M[NL[obj]].exit = L[NL[obj]].exit
      BY <1>2, <1>4, <1>7
    <3>2. NL[obj] # 0 => Tied(obj, M[NL[obj]].exit)
      BY <1>2, <1>5, <1>7, <3>1
    <3>3. \A q \in 1 .. n : NL[obj] # 0 /\ D[L[NL[obj]].exit] <= D[S[q].obj] => Tied(S[q].obj, obj)
      BY <1>1 DEF CallsTied
    <3> QED  BY <2>1, <3>1, <3>2, <3>3
  <2>2. CASE NM[obj] = f
    <3>1. M[f].exit = L[f].exit
      BY <1>1, <1>4
    <3> QED  BY <1>2, <1>5, <1>8, <2>2, <3>1
  <2>3. CASE M = Append(L, Loop(obj, D[obj])) /\ NM = [NL EXCEPT ![obj] = Len(L) + 1]
    <3> DEFINE new == Loop(obj, D[obj])
    <3>1. new \in LoopObject /\ new.exit = obj
      BY <1>1, <1>2 DEF Loop, LoopObject
    <3>2. L \in Seq(LoopObject)
      BY <1>1 DEF IsLoops
    <3>3. M = Append(L, new)
      BY <2>3
    <3> HIDE DEF new
    <3>4. M[Len(L) + 1] = new
      BY <3>1, <3>2, <3>3
    <3>5. M[NM[obj]].exit = obj
      BY <1>1, <1>2, <2>3, <3>1, <3>4
    <3>6. ASSUME NEW q \in 1 .. n, D[obj] <= D[S[q].obj] PROVE q = n
      <4>0. q # n => q \in DOMAIN S /\ q < n
        BY <1>1
      <4>1. q # n => D[S[q].obj] + 2 <= D[obj]
        BY <1>1, <4>0 DEF CallsDescend
      <4> QED  BY <1>1, <1>6, <3>6, <4>1
    <3> QED  BY <1>2, <1>5, <3>5, <3>6
  <2>4. NM = NL \/ NM[obj] = f \/ (M = Append(L, Loop(obj, D[obj])) /\ NM = [NL EXCEPT ![obj] = Len(L) + 1])
    BY <1>1, <1>2 DEF Made
  <2> QED  BY <2>1, <2>2, <2>3, <2>4
<1>10. NodesTied(NM, M)
  <2> SUFFICES ASSUME NEW m \in Node, m # obj, NM[m] # 0 PROVE Tied(m, M[NM[m]].exit)
    BY <1>9 DEF NodesTied
  <2>1. NM[m] = NL[m] /\ NL[m] \in DOMAIN L /\ M[NL[m]].exit = L[NL[m]].exit
    BY <1>4
  <2> QED  BY <2>1 DEF NodesTied
<1>11. CallsTied(S, NM, M, D)
  <2> SUFFICES ASSUME NEW k \in 1 .. n, NEW q \in 1 .. k, NM[S[k].obj] # 0,
                      D[M[NM[S[k].obj]].exit] <= D[S[q].obj]
               PROVE  Tied(S[q].obj, S[k].obj)
    BY <1>1 DEF CallsTied
  <2>1. q \in 1 .. n
    BY <1>1
  <2>2. CASE k = n
    BY <1>9, <2>1, <2>2
  <2>3. CASE k # n
    <3>1. k \in 1 .. n - 1
      BY <1>1, <2>3
    <3>2. S[k].obj \in Node /\ S[k].obj # obj
      BY <1>2, <3>1
    <3>3. /\ NM[S[k].obj] = NL[S[k].obj] /\ NL[S[k].obj] \in DOMAIN L
          /\ M[NL[S[k].obj]].exit = L[NL[S[k].obj]].exit
      BY <1>4, <3>2
    <3>4. NL[S[k].obj] # 0 /\ D[L[NL[S[k].obj]].exit] <= D[S[q].obj]
      BY <3>3
    <3> QED  BY <1>1, <3>4 DEF CallsTied
  <2> QED  BY <2>2, <2>3
<1>12. RedirectsTied(M)
  <2> SUFFICES ASSUME NEW l \in DOMAIN M, M[l].redirect # 0 PROVE Tied(M[l].exit, M[M[l].redirect].exit)
    BY DEF RedirectsTied
  <2>1. ASSUME NEW a \in DOMAIN L, NEW b \in DOMAIN L, M = [L EXCEPT ![a].redirect = b],
               Tied(L[a].exit, L[b].exit)
        PROVE  Tied(M[l].exit, M[M[l].redirect].exit)
    <3>1. l \in DOMAIN L /\ L[l] \in LoopObject
      BY <1>1, <2>1, LoopNumbers
    <3>2. M[l].redirect = IF l = a THEN b ELSE L[l].redirect
      BY <2>1, <3>1 DEF LoopObject
    <3>3. L[l].redirect # 0 => L[l].redirect \in DOMAIN L
      BY <1>1, <3>1 DEF IsLoops, Redirects
    <3> QED  BY <1>4, <2>1, <3>1, <3>2, <3>3 DEF RedirectsTied
  <2>2. CASE M = L
    BY <2>2 DEF RedirectsTied
  <2>3. CASE M = Append(L, Loop(obj, D[obj]))
    <3> DEFINE new == Loop(obj, D[obj])
    <3>1. new \in LoopObject /\ new.redirect = 0
      BY <1>1, <1>2 DEF Loop, LoopObject
    <3>2. L \in Seq(LoopObject) /\ M = Append(L, new)
      BY <1>1, <2>3 DEF IsLoops
    <3> HIDE DEF new
    <3>3. l \in DOMAIN L \/ M[l] = new
      BY <3>1, <3>2
    <3>4. l \in DOMAIN L /\ M[l] = L[l]
      BY <3>1, <3>2, <3>3
    <3>5. L[l].redirect \in DOMAIN L
      BY <1>1, <3>4 DEF IsLoops, Redirects
    <3> QED  BY <1>4, <3>4, <3>5 DEF RedirectsTied
  <2>4. NL[obj] # 0 => /\ Tied(L[NL[obj]].exit, L[f].exit) /\ Tied(L[f].exit, L[NL[obj]].exit)
    BY <1>2, <1>5, <1>7, <1>8
  <2>5. \/ M = L \/ M = Append(L, Loop(obj, D[obj]))
        \/ NL[obj] # 0 /\ M = [L EXCEPT ![NL[obj]].redirect = f]
        \/ NL[obj] # 0 /\ M = [L EXCEPT ![f].redirect = NL[obj]]
    BY DEF Made
  <2> QED  BY <1>1, <1>7, <2>1, <2>2, <2>3, <2>4, <2>5
<1> QED  BY <1>10, <1>11, <1>12
-----------------------------------------------------------------------------
\* A loop that is found and what it ties to the last call.
FoundTied(L, f, n, i) ==
  /\ Found(L, f, n, i)
  /\ \A q \in 1 .. n : dist[L[f].exit] <= dist[stack[q].obj] => Tied(stack[q].obj, stack[n].obj)

LEMMA CloseLoopFinds ==
  ASSUME SearchInv, NEW i \in Intfs, CloseLoop(i), NEW last, last = Len(stack)
  PROVE  \E L, f : FoundTied(L, f, last, i)
<1> DEFINE c == Len(stack)
           n == stack[c].obj
           x == Next1(n, i)
           new == Loop(x, dist[x] + 1)
           L == Append(loops, new)
           f == Len(L)
           larger == IF new.distance > stack[c].max THEN new.distance ELSE stack[c].max
           S == [stack EXCEPT ![c].todo = @ \ {i}, ![c].max = IF new.distance > @ THEN new.distance ELSE @]
<1>1. /\ stack # << >> /\ i \in stack[c].todo /\ intfLoop[i] = 0 /\ Active(x)
      /\ FoundLoop(n, i, f, L)
      /\ stack' = S
      /\ UNCHANGED <<graph, phase, startDistance, partitions, pending, dist, nodeToZone1>>
  BY DEF CloseLoop, Top
<1>2. /\ stack \in Seq(FrameSet) /\ graph \in Topologies /\ dist \in [Node -> Nat]
      /\ nodeLoop \in [Node -> Nat] /\ IsLoops(loops)
      /\ \A m \in Node : nodeLoop[m] # 0 => nodeLoop[m] \in DOMAIN loops
      /\ \A j \in Intfs : intfLoop[j] # 0 => intfLoop[j] \in DOMAIN loops
  BY DEF SearchInv, Types
<1>3. DOMAIN stack = 1 .. c /\ c \in Nat \ {0} /\ c \in DOMAIN stack /\ stack[c] \in FrameSet
  BY <1>1, <1>2
<1> HIDE DEF c
<1>4. n \in Node /\ i \in IntfList(n)
  <2>1. n \in Node
    BY <1>3 DEF FrameSet
  <2>2. stack[c].todo \subseteq IntfList(n) \ {stack[c].intf}
    BY <1>3, <2>1 DEF SearchInv, CallsJoined
  <2> QED  BY <1>1, <2>1, <2>2
<1>5. x \in Node /\ Joins(i, n, x) /\ Joins(i, x, n) /\ x # n
  BY <1>2, <1>4, TwoEnds, JoinsBoth DEF Joins
<1>6. new \in LoopObject /\ new.exit = x /\ new.distance = dist[x] + 1 /\ new.redirect = 0
  BY <1>2, <1>5 DEF Loop, LoopObject
<1>7. PICK kx \in DOMAIN stack : stack[kx].obj = x
  BY <1>1 DEF Active
<1> HIDE DEF new
<1>8. /\ loops \in Seq(LoopObject) /\ L \in Seq(LoopObject)
      /\ f = Len(loops) + 1 /\ Len(loops) \in Nat /\ DOMAIN L = 1 .. f /\ DOMAIN loops = 1 .. Len(loops)
      /\ L[f] = new /\ \A l \in DOMAIN loops : L[l] = loops[l]
      /\ DOMAIN loops \subseteq DOMAIN L
  BY <1>2, <1>6 DEF IsLoops
<1>9. IsLoops(L)
  <2> SUFFICES ASSUME NEW l \in DOMAIN L, L[l].redirect # 0
               PROVE  /\ L[l].redirect \in DOMAIN L
                      /\ \/ L[L[l].redirect].distance < L[l].distance
                         \/ L[L[l].redirect].distance = L[l].distance /\ L[l].redirect < l
    BY <1>8 DEF IsLoops, Redirects
  <2>1. l \in DOMAIN loops /\ L[l] = loops[l]
    BY <1>6, <1>8
  <2>2. /\ loops[l].redirect \in DOMAIN loops
        /\ \/ loops[loops[l].redirect].distance < loops[l].distance
           \/ loops[loops[l].redirect].distance = loops[l].distance /\ loops[l].redirect < l
    BY <1>2, <2>1 DEF IsLoops, Redirects
  <2> QED  BY <1>8, <2>1, <2>2
<1>10. /\ S \in Seq(FrameSet) /\ DOMAIN S = 1 .. c
       /\ \A k \in 1 .. c : /\ S[k].obj = stack[k].obj /\ S[k].intf = stack[k].intf
                            /\ S[k].todo = IF k = c THEN stack[k].todo \ {i} ELSE stack[k].todo
                            /\ stack[k].obj \in Node
  <2>1. new.distance \in Nat
    BY <1>2, <1>5, <1>6
  <2>2. S = [stack EXCEPT ![c] = [stack[c] EXCEPT !.todo = @ \ {i}, !.max = larger]]
    BY <1>3
  <2> DEFINE fr == [stack[c] EXCEPT !.todo = @ \ {i}, !.max = larger]
  <2>3. /\ fr \in FrameSet
        /\ fr.obj = stack[c].obj /\ fr.intf = stack[c].intf /\ fr.todo = stack[c].todo \ {i}
    BY <1>3, <2>1 DEF FrameSet
  <2>5. S = [stack EXCEPT ![c] = fr]
    BY <2>2
  <2> HIDE DEF larger, S, fr, n, x, L, f
  <2>4. \A k \in 1 .. c : /\ S[k].obj = stack[k].obj /\ S[k].intf = stack[k].intf
                          /\ S[k].todo = IF k = c THEN stack[k].todo \ {i} ELSE stack[k].todo
                          /\ stack[k].obj \in Node
    <3> SUFFICES ASSUME NEW k \in 1 .. c
                 PROVE  /\ S[k].obj = stack[k].obj /\ S[k].intf = stack[k].intf
                        /\ S[k].todo = IF k = c THEN stack[k].todo \ {i} ELSE stack[k].todo
                        /\ stack[k].obj \in Node
      OBVIOUS
    <3>1. S[k] = IF k = c THEN fr ELSE stack[k]
      BY <1>3, <2>5
    <3>2. stack[k] \in FrameSet
      BY <1>2, <1>3
    <3>3. stack[k].obj \in Node
      BY <3>2 DEF FrameSet
    <3> QED  BY <2>3, <3>1, <3>3
  <2>6. c \in 1 .. Len(stack) /\ Len(stack) = c
    BY <1>3 DEF c
  <2>7. S \in Seq(FrameSet) /\ Len(S) = Len(stack)
    BY <1>2, <2>3, <2>5, <2>6, FrameChanged
  <2>8. DOMAIN S = 1 .. c
    BY <2>6, <2>7
  <2> QED  BY <2>4, <2>7, <2>8
<1> HIDE DEF S, x, n, L, f
<1>11. CallsDescend(S, dist)
  <2>1. /\ \A k \in DOMAIN S : S[k].obj \in Node
        /\ \A j, k \in DOMAIN S : j < k => dist[S[j].obj] + 2 <= dist[S[k].obj]
    BY <1>3, <1>10 DEF SearchInv, CallsDescend
  <2> QED  BY <1>3, <1>10, <2>1 DEF CallsDescend
<1>12. LoopsOfCalls(S, nodeLoop, L, dist)
  <2> SUFFICES ASSUME NEW k \in DOMAIN S, nodeLoop[S[k].obj] # 0
               PROVE  /\ nodeLoop[S[k].obj] \in DOMAIN L
                      /\ L[nodeLoop[S[k].obj]].redirect = 0
                      /\ \E j \in 1 .. k :
                           /\ L[nodeLoop[S[k].obj]].exit = S[j].obj
                           /\ L[nodeLoop[S[k].obj]].distance = IF j < k THEN dist[S[j].obj] + 1 ELSE dist[S[j].obj]
                      /\ \A j \in 1 .. k - 1 : nodeLoop[S[j].obj] < nodeLoop[S[k].obj]
    BY DEF LoopsOfCalls
  <2>1. /\ k \in DOMAIN stack /\ k \in 1 .. c
        /\ \A j \in 1 .. k : j \in 1 .. c
        /\ \A j \in 1 .. k - 1 : j \in 1 .. c
    BY <1>3, <1>10
  <2>2. S[k].obj = stack[k].obj
    BY <1>10, <2>1
  <2>3. /\ nodeLoop[stack[k].obj] \in DOMAIN loops
        /\ loops[nodeLoop[stack[k].obj]].redirect = 0
        /\ \E j \in 1 .. k :
             /\ loops[nodeLoop[stack[k].obj]].exit = stack[j].obj
             /\ loops[nodeLoop[stack[k].obj]].distance =
                  IF j < k THEN dist[stack[j].obj] + 1 ELSE dist[stack[j].obj]
        /\ \A j \in 1 .. k - 1 : nodeLoop[stack[j].obj] < nodeLoop[stack[k].obj]
    BY <2>1, <2>2 DEF SearchInv, LoopsOfCalls
  <2>4. L[nodeLoop[stack[k].obj]] = loops[nodeLoop[stack[k].obj]]
    BY <1>8, <2>3
  <2>5. \A j \in 1 .. c : S[j].obj = stack[j].obj
    BY <1>10
  <2>6. nodeLoop[stack[k].obj] \in DOMAIN L
    BY <1>8, <2>3
  <2>7. \E j \in 1 .. k :
          /\ loops[nodeLoop[stack[k].obj]].exit = S[j].obj
          /\ loops[nodeLoop[stack[k].obj]].distance = IF j < k THEN dist[S[j].obj] + 1 ELSE dist[S[j].obj]
    BY <2>1, <2>3, <2>5
  <2>8. \A j \in 1 .. k - 1 : nodeLoop[S[j].obj] < nodeLoop[stack[k].obj]
    BY <2>1, <2>3, <2>5
  <2> QED  BY <2>2, <2>3, <2>4, <2>6, <2>7, <2>8
<1>13. kx \in DOMAIN S /\ S[kx].obj = x /\ c \in DOMAIN S /\ S[c].obj = n
  BY <1>3, <1>7, <1>10 DEF n
<1>14. NewlyFound(S, nodeLoop, L, dist, f)
  <2>1. \A k \in DOMAIN S : nodeLoop[S[k].obj] < f
    <3> TAKE k \in DOMAIN S
    <3>1. S[k].obj \in Node
      BY <1>10
    <3>2. nodeLoop[S[k].obj] = 0 \/ nodeLoop[S[k].obj] \in 1 .. Len(loops)
      BY <1>2, <1>8, <3>1
    <3> QED  BY <1>8, <3>2
  <2>2. f \in DOMAIN L
    BY <1>8
  <2> QED  BY <1>6, <1>8, <1>13, <2>1, <2>2 DEF NewlyFound
<1>15. Finds(S, nodeLoop, L, dist, f, c)
  BY <1>2, <1>3, <1>9, <1>10, <1>11, <1>12, <1>14 DEF Finds<1>16. /\ Made(S[c].obj, f, nodeLoop, L, dist, nodeLoop', loops')
       /\ intfLoop' = [intfLoop EXCEPT ![i] = f]
  BY <1>1, <1>13, FoundLoopMakes
<1>17. CallsOf(c) /\ c = last
  <2>1. c = Len(stack)
    BY DEF c
  <2> QED  BY <2>1, CallsKnownOf
<1>18. \A q \in 1 .. c : dist[L[f].exit] <= dist[stack[q].obj] => Tied(stack[q].obj, stack[c].obj)
  <2> SUFFICES ASSUME NEW q \in 1 .. c, dist[x] <= dist[stack[q].obj] PROVE Tied(stack[q].obj, stack[c].obj)
    BY <1>6, <1>8
  <2>1. kx \in 1 .. c /\ kx # c
    BY <1>3, <1>5, <1>7 DEF n
  <2>2. kx \in 1 .. c - 1
    BY <1>3, <2>1
  <2>3. ~(q < kx)
    <3>1. q < kx => dist[stack[q].obj] < dist[stack[kx].obj]
      BY <1>17, <2>1 DEF CallsOf
    <3>2. dist[stack[q].obj] \in Nat /\ dist[stack[kx].obj] \in Nat
      BY <1>2, <1>10, <2>1
    <3> QED  BY <1>7, <3>1, <3>2
  <2>4. q \in kx .. c
    BY <1>3, <2>1, <2>3
  <2>5. i \in stack[c].todo /\ Joins(i, stack[c].obj, stack[kx].obj)
    BY <1>1, <1>5, <1>7 DEF n
  <2> QED  BY <1>2, <1>17, <2>2, <2>4, <2>5, CycleTied
<1>19. \A y, z \in Node : Joins(i, y, z) => z = stack[c].obj \/ z = L[f].exit
  <2> SUFFICES ASSUME NEW y \in Node, NEW z \in Node, Joins(i, y, z) PROVE z = n \/ z = x
    BY <1>6, <1>8 DEF n
  <2> QED  BY <1>2, <1>4, <1>5, SameEnds
<1>20. Found(L, f, c, i)
  <2>1. /\ \A l \in DOMAIN L \ DOMAIN loops : L[l].redirect = 0
        /\ \A l \in DOMAIN loops : L[l] = loops[l]
    <3>1. \A l \in DOMAIN L \ DOMAIN loops : l = f
      BY <1>8
    <3> QED  BY <1>6, <1>8, <3>1
  <2>2. c <= Len(stack) /\ c = Len(stack)
    BY <1>3 DEF c
  <2>3. Finds(stack', nodeLoop, L, dist, f, c)
    BY <1>1, <1>15
  <2>4. Made(stack[c].obj, f, nodeLoop, L, dist, nodeLoop', loops')
    BY <1>13, <1>16 DEF n
  <2>5. \A k \in 1 .. c : /\ stack'[k].obj = stack[k].obj /\ stack'[k].intf = stack[k].intf
                           /\ \A j \in stack[k].todo : j # i => j \in stack'[k].todo
    BY <1>1, <1>10
  <2> QED  BY <1>1, <1>8, <1>16, <1>19, <2>1, <2>2, <2>3, <2>4, <2>5 DEF Found
<1>21. FoundTied(L, f, last, i)
  BY <1>17, <1>18, <1>20 DEF FoundTied
<1> QED  BY <1>21

LEMMA ReturnFinds ==
  ASSUME SearchInv, CallsTied(stack, nodeLoop, loops, dist), Return, NEW c, c = Len(stack), NEW t, t = stack[c].obj,
         NEW f, f = Result(t), f # 0
  PROVE  FoundTied(loops, f, c - 1, stack[c].intf) /\ c > 1
<1>0. LastLeft(c, t)
  BY ReturnLeaves
<1> DEFINE S == stack'
           n == c - 1
           obj == stack[n].obj
           i == stack[c].intf
<1>1. /\ c \in Nat \ {0} /\ DOMAIN stack = 1 .. c /\ t \in Node
      /\ DOMAIN S = 1 .. n
      /\ \A k \in 1 .. n : k \in DOMAIN stack /\ S[k].obj = stack[k].obj /\ stack[k].obj \in Node
      /\ graph' = graph /\ dist' = dist /\ c > 1
      /\ FoundLoop(obj, i, f, loops)
  BY <1>0 DEF LastLeft
<1>2. /\ dist \in [Node -> Nat] /\ nodeLoop \in [Node -> Nat] /\ IsLoops(loops) /\ graph \in Topologies
      /\ \A m \in Node : nodeLoop[m] # 0 => nodeLoop[m] \in DOMAIN loops
  BY DEF SearchInv, Types
<1>3. nodeLoop[t] = f /\ loops[f].exit # t
  BY DEF Result
<1>4. n \in Nat \ {0} /\ n \in 1 .. n /\ n \in DOMAIN S /\ S[n].obj = obj /\ obj \in Node
  BY <1>1
<1>5. Joins(i, t, obj) /\ i \in IntfList(obj) /\ i \in IntfList(t)
  <2>1. c \in DOMAIN stack /\ c > 1
    BY <1>1
  <2> QED  BY <1>1, <1>4, <2>1 DEF SearchInv, CallsJoined, Joins
<1>6. /\ f \in DOMAIN loops
      /\ loops[f].redirect = 0
      /\ \E j \in 1 .. c :
           /\ loops[f].exit = stack[j].obj
           /\ loops[f].distance = IF j < c THEN dist[stack[j].obj] + 1 ELSE dist[stack[j].obj]
      /\ \A j \in 1 .. c - 1 : nodeLoop[stack[j].obj] < f
  <2>1. LoopsOfCalls(stack, nodeLoop, loops, dist)
    BY DEF SearchInv
  <2>2. c \in DOMAIN stack /\ nodeLoop[stack[c].obj] = f
    BY <1>1, <1>3
  <2> HIDE DEF S, n, obj, i
  <2> QED  BY <2>1, <2>2 DEF LoopsOfCalls
<1> HIDE DEF S
<1>7. CallsDescend(S, dist)
  <2>1. /\ \A k \in DOMAIN S : S[k].obj \in Node
        /\ \A j, k \in DOMAIN S : j < k => dist[S[j].obj] + 2 <= dist[S[k].obj]
    BY <1>1 DEF SearchInv, CallsDescend
  <2> QED  BY <1>1, <1>4, <2>1 DEF CallsDescend
<1>8. LoopsOfCalls(S, nodeLoop, loops, dist)
  <2> SUFFICES ASSUME NEW k \in DOMAIN S, nodeLoop[S[k].obj] # 0
               PROVE  /\ nodeLoop[S[k].obj] \in DOMAIN loops
                      /\ loops[nodeLoop[S[k].obj]].redirect = 0
                      /\ \E j \in 1 .. k :
                           /\ loops[nodeLoop[S[k].obj]].exit = S[j].obj
                           /\ loops[nodeLoop[S[k].obj]].distance = IF j < k THEN dist[S[j].obj] + 1 ELSE dist[S[j].obj]
                      /\ \A j \in 1 .. k - 1 : nodeLoop[S[j].obj] < nodeLoop[S[k].obj]
    BY DEF LoopsOfCalls
  <2>1. /\ k \in DOMAIN stack /\ k \in 1 .. n
        /\ \A j \in 1 .. k : j \in 1 .. n
        /\ \A j \in 1 .. k - 1 : j \in 1 .. n
    BY <1>1
  <2>2. S[k].obj = stack[k].obj
    BY <1>1, <2>1
  <2>3. /\ nodeLoop[stack[k].obj] \in DOMAIN loops
        /\ loops[nodeLoop[stack[k].obj]].redirect = 0
        /\ \E j \in 1 .. k :
             /\ loops[nodeLoop[stack[k].obj]].exit = stack[j].obj
             /\ loops[nodeLoop[stack[k].obj]].distance =
                  IF j < k THEN dist[stack[j].obj] + 1 ELSE dist[stack[j].obj]
        /\ \A j \in 1 .. k - 1 : nodeLoop[stack[j].obj] < nodeLoop[stack[k].obj]
    BY <2>1, <2>2 DEF SearchInv, LoopsOfCalls
  <2> QED  BY <1>1, <2>1, <2>2, <2>3
<1>9. PICK e \in DOMAIN S : loops[f].exit = S[e].obj /\ loops[f].distance = dist[S[e].obj] + 1 /\ e \in 1 .. n
  <2>1. PICK e \in 1 .. c : /\ loops[f].exit = stack[e].obj
                            /\ loops[f].distance = IF e < c THEN dist[stack[e].obj] + 1 ELSE dist[stack[e].obj]
    BY <1>6
  <2>2. e < c /\ e \in 1 .. n
    BY <1>1, <1>3, <2>1
  <2> QED  BY <1>1, <2>1, <2>2
<1>10. NewlyFound(S, nodeLoop, loops, dist, f)
  <2>1. \A k \in DOMAIN S : nodeLoop[S[k].obj] < f
    BY <1>1, <1>6
  <2>2. \E j \in DOMAIN S : loops[f].exit = S[j].obj /\ loops[f].distance = dist[S[j].obj] + 1
    BY <1>9
  <2> QED  BY <1>6, <2>1, <2>2 DEF NewlyFound
<1>11. Finds(S, nodeLoop, loops, dist, f, n)
  BY <1>1, <1>2, <1>4, <1>7, <1>8, <1>10 DEF Finds<1>12. Made(obj, f, nodeLoop, loops, dist, nodeLoop', loops') /\ intfLoop' = [intfLoop EXCEPT ![i] = f]
  BY <1>1, FoundLoopMakes
<1>13. CallsOf(c)
  BY CallsKnownOf
<1>14. \A q \in 1 .. n : dist[loops[f].exit] <= dist[stack[q].obj] => Tied(stack[q].obj, obj)
  <2> SUFFICES ASSUME NEW q \in 1 .. n, dist[loops[f].exit] <= dist[stack[q].obj] PROVE Tied(stack[q].obj, obj)
    OBVIOUS
  <2>1. q \in 1 .. c /\ n \in 1 .. c /\ c \in DOMAIN stack /\ q \in Nat /\ q <= n
    BY <1>1
  <2>2. dist[loops[f].exit] <= dist[obj]
    <3>1. dist[loops[f].exit] \in Nat /\ dist[stack[q].obj] \in Nat /\ dist[obj] \in Nat
      BY <1>1, <1>2, <1>4, <1>9
    <3>2. q < n => dist[stack[q].obj] < dist[obj]
      BY <1>13, <2>1 DEF CallsOf
    <3>3. q = n \/ q < n
      BY <1>4, <2>1
    <3> QED  BY <3>1, <3>2, <3>3
  <2>3. Tied(stack[q].obj, t) /\ Tied(obj, t)
    BY <1>3, <2>1, <2>2 DEF CallsTied
  <2>4. stack[q].obj \in Node
    BY <1>1
  <2> QED  BY <1>1, <1>2, <1>4, <2>3, <2>4, TiedIsEquivalence
<1>15. \A y, z \in Node : Joins(i, y, z) => z = t \/ z = obj
  BY <1>1, <1>2, <1>4, <1>5, SameEnds
<1>16. Found(loops, f, n, i)
  <2>1. n <= Len(stack) /\ n # Len(stack) /\ Len(stack) = n + 1 /\ Len(stack) = c
    BY <1>1
  <2>2. /\ \A j \in stack[c].todo : intfLoop[j] # 0
        /\ UNCHANGED <<graph, phase, partitions, dist, nodeToZone1>>
    BY <1>0, <1>3 DEF LastLeft
  <2>3. \A k \in 1 .. n : stack'[k].obj = stack[k].obj /\ stack'[k].intf = stack[k].intf /\ stack'[k].todo = stack[k].todo
    BY <1>0 DEF LastLeft
  <2>4. Finds(stack', nodeLoop, loops, dist, f, n)
    BY <1>11 DEF S
  <2> QED  BY <1>3, <1>12, <1>15, <2>1, <2>2, <2>3, <2>4 DEF Found
<1>17. FoundTied(loops, f, n, i)
  BY <1>14, <1>16 DEF FoundTied
<1> QED  BY <1>1, <1>17

-----------------------------------------------------------------------------
(***************************************************************************)
(* TiedInv is kept if a loop is found.                                     *)
(***************************************************************************)
\* Ties depend only on the topology.
LEMMA TiedInvNext ==
  ASSUME graph' = graph, CallsTied(stack', nodeLoop', loops', dist'),
         NodesTied(nodeLoop', loops'), RedirectsTied(loops'), ExitsTied(loops')
  PROVE  TiedInv'
<1>1. CallsTied(stack, nodeLoop, loops, dist)'
  BY DEF CallsTied, Tied, NonBridges, Bridge, Connected
<1>2. NodesTied(nodeLoop, loops)'
  BY DEF NodesTied, Tied, NonBridges, Bridge, Connected
<1>3. RedirectsTied(loops)'
  BY DEF RedirectsTied, Tied, NonBridges, Bridge, Connected
<1>4. ExitsTied(loops)'
  BY DEF ExitsTied, Tied, NonBridges, Bridge, Connected
<1> QED  BY <1>1, <1>2, <1>3, <1>4 DEF TiedInv

LEMMA FoundKeepsTied ==
  ASSUME SearchInv, TiedInv, NEW L, NEW f, NEW n, NEW i, FoundTied(L, f, n, i),
         \A l \in DOMAIN loops' : loops'[l].clusterExit = None
  PROVE  TiedInv'
<1> DEFINE S == stack'
           obj == stack[n].obj
<1>1. /\ Finds(S, nodeLoop, L, dist, f, n)
      /\ Made(obj, f, nodeLoop, L, dist, nodeLoop', loops')
      /\ DOMAIN loops \subseteq DOMAIN L
      /\ \A l \in DOMAIN loops : L[l] = loops[l]
      /\ \A l \in DOMAIN L \ DOMAIN loops : L[l].redirect = 0
      /\ n <= Len(stack)
      /\ \A k \in 1 .. n : S[k].obj = stack[k].obj
      /\ graph' = graph /\ dist' = dist
      /\ \A q \in 1 .. n : dist[L[f].exit] <= dist[stack[q].obj] => Tied(stack[q].obj, stack[n].obj)
  BY DEF FoundTied, Found
<1>2. /\ graph \in Topologies /\ dist \in [Node -> Nat] /\ IsLoops(loops) /\ stack \in Seq(FrameSet)
      /\ \A m \in Node : nodeLoop[m] # 0 => nodeLoop[m] \in DOMAIN loops
  BY DEF SearchInv, Types
<1>3. n \in Nat \ {0} /\ DOMAIN S = 1 .. n /\ CallsDescend(S, dist)
  BY <1>1 DEF Finds
<1>4. DOMAIN stack = 1 .. Len(stack) /\ Len(stack) \in Nat
  BY <1>2
<1>5. \A k \in 1 .. n : k \in DOMAIN stack /\ S[k].obj \in Node
  BY <1>1, <1>3, <1>4 DEF CallsDescend
<1> HIDE DEF S
<1>6. CallsTied(S, nodeLoop, L, dist)
  <2> SUFFICES ASSUME NEW k \in 1 .. n, NEW q \in 1 .. k, nodeLoop[S[k].obj] # 0,
                      dist[L[nodeLoop[S[k].obj]].exit] <= dist[S[q].obj]
               PROVE  Tied(S[q].obj, S[k].obj)
    BY <1>3 DEF CallsTied
  <2>1. q \in 1 .. n /\ S[k].obj = stack[k].obj /\ S[q].obj = stack[q].obj /\ S[k].obj \in Node
    BY <1>1, <1>3, <1>5
  <2>2. L[nodeLoop[S[k].obj]] = loops[nodeLoop[S[k].obj]]
    BY <1>1, <1>2, <2>1
  <2>3. k \in DOMAIN stack
    BY <1>5
  <2> QED  BY <2>1, <2>2, <2>3 DEF TiedInv, CallsTied
<1>7. NodesTied(nodeLoop, L)
  BY <1>1, <1>2 DEF TiedInv, NodesTied
<1>8. RedirectsTied(L)
  <2> SUFFICES ASSUME NEW l \in DOMAIN L, L[l].redirect # 0 PROVE Tied(L[l].exit, L[L[l].redirect].exit)
    BY DEF RedirectsTied
  <2>1. l \in DOMAIN loops /\ L[l] = loops[l]
    BY <1>1
  <2>2. L[l].redirect \in DOMAIN loops
    BY <1>2, <2>1 DEF IsLoops, Redirects
  <2> QED  BY <1>1, <2>1, <2>2 DEF TiedInv, RedirectsTied
<1>9. n \in 1 .. n /\ obj = S[n].obj
  BY <1>1, <1>3
<1>10. \A q \in 1 .. n : dist[L[f].exit] <= dist[S[q].obj] => Tied(S[q].obj, obj)
  BY <1>1
<1>11. \A m \in Node : nodeLoop[m] # 0 => nodeLoop[m] \in DOMAIN L
  BY <1>1, <1>2
<1>12. Finds(S, nodeLoop, L, dist, f, n) /\ Made(obj, f, nodeLoop, L, dist, nodeLoop', loops')
  BY <1>1
<1> HIDE DEF obj
<1>13. CallsTied(S, nodeLoop', loops', dist) /\ NodesTied(nodeLoop', loops') /\ RedirectsTied(loops')
  <2>1. TiesBefore(S, nodeLoop, L, dist, f, n, obj, nodeLoop', loops')
    BY <1>6, <1>7, <1>8, <1>9, <1>10, <1>11, <1>12 DEF TiesBefore
  <2> QED  BY <1>2, <2>1, FoundTies
<1>14. ExitsTied(loops')
  BY DEF ExitsTied
<1>15. CallsTied(stack', nodeLoop', loops', dist')
  BY <1>1, <1>13 DEF S
<1> QED  BY <1>1, <1>13, <1>14, <1>15, TiedInvNext

-----------------------------------------------------------------------------
(***************************************************************************)
(* TreeInv is kept if a loop is found.                                     *)
(***************************************************************************)
\* What an inactive node encloses stays enclosed.
LEMMA SubtreeKept ==
  ASSUME graph' = graph, NEW D, NEW T, NEW n \in Node, Encloses(T, n, D), T \in SUBSET Node,
         nodeToZone1'[n] = nodeToZone1[n], \A x \in T : dist'[x] = D[x]
  PROVE  Encloses(T, n, dist)'
<1>1. \A i, x, y : Joins(i, x, y)' <=> Joins(i, x, y)
  BY GraphKept
<1>2. n \in T /\ \A x \in T : x # n => dist'[n] < dist'[x]
  BY DEF Encloses
<1>3. \A x \in T : \A y \in Node : \A i \in Intfs : Joins(i, x, y)' => (y \in T <=> i # nodeToZone1'[n])
  BY <1>1 DEF Encloses
<1> QED  BY <1>2, <1>3 DEF Encloses

\* What a call that finds a loop keeps.
FoundKeepsNodes(n) ==
  /\ \A m \in Node : Active(m)' <=> Active(m) /\ (n # Len(stack) => m # stack[Len(stack)].obj)
  /\ \A m \in Node : Reached(m)' <=> Reached(m)

LEMMA FoundReaches ==
  ASSUME SearchInv, NEW L, NEW f, NEW n, NEW i, Found(L, f, n, i)
  PROVE  FoundKeepsNodes(n)
<1> DEFINE S == stack'
           obj == stack[n].obj
           c == Len(stack)
<1>1. /\ Finds(S, nodeLoop, L, dist, f, n)
      /\ Made(obj, f, nodeLoop, L, dist, nodeLoop', loops')
      /\ n <= c
      /\ \A k \in 1 .. n : S[k].obj = stack[k].obj
      /\ n # c => nodeLoop[stack[c].obj] = f /\ c = n + 1
      /\ UNCHANGED <<graph, phase, partitions, dist, nodeToZone1>>
  BY DEF Found
<1>2. CallsOf(c)
  BY CallsKnownOf
<1> HIDE DEF c
<1>3. n \in Nat \ {0} /\ DOMAIN S = 1 .. n /\ n \in 1 .. n
  BY <1>1 DEF Finds
<1>4. obj = S[n].obj /\ obj \in Node
  BY <1>1, <1>3 DEF Finds, CallsDescend
<1>5. MadeLoops(S, nodeLoop, L, dist, f, obj, nodeLoop', loops') /\ FoundFacts(S, nodeLoop, L, dist, f, n, obj, nodeLoop[obj])
  <2> HIDE DEF S, obj
  <2> QED  BY <1>1, <1>4, MadeCases, FindsFacts
<1>6. /\ \A m \in Node : m # obj => nodeLoop'[m] = nodeLoop[m]
      /\ f # 0
  BY <1>5 DEF MadeLoops, FoundFacts
<1>7. \A k \in 1 .. n : k \in 1 .. c /\ k \in DOMAIN stack /\ k \in DOMAIN S
  BY <1>1, <1>2, <1>3 DEF CallsOf
<1>8. \A k \in 1 .. c : k \in 1 .. n \/ (k = c /\ n # c)
  BY <1>1, <1>2, <1>3 DEF CallsOf
<1>9. DOMAIN stack = 1 .. c /\ c \in 1 .. c /\ \A j, k \in 1 .. c : j # k => stack[j].obj # stack[k].obj
  BY <1>2, <1>7, <1>3 DEF CallsOf
<1> HIDE DEF S
<1>10. ASSUME NEW m \in Node PROVE Active(m)' <=> Active(m) /\ (n # c => m # stack[c].obj)
  <2>1. ASSUME Active(m)' PROVE Active(m) /\ (n # c => m # stack[c].obj)
    <3>1. PICK k \in 1 .. n : S[k].obj = m
      BY <1>3, <2>1 DEF Active, S
    <3>2. stack[k].obj = m /\ k \in 1 .. c /\ k \in DOMAIN stack
      BY <1>1, <1>7, <3>1
    <3>3. n # c => k # c
      BY <1>1, <1>3, <3>1
    <3> QED  BY <1>9, <3>2, <3>3 DEF Active
  <2>2. ASSUME Active(m), n # c => m # stack[c].obj PROVE Active(m)'
    <3>1. PICK k \in 1 .. c : stack[k].obj = m
      BY <1>9, <2>2 DEF Active
    <3>2. k \in 1 .. n
      BY <1>8, <2>2, <3>1
    <3>3. k \in DOMAIN S /\ S[k].obj = m
      BY <1>1, <1>7, <3>1, <3>2
    <3> QED  BY <3>3 DEF Active, S
  <2> QED  BY <2>1, <2>2
<1>11. ASSUME NEW m \in Node, m = obj PROVE Active(m) /\ Active(m)'
  <2>1. n \in DOMAIN stack /\ n \in DOMAIN S /\ S[n].obj = obj
    BY <1>3, <1>4, <1>7
  <2> QED  BY <1>11, <2>1 DEF Active, S
<1>12. ASSUME NEW m \in Node PROVE Reached(m)' <=> Reached(m)
  <2>1. CASE m = obj
    <3> HIDE DEF obj
    <3> QED  BY <1>11, <2>1 DEF Reached
  <2>2. CASE m # obj
    <3>1. nodeLoop'[m] = nodeLoop[m]
      BY <1>6, <2>2
    <3>2. CASE n # c /\ m = stack[c].obj
      <4>1. nodeLoop[m] # 0
        BY <1>1, <1>6, <3>2 DEF c
      <4> QED  BY <3>1, <4>1 DEF Reached
    <3>3. CASE ~(n # c /\ m = stack[c].obj)
      BY <1>1, <1>10, <3>1, <3>3 DEF Reached
    <3> QED  BY <3>2, <3>3
  <2> QED  BY <2>1, <2>2
<1> QED  BY <1>10, <1>12 DEF FoundKeepsNodes, c

\* Nodes F still have no other way out than the interface of call k.
LEMMA FoundKeepsReached ==
  ASSUME SearchInv, NEW L, NEW f, NEW n, NEW i, Found(L, f, n, i),
         NEW k \in 1 .. n, NEW F \in SUBSET Node, ReachedBy(F, k)
  PROVE  ReachedBy(F, k)'
<1> DEFINE S == stack'
           obj == stack[n].obj
           c == Len(stack)
<1>1. /\ Finds(S, nodeLoop, L, dist, f, n)
      /\ Made(obj, f, nodeLoop, L, dist, nodeLoop', loops')
      /\ intfLoop' = [intfLoop EXCEPT ![i] = f]
      /\ DOMAIN loops \subseteq DOMAIN L
      /\ \A l \in DOMAIN loops : L[l] = loops[l]
      /\ \A x, y \in Node : Joins(i, x, y) => y = obj \/ y = stack[c].obj \/ y = L[f].exit
      /\ n <= c
      /\ \A q \in 1 .. n : /\ S[q].obj = stack[q].obj /\ S[q].intf = stack[q].intf
                           /\ \A j \in stack[q].todo : j # i => j \in S[q].todo
      /\ n # c => /\ nodeLoop[stack[c].obj] = f /\ c = n + 1
                  /\ \A j \in stack[c].todo : intfLoop[j] # 0
      /\ UNCHANGED <<graph, phase, partitions, dist, nodeToZone1>>
  BY DEF Found
<1>2. CallsOf(c)
  BY CallsKnownOf
<1> HIDE DEF c
<1>3. n \in Nat \ {0} /\ DOMAIN S = 1 .. n /\ n \in 1 .. n
  BY <1>1 DEF Finds
<1>4. obj = S[n].obj /\ obj \in Node
  BY <1>1, <1>3 DEF Finds, CallsDescend
<1>5. /\ MadeLoops(S, nodeLoop, L, dist, f, obj, nodeLoop', loops')
      /\ FoundFacts(S, nodeLoop, L, dist, f, n, obj, nodeLoop[obj])
      /\ obj = L[f].exit => MadeAtExit(L, f, nodeLoop[obj], nodeLoop', loops', obj)
      /\ obj # L[f].exit => MadeInside(L, dist, f, nodeLoop[obj], nodeLoop', loops', obj)
  <2> HIDE DEF S, obj
  <2> QED  BY <1>1, <1>4, MadeCases, FindsFacts
<1>6. /\ \A m \in Node : m # obj => nodeLoop'[m] = nodeLoop[m]
      /\ f # 0 /\ nodeLoop'[obj] \in DOMAIN loops' /\ nodeLoop'[obj] # 0
      /\ DOMAIN L \subseteq DOMAIN loops' /\ \A l \in DOMAIN L : loops'[l].exit = L[l].exit
  <2>1. 0 \notin DOMAIN loops'
    BY <1>5, LoopNumbers DEF MadeLoops
  <2> QED  BY <1>5, <2>1 DEF MadeLoops, FoundFacts
<1>7. \A q \in 1 .. n : q \in 1 .. c /\ q \in DOMAIN stack /\ q \in DOMAIN S
  BY <1>1, <1>2, <1>3 DEF CallsOf
<1>8. \A q \in 1 .. c : q \in 1 .. n \/ (q = c /\ n # c)
  BY <1>1, <1>2, <1>3 DEF CallsOf
<1>9. /\ DOMAIN stack = 1 .. c /\ c \in 1 .. c /\ c \in Nat /\ k \in Nat
      /\ \A q \in 1 .. c : stack[q].obj \in Node /\ dist[stack[q].obj] \in Nat /\ q \in Nat
      /\ \A j, q \in 1 .. c : j < q => dist[stack[j].obj] < dist[stack[q].obj]
      /\ \A j, q \in 1 .. c : j # q => stack[j].obj # stack[q].obj
  BY <1>2, <1>7, <1>3 DEF CallsOf
<1>10. /\ intfLoop \in [Intfs -> Nat] /\ dist \in [Node -> Nat]
       /\ \A m \in Node : nodeLoop[m] # 0 => nodeLoop[m] \in DOMAIN loops
  BY DEF SearchInv, Types
<1>11. obj = L[f].exit /\ nodeLoop[obj] # 0 => nodeLoop'[obj] = nodeLoop[obj]
  BY <1>5 DEF MadeAtExit
<1>12. obj # L[f].exit => /\ dist[loops'[nodeLoop'[obj]].exit] <= dist[L[f].exit]
                          /\ nodeLoop[obj] # 0 => dist[loops'[nodeLoop'[obj]].exit] <= dist[L[nodeLoop[obj]].exit]
  BY <1>5 DEF MadeInside
<1>13. /\ f \in DOMAIN L /\ L[f].exit \in Node
       /\ \E e \in 1 .. n : L[f].exit = stack[e].obj
       /\ \A l \in DOMAIN loops' : loops'[l].exit \in Node
       /\ \A l \in DOMAIN L : L[l].exit \in Node
  <2>1. f \in DOMAIN L /\ IsLoops(L) /\ IsLoops(loops')
    BY <1>1, <1>5 DEF Finds, NewlyFound, MadeLoops
  <2>2. PICK e \in DOMAIN S : L[f].exit = S[e].obj
    BY <1>1 DEF Finds, NewlyFound
  <2> QED  BY <1>1, <1>3, <2>1, <2>2, LoopNumbers
<1>14. /\ \A x \in F : Reached(x) /\ (x # stack[k].obj => dist[stack[k].obj] < dist[x])
       /\ \A q \in 1 .. c : stack[q].obj \in F <=> k <= q
  BY <1>9 DEF ReachedBy
<1>15. ASSUME NEW x \in F, NEW y \in Node \ F, NEW j \in Intfs, Joins(j, x, y), j # stack[k].intf
       PROVE  Open(j, x) \/ Back(k, y)
  BY <1>15 DEF ReachedBy
<1> HIDE DEF S, obj
<1>16. ASSUME NEW e \in 1 .. c, NEW y \in Node, stack[e].obj = y, y \notin F PROVE e \in 1 .. n /\ e < k
  <2>1. e < k
    BY <1>9, <1>14, <1>16
  <2> QED  BY <1>3, <1>9, <2>1
\* The last call now has a loop that starts at y or before.
<1>17. ASSUME NEW y \in Node, y \notin F, obj # L[f].exit, dist[L[f].exit] <= dist[y], \E e \in 1 .. c : stack[e].obj = y
       PROVE  Back(k, y)'
  <2>1. PICK e \in 1 .. c : stack[e].obj = y
    BY <1>17
  <2>2. e \in 1 .. n /\ e < k /\ k <= n
    BY <1>3, <1>16, <1>17, <2>1
  <2>3. e \in DOMAIN S /\ n \in DOMAIN S /\ S[e].obj = y /\ S[n].obj = obj
    BY <1>1, <1>3, <1>4, <1>7, <2>1, <2>2
  <2>4. dist'[loops'[nodeLoop'[obj]].exit] <= dist'[y]
    <3>1. /\ dist[loops'[nodeLoop'[obj]].exit] \in Nat /\ dist[L[f].exit] \in Nat /\ dist[y] \in Nat
      BY <1>6, <1>10, <1>13
    <3> QED  BY <1>1, <1>12, <1>17, <3>1
  <2>5. nodeLoop'[S[n].obj] # 0 /\ dist'[loops'[nodeLoop'[S[n].obj]].exit] <= dist'[y]
    BY <1>6, <2>3, <2>4
  <2> QED  BY <2>2, <2>3, <2>5 DEF Back, S
<1>18. ASSUME NEW y \in Node, y \notin F, Back(k, y) PROVE Back(k, y)'
  <2>1. PICK e, q \in 1 .. c :
          /\ e < k /\ k <= q /\ stack[e].obj = y
          /\ nodeLoop[stack[q].obj] # 0 /\ dist[loops[nodeLoop[stack[q].obj]].exit] <= dist[y]
    BY <1>9, <1>18 DEF Back
  <2>2. e \in 1 .. n /\ e \in DOMAIN S /\ S[e].obj = y /\ stack[q].obj \in Node
    BY <1>1, <1>7, <1>9, <1>16, <1>18, <2>1
  <2>3. nodeLoop[stack[q].obj] \in DOMAIN loops /\ loops[nodeLoop[stack[q].obj]] = L[nodeLoop[stack[q].obj]]
    BY <1>1, <1>10, <2>1, <2>2
  <2>4. CASE q \in 1 .. n /\ stack[q].obj # obj
    <3>1. nodeLoop'[stack[q].obj] = nodeLoop[stack[q].obj]
      BY <1>6, <2>2, <2>4
    <3>2. dist'[loops'[nodeLoop'[stack[q].obj]].exit] <= dist'[y]
      BY <1>1, <1>6, <2>1, <2>3, <3>1
    <3>3. q \in DOMAIN S /\ S[q].obj = stack[q].obj
      BY <1>1, <1>7, <2>4
    <3> QED  BY <2>1, <2>2, <3>1, <3>2, <3>3 DEF Back, S
  <2>5. CASE stack[q].obj = obj
    <3>1. n \in DOMAIN S /\ S[n].obj = obj /\ k <= n
      BY <1>3, <1>4
    <3>2. dist'[loops'[nodeLoop'[obj]].exit] <= dist'[y]
      <4>1. CASE obj = L[f].exit
        BY <1>1, <1>6, <1>11, <2>1, <2>3, <2>5, <4>1
      <4>2. CASE obj # L[f].exit
        <5>1. /\ dist[loops'[nodeLoop'[obj]].exit] \in Nat /\ dist[L[nodeLoop[obj]].exit] \in Nat /\ dist[y] \in Nat
          BY <1>1, <1>6, <1>10, <1>13, <2>3, <2>5
        <5>2. dist[loops'[nodeLoop'[obj]].exit] <= dist[L[nodeLoop[obj]].exit]
          BY <1>12, <2>1, <2>5, <4>2
        <5>3. dist[L[nodeLoop[obj]].exit] <= dist[y]
          BY <2>1, <2>3, <2>5
        <5> QED  BY <1>1, <5>1, <5>2, <5>3
      <4> QED  BY <4>1, <4>2
    <3>3. nodeLoop'[S[n].obj] # 0 /\ dist'[loops'[nodeLoop'[S[n].obj]].exit] <= dist'[y]
      BY <1>6, <3>1, <3>2
    <3> QED  BY <2>1, <2>2, <3>1, <3>3 DEF Back, S
  <2>6. CASE q = c /\ n # c
    <3>1. dist[L[f].exit] <= dist[y]
      BY <1>1, <2>1, <2>3, <2>6
    <3>2. obj # L[f].exit
      <4>1. dist[y] < dist[obj]
        <5>1. e < n /\ n \in 1 .. c /\ obj = stack[n].obj
          BY <1>3, <1>7, <2>1, <2>2 DEF obj
        <5> QED  BY <1>9, <2>1, <5>1
      <4>2. dist[y] \in Nat /\ dist[obj] \in Nat
        BY <1>4, <1>10
      <4> QED  BY <3>1, <4>1, <4>2
    <3> QED  BY <1>17, <1>18, <2>1, <3>1, <3>2
  <2> QED  BY <1>8, <2>4, <2>5, <2>6
<1>19. ASSUME NEW x \in F, NEW y \in Node \ F, NEW j \in Intfs, Joins(j, x, y), j # stack[k].intf
       PROVE  Open(j, x)' \/ Back(k, y)'
  <2>1. CASE j = i
    <3>1. obj \in F /\ stack[c].obj \in F
      <4>1. n \in 1 .. c /\ k <= n /\ k <= c
        BY <1>1, <1>3, <1>7, <1>9
      <4> QED  BY <1>9, <1>14, <4>1 DEF obj
    <3>2. x \in Node /\ y \in Node /\ y \notin F
      OBVIOUS
    <3>3. y = L[f].exit
      BY <1>1, <1>19, <2>1, <3>1, <3>2
    <3>4. obj # L[f].exit
      BY <3>1, <3>2, <3>3
    <3>5. dist[L[f].exit] <= dist[y] /\ \E e \in 1 .. c : stack[e].obj = y
      BY <1>7, <1>10, <1>13, <3>3
    <3> QED  BY <1>17, <3>2, <3>4, <3>5
  <2>2. CASE j # i /\ Open(j, x)
    <3>1. PICK q \in 1 .. c : stack[q].obj = x /\ j \in stack[q].todo /\ intfLoop[j] = 0
      BY <1>9, <2>2 DEF Open
    <3>2. q \in 1 .. n
      BY <1>1, <1>8, <3>1
    <3>3. q \in DOMAIN S /\ S[q].obj = x /\ j \in S[q].todo
      BY <1>1, <1>7, <2>2, <3>1, <3>2
    <3>4. intfLoop'[j] = 0
      BY <1>1, <1>10, <2>2, <3>1
    <3> QED  BY <3>3, <3>4 DEF Open, S
  <2>3. CASE Back(k, y)
    BY <1>18, <2>3
  <2> QED  BY <1>15, <1>19, <2>1, <2>2, <2>3
<1>20. FoundKeepsNodes(n)
  BY FoundReaches
<1>21. \A x \in F : Reached(x)' /\ (x # stack'[k].obj => dist'[stack'[k].obj] < dist'[x])
  <2>1. \A x \in F : Reached(x)' <=> Reached(x)
    BY <1>20 DEF FoundKeepsNodes
  <2>2. stack'[k].obj = stack[k].obj
    BY <1>1 DEF S
  <2> QED  BY <1>1, <1>14, <2>1, <2>2
<1>22. \A q \in DOMAIN stack' : stack'[q].obj \in F <=> k <= q
  BY <1>1, <1>3, <1>7, <1>14 DEF S
<1>23. \A x \in F : \A y \in Node \ F : \A j \in Intfs :
         Joins(j, x, y)' /\ j # stack'[k].intf => Open(j, x)' \/ Back(k, y)'
  <2>1. \A j, x, y : Joins(j, x, y)' <=> Joins(j, x, y)
    BY <1>1, GraphKept
  <2>2. stack'[k].intf = stack[k].intf
    BY <1>1 DEF S
  <2> QED  BY <1>19, <2>1, <2>2
<1> QED  BY <1>21, <1>22, <1>23 DEF ReachedBy

LEMMA FoundKeepsTree ==
  ASSUME SearchInv, phase = "search", TreeInv, NEW L, NEW f, NEW n, NEW i, Found(L, f, n, i)
  PROVE  TreeInv'
<1>1. /\ UNCHANGED <<graph, phase, partitions, dist, nodeToZone1>>
      /\ n <= Len(stack) /\ n \in Nat \ {0} /\ DOMAIN stack' = 1 .. n
      /\ \A k \in 1 .. n : stack'[k].obj = stack[k].obj
      /\ n # Len(stack) => Len(stack) = n + 1
  BY DEF Found, Finds
<1>2. DOMAIN stack = 1 .. Len(stack) /\ Len(stack) \in Nat
  BY DEF SearchInv, Types
<1>3. \A k \in 1 .. n : k \in DOMAIN stack
  <2>1. PICK c : c = Len(stack)
    OBVIOUS
  <2>2. c \in Nat /\ DOMAIN stack = 1 .. c /\ n <= c /\ n \in Nat
    BY <1>1, <1>2, <2>1
  <2> QED  BY <2>2
<1>4. FoundKeepsNodes(n)
  BY FoundReaches
<1>5. CallsKnown /\ SubtreesKnown(dist, ReachedNodes)
  BY DEF TreeInv
<1>6. CallsKnown'
  <2> SUFFICES ASSUME NEW k \in 1 .. n
               PROVE  /\ stack'[k].obj \in partitions' => k = 1
                      /\ \E F \in SUBSET Node : ReachedBy(F, k)'
    BY <1>1 DEF CallsKnown
  <2>1. stack[k].obj \in partitions => k = 1
    BY <1>3, <1>5 DEF CallsKnown
  <2>2. PICK F \in SUBSET Node : ReachedBy(F, k)
    BY <1>3, <1>5 DEF CallsKnown
  <2>3. ReachedBy(F, k)'
    BY <2>2, FoundKeepsReached
  <2> QED  BY <1>1, <2>1, <2>3
<1>7. ReachedNodes' = ReachedNodes
  BY <1>4 DEF FoundKeepsNodes, ReachedNodes
<1>8. SubtreesKnown(dist, ReachedNodes)'
  <2> SUFFICES ASSUME NEW m \in Node, nodeToZone1'[m] # None \/ (m \in partitions' /\ ~Active(m)')
               PROVE  \E T \in SUBSET ReachedNodes' : Encloses(T, m, dist)'
    BY DEF SubtreesKnown
  <2>1. m \in partitions /\ Active(m) => Active(m)'
    <3> SUFFICES ASSUME m \in partitions, n # Len(stack), m = stack[Len(stack)].obj PROVE FALSE
      BY <1>4 DEF FoundKeepsNodes
    <3>1. Len(stack) \in DOMAIN stack /\ Len(stack) # 1
      BY <1>1, <1>2
    <3> QED  BY <1>5, <3>1 DEF CallsKnown
  <2>2. PICK T \in SUBSET ReachedNodes : Encloses(T, m, dist)
    BY <1>1, <1>5, <2>1 DEF SubtreesKnown
  <2>3. T \in SUBSET Node
    BY DEF ReachedNodes
  <2>4. Encloses(T, m, dist)'
    BY <1>1, <2>2, <2>3, SubtreeKept
  <2> QED  BY <1>7, <2>4
<1> QED  BY <1>1, <1>6, <1>8 DEF TreeInv

-----------------------------------------------------------------------------
(***************************************************************************)
(* A call that returns no loop: the interface of the call is the only one  *)
(* that leads out of the nodes it has reached.                             *)
(***************************************************************************)
\* No call before c is behind the start of a loop of call c, if that loop starts at node t of
\* call c itself, and no interface is open at t.
EndsHere(c, t) ==
  /\ \A y \in Node : \A e \in 1 .. c - 1 : stack[e].obj = y =>
       ~(nodeLoop[t] # 0 /\ dist[loops[nodeLoop[t]].exit] <= dist[y])
  /\ \A i \in stack[c].todo : intfLoop[i] # 0

LEMMA ReturnEnds ==
  ASSUME SearchInv, Return, NEW c, c = Len(stack), NEW t, t = stack[c].obj, Result(t) = 0
  PROVE  EndsHere(c, t)
<1>1. LastLeft(c, t)
  BY ReturnLeaves
<1>2. CallsOf(c)
  BY CallsKnownOf
<1>3. ASSUME NEW y \in Node, NEW e \in 1 .. c - 1, stack[e].obj = y, nodeLoop[t] # 0,
             dist[loops[nodeLoop[t]].exit] <= dist[y]
      PROVE  FALSE
  <2>1. loops[nodeLoop[t]].exit = t
    BY <1>3 DEF Result
  <2>2. c \in Nat \ {0} /\ e \in 1 .. c /\ c \in 1 .. c /\ e < c
    BY <1>1 DEF LastLeft
  <2>3. dist[y] < dist[t] /\ dist[y] \in Nat /\ dist[t] \in Nat
    BY <1>2, <1>3, <2>2 DEF CallsOf
  <2> QED  BY <1>3, <2>1, <2>3
<1> QED  BY <1>1, <1>3 DEF EndsHere, LastLeft

LEMMA ReturnKeepsReached ==
  ASSUME SearchInv, Return, NEW c, c = Len(stack), NEW t, t = stack[c].obj, Result(t) = 0,
         NEW k \in 1 .. c - 1, NEW F \in SUBSET Node, ReachedBy(F, k)
  PROVE  ReachedBy(F, k)'
<1>1. /\ LastLeft(c, t) /\ EndsHere(c, t) /\ ReachedAfter(t) /\ CallsOf(c)
  BY ReturnLeaves, ReturnEnds, ReturnReaches, CallsKnownOf
<1>2. /\ c \in Nat \ {0} /\ DOMAIN stack = 1 .. c /\ DOMAIN stack' = 1 .. c - 1
      /\ \A q \in 1 .. c - 1 : /\ q \in DOMAIN stack
                               /\ stack'[q].obj = stack[q].obj /\ stack'[q].intf = stack[q].intf
                               /\ stack'[q].todo = stack[q].todo
      /\ UNCHANGED <<graph, dist, nodeLoop, intfLoop, loops>>
  BY <1>1 DEF LastLeft
<1>3. \A q \in 1 .. c : q \in 1 .. c - 1 \/ q = c
  BY <1>2
<1>4. ASSUME NEW j, NEW x \in F, Open(j, x) PROVE Open(j, x)'
  <2>1. PICK q \in 1 .. c : stack[q].obj = x /\ j \in stack[q].todo /\ intfLoop[j] = 0
    BY <1>2, <1>4 DEF Open
  <2>2. q \in 1 .. c - 1
    BY <1>1, <1>3, <2>1 DEF EndsHere
  <2> QED  BY <1>2, <2>1, <2>2 DEF Open
<1>5. ASSUME NEW y \in Node, Back(k, y) PROVE Back(k, y)'
  <2>1. PICK e, q \in 1 .. c :
          /\ e < k /\ k <= q /\ stack[e].obj = y
          /\ nodeLoop[stack[q].obj] # 0 /\ dist[loops[nodeLoop[stack[q].obj]].exit] <= dist[y]
    BY <1>2, <1>5 DEF Back
  <2>2. e \in 1 .. c - 1
    BY <1>2, <2>1
  <2>3. q \in 1 .. c - 1
    BY <1>1, <1>3, <2>1, <2>2 DEF EndsHere
  <2>4. e \in DOMAIN stack' /\ q \in DOMAIN stack' /\ stack'[e].obj = y /\ stack'[q].obj = stack[q].obj
    BY <1>2, <2>1, <2>2, <2>3
  <2>5. nodeLoop'[stack'[q].obj] # 0 /\ dist'[loops'[nodeLoop'[stack'[q].obj]].exit] <= dist'[y]
    BY <1>2, <2>1, <2>4
  <2> QED  BY <2>1, <2>4, <2>5 DEF Back
<1>6. \A j, x, y : Joins(j, x, y)' <=> Joins(j, x, y)
  BY <1>2, GraphKept
<1>7. \A x \in F : Reached(x)' /\ (x # stack'[k].obj => dist'[stack'[k].obj] < dist'[x])
  <2>1. \A x \in F : Reached(x)' <=> Reached(x)
    BY <1>1 DEF ReachedAfter
  <2> QED  BY <1>2, <2>1 DEF ReachedBy
<1>8. \A q \in DOMAIN stack' : stack'[q].obj \in F <=> k <= q
  BY <1>2 DEF ReachedBy
<1>9. \A x \in F : \A y \in Node \ F : \A j \in Intfs :
        Joins(j, x, y)' /\ j # stack'[k].intf => Open(j, x)' \/ Back(k, y)'
  <2> SUFFICES ASSUME NEW x \in F, NEW y \in Node \ F, NEW j \in Intfs, Joins(j, x, y), j # stack[k].intf
               PROVE  Open(j, x)' \/ Back(k, y)'
    BY <1>2, <1>6
  <2>1. Open(j, x) \/ Back(k, y)
    BY DEF ReachedBy
  <2> QED  BY <1>4, <1>5, <2>1
<1> QED  BY <1>7, <1>8, <1>9 DEF ReachedBy

\* The node of the call encloses what it has reached.
LEMMA ReturnEncloses ==
  ASSUME SearchInv, Return, NEW c, c = Len(stack), NEW t, t = stack[c].obj, Result(t) = 0,
         NEW F \in SUBSET Node, ReachedBy(F, c)
  PROVE  Encloses(F, t, dist)'
<1>1. /\ LastLeft(c, t) /\ EndsHere(c, t) /\ CallsOf(c)
  BY ReturnLeaves, ReturnEnds, CallsKnownOf
<1>2. /\ c \in Nat \ {0} /\ DOMAIN stack = 1 .. c /\ t \in Node
      /\ UNCHANGED <<graph, dist>>
      /\ nodeToZone1' = [nodeToZone1 EXCEPT ![t] = stack[c].intf]
  BY <1>1 DEF LastLeft
<1>3. graph \in Topologies /\ nodeToZone1'[t] = stack[c].intf /\ c \in 1 .. c
  BY <1>2 DEF SearchInv, Types
<1>4. /\ \A x \in F : x # t => dist[t] < dist[x]
      /\ \A q \in 1 .. c : stack[q].obj \in F <=> c <= q
  BY <1>2 DEF ReachedBy
<1>5. t \in F
  BY <1>2, <1>3, <1>4
<1>6. ASSUME NEW x \in F, NEW y \in Node \ F, NEW i \in Intfs, Joins(i, x, y) PROVE i = stack[c].intf
  <2> SUFFICES ASSUME i # stack[c].intf PROVE FALSE
    OBVIOUS
  <2>1. ~Open(i, x)
    <3> SUFFICES ASSUME NEW q \in 1 .. c, stack[q].obj = x, i \in stack[q].todo, intfLoop[i] = 0 PROVE FALSE
      BY <1>2 DEF Open
    <3>1. q = c
      BY <1>2, <1>4
    <3> QED  BY <1>1, <3>1 DEF EndsHere
  <2>2. ~Back(c, y)
    <3> SUFFICES ASSUME NEW e \in 1 .. c, NEW q \in 1 .. c, e < c, c <= q, stack[e].obj = y,
                        nodeLoop[stack[q].obj] # 0, dist[loops[nodeLoop[stack[q].obj]].exit] <= dist[y]
                 PROVE  FALSE
      BY <1>2 DEF Back
    <3>1. q = c /\ e \in 1 .. c - 1
      BY <1>2
    <3> QED  BY <1>1, <3>1 DEF EndsHere
  <2> QED  BY <1>6, <2>1, <2>2 DEF ReachedBy
<1>7. ASSUME NEW x \in F, NEW y \in F, NEW i \in Intfs, Joins(i, x, y) PROVE i # stack[c].intf
  <2> SUFFICES ASSUME i = stack[c].intf PROVE FALSE
    OBVIOUS
  <2>1. CASE c = 1
    <3>1. stack # << >>
      BY DEF Return
    <3>2. CallsJoined
      BY DEF SearchInv
    <3>3. stack[1].intf = None
      BY <3>1, <3>2 DEF CallsJoined
    <3> QED  BY <2>1, <3>3, TopologyAssumption
  <2>2. CASE c # 1
    <3>1. c \in 2 .. c /\ c - 1 \in 1 .. c /\ ~(c <= c - 1)
      BY <1>2, <2>2
    <3>2. Joins(i, t, stack[c - 1].obj) /\ stack[c - 1].obj \in Node /\ stack[c - 1].obj \notin F
      BY <1>1, <1>4, <3>1 DEF CallsOf
    <3> QED  BY <1>2, <1>3, <1>7, <3>2, SameEnds
  <2> QED  BY <2>1, <2>2
<1>8. \A j, x, y : Joins(j, x, y)' <=> Joins(j, x, y)
  BY <1>2, GraphKept
<1>9. \A x \in F : \A y \in Node : \A i \in Intfs : Joins(i, x, y)' => (y \in F <=> i # nodeToZone1'[t])
  BY <1>3, <1>6, <1>7, <1>8
<1> QED  BY <1>2, <1>4, <1>5, <1>9 DEF Encloses

LEMMA ReturnKeepsTies ==
  ASSUME SearchInv, phase = "search", TiedInv, TreeInv, Return,
         NEW c, c = Len(stack), NEW t, t = stack[c].obj, Result(t) = 0
  PROVE  TiedInv' /\ TreeInv'
<1>1. /\ LastLeft(c, t) /\ ReachedAfter(t)
  BY ReturnLeaves, ReturnReaches
<1>2. /\ c \in Nat \ {0} /\ DOMAIN stack = 1 .. c /\ DOMAIN stack' = 1 .. c - 1 /\ t \in Node
      /\ \A q \in 1 .. c - 1 : q \in DOMAIN stack /\ stack'[q].obj = stack[q].obj
      /\ UNCHANGED <<graph, phase, partitions, dist, nodeLoop, intfLoop, loops>>
      /\ nodeToZone1' = [nodeToZone1 EXCEPT ![t] = stack[c].intf]
  BY <1>1 DEF LastLeft
<1>3. TiedInv'
  <2>1. CallsTied(stack', nodeLoop', loops', dist')
    <3> SUFFICES ASSUME NEW k \in 1 .. c - 1, NEW q \in 1 .. k, nodeLoop'[stack'[k].obj] # 0,
                        dist'[loops'[nodeLoop'[stack'[k].obj]].exit] <= dist'[stack'[q].obj]
                 PROVE  Tied(stack'[q].obj, stack'[k].obj)
      BY <1>2 DEF CallsTied
    <3>1. q \in 1 .. c - 1
      BY <1>2
    <3>2. k \in DOMAIN stack /\ stack'[q].obj = stack[q].obj /\ stack'[k].obj = stack[k].obj
      BY <1>2, <3>1
    <3> QED  BY <1>2, <3>2 DEF TiedInv, CallsTied
  <2>2. NodesTied(nodeLoop', loops') /\ RedirectsTied(loops') /\ ExitsTied(loops')
    BY <1>2 DEF TiedInv
  <2> QED  BY <1>2, <2>1, <2>2, TiedInvNext
<1>4. CallsKnown /\ SubtreesKnown(dist, ReachedNodes)
  BY DEF TreeInv
<1>5. CallsKnown'
  <2> SUFFICES ASSUME NEW k \in 1 .. c - 1
               PROVE  /\ stack'[k].obj \in partitions' => k = 1
                      /\ \E F \in SUBSET Node : ReachedBy(F, k)'
    BY <1>2 DEF CallsKnown
  <2>1. stack[k].obj \in partitions => k = 1
    BY <1>2, <1>4 DEF CallsKnown
  <2>2. PICK F \in SUBSET Node : ReachedBy(F, k)
    BY <1>2, <1>4 DEF CallsKnown
  <2>3. ReachedBy(F, k)'
    BY <2>2, ReturnKeepsReached
  <2> QED  BY <1>2, <2>1, <2>3
<1>6. \A m \in Node : (Reached(m)' <=> Reached(m)) /\ (Active(m)' <=> Active(m) /\ m # t)
  BY <1>1 DEF ReachedAfter
<1>7. ReachedNodes' = ReachedNodes
  BY <1>6 DEF ReachedNodes
<1>8. SubtreesKnown(dist, ReachedNodes)'
  <2> SUFFICES ASSUME NEW m \in Node, nodeToZone1'[m] # None \/ (m \in partitions' /\ ~Active(m)')
               PROVE  \E T \in SUBSET ReachedNodes' : Encloses(T, m, dist)'
    BY DEF SubtreesKnown
  <2>1. CASE m = t
    <3>1. PICK F \in SUBSET Node : ReachedBy(F, c)
      <4>1. c \in DOMAIN stack
        BY <1>2
      <4> QED  BY <1>4, <4>1 DEF CallsKnown
    <3>2. F \in SUBSET ReachedNodes'
      BY <1>7, <3>1 DEF ReachedNodes, ReachedBy
    <3>3. Encloses(F, t, dist)'
      BY <3>1, ReturnEncloses
    <3> QED  BY <2>1, <3>2, <3>3
  <2>2. CASE m # t
    <3>1. nodeToZone1'[m] = nodeToZone1[m]
      BY <1>2, <2>2 DEF SearchInv, Types
    <3>2. PICK T \in SUBSET ReachedNodes : Encloses(T, m, dist)
      BY <1>2, <1>4, <1>6, <2>2, <3>1 DEF SubtreesKnown
    <3>3. T \in SUBSET Node
      BY DEF ReachedNodes
    <3>4. Encloses(T, m, dist)'
      BY <1>2, <3>1, <3>2, <3>3, SubtreeKept
    <3> QED  BY <1>7, <3>4
  <2> QED  BY <2>1, <2>2
<1> QED  BY <1>2, <1>3, <1>5, <1>8 DEF TreeInv

-----------------------------------------------------------------------------
(***************************************************************************)
(* A new call.                                                             *)
(***************************************************************************)
\* Call c + 1 for node x, which interface i has reached.
NewFrame(c, x, i, d) ==
  /\ ~Reached(x) /\ x \in Node /\ d \in Nat
  /\ c \in Nat /\ DOMAIN stack = 1 .. c /\ DOMAIN stack' = 1 .. c + 1
  /\ stack'[c + 1].obj = x /\ stack'[c + 1].intf = i /\ stack'[c + 1].todo = IntfList(x) \ {i}
  /\ \A k \in 1 .. c : /\ stack'[k].obj = stack[k].obj /\ stack'[k].intf = stack[k].intf
                       /\ \A j \in stack[k].todo : j # i => j \in stack'[k].todo
  /\ c # 0 => Joins(i, x, stack[c].obj) /\ dist[stack[c].obj] < d /\ partitions' = partitions
  /\ c = 0 => partitions' = partitions \cup {x}
  /\ dist' = [dist EXCEPT ![x] = d]
  /\ UNCHANGED <<graph, phase, nodeLoop, nodeToZone1, intfLoop, loops>>

\* What is reached before x.
BeforeCall(c, x, d) ==
  /\ nodeLoop[x] = 0 /\ nodeToZone1[x] = None /\ x \notin partitions
  /\ \A m \in Node : Reached(m) => m # x /\ Reached(m)'
  /\ \A m \in Node : Active(m)' <=> Active(m) \/ m = x
  /\ \A k \in 1 .. c : /\ stack[k].obj # x /\ stack[k].obj \in Node /\ dist[stack[k].obj] < d
                       /\ dist'[stack[k].obj] = dist[stack[k].obj]
  /\ \A l \in DOMAIN loops : dist'[loops[l].exit] = dist[loops[l].exit]
  /\ dist'[x] = d /\ \A m \in Node : m # x => dist'[m] = dist[m]
  /\ \A j \in Intfs : \A y \in Node : Joins(j, x, y) => intfLoop[j] = 0 /\ j \in IntfList(x)

LEMMA NewFrameReaches ==
  ASSUME SearchInv, LoopsLinked, NEW c, NEW x, NEW i, NEW d, NewFrame(c, x, i, d)
  PROVE  BeforeCall(c, x, d)
<1>1. /\ ~Reached(x) /\ x \in Node /\ d \in Nat
      /\ c \in Nat /\ DOMAIN stack = 1 .. c /\ DOMAIN stack' = 1 .. c + 1
      /\ stack'[c + 1].obj = x
      /\ \A k \in 1 .. c : stack'[k].obj = stack[k].obj
      /\ partitions \subseteq partitions'
      /\ dist' = [dist EXCEPT ![x] = d]
      /\ UNCHANGED <<graph, nodeLoop, nodeToZone1, intfLoop, loops>>
      /\ c # 0 => dist[stack[c].obj] < d
  BY DEF NewFrame
<1>2. /\ dist \in [Node -> Nat] /\ stack \in Seq(FrameSet) /\ IsLoops(loops)
  BY DEF SearchInv, Types
<1>3. c = Len(stack)
  BY <1>1, <1>2
<1>4. CallsOf(c)
  BY <1>3, CallsKnownOf
<1>5. nodeLoop[x] = 0 /\ nodeToZone1[x] = None /\ x \notin partitions /\ ~Active(x)
  BY <1>1 DEF Reached
<1>6. ASSUME NEW m \in Node PROVE Active(m)' <=> Active(m) \/ m = x
  <2>1. ASSUME Active(m)' PROVE Active(m) \/ m = x
    <3>1. PICK k \in 1 .. c + 1 : stack'[k].obj = m
      BY <1>1, <2>1 DEF Active
    <3>2. k = c + 1 \/ k \in 1 .. c
      BY <1>1
    <3> QED  BY <1>1, <3>1, <3>2 DEF Active
  <2>2. ASSUME Active(m) PROVE Active(m)'
    <3>1. PICK k \in 1 .. c : stack[k].obj = m
      BY <1>1, <2>2 DEF Active
    <3>2. k \in DOMAIN stack' /\ stack'[k].obj = m
      BY <1>1, <3>1
    <3> QED  BY <3>2 DEF Active
  <2>3. m = x => Active(m)'
    <3>1. c + 1 \in DOMAIN stack'
      BY <1>1
    <3> QED  BY <1>1, <3>1 DEF Active
  <2> QED  BY <2>1, <2>2, <2>3
<1>7. \A m \in Node : Reached(m) => m # x /\ Reached(m)'
  BY <1>1, <1>6 DEF Reached
<1>8. /\ dist'[x] = d /\ \A m \in Node : m # x => dist'[m] = dist[m]
  BY <1>1, <1>2
<1>9. ASSUME NEW k \in 1 .. c
      PROVE  /\ stack[k].obj # x /\ stack[k].obj \in Node /\ dist[stack[k].obj] < d
             /\ dist'[stack[k].obj] = dist[stack[k].obj]
  <2>1. stack[k].obj # x
    BY <1>1, <1>5 DEF Active
  <2>2. stack[k].obj \in Node /\ c \in 1 .. c /\ (k = c \/ k < c)
    <3>1. c \in Nat /\ k \in 1 .. c
      BY <1>1
    <3>2. c \in 1 .. c /\ (k = c \/ k < c)
      BY <3>1
    <3> QED  BY <1>4, <3>2 DEF CallsOf
  <2>3. dist[stack[k].obj] < d
    <3>1. k < c => dist[stack[k].obj] < dist[stack[c].obj]
      BY <1>4, <2>2 DEF CallsOf
    <3>2. dist[stack[k].obj] \in Nat /\ dist[stack[c].obj] \in Nat
      BY <1>4, <2>2, <1>2 DEF CallsOf
    <3> QED  BY <1>1, <2>2, <3>1, <3>2
  <2> QED  BY <1>8, <2>1, <2>2, <2>3
<1>10. \A l \in DOMAIN loops : dist'[loops[l].exit] = dist[loops[l].exit]
  <2> TAKE l \in DOMAIN loops
  <2>1. loops[l].exit \in Node
    BY <1>2, LoopNumbers
  <2>2. Reached(loops[l].exit)
    BY <2>1 DEF LoopsLinked
  <2> QED  BY <1>1, <1>8, <2>1, <2>2
<1>11. \A j \in Intfs : \A y \in Node : Joins(j, x, y) => intfLoop[j] = 0 /\ j \in IntfList(x)
  BY <1>1 DEF SearchInv, NothingForgotten, Joins
<1> QED  BY <1>5, <1>6, <1>7, <1>8, <1>9, <1>10, <1>11 DEF BeforeCall

\* The nodes reached by call k, now with x.
LEMMA NewFrameReached ==
  ASSUME SearchInv, NEW c, NEW x, NEW i, NEW d, NewFrame(c, x, i, d), BeforeCall(c, x, d),
         NEW k \in 1 .. c, NEW F \in SUBSET Node, ReachedBy(F, k)
  PROVE  ReachedBy(F \cup {x}, k)'
<1> DEFINE G == F \cup {x}
<1>1. /\ ~Reached(x) /\ x \in Node /\ d \in Nat
      /\ c \in Nat /\ DOMAIN stack = 1 .. c /\ DOMAIN stack' = 1 .. c + 1
      /\ stack'[c + 1].obj = x /\ stack'[c + 1].intf = i /\ stack'[c + 1].todo = IntfList(x) \ {i}
      /\ \A q \in 1 .. c : /\ stack'[q].obj = stack[q].obj /\ stack'[q].intf = stack[q].intf
                           /\ \A j \in stack[q].todo : j # i => j \in stack'[q].todo
      /\ c # 0 => Joins(i, x, stack[c].obj)
      /\ UNCHANGED <<graph, nodeLoop, intfLoop, loops>>
  BY DEF NewFrame
<1>2. /\ \A m \in Node : Reached(m) => m # x /\ Reached(m)'
      /\ Active(x)'
      /\ \A q \in 1 .. c : /\ stack[q].obj # x /\ stack[q].obj \in Node /\ dist[stack[q].obj] < d
                           /\ dist'[stack[q].obj] = dist[stack[q].obj]
      /\ \A l \in DOMAIN loops : dist'[loops[l].exit] = dist[loops[l].exit]
      /\ dist'[x] = d /\ \A m \in Node : m # x => dist'[m] = dist[m]
      /\ \A j \in Intfs : \A y \in Node : Joins(j, x, y) => intfLoop[j] = 0 /\ j \in IntfList(x)
  BY <1>1 DEF BeforeCall
<1>3. graph \in Topologies /\ \A m \in Node : nodeLoop[m] # 0 => nodeLoop[m] \in DOMAIN loops
  BY DEF SearchInv, Types
<1>4. /\ \A y \in F : Reached(y) /\ (y # stack[k].obj => dist[stack[k].obj] < dist[y])
      /\ \A q \in 1 .. c : stack[q].obj \in F <=> k <= q
  BY <1>1 DEF ReachedBy
<1>5. /\ c # 0 /\ c \in 1 .. c /\ k <= c /\ k \in Nat /\ c + 1 \in DOMAIN stack'
      /\ \A q \in 1 .. c + 1 : q \in 1 .. c \/ q = c + 1
      /\ \A q \in 1 .. c : q \in 1 .. c + 1
  BY <1>1
<1>6. x \notin F /\ stack[c].obj \in F
  BY <1>1, <1>4, <1>5
<1>7. \A y \in G : Reached(y)' /\ (y # stack'[k].obj => dist'[stack'[k].obj] < dist'[y])
  <2>1. \A y \in F : y \in Node /\ y # x /\ Reached(y)' /\ dist'[y] = dist[y]
    BY <1>2, <1>4
  <2>2. Reached(x)'
    BY <1>2 DEF Reached
  <2>3. dist'[stack'[k].obj] = dist[stack[k].obj] /\ stack'[k].obj = stack[k].obj
    BY <1>1, <1>2
  <2> QED  BY <1>2, <1>4, <2>1, <2>2, <2>3
<1>8. \A q \in DOMAIN stack' : stack'[q].obj \in G <=> k <= q
  <2> TAKE q \in DOMAIN stack'
  <2>1. CASE q \in 1 .. c
    BY <1>1, <1>2, <1>4, <2>1
  <2>2. CASE q = c + 1
    BY <1>1, <1>5, <2>2
  <2> QED  BY <1>1, <1>5, <2>1, <2>2
<1>9. ASSUME NEW w \in G, NEW y \in Node \ G, NEW j \in Intfs, Joins(j, w, y), j # stack[k].intf
      PROVE  Open(j, w)' \/ Back(k, y)'
  <2>1. CASE w = x
    <3>1. j # i
      <4> SUFFICES ASSUME j = i PROVE FALSE
        OBVIOUS
      <4>1. Joins(i, x, stack[c].obj) /\ Joins(i, x, y) /\ stack[c].obj \in Node /\ y \in Node
        BY <1>1, <1>2, <1>5, <1>9, <2>1
      <4>2. y = stack[c].obj \/ y = x
        BY <1>1, <1>3, <4>1, SameEnds
      <4> QED  BY <1>6, <4>2
    <3>2. j \in stack'[c + 1].todo /\ intfLoop'[j] = 0
      BY <1>1, <1>2, <1>9, <2>1, <3>1
    <3> QED  BY <1>1, <1>5, <2>1, <3>2 DEF Open
  <2>2. CASE w \in F /\ Open(j, w)
    <3>1. PICK q \in 1 .. c : stack[q].obj = w /\ j \in stack[q].todo /\ intfLoop[j] = 0
      BY <1>1, <2>2 DEF Open
    <3>2. j # i
      <4> SUFFICES ASSUME j = i PROVE FALSE
        OBVIOUS
      <4>1. Joins(i, x, stack[c].obj) /\ Joins(i, w, y) /\ stack[c].obj \in Node /\ y \in Node /\ w \in Node
        BY <1>1, <1>2, <1>5, <1>9, <2>2
      <4>2. w = x \/ y = x
        BY <1>1, <1>3, <4>1, SameEnds
      <4> QED  BY <1>6, <2>2, <4>2
    <3>3. q \in DOMAIN stack' /\ stack'[q].obj = w /\ j \in stack'[q].todo /\ intfLoop'[j] = 0
      BY <1>1, <1>5, <3>1, <3>2
    <3> QED  BY <3>3 DEF Open
  <2>3. CASE Back(k, y)
    <3>1. PICK e, q \in 1 .. c :
            /\ e < k /\ k <= q /\ stack[e].obj = y
            /\ nodeLoop[stack[q].obj] # 0 /\ dist[loops[nodeLoop[stack[q].obj]].exit] <= dist[y]
      BY <1>1, <2>3 DEF Back
    <3>2. e \in DOMAIN stack' /\ q \in DOMAIN stack' /\ stack'[e].obj = y /\ stack'[q].obj = stack[q].obj
      BY <1>1, <1>5, <3>1
    <3>3. nodeLoop[stack[q].obj] \in DOMAIN loops /\ dist'[y] = dist[y]
      BY <1>2, <1>3, <3>1
    <3>4. nodeLoop'[stack'[q].obj] # 0 /\ dist'[loops'[nodeLoop'[stack'[q].obj]].exit] <= dist'[y]
      BY <1>1, <1>2, <3>1, <3>2, <3>3
    <3> QED  BY <3>1, <3>2, <3>4 DEF Back
  <2>4. w \in F => Open(j, w) \/ Back(k, y)
    BY <1>9 DEF ReachedBy
  <2> QED  BY <2>1, <2>2, <2>3, <2>4
<1>10. \A w \in G : \A y \in Node \ G : \A j \in Intfs :
         Joins(j, w, y)' /\ j # stack'[k].intf => Open(j, w)' \/ Back(k, y)'
  <2>1. \A j, w, y : Joins(j, w, y)' <=> Joins(j, w, y)
    BY <1>1, GraphKept
  <2> QED  BY <1>1, <1>9, <2>1
<1> HIDE DEF G
<1>11. ReachedBy(G, k)'
  BY <1>7, <1>8, <1>10 DEF ReachedBy
<1> QED  BY <1>11 DEF G

\* The new call itself.
LEMMA NewFrameOpen ==
  ASSUME SearchInv, NEW c, NEW x, NEW i, NEW d, NewFrame(c, x, i, d), BeforeCall(c, x, d)
  PROVE  ReachedBy({x}, c + 1)'
<1> DEFINE G == {x}
<1>1. /\ x \in Node /\ c \in Nat /\ DOMAIN stack' = 1 .. c + 1
      /\ stack'[c + 1].obj = x /\ stack'[c + 1].intf = i /\ stack'[c + 1].todo = IntfList(x) \ {i}
      /\ \A q \in 1 .. c : stack'[q].obj = stack[q].obj
      /\ UNCHANGED <<graph, intfLoop>>
  BY DEF NewFrame
<1>2. /\ Active(x)'
      /\ \A q \in 1 .. c : stack[q].obj # x
      /\ \A j \in Intfs : \A y \in Node : Joins(j, x, y) => intfLoop[j] = 0 /\ j \in IntfList(x)
  BY <1>1 DEF BeforeCall
<1>3. \A y \in G : Reached(y)' /\ (y # stack'[c + 1].obj => dist'[stack'[c + 1].obj] < dist'[y])
  <2>1. Reached(x)'
    BY <1>2 DEF Reached
  <2> QED  BY <1>1, <2>1
<1>4. \A q \in DOMAIN stack' : stack'[q].obj \in G <=> c + 1 <= q
  <2> TAKE q \in DOMAIN stack'
  <2>1. (q = c + 1) \/ (q \in 1 .. c /\ ~(c + 1 <= q))
    BY <1>1
  <2> QED  BY <1>1, <1>2, <2>1
<1>5. ASSUME NEW y \in Node, NEW j \in Intfs, Joins(j, x, y), j # stack'[c + 1].intf PROVE Open(j, x)'
  <2>1. j \in stack'[c + 1].todo /\ intfLoop'[j] = 0 /\ c + 1 \in DOMAIN stack'
    BY <1>1, <1>2, <1>5
  <2> QED  BY <1>1, <2>1 DEF Open
<1>6. \A w \in G : \A y \in Node \ G : \A j \in Intfs :
        Joins(j, w, y)' /\ j # stack'[c + 1].intf => Open(j, w)' \/ Back(c + 1, y)'
  <2>1. \A j, w, y : Joins(j, w, y)' <=> Joins(j, w, y)
    BY <1>1, GraphKept
  <2> QED  BY <1>5, <2>1
<1> HIDE DEF G
<1>7. ReachedBy(G, c + 1)'
  BY <1>3, <1>4, <1>6 DEF ReachedBy
<1> QED  BY <1>7 DEF G

LEMMA NewFrameKeeps ==
  ASSUME SearchInv, LoopsLinked, phase = "search", TiedInv, TreeInv,
         NEW c, NEW x, NEW i, NEW d, NewFrame(c, x, i, d)
  PROVE  TiedInv' /\ TreeInv'
<1>1. /\ x \in Node /\ c \in Nat /\ DOMAIN stack = 1 .. c /\ DOMAIN stack' = 1 .. c + 1
      /\ stack'[c + 1].obj = x
      /\ \A k \in 1 .. c : stack'[k].obj = stack[k].obj
      /\ c # 0 => partitions' = partitions
      /\ c = 0 => partitions' = partitions \cup {x}
      /\ UNCHANGED <<graph, phase, nodeLoop, nodeToZone1, intfLoop, loops>>
  BY DEF NewFrame
<1>2. BeforeCall(c, x, d)
  BY NewFrameReaches
<1>3. /\ nodeLoop[x] = 0 /\ nodeToZone1[x] = None /\ x \notin partitions
      /\ \A m \in Node : Reached(m) => m # x /\ Reached(m)'
      /\ \A m \in Node : Active(m)' <=> Active(m) \/ m = x
      /\ \A k \in 1 .. c : stack[k].obj \in Node /\ dist'[stack[k].obj] = dist[stack[k].obj]
      /\ \A l \in DOMAIN loops : dist'[loops[l].exit] = dist[loops[l].exit]
      /\ \A m \in Node : m # x => dist'[m] = dist[m]
  BY <1>2 DEF BeforeCall
<1>4. \A m \in Node : nodeLoop[m] # 0 => nodeLoop[m] \in DOMAIN loops
  BY DEF SearchInv, Types
<1>5. \A k \in 1 .. c + 1 : k \in 1 .. c \/ k = c + 1
  BY <1>1
<1>6. TiedInv'
  <2>1. CallsTied(stack', nodeLoop', loops', dist')
    <3> SUFFICES ASSUME NEW k \in 1 .. c + 1, NEW q \in 1 .. k, nodeLoop'[stack'[k].obj] # 0,
                        dist'[loops'[nodeLoop'[stack'[k].obj]].exit] <= dist'[stack'[q].obj]
                 PROVE  Tied(stack'[q].obj, stack'[k].obj)
      BY <1>1 DEF CallsTied
    <3>1. k # c + 1
      BY <1>1, <1>3
    <3>2. k \in 1 .. c
      BY <1>5, <3>1
    <3>3. q \in 1 .. c
      BY <1>1, <3>2
    <3>4. stack'[k].obj = stack[k].obj /\ stack'[q].obj = stack[q].obj /\ dist'[stack[q].obj] = dist[stack[q].obj]
      BY <1>1, <1>3, <3>2, <3>3
    <3>5. nodeLoop[stack[k].obj] # 0 /\ nodeLoop[stack[k].obj] \in DOMAIN loops
      BY <1>1, <1>3, <1>4, <3>2, <3>4
    <3>6. dist[loops[nodeLoop[stack[k].obj]].exit] <= dist[stack[q].obj]
      BY <1>1, <1>3, <3>4, <3>5
    <3>7. k \in DOMAIN stack
      BY <1>1, <3>2
    <3> QED  BY <3>4, <3>5, <3>6, <3>7 DEF TiedInv, CallsTied
  <2>2. NodesTied(nodeLoop', loops') /\ RedirectsTied(loops') /\ ExitsTied(loops')
    BY <1>1 DEF TiedInv
  <2> QED  BY <1>1, <2>1, <2>2, TiedInvNext
<1>7. CallsKnown /\ SubtreesKnown(dist, ReachedNodes)
  BY DEF TreeInv
<1>8. CallsKnown'
  <2> SUFFICES ASSUME NEW k \in 1 .. c + 1
               PROVE  /\ stack'[k].obj \in partitions' => k = 1
                      /\ \E F \in SUBSET Node : ReachedBy(F, k)'
    BY <1>1 DEF CallsKnown
  <2>1. CASE k \in 1 .. c
    <3>1. c # 0 /\ k \in DOMAIN stack
      BY <1>1, <2>1
    <3>2. stack'[k].obj \in partitions' => k = 1
      BY <1>1, <1>7, <2>1, <3>1 DEF CallsKnown
    <3>3. PICK F \in SUBSET Node : ReachedBy(F, k)
      BY <1>7, <3>1 DEF CallsKnown
    <3>4. ReachedBy(F \cup {x}, k)'
      BY <1>2, <2>1, <3>3, NewFrameReached
    <3>5. F \cup {x} \in SUBSET Node
      BY <1>1
    <3> QED  BY <3>2, <3>4, <3>5
  <2>2. CASE k = c + 1
    <3>1. stack'[k].obj \in partitions' => k = 1
      BY <1>1, <1>3, <2>2
    <3>2. ReachedBy({x}, k)'
      BY <1>2, <2>2, NewFrameOpen
    <3>3. {x} \in SUBSET Node
      BY <1>1
    <3> QED  BY <3>1, <3>2, <3>3
  <2> QED  BY <1>5, <2>1, <2>2
<1>9. SubtreesKnown(dist, ReachedNodes)'
  <2> SUFFICES ASSUME NEW m \in Node, nodeToZone1'[m] # None \/ (m \in partitions' /\ ~Active(m)')
               PROVE  \E T \in SUBSET ReachedNodes' : Encloses(T, m, dist)'
    BY DEF SubtreesKnown
  <2>1. nodeToZone1[m] # None \/ (m \in partitions /\ ~Active(m))
    BY <1>1, <1>3
  <2>2. PICK T \in SUBSET ReachedNodes : Encloses(T, m, dist)
    BY <1>7, <2>1 DEF SubtreesKnown
  <2>3. T \in SUBSET Node /\ T \in SUBSET ReachedNodes' /\ \A y \in T : dist'[y] = dist[y]
    BY <1>3, <2>2 DEF ReachedNodes
  <2>4. Encloses(T, m, dist)'
    BY <1>1, <2>2, <2>3, SubtreeKept
  <2> QED  BY <2>3, <2>4
<1> QED  BY <1>1, <1>6, <1>8, <1>9 DEF TreeInv

LEMMA NewPartitionFrame ==
  ASSUME SearchInv, NEW z \in Zones, NewPartition(z)
  PROVE  NewFrame(0, z, None, startDistance)
<1>1. /\ stack = << >>
      /\ stack' = Append(<< >>, Frame(z, None, startDistance))
      /\ dist' = [dist EXCEPT ![z] = startDistance]
      /\ partitions' = partitions \cup {z}
      /\ UNCHANGED <<graph, phase, nodeLoop, nodeToZone1, intfLoop, loops>>
  BY DEF NewPartition, intfVars, Call
<1>2. ~Reached(z) /\ z \in Node /\ startDistance \in Nat
  <2>1. Called(z, startDistance)
    BY NewPartitionCalls
  <2> QED  BY <2>1 DEF Called
<1>3. DOMAIN stack' = 1 .. 0 + 1 /\ stack'[0 + 1] = Frame(z, None, startDistance) /\ DOMAIN stack = 1 .. 0
  <2> DEFINE fr == Frame(z, None, startDistance)
  <2> HIDE DEF fr
  <2>1. stack' = << fr >>
    BY <1>1 DEF fr
  <2>2. stack'[1] = fr /\ DOMAIN stack' = 1 .. 1
    BY <2>1
  <2> QED  BY <1>1, <2>2 DEF fr
<1>4. stack'[0 + 1].obj = z /\ stack'[0 + 1].intf = None /\ stack'[0 + 1].todo = IntfList(z) \ {None}
  BY <1>3 DEF Frame
<1> QED  BY <1>1, <1>2, <1>3, <1>4 DEF NewFrame

LEMMA DescendFrame ==
  ASSUME SearchInv, NEW i \in Intfs, Descend(i)
  PROVE  \E c, x, d : NewFrame(c, x, i, d)
<1> DEFINE c == Len(stack)
           n == stack[c].obj
           x == Next1(n, i)
           above == [stack EXCEPT ![c].todo = @ \ {i}]
           d == dist[n] + 2
           fr == Frame(x, i, d)
<1>1. /\ stack # << >> /\ i \in stack[c].todo /\ intfLoop[i] = 0 /\ ~Active(x)
      /\ stack' = Append(above, fr) /\ dist' = [dist EXCEPT ![x] = d]
      /\ UNCHANGED <<graph, phase, partitions, nodeLoop, nodeToZone1, intfLoop, loops>>
  BY DEF Descend, Top, intfVars, Call
<1>2. /\ stack \in Seq(FrameSet) /\ graph \in Topologies /\ dist \in [Node -> Nat]
  BY DEF SearchInv, Types
<1>3. DOMAIN stack = 1 .. c /\ c \in Nat \ {0} /\ c \in DOMAIN stack /\ stack[c] \in FrameSet
  BY <1>1, <1>2
<1>4. n \in Node /\ i \in IntfList(n)
  <2>1. n \in Node
    BY <1>3 DEF FrameSet
  <2>2. stack[c].todo \subseteq IntfList(n) \ {stack[c].intf}
    BY <1>3, <2>1 DEF SearchInv, CallsJoined
  <2> QED  BY <1>1, <2>1, <2>2
<1>5. x \in Node /\ Joins(i, n, x) /\ Joins(i, x, n)
  BY <1>2, <1>4, TwoEnds, JoinsBoth
<1>6. ~Reached(x)
  <2>1. ~Left(x)
    BY <1>1, <1>3, <1>4, <1>5 DEF SearchInv, NothingForgotten
  <2> QED  BY <1>1, <2>1 DEF Left
<1>7. DOMAIN above = 1 .. c /\ \A k \in 1 .. c : /\ above[k].obj = stack[k].obj /\ above[k].intf = stack[k].intf
                                                 /\ above[k].todo = IF k = c THEN stack[k].todo \ {i} ELSE stack[k].todo
  <2> DEFINE new == [stack[c] EXCEPT !.todo = @ \ {i}]
  <2>1. new.obj = stack[c].obj /\ new.intf = stack[c].intf /\ new.todo = stack[c].todo \ {i}
    BY <1>3 DEF FrameSet
  <2> HIDE DEF new
  <2>2. above = [stack EXCEPT ![c] = new]
    BY DEF new
  <2> HIDE DEF above, n, x
  <2>3. DOMAIN above = 1 .. c /\ \A k \in 1 .. c : above[k] = IF k = c THEN new ELSE stack[k]
    BY <1>3, <2>2
  <2> QED  BY <2>1, <2>3
<1>8. Len(above) = c
  <2> HIDE DEF above, c
  <2> QED  BY <1>3, <1>7
<1>9. fr.obj = x /\ fr.intf = i /\ fr.todo = IntfList(x) \ {i}
  BY DEF Frame
<1> HIDE DEF above, x, fr, d, n
<1>10. /\ DOMAIN stack' = 1 .. c + 1 /\ stack'[c + 1] = fr
       /\ \A k \in 1 .. c : stack'[k] = above[k]
  <2> HIDE DEF c
  <2>1. above = [k \in 1 .. c |-> above[k]]
    <3>1. above = [stack EXCEPT ![c].todo = @ \ {i}]
      BY DEF above, c
    <3> QED  BY <1>3, <3>1 DEF above
  <2>2. \E S : above \in Seq(S) /\ fr \in S
    <3>1. above \in [1 .. c -> {above[k] : k \in 1 .. c} \cup {fr}]
      BY <2>1
    <3>2. above \in Seq({above[k] : k \in 1 .. c} \cup {fr})
      BY <1>3, <3>1
    <3> QED  BY <3>2
  <2>3. PICK S : above \in Seq(S) /\ fr \in S
    BY <2>2
  <2> QED  BY <1>1, <1>3, <1>7, <1>8, <2>3
<1>11. d \in Nat /\ dist[stack[c].obj] < d /\ Joins(i, x, stack[c].obj)
  BY <1>2, <1>4, <1>5 DEF d, n
<1> HIDE DEF c
<1>12. \A k \in 1 .. c : /\ stack'[k].obj = stack[k].obj /\ stack'[k].intf = stack[k].intf
                         /\ \A j \in stack[k].todo : j # i => j \in stack'[k].todo
  BY <1>7, <1>10
<1>13. NewFrame(c, x, i, d)
  BY <1>1, <1>3, <1>5, <1>6, <1>9, <1>10, <1>11, <1>12 DEF NewFrame
<1> QED  BY <1>13


-----------------------------------------------------------------------------
(***************************************************************************)
(* Other steps.                                                            *)
(***************************************************************************)
\* Subtrees do not depend on the phase.
LEMMA SubtreesSame ==
  ASSUME UNCHANGED <<graph, stack, partitions, nodeToZone1>>, NEW D, SubtreesKnown(D, Node)
  PROVE  SubtreesKnown(D, Node)'
<1>1. /\ \A i, n, m : Joins(i, n, m)' <=> Joins(i, n, m)
      /\ \A n : Active(n)' <=> Active(n)
  BY GraphKept DEF Active
<1>2. SUFFICES ASSUME NEW n \in Node, nodeToZone1'[n] # None \/ (n \in partitions' /\ ~Active(n)')
               PROVE  \E T \in SUBSET Node : Encloses(T, n, D)'
  BY DEF SubtreesKnown
<1>3. nodeToZone1[n] # None \/ (n \in partitions /\ ~Active(n))
  BY <1>1, <1>2
<1>4. PICK T \in SUBSET Node : Encloses(T, n, D)
  BY <1>3 DEF SubtreesKnown
<1>5. Encloses(T, n, D)'
  BY <1>1, <1>4 DEF Encloses
<1> QED  BY <1>5

LEMMA EndOfSearchKeepsTies ==
  ASSUME SearchInv, TiedInv, TreeInv, EndOfSearch
  PROVE  TiedInv' /\ TreeInv'
<1>1. /\ phase = "search" /\ phase' = "process"
      /\ UNCHANGED <<graph, stack, partitions, dist, nodeLoop, nodeToZone1, loops>>
  BY DEF EndOfSearch, nodeVars
<1>2. TiedInv'
  BY <1>1, TiedInvNext DEF TiedInv
<1>3. PICK d : d = dist
  OBVIOUS
<1>4. d \in [Node -> Nat] /\ SubtreesKnown(d, ReachedNodes)
  BY <1>1, <1>3 DEF TreeInv, SearchInv, Types
<1>5. SubtreesKnown(d, Node)
  <2>1. ReachedNodes \in SUBSET Node
    BY DEF ReachedNodes
  <2> QED  BY <1>4, <2>1 DEF SubtreesKnown
<1>6. SubtreesKnown(d, Node)'
  BY <1>1, <1>5, SubtreesSame
<1> QED  BY <1>1, <1>2, <1>4, <1>6 DEF TreeInv

\* Steps that change at most the phase.
LEMMA IdleKeepsTies ==
  ASSUME TiedInv, TreeInv,
         \/ phase' = "done" /\ phase = "process"
         \/ phase' = phase,
         UNCHANGED <<graph, stack, startDistance, partitions, pending, nodeVars, intfVars, loops>>
  PROVE  TiedInv' /\ TreeInv'
<1>1. /\ UNCHANGED <<graph, stack, partitions, dist, nodeLoop, nodeToZone1, intfLoop, loops>>
      /\ phase' = "search" <=> phase = "search"
  BY DEF nodeVars, intfVars
<1>2. TiedInv'
  BY <1>1, TiedInvNext DEF TiedInv
<1>3. phase # "search" => TreeInv'
  <2> SUFFICES ASSUME phase # "search" PROVE TreeInv'
    OBVIOUS
  <2>1. PICK D \in [Node -> Nat] : SubtreesKnown(D, Node)
    BY DEF TreeInv
  <2>2. SubtreesKnown(D, Node)'
    BY <1>1, <2>1, SubtreesSame
  <2> QED  BY <1>1, <2>2 DEF TreeInv
<1>4. phase = "search" => TreeInv'
  <2> SUFFICES ASSUME phase = "search" PROVE CallsKnown' /\ SubtreesKnown(dist, ReachedNodes)'
    BY <1>1 DEF TreeInv
  <2>1. CallsKnown /\ SubtreesKnown(dist, ReachedNodes)
    BY DEF TreeInv
  <2>2. /\ \A i, n, m : Joins(i, n, m)' <=> Joins(i, n, m)
        /\ \A n : (Active(n)' <=> Active(n)) /\ (Reached(n)' <=> Reached(n))
    BY <1>1, GraphKept DEF Reached, Active
  <2>3. /\ \A i, x : Open(i, x)' <=> Open(i, x)
        /\ \A k, y : Back(k, y)' <=> Back(k, y)
    BY <1>1 DEF Open, Back
  <2>4. \A F, k : ReachedBy(F, k) => ReachedBy(F, k)'
    BY <1>1, <2>2, <2>3 DEF ReachedBy
  <2>5. CallsKnown'
    BY <1>1, <2>1, <2>4 DEF CallsKnown
  <2>6. ReachedNodes' = ReachedNodes
    BY <2>2 DEF ReachedNodes
  <2>7. \A T, n : Encloses(T, n, dist) => Encloses(T, n, dist)'
    BY <1>1, <2>2 DEF Encloses
  <2>8. SubtreesKnown(dist, ReachedNodes)'
    BY <1>1, <2>1, <2>2, <2>6, <2>7 DEF SubtreesKnown
  <2> QED  BY <2>5, <2>8
<1> QED  BY <1>2, <1>3, <1>4

LEMMA TiesInit == Init => TiedInv /\ TreeInv
<1> SUFFICES ASSUME Init PROVE TiedInv /\ TreeInv
  OBVIOUS
<1>1. /\ DOMAIN loops = {} /\ DOMAIN stack = {} /\ phase = "search" /\ partitions = {}
      /\ \A n \in Node : nodeLoop[n] = 0 /\ nodeToZone1[n] = None
  BY DEF Init
<1>2. TiedInv
  BY <1>1 DEF TiedInv, CallsTied, NodesTied, RedirectsTied, ExitsTied
<1>3. TreeInv
  BY <1>1 DEF TreeInv, CallsKnown, SubtreesKnown
<1> QED  BY <1>2, <1>3

-----------------------------------------------------------------------------
(***************************************************************************)
(* processLoops.                                                           *)
(***************************************************************************)
\* A loop is tied to the one at the end of its redirection.
LEMMA OuterTied ==
  ASSUME graph \in Topologies, NEW L, IsLoops(L), RedirectsTied(L), NEW l \in DOMAIN L
  PROVE  Tied(L[l].exit, L[OuterOf(L)[l]].exit)
<1> DEFINE Outer == OuterOf(L)
           Good(k) == Tied(L[k].exit, L[Outer[k]].exit)
           B == {k \in DOMAIN L : ~Good(k)}
<1>1. \A k \in DOMAIN L : L[k].exit \in Node
  BY LoopNumbers
<1>2. \A k \in DOMAIN L : /\ Outer[k] \in DOMAIN L
                          /\ L[k].redirect = 0 => Outer[k] = k
                          /\ L[k].redirect # 0 => Outer[k] = Outer[L[k].redirect]
  BY OuterIsLast
<1> HIDE DEF Outer
<1>3. B = {}
  <2> SUFFICES ASSUME B # {} PROVE FALSE
    OBVIOUS
  <2>1. PICK k \in B : L[k].redirect \notin B
    <3>1. B \in SUBSET DOMAIN L
      OBVIOUS
    <3> HIDE DEF B
    <3> QED  BY <3>1, LeavesSet
  <2>2. CASE L[k].redirect = 0
    BY <1>1, <1>2, <2>1, <2>2, TiedIsEquivalence
  <2>3. CASE L[k].redirect # 0
    <3> DEFINE r == L[k].redirect
    <3>1. r \in DOMAIN L
      BY <2>1, <2>3 DEF IsLoops, Redirects
    <3>2. Good(r) /\ Outer[k] = Outer[r] /\ Outer[r] \in DOMAIN L
      BY <1>2, <2>1, <2>3, <3>1
    <3>3. Tied(L[k].exit, L[r].exit)
      BY <2>1, <2>3, <3>1 DEF RedirectsTied
    <3>4. Tied(L[k].exit, L[Outer[r]].exit)
      BY <1>1, <2>1, <3>1, <3>2, <3>3, TiedIsEquivalence
    <3> QED  BY <2>1, <3>2, <3>4
  <2> QED  BY <2>2, <2>3
<1> QED  BY <1>3 DEF Outer

\* Loop x is the last one of the chain of loop k, and all of the chain are tied to it.
ChainTied(L, NL, x, k) ==
  LET C == ChainOf(L, NL)[k] IN
  /\ C \subseteq DOMAIN L /\ k \in C /\ x \in C
  /\ \A y \in C : /\ LastOf(L, NL, y) <=> y = x
                  /\ Tied(L[y].exit, L[x].exit)

LEMMA ChainIsTied ==
  ASSUME graph \in Topologies, NEW L, NEW NL, IsLoops(L),
         \A k \in DOMAIN L : /\ NL[L[k].exit] \in DOMAIN L /\ KnownExit(L, NL, k)
                             /\ Tied(L[k].exit, L[NL[L[k].exit]].exit),
         NEW l \in DOMAIN L
  PROVE  \E x : ChainTied(L, NL, x, l)
<1> DEFINE C == ChainOf(L, NL)
           Good(k) == \E x : ChainTied(L, NL, x, k)
           B == {k \in DOMAIN L : ~Good(k)}
<1>1. C = [k \in DOMAIN L |-> {k} \cup (IF LastOf(L, NL, k) THEN {} ELSE C[NL[L[k].exit]])]
  BY ChainEquation
<1>2. \A k \in DOMAIN L : L[k].exit \in Node
  BY LoopNumbers
<1> HIDE DEF C
<1>3. B = {}
  <2> SUFFICES ASSUME B # {} PROVE FALSE
    OBVIOUS
  <2>1. PICK k \in B : \A x \in B : ~Nearer(L, x, k)
    BY NearestLoop
  <2>2. k \in DOMAIN L /\ ~Good(k)
    OBVIOUS
  <2>3. CASE LastOf(L, NL, k)
    <3>1. C[k] = {k}
      BY <1>1, <2>2, <2>3
    <3>2. Tied(L[k].exit, L[k].exit)
      BY <1>2, <2>2, TiedIsEquivalence
    <3>3. ChainTied(L, NL, k, k)
      BY <2>2, <2>3, <3>1, <3>2 DEF ChainTied, C
    <3> QED  BY <2>2, <3>3
  <2>4. CASE ~LastOf(L, NL, k)
    <3> DEFINE n == NL[L[k].exit]
    <3>1. C[k] = {k} \cup C[n] /\ n \in DOMAIN L
      BY <1>1, <2>2, <2>4
    <3>2. Nearer(L, n, k) /\ Tied(L[k].exit, L[n].exit)
      BY <2>2, <2>4 DEF KnownExit, LastOf
    <3> HIDE DEF n
    <3>3. Good(n)
      BY <2>1, <3>1, <3>2
    <3>4. PICK x : ChainTied(L, NL, x, n)
      BY <3>3
    <3>5. /\ C[n] \subseteq DOMAIN L /\ n \in C[n] /\ x \in C[n]
          /\ \A y \in C[n] : /\ LastOf(L, NL, y) <=> y = x
                             /\ Tied(L[y].exit, L[x].exit)
      BY <3>4 DEF ChainTied, C
    <3>6. Tied(L[k].exit, L[x].exit)
      <4>1. Tied(L[n].exit, L[x].exit)
        BY <3>5
      <4> QED  BY <1>2, <2>2, <3>1, <3>2, <3>5, <4>1, TiedIsEquivalence
    <3>7. LastOf(L, NL, k) <=> k = x
      BY <2>4, <3>5
    <3>8. \A y \in C[k] : /\ LastOf(L, NL, y) <=> y = x
                          /\ Tied(L[y].exit, L[x].exit)
      BY <3>1, <3>5, <3>6, <3>7
    <3>9. ChainTied(L, NL, x, k)
      BY <2>2, <3>1, <3>5, <3>8 DEF ChainTied, C
    <3> QED  BY <2>2, <3>9
  <2> QED  BY <2>3, <2>4
<1> QED  BY <1>3

\* Node n gets loop l, and loops C get cluster exit c, which each of them is tied to.
Bundles(n, l, c, C) ==
  /\ l \in DOMAIN loops /\ c \in Node
  /\ nodeLoop' = [nodeLoop EXCEPT ![n] = l]
  /\ DOMAIN loops' = DOMAIN loops
  /\ \A k \in DOMAIN loops :
       /\ loops'[k].exit = loops[k].exit /\ loops'[k].redirect = loops[k].redirect
       /\ loops'[k].clusterExit = IF k \in C THEN c ELSE loops[k].clusterExit
       /\ k \in C => Tied(loops[k].exit, c)
  /\ Tied(n, loops[l].exit)

LEMMA ProcessObjBundles ==
  ASSUME SetPathInv, TiedInv, NEW n \in Node, ProcessObj(n), nodeLoop[n] # 0
  PROVE  \E l, c, C : Bundles(n, l, c, C)
<1> DEFINE l == OuterOf(loops)[nodeLoop[n]]
           nl == [nodeLoop EXCEPT ![n] = l]
           C == ClusterChain(l, nl)
           c == ClusterExit(l, nl)
<1>1. FindOuterLoop = OuterOf(loops)
  BY DEF FindOuterLoop, OuterOf
<1>2. /\ nodeLoop' = nl
      /\ loops' = [k \in DOMAIN loops |-> IF k \in C THEN [loops[k] EXCEPT !.clusterExit = c] ELSE loops[k]]
      /\ phase = "process"
  BY <1>1 DEF ProcessObj
<1>3. /\ ExitsKnown /\ graph \in Topologies /\ IsLoops(loops)
      /\ nodeLoop \in [Node -> Nat]
      /\ \A m \in Node : nodeLoop[m] # 0 => nodeLoop[m] \in DOMAIN loops
      /\ \A k \in DOMAIN loops : loops[k] \in LoopObject /\ loops[k].exit \in Node
      /\ NodesTied(nodeLoop, loops) /\ RedirectsTied(loops) /\ ExitsTied(loops)
  BY <1>2, LoopNumbers DEF SetPathInv, SearchInv, Types, TiedInv
<1>4. /\ l \in DOMAIN loops /\ l # 0
      /\ l = nodeLoop[n] \/ Nearer(loops, l, nodeLoop[n])
      /\ nodeLoop[n] \in DOMAIN loops
      /\ Tied(n, loops[l].exit)
  <2>1. nodeLoop[n] \in DOMAIN loops
    BY <1>3
  <2>2. /\ l \in DOMAIN loops /\ l # 0
        /\ l = nodeLoop[n] \/ Nearer(loops, l, nodeLoop[n])
    BY <1>3, <2>1, OuterIsLast, OuterIsNearer, LoopNumbers
  <2>3. Tied(n, loops[nodeLoop[n]].exit)
    BY <1>3 DEF NodesTied
  <2>4. Tied(loops[nodeLoop[n]].exit, loops[l].exit)
    BY <1>3, <2>1, OuterTied
  <2> HIDE DEF l
  <2>5. Tied(n, loops[l].exit)
    BY <1>3, <2>1, <2>2, <2>3, <2>4, TiedIsEquivalence
  <2> QED  BY <2>1, <2>2, <2>5
<1>5. ASSUME NEW k \in DOMAIN loops
      PROVE  /\ nl[loops[k].exit] \in DOMAIN loops /\ KnownExit(loops, nl, k)
             /\ Tied(loops[k].exit, loops[nl[loops[k].exit]].exit)
  <2> DEFINE e == loops[k].exit
  <2>1. e \in Node /\ nodeLoop[e] # 0 /\ nodeLoop[e] \in DOMAIN loops
        /\ (nodeLoop[e] = k \/ Nearer(loops, nodeLoop[e], k))
    BY <1>3 DEF ExitsKnown, KnownExit
  <2>2. nl[e] = IF e = n THEN l ELSE nodeLoop[e]
    BY <1>3, <2>1
  <2>3. Tied(e, loops[nodeLoop[e]].exit)
    BY <1>3, <2>1 DEF NodesTied
  <2> HIDE DEF nl, l
  <2>4. nl[e] \in DOMAIN loops /\ nl[e] # 0
    BY <1>4, <2>1, <2>2
  <2>5. nl[e] = k \/ Nearer(loops, nl[e], k)
    BY <1>3, <1>4, <2>1, <2>2, NearerIsTransitive
  <2>6. Tied(e, loops[nl[e]].exit)
    BY <1>4, <2>2, <2>3
  <2> QED  BY <2>4, <2>5, <2>6 DEF KnownExit
<1>6. C = ChainOf(loops, nl)[l] /\ \A k : IsLast(k, nl) <=> LastOf(loops, nl, k)
  BY DEF ClusterChain, ChainOf, IsLast, LastOf
<1>7. c = LET last == CHOOSE k \in C : IsLast(k, nl)
          IN  IF loops[last].clusterExit # None THEN loops[last].clusterExit ELSE loops[last].exit
  BY DEF ClusterExit
<1>8. c \in Node
  BY <1>3, <1>4, <1>5, ClusterExitIsNode
<1> HIDE DEF C, c
<1>9. PICK x : ChainTied(loops, nl, x, l)
  <2> HIDE DEF nl, l
  <2> QED  BY <1>3, <1>4, <1>5, ChainIsTied
<1>10. /\ C \subseteq DOMAIN loops /\ x \in C
       /\ \A y \in C : /\ LastOf(loops, nl, y) <=> y = x
                       /\ Tied(loops[y].exit, loops[x].exit)
  BY <1>6, <1>9 DEF ChainTied
<1> HIDE DEF nl, l
<1>11. x = CHOOSE k \in C : IsLast(k, nl)
  BY <1>6, <1>10
<1>12. c = IF loops[x].clusterExit # None THEN loops[x].clusterExit ELSE loops[x].exit
  BY <1>7, <1>11
<1>13. Tied(loops[x].exit, c) /\ loops[x].exit \in Node
  BY <1>3, <1>10, <1>12, TiedIsEquivalence DEF ExitsTied
<1>14. ASSUME NEW k \in DOMAIN loops
       PROVE  /\ loops'[k].exit = loops[k].exit /\ loops'[k].redirect = loops[k].redirect
              /\ loops'[k].clusterExit = IF k \in C THEN c ELSE loops[k].clusterExit
              /\ k \in C => Tied(loops[k].exit, c)
  <2>1. loops[k] \in LoopObject
    BY <1>3
  <2>2. loops'[k] = IF k \in C THEN [loops[k] EXCEPT !.clusterExit = c] ELSE loops[k]
    BY <1>2
  <2>3. k \in C => Tied(loops[k].exit, c)
    BY <1>3, <1>8, <1>10, <1>13, TiedIsEquivalence
  <2> QED  BY <2>1, <2>2, <2>3 DEF LoopObject
<1>15. DOMAIN loops' = DOMAIN loops /\ nodeLoop' = [nodeLoop EXCEPT ![n] = l]
  BY <1>2 DEF nl
<1>16. Bundles(n, l, c, C)
  BY <1>4, <1>8, <1>14, <1>15 DEF Bundles
<1> QED  BY <1>16

LEMMA ProcessObjKeepsTies ==
  ASSUME SetPathInv, TiedInv, TreeInv, NEW n \in Node, ProcessObj(n)
  PROVE  TiedInv' /\ TreeInv'
<1>1. /\ phase = "process" /\ phase' = phase /\ stack = << >>
      /\ UNCHANGED <<graph, stack, partitions, nodeToZone1>>
  BY ProcessObjMakes
<1>2. TreeInv'
  <2>1. PICK D \in [Node -> Nat] : SubtreesKnown(D, Node)
    BY <1>1 DEF TreeInv
  <2>2. SubtreesKnown(D, Node)'
    BY <1>1, <2>1, SubtreesSame
  <2> QED  BY <1>1, <2>2 DEF TreeInv
<1>3. CallsTied(stack', nodeLoop', loops', dist')
  BY <1>1 DEF CallsTied
<1>4. CASE nodeLoop[n] = 0
  <2>1. nodeLoop' = nodeLoop /\ loops' = loops
    BY <1>4 DEF ProcessObj
  <2>2. TiedInv'
    BY <1>1, <1>3, <2>1, TiedInvNext DEF TiedInv
  <2> QED  BY <1>2, <2>2
<1>5. CASE nodeLoop[n] # 0
  <2>1. /\ nodeLoop \in [Node -> Nat] /\ IsLoops(loops)
        /\ \A m \in Node : nodeLoop[m] # 0 => nodeLoop[m] \in DOMAIN loops
        /\ NodesTied(nodeLoop, loops) /\ RedirectsTied(loops) /\ ExitsTied(loops)
    BY DEF SetPathInv, SearchInv, Types, TiedInv
  <2>2. PICK l, c, C : Bundles(n, l, c, C)
    BY <1>5, ProcessObjBundles
  <2>3. /\ l \in DOMAIN loops
        /\ nodeLoop' = [nodeLoop EXCEPT ![n] = l]
        /\ DOMAIN loops' = DOMAIN loops
        /\ \A k \in DOMAIN loops :
             /\ loops'[k].exit = loops[k].exit /\ loops'[k].redirect = loops[k].redirect
             /\ loops'[k].clusterExit = IF k \in C THEN c ELSE loops[k].clusterExit
             /\ k \in C => Tied(loops[k].exit, c)
        /\ Tied(n, loops[l].exit)
    BY <2>2 DEF Bundles
  <2>4. NodesTied(nodeLoop', loops')
    <3> SUFFICES ASSUME NEW m \in Node, nodeLoop'[m] # 0 PROVE Tied(m, loops'[nodeLoop'[m]].exit)
      BY DEF NodesTied
    <3>1. CASE m = n
      BY <2>1, <2>3, <3>1
    <3>2. CASE m # n
      BY <2>1, <2>3, <3>2 DEF NodesTied
    <3> QED  BY <3>1, <3>2
  <2>5. RedirectsTied(loops')
    <3>1. \A k \in DOMAIN loops : loops[k].redirect # 0 => loops[k].redirect \in DOMAIN loops
      BY <2>1 DEF IsLoops, Redirects
    <3> QED  BY <2>1, <2>3, <3>1 DEF RedirectsTied
  <2>6. ExitsTied(loops')
    BY <2>1, <2>3 DEF ExitsTied
  <2>7. TiedInv'
    BY <1>1, <1>3, <2>4, <2>5, <2>6, TiedInvNext
  <2> QED  BY <1>2, <2>7
<1> QED  BY <1>4, <1>5

-----------------------------------------------------------------------------
LEMMA FoundKeepsTies ==
  ASSUME SearchInv, phase = "search", phase' = phase, StepsInv', TiedInv, TreeInv,
         NEW L, NEW f, NEW n, NEW i, FoundTied(L, f, n, i)
  PROVE  TiedInv' /\ TreeInv'
<1>1. \A l \in DOMAIN loops' : loops'[l].clusterExit = None
  <2>1. Located'
    BY DEF StepsInv
  <2> QED  BY <2>1 DEF Located
<1>2. TiedInv'
  BY <1>1, FoundKeepsTied
<1>3. Found(L, f, n, i)
  BY DEF FoundTied
<1>4. TreeInv'
  BY <1>3, FoundKeepsTree
<1> QED  BY <1>2, <1>4

LEMMA TiesInductive ==
  SetPathInv /\ StepsInv /\ TiedInv /\ TreeInv /\ [Next]_vars => TiedInv' /\ TreeInv'
<1> SUFFICES ASSUME SetPathInv, StepsInv, TiedInv, TreeInv, [Next]_vars PROVE TiedInv' /\ TreeInv'
  OBVIOUS
<1>1. /\ SearchInv /\ StepsInv' /\ LoopsLinked
      /\ stack # << >> => phase = "search"
  <2>1. StepsInv'
    BY StepsInductive
  <2> QED  BY <2>1 DEF SetPathInv, SearchInv, CallsJoined, StepsInv
<1>2. ASSUME NEW z \in Zones, NewPartition(z) PROVE TiedInv' /\ TreeInv'
  <2>1. phase = "search"
    BY <1>2 DEF NewPartition
  <2>2. NewFrame(0, z, None, startDistance)
    BY <1>1, <1>2, NewPartitionFrame
  <2> QED  BY <1>1, <2>1, <2>2, NewFrameKeeps
<1>3. ASSUME NEW i \in Intfs, CloseLoop(i) PROVE TiedInv' /\ TreeInv'
  <2>1. phase = "search" /\ phase' = phase
    BY <1>1, <1>3 DEF CloseLoop
  <2>2. PICK last : last = Len(stack)
    OBVIOUS
  <2>3. PICK L, f : FoundTied(L, f, last, i)
    BY <1>1, <1>3, <2>2, CloseLoopFinds
  <2> QED  BY <1>1, <2>1, <2>3, FoundKeepsTies
<1>4. ASSUME NEW i \in Intfs, Descend(i) PROVE TiedInv' /\ TreeInv'
  <2>1. phase = "search"
    BY <1>1, <1>4 DEF Descend
  <2>2. PICK c, x, d : NewFrame(c, x, i, d)
    BY <1>1, <1>4, DescendFrame
  <2> QED  BY <1>1, <2>1, <2>2, NewFrameKeeps
<1>5. CASE Return
  <2>1. phase = "search" /\ phase' = phase
    BY <1>1, <1>5 DEF Return
  <2>2. PICK c : c = Len(stack)
    OBVIOUS
  <2>3. PICK t : t = stack[c].obj
    OBVIOUS
  <2>4. CASE Result(t) = 0
    BY <1>1, <1>5, <2>1, <2>2, <2>3, <2>4, ReturnKeepsTies
  <2>5. CASE Result(t) # 0
    <3>1. CallsTied(stack, nodeLoop, loops, dist)
      BY DEF TiedInv
    <3>2. PICK f : f = Result(t)
      OBVIOUS
    <3>3. FoundTied(loops, f, c - 1, stack[c].intf)
      BY <1>1, <1>5, <2>2, <2>3, <2>5, <3>1, <3>2, ReturnFinds
    <3> QED  BY <1>1, <2>1, <3>3, FoundKeepsTies
  <2> QED  BY <2>4, <2>5
<1>6. CASE EndOfSearch
  BY <1>1, <1>6, EndOfSearchKeepsTies
<1>7. ASSUME NEW n \in Node, ProcessObj(n) PROVE TiedInv' /\ TreeInv'
  BY <1>7, ProcessObjKeepsTies
<1>8. CASE EndOfProcess
  BY <1>8, IdleKeepsTies DEF EndOfProcess
<1>9. CASE UNCHANGED vars
  BY <1>9, IdleKeepsTies DEF vars, nodeVars, intfVars
<1> QED  BY <1>2, <1>3, <1>4, <1>5, <1>6, <1>7, <1>8, <1>9 DEF Next, Done

\* At any time nodes of a loop are tied to the exit of their loop, to that of the loop it is
\* redirected to and to its cluster exit, and a call that has returned no loop has left only
\* a bridge to what it has reached, for each topology and each order of the search.
THEOREM ClustersInvariance == Spec => [](SetPathInv /\ StepsInv /\ TiedInv /\ TreeInv)
<1> DEFINE Inv == SetPathInv /\ StepsInv /\ TiedInv /\ TreeInv
<1>1. Init => Inv
  BY SetPathInit, StepsInit, TiesInit
<1>2. Inv /\ [Next]_vars => Inv'
  BY SetPathInductive, StepsInductive, TiesInductive
<1> QED  BY <1>1, <1>2, PTL DEF Spec

-----------------------------------------------------------------------------
(***************************************************************************)
(* Clusters.                                                               *)
(***************************************************************************)
\* A subtree is left only by a bridge.
LEMMA SubtreeTied ==
  ASSUME graph \in Topologies, nodeToZone1 \in [Node -> Intfs \cup {None}],
         NEW D, NEW n \in Node, NEW T \in SUBSET Node, Encloses(T, n, D),
         NEW m \in Node, Tied(n, m)
  PROVE  m \in T
<1> DEFINE out == nodeToZone1[n]
<1>1. \A i \in Intfs : /\ graph[i].router \in Node /\ graph[i].zone \in Node
                       /\ Joins(i, graph[i].router, graph[i].zone)
                       /\ Joins(i, graph[i].zone, graph[i].router)
  <2> TAKE i \in Intfs
  <2>1. /\ graph[i].router \in Node /\ graph[i].zone \in Node /\ graph[i].router # graph[i].zone
    BY TopologyAssumption DEF Node
  <2>2. i \in IntfList(graph[i].router) /\ i \in IntfList(graph[i].zone)
    BY DEF IntfList
  <2> QED  BY <2>1, <2>2 DEF Joins
<1>2. n \in T /\ \A x \in T : \A y \in Node : \A i \in Intfs : Joins(i, x, y) => (y \in T <=> i # out)
  BY DEF Encloses
<1>3. \A i \in Intfs \ {out} : graph[i].router \in T <=> graph[i].zone \in T
  BY <1>1, <1>2
<1>4. out \in Intfs => (graph[out].router \in T => graph[out].zone \notin T)
  BY <1>1, <1>2
<1>5. out \in NonBridges => (graph[out].router \in T <=> graph[out].zone \in T)
  <2> SUFFICES ASSUME out \in NonBridges
               PROVE  graph[out].router \in T <=> graph[out].zone \in T
    OBVIOUS
  <2>1. out \in Intfs
    BY DEF NonBridges
  <2> HIDE DEF out
  <2>2. Connected(graph[out].router, graph[out].zone, Intfs \ {out})
    BY <1>1, <2>1, NoBridge
  <2>3. Connected(graph[out].zone, graph[out].router, Intfs \ {out})
    BY <1>1, <2>1, NoBridge
  <2>4. graph[out].router \in T => graph[out].zone \in T
    BY <1>3, <2>2 DEF Connected
  <2>5. graph[out].zone \in T => graph[out].router \in T
    BY <1>3, <2>3 DEF Connected
  <2> QED  BY <2>4, <2>5
<1>6. \A i \in NonBridges : graph[i].router \in T <=> graph[i].zone \in T
  <2>1. \A i \in NonBridges : i \in Intfs
    BY DEF NonBridges
  <2> HIDE DEF out
  <2> QED  BY <1>3, <1>5, <2>1
<1> QED  BY <1>2, <1>6 DEF Tied, Connected

\* Cluster exits that are tied to each other are the same.
LEMMA ClusterExitIsOne ==
  ASSUME SetPathInv, StepsInv, TreeInv, phase = "done",
         NEW c \in Node, NEW e \in Node, OwnExit(c), OwnExit(e), Tied(c, e)
  PROVE  c = e
<1>1. /\ graph \in Topologies /\ nodeToZone1 \in [Node -> Intfs \cup {None}]
      /\ stack = << >> /\ StepsKnown
  BY DEF SetPathInv, SearchInv, Types, StepsInv
<1>2. PICK D \in [Node -> Nat] : SubtreesKnown(D, Node)
  BY DEF TreeInv
<1>3. ASSUME NEW n \in Node, OwnExit(n) PROVE \E T \in SUBSET Node : Encloses(T, n, D)
  <2>1. ~Active(n) /\ ~Inside(n) /\ Left(n)
    BY <1>1, <1>3 DEF Active, Inside, OwnExit, Left, Reached
  <2>2. nodeToZone1[n] # None \/ n \in partitions
    BY <1>1, <2>1 DEF StepsKnown
  <2> QED  BY <1>2, <2>1, <2>2 DEF SubtreesKnown
<1>4. PICK T \in SUBSET Node : Encloses(T, c, D)
  BY <1>3
<1>5. PICK U \in SUBSET Node : Encloses(U, e, D)
  BY <1>3
<1>6. Tied(e, c)
  BY <1>1, TiedIsEquivalence
<1>7. e \in T
  BY <1>1, <1>4, SubtreeTied
<1>8. c \in U
  BY <1>1, <1>5, <1>6, SubtreeTied
<1>9. c # e => D[c] < D[e] /\ D[e] < D[c]
  BY <1>4, <1>5, <1>7, <1>8 DEF Encloses
<1>10. D[c] \in Nat /\ D[e] \in Nat
  OBVIOUS
<1> QED  BY <1>9, <1>10

\* Nodes of loops have the same cluster exit if and only if they are connected without a
\* bridge, and then the same distance, although setLoopClusterExit only follows the loops of
\* exits, whatever the order of the search was.
THEOREM ClustersAreComponents == Spec => []ClustersAreConnected
<1>1. SetPathInv /\ StepsInv /\ TiedInv /\ TreeInv => ClustersAreConnected
  <2> SUFFICES ASSUME SetPathInv, StepsInv, TiedInv, TreeInv, phase = "done",
                      NEW n \in {k \in Node : nodeLoop[k] # 0}, NEW m \in {k \in Node : nodeLoop[k] # 0}
               PROVE  LET same == loops[nodeLoop[n]].clusterExit = loops[nodeLoop[m]].clusterExit IN
                      /\ same <=> Connected(n, m, {i \in Intfs : ~Bridge(i)})
                      /\ same => dist[n] = dist[m]
    BY DEF ClustersAreConnected
  <2>1. /\ graph \in Topologies /\ pending = {} /\ IsLoops(loops)
        /\ \A k \in Node : nodeLoop[k] # 0 => nodeLoop[k] \in DOMAIN loops
        /\ \A l \in DOMAIN loops : loops[l].exit \in Node
        /\ ClustersFound /\ ClustersEnd
    BY LoopNumbers DEF SetPathInv, SearchInv, Types, StepsInv
  <2>2. ASSUME NEW k \in Node, nodeLoop[k] # 0
        PROVE  \E c \in Node : /\ c = loops[nodeLoop[k]].clusterExit /\ dist[k] = dist[c]
                               /\ OwnExit(c) /\ Tied(k, c)
    <3>1. PICK c \in Node : c = loops[nodeLoop[k]].clusterExit /\ dist[k] = dist[c]
      BY <2>1, <2>2 DEF ClustersFound
    <3>2. nodeLoop[k] \in DOMAIN loops /\ loops[nodeLoop[k]].exit \in Node
      BY <2>1, <2>2
    <3>3. OwnExit(c)
      BY <2>1, <3>1, <3>2 DEF ClustersEnd
    <3>4. Tied(k, loops[nodeLoop[k]].exit)
      BY <2>2 DEF TiedInv, NodesTied
    <3>5. c # None
      BY TopologyAssumption DEF Node
    <3>6. Tied(loops[nodeLoop[k]].exit, c)
      BY <3>1, <3>2, <3>5 DEF TiedInv, ExitsTied
    <3>7. Tied(k, c)
      BY <2>1, <3>2, <3>4, <3>6, TiedIsEquivalence
    <3> QED  BY <3>1, <3>3, <3>7
  <2>3. n \in Node /\ m \in Node /\ nodeLoop[n] # 0 /\ nodeLoop[m] # 0
    OBVIOUS
  <2>4. PICK c \in Node : /\ c = loops[nodeLoop[n]].clusterExit /\ dist[n] = dist[c]
                          /\ OwnExit(c) /\ Tied(n, c)
    BY <2>2, <2>3
  <2>5. PICK e \in Node : /\ e = loops[nodeLoop[m]].clusterExit /\ dist[m] = dist[e]
                          /\ OwnExit(e) /\ Tied(m, e)
    BY <2>2, <2>3
  <2>6. c = e => Tied(n, m)
    BY <2>1, <2>3, <2>4, <2>5, TiedIsEquivalence
  <2>7. Tied(n, m) => c = e
    <3> SUFFICES ASSUME Tied(n, m) PROVE c = e
      OBVIOUS
    <3>1. Tied(c, n) /\ Tied(c, m) /\ Tied(c, e)
      BY <2>1, <2>3, <2>4, <2>5, TiedIsEquivalence
    <3> QED  BY <2>4, <2>5, <3>1, ClusterExitIsOne
  <2>8. Tied(n, m) <=> Connected(n, m, {i \in Intfs : ~Bridge(i)})
    BY DEF Tied, NonBridges
  <2> QED  BY <2>4, <2>5, <2>6, <2>7, <2>8
<1> QED  BY <1>1, ClustersInvariance, PTL
=============================================================================
