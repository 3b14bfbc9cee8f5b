------------------------------ MODULE SetPath ------------------------------
(***************************************************************************)
(* Navigation information of pass 1: findDistsAndLoops and processLoops of *)
(* set-path.go, findZone1 of path-walk.go.                                 *)
(*                                                                         *)
(* The topology is a bipartite multigraph of zones and managed routers;    *)
(* each interface is an edge.  A depth first search assigns to each node   *)
(* the interface towards an arbitrary zone1 of its partition and finds     *)
(* loops.  Each loop is an object that is referenced by its nodes and      *)
(* interfaces; loops that share more than one node are united by their     *)
(* reference redirect.                                                     *)
(*                                                                         *)
(* The order of the search is that of the input files.  Here any order of  *)
(* zones and of the interfaces of a node is possible.  Secondary           *)
(* interfaces are skipped by the search and left out, as are the           *)
(* partition names that only lead to messages.                             *)
(***************************************************************************)
EXTENDS Naturals, Sequences, FiniteSets

CONSTANTS
  Zones, Routers, Intfs,
  None,        \* no node, no interface
  Topologies   \* topologies to look at

ASSUME TopologyAssumption ==
  /\ Zones \cap Routers = {}
  /\ None \notin Zones \cup Routers \cup Intfs
  /\ Topologies \subseteq [Intfs -> [router : Routers, zone : Zones]]

\* The topology is read from files; zones and routers are elements of slices.
ASSUME FiniteAssumption == IsFiniteSet(Zones \cup Routers)

Node == Zones \cup Routers

VARIABLES
  graph,         \* the two ends of each interface
  phase,         \* "search", "process", "done"
  stack,         \* active calls of setpathObj
  startDistance,
  partitions,    \* zone1 of each partition
  pending,       \* nodes that processLoops has still to handle
  dist,          \* distance of node
  nodeLoop, intfLoop,   \* loop of node and of interface; 0: none
  nodeToZone1,   \* interface of node in direction to zone1
  intfToZone1,   \* next node behind interface in direction to zone1
  loops          \* loop objects

nodeVars == <<dist, nodeLoop, nodeToZone1>>
intfVars == <<intfLoop, intfToZone1>>
vars == <<graph, phase, stack, startDistance, partitions, pending, dist, nodeLoop, intfLoop,
          nodeToZone1, intfToZone1, loops>>

Init ==
  /\ graph \in Topologies
  /\ phase = "search"
  /\ stack = <<>>
  /\ startDistance = 0
  /\ partitions = {}
  /\ pending = {}
  /\ dist = [n \in Node |-> 0]
  /\ nodeLoop = [n \in Node |-> 0]
  /\ intfLoop = [i \in Intfs |-> 0]
  /\ nodeToZone1 = [n \in Node |-> None]
  /\ intfToZone1 = [i \in Intfs |-> None]
  /\ loops = <<>>

IntfList(n) == {i \in Intfs : graph[i].router = n \/ graph[i].zone = n}
Next1(n, i) == IF graph[i].router = n THEN graph[i].zone ELSE graph[i].router

\* Mutant of Loop: distance in front of the exit.
LoopBefore(exit, distance) ==
  [exit |-> exit, distance |-> distance - 2, redirect |-> 0, clusterExit |-> None]

Loop(exit, distance) ==
  [exit |-> exit, distance |-> distance, redirect |-> 0, clusterExit |-> None]

-----------------------------------------------------------------------------
(***************************************************************************)
(* setpathObj.  A frame of the stack is a call of it.                      *)
(***************************************************************************)
Frame(n, i, d) == [obj |-> n, intf |-> i, todo |-> IntfList(n) \ {i}, max |-> d]
Top == stack[Len(stack)]
Below == SubSeq(stack, 1, Len(stack) - 1)
Active(n) == \E k \in DOMAIN stack : stack[k].obj = n

\* A call for node n, reached by interface i.
Call(below, n, i, d) ==
  /\ stack' = Append(below, Frame(n, i, d))
  /\ dist' = [dist EXCEPT ![n] = d]

\* Mutant of NewPartition: zones that belong to a loop are not recognized.
NewPartitionInLoop(z) ==
  /\ phase = "search"
  /\ stack = <<>>
  /\ z \notin partitions
  /\ nodeToZone1[z] = None
  /\ Call(<<>>, z, None, startDistance)
  /\ partitions' = partitions \cup {z}
  /\ UNCHANGED <<graph, phase, startDistance, pending, nodeLoop, nodeToZone1, intfVars, loops>>

\* Next partition: a zone that has not been reached from another one.
NewPartition(z) ==
  /\ phase = "search"
  /\ stack = <<>>
  /\ z \notin partitions
  /\ nodeToZone1[z] = None /\ nodeLoop[z] = 0
  /\ Call(<<>>, z, None, startDistance)
  /\ partitions' = partitions \cup {z}
  /\ UNCHANGED <<graph, phase, startDistance, pending, nodeLoop, nodeToZone1, intfVars, loops>>

\* Mutant of Closer: the loop with the more distant exit is taken.
MoreDistant(found, inner, l) == l[found].distance > l[inner].distance

\* Exit of loop found is closer to zone1.
Closer(found, inner, l) == l[found].distance < l[inner].distance

\* What obj makes of loop found behind its interface i; l are the loops so far.
FoundLoop(obj, i, found, l) ==
  LET inner == nodeLoop[obj]
      exit  == l[found].exit
  IN
  /\ intfLoop' = [intfLoop EXCEPT ![i] = found]
  /\ UNCHANGED intfToZone1
  /\ \/ /\ obj = exit                    \* Loop exit towards zone1.
        /\ inner = 0
        /\ loops' = Append(l, Loop(obj, dist[obj]))
        /\ nodeLoop' = [nodeLoop EXCEPT ![obj] = Len(l) + 1]
     \/ /\ obj = exit \/ inner = found
        /\ inner # 0
        /\ loops' = l
        /\ UNCHANGED nodeLoop
     \/ /\ obj # exit                    \* Node is also part of another loop.
        /\ inner \notin {0, found}
        /\ IF Closer(found, inner, l)
             THEN /\ loops' = [l EXCEPT ![inner].redirect = found]
                  /\ nodeLoop' = [nodeLoop EXCEPT ![obj] = found]
             ELSE /\ loops' = [l EXCEPT ![found].redirect = inner]
                  /\ UNCHANGED nodeLoop
     \/ /\ obj # exit                    \* Intermediate loop node.
        /\ inner = 0
        /\ loops' = l
        /\ nodeLoop' = [nodeLoop EXCEPT ![obj] = found]

\* Interface i leads to a node that is active: a loop is closed.
CloseLoop(i) ==
  /\ stack # <<>>
  /\ i \in Top.todo
  /\ intfLoop[i] = 0
  /\ LET next == Next1(Top.obj, i)
         new  == Loop(next, dist[next] + 1)
         l    == Append(loops, new)
     IN
     /\ Active(next)
     /\ FoundLoop(Top.obj, i, Len(l), l)
     /\ stack' = [stack EXCEPT ![Len(stack)].todo = @ \ {i},
                               ![Len(stack)].max = IF new.distance > @ THEN new.distance ELSE @]
  /\ UNCHANGED <<graph, phase, startDistance, partitions, pending, dist, nodeToZone1>>

\* Interface i leads to a new node.
Descend(i) ==
  /\ stack # <<>>
  /\ i \in Top.todo
  /\ intfLoop[i] = 0
  /\ ~Active(Next1(Top.obj, i))
  /\ Call([stack EXCEPT ![Len(stack)].todo = @ \ {i}], Next1(Top.obj, i), i, dist[Top.obj] + 2)
  /\ UNCHANGED <<graph, phase, startDistance, partitions, pending, nodeLoop, nodeToZone1,
                 intfVars, loops>>

\* Mutant of NextStart: the largest distance is used twice.
SameStart(max) == max

\* Start distance of next partition.
NextStart(max) == max + 1

\* The loop that a call returns to its caller.
Result(n) ==
  IF nodeLoop[n] # 0 /\ loops[nodeLoop[n]].exit # n THEN nodeLoop[n] ELSE 0

\* All interfaces have been processed; those that got a loop meanwhile are skipped.
Return ==
  /\ stack # <<>>
  /\ \A i \in Top.todo : intfLoop[i] # 0
  /\ IF Result(Top.obj) = 0
       THEN nodeToZone1' = [nodeToZone1 EXCEPT ![Top.obj] = Top.intf]
       ELSE UNCHANGED nodeToZone1
  /\ IF Below = <<>>
       THEN /\ stack' = <<>>
            /\ startDistance' = NextStart(Top.max)
            /\ UNCHANGED <<nodeLoop, intfVars, loops>>
       ELSE /\ LET caller == Below[Len(Below)] IN
               /\ stack' = [Below EXCEPT ![Len(Below)].max = IF Top.max > @ THEN Top.max ELSE @]
               /\ IF Result(Top.obj) = 0
                    THEN /\ intfToZone1' = [intfToZone1 EXCEPT ![Top.intf] = caller.obj]
                         /\ UNCHANGED <<nodeLoop, intfLoop, loops>>
                    ELSE FoundLoop(caller.obj, Top.intf, Result(Top.obj), loops)
            /\ UNCHANGED startDistance
  /\ UNCHANGED <<graph, phase, partitions, pending, dist>>

EndOfSearch ==
  /\ phase = "search"
  /\ stack = <<>>
  /\ \A z \in Zones : z \in partitions \/ nodeToZone1[z] # None \/ nodeLoop[z] # 0
  /\ phase' = "process"
  /\ pending' = Node
  /\ UNCHANGED <<graph, stack, startDistance, partitions, nodeVars, intfVars, loops>>

-----------------------------------------------------------------------------
(***************************************************************************)
(* processLoops.                                                           *)
(***************************************************************************)
FindOuterLoop[l \in DOMAIN loops] ==
  IF loops[l].redirect = 0 THEN l ELSE FindOuterLoop[loops[l].redirect]

\* Mutant of IsLast: the exit of each loop is taken for that of its cluster.
EachIsLast(l, nl) == TRUE

\* setLoopClusterExit: the loops from l on to the first one whose cluster exit is
\* known or that is the loop of its own exit.  nl are the loops of the nodes.
IsLast(l, nl) == loops[l].clusterExit # None \/ nl[loops[l].exit] = l

ClusterChain(l, nl) ==
  LET Chain[k \in DOMAIN loops] ==
        {k} \cup (IF IsLast(k, nl) THEN {} ELSE Chain[nl[loops[k].exit]])
  IN  Chain[l]

ClusterExit(l, nl) ==
  LET last == CHOOSE k \in ClusterChain(l, nl) : IsLast(k, nl)
  IN  IF loops[last].clusterExit # None THEN loops[last].clusterExit ELSE loops[last].exit

\* Mutant of ProcessObj: interfaces are forgotten.
ProcessNodeOnly(n) ==
  /\ phase = "process"
  /\ n \in pending
  /\ n \in Zones \/ pending \subseteq Routers
  /\ pending' = pending \ {n}
  /\ IF nodeLoop[n] = 0
       THEN UNCHANGED <<nodeLoop, loops, dist>>
       ELSE LET l    == FindOuterLoop[nodeLoop[n]]
                nl   == [nodeLoop EXCEPT ![n] = l]
                exit == ClusterExit(l, nl)
            IN
            /\ nodeLoop' = nl
            /\ loops' = [k \in DOMAIN loops |->
                           IF k \in ClusterChain(l, nl)
                             THEN [loops[k] EXCEPT !.clusterExit = exit] ELSE loops[k]]
            /\ dist' = [dist EXCEPT ![n] = dist[exit]]
  /\ UNCHANGED <<graph, phase, stack, startDistance, partitions, nodeToZone1, intfVars>>

\* processObj, and for a router also its interfaces.  Zones come first.
ProcessObj(n) ==
  /\ phase = "process"
  /\ n \in pending
  /\ n \in Zones \/ pending \subseteq Routers
  /\ pending' = pending \ {n}
  /\ IF nodeLoop[n] = 0
       THEN UNCHANGED <<nodeLoop, loops, dist>>
       ELSE LET l    == FindOuterLoop[nodeLoop[n]]
                nl   == [nodeLoop EXCEPT ![n] = l]
                exit == ClusterExit(l, nl)
            IN
            /\ nodeLoop' = nl
            /\ loops' = [k \in DOMAIN loops |->
                           IF k \in ClusterChain(l, nl)
                             THEN [loops[k] EXCEPT !.clusterExit = exit] ELSE loops[k]]
            /\ dist' = [dist EXCEPT ![n] = dist[exit]]
  /\ intfLoop' = [i \in Intfs |->
                    IF graph[i].router = n /\ intfLoop[i] # 0
                      THEN FindOuterLoop[intfLoop[i]] ELSE intfLoop[i]]
  /\ UNCHANGED <<graph, phase, stack, startDistance, partitions, nodeToZone1, intfToZone1>>

EndOfProcess ==
  /\ phase = "process"
  /\ pending = {}
  /\ phase' = "done"
  /\ UNCHANGED <<graph, stack, startDistance, partitions, pending, nodeVars, intfVars, loops>>

Done == phase = "done" /\ UNCHANGED vars

Next ==
  \/ \E z \in Zones : NewPartition(z)
  \/ \E i \in Intfs : CloseLoop(i) \/ Descend(i)
  \/ Return
  \/ EndOfSearch
  \/ \E n \in Node : ProcessObj(n)
  \/ EndOfProcess
  \/ Done

Spec == Init /\ [][Next]_vars

-----------------------------------------------------------------------------
(***************************************************************************)
(* findZone1: from a loop to its exit, otherwise by the interface towards  *)
(* zone1.  It is called before and after processLoops.                     *)
(***************************************************************************)
TowardsZone1(n) ==
  IF nodeLoop[n] # 0 /\ loops[nodeLoop[n]].exit # n THEN loops[nodeLoop[n]].exit
  ELSE IF nodeToZone1[n] # None THEN intfToZone1[nodeToZone1[n]]
  ELSE n

FindZone1(n) ==
  LET Walk[k \in 0 .. Cardinality(Node)] == IF k = 0 THEN n ELSE TowardsZone1(Walk[k - 1])
  IN  Walk[Cardinality(Node)]

-----------------------------------------------------------------------------
(***************************************************************************)
(* What the navigation information means, defined by the topology only.    *)
(***************************************************************************)
\* No set of nodes has n but not m, unless an interface of E leads out of it.
Connected(n, m, E) ==
  \A S \in SUBSET Node :
    n \in S /\ (\A i \in E : graph[i].router \in S <=> graph[i].zone \in S) => m \in S

\* A bridge: without it its ends are not connected.
Bridge(i) == ~Connected(graph[i].router, graph[i].zone, Intfs \ {i})

\* Simple cycles: minimal sets of interfaces with none or two at each node.
Even == {C \in SUBSET Intfs \ {{}} :
           \A n \in Node : Cardinality(C \cap IntfList(n)) \in {0, 2}}
Cycles == {C \in Even : \A D \in Even : D \subseteq C => D = C}

-----------------------------------------------------------------------------
(***************************************************************************)
(* Properties.                                                             *)
(***************************************************************************)
\* The search starts exactly once in each connected part of the topology, and
\* findZone1 ends at this start for each node, before loops are united and after.
Zone1Found ==
  phase # "search" \/ stack = <<>> =>
    \A n \in Node : IntfList(n) # {} /\ (phase # "search" \/ nodeToZone1[n] # None) =>
      {z \in partitions : Connected(n, z, Intfs)} = {FindZone1(n)}

\* Two interfaces belong to the same loop if and only if some cycle traverses both.
LoopsAreCycles ==
  phase = "done" =>
    \A i, j \in Intfs :
      intfLoop[i] # 0 /\ intfLoop[i] = intfLoop[j] <=> \E C \in Cycles : {i, j} \subseteq C

\* A node with loop l is the exit of each other loop at its interfaces, so loops
\* form a tree; this is what clusterNavigation relies on.
LoopTree ==
  phase = "done" =>
    \A n \in Node :
      /\ nodeLoop[n] # 0 <=> \E i \in IntfList(n) : intfLoop[i] # 0
      /\ \A i \in IntfList(n) :
           intfLoop[i] \in {0, nodeLoop[n]} \/ loops[intfLoop[i]].exit = n

\* Nodes of loops have the same cluster exit if and only if they are connected
\* without traversing a bridge.  Then they have the same distance.
ClustersAreConnected ==
  phase = "done" =>
    \A n, m \in {k \in Node : nodeLoop[k] # 0} :
      LET same == loops[nodeLoop[n]].clusterExit = loops[nodeLoop[m]].clusterExit IN
      /\ same <=> Connected(n, m, {i \in Intfs : ~Bridge(i)})
      /\ same => dist[n] = dist[m]

\* Each step that pathMark takes towards zone1, by a bridge or out of a cluster,
\* decreases the distance; nodes of different partitions have no distance in common.
StepsDecrease ==
  phase = "done" =>
    \A n \in Node :
      LET out == nodeToZone1[IF nodeLoop[n] = 0 THEN n ELSE loops[nodeLoop[n]].clusterExit] IN
      /\ out # None => dist[intfToZone1[out]] < dist[n]
      /\ \A m \in Node :
           IntfList(n) # {} /\ IntfList(m) # {} /\ dist[n] = dist[m] => Connected(n, m, Intfs)
=============================================================================
