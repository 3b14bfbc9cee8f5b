------------------------------ MODULE PathWalk ------------------------------
(***************************************************************************)
(* Paths through the topology: pathMark, connectClusterPath,               *)
(* clusterPathMark and pathWalk of path-walk.go.                           *)
(*                                                                         *)
(* A path is found once for each pair of source and destination and marked *)
(* in nodes and interfaces; other sources use the marks of a path they     *)
(* meet.  Inside of a cluster of loops all paths are taken that traverse   *)
(* each pathrestriction at most once.  Then a function is called at each   *)
(* router or zone of the path, with the interfaces of this node.           *)
(*                                                                         *)
(* Marks are kept for each destination separately, so one destination is   *)
(* looked at.  Source and destination are zones and routers; that a path   *)
(* starts or ends at an interface with pathrestriction is left out, as are *)
(* virtual and loopback interfaces.                                        *)
(***************************************************************************)
EXTENDS SetPath, TLC

CONSTANTS
  Restrictions,  \* lists of pathrestrictions to look at: sets of sets of interfaces
  Unset,         \* no mark
  MaxSources     \* bound on the number of sources with a marked path

VARIABLES
  restrictions,  \* effective pathrestrictions
  toStore,       \* destination
  marks,         \* marks at nodes and interfaces for this destination
  walk           \* result of the last pathWalk

walkVars == <<restrictions, toStore, marks, walk>>
allVars == <<vars, walkVars>>

Store == Node \cup Intfs
NoMarks == [path1 |-> [n \in Node |-> Unset], path |-> [i \in Intfs |-> None],
            loopEntry |-> [s \in Store |-> None], loopExit |-> [s \in Store |-> None],
            loopPath |-> <<>>]
NoWalk == [from |-> None, found |-> "no", router |-> {}, zone |-> {}]

InitWalk ==
  /\ Init
  /\ restrictions = {}
  /\ toStore = None
  /\ marks = NoMarks
  /\ walk = NoWalk

\* setPath.  Interfaces of a node are visited in the order of their numbers, and
\* the order of processLoops, which does not matter, is fixed.
InOrder(i) == \A j \in Top.todo : intfLoop[j] = 0 => i <= j
NextPending == CHOOSE n \in pending : n \in Zones \/ pending \subseteq Routers

SetPath ==
  /\ \/ \E z \in Zones : NewPartition(z)
     \/ \E i \in Intfs : (CloseLoop(i) \/ Descend(i)) /\ InOrder(i)
     \/ Return
     \/ EndOfSearch
     \/ pending # {} /\ ProcessObj(NextPending)
     \/ EndOfProcess
  /\ UNCHANGED walkVars

-----------------------------------------------------------------------------
(***************************************************************************)
(* checkPathrestrictions: all interfaces of a pathrestriction are inside   *)
(* or at the border of loops of the same cluster.                          *)
(***************************************************************************)
RestrictionsOf(i) == {r \in restrictions : i \in r}

IntfLoop(i) ==
  IF intfLoop[i] # 0 THEN intfLoop[i]
  ELSE IF nodeLoop[graph[i].router] # 0 THEN nodeLoop[graph[i].router]
  ELSE nodeLoop[graph[i].zone]

InOneCluster(r) ==
  /\ \A i \in r : IntfLoop(i) # 0
  /\ \A i, j \in r : loops[IntfLoop(i)].clusterExit = loops[IntfLoop(j)].clusterExit

CheckPathrestrictions ==
  /\ phase = "done"
  /\ toStore = None
  /\ \E R \in Restrictions :
       /\ \A r \in R : Cardinality(r) > 1 /\ InOneCluster(r)
       /\ restrictions' = R
  /\ toStore' \in Node
  /\ UNCHANGED <<vars, marks, walk>>

\* Restricted interface at border of loop, where loop node is a zone.
LoopZoneBorder(i) ==
  RestrictionsOf(i) # {} /\ intfLoop[i] = 0 /\ nodeLoop[graph[i].zone] # 0

-----------------------------------------------------------------------------
(***************************************************************************)
(* clusterNavigation: pairs of loops that may be entered one after the     *)
(* other.  The code does not end if an exit is its own next node.          *)
(***************************************************************************)
Endless == {<<0, 0>>}

RECURSIVE ClusterNavigation(_, _)
ClusterNavigation(from, to) ==
  LET fromLoop == nodeLoop[from]
      toLoop   == nodeLoop[to]
      fromExit == loops[fromLoop].exit
      toExit   == loops[toLoop].exit
      Add(pairs, rest) == IF rest = Endless THEN Endless ELSE pairs \cup rest
  IN
  IF fromLoop = toLoop THEN
    IF from = to THEN {} ELSE {<<fromLoop, fromLoop>>, <<nodeLoop[fromExit], fromLoop>>}
  ELSE IF loops[fromLoop].distance >= loops[toLoop].distance THEN
    IF fromExit = from THEN Endless
    ELSE Add({<<fromLoop, fromLoop>>}, ClusterNavigation(fromExit, to))
  ELSE
    IF toExit = to THEN Endless
    ELSE Add({<<toLoop, toLoop>>, <<nodeLoop[toExit], toLoop>>}, ClusterNavigation(from, toExit))

Allowed(navi, n) == {i \in IntfList(n) : intfLoop[i] # 0 /\ <<nodeLoop[n], intfLoop[i]>> \in navi}

(***************************************************************************)
(* clusterPathMark1: all paths from obj, entered at interface in, to end.  *)
(* A tuple is a node of the path with the interfaces it is entered and     *)
(* left by.                                                                *)
(***************************************************************************)
NoPath(why) == [found |-> why, enter |-> {}, leave |-> {}, tuples |-> {}]

\* sub are the results of searching behind each interface of a node.
Good(sub) == {i \in DOMAIN sub : sub[i].found = "yes"}
Merged(sub, ownTuples) ==
  [found  |-> IF Good(sub) # {} THEN "yes" ELSE "no",
   enter  |-> Good(sub),
   leave  |-> UNION {sub[i].leave : i \in Good(sub)},
   tuples |-> ownTuples \cup UNION {sub[i].tuples : i \in Good(sub)}]

WithTuples(obj, in, sub) == Merged(sub, {<<obj, in, i>> : i \in Good(sub)})

RECURSIVE ClusterPathMark1(_, _, _, _, _, _)
ClusterPathMark1(obj, in, end, navi, activeNodes, activeRestrictions) ==
  IF RestrictionsOf(in) \cap activeRestrictions # {} \/ obj \in activeNodes THEN NoPath("no")
  ELSE IF obj = end THEN [NoPath("yes") EXCEPT !.leave = {in}]
  ELSE WithTuples(obj, in,
         [i \in Allowed(navi, obj) \ {in} |->
            ClusterPathMark1(Next1(obj, i), i, end, navi, activeNodes \cup {obj},
                             activeRestrictions \cup RestrictionsOf(in))])

\* The node of the loop at which a path starts or ends, and the restrictions of the
\* interface at its border by which the loop is entered or left.
LoopNode(s) ==
  IF s \in Node THEN s ELSE IF LoopZoneBorder(s) THEN graph[s].zone ELSE graph[s].router
Border(s) == IF s \in Intfs THEN RestrictionsOf(s) ELSE {}

\* The same pathrestriction at both sides of the loop.
Blocked(start, end) == Border(start) \cap Border(end) # {}

Search(from, to, navi, activeRestrictions) ==
  IF navi = Endless THEN NoPath("endless")
  ELSE IF Allowed(navi, from) = {} THEN NoPath("panic")
  ELSE Merged([i \in Allowed(navi, from) |->
                 ClusterPathMark1(Next1(from, i), i, to, navi, {from}, activeRestrictions)], {})

ClusterPathMark(start, end) ==
  IF Blocked(start, end) THEN NoPath("no")
  ELSE Search(LoopNode(start), LoopNode(end), ClusterNavigation(LoopNode(start), LoopNode(end)),
              Border(start) \cup Border(end))

-----------------------------------------------------------------------------
(***************************************************************************)
(* connectClusterPath: marks path from node from, entered at fromIn, to    *)
(* node to, left by toOut, through a cluster of loops.                     *)
(***************************************************************************)
StoreOf(n, i) == IF i # None /\ RestrictionsOf(i) # {} THEN i ELSE n

SetPathMark(m, fromStore, fromIn, out) ==
  IF fromIn # None THEN [m EXCEPT !.path[fromIn] = out] ELSE [m EXCEPT !.path1[fromStore] = out]

LoopPath(m, start, end) ==
  IF <<start, end>> \in DOMAIN m.loopPath THEN m.loopPath[<<start, end>>]
  ELSE ClusterPathMark(start, end)

\* store is where the path enters the loop: fromStore or interface fromIn.
Entered(m, fromStore, fromIn, toOut, start, end, store, lPath) ==
  [found |-> lPath.found,
   marks |-> IF lPath.found # "yes" THEN m
             ELSE [SetPathMark(m, fromStore, fromIn, toOut) EXCEPT
                     !.loopEntry[store] = start, !.loopExit[start] = end,
                     !.loopPath = (<<start, end>> :> lPath) @@ @]]

Connect(m, fromStore, fromIn, toOut, start, end) ==
  Entered(m, fromStore, fromIn, toOut, start, end, IF fromIn # None THEN fromIn ELSE fromStore,
          LoopPath(m, start, end))

\* Mutant of ConnectClusterPath: marks inside the loop depend on its nodes only.
ConnectNodes(m, fromStore, from, to, fromIn, toOut) ==
  Connect(m, fromStore, fromIn, toOut, from, to)

ConnectClusterPath(m, fromStore, from, to, fromIn, toOut) ==
  Connect(m, fromStore, fromIn, toOut, StoreOf(from, fromIn), StoreOf(to, toOut))

\* removePath: the marks from fromStore on, as far as they are set.
RECURSIVE Chain(_, _)
Chain(path, out) ==
  IF out = None THEN {} ELSE {out} \cup Chain([path EXCEPT ![out] = None], path[out])

RemovePath(m, fromStore) ==
  LET chain == IF m.path1[fromStore] = Unset THEN {} ELSE Chain(m.path, m.path1[fromStore])
  IN  [m EXCEPT !.path1[fromStore] = Unset,
                !.path = [i \in Intfs |-> IF i \in chain THEN None ELSE m.path[i]]]

\* Interface behind node n, or behind its cluster, in direction to zone1.
Out(n) ==
  IF nodeToZone1[n] # None \/ nodeLoop[n] = 0 THEN nodeToZone1[n]
  ELSE nodeToZone1[loops[nodeLoop[n]].clusterExit]

SameCluster(n, m) ==
  /\ nodeLoop[n] # 0 /\ nodeLoop[m] # 0
  /\ loops[nodeLoop[n]].clusterExit = loops[nodeLoop[m]].clusterExit

(***************************************************************************)
(* pathMark: steps towards zone1 from the more distant side until both     *)
(* sides meet.                                                             *)
(***************************************************************************)
Marked(m) == [found |-> "yes", marks |-> m]
Fail(m, fromStore, why) == [found |-> why, marks |-> RemovePath(m, fromStore)]

\* The cluster of node n, if n is not its exit, is passed between the nodes from and to.
ThroughLoop(n, m, fromStore, from, to, in, out) ==
  IF nodeToZone1[n] # None THEN Marked(m)
  ELSE ConnectClusterPath(m, fromStore, from, to, in, out)

Ended(fromStore, c) == IF c.found = "yes" THEN c ELSE Fail(c.marks, fromStore, c.found)

ClusterExitOf(n) == loops[nodeLoop[n]].clusterExit

RECURSIVE PathMark(_, _, _, _, _, _), FromStep(_, _, _, _, _), ToStep(_, _, _, _, _)
PathMark(m, fromStore, from, to, fromIn, toOut) ==
  IF from = to THEN Marked(SetPathMark(m, fromStore, fromIn, toOut))
  ELSE IF SameCluster(from, to) THEN
    Ended(fromStore, ConnectClusterPath(m, fromStore, from, to, fromIn, toOut))
  ELSE IF dist[from] >= dist[to] THEN
    IF fromIn # None /\ m.path[fromIn] # None THEN Marked(m)
    ELSE IF Out(from) = None THEN Fail(m, fromStore, "no")
    ELSE FromStep(fromStore, from, to, <<fromIn, toOut>>,
                  ThroughLoop(from, m, fromStore, from, ClusterExitOf(from), fromIn, Out(from)))
  ELSE IF Out(to) = None THEN Fail(m, fromStore, "no")
  ELSE ToStep(fromStore, from, to, <<fromIn, toOut>>,
              ThroughLoop(to, m, fromStore, ClusterExitOf(to), to, Out(to), toOut))

\* c is what became of the marks on the way through the cluster.
FromStep(fromStore, from, to, ends, c) ==
  IF c.found # "yes" THEN Fail(c.marks, fromStore, c.found)
  ELSE PathMark(SetPathMark(c.marks, fromStore, ends[1], Out(from)), fromStore,
                intfToZone1[Out(from)], to, Out(from), ends[2])

ToStep(fromStore, from, to, ends, c) ==
  IF c.found # "yes" THEN Fail(c.marks, fromStore, c.found)
  ELSE PathMark([c.marks EXCEPT !.path[Out(to)] = ends[2]], fromStore,
                from, intfToZone1[Out(to)], ends[1], Out(to))

-----------------------------------------------------------------------------
(***************************************************************************)
(* pathWalk: the pairs of interfaces the function is called with, at       *)
(* routers or at zones.                                                    *)
(***************************************************************************)
\* Does the part of the path through a loop start or end at a router?
AtRouter(s, intfs) ==
  \/ s \in Routers
  \/ s \in Intfs /\ \E i \in intfs : graph[i].router = graph[s].router

LoopCalls(p, in, out, entry, exit, atZone) ==
  {<<in, i>> : i \in {j \in p.enter : AtRouter(entry, p.enter) # atZone}}
    \cup {<<t[2], t[3]>> : t \in {u \in p.tuples : (u[1] \in Zones) = atZone}}
    \cup {<<i, out>> : i \in {j \in p.leave : AtRouter(exit, p.leave) # atZone}}

LoopPathWalk(m, in, out, entry, exit, atZone) ==
  [calls  |-> LoopCalls(m.loopPath[<<entry, exit>>], in, out, entry, exit, atZone),
   callIt |-> AtRouter(exit, m.loopPath[<<entry, exit>>].leave) # atZone]

\* The interfaces out and all behind it; here is what was called at the node or
\* loop in front of it.
RECURSIVE WalkFrom(_, _, _, _)
WalkFrom(m, out, here, atZone) ==
  here.calls \cup
    (IF out = None THEN {}
     ELSE WalkFrom(m, m.path[out],
            IF m.loopEntry[out] # None
              THEN LoopPathWalk(m, out, m.path[out], m.loopEntry[out],
                                m.loopExit[m.loopEntry[out]], atZone)
              ELSE [calls  |-> IF here.callIt THEN {} ELSE {<<out, m.path[out]>>},
                    callIt |-> ~here.callIt],
            atZone))

Calls(m, from, atZone) ==
  WalkFrom(m, m.path1[from],
    IF m.loopEntry[from] # None
      THEN LoopPathWalk(m, None, m.path1[from], m.loopEntry[from],
                        m.loopExit[m.loopEntry[from]], atZone)
      ELSE [calls  |-> IF (from \in Routers) # atZone THEN {<<None, m.path1[from]>>} ELSE {},
            callIt |-> (from \in Routers) # atZone],
    atZone)

PathWalk(from) ==
  /\ toStore # None
  /\ \/ marks.path1[from] # Unset
     \/ Cardinality({n \in Node : marks.path1[n] # Unset}) < MaxSources
  /\ \E p \in {IF marks.path1[from] # Unset THEN Marked(marks)
               ELSE PathMark(marks, from, from, toStore, None, None)} :
     /\ marks' = p.marks
     /\ walk' = [from |-> from, found |-> p.found,
                 router |-> IF p.found = "yes" THEN Calls(p.marks, from, FALSE) ELSE {},
                 zone   |-> IF p.found = "yes" THEN Calls(p.marks, from, TRUE) ELSE {}]
  /\ UNCHANGED <<vars, restrictions, toStore>>

NextWalk ==
  \/ SetPath
  \/ CheckPathrestrictions
  \/ \E n \in Node : PathWalk(n)

SpecWalk == InitWalk /\ [][NextWalk]_allVars

-----------------------------------------------------------------------------
(***************************************************************************)
(* What a path is, defined by topology and pathrestrictions only.          *)
(***************************************************************************)
RECURSIVE Paths(_, _, _)
Paths(n, seen, used) ==
  IF n = toStore THEN {<<>>}
  ELSE UNION {{<<i>> \o p : p \in Paths(Next1(n, i), seen \cup {n}, used \cup RestrictionsOf(i))} :
                i \in {j \in IntfList(n) : /\ Next1(n, j) \notin seen \cup {n}
                                          /\ RestrictionsOf(j) \cap used = {}}}

\* Consecutive interfaces of a path, at its routers or at its zones.
PairsOf(from, p, atZone) ==
  LET q == <<None>> \o p \o <<None>>
  IN  {<<q[k], q[k + 1]>> : k \in {j \in 1 .. Len(q) - 1 :
                                      ((from \in Routers) = (j % 2 = 1)) # atZone}}

\* Two restricted interfaces at the border of a cluster, at the same node: a path
\* that only touches the cluster at this node is not restricted by them.
CommonBorder(i, j) ==
  /\ i # j
  /\ intfLoop[i] = 0 /\ intfLoop[j] = 0
  /\ RestrictionsOf(i) \cap RestrictionsOf(j) # {}
  /\ \E n \in Node : {i, j} \subseteq IntfList(n)

\* A restricted interface that connects two clusters.
BetweenClusters(i) ==
  /\ RestrictionsOf(i) # {}
  /\ intfLoop[i] = 0
  /\ nodeLoop[graph[i].router] # 0 /\ nodeLoop[graph[i].zone] # 0

-----------------------------------------------------------------------------
(***************************************************************************)
(* Properties.                                                             *)
(***************************************************************************)
\* A path is found if and only if there is one that traverses each pathrestriction
\* at most once, and the function is called with exactly the pairs of interfaces
\* of all these paths, whichever paths have been marked before.  The search neither
\* goes on for ever nor panics at an empty navigation map.
WalkIsPaths ==
  walk.from # None
    /\ (\A i \in Intfs : ~BetweenClusters(i) /\ \A j \in Intfs : ~CommonBorder(i, j)) =>
  LET paths == Paths(walk.from, {}, {}) IN
  /\ walk.found = IF paths # {} THEN "yes" ELSE "no"
  /\ walk.router = UNION {PairsOf(walk.from, p, FALSE) : p \in paths}
  /\ walk.zone   = UNION {PairsOf(walk.from, p, TRUE) : p \in paths}

\* Each search for a path ends; pathMark "Returns: True if valid path is found,
\* False otherwise."
WalkEnds == walk.found # "endless"
=============================================================================
