---------------------------- MODULE ExpandGroups ----------------------------
(***************************************************************************)
(* Expansion of users, sources and destinations of services to objects     *)
(* (expandGroup1 in expand-group.go), as a stack of its calls.  Lists of   *)
(* objects are sets, because their order and duplicates only lead to       *)
(* messages.                                                               *)
(*                                                                         *)
(* Elements of a list are                                                  *)
(*   <<"obj", o>>              an object, <<"area", name>> for an area or  *)
(*                             <<"auto", router>> for an auto interface    *)
(*   <<"group", name>>                                                     *)
(*   <<"user">>                                                            *)
(*   <<"network", list>>       network:[list]                              *)
(*   <<"host", list>>          host:[list]                                 *)
(*   <<"any", list, ip, size>> any:[ip = ip/size & list]                   *)
(*   <<"all", list>>           interface:[list].[all]                      *)
(*   <<"and", list>>           intersection, where <<"not", element>> is a *)
(*                             complement                                  *)
(***************************************************************************)
EXTENDS FindSubnets

VARIABLES
  stack,      \* calls of expandGroup1, see Frame
  userObj,    \* elements of userObj: None or a set
  cache,      \* expandedClean (TRUE) and expandedNoClean (FALSE) of groups
  recursive,  \* groups with attribute recursive
  problems,   \* kinds of errors that have been reported
  expanded    \* the value of the last list: None or a set

groupVars == <<stack, userObj, cache, recursive, problems, expanded>>

\* saved holds the value of userObj that is restored when the call returns.
Frame(el, list, visible) ==
  [el |-> el, todo |-> list, visible |-> visible, result |-> {}, parts |-> None, saved |-> <<>>]

InitGroups ==
  /\ stack = <<>>
  /\ userObj = None
  /\ cache = [k \in (DOMAIN policy.groups) \X BOOLEAN |-> None]
  /\ recursive = {} /\ problems = {}
  /\ expanded = None

Below == SubSeq(stack, 1, Len(stack) - 1)
Current == stack[Len(stack)]
Next1 == Head(Current.todo)
Skip(f) == [f EXCEPT !.todo = Tail(@)]
With(f, objs) == [Skip(f) EXCEPT !.result = @ \cup objs]
IsNext(kinds) ==
  stack # <<>> /\ Current.el[1] # "and" /\ Current.todo # <<>> /\ Next1[1] \in kinds

AddObject ==
  /\ IsNext({"obj"})
  /\ stack' = Append(Below, With(Current, {Next1[2]}))
  /\ UNCHANGED <<userObj, cache, recursive, problems, expanded, netVars>>

AddUser ==
  /\ IsNext({"user"})
  /\ stack' = Append(Below, With(Current, IF userObj = None THEN {} ELSE userObj))
  /\ problems' = IF userObj = None THEN problems \cup {"user"} ELSE problems
  /\ UNCHANGED <<userObj, cache, recursive, expanded, netVars>>

\* Mutant of Cached: one value is used for both kinds of calls.
CachedAny(g, visible) == IF cache[<<g, TRUE>>] # None THEN cache[<<g, TRUE>>] ELSE cache[<<g, FALSE>>]

Cached(g, visible) == cache[<<g, visible>>]

\* The group is already known, or it contains itself.
UseGroup ==
  /\ IsNext({"group"})
  /\ \E g \in {Next1[2]} : \E visible \in {Current.visible} :
       \/ /\ g \in recursive
          /\ problems' = problems \cup {"recursion"}
          /\ cache' = [cache EXCEPT ![<<g, visible>>] = {}]
          /\ stack' = Append(Below, Skip(Current))
       \/ /\ g \notin recursive /\ Cached(g, visible) # None
          /\ stack' = Append(Below, With(Current, Cached(g, visible)))
          /\ UNCHANGED <<problems, cache>>
  /\ UNCHANGED <<userObj, recursive, expanded, netVars>>

\* A group can't use userObj; the old value comes back when the call returns that found
\* the group, not when the group has been expanded.
ExpandGroup ==
  /\ IsNext({"group"})
  /\ \E g \in {Next1[2]} :
       /\ g \notin recursive /\ Cached(g, Current.visible) = None
       /\ stack' = Below \o <<[Current EXCEPT !.saved = IF @ = <<>> THEN <<userObj>> ELSE @],
                              Frame(Next1, policy.groups[g], Current.visible)>>
       /\ recursive' = recursive \cup {g}
  /\ userObj' = None
  /\ UNCHANGED <<cache, problems, expanded, netVars>>

\* Automatic groups and intersections; each part of an intersection is a list of its own.
ExpandList ==
  /\ IsNext({"network", "host", "any", "all", "and"})
  /\ stack' = Append(stack, Frame(Next1, Next1[2], Next1[1] = "and" /\ Current.visible))
  /\ UNCHANGED <<userObj, cache, recursive, problems, expanded, netVars>>

ExpandPart ==
  /\ stack # <<>> /\ Current.el[1] = "and" /\ Current.todo # <<>>
  /\ stack' = Append(stack, Frame(<<"part">>, IF Next1[1] = "not" THEN <<Next1[2]>> ELSE <<Next1>>,
                                  Current.visible))
  /\ UNCHANGED <<userObj, cache, recursive, problems, expanded, netVars>>

-----------------------------------------------------------------------------
(***************************************************************************)
(* Return from a call                                                      *)
(***************************************************************************)
Caller == stack[Len(stack) - 1]
ReturnTo(frame) == stack' = Append(SubSeq(stack, 1, Len(stack) - 2), frame)
IsEnd(kinds) == stack # <<>> /\ Current.todo = <<>> /\ Current.el[1] \in kinds
RestoreUser == userObj' = IF Current.saved = <<>> THEN userObj ELSE Current.saved[1]

EndOfGroup ==
  /\ IsEnd({"group"})
  /\ \E g \in {Current.el[2]} :
       /\ cache' = [cache EXCEPT ![<<g, Current.visible>>] = Current.result]
       /\ recursive' = recursive \ {g}
  /\ ReturnTo(With(Caller, Current.result))
  /\ RestoreUser
  /\ UNCHANGED <<problems, expanded, netVars>>

\* The parts of an intersection are collected in field parts, complements in field result.
EndOfPart ==
  /\ IsEnd({"part"})
  /\ \E and \in {Caller} :
       ReturnTo(IF Head(and.todo)[1] = "not" THEN With(and, Current.result)
                ELSE [Skip(and) EXCEPT !.parts = IF @ = None THEN Current.result
                                                 ELSE @ \cap Current.result])
  /\ RestoreUser
  /\ UNCHANGED <<cache, recursive, problems, expanded, netVars>>

EndOfIntersection ==
  /\ IsEnd({"and"})
  /\ ReturnTo(With(Caller, IF Current.parts = None THEN {} ELSE Current.parts \ Current.result))
  /\ problems' = IF Current.parts = None THEN problems \cup {"intersection"} ELSE problems
  /\ UNCHANGED <<userObj, cache, recursive, expanded, netVars>>

ZonesOf(o) ==
  CASE o[1] = "area" -> policy.areas[o[2]]
    [] IsHost(o)     -> {HostNet[1]}
    [] IsIntf(o)     -> {IntfZone(o)}
    [] OTHER         -> {o[1]}

\* getAggregates
AnyOfObjects(objs, ip, size) == {GetAny(z, ip, size) : z \in UNION {ZonesOf(o) : o \in objs}}
AnyOfArea(o) == IF o[1] = "area" THEN AnyOfObjects({o}, 0, AddrBits) ELSE {}

\* getNetworks, with attribute networks given by nets
NetworksOf(o, nets) ==
  CASE o[1] = "area"  -> UNION {IF IsAggregate(a) THEN nets[a] ELSE {a} : a \in AnyOfArea(o)}
    [] IsHost(o)      -> {HostNet}
    [] IsIntf(o)      -> {IntfNet(o)}
    [] IsAggregate(o) -> nets[o]
    [] OTHER          -> {o}

HostsOf(o, nets) ==
  IF IsHost(o) THEN {o}
  ELSE {<<"host", h[1], h[2]>> : h \in {x \in policy.hosts :
          ({HostNet} \cup UpNets(HostNet)) \cap NetworksOf(o, nets) # {}}}

IntfsOf(o) ==
  CASE o[1] = "area"  -> {i \in policy.interfaces : \A z \in Zones : <<i[1], z>> \in Links => z \in policy.areas[o[2]]}
    [] o[1] = "auto"  -> {i \in policy.interfaces : i[1] = o[2]}
    [] IsIntf(o)      -> {i \in policy.interfaces : i[1] = o[1]}
    [] IsAggregate(o) -> {i \in policy.interfaces : IntfZone(i) = o[1]}
    [] OTHER          -> {i \in policy.interfaces : IntfNet(i) = o}

\* Aggregates that an automatic group needs.
Aggregates(el, objs) ==
  CASE el[1] = "any"             -> AnyOfObjects(objs, el[3], el[4])
    [] el[1] \in {"network", "host"} -> UNION {AnyOfArea(o) : o \in objs}
    [] OTHER                     -> {}

\* The objects of an automatic group; crosslink networks are removed from visible results.
ObjectsOf(el, objs, nets, visible) ==
  CASE el[1] = "network" -> UNION {NetworksOf(o, nets) : o \in objs}
                              \ (IF visible THEN policy.crosslink ELSE {})
    [] el[1] = "host"    -> UNION {HostsOf(o, nets) : o \in objs}
    [] el[1] = "any"     -> AnyOfObjects(objs, el[3], el[4])
    [] el[1] = "all"     -> UNION {IntfsOf(o) : o \in objs}

EndOfList ==
  /\ IsEnd({"network", "host", "any", "all"})
  /\ \E A \in {Aggregates(Current.el, Current.result)} :
       /\ LinkAggregates(A \ NetObjects)
       /\ zoneAggs' = [n \in DOMAIN zoneAggs \cup A |->
                        \/ n \in A /\ (Caller.visible \/ ~IsAggregate(n))
                        \/ n \in DOMAIN zoneAggs /\ zoneAggs[n]]
  /\ ReturnTo(With(Caller, ObjectsOf(Current.el, Current.result, subNets', Caller.visible)))
  /\ RestoreUser
  /\ UNCHANGED <<cache, recursive, problems, expanded>>

EndOfExpand ==
  /\ IsEnd({"list"})
  /\ expanded' = Current.result
  /\ stack' = <<>>
  /\ RestoreUser
  /\ UNCHANGED <<cache, recursive, problems, netVars>>

NextGroups ==
  \/ AddObject
  \/ AddUser
  \/ UseGroup
  \/ ExpandGroup
  \/ ExpandList
  \/ ExpandPart
  \/ EndOfGroup
  \/ EndOfPart
  \/ EndOfIntersection
  \/ EndOfList
  \/ EndOfExpand

-----------------------------------------------------------------------------
(***************************************************************************)
(* What a list means, if each name stands for its definition.              *)
(***************************************************************************)
RECURSIVE GroupsIn(_)
GroupsIn(list) ==
  UNION {CASE list[i][1] = "group" -> {list[i][2]}
           [] list[i][1] \in {"obj", "user"} -> {}
           [] list[i][1] = "not" -> GroupsIn(<<list[i][2]>>)
           [] OTHER -> GroupsIn(list[i][2]) : i \in DOMAIN list}

RECURSIVE GroupsFrom(_)
GroupsFrom(G) ==
  LET H == G \cup UNION {GroupsIn(policy.groups[g]) : g \in G} IN IF H = G THEN G ELSE GroupsFrom(H)

\* A group that is used by itself.
IsCyclic(g) == g \in GroupsFrom(GroupsIn(policy.groups[g]))

RECURSIVE Meaning(_, _, _)
Intersection(list, visible, user) ==
  {o \in UNION {Meaning(<<list[i]>>, visible, user) : i \in {n \in DOMAIN list : list[n][1] # "not"}} :
     \A i \in DOMAIN list : IF list[i][1] = "not" THEN o \notin Meaning(<<list[i][2]>>, visible, user)
                             ELSE o \in Meaning(<<list[i]>>, visible, user)}

Meaning(list, visible, user) ==
  UNION {CASE list[i][1] = "obj" -> {list[i][2]}
           [] list[i][1] = "user" -> user
           [] list[i][1] = "group" -> Meaning(policy.groups[list[i][2]], visible, {})
           [] list[i][1] = "and" -> Intersection(list[i][2], visible, user)
           [] OTHER -> ObjectsOf(list[i], Meaning(list[i][2], FALSE, user), subNets, visible)
         : i \in DOMAIN list}
=============================================================================
