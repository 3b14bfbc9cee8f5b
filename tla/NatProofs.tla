------------------------------ MODULE NatProofs ------------------------------
(***************************************************************************)
(* Theorems about the distribution of network address translation: for     *)
(* every topology and every binding of tags, either an error is shown or   *)
(* the NAT sets fit together, combined NAT sets keep the translations that *)
(* all networks agree on, and routers with acl_use_real_ip filter by the   *)
(* address behind the router.                                              *)
(***************************************************************************)
EXTENDS Nat, DataLemmas, FiniteSetTheorems

-----------------------------------------------------------------------------
(***************************************************************************)
(* The lists of NAT maps.                                                  *)
(***************************************************************************)
\* One step of NatMaps.
AddNatMap(tag, list, k) ==
  IF tag \notin DOMAIN NatMap(k) THEN list
  ELSE IF LookupNatType[tag] = "hidden" THEN AddHidden(list, NatMap(k))
  ELSE AddOther(list, NatMap(k))

\* The first of a set of numbers is one of them.
LEMMA FirstIsMember ==
  ASSUME NEW S \in SUBSET Nat, S # {}
  PROVE  First(S) \in S /\ \A x \in S : First(S) <= x
BY LeastNumber DEF First

\* Map m is in the new list, each map of the old one is, and no other map: with all
\* tags at least, or with the same tags.
Comes(list, m, new) ==
  \A i \in DOMAIN new : new[i] = m \/ \E j \in DOMAIN list : new[i] = list[j]
Covers(list, m, new) ==
  /\ \E i \in DOMAIN new : DOMAIN m \subseteq DOMAIN new[i]
  /\ \A j \in DOMAIN list : \E i \in DOMAIN new : DOMAIN list[j] \subseteq DOMAIN new[i]
Keeps(list, m, new) ==
  /\ \E i \in DOMAIN new : DOMAIN m = DOMAIN new[i]
  /\ \A j \in DOMAIN list : \E i \in DOMAIN new : list[j] = new[i]

\* A hidden NAT map is kept in the list or covered by it, and nothing gets lost.
LEMMA AddHiddenKeeps ==
  ASSUME NEW M, NEW list \in Seq(M), NEW m \in M
  PROVE  /\ AddHidden(list, m) \in Seq(M)
         /\ Comes(list, m, AddHidden(list, m)) /\ Covers(list, m, AddHidden(list, m))
<1> DEFINE Comparable == {i \in DOMAIN list : \/ DOMAIN m \subseteq DOMAIN list[i]
                                              \/ DOMAIN list[i] \subseteq DOMAIN m}
           i == First(Comparable)
<1>0. DOMAIN list = 1 .. Len(list) /\ Len(list) \in Nat /\ \A j \in DOMAIN list : list[j] \in M
  OBVIOUS
<1>1. CASE Comparable = {}
  <2>1. AddHidden(list, m) = Append(list, m)
    BY <1>1 DEF AddHidden
  <2>2. /\ Append(list, m) \in Seq(M) /\ DOMAIN Append(list, m) = 1 .. Len(list) + 1
        /\ Append(list, m)[Len(list) + 1] = m
        /\ \A j \in DOMAIN list : Append(list, m)[j] = list[j]
    BY <1>0
  <2> QED  BY <1>0, <2>1, <2>2 DEF Comes, Covers
<1>2. CASE Comparable # {}
  <2>1. i \in Comparable
    <3>1. Comparable \in SUBSET Nat
      BY <1>0
    <3> HIDE DEF Comparable
    <3> QED  BY <1>2, <3>1, FirstIsMember
  <2>2. AddHidden(list, m) = IF DOMAIN m \subseteq DOMAIN list[i] THEN list ELSE [list EXCEPT ![i] = m]
    BY <1>2 DEF AddHidden
  <2>3. i \in DOMAIN list /\ (DOMAIN m \subseteq DOMAIN list[i] \/ DOMAIN list[i] \subseteq DOMAIN m)
    BY <2>1
  <2> HIDE DEF i, Comparable
  <2>4. CASE DOMAIN m \subseteq DOMAIN list[i]
    BY <2>2, <2>3, <2>4 DEF Comes, Covers
  <2>5. CASE ~(DOMAIN m \subseteq DOMAIN list[i])
    <3> DEFINE new == [list EXCEPT ![i] = m]
    <3>1. AddHidden(list, m) = new
      BY <2>2, <2>5
    <3>2. new \in Seq(M) /\ DOMAIN new = DOMAIN list
      BY <2>3
    <3>3. new[i] = m /\ \A j \in DOMAIN list : j # i => new[j] = list[j]
      BY <2>3
    <3> HIDE DEF new
    <3> QED  BY <2>3, <2>5, <3>1, <3>2, <3>3 DEF Comes, Covers
  <2> QED  BY <2>4, <2>5
<1> QED  BY <1>1, <1>2

\* Another NAT map gets into the list unless it has one with the same tags.
LEMMA AddOtherKeeps ==
  ASSUME NEW M, NEW list \in Seq(M), NEW m \in M
  PROVE  /\ AddOther(list, m) \in Seq(M)
         /\ Comes(list, m, AddOther(list, m)) /\ Keeps(list, m, AddOther(list, m))
<1>0. DOMAIN list = 1 .. Len(list) /\ Len(list) \in Nat /\ \A j \in DOMAIN list : list[j] \in M
  OBVIOUS
<1>1. CASE \E i \in DOMAIN list : DOMAIN list[i] = DOMAIN m
  BY <1>1 DEF AddOther, Comes, Keeps
<1>2. CASE ~\E i \in DOMAIN list : DOMAIN list[i] = DOMAIN m
  <2>1. AddOther(list, m) = Append(list, m)
    BY <1>2 DEF AddOther
  <2>2. /\ Append(list, m) \in Seq(M) /\ DOMAIN Append(list, m) = 1 .. Len(list) + 1
        /\ Append(list, m)[Len(list) + 1] = m
        /\ \A j \in DOMAIN list : Append(list, m)[j] = list[j]
    BY <1>0
  <2> QED  BY <1>0, <2>1, <2>2 DEF Comes, Keeps
<1> QED  BY <1>1, <1>2

\* NatMaps satisfies its recursive equation.
IsNatMaps(tag, f) ==
  f = [k \in Nat |->
         IF k = 0 THEN << >>
         ELSE IF tag \notin DOMAIN NatMap(k) THEN f[k - 1]
         ELSE IF LookupNatType[tag] = "hidden" THEN AddHidden(f[k - 1], NatMap(k))
         ELSE AddOther(f[k - 1], NatMap(k))]

LEMMA NatMapsRecursion ==
  ASSUME NEW tag
  PROVE  \E f \in [Nat -> Seq({NatMap(k) : k \in Nat})] :
            /\ f[0] = << >>
            /\ \A k \in Nat \ {0} : f[k] = AddNatMap(tag, f[k - 1], k)
            /\ NatMaps(tag) = f[Len(topo.networks)]
<1> DEFINE M == {NatMap(k) : k \in Nat}
           Q == Seq(M)
           next == [x \in Nat \X Q |-> AddNatMap(tag, x[2], x[1])]
           List == CHOOSE f : IsNatMaps(tag, f)
<1>1. << >> \in Q /\ \A k \in Nat : \A list \in Q : AddNatMap(tag, list, k) \in Q
  <2>1. \A k \in Nat : NatMap(k) \in M
    OBVIOUS
  <2> HIDE DEF M
  <2> QED  BY <2>1, AddHiddenKeeps, AddOtherKeeps DEF AddNatMap
<1> HIDE DEF Q
<1>2. next \in [Nat \X Q -> Q]
  BY <1>1
<1>3. PICK f \in [Nat -> Q] : \A k \in Nat : f[k] = IF k = 0 THEN << >> ELSE next[<<k, f[k - 1]>>]
  <2>1. \E f : Solves(f, Q, << >>, next)
    <3> HIDE DEF next
    <3> QED  BY <1>1, <1>2, RecursiveFunction
  <2> QED  BY <2>1 DEF Solves
<1>4. \A k \in Nat \ {0} : f[k] = AddNatMap(tag, f[k - 1], k)
  <2> TAKE k \in Nat \ {0}
  <2>1. k - 1 \in Nat /\ <<k, f[k - 1]>> \in Nat \X Q
    OBVIOUS
  <2> QED  BY <1>3, <2>1
<1>5. IsNatMaps(tag, f)
  BY <1>3, <1>4 DEF IsNatMaps, AddNatMap
<1>6. IsNatMaps(tag, List)
  BY <1>5
<1>7. NatMaps(tag) = List[Len(topo.networks)]
  BY DEF NatMaps, IsNatMaps
<1> HIDE DEF List
<1>8. List[0] = << >> /\ \A k \in Nat \ {0} : List[k] = AddNatMap(tag, List[k - 1], k)
  BY <1>6 DEF IsNatMaps, AddNatMap
<1>9. \A k \in Nat : List[k] \in Q
  <2> DEFINE Bad == {k \in Nat : List[k] \notin Q}
  <2> SUFFICES ASSUME Bad # {} PROVE FALSE
    OBVIOUS
  <2>1. PICK k \in Bad : \A j \in Bad : k <= j
    <3>1. Bad \in SUBSET Nat
      OBVIOUS
    <3> HIDE DEF Bad
    <3> QED  BY <3>1, LeastNumber
  <2>2. k # 0
    BY <1>1, <1>8, <2>1
  <2>3. k - 1 \in Nat /\ List[k - 1] \in Q
    BY <2>1, <2>2
  <2> QED  BY <1>1, <1>8, <2>1, <2>2, <2>3
<1>10. List = [k \in Nat |-> List[k]]
  BY <1>6 DEF IsNatMaps
<1>11. List \in [Nat -> Q]
  BY <1>9, <1>10
<1> QED  BY <1>7, <1>8, <1>11 DEF Q

\* The list of a tag has, for each network with this tag, a NAT map with all tags of
\* the network, and with the same tags unless the tag is hidden.  It has no other maps.
CoversNetworks(tag, maps) ==
  /\ maps \in Seq({NatMap(k) : k \in Nat})
  /\ maps = NatMaps(tag)
  /\ \A i \in DOMAIN maps : \E j \in NetworksWith(tag) : maps[i] = NatMap(j)
  /\ \A j \in NetworksWith(tag) : \E i \in DOMAIN maps : DOMAIN NatMap(j) \subseteq DOMAIN maps[i]
  /\ LookupNatType[tag] # "hidden" =>
       \A j \in NetworksWith(tag) : \E i \in DOMAIN maps : DOMAIN NatMap(j) = DOMAIN maps[i]

LEMMA NatMapsCover ==
  ASSUME NEW tag, topo \in Topologies
  PROVE  \E maps : CoversNetworks(tag, maps)
<1> DEFINE M == {NatMap(k) : k \in Nat}
           Seen(k) == {j \in 1 .. k : tag \in DOMAIN NatMap(j)}
           N == Len(topo.networks)
<1>1. PICK f \in [Nat -> Seq(M)] : /\ f[0] = << >>
                                   /\ \A k \in Nat \ {0} : f[k] = AddNatMap(tag, f[k - 1], k)
                                   /\ NatMaps(tag) = f[N]
  BY NatMapsRecursion
<1>2. N \in Nat /\ DOMAIN topo.networks = 1 .. N /\ NetworksWith(tag) = Seen(N)
  BY NatAssumption DEF NetworksWith
<1> DEFINE From(k) == \A i \in DOMAIN f[k] : \E j \in Seen(k) : f[k][i] = NatMap(j)
           Covered(k) == \A j \in Seen(k) : \E i \in DOMAIN f[k] :
                            DOMAIN NatMap(j) \subseteq DOMAIN f[k][i]
           Same(k) == LookupNatType[tag] # "hidden" =>
                        \A j \in Seen(k) : \E i \in DOMAIN f[k] : DOMAIN NatMap(j) = DOMAIN f[k][i]
           Bad == {k \in Nat : ~(From(k) /\ Covered(k) /\ Same(k))}
<1>3. From(0) /\ Covered(0) /\ Same(0)
  BY <1>1
<1>4. ASSUME NEW k \in Nat \ {0}, From(k - 1), Covered(k - 1), Same(k - 1)
      PROVE  From(k) /\ Covered(k) /\ Same(k)
  <2>1. f[k] = AddNatMap(tag, f[k - 1], k) /\ k - 1 \in Nat /\ f[k - 1] \in Seq(M) /\ NatMap(k) \in M
    BY <1>1, SMTT(30)
  <2>2. CASE tag \notin DOMAIN NatMap(k)
    <3>1. Seen(k) = Seen(k - 1)
      BY <2>2
    <3>2. f[k] = f[k - 1]
      BY <2>1, <2>2 DEF AddNatMap
    <3> QED  BY <1>4, <3>1, <3>2
  <2>3. CASE tag \in DOMAIN NatMap(k)
    <3>1. Seen(k) = Seen(k - 1) \cup {k}
      BY <2>3
    <3>2. CASE LookupNatType[tag] = "hidden"
      <4>1. f[k] = AddHidden(f[k - 1], NatMap(k))
        BY <2>1, <2>3, <3>2 DEF AddNatMap
      <4> HIDE DEF M, Seen, Bad
      <4>2. Comes(f[k - 1], NatMap(k), f[k]) /\ Covers(f[k - 1], NatMap(k), f[k])
        BY <2>1, <4>1, AddHiddenKeeps
      <4> QED  BY <1>4, <3>1, <3>2, <4>2 DEF Comes, Covers
    <3>3. CASE LookupNatType[tag] # "hidden"
      <4>1. f[k] = AddOther(f[k - 1], NatMap(k))
        BY <2>1, <2>3, <3>3 DEF AddNatMap
      <4> HIDE DEF M, Seen, Bad
      <4>2. Comes(f[k - 1], NatMap(k), f[k]) /\ Keeps(f[k - 1], NatMap(k), f[k])
        BY <2>1, <4>1, AddOtherKeeps
      <4>3. From(k)
        BY <1>4, <3>1, <4>2 DEF Comes
      <4>4. Covered(k)
        BY <1>4, <3>1, <4>2 DEF Keeps
      <4>5. Same(k)
        BY <1>4, <3>1, <3>3, <4>2 DEF Keeps
      <4> QED  BY <4>3, <4>4, <4>5
    <3> QED  BY <3>2, <3>3
  <2> QED  BY <2>2, <2>3
<1>5. Bad = {}
  <2> SUFFICES ASSUME Bad # {} PROVE FALSE
    OBVIOUS
  <2> HIDE DEF From, Covered, Same
  <2>1. PICK k \in Bad : \A j \in Bad : k <= j
    BY LeastNumber
  <2>2. k # 0
    BY <1>3, <2>1
  <2>3. k - 1 \in Nat /\ k - 1 \notin Bad
    BY <2>1, <2>2
  <2> QED  BY <1>4, <2>1, <2>2, <2>3
<1>6. From(N) /\ Covered(N) /\ Same(N)
  BY <1>2, <1>5
<1>7. f[N] \in Seq(M)
  BY <1>2
<1>8. CoversNetworks(tag, f[N])
  BY <1>1, <1>2, <1>6, <1>7 DEF CoversNetworks
<1> QED  BY <1>8

\* The lists only depend on the topology.
LEMMA LookupKept ==
  ASSUME topo' = topo
  PROVE  MultinatDefLookup' = MultinatDefLookup /\ TypesDiffer' = TypesDiffer
BY DEF MultinatDefLookup, TypesDiffer, DefinedTags, NatMaps, LookupNatType, NetworksWith, NatMap,
       AllTags, Tags

\* The tags of a network are grouped in the list of each of them.
GroupsKnown ==
  \A i \in DOMAIN topo.networks : \A tag, tag2 \in DOMAIN NatMap(i) : tag # tag2 =>
     \E m \in ToSet(MultinatMaps(tag)) : DOMAIN NatMap(i) \subseteq DOMAIN m

LEMMA TagsAreKnown ==
  ASSUME topo \in Topologies, NEW i \in DOMAIN topo.networks, NEW tag \in DOMAIN NatMap(i)
  PROVE  tag \in DefinedTags /\ tag \in AllTags /\ i \in NetworksWith(tag)
BY DEF DefinedTags, AllTags, NetworksWith, NatMap, ToSet

LEMMA GroupsAreKnown ==
  ASSUME topo \in Topologies, multi = MultinatDefLookup
  PROVE  GroupsKnown
<1> SUFFICES ASSUME NEW i \in DOMAIN topo.networks, NEW tag \in DOMAIN NatMap(i),
                    NEW tag2 \in DOMAIN NatMap(i), tag # tag2
             PROVE  \E m \in ToSet(MultinatMaps(tag)) : DOMAIN NatMap(i) \subseteq DOMAIN m
  BY DEF GroupsKnown
<1>1. tag \in DefinedTags /\ i \in NetworksWith(tag)
  BY TagsAreKnown
<1>0. PICK maps : CoversNetworks(tag, maps)
  BY NatMapsCover
<1>2. /\ maps \in Seq({NatMap(k) : k \in Nat})
      /\ maps = NatMaps(tag)
      /\ \A k \in DOMAIN maps : \E j \in NetworksWith(tag) : maps[k] = NatMap(j)
      /\ \A j \in NetworksWith(tag) : \E k \in DOMAIN maps : DOMAIN NatMap(j) \subseteq DOMAIN maps[k]
  BY <1>0 DEF CoversNetworks
<1>3. PICK k \in DOMAIN maps : DOMAIN NatMap(i) \subseteq DOMAIN maps[k]
  BY <1>1, <1>2
<1>4. ~(Len(maps) = 1 /\ Cardinality(DOMAIN maps[1]) = 1)
  <2> SUFFICES ASSUME Len(maps) = 1, Cardinality(DOMAIN maps[1]) = 1 PROVE FALSE
    OBVIOUS
  <2>1. k = 1
    BY <1>2, <1>3
  <2>2. PICK j \in NetworksWith(tag) : maps[1] = NatMap(j)
    BY <1>2, <1>3, <2>1
  <2>3. IsFiniteSet(DOMAIN maps[1])
    BY <2>2, NatAssumption DEF NetworksWith, NatMap
  <2>4. PICK x : DOMAIN maps[1] = {x}
    BY <2>3, FS_Singleton
  <2>5. tag \in DOMAIN maps[1] /\ tag2 \in DOMAIN maps[1]
    BY <1>3, <2>1
  <2> QED  BY <2>4, <2>5
<1>5. MultinatMaps(tag) = maps
  BY <1>1, <1>2, <1>4 DEF MultinatDefLookup, MultinatMaps
<1> QED  BY <1>3, <1>5 DEF ToSet

\* Another tag of each network with the tag takes over.
TakesOver(tag, tags) ==
  \E tag2 \in tags : \A i \in NetworksWith(tag) : tag2 \in DOMAIN NatMap(i)

\* A transition without error is one for all networks with the tag.
LEMMA ProperTakesOver ==
  ASSUME topo \in Topologies, multi = MultinatDefLookup, ~TypesDiffer,
         NEW tag, NEW tags, NEW tag2 \in Deactivating(tag, tags),
         ~ImproperTransition(tag, tag2, MapWith(tag, tag2))
  PROVE  TakesOver(tag, tags)
<1> SUFFICES ASSUME NEW j \in NetworksWith(tag), tag2 \notin DOMAIN NatMap(j) PROVE FALSE
  BY DEF TakesOver, Deactivating
<1>1. tag \in DefinedTags /\ j \in DOMAIN topo.networks
  BY TagsAreKnown DEF NetworksWith
<1>0. PICK maps : CoversNetworks(tag, maps)
  BY NatMapsCover
<1>2. /\ maps \in Seq({NatMap(k) : k \in Nat})
      /\ maps = NatMaps(tag)
      /\ \A k \in DOMAIN maps : \E i \in NetworksWith(tag) : maps[k] = NatMap(i)
      /\ LookupNatType[tag] # "hidden" =>
           \A i \in NetworksWith(tag) : \E k \in DOMAIN maps : DOMAIN NatMap(i) = DOMAIN maps[k]
  BY <1>0 DEF CoversNetworks
<1> DEFINE With2 == {k \in DOMAIN maps : tag2 \in DOMAIN maps[k]}
<1>3. With2 # {} /\ tag \in DOMAIN multi /\ MultinatMaps(tag) = maps /\ maps = multi[tag]
  <2>1. PICK m \in ToSet(MultinatMaps(tag)) : tag2 \in DOMAIN m
    BY DEF Deactivating
  <2>2. tag \in DOMAIN multi
    BY <2>1 DEF MultinatMaps, ToSet
  <2>3. MultinatMaps(tag) = maps /\ maps = multi[tag]
    BY <1>2, <2>2 DEF MultinatMaps, MultinatDefLookup
  <2> QED  BY <2>1, <2>2, <2>3 DEF ToSet
<1>4. PICK k \in With2 : MapWith(tag, tag2) = maps[k]
  <2>1. First(With2) \in With2
    <3>1. With2 \in SUBSET Nat
      BY <1>2, SMTT(30)
    <3> HIDE DEF With2
    <3> QED  BY <1>3, <3>1, FirstIsMember
  <2> QED  BY <1>3, <2>1 DEF MapWith
<1>5. PICK i \in NetworksWith(tag) : maps[k] = NatMap(i)
  BY <1>2, <1>4
<1>6. LookupNatType[tag] # "hidden"
  <2>1. maps[k][tag] # "hidden"
    BY <1>4 DEF ImproperTransition
  <2>2. NatMap(i)[tag] = LookupNatType[tag]
    BY <1>1, <1>5 DEF TypesDiffer
  <2> QED  BY <1>5, <2>1, <2>2
<1>7. PICK n \in DOMAIN maps : DOMAIN NatMap(j) = DOMAIN maps[n]
  BY <1>2, <1>6
<1>8. Len(maps) > 1
  <2>1. n # k
    BY <1>4, <1>7
  <2> QED  BY <1>2, <1>4, <1>7, <2>1
<1>9. InvalidTransition(tag, tag2)
  <2>1. maps \in Range(multi)
    BY <1>3 DEF Range
  <2>2. maps[k] \in ToSet(maps) /\ tag2 \in DOMAIN maps[k]
    BY <1>4 DEF ToSet
  <2>3. maps[n] \in ToSet(maps) /\ tag \in DOMAIN maps[n] /\ tag2 \notin DOMAIN maps[n]
    BY <1>7 DEF ToSet, NetworksWith
  <2> QED  BY <1>8, <2>1, <2>2, <2>3 DEF InvalidTransition
<1> QED  BY <1>9 DEF ImproperTransition

-----------------------------------------------------------------------------
(***************************************************************************)
(* The invariant.                                                          *)
(***************************************************************************)
\* Router x[1] leads from domain d to domain x[2]; the tag is not bound at the side of d.
Across(d, tag, x) ==
  /\ x[1] \in Routers
  /\ d \in DOMAIN natTags[x[1]] /\ tag \notin natTags[x[1]][d]
  /\ x[2] \in DOMAIN natTags[x[1]] \ {d}

Frame == [dom : Domains, tag : AllTags, todo : SUBSET (Routers \X Domains)]

StackInv ==
  /\ stack \in Seq(Frame)
  /\ step # "distribute" => stack = << >>
  /\ \A k \in DOMAIN stack :
       /\ stack[k].tag \in natSet[stack[k].dom]
       /\ \A x \in stack[k].todo : Across(stack[k].dom, stack[k].tag, x)

BordersInv ==
  \A r \in Routers : \A d \in DOMAIN natTags[r] :
     d \in Domains /\ natTags[r][d] \subseteq Tags(topo.bind)

TypeInv ==
  /\ topo \in Topologies
  /\ step \in {"domains", "distribute", "real ip", "done"}
  /\ BordersInv
  /\ step # "domains" => natSet \in [Domains -> SUBSET AllTags] /\ multi = MultinatDefLookup
  /\ StackInv

\* What went wrong has been shown.
ErrorsShown == natErrors \/ (step # "domains" /\ TypesDiffer) => errors # {}

\* Each bound tag is active in the domain where it is bound, or will be.
Called ==
  step # "domains" =>
    /\ calls \subseteq DistributeCalls
    /\ errors = {} => \A c \in DistributeCalls : c \in calls \/ c[3] \in natSet[c[1]]

\* The tag is active in the domain where x leads to, or another one takes over.
Passed(tag, x) ==
  /\ tag \notin NextTags(x)
  /\ tag \in natSet[x[2]] \/ TakesOver(tag, NextTags(x))
Pending(tag, x) == \E k \in DOMAIN stack : stack[k].tag = tag /\ x \in stack[k].todo

\* A tag that is active in a domain is passed on to each domain next to it.  That
\* distributeNat1 ignores the router where it came from is justified by its caller.
Handled ==
  step # "domains" /\ errors = {} =>
    \A d \in Domains : \A tag \in natSet[d] : \A x \in Routers \X Domains :
       Across(d, tag, x) => Passed(tag, x) \/ Pending(tag, x)

\* What checkNatDefinitions has found.
Checked ==
  step \in {"real ip", "done"} =>
    /\ stack = << >> /\ calls = {}
    /\ errors = {} => ~GroupedActive /\ ~InsideTranslation

NatInv == TypeInv /\ ErrorsShown /\ Called /\ Handled /\ Checked

-----------------------------------------------------------------------------
LEMMA BoundTags ==
  ASSUME topo \in Topologies
  PROVE  Tags(topo.bind) \subseteq Nat /\ Tags(topo.bind) \subseteq AllTags
BY NatAssumption DEF Tags, AllTags

LEMMA TopologyKept ==
  ASSUME topo' = topo
  PROVE  /\ Routers' = Routers /\ AllTags' = AllTags /\ Tags(topo.bind)' = Tags(topo.bind)
         /\ TypesDiffer' = TypesDiffer /\ MultinatDefLookup' = MultinatDefLookup
BY LookupKept DEF Routers, AllTags, Tags

LEMMA InitNatInv == Init => NatInv
<1> SUFFICES ASSUME Init PROVE NatInv
  OBVIOUS
<1>1. /\ topo \in Topologies /\ step = "domains" /\ stack = << >> /\ natErrors = FALSE
      /\ natTags = [r \in Routers |-> << >>]
  BY DEF Init, Routers
<1>2. BordersInv
  BY <1>1 DEF BordersInv
<1>3. StackInv
  BY <1>1 DEF StackInv
<1> QED  BY <1>1, <1>2, <1>3 DEF NatInv, TypeInv, ErrorsShown, Called, Handled, Checked

LEMMA FindNatDomainKeeps == NatInv /\ FindNatDomain => NatInv'
<1> SUFFICES ASSUME NatInv, FindNatDomain PROVE NatInv'
  OBVIOUS
<1>1. /\ topo' = topo /\ step = "domains" /\ step' = step /\ stack' = stack /\ natErrors' = natErrors
      /\ errors \subseteq errors'
  BY DEF FindNatDomain, SetNatDomain
<1>2. PICK d, Z, borders : SetNatDomain(d, Z, borders)
  BY DEF FindNatDomain
<1>3. PICK tags : /\ \A r \in borders : tags[r] \in BorderTags(r, Z)
                  /\ natTags' = [r \in Routers |-> IF r \in borders THEN With(natTags[r], d, tags[r])
                                                   ELSE natTags[r]]
  BY <1>2 DEF SetNatDomain
<1>4. Domains' = Domains \union {d}
  BY <1>2 DEF Domains, With, SetNatDomain
<1>5. BordersInv'
  <2> SUFFICES ASSUME NEW r \in Routers, NEW e \in DOMAIN natTags'[r]
               PROVE  e \in Domains' /\ natTags'[r][e] \subseteq Tags(topo.bind)
    BY <1>1, TopologyKept DEF BordersInv
  <2>1. \A f \in DOMAIN natTags[r] : f \in Domains /\ natTags[r][f] \subseteq Tags(topo.bind)
    BY DEF NatInv, TypeInv, BordersInv
  <2>2. CASE r \notin borders
    BY <1>3, <1>4, <2>1, <2>2
  <2>3. CASE r \in borders
    <3>1. natTags'[r] = With(natTags[r], d, tags[r])
      BY <1>3, <2>3
    <3>2. tags[r] \subseteq Tags(topo.bind)
      <4>1. tags[r] \in BorderTags(r, Z)
        BY <1>3, <2>3
      <4>2. PICK intf \in topo.links : tags[r] = topo.bind[intf]
        BY <4>1 DEF BorderTags, Interfaces
      <4>3. DOMAIN topo.bind = topo.links
        BY NatAssumption DEF NatInv, TypeInv
      <4> QED  BY <4>2, <4>3 DEF Tags
    <3> QED  BY <1>4, <2>1, <3>1, <3>2 DEF With
  <2> QED  BY <2>2, <2>3
<1>6. StackInv'
  BY <1>1 DEF NatInv, TypeInv, StackInv
<1> QED  BY <1>1, <1>5, <1>6 DEF NatInv, TypeInv, ErrorsShown, Called, Handled, Checked

LEMMA LookupNatKeeps == NatInv /\ LookupNat => NatInv'
<1> SUFFICES ASSUME NatInv, LookupNat PROVE NatInv'
  OBVIOUS
<1>1. /\ topo' = topo /\ step = "domains" /\ step' = "distribute" /\ stack' = stack
      /\ domains' = domains /\ natTags' = natTags /\ natErrors' = natErrors
      /\ multi' = MultinatDefLookup /\ natSet' = [d \in Domains |-> {}] /\ calls' = DistributeCalls
      /\ errors' = errors \union (IF TypesDiffer THEN {"equal type"} ELSE {})
  BY DEF LookupNat
<1>2. Domains' = Domains /\ DistributeCalls' = DistributeCalls
  BY <1>1, TopologyKept DEF Domains, DistributeCalls
<1>3. stack' = << >>
  BY <1>1 DEF NatInv, TypeInv, StackInv
<1>4. BordersInv'
  BY <1>1, <1>2, TopologyKept DEF NatInv, TypeInv, BordersInv
<1>5. StackInv'
  <2>1. << >> \in Seq(Frame')
    OBVIOUS
  <2>2. DOMAIN stack' = {}
    BY <1>3
  <2>3. step' = "distribute"
    BY <1>1
  <2> QED  BY <1>3, <2>1, <2>2, <2>3 DEF StackInv
<1>6. natSet' \in [Domains' -> SUBSET AllTags']
  BY <1>1, <1>2
<1>7. TypeInv'
  BY <1>1, <1>4, <1>5, <1>6, TopologyKept DEF NatInv, TypeInv
<1>8. ErrorsShown'
  BY <1>1, TopologyKept DEF NatInv, ErrorsShown
<1>9. Called'
  BY <1>1, <1>2 DEF Called
<1>10. Handled'
  BY <1>1, <1>2 DEF Handled
<1> QED  BY <1>1, <1>7, <1>8, <1>9, <1>10 DEF NatInv, Checked

\* What the steps of distributeNat and distributeNat1 leave alone.
Distributing ==
  /\ UNCHANGED <<topo, step, domains, natTags, multi>>
  /\ step = "distribute"
  /\ errors \subseteq errors'

LEMMA DistributingKeeps ==
  ASSUME NatInv, Distributing
  PROVE  /\ Routers' = Routers /\ AllTags' = AllTags /\ Domains' = Domains /\ Frame' = Frame
         /\ DistributeCalls' = DistributeCalls
         /\ BordersInv' /\ multi' = MultinatDefLookup'
         /\ Checked'
         /\ natErrors' = natErrors => ErrorsShown'
         /\ \A d, tag, x : Across(d, tag, x)' = Across(d, tag, x)
         /\ \A tag, x : TakesOver(tag, NextTags(x))' = TakesOver(tag, NextTags(x))
<1>1. topo' = topo /\ step' = step /\ domains' = domains /\ natTags' = natTags /\ multi' = multi
  BY DEF Distributing
<1>2. Routers' = Routers /\ AllTags' = AllTags /\ Domains' = Domains
  BY <1>1, TopologyKept DEF Domains
<1>3. DistributeCalls' = DistributeCalls /\ Frame' = Frame
  BY <1>1, <1>2 DEF DistributeCalls, Frame
<1>4. BordersInv' /\ multi' = MultinatDefLookup'
  BY <1>1, <1>2, TopologyKept DEF NatInv, TypeInv, BordersInv, Distributing
<1>5. Checked' /\ (natErrors' = natErrors => ErrorsShown')
  BY <1>1, TopologyKept DEF NatInv, ErrorsShown, Checked, Distributing
<1>6. \A d, tag, x : Across(d, tag, x)' = Across(d, tag, x)
  BY <1>1, <1>2 DEF Across
<1>7. \A tag, x : TakesOver(tag, NextTags(x))' = TakesOver(tag, NextTags(x))
  BY <1>1 DEF TakesOver, NextTags, NetworksWith, NatMap
<1> QED  BY <1>2, <1>3, <1>4, <1>5, <1>6, <1>7

LEMMA StackShape ==
  ASSUME NatInv, stack # << >>
  PROVE  /\ stack \in Seq(Frame) /\ Len(stack) \in Nat \ {0} /\ DOMAIN stack = 1 .. Len(stack)
         /\ \A k \in DOMAIN stack :
              /\ stack[k].tag \in natSet[stack[k].dom]
              /\ \A x \in stack[k].todo : Across(stack[k].dom, stack[k].tag, x)
<1>1. stack \in Seq(Frame)
  BY DEF NatInv, TypeInv, StackInv
<1>2. Len(stack) \in Nat \ {0} /\ DOMAIN stack = 1 .. Len(stack)
  BY <1>1
<1> QED  BY <1>1, <1>2 DEF NatInv, TypeInv, StackInv

LEMMA ReturnKeeps == NatInv /\ Return => NatInv'
<1> SUFFICES ASSUME NatInv, Return PROVE NatInv'
  OBVIOUS
<1>1. /\ Distributing /\ natErrors' = natErrors /\ errors' = errors /\ calls' = calls /\ natSet' = natSet
      /\ stack # << >> /\ Current.todo = {} /\ stack' = Front(stack)
  BY DEF Return, Distributing, NatInv, TypeInv, StackInv
<1>2. /\ Frame' = Frame /\ Domains' = Domains /\ AllTags' = AllTags /\ Routers' = Routers
      /\ DistributeCalls' = DistributeCalls /\ BordersInv' /\ multi' = MultinatDefLookup'
      /\ Checked' /\ ErrorsShown'
      /\ \A d, tag, x : Across(d, tag, x)' = Across(d, tag, x)
      /\ \A tag, x : TakesOver(tag, NextTags(x))' = TakesOver(tag, NextTags(x))
  BY <1>1, DistributingKeeps
<1>3. /\ stack \in Seq(Frame) /\ Len(stack) \in Nat \ {0} /\ DOMAIN stack = 1 .. Len(stack)
      /\ \A k \in DOMAIN stack :
           /\ stack[k].tag \in natSet[stack[k].dom]
           /\ \A x \in stack[k].todo : Across(stack[k].dom, stack[k].tag, x)
  BY <1>1, StackShape
<1>4. /\ stack' \in Seq(Frame) /\ DOMAIN stack' = 1 .. Len(stack) - 1
      /\ \A k \in DOMAIN stack' : stack'[k] = stack[k]
  <2> HIDE DEF Frame
  <2> QED  BY <1>1, <1>3 DEF Front
<1>5. StackInv'
  BY <1>1, <1>2, <1>3, <1>4 DEF StackInv, Distributing
<1>6. TypeInv'
  BY <1>1, <1>2, <1>5 DEF NatInv, TypeInv, Distributing
<1>7. Called'
  BY <1>1, <1>2 DEF NatInv, Called, Distributing
<1>8. Handled'
  <2> SUFFICES ASSUME errors = {}, NEW d \in Domains, NEW tag \in natSet[d], NEW x \in Routers \X Domains,
                      Across(d, tag, x)
               PROVE  Passed(tag, x)' \/ Pending(tag, x)'
    BY <1>1, <1>2 DEF Handled
  <2>1. Passed(tag, x) \/ Pending(tag, x)
    BY <1>1 DEF NatInv, Handled, Distributing
  <2>2. CASE Passed(tag, x)
    <3>1. NextTags(x)' = NextTags(x)
      BY <1>1 DEF NextTags, Distributing
    <3> QED  BY <1>1, <1>2, <2>2, <3>1 DEF Passed
  <2>3. CASE Pending(tag, x)
    <3>1. PICK k \in DOMAIN stack : stack[k].tag = tag /\ x \in stack[k].todo
      BY <2>3 DEF Pending
    <3>2. k # Len(stack)
      BY <1>1, <3>1 DEF Current, Last
    <3>3. k \in DOMAIN stack' /\ stack'[k] = stack[k]
      BY <1>3, <1>4, <3>1, <3>2
    <3> QED  BY <3>1, <3>3 DEF Pending
  <2> QED  BY <2>1, <2>2, <2>3
<1> QED  BY <1>2, <1>6, <1>7, <1>8 DEF NatInv

LEMMA ReachTwiceKeeps == NatInv /\ ReachTwice => NatInv'
<1> SUFFICES ASSUME NatInv, ReachTwice PROVE NatInv'
  OBVIOUS
<1>1. /\ Distributing /\ errors' # {} /\ calls' = {} /\ natSet' = natSet /\ stack' = << >>
  BY DEF ReachTwice, Distributing, NatInv, TypeInv, StackInv
<1>2. /\ Frame' = Frame /\ Domains' = Domains /\ AllTags' = AllTags /\ BordersInv'
      /\ multi' = MultinatDefLookup' /\ Checked'
  BY <1>1, DistributingKeeps
<1>3. StackInv'
  <2>1. << >> \in Seq(Frame')
    OBVIOUS
  <2>2. DOMAIN stack' = {}
    BY <1>1
  <2> QED  BY <1>1, <2>1, <2>2 DEF StackInv
<1>4. TypeInv'
  BY <1>1, <1>2, <1>3 DEF NatInv, TypeInv, Distributing
<1> QED  BY <1>1, <1>2, <1>4 DEF NatInv, ErrorsShown, Called, Handled

\* The next element of the current call is done.
LEMMA RestShape ==
  ASSUME NatInv, stack # << >>, NEW next \in Current.todo
  PROVE  /\ Across(Current.dom, Current.tag, next) /\ Current.tag \in natSet[Current.dom]
         /\ Current \in Frame
         /\ Rest(next) \in Seq(Frame) /\ DOMAIN Rest(next) = DOMAIN stack
         /\ Len(Rest(next)) = Len(stack)
         /\ \A k \in DOMAIN stack :
              /\ Rest(next)[k].tag = stack[k].tag /\ Rest(next)[k].dom = stack[k].dom
              /\ Rest(next)[k].todo \subseteq stack[k].todo
              /\ stack[k].todo \subseteq Rest(next)[k].todo \union {next}
              /\ (k # Len(stack) \/ next \notin stack[k].todo) => Rest(next)[k].todo = stack[k].todo
<1>1. /\ stack \in Seq(Frame) /\ Len(stack) \in Nat \ {0} /\ DOMAIN stack = 1 .. Len(stack)
      /\ \A k \in DOMAIN stack :
           /\ stack[k].tag \in natSet[stack[k].dom]
           /\ \A x \in stack[k].todo : Across(stack[k].dom, stack[k].tag, x)
  BY StackShape
<1>2. Current = stack[Len(stack)] /\ Len(stack) \in DOMAIN stack
  BY <1>1 DEF Current, Last
<1>3. \A k \in DOMAIN stack : stack[k] \in Frame
  BY <1>1
<1> DEFINE top == [stack[Len(stack)] EXCEPT !.todo = @ \ {next}]
<1>4. Rest(next) = [stack EXCEPT ![Len(stack)] = top]
  BY DEF Rest
<1>5. top \in Frame /\ top.tag = Current.tag /\ top.dom = Current.dom /\ top.todo = Current.todo \ {next}
  BY <1>2, <1>3 DEF Frame
<1> HIDE DEF top
<1>6. Rest(next) \in Seq(Frame) /\ DOMAIN Rest(next) = DOMAIN stack /\ Len(Rest(next)) = Len(stack)
  <2> HIDE DEF Frame
  <2> QED  BY <1>1, <1>2, <1>4, <1>5
<1>7. /\ Rest(next)[Len(stack)] = top
      /\ \A k \in DOMAIN stack : k # Len(stack) => Rest(next)[k] = stack[k]
  BY <1>1, <1>2, <1>4
<1> QED  BY <1>1, <1>2, <1>3, <1>5, <1>6, <1>7

LEMMA DeactivateKeeps == NatInv /\ Deactivate => NatInv'
<1> SUFFICES ASSUME NatInv, Deactivate PROVE NatInv'
  OBVIOUS
<1>1. PICK next \in Least(Current.todo) :
        /\ Current.tag \notin NextTags(next)
        /\ Deactivating(Current.tag, NextTags(next)) # {}
        /\ errors' = {} => LET tag2 == First(Deactivating(Current.tag, NextTags(next)))
                           IN ~ImproperTransition(Current.tag, tag2, MapWith(Current.tag, tag2))
        /\ stack' = Rest(next)
  BY DEF Deactivate
<1>2. /\ Distributing /\ natErrors' = natErrors /\ calls' = calls /\ natSet' = natSet
      /\ stack # << >> /\ next \in Current.todo
  BY <1>1 DEF Deactivate, Distributing, NatInv, TypeInv, StackInv, Least
<1>3. /\ Frame' = Frame /\ Domains' = Domains /\ AllTags' = AllTags /\ Routers' = Routers
      /\ DistributeCalls' = DistributeCalls /\ BordersInv' /\ multi' = MultinatDefLookup'
      /\ Checked' /\ ErrorsShown'
      /\ \A d, tag, x : Across(d, tag, x)' = Across(d, tag, x)
      /\ \A tag, x : TakesOver(tag, NextTags(x))' = TakesOver(tag, NextTags(x))
  BY <1>2, DistributingKeeps
<1>4. StackInv'
  BY <1>1, <1>2, <1>3, RestShape, StackShape DEF StackInv, Distributing
<1>5. TypeInv'
  BY <1>2, <1>3, <1>4 DEF NatInv, TypeInv, Distributing
<1>6. Called'
  BY <1>2, <1>3 DEF NatInv, Called, Distributing
<1>7. errors' = {} => TakesOver(Current.tag, NextTags(next))
  <2> SUFFICES ASSUME errors' = {} PROVE TakesOver(Current.tag, NextTags(next))
    OBVIOUS
  <2> DEFINE others == Deactivating(Current.tag, NextTags(next))
  <2>1. NextTags(next) \subseteq Tags(topo.bind)
    BY <1>2, RestShape DEF Across, NextTags, NatInv, TypeInv, BordersInv
  <2>2. others \in SUBSET Nat
    BY <2>1, BoundTags DEF Deactivating, NatInv, TypeInv
  <2>3. First(others) \in others
    BY <1>1, <2>2, FirstIsMember
  <2>4. multi = MultinatDefLookup /\ ~TypesDiffer /\ topo \in Topologies
    BY <1>2 DEF NatInv, TypeInv, ErrorsShown, Distributing
  <2> QED  BY <1>1, <2>3, <2>4, ProperTakesOver
<1>8. Handled'
  <2> SUFFICES ASSUME errors' = {}, NEW d \in Domains, NEW tag \in natSet[d], NEW x \in Routers \X Domains,
                      Across(d, tag, x)
               PROVE  Passed(tag, x)' \/ Pending(tag, x)'
    BY <1>2, <1>3 DEF Handled
  <2>1. Passed(tag, x) \/ Pending(tag, x)
    BY <1>2 DEF NatInv, Handled, Distributing
  <2>2. NextTags(x)' = NextTags(x)
    BY <1>2 DEF NextTags, Distributing
  <2>3. CASE Passed(tag, x)
    BY <1>2, <1>3, <2>2, <2>3 DEF Passed
  <2>4. CASE Pending(tag, x)
    <3>1. PICK k \in DOMAIN stack : stack[k].tag = tag /\ x \in stack[k].todo
      BY <2>4 DEF Pending
    <3>2. CASE x \in stack'[k].todo
      BY <1>1, <1>2, <3>1, <3>2, RestShape DEF Pending
    <3>3. CASE x \notin stack'[k].todo
      <4>1. x = next /\ k = Len(stack)
        BY <1>1, <1>2, <3>1, <3>3, RestShape
      <4>2. tag = Current.tag
        BY <3>1, <4>1 DEF Current, Last
      <4> QED  BY <1>1, <1>3, <1>7, <2>2, <4>1, <4>2 DEF Passed
    <3> QED  BY <3>2, <3>3
  <2> QED  BY <2>1, <2>3, <2>4
<1> QED  BY <1>3, <1>5, <1>6, <1>8 DEF NatInv

\* What a call of distributeNat1 for domain d relies on, if calls "below" are active.
PendingIn(below, tag, x) == \E k \in DOMAIN below : below[k].tag = tag /\ x \in below[k].todo

BelowInv(below) ==
  /\ below \in Seq(Frame)
  /\ \A k \in DOMAIN below :
       /\ below[k].tag \in natSet[below[k].dom]
       /\ \A x \in below[k].todo : Across(below[k].dom, below[k].tag, x)

\* Only the domain d that is entered is not yet passed or pending.
OthersHandled(d, tag, below) ==
  \A e \in Domains : \A t \in natSet[e] : \A x \in Routers \X Domains : Across(e, t, x) =>
    \/ Passed(t, x) \/ PendingIn(below, t, x)
    \/ t = tag /\ x[2] = d /\ tag \notin NextTags(x)

\* The router where the call comes from needs no visit.
NoWayBack(in, d, tag, below) ==
  \A x \in Routers \X Domains : x[1] = in /\ Across(d, tag, x) => Passed(tag, x) \/ PendingIn(below, tag, x)

LEMMA EnterKeeps ==
  ASSUME NatInv, Distributing, natErrors' = natErrors, errors' = errors,
         NEW in, NEW d \in Domains, NEW tag \in AllTags, NEW below, BelowInv(below),
         Enter(in, d, tag, below),
         errors = {} => OthersHandled(d, tag, below) /\ NoWayBack(in, d, tag, below)
  PROVE  TypeInv' /\ ErrorsShown' /\ Handled' /\ Checked' /\ tag \in natSet'[d]
         /\ \A e \in Domains : natSet[e] \subseteq natSet'[e]
<1>1. /\ Frame' = Frame /\ Domains' = Domains /\ AllTags' = AllTags /\ Routers' = Routers
      /\ BordersInv' /\ multi' = MultinatDefLookup' /\ Checked' /\ ErrorsShown'
      /\ \A e, t, x : Across(e, t, x)' = Across(e, t, x)
      /\ \A t, x : TakesOver(t, NextTags(x))' = TakesOver(t, NextTags(x))
  BY DistributingKeeps
<1>2. natSet \in [Domains -> SUBSET AllTags] /\ step' = "distribute" /\ topo' \in Topologies
  BY DEF NatInv, TypeInv, Distributing
<1>3. \A x : NextTags(x)' = NextTags(x)
  BY DEF NextTags, Distributing
<1>4. /\ natSet' \in [Domains -> SUBSET AllTags] /\ tag \in natSet'[d]
      /\ \A e \in Domains : natSet[e] \subseteq natSet'[e]
      /\ \A e \in Domains : \A t \in natSet'[e] : t \in natSet[e] \/ (e = d /\ t = tag /\ tag \notin natSet[d])
  BY <1>2 DEF Enter
<1>5. below \in Seq(Frame) /\ DOMAIN below = 1 .. Len(below) /\ Len(below) \in Nat
  BY DEF BelowInv
<1>6. \A k \in DOMAIN below : below[k].dom \in Domains
  <2>1. \A k \in DOMAIN below : below[k] \in Frame
    BY <1>5
  <2> QED  BY <2>1 DEF Frame
<1> DEFINE frame == [dom |-> d, tag |-> tag, todo |-> Adjacent(in, d, tag)]
<1>7. \/ tag \in natSet[d] /\ stack' = below
      \/ tag \notin natSet[d] /\ stack' = Append(below, frame)
  BY DEF Enter
<1>8. frame \in Frame /\ \A x \in frame.todo : Across(d, tag, x)
  BY DEF Frame, Adjacent, Across
<1>9. /\ stack' \in Seq(Frame)
      /\ \A k \in DOMAIN below : k \in DOMAIN stack' /\ stack'[k] = below[k]
      /\ \A k \in DOMAIN stack' : k \in DOMAIN below \/ stack'[k] = frame
      /\ tag \notin natSet[d] => Len(below) + 1 \in DOMAIN stack' /\ stack'[Len(below) + 1] = frame
  <2> HIDE DEF frame, Frame
  <2>1. CASE tag \in natSet[d]
    BY <1>5, <1>7, <2>1
  <2>2. CASE tag \notin natSet[d]
    <3>1. stack' = Append(below, frame)
      BY <1>7, <2>2
    <3>2. /\ Append(below, frame) \in Seq(Frame) /\ DOMAIN Append(below, frame) = 1 .. Len(below) + 1
          /\ Append(below, frame)[Len(below) + 1] = frame
          /\ \A k \in DOMAIN below : Append(below, frame)[k] = below[k]
      BY <1>5, <1>8
    <3> QED  BY <1>5, <3>1, <3>2
  <2> QED  BY <2>1, <2>2
<1>10. StackInv'
  <2> SUFFICES ASSUME NEW k \in DOMAIN stack'
               PROVE  /\ stack'[k].tag \in natSet'[stack'[k].dom]
                      /\ \A x \in stack'[k].todo : Across(stack'[k].dom, stack'[k].tag, x)
    BY <1>1, <1>2, <1>9 DEF StackInv
  <2>1. CASE k \in DOMAIN below
    BY <1>4, <1>6, <1>9, <2>1 DEF BelowInv
  <2>2. CASE stack'[k] = frame
    BY <1>4, <1>8, <2>2
  <2> QED  BY <1>9, <2>1, <2>2
<1>11. TypeInv'
  BY <1>1, <1>2, <1>4, <1>10 DEF TypeInv
<1>12. \A t, x : PendingIn(below, t, x) => Pending(t, x)'
  BY <1>9 DEF PendingIn, Pending
<1>13. \A t : \A x \in Routers \X Domains : Passed(t, x) => Passed(t, x)'
  BY <1>1, <1>3, <1>4 DEF Passed
<1>14. Handled'
  <2> SUFFICES ASSUME errors = {}, NEW e \in Domains, NEW t \in natSet'[e], NEW x \in Routers \X Domains,
                      Across(e, t, x)
               PROVE  Passed(t, x)' \/ Pending(t, x)'
    BY <1>1 DEF Handled
  <2>1. CASE t \in natSet[e]
    <3>1. CASE t = tag /\ x[2] = d /\ tag \notin NextTags(x)
      BY <1>3, <1>4, <3>1 DEF Passed
    <3>2. CASE Passed(t, x) \/ PendingIn(below, t, x)
      BY <1>12, <1>13, <3>2
    <3> QED  BY <2>1, <3>1, <3>2 DEF OthersHandled
  <2>2. CASE e = d /\ t = tag /\ tag \notin natSet[d]
    <3>1. CASE x[1] = in
      BY <1>12, <1>13, <2>2, <3>1 DEF NoWayBack
    <3>2. CASE x[1] # in
      <4>1. x \in Adjacent(in, d, tag)
        BY <2>2, <3>2 DEF Across, Adjacent
      <4> QED  BY <1>9, <2>2, <4>1 DEF Pending
    <3> QED  BY <3>1, <3>2
  <2> QED  BY <1>4, <2>1, <2>2
<1> QED  BY <1>1, <1>4, <1>11, <1>14

LEMMA ProceedKeeps == NatInv /\ Proceed => NatInv'
<1> SUFFICES ASSUME NatInv, Proceed PROVE NatInv'
  OBVIOUS
<1>1. PICK next \in Least(Current.todo) :
        Current.tag \notin NextTags(next) /\ Enter(next[1], next[2], Current.tag, Rest(next))
  BY DEF Proceed
<1>2. /\ Distributing /\ natErrors' = natErrors /\ errors' = errors /\ calls' = calls
      /\ stack # << >> /\ next \in Current.todo
  BY <1>1 DEF Proceed, Distributing, NatInv, TypeInv, StackInv, Least
<1> DEFINE d == Current.dom
           tag == Current.tag
           below == Rest(next)
<1>3. /\ Across(d, tag, next) /\ tag \in natSet[d] /\ tag \in AllTags /\ d \in Domains
      /\ next \in Routers \X Domains
  BY <1>2, RestShape DEF Frame
<1>4. BelowInv(below)
  BY <1>2, RestShape, StackShape DEF BelowInv
<1>5. \A t, x : Pending(t, x) => PendingIn(below, t, x) \/ (x = next /\ t = tag)
  <2> SUFFICES ASSUME NEW t, NEW x, NEW k \in DOMAIN stack, stack[k].tag = t, x \in stack[k].todo,
                      ~PendingIn(below, t, x)
               PROVE  x = next /\ t = tag
    BY DEF Pending
  <2>1. x = next /\ k = Len(stack)
    BY <1>2, RestShape DEF PendingIn
  <2> QED  BY <2>1 DEF Current, Last
<1>6. ASSUME errors = {}
      PROVE  OthersHandled(next[2], tag, below) /\ NoWayBack(next[1], next[2], tag, below)
  <2>1. \A e \in Domains : \A t \in natSet[e] : \A x \in Routers \X Domains :
          Across(e, t, x) => Passed(t, x) \/ Pending(t, x)
    BY <1>2, <1>6 DEF NatInv, Handled, Distributing
  <2>2. OthersHandled(next[2], tag, below)
    BY <1>1, <1>5, <2>1 DEF OthersHandled
  <2>3. ASSUME NEW x \in Routers \X Domains, x[1] = next[1], Across(next[2], tag, x)
        PROVE  Passed(tag, x) \/ PendingIn(below, tag, x)
    <3>1. x # next
      BY <2>3 DEF Across
    <3>2. CASE x[2] = d
      BY <1>3, <2>3, <3>2 DEF Passed, Across, NextTags
    <3>3. CASE x[2] # d
      <4>1. Across(d, tag, x)
        BY <1>3, <2>3, <3>3 DEF Across
      <4> QED  BY <1>3, <1>5, <2>1, <3>1, <4>1
    <3> QED  BY <3>2, <3>3
  <2> QED  BY <2>2, <2>3 DEF NoWayBack
<1>7. TypeInv' /\ ErrorsShown' /\ Handled' /\ Checked' /\ \A e \in Domains : natSet[e] \subseteq natSet'[e]
  <2>1. next[2] \in Domains
    BY <1>3
  <2> HIDE DEF below, tag, d
  <2>2. Enter(next[1], next[2], tag, below)
    BY <1>1 DEF below, tag
  <2> QED  BY <1>2, <1>3, <1>4, <1>6, <2>1, <2>2, EnterKeeps
<1>8. Called'
  <2>1. DistributeCalls' = DistributeCalls
    BY <1>2, DistributingKeeps
  <2>2. \A c \in DistributeCalls : c[1] \in Domains
    BY DEF DistributeCalls
  <2> QED  BY <1>2, <1>7, <2>1, <2>2 DEF NatInv, Called, Distributing
<1> QED  BY <1>7, <1>8 DEF NatInv

LEMMA DistributeNatKeeps == NatInv /\ DistributeNat => NatInv'
<1> SUFFICES ASSUME NatInv, DistributeNat PROVE NatInv'
  OBVIOUS
<1>1. PICK c \in Least(calls) : calls' = calls \ {c} /\ Enter(c[2], c[1], c[3], << >>)
  BY DEF DistributeNat
<1>2. /\ Distributing /\ natErrors' = natErrors /\ errors' = errors /\ stack = << >> /\ c \in calls
  BY <1>1 DEF DistributeNat, Distributing, Least
<1>3. c \in DistributeCalls
  BY <1>2 DEF NatInv, Called, Distributing
<1>4. c[1] \in Domains /\ c[3] \in AllTags /\ c[3] \in natTags[c[2]][c[1]]
  BY <1>3 DEF DistributeCalls
<1>5. BelowInv(<< >>)
  <2>1. << >> \in Seq(Frame)
    OBVIOUS
  <2> QED  BY <2>1 DEF BelowInv
<1>6. \A t, x : ~Pending(t, x)
  BY <1>2 DEF Pending
<1>7. errors = {} => OthersHandled(c[1], c[3], << >>) /\ NoWayBack(c[2], c[1], c[3], << >>)
  <2>1. errors = {} => OthersHandled(c[1], c[3], << >>)
    BY <1>2, <1>6 DEF NatInv, Handled, OthersHandled, Distributing
  <2>2. NoWayBack(c[2], c[1], c[3], << >>)
    BY <1>4 DEF NoWayBack, Across
  <2> QED  BY <2>1, <2>2
<1>8. /\ TypeInv' /\ ErrorsShown' /\ Handled' /\ Checked' /\ c[3] \in natSet'[c[1]]
      /\ \A e \in Domains : natSet[e] \subseteq natSet'[e]
  BY <1>1, <1>2, <1>4, <1>5, <1>7, EnterKeeps
<1>9. Called'
  <2>1. DistributeCalls' = DistributeCalls
    BY <1>2, DistributingKeeps
  <2>2. \A b \in DistributeCalls : b[1] \in Domains
    BY DEF DistributeCalls
  <2> QED  BY <1>1, <1>2, <1>8, <2>1, <2>2 DEF NatInv, Called, Distributing
<1> QED  BY <1>8, <1>9 DEF NatInv

LEMMA CheckNatKeeps == NatInv /\ CheckNat => NatInv'
<1> SUFFICES ASSUME NatInv, CheckNat PROVE NatInv'
  OBVIOUS
<1>1. /\ UNCHANGED <<topo, domains, natTags, multi, natSet, calls, stack, natErrors>>
      /\ step = "distribute" /\ step' = "real ip" /\ stack = << >> /\ calls = {}
      /\ errors \subseteq errors'
  BY DEF CheckNat
<1>2. errors' = {} => ~GroupedActive /\ ~InsideTranslation
  BY DEF CheckNat, NatInv, ErrorsShown
<1>3. GroupedActive' = GroupedActive /\ InsideTranslation' = InsideTranslation
  BY <1>1 DEF GroupedActive, InsideTranslation, MultinatMaps, Domains, Home, DomainOfZone
<1>4. /\ Routers' = Routers /\ AllTags' = AllTags /\ Domains' = Domains
      /\ DistributeCalls' = DistributeCalls /\ TypesDiffer' = TypesDiffer
      /\ MultinatDefLookup' = MultinatDefLookup
  BY <1>1, TopologyKept DEF Domains, DistributeCalls
<1>5. StackInv'
  <2>1. << >> \in Seq(Frame')
    OBVIOUS
  <2>2. stack' = << >>
    BY <1>1
  <2>3. DOMAIN stack' = {}
    BY <2>2
  <2> QED  BY <1>1, <2>1, <2>2, <2>3 DEF StackInv
<1>6. BordersInv'
  BY <1>1, <1>4, TopologyKept DEF NatInv, TypeInv, BordersInv
<1>7. TypeInv'
  BY <1>1, <1>4, <1>5, <1>6 DEF NatInv, TypeInv
<1>8. ErrorsShown' /\ Called' /\ Checked'
  BY <1>1, <1>2, <1>3, <1>4 DEF NatInv, ErrorsShown, Called, Checked
<1>9. Handled'
  <2>1. \A d, tag, x : Across(d, tag, x)' = Across(d, tag, x)
    BY <1>1, <1>4 DEF Across
  <2>2. \A tag, x : Passed(tag, x)' = Passed(tag, x)
    BY <1>1 DEF Passed, TakesOver, NextTags, NetworksWith, NatMap
  <2>3. \A tag, x : Pending(tag, x)' = Pending(tag, x)
    BY <1>1 DEF Pending
  <2> QED  BY <1>1, <1>4, <2>1, <2>2, <2>3 DEF NatInv, Handled
<1> QED  BY <1>7, <1>8, <1>9 DEF NatInv

LEMMA PrepareRealIpNatKeeps == NatInv /\ PrepareRealIpNat => NatInv'
<1> SUFFICES ASSUME NatInv, PrepareRealIpNat PROVE NatInv'
  OBVIOUS
<1>1. /\ UNCHANGED <<topo, domains, natTags, multi, natSet, calls, stack, natErrors>>
      /\ step = "real ip" /\ step' = "done" /\ stack = << >> /\ errors \subseteq errors'
  BY DEF PrepareRealIpNat, NatInv, TypeInv, StackInv
<1>2. GroupedActive' = GroupedActive /\ InsideTranslation' = InsideTranslation
  BY <1>1 DEF GroupedActive, InsideTranslation, MultinatMaps, Domains, Home, DomainOfZone
<1>3. /\ Routers' = Routers /\ AllTags' = AllTags /\ Domains' = Domains
      /\ DistributeCalls' = DistributeCalls /\ TypesDiffer' = TypesDiffer
      /\ MultinatDefLookup' = MultinatDefLookup
  BY <1>1, TopologyKept DEF Domains, DistributeCalls
<1>4. StackInv'
  <2>1. << >> \in Seq(Frame')
    OBVIOUS
  <2>2. stack' = << >>
    BY <1>1
  <2>3. DOMAIN stack' = {}
    BY <2>2
  <2> QED  BY <1>1, <2>1, <2>2, <2>3 DEF StackInv
<1>5. BordersInv'
  BY <1>1, <1>3, TopologyKept DEF NatInv, TypeInv, BordersInv
<1>6. TypeInv'
  BY <1>1, <1>3, <1>4, <1>5 DEF NatInv, TypeInv
<1>7. ErrorsShown' /\ Called' /\ Checked'
  BY <1>1, <1>2, <1>3 DEF NatInv, ErrorsShown, Called, Checked
<1>8. Handled'
  <2>1. \A d, tag, x : Across(d, tag, x)' = Across(d, tag, x)
    BY <1>1, <1>3 DEF Across
  <2>2. \A tag, x : Passed(tag, x)' = Passed(tag, x)
    BY <1>1 DEF Passed, TakesOver, NextTags, NetworksWith, NatMap
  <2>3. \A tag, x : Pending(tag, x)' = Pending(tag, x)
    BY <1>1 DEF Pending
  <2> QED  BY <1>1, <1>3, <2>1, <2>2, <2>3 DEF NatInv, Handled
<1> QED  BY <1>6, <1>7, <1>8 DEF NatInv

LEMMA StutterKeepsNat == NatInv /\ UNCHANGED vars => NatInv'
<1> SUFFICES ASSUME NatInv, UNCHANGED vars PROVE NatInv'
  OBVIOUS
<1>1. UNCHANGED <<topo, step, domains, natTags, multi, natSet, calls, stack, natErrors, errors>>
  BY DEF vars
<1>2. GroupedActive' = GroupedActive /\ InsideTranslation' = InsideTranslation
  BY <1>1 DEF GroupedActive, InsideTranslation, MultinatMaps, Domains, Home, DomainOfZone
<1>3. /\ Routers' = Routers /\ AllTags' = AllTags /\ Domains' = Domains
      /\ DistributeCalls' = DistributeCalls /\ TypesDiffer' = TypesDiffer
      /\ MultinatDefLookup' = MultinatDefLookup
  BY <1>1, TopologyKept DEF Domains, DistributeCalls
<1>4. \A d, tag, x : Across(d, tag, x)' = Across(d, tag, x)
  BY <1>1, <1>3 DEF Across
<1>5. Frame' = Frame
  BY <1>3 DEF Frame
<1>6. StackInv' /\ BordersInv'
  BY <1>1, <1>3, <1>4, <1>5, TopologyKept DEF NatInv, TypeInv, StackInv, BordersInv
<1>7. TypeInv'
  BY <1>1, <1>3, <1>6 DEF NatInv, TypeInv
<1>8. ErrorsShown' /\ Called' /\ Checked'
  BY <1>1, <1>2, <1>3 DEF NatInv, ErrorsShown, Called, Checked
<1>9. Handled'
  <2>1. \A tag, x : Passed(tag, x)' = Passed(tag, x)
    BY <1>1 DEF Passed, TakesOver, NextTags, NetworksWith, NatMap
  <2>2. \A tag, x : Pending(tag, x)' = Pending(tag, x)
    BY <1>1 DEF Pending
  <2> QED  BY <1>1, <1>3, <1>4, <2>1, <2>2 DEF NatInv, Handled
<1> QED  BY <1>7, <1>8, <1>9 DEF NatInv

(***************************************************************************)
(* The invariant holds: bound tags are activated where they are bound, an  *)
(* active tag is passed on until another one takes over, and what goes     *)
(* wrong is shown (nat.go:659-886).                                        *)
(***************************************************************************)
THEOREM NatInvariance == Spec => []NatInv
<1>1. NatInv /\ [Next \/ Finished]_vars => NatInv'
  <2> SUFFICES ASSUME NatInv, [Next \/ Finished]_vars PROVE NatInv'
    OBVIOUS
  <2>1. CASE FindNatDomain
    BY <2>1, FindNatDomainKeeps
  <2>2. CASE LookupNat
    BY <2>2, LookupNatKeeps
  <2>3. CASE DistributeNat
    BY <2>3, DistributeNatKeeps
  <2>4. CASE ReachTwice
    BY <2>4, ReachTwiceKeeps
  <2>5. CASE Deactivate
    BY <2>5, DeactivateKeeps
  <2>6. CASE Proceed
    BY <2>6, ProceedKeeps
  <2>7. CASE Return
    BY <2>7, ReturnKeeps
  <2>8. CASE CheckNat
    BY <2>8, CheckNatKeeps
  <2>9. CASE PrepareRealIpNat
    BY <2>9, PrepareRealIpNatKeeps
  <2>10. CASE UNCHANGED vars
    BY <2>10, StutterKeepsNat
  <2> QED  BY <2>1, <2>2, <2>3, <2>4, <2>5, <2>6, <2>7, <2>8, <2>9, <2>10 DEF Next, Finished
<1> QED  BY InitNatInv, <1>1, PTL DEF Spec

-----------------------------------------------------------------------------
(***************************************************************************)
(* Translations fit.                                                       *)
(***************************************************************************)
LEMMA OneTagAtMost ==
  ASSUME NatInv, NoErrors, NEW i \in DOMAIN topo.networks, NEW d \in Domains,
         NEW tag \in DOMAIN NatMap(i) \cap natSet[d], NEW tag2 \in DOMAIN NatMap(i) \cap natSet[d]
  PROVE  tag = tag2
<1> SUFFICES ASSUME tag # tag2 PROVE FALSE
  OBVIOUS
<1>1. multi = MultinatDefLookup /\ topo \in Topologies /\ ~GroupedActive
  BY DEF NatInv, TypeInv, Checked, NoErrors
<1>2. PICK m \in ToSet(MultinatMaps(tag)) : DOMAIN NatMap(i) \subseteq DOMAIN m
  BY <1>1, GroupsAreKnown DEF GroupsKnown
<1> QED  BY <1>1, <1>2 DEF GroupedActive

LEMMA BoundIsActive ==
  ASSUME NatInv, NoErrors, NEW r \in Routers, NEW d \in DOMAIN natTags[r], NEW tag \in natTags[r][d]
  PROVE  d \in Domains /\ tag \in natSet[d]
<1>1. d \in Domains /\ tag \in AllTags
  BY BoundTags DEF NatInv, TypeInv, BordersInv
<1>2. <<d, r, tag>> \in DistributeCalls
  BY <1>1 DEF DistributeCalls
<1>3. calls = {} /\ errors = {} /\ step # "domains"
  BY DEF NatInv, NoErrors, Checked
<1> QED  BY <1>1, <1>2, <1>3 DEF NatInv, Called

LEMMA TagOfActive ==
  ASSUME NatInv, NoErrors, NEW i \in DOMAIN topo.networks, NEW d \in Domains
  PROVE  /\ \A tag \in DOMAIN NatMap(i) \cap natSet[d] : TagOf(topo.networks[i], natSet[d]) = tag
         /\ DOMAIN NatMap(i) \cap natSet[d] = {} => TagOf(topo.networks[i], natSet[d]) = None
         /\ Cardinality(DOMAIN NatMap(i) \cap natSet[d]) <= 1
<1> DEFINE active == DOMAIN NatMap(i) \cap natSet[d]
<1>1. \A tag, tag2 \in active : tag = tag2
  BY OneTagAtMost
<1>2. TagOf(topo.networks[i], natSet[d]) = IF active = {} THEN None ELSE CHOOSE tag \in active : TRUE
  BY DEF TagOf, NatMap
<1>3. Cardinality(active) <= 1
  <2>1. CASE active = {}
    BY <2>1, FS_EmptySet
  <2>2. CASE active # {}
    <3>1. PICK tag \in active : TRUE
      BY <2>2
    <3>2. active = {tag}
      BY <1>1, <3>1
    <3> QED  BY <3>2, FS_Singleton
  <2> QED  BY <2>1, <2>2
<1> QED  BY <1>1, <1>2, <1>3

\* An active tag of network i that is not bound at this side of router r: the same tag is
\* active at the other side, or another tag of the network is bound there.
LEMMA ActiveIsPassed ==
  ASSUME NatInv, NoErrors, NEW i \in DOMAIN topo.networks, NEW r \in Routers,
         NEW d \in DOMAIN natTags[r], NEW out \in DOMAIN natTags[r], d # out,
         NEW tag \in DOMAIN NatMap(i) \cap natSet[d], tag \notin natTags[r][d]
  PROVE  /\ tag \notin natTags[r][out]
         /\ tag \in natSet[out] \/ DOMAIN NatMap(i) \cap natTags[r][out] # {}
<1> DEFINE x == <<r, out>>
<1>1. d \in Domains /\ x \in Routers \X Domains /\ stack = << >>
  BY DEF NatInv, TypeInv, BordersInv, StackInv, NoErrors
<1>2. Across(d, tag, x)
  BY DEF Across
<1>3. Passed(tag, x)
  BY <1>1, <1>2 DEF NatInv, Handled, Pending, NoErrors
<1>4. i \in NetworksWith(tag)
  BY DEF NetworksWith
<1> QED  BY <1>3, <1>4 DEF Passed, NextTags, TakesOver

LEMMA TranslationsFit ==
  ASSUME NatInv, NoErrors, NEW i \in DOMAIN topo.networks, NEW r \in Routers,
         NEW d \in DOMAIN natTags[r], NEW out \in DOMAIN natTags[r], d # out
  PROVE  Fits(topo.networks[i], r, d, out)
<1> DEFINE bound(x) == DOMAIN NatMap(i) \cap natTags[r][x]
           active(x) == DOMAIN NatMap(i) \cap natSet[x]
           tag(x) == TagOf(topo.networks[i], natSet[x])
<1>1. \A x \in {d, out} : x \in DOMAIN natTags[r] /\ x \in Domains /\ bound(x) \subseteq active(x)
  BY BoundIsActive DEF NatInv, TypeInv, BordersInv
<1>2. \A x \in {d, out} : /\ \A t \in active(x) : tag(x) = t
                          /\ active(x) = {} => tag(x) = None
  BY <1>1, TagOfActive
<1>3. CASE bound(d) \union bound(out) = {}
  <2>1. active(d) = active(out)
    BY <1>1, <1>3, ActiveIsPassed
  <2>2. tag(d) = tag(out)
    BY <1>2, <2>1
  <2> QED  BY <1>3, <2>2 DEF Fits, NatMap
<1>4. CASE bound(d) \union bound(out) # {}
  <2>1. ASSUME NEW x \in {d, out}, bound(x) # {} PROVE bound(x) = {tag(x)}
    BY <1>1, <1>2, <2>1
  <2>2. ASSUME NEW x \in {d, out}, bound(x) = {} PROVE tag(x) \notin bound(d) \union bound(out)
    <3>1. PICK y \in {d, out} : y # x /\ bound(d) \union bound(out) = bound(y)
      BY <2>2
    <3>2. CASE active(x) = {}
      <4>1. tag(x) = None
        BY <1>2, <3>2
      <4>2. None \notin natTags[r][y]
        <5>1. natTags[r][y] \subseteq Tags(topo.bind) /\ topo \in Topologies
          BY <1>1 DEF NatInv, TypeInv, BordersInv
        <5> QED  BY <5>1, NatAssumption DEF Tags, None
      <4> QED  BY <3>1, <4>1, <4>2
    <3>3. CASE active(x) # {}
      <4>1. tag(x) \in active(x)
        BY <1>2, <3>3
      <4>2. tag(x) \notin natTags[r][y]
        BY <1>1, <2>2, <3>1, <4>1, ActiveIsPassed
      <4> QED  BY <3>1, <4>2
    <3> QED  BY <3>2, <3>3
  <2> QED  BY <1>4, <2>1, <2>2 DEF Fits, NatMap
<1> QED  BY <1>3, <1>4

(***************************************************************************)
(* For every topology and every binding of tags: if distributeNatInfo      *)
(* shows no error, each network has its own address at home, at most one   *)
(* translation in each domain, and the translations at both sides of a     *)
(* router fit to the tags bound there (nat.go:615-886).                    *)
(***************************************************************************)
THEOREM TranslationsAreFit == Spec => []TranslationFits
<1>1. NatInv => TranslationFits
  <2> SUFFICES ASSUME NatInv, NoErrors, NEW i \in DOMAIN topo.networks
               PROVE  LET n == topo.networks[i] IN
                      /\ TagOf(n, natSet[Home(n)]) = None
                      /\ \A d \in Domains : Cardinality(DOMAIN n.nat \intersect natSet[d]) <= 1
                      /\ \A r \in Routers : \A d, out \in DOMAIN natTags[r] : d # out => Fits(n, r, d, out)
    BY DEF TranslationFits
  <2>1. TagOf(topo.networks[i], natSet[Home(topo.networks[i])]) = None
    <3>1. ~InsideTranslation
      BY DEF NatInv, Checked, NoErrors
    <3> QED  BY <3>1 DEF InsideTranslation, TagOf, ToSet
  <2>2. \A d \in Domains : Cardinality(DOMAIN topo.networks[i].nat \intersect natSet[d]) <= 1
    BY TagOfActive DEF NatMap
  <2> QED  BY <2>1, <2>2, TranslationsFit
<1> QED  BY NatInvariance, <1>1, PTL

-----------------------------------------------------------------------------
(***************************************************************************)
(* combineNatSets.                                                         *)
(***************************************************************************)
\* NAT sets where each network has one translation at most.
Combining(sets) ==
  /\ topo \in Topologies /\ multi = MultinatDefLookup
  /\ DOMAIN sets \subseteq Nat
  /\ \A s \in Range(sets) : s \subseteq AllTags /\
       \A i \in DOMAIN topo.networks : \A tag, tag2 \in DOMAIN NatMap(i) \cap s : tag = tag2

TagsOf(i, sets) == {TagOf(topo.networks[i], s) : s \in Range(sets)}

\* Network i has the tag in some set, and the others have a hidden one.
Agreed(i, tag, sets) ==
  tag \in TagsOf(i, sets) /\ \A t \in TagsOf(i, sets) \ {tag} : t # None /\ natType[t] = "hidden"

LEMMA TagsAreNumbers ==
  ASSUME topo \in Topologies
  PROVE  /\ AllTags \subseteq Nat \ {0} /\ None \notin AllTags
         /\ \A i \in DOMAIN topo.networks : /\ DOMAIN NatMap(i) \subseteq AllTags
                                            /\ IsFiniteSet(DOMAIN NatMap(i))
<1>1. \A i \in DOMAIN topo.networks :
         IsFiniteSet(DOMAIN NatMap(i)) /\ DOMAIN NatMap(i) \subseteq Nat \ {0}
  BY NatAssumption DEF NatMap
<1>2. Tags(topo.bind) \subseteq Nat \ {0}
  BY NatAssumption DEF Tags
<1>3. AllTags = Tags(topo.bind) \union UNION {DOMAIN NatMap(i) : i \in DOMAIN topo.networks}
  BY DEF AllTags, NatMap, ToSet
<1> QED  BY <1>1, <1>2, <1>3 DEF None

\* The list of a tag that has one in multi, and tags without.
LEMMA MultiList ==
  ASSUME topo \in Topologies, multi = MultinatDefLookup, NEW tag \in DefinedTags
  PROVE  /\ MultinatMaps(tag) # << >> => tag \in DOMAIN multi
         /\ tag \in DOMAIN multi =>
              /\ MultinatMaps(tag) = NatMaps(tag)
              /\ DOMAIN MultinatMaps(tag) \subseteq Nat /\ DOMAIN MultinatMaps(tag) # {}
              /\ \A k \in DOMAIN MultinatMaps(tag) :
                   \E j \in NetworksWith(tag) : MultinatMaps(tag)[k] = NatMap(j)
         /\ tag \notin DOMAIN multi => \A i \in NetworksWith(tag) : DOMAIN NatMap(i) = {tag}
<1>0. PICK maps : CoversNetworks(tag, maps)
  BY NatMapsCover
<1>1. /\ maps \in Seq({NatMap(k) : k \in Nat})
      /\ maps = NatMaps(tag)
      /\ \A i \in DOMAIN maps : \E j \in NetworksWith(tag) : maps[i] = NatMap(j)
      /\ \A j \in NetworksWith(tag) : \E i \in DOMAIN maps : DOMAIN NatMap(j) \subseteq DOMAIN maps[i]
  BY <1>0 DEF CoversNetworks
<1>2. PICK n \in NetworksWith(tag) : TRUE
  BY DEF DefinedTags
<1>3. DOMAIN maps = 1 .. Len(maps) /\ Len(maps) \in Nat /\ DOMAIN maps # {}
  BY <1>1, <1>2
<1>4. DOMAIN multi = {t \in DefinedTags : ~(Len(NatMaps(t)) = 1 /\ Cardinality(DOMAIN NatMaps(t)[1]) = 1)}
  BY DEF MultinatDefLookup
<1>5. tag \in DOMAIN multi => MultinatMaps(tag) = maps
  BY <1>1 DEF MultinatDefLookup, MultinatMaps
<1>6. tag \notin DOMAIN multi => MultinatMaps(tag) = << >>
  BY DEF MultinatMaps
<1>7. ASSUME tag \notin DOMAIN multi, NEW i \in NetworksWith(tag) PROVE DOMAIN NatMap(i) = {tag}
  <2>1. Len(maps) = 1 /\ Cardinality(DOMAIN maps[1]) = 1
    BY <1>1, <1>4, <1>7
  <2>2. PICK j \in NetworksWith(tag) : maps[1] = NatMap(j)
    BY <1>1, <1>3, <2>1
  <2>3. IsFiniteSet(DOMAIN maps[1])
    BY <2>2, TagsAreNumbers DEF NetworksWith
  <2>4. PICK x : DOMAIN maps[1] = {x}
    BY <2>1, <2>3, FS_Singleton
  <2>5. tag \in DOMAIN maps[1] /\ DOMAIN NatMap(i) \subseteq DOMAIN maps[1] /\ tag \in DOMAIN NatMap(i)
    <3>1. PICK k \in DOMAIN maps : DOMAIN NatMap(i) \subseteq DOMAIN maps[k]
      BY <1>1, <1>7
    <3>2. k = 1
      BY <1>3, <2>1, <3>1
    <3> QED  BY <1>7, <2>2, <3>1, <3>2 DEF NetworksWith
  <2> QED  BY <2>4, <2>5
<1>8. ASSUME tag \in DOMAIN multi
      PROVE  /\ MultinatMaps(tag) = NatMaps(tag)
             /\ DOMAIN MultinatMaps(tag) \subseteq Nat /\ DOMAIN MultinatMaps(tag) # {}
             /\ \A k \in DOMAIN MultinatMaps(tag) :
                  \E j \in NetworksWith(tag) : MultinatMaps(tag)[k] = NatMap(j)
  <2>1. MultinatMaps(tag) = maps
    BY <1>5, <1>8
  <2>2. DOMAIN maps \subseteq Nat
    BY <1>3
  <2> QED  BY <1>1, <1>3, <2>1, <2>2
<1> QED  BY <1>6, <1>7, <1>8

\* A NAT map of combineNatSets is that of a network with the tag.
LEMMA PlaceShape ==
  ASSUME NEW sets, Combining(sets), NEW p \in MapPlaces(sets)
  PROVE  /\ p \in Nat \X Nat \X Nat /\ p[1] \in DOMAIN sets /\ p[2] \in sets[p[1]]
         /\ p[2] \in DOMAIN multi /\ p[2] \in TagsAt(p)
         /\ \E j \in NetworksWith(p[2]) : TagsAt(p) = DOMAIN NatMap(j)
<1>0. PICK i \in DOMAIN sets, tag \in AllTags : p \in {<<i, tag, k>> : k \in DOMAIN MultinatMaps(tag)}
  BY DEF MapPlaces
<1>1. PICK k \in DOMAIN MultinatMaps(tag) : p = <<i, tag, k>>
  BY <1>0
<1>2. p[2] \in sets[p[1]]
  BY DEF MapPlaces
<1>3. tag \in DOMAIN multi /\ tag \in DefinedTags
  <2>1. tag \in DOMAIN multi
    BY <1>1 DEF MultinatMaps
  <2> QED  BY <2>1 DEF Combining, MultinatDefLookup
<1>4. k \in Nat /\ \E j \in NetworksWith(tag) : MultinatMaps(tag)[k] = NatMap(j)
  BY <1>1, <1>3, MultiList DEF Combining
<1>5. i \in Nat /\ tag \in Nat
  BY TagsAreNumbers DEF Combining
<1> QED  BY <1>1, <1>2, <1>3, <1>4, <1>5 DEF TagsAt, NetworksWith

\* In lexical order each set of places has a first one.
LEMMA FirstPlace ==
  ASSUME NEW P \in SUBSET (Nat \X Nat \X Nat), P # {}
  PROVE  \E p \in P : \A q \in P : ~Before(q, p)
<1> DEFINE A == {p[1] : p \in P}
<1>1. PICK a \in A : \A x \in A : a <= x
  <2>1. A \in SUBSET Nat /\ A # {}
    OBVIOUS
  <2> HIDE DEF A
  <2> QED  BY <2>1, LeastNumber
<1> DEFINE B == {p[2] : p \in {q \in P : q[1] = a}}
<1>2. PICK b \in B : \A x \in B : b <= x
  <2>1. B \in SUBSET Nat /\ B # {}
    BY <1>1
  <2> HIDE DEF B
  <2> QED  BY <2>1, LeastNumber
<1> DEFINE C == {p[3] : p \in {q \in P : q[1] = a /\ q[2] = b}}
<1>3. PICK c \in C : \A x \in C : c <= x
  <2>1. C \in SUBSET Nat /\ C # {}
    BY <1>2
  <2> HIDE DEF C
  <2> QED  BY <2>1, LeastNumber
<1>4. PICK p \in P : p[1] = a /\ p[2] = b /\ p[3] = c
  BY <1>3
<1>5. ASSUME NEW q \in P, Before(q, p) PROVE FALSE
  <2>1. DOMAIN q = 1 .. 3 /\ DOMAIN p = 1 .. 3
    OBVIOUS
  <2>2. PICK i \in 1 .. 3 : q[i] < p[i] /\ \A j \in 1 .. i - 1 : q[j] = p[j]
    BY <1>5, <2>1 DEF Before
  <2>3. /\ q[1] \in Nat /\ q[2] \in Nat /\ q[3] \in Nat
        /\ p[1] \in Nat /\ p[2] \in Nat /\ p[3] \in Nat
    OBVIOUS
  <2>4. CASE i = 1
    <3>1. q[1] \in A
      OBVIOUS
    <3> HIDE DEF A
    <3> QED  BY <1>1, <1>4, <2>2, <2>3, <2>4, <3>1
  <2>5. CASE i = 2
    <3>1. q[1] = a /\ q[2] < b
      BY <1>4, <2>2, <2>5
    <3>2. q[2] \in B
      BY <3>1
    <3> HIDE DEF B
    <3> QED  BY <1>2, <1>4, <2>3, <3>1, <3>2
  <2>6. CASE i = 3
    <3>1. q[1] = a /\ q[2] = b /\ q[3] < c
      BY <1>4, <2>2, <2>6
    <3>2. q[3] \in C
      BY <3>1
    <3> HIDE DEF C
    <3> QED  BY <1>3, <1>4, <2>3, <3>1, <3>2
  <2> QED  BY <2>2, <2>4, <2>5, <2>6
<1> QED  BY <1>5

\* Each NAT map of a tag of a set has a place.
LEMMA PlaceIsMapped ==
  ASSUME NEW sets, NEW i \in DOMAIN sets, NEW tag \in AllTags, tag \in sets[i],
         NEW k \in DOMAIN MultinatMaps(tag)
  PROVE  <<i, tag, k>> \in MapPlaces(sets)
<1> DEFINE p == <<i, tag, k>>
           S == {<<i, tag, kk>> : kk \in DOMAIN MultinatMaps(tag)}
<1>1. S \in {{<<ii, t, kk>> : kk \in DOMAIN MultinatMaps(t)} : ii \in DOMAIN sets, t \in AllTags}
  OBVIOUS
<1>2. p \in S /\ p[1] = i /\ p[2] = tag
  OBVIOUS
<1> HIDE DEF S, p
<1>3. p \in UNION {{<<ii, t, kk>> : kk \in DOMAIN MultinatMaps(t)} : ii \in DOMAIN sets, t \in AllTags}
  BY <1>1, <1>2
<1>4. p \in MapPlaces(sets)
  BY <1>2, <1>3 DEF MapPlaces
<1> QED  BY <1>4 DEF p

\* Each tag of a set with a list in multi is in a NAT map that brings a new tag.
LEMMA TagIsAnalyzed ==
  ASSUME NEW sets, Combining(sets), NEW i \in DOMAIN sets, NEW tag \in sets[i], tag \in DOMAIN multi
  PROVE  /\ \E p \in MapPlaces(sets) : p[2] = tag
         /\ \E m \in ActiveMulti(sets) : tag \in m
<1>1. tag \in AllTags /\ tag \in DefinedTags
  BY DEF Combining, MultinatDefLookup, Range
<1>2. PICK k : k \in DOMAIN MultinatMaps(tag)
  <2>1. topo \in Topologies /\ multi = MultinatDefLookup
    BY DEF Combining
  <2>2. DOMAIN MultinatMaps(tag) # {}
    BY <1>1, <2>1, MultiList
  <2> QED  BY <2>2
<1>3. <<i, tag, k>> \in MapPlaces(sets)
  BY <1>1, <1>2, PlaceIsMapped
<1> DEFINE P == {p \in MapPlaces(sets) : tag \in TagsAt(p)}
<1>4. P \in SUBSET (Nat \X Nat \X Nat) /\ P # {}
  <2>1. tag \in TagsAt(<<i, tag, k>>)
    BY <1>3, PlaceShape
  <2> QED  BY <1>3, <2>1, PlaceShape
<1>5. PICK p \in P : \A q \in P : ~Before(q, p)
  <2> HIDE DEF P
  <2> QED  BY <1>4, FirstPlace
<1>6. IsNew(sets, p)
  BY <1>5 DEF IsNew
<1> QED  BY <1>3, <1>5, <1>6 DEF ActiveMulti

\* A NAT map whose tags are not covered by others is analyzed.
LEMMA MapIsAnalyzed ==
  ASSUME NEW sets, Combining(sets), NEW p \in MapPlaces(sets), ~MayBeSkipped(p[2])
  PROVE  TagsAt(p) \in ActiveMulti(sets)
<1> DEFINE P == {q \in MapPlaces(sets) : TagsAt(q) = TagsAt(p)}
<1>1. P \in SUBSET (Nat \X Nat \X Nat) /\ P # {}
  BY PlaceShape
<1>2. PICK f \in P : \A q \in P : ~Before(q, f)
  <2> HIDE DEF P
  <2> QED  BY <1>1, FirstPlace
<1> DEFINE others == {m \in UNION {ToSet(l) : l \in Range(multi)} : DOMAIN m # TagsAt(p)}
           covered == UNION {DOMAIN m : m \in others}
<1>3. p[3] \in DOMAIN MultinatMaps(p[2]) /\ TagsAt(p) = DOMAIN MultinatMaps(p[2])[p[3]]
  BY DEF MapPlaces, TagsAt
<1>4. ~(TagsAt(p) \subseteq covered)
  BY <1>3 DEF MayBeSkipped
<1>5. ASSUME NEW q \in MapPlaces(sets), Before(q, f) PROVE TagsAt(q) \subseteq covered
  <2>1. TagsAt(q) # TagsAt(p)
    BY <1>2, <1>5
  <2>2. p[2] \in DOMAIN multi /\ q[2] \in DOMAIN multi
    BY PlaceShape
  <2>3. q[3] \in DOMAIN multi[q[2]] /\ TagsAt(q) = DOMAIN multi[q[2]][q[3]]
    BY <2>2 DEF MapPlaces, TagsAt, MultinatMaps
  <2>4. multi[q[2]][q[3]] \in others
    BY <2>1, <2>2, <2>3 DEF ToSet, Range
  <2> QED  BY <2>3, <2>4
<1>6. IsNew(sets, f)
  BY <1>2, <1>4, <1>5 DEF IsNew
<1> QED  BY <1>2, <1>6 DEF ActiveMulti

\* What is analyzed belongs to a network, and shows its translations in the sets.
LEMMA AnalyzedIsNetwork ==
  ASSUME NEW sets, Combining(sets), NEW m \in ActiveMulti(sets)
  PROVE  \E i \in DOMAIN topo.networks : m = DOMAIN NatMap(i)
BY PlaceShape DEF ActiveMulti, NetworksWith

LEMMA ActiveOfNetwork ==
  ASSUME NEW sets, Combining(sets), NEW i \in DOMAIN topo.networks
  PROVE  /\ ActiveTags(DOMAIN NatMap(i), sets) = TagsOf(i, sets)
         /\ \A s \in Range(sets) : \A tag \in DOMAIN NatMap(i) \cap s : TagOf(topo.networks[i], s) = tag
         /\ \A s \in Range(sets) : \/ TagOf(topo.networks[i], s) \in DOMAIN NatMap(i) \cap s
                                   \/ TagOf(topo.networks[i], s) = None
         /\ IsFiniteSet(TagsOf(i, sets))
<1> DEFINE m == DOMAIN NatMap(i)
<1>1. m \subseteq Nat /\ IsFiniteSet(m)
  BY TagsAreNumbers DEF Combining
<1>2. ASSUME NEW s \in Range(sets)
      PROVE  /\ TagOf(topo.networks[i], s) = IF m \cap s = {} THEN None ELSE First(m \cap s)
             /\ \A tag \in m \cap s : TagOf(topo.networks[i], s) = tag
             /\ TagOf(topo.networks[i], s) \in m \cap s \/ TagOf(topo.networks[i], s) = None
  <2>1. TagOf(topo.networks[i], s) = IF m \cap s = {} THEN None ELSE CHOOSE tag \in m \cap s : TRUE
    BY DEF TagOf, NatMap
  <2>2. \A tag, tag2 \in m \cap s : tag = tag2
    BY DEF Combining
  <2> HIDE DEF m
  <2>3. CASE m \cap s = {}
    BY <2>1, <2>3
  <2>4. CASE m \cap s # {}
    <3>1. First(m \cap s) \in m \cap s
      BY <1>1, <2>4, FirstIsMember
    <3> QED  BY <2>1, <2>2, <2>4, <3>1
  <2> QED  BY <2>3, <2>4
<1>3. ActiveTags(m, sets) = TagsOf(i, sets)
  <2> DEFINE tag(s) == IF m \cap s = {} THEN None ELSE First(m \cap s)
  <2>1. ActiveTags(m, sets) = {tag(s) : s \in Range(sets)}
    BY DEF ActiveTags
  <2>2. \A s \in Range(sets) : TagOf(topo.networks[i], s) = tag(s)
    BY <1>2
  <2> HIDE DEF tag
  <2>3. TagsOf(i, sets) = {tag(s) : s \in Range(sets)}
    BY <2>2 DEF TagsOf
  <2> QED  BY <2>1, <2>3
<1>4. IsFiniteSet(TagsOf(i, sets))
  <2>1. IsFiniteSet(m \cup {None})
    BY <1>1, FS_AddElement
  <2>2. TagsOf(i, sets) \subseteq m \cup {None}
    <3> SUFFICES ASSUME NEW s \in Range(sets) PROVE TagOf(topo.networks[i], s) \in m \cup {None}
      BY DEF TagsOf
    <3> HIDE DEF m
    <3> QED  BY <1>2
  <2> HIDE DEF m
  <2> QED  BY <2>1, <2>2, FS_Subset
<1> QED  BY <1>2, <1>3, <1>4

\* The tag that is added for a map, if there is one.
LEMMA AddedIsAgreed ==
  ASSUME NEW active, IsFiniteSet(active), NEW tag
  PROVE  (tag = AddedTag(active) /\ tag # None) <=>
           /\ tag \in active /\ tag # None /\ None \notin active /\ natType[tag] # "hidden"
           /\ \A t \in active \ {tag} : natType[t] = "hidden"
<1>1. RealTags(active) = {t \in active : natType[t] # "hidden"} /\ IsFiniteSet(RealTags(active))
  BY FS_Subset DEF RealTags
<1>2. ASSUME tag = AddedTag(active), tag # None
      PROVE  /\ tag \in active /\ tag # None /\ None \notin active /\ natType[tag] # "hidden"
             /\ \A t \in active \ {tag} : natType[t] = "hidden"
  <2>1. None \notin active /\ Cardinality(RealTags(active)) = 1 /\ tag = CHOOSE t \in RealTags(active) : TRUE
    BY <1>2 DEF AddedTag
  <2>2. PICK x : RealTags(active) = {x}
    BY <1>1, <2>1, FS_Singleton
  <2> QED  BY <1>1, <1>2, <2>1, <2>2
<1>3. ASSUME tag \in active, tag # None, None \notin active, natType[tag] # "hidden",
             \A t \in active \ {tag} : natType[t] = "hidden"
      PROVE  tag = AddedTag(active)
  <2>1. RealTags(active) = {tag}
    BY <1>1, <1>3
  <2>2. Cardinality(RealTags(active)) = 1
    BY <2>1, FS_Singleton
  <2> QED  BY <1>3, <2>1, <2>2 DEF AddedTag
<1> QED  BY <1>2, <1>3

\* A real tag that all networks with it agree on is kept.
LEMMA AgreedIsKept ==
  ASSUME NEW sets, Combining(sets), NEW tag \in DefinedTags, natType[tag] # "hidden",
         \A i \in NetworksWith(tag) : Agreed(i, tag, sets)
  PROVE  tag \in CombineNatSets(sets)
<1>1. PICK i \in NetworksWith(tag) : Agreed(i, tag, sets)
  BY DEF DefinedTags
<1>2. i \in DOMAIN topo.networks /\ tag \in DOMAIN NatMap(i) /\ tag \in AllTags /\ tag # None
  BY <1>1, TagsAreNumbers DEF NetworksWith, Combining, DefinedTags
<1>3. PICK s \in Range(sets) : tag \in s
  <2>1. PICK s \in Range(sets) : TagOf(topo.networks[i], s) = tag
    BY <1>1 DEF Agreed, TagsOf
  <2> QED  BY <1>2, <2>1, ActiveOfNetwork
<1>4. CASE Cardinality(DOMAIN sets) = 1
  BY <1>3, <1>4 DEF CombineNatSets
<1>5. CASE Cardinality(DOMAIN sets) # 1 /\ tag \notin DOMAIN multi
  <2>1. DOMAIN NatMap(i) = {tag}
    BY <1>1, <1>5, MultiList DEF Combining
  <2>2. ASSUME NEW t \in Range(sets) PROVE tag \in t
    <3>1. \/ TagOf(topo.networks[i], t) = tag /\ tag \in t
          \/ TagOf(topo.networks[i], t) = None
      BY <1>2, <2>1, ActiveOfNetwork
    <3>2. TagOf(topo.networks[i], t) \in TagsOf(i, sets)
      BY DEF TagsOf
    <3> QED  BY <1>1, <1>2, <3>1, <3>2 DEF Agreed
  <2> QED  BY <1>3, <1>5, <2>2 DEF CombineNatSets
<1>6. CASE Cardinality(DOMAIN sets) # 1 /\ tag \in DOMAIN multi
  <2> DEFINE actives == {ActiveTags(m, sets) : m \in ActiveMulti(sets)}
             ignore == UNION {active \ {AddedTag(active)} : active \in actives}
  <2>1. ASSUME NEW m \in ActiveMulti(sets), tag \in m PROVE AddedTag(ActiveTags(m, sets)) = tag
    <3>1. PICK j \in DOMAIN topo.networks : m = DOMAIN NatMap(j)
      BY AnalyzedIsNetwork
    <3>2. Agreed(j, tag, sets)
      BY <2>1, <3>1 DEF NetworksWith
    <3>3. ActiveTags(m, sets) = TagsOf(j, sets) /\ IsFiniteSet(TagsOf(j, sets))
      BY <3>1, ActiveOfNetwork
    <3>4. None \notin TagsOf(j, sets)
      BY <1>2, <3>2 DEF Agreed
    <3> QED  BY <1>2, <3>2, <3>3, <3>4, AddedIsAgreed DEF Agreed
  <2>2. PICK m \in ActiveMulti(sets) : tag \in m
    BY <1>3, <1>6, TagIsAnalyzed DEF Range
  <2>3. tag \notin ignore
    <3> SUFFICES ASSUME NEW k \in ActiveMulti(sets), tag \in ActiveTags(k, sets),
                        tag # AddedTag(ActiveTags(k, sets))
                 PROVE FALSE
      OBVIOUS
    <3>1. PICK j \in DOMAIN topo.networks : k = DOMAIN NatMap(j)
      BY AnalyzedIsNetwork
    <3>2. tag \in k
      <4>1. tag \in TagsOf(j, sets)
        BY <3>1, ActiveOfNetwork
      <4>2. PICK t \in Range(sets) : tag = TagOf(topo.networks[j], t)
        BY <4>1 DEF TagsOf
      <4> QED  BY <1>2, <3>1, <4>2, ActiveOfNetwork
    <3> QED  BY <2>1, <3>2
  <2>4. tag \in {AddedTag(active) : active \in actives}
    BY <2>1, <2>2
  <2> QED  BY <1>2, <1>6, <2>3, <2>4 DEF CombineNatSets
<1> QED  BY <1>4, <1>5, <1>6

\* A tag that is kept is in each set, or it is a real one and the only one of some
\* network, and of each network whose map is analyzed.
LEMMA KeptIsAgreed ==
  ASSUME NEW sets, Combining(sets), Cardinality(DOMAIN sets) # 1, NEW tag \in CombineNatSets(sets)
  PROVE  /\ \E s \in Range(sets) : tag \in s
         /\ tag \notin DOMAIN multi => \A s \in Range(sets) : tag \in s
         /\ tag \in DOMAIN multi =>
              /\ natType[tag] # "hidden"
              /\ \E i \in NetworksWith(tag) : Agreed(i, tag, sets)
              /\ \A i \in NetworksWith(tag) : DOMAIN NatMap(i) \in ActiveMulti(sets) => Agreed(i, tag, sets)
<1> DEFINE actives == {ActiveTags(m, sets) : m \in ActiveMulti(sets)}
           ignore == UNION {active \ {AddedTag(active)} : active \in actives}
<1>1. CASE tag \in UNION Range(sets) /\ tag \notin DOMAIN multi /\ \A s \in Range(sets) : tag \in s
  BY <1>1
<1>2. CASE tag \in {AddedTag(active) : active \in actives} \ (ignore \union {None})
  <2>1. PICK m \in ActiveMulti(sets) : tag = AddedTag(ActiveTags(m, sets))
    BY <1>2
  <2>2. PICK i \in DOMAIN topo.networks : m = DOMAIN NatMap(i)
    BY AnalyzedIsNetwork
  <2>3. ActiveTags(m, sets) = TagsOf(i, sets) /\ IsFiniteSet(TagsOf(i, sets))
    BY <2>2, ActiveOfNetwork
  <2>4. tag # None /\ tag \notin ignore
    BY <1>2
  <2>5. Agreed(i, tag, sets) /\ natType[tag] # "hidden"
    BY <2>1, <2>3, <2>4, AddedIsAgreed DEF Agreed
  <2>6. PICK s \in Range(sets) : tag = TagOf(topo.networks[i], s)
    BY <2>5 DEF Agreed, TagsOf
  <2>7. tag \in s /\ tag \in DOMAIN NatMap(i)
    BY <2>4, <2>6, ActiveOfNetwork
  <2>8. i \in NetworksWith(tag) /\ tag \in DOMAIN multi
    <3>1. PICK p \in MapPlaces(sets) : m = TagsAt(p)
      BY DEF ActiveMulti
    <3>2. i \in NetworksWith(tag) /\ tag \in DefinedTags
      BY <2>7, TagsAreKnown DEF NetworksWith, Combining
    <3>3. ASSUME tag \notin DOMAIN multi PROVE FALSE
      <4>1. m = {tag}
        BY <2>2, <3>2, <3>3, MultiList DEF Combining
      <4>2. p[2] = tag /\ p[2] \in DOMAIN multi
        BY <3>1, <4>1, PlaceShape
      <4> QED  BY <3>3, <4>2
    <3> QED  BY <3>2, <3>3
  <2>9. ASSUME NEW j \in NetworksWith(tag), DOMAIN NatMap(j) \in ActiveMulti(sets) PROVE Agreed(j, tag, sets)
    <3>1. j \in DOMAIN topo.networks /\ tag \in DOMAIN NatMap(j)
      BY DEF NetworksWith
    <3>2. ActiveTags(DOMAIN NatMap(j), sets) = TagsOf(j, sets) /\ IsFiniteSet(TagsOf(j, sets))
      BY <3>1, ActiveOfNetwork
    <3>3. tag \in TagsOf(j, sets)
      BY <2>7, <3>1, ActiveOfNetwork DEF TagsOf
    <3>4. tag = AddedTag(TagsOf(j, sets))
      BY <2>4, <2>9, <3>2, <3>3
    <3> QED  BY <2>4, <3>2, <3>4, AddedIsAgreed DEF Agreed
  <2> QED  BY <2>5, <2>7, <2>8, <2>9
<1> QED  BY <1>1, <1>2 DEF CombineNatSets

-----------------------------------------------------------------------------
(***************************************************************************)
(* What is known of domains and their borders.                             *)
(***************************************************************************)
\* A domain is numbered by one of its zones.  The loop ends if each zone has a domain.
DomainsKnown ==
  /\ \A d \in Domains : d \in domains[d] /\ domains[d] \subseteq Zones
  /\ step # "domains" => Zones = UNION Range(domains)

\* If no error is shown, a router has the tags of each of its interfaces to a domain.
BordersKnown ==
  \A r \in Routers : \A d \in Domains : \A tags \in BorderTags(r, domains[d]) :
     /\ d \in DOMAIN natTags[r]
     /\ errors = {} => natTags[r][d] = tags

TypesKnown ==
  step # "domains" =>
    \A tag \in DefinedTags : tag \in DOMAIN natType /\ natType[tag] = LookupNatType[tag]

RealIpInterfaces == {l \in topo.links : l[1] \in topo.realIp /\ Cardinality(Effectives(l[1])) = 2}
RealIpKnown == step = "done" => dstNatSet = [l \in RealIpInterfaces |-> OtherNatSet(l)]

DomainsInv == DomainsKnown /\ BordersKnown /\ TypesKnown /\ RealIpKnown

LEMMA FiniteImage ==
  ASSUME NEW S, IsFiniteSet(S), NEW f, DOMAIN f = S
  PROVE  IsFiniteSet({f[x] : x \in S})
<1> DEFINE T == {f[x] : x \in S}
           g == [x \in S |-> f[x]]
<1>1. g \in Surjection(S, T)
  BY DEF Surjection
<1> QED  BY <1>1, FS_Surjection

LEMMA ZonesAreFinite ==
  ASSUME topo \in Topologies
  PROVE  Zones \subseteq Nat /\ IsFiniteSet(Zones) /\ Cardinality(Zones) \in Nat
<1>1. IsFiniteSet(topo.links) /\ topo.links \subseteq (Nat \ {0}) \X (Nat \ {0})
  BY NatAssumption
<1>2. IsFiniteSet(Zones)
  <2> DEFINE f == [l \in topo.links |-> l[2]]
  <2>1. Zones = {f[l] : l \in topo.links} /\ DOMAIN f = topo.links
    BY DEF Zones
  <2> HIDE DEF f
  <2> QED  BY <1>1, <2>1, FiniteImage
<1>3. Zones \subseteq Nat
  BY <1>1 DEF Zones
<1> QED  BY <1>2, <1>3, FS_CardinalityType

LEMMA BordersAreFinite ==
  ASSUME topo \in Topologies, NEW r, NEW Z
  PROVE  IsFiniteSet(BorderTags(r, Z))
<1> DEFINE I == {i \in Interfaces(r) : i[2] \in Z /\ \E out \in Interfaces(r) : topo.bind[out] # topo.bind[i]}
           f == [i \in I |-> topo.bind[i]]
<1>1. IsFiniteSet(I)
  <2>1. I \subseteq topo.links /\ IsFiniteSet(topo.links)
    BY NatAssumption DEF Interfaces
  <2> QED  BY <2>1, FS_Subset
<1>2. BorderTags(r, Z) = {f[i] : i \in I} /\ DOMAIN f = I
  BY DEF BorderTags
<1> HIDE DEF I, f
<1> QED  BY <1>1, <1>2, FiniteImage

\* The function of DomainOf.
IsReached(z, f) == f = [k \in Nat |-> IF k = 0 THEN {z} ELSE SameDomain(f[k - 1])]

\* A zone is in the domain that starts at it.
LEMMA DomainHasStart ==
  ASSUME topo \in Topologies, NEW z \in Zones
  PROVE  z \in DomainOf(z) /\ DomainOf(z) \subseteq Zones
<1> DEFINE S == {X \in SUBSET Zones : z \in X}
           next == [x \in Nat \X S |-> SameDomain(x[2])]
           Reached == CHOOSE f : IsReached(z, f)
<1>1. \A X \in S : SameDomain(X) \in S
  BY DEF SameDomain, Zones
<1>2. {z} \in S
  OBVIOUS
<1>3. \A X \in S : z \in X /\ X \subseteq Zones
  OBVIOUS
<1> HIDE DEF S
<1>4. next \in [Nat \X S -> S]
  BY <1>1
<1>5. PICK f \in [Nat -> S] : \A k \in Nat : f[k] = IF k = 0 THEN {z} ELSE next[<<k, f[k - 1]>>]
  <2>1. \E f : Solves(f, S, {z}, next)
    <3> HIDE DEF next
    <3> QED  BY <1>2, <1>4, RecursiveFunction
  <2> QED  BY <2>1 DEF Solves
<1>6. \A k \in Nat \ {0} : f[k] = SameDomain(f[k - 1])
  <2> TAKE k \in Nat \ {0}
  <2>1. k - 1 \in Nat /\ <<k, f[k - 1]>> \in Nat \X S
    OBVIOUS
  <2> QED  BY <1>5, <2>1
<1>7. IsReached(z, f)
  BY <1>5, <1>6 DEF IsReached
<1>8. IsReached(z, Reached)
  BY <1>7
<1>9. DomainOf(z) = Reached[Cardinality(Zones)]
  BY DEF DomainOf, IsReached
<1> HIDE DEF Reached
<1>10. Reached[0] = {z} /\ \A k \in Nat \ {0} : Reached[k] = SameDomain(Reached[k - 1])
  BY <1>8 DEF IsReached
<1>11. \A k \in Nat : Reached[k] \in S
  <2> DEFINE Bad == {k \in Nat : Reached[k] \notin S}
  <2> SUFFICES ASSUME Bad # {} PROVE FALSE
    OBVIOUS
  <2>1. PICK k \in Bad : \A j \in Bad : k <= j
    <3>1. Bad \in SUBSET Nat
      OBVIOUS
    <3> HIDE DEF Bad
    <3> QED  BY <3>1, LeastNumber
  <2>2. k # 0
    BY <1>2, <1>10, <2>1
  <2>3. k - 1 \in Nat /\ Reached[k - 1] \in S
    BY <2>1, <2>2
  <2> QED  BY <1>1, <1>10, <2>1, <2>2, <2>3
<1> QED  BY <1>3, <1>9, <1>11, ZonesAreFinite

LEMMA BordersKept ==
  ASSUME topo' = topo
  PROVE  /\ Zones' = Zones /\ Routers' = Routers
         /\ \A r, Z : BorderTags(r, Z)' = BorderTags(r, Z)
         /\ DefinedTags' = DefinedTags /\ LookupNatType' = LookupNatType
BY DEF Zones, Routers, BorderTags, Interfaces, DefinedTags, LookupNatType, NetworksWith, NatMap,
       AllTags, Tags

LEMMA InitDomainsInv == Init => DomainsInv
BY DEF Init, DomainsInv, DomainsKnown, BordersKnown, TypesKnown, RealIpKnown, Domains

LEMMA FindNatDomainKeepsDomains == NatInv /\ DomainsInv /\ FindNatDomain => DomainsInv'
<1> SUFFICES ASSUME NatInv, DomainsInv, FindNatDomain PROVE DomainsInv'
  OBVIOUS
<1>1. topo' = topo /\ step = "domains" /\ step' = step /\ topo \in Topologies
  BY DEF FindNatDomain, NatInv, TypeInv
<1>2. PICK d \in {First(Zones \ UNION Range(domains))} : \E Z \in {DomainOf(d)} :
         SetNatDomain(d, Z, {r \in Routers : BorderTags(r, Z) # {}})
  BY DEF FindNatDomain
<1> DEFINE Z == DomainOf(d)
           borders == {r \in Routers : BorderTags(r, Z) # {}}
<1>3. SetNatDomain(d, Z, borders)
  BY <1>2
<1>4. \A e \in Domains : e \in UNION Range(domains) /\ domains[e] \subseteq Zones
  BY DEF Domains, Range, DomainsInv, DomainsKnown
<1>5. d \in Zones /\ d \notin Domains
  <2> DEFINE Left == Zones \ UNION Range(domains)
  <2>1. UNION Range(domains) \subseteq Zones
    BY <1>4 DEF Domains, Range
  <2>2. Left # {} /\ Left \subseteq Nat
    BY <1>1, <2>1, ZonesAreFinite DEF FindNatDomain
  <2>3. First(Left) \in Left
    <3> HIDE DEF Left
    <3> QED  BY <2>2, FirstIsMember
  <2> QED  BY <1>2, <1>4, <2>3
<1>6. /\ Domains' = Domains \union {d} /\ domains'[d] = Z
      /\ \A e \in Domains : domains'[e] = domains[e]
  BY <1>3, <1>5 DEF SetNatDomain, With, Domains
<1>7. PICK tags : /\ \A r \in borders : tags[r] \in BorderTags(r, Z)
                  /\ natTags' = [r \in Routers |-> IF r \in borders THEN With(natTags[r], d, tags[r])
                                                   ELSE natTags[r]]
  BY <1>3 DEF SetNatDomain
<1>8. DomainsKnown'
  <2>1. d \in Z /\ Z \subseteq Zones
    BY <1>1, <1>5, DomainHasStart
  <2> HIDE DEF Z
  <2> QED  BY <1>1, <1>6, <2>1, BordersKept DEF DomainsInv, DomainsKnown
<1>9. BordersKnown'
  <2> SUFFICES ASSUME NEW r \in Routers, NEW e \in Domains', NEW b \in BorderTags(r, domains'[e])
               PROVE  e \in DOMAIN natTags'[r] /\ (errors' = {} => natTags'[r][e] = b)
    BY <1>1, BordersKept DEF BordersKnown
  <2>1. errors \subseteq errors'
    BY <1>3 DEF SetNatDomain
  <2>2. CASE e = d
    <3>1. r \in borders /\ natTags'[r] = With(natTags[r], d, tags[r])
      BY <1>6, <1>7, <2>2
    <3>2. d \notin DOMAIN natTags[r]
      BY <1>5 DEF NatInv, TypeInv, BordersInv
    <3>3. d \in DOMAIN natTags'[r] /\ natTags'[r][d] = tags[r]
      BY <3>1, <3>2 DEF With
    <3>4. errors' = {} => tags[r] = b
      <4> SUFFICES ASSUME errors' = {} PROVE tags[r] = b
        OBVIOUS
      <4>1. ~(Cardinality(BorderTags(r, Z)) > 1)
        BY <1>3, <3>1 DEF SetNatDomain
      <4>2. tags[r] \in BorderTags(r, Z) /\ b \in BorderTags(r, Z) /\ IsFiniteSet(BorderTags(r, Z))
        BY <1>1, <1>6, <1>7, <2>2, <3>1, BordersAreFinite
      <4> DEFINE B == BorderTags(r, Z)
      <4> HIDE DEF B, borders, Z
      <4>3. ~(Cardinality(B) > 1) /\ tags[r] \in B /\ b \in B /\ IsFiniteSet(B)
        BY <4>1, <4>2 DEF B
      <4>4. Cardinality(B) \in Nat /\ Cardinality(B) # 0
        BY <4>3, FS_CardinalityType, FS_EmptySet
      <4>5. Cardinality(B) = 1
        BY <4>3, <4>4
      <4> QED  BY <4>3, <4>5, FS_Singleton
    <3> QED  BY <2>2, <3>3, <3>4
  <2>3. CASE e \in Domains
    <3>1. b \in BorderTags(r, domains[e]) /\ e # d
      BY <1>5, <1>6, <2>3
    <3>2. e \in DOMAIN natTags[r] /\ (errors = {} => natTags[r][e] = b)
      BY <2>3, <3>1 DEF DomainsInv, BordersKnown
    <3>3. natTags'[r] = natTags[r] \/ natTags'[r] = With(natTags[r], d, tags[r])
      BY <1>7
    <3> QED  BY <2>1, <3>1, <3>2, <3>3 DEF With
  <2> QED  BY <1>6, <2>2, <2>3
<1> QED  BY <1>1, <1>8, <1>9 DEF DomainsInv, TypesKnown, RealIpKnown

LEMMA BordersKnownKept ==
  ASSUME BordersKnown, topo' = topo, domains' = domains, natTags' = natTags, errors \subseteq errors'
  PROVE  BordersKnown'
<1>1. Routers' = Routers /\ Domains' = Domains
  BY BordersKept DEF Domains
<1>2. \A r, Z : BorderTags(r, Z)' = BorderTags(r, Z)
  BY BordersKept
<1>3. \A r : \A d : BorderTags(r, domains[d])' = BorderTags(r, domains[d])
  BY <1>2
<1>4. errors' = {} => errors = {}
  OBVIOUS
<1> QED  BY <1>1, <1>3, <1>4 DEF BordersKnown

LEMMA RealIpSetsKept ==
  ASSUME topo' = topo, natType' = natType, domains' = domains, natSet' = natSet, multi' = multi
  PROVE  /\ RealIpInterfaces' = RealIpInterfaces
         /\ \A l : OtherNatSet(l)' = OtherNatSet(l)
<1>1. \A r : Effectives(r)' = Effectives(r)
  BY DEF Effectives, Effective, Interfaces
<1>2. RealIpInterfaces' = RealIpInterfaces
  BY <1>1 DEF RealIpInterfaces
<1>3. \A l : OtherNatSet(l)' = OtherNatSet(l)
  BY DEF OtherNatSet, Effective, Interfaces, IntfNatSet, DomainOfZone,
     Domains, CombineNatSets, ActiveTags, ActiveMulti, AddedTag, RealTags, IsNew, TagsAt, MapPlaces,
     MultinatMaps, AllTags, Tags
<1> QED  BY <1>2, <1>3

\* A step that changes neither domains nor types, before the last one.
LEMMA DomainsKept ==
  ASSUME DomainsInv, topo' = topo, domains' = domains, natTags' = natTags, natType' = natType,
         errors \subseteq errors', step' = step, step # "done"
  PROVE  DomainsInv'
<1>1. DomainsKnown'
  BY BordersKept DEF DomainsInv, DomainsKnown, Domains
<1>2. BordersKnown'
  BY BordersKnownKept DEF DomainsInv
<1>3. TypesKnown'
  BY BordersKept DEF DomainsInv, TypesKnown
<1> QED  BY <1>1, <1>2, <1>3 DEF DomainsInv, RealIpKnown

LEMMA LookupNatKeepsDomains == DomainsInv /\ LookupNat => DomainsInv'
<1> SUFFICES ASSUME DomainsInv, LookupNat PROVE DomainsInv'
  OBVIOUS
<1>1. /\ topo' = topo /\ domains' = domains /\ natTags' = natTags /\ step' = "distribute"
      /\ errors \subseteq errors' /\ natType' = LookupNatType /\ Zones = UNION Range(domains)
  BY DEF LookupNat
<1>2. DomainsKnown'
  BY <1>1, BordersKept DEF DomainsInv, DomainsKnown, Domains
<1>3. BordersKnown'
  BY <1>1, BordersKnownKept DEF DomainsInv
<1>4. TypesKnown'
  <2>1. DOMAIN LookupNatType = DefinedTags
    BY DEF LookupNatType
  <2> QED  BY <1>1, <2>1, BordersKept DEF TypesKnown
<1> QED  BY <1>1, <1>2, <1>3, <1>4 DEF DomainsInv, RealIpKnown

LEMMA CheckNatKeepsDomains == DomainsInv /\ CheckNat => DomainsInv'
<1> SUFFICES ASSUME DomainsInv, CheckNat PROVE DomainsInv'
  OBVIOUS
<1>1. /\ topo' = topo /\ domains' = domains /\ natTags' = natTags
      /\ step = "distribute" /\ step' = "real ip" /\ errors \subseteq errors'
      /\ \A tag \in DOMAIN natType : tag \in DOMAIN natType' /\ natType'[tag] = natType[tag]
  BY DEF CheckNat
<1>2. DomainsKnown'
  BY <1>1, BordersKept DEF DomainsInv, DomainsKnown, Domains
<1>3. BordersKnown'
  BY <1>1, BordersKnownKept DEF DomainsInv
<1>4. TypesKnown'
  BY <1>1, BordersKept DEF DomainsInv, TypesKnown
<1> QED  BY <1>1, <1>2, <1>3, <1>4 DEF DomainsInv, RealIpKnown

LEMMA PrepareRealIpNatKeepsDomains == DomainsInv /\ PrepareRealIpNat => DomainsInv'
<1> SUFFICES ASSUME DomainsInv, PrepareRealIpNat PROVE DomainsInv'
  OBVIOUS
<1>1. /\ topo' = topo /\ domains' = domains /\ natTags' = natTags /\ natType' = natType
      /\ multi' = multi /\ natSet' = natSet
      /\ step = "real ip" /\ step' = "done" /\ errors \subseteq errors'
      /\ dstNatSet' = [l \in RealIpInterfaces |-> OtherNatSet(l)]
  BY DEF PrepareRealIpNat, RealIpInterfaces
<1>2. DomainsKnown'
  BY <1>1, BordersKept DEF DomainsInv, DomainsKnown, Domains
<1>3. BordersKnown'
  BY <1>1, BordersKnownKept DEF DomainsInv
<1>4. TypesKnown'
  BY <1>1, BordersKept DEF DomainsInv, TypesKnown
<1>5. RealIpInterfaces' = RealIpInterfaces /\ \A l : OtherNatSet(l)' = OtherNatSet(l)
  BY <1>1, RealIpSetsKept
<1> QED  BY <1>1, <1>2, <1>3, <1>4, <1>5 DEF DomainsInv, RealIpKnown

LEMMA StutterKeepsDomains == DomainsInv /\ UNCHANGED vars => DomainsInv'
<1> SUFFICES ASSUME DomainsInv, UNCHANGED vars PROVE DomainsInv'
  OBVIOUS
<1>1. /\ topo' = topo /\ domains' = domains /\ natTags' = natTags /\ natType' = natType
      /\ multi' = multi /\ natSet' = natSet /\ step' = step /\ errors' = errors /\ dstNatSet' = dstNatSet
  BY DEF vars
<1>2. DomainsKnown'
  BY <1>1, BordersKept DEF DomainsInv, DomainsKnown, Domains
<1>3. BordersKnown'
  BY <1>1, BordersKnownKept DEF DomainsInv
<1>4. TypesKnown'
  BY <1>1, BordersKept DEF DomainsInv, TypesKnown
<1>5. RealIpInterfaces' = RealIpInterfaces /\ \A l : OtherNatSet(l)' = OtherNatSet(l)
  BY <1>1, RealIpSetsKept
<1> QED  BY <1>1, <1>2, <1>3, <1>4, <1>5 DEF DomainsInv, RealIpKnown

(***************************************************************************)
(* For every topology: domains divide the zones, the tags that are kept at *)
(* a border are those of all interfaces of the router to the domain unless *)
(* "Inconsistent NAT in loop" is shown, types of tags are kept when types  *)
(* of undefined tags are added, and the NAT sets for acl_use_real_ip are   *)
(* the combined ones (nat.go:889-975, 1016-1063).                          *)
(***************************************************************************)
THEOREM DomainsInvariance == Spec => [](NatInv /\ DomainsInv)
<1>1. NatInv /\ DomainsInv /\ [Next \/ Finished]_vars => DomainsInv'
  <2> SUFFICES ASSUME NatInv, DomainsInv, [Next \/ Finished]_vars PROVE DomainsInv'
    OBVIOUS
  <2>1. CASE FindNatDomain
    BY <2>1, FindNatDomainKeepsDomains
  <2>2. CASE LookupNat
    BY <2>2, LookupNatKeepsDomains
  <2>3. CASE DistributeNat
    BY <2>3, DomainsKept DEF DistributeNat
  <2>4. ASSUME ReachTwice \/ Deactivate \/ Proceed \/ Return PROVE DomainsInv'
    <3>1. step = "distribute"
      BY <2>4 DEF ReachTwice, Deactivate, Proceed, Return, NatInv, TypeInv, StackInv
    <3> QED  BY <2>4, <3>1, DomainsKept DEF ReachTwice, Deactivate, Proceed, Return
  <2>5. CASE CheckNat
    BY <2>5, CheckNatKeepsDomains
  <2>6. CASE PrepareRealIpNat
    BY <2>6, PrepareRealIpNatKeepsDomains
  <2>7. CASE UNCHANGED vars
    BY <2>7, StutterKeepsDomains
  <2> QED  BY <2>1, <2>2, <2>3, <2>4, <2>5, <2>6, <2>7 DEF Next, Finished
<1> QED  BY NatInvariance, InitDomainsInv, <1>1, PTL DEF Spec

-----------------------------------------------------------------------------
(***************************************************************************)
(* Combined NAT sets keep the address.                                     *)
(***************************************************************************)
\* The NAT sets of domains may be combined.
LEMMA DomainSetsCombine ==
  ASSUME NatInv, NoErrors, NEW sets, DOMAIN sets \subseteq Nat,
         \A z \in DOMAIN sets : \E d \in Domains : sets[z] = natSet[d]
  PROVE  Combining(sets)
<1>1. topo \in Topologies /\ multi = MultinatDefLookup /\ natSet \in [Domains -> SUBSET AllTags]
  BY DEF NatInv, TypeInv, NoErrors
<1>2. \A s \in Range(sets) : \E d \in Domains : s = natSet[d]
  BY DEF Range
<1>3. ASSUME NEW s \in Range(sets)
      PROVE  s \subseteq AllTags /\
             \A i \in DOMAIN topo.networks : \A tag, tag2 \in DOMAIN NatMap(i) \cap s : tag = tag2
  <2>1. PICK d \in Domains : s = natSet[d]
    BY <1>2
  <2> QED  BY <1>1, <2>1, OneTagAtMost
<1> QED  BY <1>1, <1>3 DEF Combining

\* A real tag whose maps are not skipped is kept only if all networks agree.
LEMMA KeptByAll ==
  ASSUME NEW sets, Combining(sets), Cardinality(DOMAIN sets) # 1, NEW tag \in DefinedTags,
         LookupNatType[tag] # "hidden", ~MayBeSkipped(tag), tag \in CombineNatSets(sets),
         NEW i \in NetworksWith(tag)
  PROVE  Agreed(i, tag, sets)
<1>1. i \in DOMAIN topo.networks /\ tag \in DOMAIN NatMap(i)
  BY DEF NetworksWith
<1>2. PICK z \in DOMAIN sets : tag \in sets[z]
  BY KeptIsAgreed DEF Range
<1>3. CASE tag \notin DOMAIN multi
  <2>1. \A s \in Range(sets) : tag \in s
    BY <1>3, KeptIsAgreed
  <2>2. \A s \in Range(sets) : TagOf(topo.networks[i], s) = tag
    BY <1>1, <2>1, ActiveOfNetwork
  <2>3. TagsOf(i, sets) \subseteq {tag} /\ sets[z] \in Range(sets)
    BY <2>2 DEF TagsOf, Range
  <2>4. TagOf(topo.networks[i], sets[z]) \in TagsOf(i, sets)
    BY <2>3 DEF TagsOf
  <2> QED  BY <2>2, <2>3, <2>4 DEF Agreed
<1>4. CASE tag \in DOMAIN multi
  <2>0. PICK maps : CoversNetworks(tag, maps)
    BY NatMapsCover DEF Combining
  <2>1. /\ maps = NatMaps(tag)
        /\ \A j \in NetworksWith(tag) : \E k \in DOMAIN maps : DOMAIN NatMap(j) = DOMAIN maps[k]
    BY <2>0 DEF CoversNetworks, Combining
  <2>2. PICK k \in DOMAIN maps : DOMAIN NatMap(i) = DOMAIN maps[k]
    BY <2>1
  <2>3. MultinatMaps(tag) = maps
    BY <1>4, <2>1, MultiList DEF Combining
  <2>4. PICK p \in MapPlaces(sets) : p[2] = tag /\ TagsAt(p) = DOMAIN NatMap(i)
    <3> DEFINE p == <<z, tag, k>>
    <3>1. tag \in AllTags
      BY DEF DefinedTags
    <3>2. p \in MapPlaces(sets)
      BY <1>2, <2>2, <2>3, <3>1, PlaceIsMapped
    <3> QED  BY <2>2, <2>3, <3>2 DEF TagsAt
  <2>5. DOMAIN NatMap(i) \in ActiveMulti(sets)
    BY <2>4, MapIsAnalyzed
  <2> QED  BY <1>4, <2>5, KeptIsAgreed
<1> QED  BY <1>3, <1>4

\* CombinedKeepsAddress of one list of sets.
KeepsAddress(sets) ==
  \E combined \in {CombineNatSets(sets)} :
     \A tag \in {tag \in DefinedTags : natType[tag] # "hidden" /\ ~MayBeSkipped(tag)} :
        tag \in combined <=>
          \A i \in DOMAIN topo.networks :
             LET n == topo.networks[i]
                 tags == {TagOf(n, s) : s \in Range(sets)}
             IN tag \in DOMAIN n.nat =>
                  tag \in tags /\ \A t \in tags \ {tag} : t # None /\ natType[t] = "hidden"

(***************************************************************************)
(* For every topology, every binding of tags, and every list of domains:   *)
(* if no error is shown, combineNatSets keeps a real tag if and only if    *)
(* each network with the tag has it in some set and no other than hidden   *)
(* ones, unless a NAT map of the tag may be skipped (nat.go:1100-1140).    *)
(***************************************************************************)
THEOREM CombinedIsAgreed == Spec => []CombinedKeepsAddress
<1>1. NatInv /\ DomainsInv => CombinedKeepsAddress
  <2> SUFFICES ASSUME NatInv, DomainsInv PROVE CombinedKeepsAddress
    OBVIOUS
  <2> SUFFICES ASSUME NoErrors,
                      NEW ds \in UNION {SetToSeqs(D) : D \in (SUBSET Domains) \ {{}}}
               PROVE  KeepsAddress([i \in DOMAIN ds |-> natSet[ds[i]]])
    <3>1. NoErrors => \A ds \in UNION {SetToSeqs(D) : D \in (SUBSET Domains) \ {{}}} :
             \E sets \in {[i \in DOMAIN ds |-> natSet[ds[i]]]} : KeepsAddress(sets)
      OBVIOUS
    <3> QED  BY <3>1 DEF CombinedKeepsAddress, KeepsAddress
  <2>0. PICK D \in (SUBSET Domains) \ {{}} : ds \in SetToSeqs(D)
    OBVIOUS
  <2> DEFINE sets == [i \in DOMAIN ds |-> natSet[ds[i]]]
  <2>1. DOMAIN ds = 1 .. Cardinality(D) /\ \A i \in DOMAIN ds : ds[i] \in Domains
    BY <2>0 DEF SetToSeqs
  <2>2. Combining(sets)
    <3>1. DOMAIN sets \subseteq Nat
      BY <2>1
    <3>2. \A z \in DOMAIN sets : \E d \in Domains : sets[z] = natSet[d]
      BY <2>1
    <3> HIDE DEF sets
    <3> QED  BY <3>1, <3>2, DomainSetsCombine
  <2> HIDE DEF sets
  <2> SUFFICES ASSUME NEW tag \in DefinedTags, natType[tag] # "hidden", ~MayBeSkipped(tag)
               PROVE  tag \in CombineNatSets(sets) <=>
                        \A i \in DOMAIN topo.networks :
                           LET n == topo.networks[i]
                               tags == {TagOf(n, s) : s \in Range(sets)}
                           IN tag \in DOMAIN n.nat =>
                                tag \in tags /\ \A t \in tags \ {tag} : t # None /\ natType[t] = "hidden"
    BY DEF KeepsAddress, sets
  <2>3. LookupNatType[tag] # "hidden" /\ tag \in AllTags /\ topo \in Topologies
    BY DEF DomainsInv, TypesKnown, NoErrors, DefinedTags, NatInv, TypeInv
  <2>4. ASSUME tag \in CombineNatSets(sets), NEW i \in NetworksWith(tag) PROVE Agreed(i, tag, sets)
    <3>1. CASE Cardinality(DOMAIN sets) # 1
      BY <2>2, <2>3, <2>4, <3>1, KeptByAll
    <3>2. CASE Cardinality(DOMAIN sets) = 1
      <4>1. tag \in UNION Range(sets)
        BY <2>4, <3>2 DEF CombineNatSets
      <4>2. PICK z : DOMAIN sets = {z}
        <5>1. IsFiniteSet(D)
          <6>1. Domains \subseteq Zones /\ IsFiniteSet(Zones)
            BY <2>3, ZonesAreFinite DEF DomainsInv, DomainsKnown
          <6> QED  BY <6>1, FS_Subset
        <5>2. IsFiniteSet(DOMAIN sets)
          BY <2>1, <5>1, FS_CardinalityType, FS_Interval DEF sets
        <5> QED  BY <3>2, <5>2, FS_Singleton
      <4>3. Range(sets) = {sets[z]} /\ tag \in sets[z]
        BY <4>1, <4>2 DEF Range
      <4>4. TagOf(topo.networks[i], sets[z]) = tag
        BY <2>2, <4>3, ActiveOfNetwork DEF NetworksWith
      <4>5. TagsOf(i, sets) = {tag}
        BY <4>3, <4>4 DEF TagsOf
      <4> QED  BY <4>5 DEF Agreed
    <3> QED  BY <3>1, <3>2
  <2>5. tag \in CombineNatSets(sets) <=> \A i \in NetworksWith(tag) : Agreed(i, tag, sets)
    BY <2>2, <2>4, AgreedIsKept
  <2>6. ASSUME NEW i \in DOMAIN topo.networks
        PROVE  LET n == topo.networks[i]
                   tags == {TagOf(n, s) : s \in Range(sets)}
               IN  Agreed(i, tag, sets) <=>
                     tag \in tags /\ \A t \in tags \ {tag} : t # None /\ natType[t] = "hidden"
    BY DEF Agreed, TagsOf
  <2>7. \A i \in DOMAIN topo.networks : tag \in DOMAIN topo.networks[i].nat <=> i \in NetworksWith(tag)
    BY DEF NetworksWith, NatMap
  <2>8. NetworksWith(tag) \subseteq DOMAIN topo.networks
    BY DEF NetworksWith
  <2> QED  BY <2>5, <2>6, <2>7, <2>8
<1> QED  BY DomainsInvariance, <1>1, PTL

-----------------------------------------------------------------------------
(***************************************************************************)
(* The addresses for acl_use_real_ip.                                      *)
(***************************************************************************)
\* The tags at the border of a router with several bindings.
LEMMA BorderIsBound ==
  ASSUME NatInv, DomainsInv, NoErrors, NEW l \in topo.links, NEW out \in Interfaces(l[1]),
         topo.bind[out] # topo.bind[l]
  PROVE  /\ l[1] \in Routers /\ DomainOfZone(l[2]) \in DOMAIN natTags[l[1]]
         /\ natTags[l[1]][DomainOfZone(l[2])] = topo.bind[l]
<1> DEFINE d == DomainOfZone(l[2])
<1>1. d \in Domains /\ l[2] \in domains[d]
  <2>1. l[2] \in Zones /\ Zones = UNION Range(domains)
    BY DEF Zones, DomainsInv, DomainsKnown, NoErrors
  <2>2. \E e \in Domains : l[2] \in domains[e]
    BY <2>1 DEF Range, Domains
  <2> QED  BY <2>2 DEF DomainOfZone
<1>2. l \in Interfaces(l[1]) /\ l[1] \in Routers
  BY DEF Interfaces, Routers
<1> HIDE DEF d
<1>3. topo.bind[l] \in BorderTags(l[1], domains[d])
  BY <1>1, <1>2 DEF BorderTags
<1> QED  BY <1>1, <1>2, <1>3, SMTT(30) DEF DomainsInv, BordersKnown, NoErrors, d

\* Each interface leads to a domain.
LEMMA InterfaceDomain ==
  ASSUME NatInv, DomainsInv, NoErrors, NEW l \in topo.links
  PROVE  DomainOfZone(l[2]) \in Domains
<1>1. l[2] \in Zones /\ Zones = UNION Range(domains)
  BY DEF Zones, DomainsInv, DomainsKnown, NoErrors
<1>2. \E e \in Domains : l[2] \in domains[e]
  BY <1>1 DEF Range, Domains
<1> QED  BY <1>2 DEF DomainOfZone

\* Behind two interfaces with equal effective NAT: an address that is not hidden behind one
\* is the same behind the other, unless it is hidden there.
LEMMA SameOrHidden ==
  ASSUME NatInv, DomainsInv, NoErrors, NEW i \in DOMAIN topo.networks,
         NEW l \in topo.links, NEW o \in Interfaces(l[1]), NEW other \in Interfaces(l[1]),
         Effective(o) = Effective(l), Effective(other) # Effective(l),
         LET t == TagOf(topo.networks[i], IntfNatSet(l)) IN t = None \/ natType[t] # "hidden"
  PROVE  LET t == TagOf(topo.networks[i], IntfNatSet(l))
             u == TagOf(topo.networks[i], IntfNatSet(o))
         IN  u = t \/ (u # None /\ natType[u] = "hidden")
<1> DEFINE r == l[1]
           d == DomainOfZone(l[2])
           e == DomainOfZone(o[2])
           n == topo.networks[i]
           t == TagOf(n, natSet[d])
           u == TagOf(n, natSet[e])
           bound(x) == DOMAIN n.nat \cap natTags[r][x]
<1>1. o \in topo.links /\ o[1] = r /\ other \in Interfaces(o[1])
  BY DEF Interfaces
<1>2. topo.bind[other] # topo.bind[l] /\ topo.bind[other] # topo.bind[o]
  BY DEF Effective
<1>3. /\ r \in Routers /\ d \in DOMAIN natTags[r] /\ natTags[r][d] = topo.bind[l]
      /\ e \in DOMAIN natTags[r] /\ natTags[r][e] = topo.bind[o]
  <2>1. r \in Routers /\ d \in DOMAIN natTags[r] /\ natTags[r][d] = topo.bind[l]
    BY <1>2, BorderIsBound
  <2>2. e \in DOMAIN natTags[r] /\ natTags[r][e] = topo.bind[o]
    BY <1>1, <1>2, BorderIsBound
  <2> QED  BY <2>1, <2>2
<1>4. \A tag : natType[tag] # "hidden" => (tag \in topo.bind[l] <=> tag \in topo.bind[o])
  BY DEF Effective
<1>5. None \notin DOMAIN n.nat
  BY TagsAreNumbers DEF NatInv, TypeInv, NatMap
<1>6. IntfNatSet(l) = natSet[d] /\ IntfNatSet(o) = natSet[e]
  BY DEF IntfNatSet
<1>7. t = None \/ natType[t] # "hidden"
  BY <1>6
<1>8. CASE d = e
  BY <1>6, <1>8
<1>9. CASE d # e
  <2>1. Fits(n, r, d, e)
    BY <1>3, <1>9, TranslationsFit
  <2>2. /\ bound(d) \union bound(e) = {} => t = u
        /\ bound(d) \union bound(e) # {} =>
             /\ IF bound(d) = {} THEN t \notin bound(d) \union bound(e) ELSE bound(d) = {t}
             /\ IF bound(e) = {} THEN u \notin bound(d) \union bound(e) ELSE bound(e) = {u}
    BY <2>1 DEF Fits
  <2>3. /\ bound(d) = DOMAIN n.nat \cap topo.bind[l]
        /\ bound(e) = DOMAIN n.nat \cap topo.bind[o]
    BY <1>3
  <2> HIDE DEF n, t, u, bound, d, e
  <2>4. u = t \/ (u # None /\ natType[u] = "hidden")
    <3> SUFFICES ASSUME u # t PROVE u # None /\ natType[u] = "hidden"
      OBVIOUS
    <3>1. bound(d) \union bound(e) # {}
      BY <2>2
    <3>2. bound(e) # {}
      <4> SUFFICES ASSUME bound(e) = {} PROVE FALSE
        OBVIOUS
      <4>1. bound(d) = {t}
        BY <2>2, <3>1
      <4>2. t \in DOMAIN n.nat /\ t \in topo.bind[l] /\ t # None
        BY <1>5, <2>3, <4>1
      <4> QED  BY <1>4, <1>7, <2>3, <4>2
    <3>3. bound(e) = {u}
      BY <2>2, <3>2
    <3>4. u \in DOMAIN n.nat /\ u \in topo.bind[o] /\ u # None
      BY <1>5, <2>3, <3>3
    <3>5. ASSUME natType[u] # "hidden" PROVE FALSE
      <4>1. u \in bound(d)
        BY <1>4, <2>3, <3>4, <3>5
      <4> QED  BY <2>2, <3>1, <4>1
    <3> QED  BY <3>4, <3>5
  <2> QED  BY <1>6, <2>4 DEF n, t, u
<1> QED  BY <1>8, <1>9

\* Sets with one of them where network i has tag t, that is not hidden; in the others it has
\* the same or a hidden one, and likewise for other networks with t.
LEMMA CombinedIsBehind ==
  ASSUME NatInv, NEW sets, Combining(sets), IsFiniteSet(DOMAIN sets), NEW s \in Range(sets), NEW i \in DOMAIN topo.networks,
         TagOf(topo.networks[i], s) = None \/ natType[TagOf(topo.networks[i], s)] # "hidden",
         \A j \in DOMAIN topo.networks : \A u \in TagsOf(j, sets) :
            LET t == TagOf(topo.networks[j], s)
            IN (t = None \/ natType[t] # "hidden") => u = t \/ (u # None /\ natType[u] = "hidden")
  PROVE  TagOf(topo.networks[i], CombineNatSets(sets)) = TagOf(topo.networks[i], s)
<1> DEFINE t == TagOf(topo.networks[i], s)
           C == CombineNatSets(sets)
<1>1. \A u \in TagsOf(i, sets) : u = t \/ (u # None /\ natType[u] = "hidden")
  OBVIOUS
<1>2. (t \in DOMAIN NatMap(i) \cap s \/ t = None) /\ \A tag \in DOMAIN NatMap(i) \cap s : t = tag
  BY ActiveOfNetwork
<1>3. None \notin DOMAIN NatMap(i) /\ topo \in Topologies
  BY TagsAreNumbers DEF Combining
<1>4. ASSUME NEW k \in DOMAIN NatMap(i) \cap C PROVE k = t
  <2>0. i \in NetworksWith(k) /\ k \in DefinedTags
    BY <1>3, TagsAreKnown
  <2>1. CASE Cardinality(DOMAIN sets) = 1
    <3>1. PICK x \in Range(sets) : k \in x
      BY <1>4, <2>1 DEF CombineNatSets
    <3>2. PICK z : DOMAIN sets = {z}
      BY <2>1, FS_Singleton
    <3>3. x = s
      BY <3>2 DEF Range
    <3> QED  BY <1>2, <3>1, <3>3
  <2>2. CASE Cardinality(DOMAIN sets) # 1 /\ k \notin DOMAIN multi
    <3>1. k \in s
      BY <1>4, <2>2, KeptIsAgreed
    <3> QED  BY <1>2, <3>1
  <2>3. CASE Cardinality(DOMAIN sets) # 1 /\ k \in DOMAIN multi
    <3>1. natType[k] # "hidden" /\ \E x \in Range(sets) : k \in x
      BY <1>4, <2>3, KeptIsAgreed
    <3>2. PICK x \in Range(sets) : k \in x
      BY <3>1
    <3>3. TagOf(topo.networks[i], x) = k
      BY <3>2, ActiveOfNetwork
    <3>4. k \in TagsOf(i, sets)
      BY <3>3 DEF TagsOf
    <3> QED  BY <1>1, <3>1, <3>4
  <2> QED  BY <2>1, <2>2, <2>3
<1>5. ASSUME t # None PROVE t \in C
  <2>1. t \in DOMAIN NatMap(i) /\ t \in s /\ t \in DefinedTags /\ natType[t] # "hidden"
    BY <1>2, <1>3, <1>5, TagsAreKnown
  <2>2. ASSUME NEW j \in NetworksWith(t) PROVE Agreed(j, t, sets)
    <3>1. j \in DOMAIN topo.networks /\ t \in DOMAIN NatMap(j)
      BY DEF NetworksWith
    <3>2. TagOf(topo.networks[j], s) = t
      BY <2>1, <3>1, ActiveOfNetwork
    <3>3. t \in TagsOf(j, sets)
      BY <3>2 DEF TagsOf
    <3> QED  BY <2>1, <3>1, <3>2, <3>3 DEF Agreed
  <2> HIDE DEF t
  <2> QED  BY <2>1, <2>2, AgreedIsKept
<1> HIDE DEF t, C
<1>6. TagOf(topo.networks[i], C) = t
  <2>1. TagOf(topo.networks[i], C) =
          IF DOMAIN NatMap(i) \cap C = {} THEN None ELSE CHOOSE tag \in DOMAIN NatMap(i) \cap C : TRUE
    BY DEF TagOf, NatMap
  <2>2. CASE t = None
    <3>1. DOMAIN NatMap(i) \cap C = {}
      BY <1>3, <1>4, <2>2
    <3> QED  BY <2>1, <2>2, <3>1
  <2>3. CASE t # None
    <3>1. DOMAIN NatMap(i) \cap C = {t}
      BY <1>2, <1>4, <1>5, <2>3
    <3> QED  BY <2>1, <3>1
  <2> QED  BY <2>2, <2>3
<1> QED  BY <1>6 DEF t, C

(***************************************************************************)
(* For every topology and every binding of tags: if no error is shown, a   *)
(* packet is filtered by the address that a network has behind the router, *)
(* unless it is hidden there (nat.go:1044-1062).                           *)
(***************************************************************************)
THEOREM RealIpIsRight == Spec => []RealIpIsBehind
<1>1. NatInv /\ DomainsInv => RealIpIsBehind
  <2> SUFFICES ASSUME NatInv, DomainsInv, NoErrors, NEW in \in DOMAIN dstNatSet, NEW out \in Interfaces(in[1]),
                      Effective(out) # Effective(in), NEW i \in DOMAIN topo.networks,
                      LET t == TagOf(topo.networks[i], IntfNatSet(out)) IN t = None \/ natType[t] # "hidden"
               PROVE  TagOf(topo.networks[i], dstNatSet[in]) = TagOf(topo.networks[i], IntfNatSet(out))
    BY DEF RealIpIsBehind
  <2> DEFINE r == in[1]
             others == {l \in Interfaces(r) : Effective(l) # Effective(in)}
             sets == [z \in {l[2] : l \in others} |-> IntfNatSet(<<r, z>>)]
  <2>1. in \in RealIpInterfaces /\ dstNatSet[in] = CombineNatSets(sets)
    BY DEF DomainsInv, RealIpKnown, NoErrors, OtherNatSet
  <2>2. topo \in Topologies /\ in \in topo.links /\ in \in Interfaces(r) /\ Cardinality(Effectives(r)) = 2
    BY <2>1 DEF RealIpInterfaces, Interfaces, NatInv, TypeInv
  <2>3. topo.links \subseteq (Nat \ {0}) \X (Nat \ {0})
    BY <2>2, NatAssumption
  <2>4. \A l \in Interfaces(r) : l \in topo.links /\ l = <<r, l[2]>> /\ l[1] = r /\ l[2] \in Nat
    BY <2>3 DEF Interfaces
  <2>5. DOMAIN sets \subseteq Nat /\ \A z \in DOMAIN sets : \E l \in others : l[2] = z /\ sets[z] = IntfNatSet(l)
    BY <2>4
  <2>6. \A l \in others : Effective(l) = Effective(out)
    <3>1. IsFiniteSet(Effectives(r))
      <4> DEFINE f == [l \in Interfaces(r) |-> Effective(l)]
      <4>1. IsFiniteSet(Interfaces(r))
        <5>1. Interfaces(r) \subseteq topo.links /\ IsFiniteSet(topo.links)
          BY <2>2, NatAssumption DEF Interfaces
        <5> QED  BY <5>1, FS_Subset
      <4>2. Effectives(r) = {f[l] : l \in Interfaces(r)} /\ DOMAIN f = Interfaces(r)
        BY DEF Effectives
      <4> HIDE DEF f
      <4> QED  BY <4>1, <4>2, FiniteImage
    <3> SUFFICES ASSUME NEW l \in others, Effective(l) # Effective(out) PROVE FALSE
      OBVIOUS
    <3> DEFINE T == {Effective(in), Effective(out), Effective(l)}
    <3>2. T \subseteq Effectives(r)
      BY <2>2 DEF Effectives
    <3>3. Cardinality(T) = 3
      <4> DEFINE a == Effective(in)
                 b == Effective(out)
                 c == Effective(l)
      <4>1. a # b /\ b # c /\ a # c
        OBVIOUS
      <4> HIDE DEF a, b, c
      <4>2. Cardinality({a}) = 1 /\ IsFiniteSet({a})
        BY FS_Singleton
      <4>3. Cardinality({a} \cup {b}) = 2 /\ IsFiniteSet({a} \cup {b})
        <5>1. b \notin {a}
          BY <4>1
        <5>2. Cardinality({a} \cup {b}) = Cardinality({a}) + 1 /\ IsFiniteSet({a} \cup {b})
          BY <4>2, <5>1, FS_AddElement
        <5> QED  BY <4>2, <5>2
      <4>4. Cardinality(({a} \cup {b}) \cup {c}) = 3
        <5>1. c \notin {a} \cup {b}
          BY <4>1
        <5> DEFINE S == {a} \cup {b}
        <5>2. IsFiniteSet(S) /\ c \notin S /\ Cardinality(S) = 2
          BY <4>3, <5>1
        <5> HIDE DEF S
        <5>3. Cardinality(S \cup {c}) = Cardinality(S) + 1
          BY <5>2, FS_AddElement
        <5>4. Cardinality(S \cup {c}) = 3
          BY <5>2, <5>3
        <5> QED  BY <5>4 DEF S
      <4>5. T = ({a} \cup {b}) \cup {c}
        BY DEF a, b, c
      <4> QED  BY <4>4, <4>5
    <3> HIDE DEF T
    <3>4. Cardinality(T) <= Cardinality(Effectives(r))
      BY <3>1, <3>2, FS_Subset
    <3> QED  BY <2>2, <3>3, <3>4
  <2>7. Combining(sets)
    <3>1. \A z \in DOMAIN sets : \E d \in Domains : sets[z] = natSet[d]
      BY <2>4, <2>5, InterfaceDomain DEF IntfNatSet
    <3> HIDE DEF sets
    <3> QED  BY <2>5, <3>1, DomainSetsCombine
  <2>8. IntfNatSet(out) \in Range(sets)
    <3>1. out \in others /\ out[2] \in DOMAIN sets /\ out = <<r, out[2]>>
      BY <2>4
    <3>2. sets[out[2]] = IntfNatSet(out)
      BY <3>1
    <3> HIDE DEF sets
    <3> QED  BY <3>1, <3>2 DEF Range
  <2>9. ASSUME NEW j \in DOMAIN topo.networks, NEW u \in TagsOf(j, sets),
               LET t == TagOf(topo.networks[j], IntfNatSet(out)) IN t = None \/ natType[t] # "hidden"
        PROVE  u = TagOf(topo.networks[j], IntfNatSet(out)) \/ (u # None /\ natType[u] = "hidden")
    <3>1. PICK s \in Range(sets) : u = TagOf(topo.networks[j], s)
      BY DEF TagsOf
    <3>2. PICK l \in others : s = IntfNatSet(l)
      <4> HIDE DEF sets, others
      <4>1. PICK z \in DOMAIN sets : s = sets[z]
        BY <3>1 DEF Range
      <4> QED  BY <2>5, <4>1
    <3> QED  BY <2>2, <2>4, <2>6, <2>9, <3>1, <3>2, SameOrHidden
  <2>10. IsFiniteSet(DOMAIN sets)
    <3> DEFINE f == [l \in others |-> l[2]]
    <3>1. others \subseteq topo.links /\ IsFiniteSet(topo.links)
      BY <2>2, NatAssumption DEF Interfaces
    <3>2. IsFiniteSet(others)
      BY <3>1, FS_Subset
    <3>3. DOMAIN sets = {f[l] : l \in others} /\ DOMAIN f = others
      OBVIOUS
    <3> HIDE DEF sets, others, f
    <3> QED  BY <3>2, <3>3, FiniteImage
  <2> HIDE DEF sets
  <2> QED  BY <2>1, <2>7, <2>8, <2>9, <2>10, CombinedIsBehind
<1> QED  BY DomainsInvariance, <1>1, PTL
=============================================================================
