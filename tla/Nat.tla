--------------------------------- MODULE Nat ---------------------------------
(***************************************************************************)
(* Distribution of network address translation (nat.go).  A network has    *)
(* NAT definitions, each with a tag.  A tag that is bound to an interface  *)
(* of a router translates all networks which have it behind the interface  *)
(* as seen from the router, until the tag is bound at an interface facing  *)
(* it or another tag of the same network is bound.  The program divides    *)
(* the topology into domains with equal translation and finds for each     *)
(* domain its NAT set: the tags that are active there.                     *)
(*                                                                         *)
(* Zones, routers and tags are numbered in the order of their names.       *)
(* Every router is managed, each of its interfaces has a hardware of its   *)
(* own.  Hosts and interfaces with a translation of their own, tunnels,    *)
(* secondary interfaces, the search of errMissingBindNat for a place to    *)
(* name in its message and warnings about useless tags are left out.       *)
(***************************************************************************)
EXTENDS Integers, SequencesExt, FiniteSetsExt

CONSTANT Topologies

(***************************************************************************)
(* A topology: links, the interfaces <<router, zone>>; bind, the tags      *)
(* bound to each interface; networks, the networks with NAT definitions in *)
(* the order of c.allNetworks, each with its zone and nat, a function from *)
(* tags to types; realIp, the routers with attribute acl_use_real_ip.      *)
(***************************************************************************)
ASSUME NatAssumption ==
  \A t \in Topologies :
     /\ t.links \subseteq (Nat \ {0}) \X (Nat \ {0}) /\ IsFiniteSet(t.links)
     /\ DOMAIN t.bind = t.links
     /\ \A l \in t.links : t.bind[l] \subseteq Nat \ {0}
     /\ Len(t.networks) \in Nat /\ DOMAIN t.networks = 1 .. Len(t.networks)
     /\ \A i \in DOMAIN t.networks :
           /\ \E l \in t.links : l[2] = t.networks[i].zone
           /\ IsFiniteSet(DOMAIN t.networks[i].nat) /\ DOMAIN t.networks[i].nat \subseteq Nat \ {0}
           /\ \A tag \in DOMAIN t.networks[i].nat :
                 t.networks[i].nat[tag] \in {"static", "dynamic", "hidden"}

VARIABLES
  topo,      \* the topology
  step,      \* step of distributeNatInfo that comes next
  domains,   \* natDomains: number of first zone -> set of its zones
  natTags,   \* router.natTags: router -> domain -> tags bound to the border
  natType,   \* map of getLookupMapForNatType
  multi,     \* map of generateMultinatDefLookup: tag -> sequence of NAT maps
  natSet,    \* natDomain.natSet
  calls,     \* calls of distributeNat still to be made: <<domain, router, tag>>
  stack,     \* calls of distributeNat1 that are active
  natErrors, \* variable of distributeNatTagsToNatDomains
  dstNatSet, \* hardware.dstNatSet where it is set: interface -> tags
  errors     \* kinds of error that have been shown

vars == <<topo, step, domains, natTags, natType, multi, natSet, calls, stack, natErrors,
          dstNatSet, errors>>

None == 0

Tags(bind) == UNION {bind[l] : l \in DOMAIN bind}
AllTags == Tags(topo.bind) \union UNION {DOMAIN n.nat : n \in ToSet(topo.networks)}
Zones == {l[2] : l \in topo.links}
Routers == {l[1] : l \in topo.links}
Domains == DOMAIN domains
Interfaces(r) == {l \in topo.links : l[1] = r}
First(S) == CHOOSE x \in S : \A y \in S : x <= y
\* The least of a set of pairs or triples, in lexical order.
Before(x, y) == \E i \in DOMAIN x : x[i] < y[i] /\ \A j \in 1 .. i - 1 : x[j] = y[j]
Least(S) == {x \in S : \A y \in S \ {x} : Before(x, y)}
\* Map f with a new entry, unless it has an entry for x.
With(f, x, v) == [y \in DOMAIN f \union {x} |-> IF y \in DOMAIN f THEN f[y] ELSE v]

Init ==
  /\ topo \in Topologies
  /\ step = "domains"
  /\ domains = << >>
  /\ natTags = [r \in {l[1] : l \in topo.links} |-> << >>]
  /\ natType = << >> /\ multi = << >> /\ natSet = << >>
  /\ calls = {} /\ stack = << >> /\ natErrors = FALSE
  /\ dstNatSet = << >>
  /\ errors = {}

-----------------------------------------------------------------------------
(***************************************************************************)
(* findNatDomains                                                          *)
(***************************************************************************)
\* Zones next to the zones Z across a router with equal NAT binding.
SameDomain(Z) ==
  Z \union {out[2] : out \in {out \in topo.links :
              \E intf \in Interfaces(out[1]) :
                 intf[2] \in Z /\ intf # out /\ topo.bind[intf] = topo.bind[out]}}

DomainOf(z) ==
  LET Reached[k \in Nat] == IF k = 0 THEN {z} ELSE SameDomain(Reached[k - 1])
  IN  Reached[Cardinality(Zones)]

\* The binding of interfaces of router r to zones Z with another binding somewhere at r.
BorderTags(r, Z) ==
  {topo.bind[intf] : intf \in {i \in Interfaces(r) :
      i[2] \in Z /\ \E out \in Interfaces(r) : topo.bind[out] # topo.bind[i]}}

\* Zones Z become domain d.  A router with several bindings at a domain keeps the one
\* that was found first.
SetNatDomain(d, Z, borders) ==
  /\ domains' = With(domains, d, Z)
  /\ \E tags \in {f \in [borders -> UNION {BorderTags(r, Z) : r \in borders}] :
                    \A r \in borders : f[r] \in BorderTags(r, Z)} :
       natTags' = [r \in Routers |-> IF r \in borders THEN With(natTags[r], d, tags[r])
                                     ELSE natTags[r]]
  /\ errors' = errors \union (IF \E r \in borders : Cardinality(BorderTags(r, Z)) > 1
                              THEN {"Inconsistent NAT in loop"} ELSE {})

\* The next zone without a domain starts one.
FindNatDomain ==
  /\ step = "domains"
  /\ Zones # UNION Range(domains)
  /\ \E d \in {First(Zones \ UNION Range(domains))} : \E Z \in {DomainOf(d)} :
       SetNatDomain(d, Z, {r \in Routers : BorderTags(r, Z) # {}})
  /\ UNCHANGED <<topo, step, natType, multi, natSet, calls, stack, natErrors, dstNatSet>>

-----------------------------------------------------------------------------
(***************************************************************************)
(* getLookupMapForNatType, generateMultinatDefLookup                       *)
(***************************************************************************)
NatMap(i) == topo.networks[i].nat
NetworksWith(tag) == {i \in DOMAIN topo.networks : tag \in DOMAIN NatMap(i)}
DefinedTags == {tag \in AllTags : NetworksWith(tag) # {}}
LookupNatType == [tag \in DefinedTags |-> NatMap(First(NetworksWith(tag)))[tag]]
TypesDiffer == \E tag \in DefinedTags : \E i \in NetworksWith(tag) :
                  NatMap(i)[tag] # LookupNatType[tag]

\* Add a NAT map to the list of a hidden tag: of two where one has all tags of the other, one is kept.
AddHidden(list, m) ==
  IF \A i \in DOMAIN list : ~(DOMAIN m \subseteq DOMAIN list[i]) /\ ~(DOMAIN list[i] \subseteq DOMAIN m)
  THEN Append(list, m)
  ELSE LET i == First({i \in DOMAIN list : \/ DOMAIN m \subseteq DOMAIN list[i]
                                           \/ DOMAIN list[i] \subseteq DOMAIN m})
       IN IF DOMAIN m \subseteq DOMAIN list[i] THEN list ELSE [list EXCEPT ![i] = m]
\* Add a NAT map to the list of another tag: no two with the same tags.
AddOther(list, m) ==
  IF \E i \in DOMAIN list : DOMAIN list[i] = DOMAIN m THEN list ELSE Append(list, m)

\* The list of a tag, from the first networks on.
NatMaps(tag) ==
  LET List[k \in Nat] ==
        IF k = 0 THEN << >>
        ELSE IF tag \notin DOMAIN NatMap(k) THEN List[k - 1]
        ELSE IF LookupNatType[tag] = "hidden" THEN AddHidden(List[k - 1], NatMap(k))
        ELSE AddOther(List[k - 1], NatMap(k))
  IN  List[Len(topo.networks)]
MultinatDefLookup ==
  [tag \in {tag \in DefinedTags :
              ~(Len(NatMaps(tag)) = 1 /\ Cardinality(DOMAIN NatMaps(tag)[1]) = 1)} |-> NatMaps(tag)]

\* distributeNatTagsToNatDomains: the calls of distributeNat.
DistributeCalls ==
  {c \in Domains \X Routers \X AllTags :
     c[1] \in DOMAIN natTags[c[2]] /\ c[3] \in natTags[c[2]][c[1]]}

LookupNat ==
  /\ step = "domains"
  /\ Zones = UNION Range(domains)
  /\ natType' = LookupNatType
  /\ errors' = errors \union (IF TypesDiffer THEN {"equal type"} ELSE {})
  /\ multi' = MultinatDefLookup
  /\ natSet' = [d \in Domains |-> {}]
  /\ calls' = DistributeCalls
  /\ step' = "distribute"
  /\ UNCHANGED <<topo, domains, natTags, stack, natErrors, dstNatSet>>

-----------------------------------------------------------------------------
(***************************************************************************)
(* distributeNat, distributeNat1                                           *)
(***************************************************************************)
MultinatMaps(tag) == IF tag \in DOMAIN multi THEN multi[tag] ELSE << >>

\* Mutant: an invalid transition is marked at the tag that is missing.
MutInvalidSwapped(tag, tag2) ==
  \E list \in Range(multi) :
     /\ Len(list) > 1
     /\ \E m \in ToSet(list) : tag \in DOMAIN m
     /\ \E m \in ToSet(list) : tag2 \in DOMAIN m /\ tag \notin DOMAIN m

\* markInvalidNatTransitions: both tags occur in NAT maps of a list, but some map has only the first.
InvalidTransition(tag, tag2) ==
  \E list \in Range(multi) :
     /\ Len(list) > 1
     /\ \E m \in ToSet(list) : tag2 \in DOMAIN m
     /\ \E m \in ToSet(list) : tag \in DOMAIN m /\ tag2 \notin DOMAIN m

\* checkForProperNatTransition
ImproperTransition(tag, tag2, m) ==
  \/ m[tag] = "hidden"
  \/ m[tag] = "dynamic" /\ m[tag2] = "static"
  \/ InvalidTransition(tag, tag2)

\* Domains next to d where distributeNat1 looks, if it came from router in.
Adjacent(in, d, tag) ==
  {x \in (Routers \ {in}) \X Domains :
     /\ d \in DOMAIN natTags[x[1]] /\ tag \notin natTags[x[1]][d]
     /\ x[2] \in DOMAIN natTags[x[1]] \ {d}}

\* Tags of the binding that deactivate tag, since some network has both.
Deactivating(tag, tags) ==
  {tag2 \in tags : \E m \in ToSet(MultinatMaps(tag)) : tag2 \in DOMAIN m}

Enter(in, d, tag, below) ==
  IF tag \in natSet[d] THEN natSet' = natSet /\ stack' = below
  ELSE /\ natSet' = [natSet EXCEPT ![d] = @ \union {tag}]
       /\ stack' = Append(below, [dom |-> d, tag |-> tag, todo |-> Adjacent(in, d, tag)])

\* The loop of distributeNatTagsToNatDomains calls distributeNat.
DistributeNat ==
  /\ step = "distribute" /\ stack = << >> /\ calls # {}
  /\ \E c \in Least(calls) :
       /\ calls' = calls \ {c}
       /\ Enter(c[2], c[1], c[3], << >>)
  /\ UNCHANGED <<topo, step, domains, natTags, natType, multi, natErrors, dstNatSet, errors>>

Current == Last(stack)
NextTags(next) == natTags[next[1]][next[2]]
Rest(next) == [stack EXCEPT ![Len(stack)].todo = @ \ {next}]

(***************************************************************************)
(* The same tag is reached twice: all calls return true, and no further    *)
(* call of distributeNat is made.                                          *)
(***************************************************************************)
ReachTwice ==
  /\ stack # << >>
  /\ \E next \in Least(Current.todo) : Current.tag \in NextTags(next)
  /\ natErrors' = TRUE
  /\ errors' = errors \union {"Missing bind_nat"}
  /\ stack' = << >> /\ calls' = {}
  /\ UNCHANGED <<topo, step, domains, natTags, natType, multi, natSet, dstNatSet>>

\* The first NAT map of the tag that has also tag2.
MapWith(tag, tag2) ==
  LET maps == MultinatMaps(tag) IN maps[First({i \in DOMAIN maps : tag2 \in DOMAIN maps[i]})]

\* Another tag of the same network takes over.
Deactivate ==
  /\ stack # << >>
  /\ \E next \in Least(Current.todo) :
       /\ Current.tag \notin NextTags(next)
       /\ Deactivating(Current.tag, NextTags(next)) # {}
       /\ \E tag2 \in {First(Deactivating(Current.tag, NextTags(next)))} :
            errors' = errors \union
              (IF ImproperTransition(Current.tag, tag2, MapWith(Current.tag, tag2))
                 THEN {"Improper transition"} ELSE {})
       /\ stack' = Rest(next)
  /\ UNCHANGED <<topo, step, domains, natTags, natType, multi, natSet, calls, natErrors, dstNatSet>>

\* The tag is active in the next domain.
Proceed ==
  /\ stack # << >>
  /\ \E next \in Least(Current.todo) :
       /\ Current.tag \notin NextTags(next)
       /\ Deactivating(Current.tag, NextTags(next)) = {}
       /\ Enter(next[1], next[2], Current.tag, Rest(next))
  /\ UNCHANGED <<topo, step, domains, natTags, natType, multi, calls, natErrors, dstNatSet, errors>>

Return ==
  /\ stack # << >> /\ Current.todo = {}
  /\ stack' = Front(stack)
  /\ UNCHANGED <<topo, step, domains, natTags, natType, multi, natSet, calls, natErrors, dstNatSet, errors>>

-----------------------------------------------------------------------------
(***************************************************************************)
(* checkMultinatErrors, checkNatDefinitions, checkNatNetworkLocation       *)
(***************************************************************************)
GroupedActive ==
  \E d \in Domains : \E tag \in natSet[d] : \E m \in ToSet(MultinatMaps(tag)) :
     \E tag2 \in DOMAIN m : tag2 # tag /\ tag2 \in natSet[d]

DomainOfZone(z) == CHOOSE d \in Domains : z \in domains[d]
Home(n) == DomainOfZone(n.zone)
InsideTranslation ==
  \E n \in ToSet(topo.networks) : DOMAIN n.nat \intersect natSet[Home(n)] # {}

CheckNat ==
  /\ step = "distribute" /\ stack = << >> /\ calls = {}
  /\ errors' = errors
       \union (IF GroupedActive THEN {"must not both be active"} ELSE {})
       \union (IF ~natErrors /\ InsideTranslation THEN {"inside the translation domain"} ELSE {})
  /\ natType' = [tag \in DOMAIN natType \union UNION {UNION Range(natTags[r]) : r \in Routers} |->
                    IF tag \in DOMAIN natType THEN natType[tag] ELSE "static"]
  /\ step' = "real ip"
  /\ UNCHANGED <<topo, domains, natTags, multi, natSet, calls, stack, natErrors, dstNatSet>>

-----------------------------------------------------------------------------
(***************************************************************************)
(* combineNatSets: one NAT set for NAT sets that are numbered in the order *)
(* of the slice.  Maps are ranged over in the order of their tags.         *)
(***************************************************************************)
\* The NAT maps of tags of the sets, each as its set, the tag and the place in the list.
MapPlaces(sets) ==
  {p \in UNION {{<<i, tag, k>> : k \in DOMAIN MultinatMaps(tag)} : i \in DOMAIN sets, tag \in AllTags} :
     p[2] \in sets[p[1]]}
TagsAt(p) == DOMAIN MultinatMaps(p[2])[p[3]]

\* activeMulti: tags of the NAT maps in order, without those that bring no new tag.
IsNew(sets, p) ==
  ~(TagsAt(p) \subseteq UNION {TagsAt(q) : q \in {q \in MapPlaces(sets) : Before(q, p)}})
ActiveMulti(sets) == {TagsAt(p) : p \in {p \in MapPlaces(sets) : IsNew(sets, p)}}

\* activeMultiSets: the active tag of the NAT map with tags m in each of the sets, or None.
ActiveTags(m, sets) ==
  {IF m \intersect s = {} THEN None ELSE First(m \intersect s) : s \in Range(sets)}

\* Mutant: hidden tags are not told from real ones.
MutRealTags(tags) == tags

RealTags(tags) == {tag \in tags : natType[tag] # "hidden"}
\* Mutant: a set without active tag is not regarded.
MutAddedTag(active) ==
  IF Cardinality(RealTags(active \ {None})) # 1 THEN None
  ELSE CHOOSE tag \in RealTags(active \ {None}) : TRUE

AddedTag(active) ==
  IF None \in active \/ Cardinality(RealTags(active)) # 1 THEN None
  ELSE CHOOSE tag \in RealTags(active) : TRUE

CombineNatSets(sets) ==
  IF Cardinality(DOMAIN sets) = 1 THEN UNION Range(sets)
  ELSE LET actives == {ActiveTags(m, sets) : m \in ActiveMulti(sets)}
           single == {tag \in UNION Range(sets) : tag \notin DOMAIN multi}
           ignore == UNION {active \ {AddedTag(active)} : active \in actives}
       IN {tag \in single : \A s \in Range(sets) : tag \in s}
            \union ({AddedTag(active) : active \in actives} \ (ignore \union {None}))

-----------------------------------------------------------------------------
(***************************************************************************)
(* distributeNatSetsToInterfaces, prepareRealIpNatRouters                  *)
(***************************************************************************)
IntfNatSet(l) == natSet[DomainOfZone(l[2])]

Effective(l) == {tag \in topo.bind[l] : natType[tag] # "hidden"}
Effectives(r) == {Effective(l) : l \in Interfaces(r)}

\* NAT set of the interfaces of a router with another effective NAT than interface l,
\* in the order of their zones.
OtherNatSet(l) ==
  LET others == {out \in Interfaces(l[1]) : Effective(out) # Effective(l)}
  IN CombineNatSets([z \in {out[2] : out \in others} |-> IntfNatSet(<<l[1], z>>)])

PrepareRealIpNat ==
  /\ step = "real ip"
  /\ dstNatSet' = [l \in {l \in topo.links : /\ l[1] \in topo.realIp
                                             /\ Cardinality(Effectives(l[1])) = 2} |-> OtherNatSet(l)]
  /\ errors' = errors \union (IF \E r \in topo.realIp : Cardinality(Effectives(r)) > 2
                              THEN {"acl_use_real_ip"} ELSE {})
  /\ step' = "done"
  /\ UNCHANGED <<topo, domains, natTags, natType, multi, natSet, calls, stack, natErrors>>

Next ==
  \/ FindNatDomain \/ LookupNat
  \/ DistributeNat \/ ReachTwice \/ Deactivate \/ Proceed \/ Return
  \/ CheckNat \/ PrepareRealIpNat

\* distributeNatInfo has returned.
Finished == step = "done" /\ UNCHANGED vars

Spec == Init /\ [][Next \/ Finished]_vars

-----------------------------------------------------------------------------
(***************************************************************************)
(* getNatNetwork: the tag of the address a network has with a NAT set.     *)
(***************************************************************************)
TagOf(n, set) ==
  IF DOMAIN n.nat \intersect set = {} THEN None ELSE CHOOSE tag \in DOMAIN n.nat \intersect set : TRUE

(***************************************************************************)
(* Reference: how the translations of network n in two domains at router r *)
(* fit together.  A tag of the network that is bound at a domain is in     *)
(* effect there; it is not in effect at the other side; nothing changes    *)
(* if no tag of the network is bound at either side.                       *)
(***************************************************************************)
Fits(n, r, d, out) ==
  LET bound(x) == DOMAIN n.nat \intersect natTags[r][x]
      tag(x) == TagOf(n, natSet[x])
  IN IF bound(d) \union bound(out) = {} THEN tag(d) = tag(out)
     ELSE \A x \in {d, out} : IF bound(x) = {} THEN tag(x) \notin bound(d) \union bound(out)
                              ELSE bound(x) = {tag(x)}

NoErrors == step = "done" /\ errors = {}

(***************************************************************************)
(* If no error is shown, the NAT sets of the domains are the address each  *)
(* network has in packets: its own address at home, one translation at     *)
(* most elsewhere, and at each router the translations of both sides fit   *)
(* to the bound tags.  An error is shown for each binding without such a   *)
(* solution (nat.go:615-886).                                              *)
(***************************************************************************)
TranslationFits ==
  NoErrors => \A i \in DOMAIN topo.networks : \E n \in {topo.networks[i]} :
     /\ TagOf(n, natSet[Home(n)]) = None
     /\ \A d \in Domains : Cardinality(DOMAIN n.nat \intersect natSet[d]) <= 1
     /\ \A r \in Routers : \A d, out \in DOMAIN natTags[r] : d # out => Fits(n, r, d, out)

\* A NAT map of the tag may be skipped in combineNatSets, since others have its tags (nat.go:1131).
MayBeSkipped(tag) ==
  \E i \in DOMAIN MultinatMaps(tag) : \E others \in {{m \in UNION {ToSet(l) : l \in Range(multi)} :
        DOMAIN m # DOMAIN MultinatMaps(tag)[i]}} :
     DOMAIN MultinatMaps(tag)[i] \subseteq UNION {DOMAIN m : m \in others}

(***************************************************************************)
(* combineNatSets never invents a translation and keeps each that all sets *)
(* agree on: a real tag is active in the combined set if and only if each  *)
(* network with this tag has it in some set and it is the only one, except *)
(* hidden ones (nat.go:1100-1107).  Not for tags of which a NAT map may be *)
(* skipped: it depends on the order of the sets if it is analysed.         *)
(***************************************************************************)
CombinedKeepsAddress ==
  NoErrors => \A ds \in UNION {SetToSeqs(D) : D \in (SUBSET Domains) \ {{}}} :
     \E sets \in {[i \in DOMAIN ds |-> natSet[ds[i]]]} :
     \E combined \in {CombineNatSets(sets)} :
        \A tag \in {tag \in DefinedTags : natType[tag] # "hidden" /\ ~MayBeSkipped(tag)} :
           tag \in combined <=>
             \A i \in DOMAIN topo.networks :
                LET n == topo.networks[i]
                    tags == {TagOf(n, s) : s \in Range(sets)}
                IN tag \in DOMAIN n.nat =>
                     tag \in tags /\ \A t \in tags \ {tag} : t # None /\ natType[t] = "hidden"

(***************************************************************************)
(* acl_use_real_ip: packets that enter at an interface and leave at one    *)
(* with another effective NAT are filtered by the address that a network   *)
(* has behind the router, unless it is hidden there (nat.go:1044-1062).    *)
(* It says nothing of two interfaces with equal effective NAT: there the   *)
(* code takes the address that the network has at the other group.         *)
(***************************************************************************)
RealIpIsBehind ==
  NoErrors => \A in \in DOMAIN dstNatSet : \A out \in Interfaces(in[1]) :
     Effective(out) # Effective(in) =>
       \A i \in DOMAIN topo.networks :
          \E behind \in {TagOf(topo.networks[i], IntfNatSet(out))} :
             \/ behind # None /\ natType[behind] = "hidden"
             \/ TagOf(topo.networks[i], dstNatSet[in]) = behind
=============================================================================
