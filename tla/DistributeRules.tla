-------------------------- MODULE DistributeRules --------------------------
(***************************************************************************)
(* Rules are marked for secondary optimization (mark-secondary-rules.go)   *)
(* and added to ACLs of routers on their path (distribute-rules.go).       *)
(*                                                                         *)
(* What a router does with a packet follows from its ACLs, as they are     *)
(* passed to pass 2 (optRules in print-code.go) and optimized there.       *)
(***************************************************************************)
EXTENDS CheckSupernet

VARIABLES
  optimized,  \* <<"secondary", rule>> for rules with attribute someNonSecondary,
              \* <<"primary", rule>> for rules with attribute somePrimary
  acls        \* rules of ACLs: records with fields router, dir, in, out and rule

distributeVars == <<optimized, acls>>

InitDistribute == optimized = {} /\ acls = {}

-----------------------------------------------------------------------------
(***************************************************************************)
(* markSecondaryRules                                                      *)
(***************************************************************************)
Kinds == {"secondary", "primary"}

\* Routers that are looked through: markSecondary, markPrimary.
Weak(kind) ==
  {r \in Routers : IF kind = "secondary" THEN policy.managed[r] \in {"secondary", "local"} ELSE policy.managed[r] # "primary"}
SameMark(kind, a, b) == Connected(a, b, Weak(kind))
IsMarked(kind, z) == \E r \in Weak(kind) : <<r, z>> \in Links

\* getZone: zone of a list of objects; there may be none for interfaces of a router.
MarkZones(p, list) ==
  IF p \in Zones THEN {p}
  ELSE IF policy.managed[p] = "secondary" THEN {CHOOSE z \in Zones : <<p, z>> \in Links}
  ELSE LET zones == {IntfZone(o) : o \in list} IN IF Cardinality(zones) = 1 THEN zones ELSE {}

MarkPairs(r) == MarkZones(r.srcPath, r.src) \X MarkZones(r.dstPath, r.dst)
Optimizable(kind) ==
  {r \in pathRules : ~r.deny /\ \E x \in MarkPairs(r) : ~SameMark(kind, x[1], x[2])}

\* getNetworks, without supernets.
RealNets(list) == {NetOf(o) : o \in {x \in list : ~IsSupernet(x)}}

Side(r, isSrc) == IF isSrc THEN r.src ELSE r.dst
SideZone(r, isSrc) == LET x == CHOOSE y \in MarkPairs(r) : TRUE IN IF isSrc THEN x[1] ELSE x[2]

\* collectConflict: both rules are found with the same key of map conflict.  A rule with
\* supernets is found with each network of its other side, but the rule in conflict only
\* with one of them: the first one of its list, in any order.
OtherNets(r, isSrc) == {NetOf(o) : o \in Side(r, ~isSrc)}

\* Mutant of SameKey: only supernets at the source are looked at.
SameKeySrc(kind, r, q, isSrc, first) ==
  /\ isSrc
  /\ IsMarked(kind, SideZone(r, isSrc)) /\ IsMarked(kind, SideZone(q, isSrc))
  /\ SameMark(kind, SideZone(r, isSrc), SideZone(q, isSrc))
  /\ first \in OtherNets(q, isSrc)

SameKey(kind, r, q, isSrc, first) ==
  /\ IsMarked(kind, SideZone(r, isSrc)) /\ IsMarked(kind, SideZone(q, isSrc))
  /\ SameMark(kind, SideZone(r, isSrc), SideZone(q, isSrc))
  /\ first \in OtherNets(q, isSrc)

\* checkConflict: a rule for a network in a supernet of another rule.
InSupernet(r, q, isSrc) ==
  /\ ~NoCheck(r) /\ ~NoCheck(q) /\ q.prts # {TcpEsta}
  /\ \E s \in {o \in Side(q, isSrc) : IsSupernet(o)}, n \in RealNets(Side(r, isSrc)) :
       s[1] # n[1] /\ IsSmaller(n, s)

\* Here firsts[isSrc] is the first network of the other side.
HasConflict(kind, r, firsts) ==
  \E q \in Optimizable(kind), isSrc \in BOOLEAN :
    InSupernet(r, q, isSrc) /\ SameKey(kind, r, q, isSrc, firsts[isSrc])

\* What a rule may be marked with, for each order of its lists.
MarksOf(r) ==
  LET Marks(firsts) ==
        {<<kind, r>> : kind \in {k \in Kinds : r \in Optimizable(k) /\ ~HasConflict(k, r, firsts)}}
  IN {Marks([isSrc \in BOOLEAN |-> IF isSrc THEN n ELSE m]) :
        n \in OtherNets(r, TRUE), m \in OtherNets(r, FALSE)}

MarkSecondaryRules ==
  /\ step = "secondary"
  /\ optimized' \in FoldSet(LAMBDA r, sets : {x \cup y : x \in MarksOf(r), y \in sets}, {{}},
                           pathRules)
  /\ step' = "distribute"
  /\ UNCHANGED acls

-----------------------------------------------------------------------------
(***************************************************************************)
(* rulesDistribution                                                       *)
(***************************************************************************)
\* Attribute needOutAcl and noInAcl of an interface.
NeedOutAcl(r, z) == HasNoInAcl(r) /\ policy.noInAcl[r] # z
NoInAcl(r, z) == HasNoInAcl(r) /\ policy.noInAcl[r] = z

\* A local router gets the matching elements of a rule.
Matching(rule, r) == [rule EXCEPT !.src = FilteredAt(r, @), !.dst = FilteredAt(r, @)]

InAcl(rule, h) ==
  [router |-> h.router, dir |-> "in", in |-> h.in, out |-> IF Is(h.router, "ioACL") THEN h.out ELSE None, rule |-> Matching(rule, h.router)]
OutAcl(rule, h) == [router |-> h.router, dir |-> "out", in |-> None, out |-> h.out, rule |-> Matching(rule, h.router)]
SelfAcl(rule, h) == [router |-> h.router, dir |-> "self", in |-> h.in, out |-> None, rule |-> Matching(rule, h.router)]

IsIgnored(rule, h) ==
  \/ h.in = None
  \/ "stateless" \in rule.mods
     /\ ~Is(h.router, "stateless") /\ ~(h.out = None /\ Is(h.router, "statelessSelf"))
  \/ h.out = None /\ Is(h.router, "ASA")
  \/ FilteredAt(h.router, rule.src) = {} \/ FilteredAt(h.router, rule.dst) = {}

\* Mutant of DistributeRule: a rule with outgoing ACL isn't added to the incoming one.
DistributeOut(rule, h) ==
  IF IsIgnored(rule, h) THEN {}
  ELSE IF h.out = None THEN {SelfAcl(rule, h)}
  ELSE IF NeedOutAcl(h.router, h.out) THEN {OutAcl(rule, h)}
  ELSE {InAcl(rule, h)}

DistributeRule(rule, h) ==
  IF IsIgnored(rule, h) THEN {}
  ELSE IF h.out = None THEN {SelfAcl(rule, h)}
  ELSE IF ~NeedOutAcl(h.router, h.out) THEN {InAcl(rule, h)}
  ELSE {OutAcl(rule, h)} \cup (IF NoInAcl(h.router, h.in) THEN {} ELSE {InAcl(rule, h)})

RulesDistribution ==
  /\ step = "distribute"
  /\ acls' = UNION {UNION {DistributeRule(r, h) : h \in Hops[r.srcPath, r.dstPath]} : r \in pathRules}
  /\ step' = "print routes"
  /\ UNCHANGED optimized

NextDistribute ==
  \/ MarkSecondaryRules
  \/ RulesDistribution

-----------------------------------------------------------------------------
(***************************************************************************)
(* Secondary optimization of an ACL                                        *)
(***************************************************************************)
OptKind(router) ==
  CASE policy.managed[router] = "secondary" -> {"secondary"}
    [] policy.managed[router] = "standard"  -> {"primary"}
    [] OTHER                                -> {}

IsOptimized(rule, router) == \E kind \in OptKind(router) : <<kind, rule>> \in optimized
OptRules(R, router) == {r \in R : IsOptimized(r, router)}

\* optRules: a larger network replaces an object, but none that has other subnets.
Subst(o) ==
  IF IsNetwork(o)
  THEN IF o \in hasOther \/ MaxSecondaryNet(o) = None THEN {} ELSE {MaxSecondaryNet(o)}
  ELSE LET n == NetOf(o)
       IN  IF n \in hasOther THEN {}
           ELSE {m \in {IF MaxSecondaryNet(n) = None THEN n ELSE MaxSecondaryNet(n)} : m[3] > 0}

Addr2(o) == <<o[2], o[3]>>
OptNetworks(R, router) == UNION {{Addr2(n) : n \in UNION {Subst(o) : o \in r.src \cup r.dst}} : r \in OptRules(R, router)}
NoOptAddrs(R, router) == {Addr2(o) : o \in {x \in UNION {r.src \cup r.dst : r \in OptRules(R, router)} : IsSupernet(x)}}

\* Rules of pass 2: single objects, with protocol "ip" if optimized.
MatchAddr(k, src, dst) == k.src \in Block(src) /\ k.dst \in Block(dst)
MatchPrts(r, k) == (\E p \in r.prts : MatchPrt(p, k)) /\ (r.range = PrtIP \/ MatchSrcRange(r.range, k))

MatchRule(r, k) == MatchPrts(r, k) /\ \E s \in r.src, d \in r.dst : MatchAddr(k, Addr2(s), Addr2(d))

MatchOptimized(r, k, nets, noOpt) ==
  \E s \in r.src, d \in r.dst :
    IF Addr2(s) \in noOpt \/ Addr2(d) \in noOpt
    THEN MatchPrts(r, k) /\ MatchAddr(k, Addr2(s), Addr2(d))
    ELSE MatchAddr(k, OptNet(Addr2(s), nets), OptNet(Addr2(d), nets))

\* Rules with deny come first.
Permits(R, router, k) ==
  /\ ~\E r \in R : r.deny /\ MatchRule(r, k)
  /\ \E r \in R : /\ ~r.deny
                  /\ IF IsOptimized(r, router)
                     THEN \E nets \in {OptNetworks(R, router)}, noOpt \in {NoOptAddrs(R, router)} :
                            MatchOptimized(r, k, nets, noOpt)
                     ELSE MatchRule(r, k)

AclOf(router, dir, in, out) ==
  {a.rule : a \in {x \in acls : x.router = router /\ x.dir = dir /\ x.in = in /\ x.out = out}}

\* addLocalDenyRules: a local router denies other traffic between filtered networks, from
\* any source if the incoming zone has no other router; remaining traffic is permitted.
IsFiltered(r, a) == \E f \in policy.filterOnly[r] : a \in Block(f)
AnySrc(r, z) == z # None /\ \A x \in Links : x[2] = z => x[1] = r

NotLocal(R, r, z, k) ==
  /\ IsLocal(r)
  /\ ~\E q \in R : q.deny /\ MatchRule(q, k)
  /\ ~(IsFiltered(r, k.dst) /\ (IsFiltered(r, k.src) \/ AnySrc(r, z)))

PermitsLocal(R, r, z, k) == Permits(R, r, k) \/ NotLocal(R, r, z, k)

\* A packet may pass a router.
PassesRouter(h, k) ==
  /\ h.in # None /\ h.out # None /\ ~NoInAcl(h.router, h.in) =>
       PermitsLocal(AclOf(h.router, "in", h.in, IF Is(h.router, "ioACL") THEN h.out ELSE None), h.router, h.in, k)
  /\ h.in # None /\ h.out # None /\ NeedOutAcl(h.router, h.out) =>
       PermitsLocal(AclOf(h.router, "out", None, h.out), h.router, None, k)

-----------------------------------------------------------------------------
\* The network that an address belongs to.
Home(a) ==
  LET around == {n \in policy.networks : a \in AddrOf(n)}
  IN  IF around = {} THEN None ELSE CHOOSE n \in around : \A m \in around : n[3] <= m[3]
Home1 == [a \in Addr |-> Home(a)]

\* Packets between addresses of different zones, without addresses of routers.
UserAddr == {a \in Addr : Home1[a] # None /\ \A i \in policy.interfaces : i[2] # a}
Packets ==
  {Packet(x[1], x[2], x[3][1], 1, x[3][2], FALSE) :
     x \in {y \in UserAddr \X UserAddr \X ({"tcp"} \X (1 .. Ports) \cup {<<"50", 0>>}) :
              Home1[y[1]][1] # Home1[y[2]][1]}}

HopsOf(k) == Hops[Home1[k.src][1], Home1[k.dst][1]]

\* Access that has been given to the zones of source and destination.
IsGiven(k) ==
  \E r \in pathRules :
    /\ ~r.deny /\ "stateless" \notin r.mods
    /\ r.srcPath = Home1[k.src][1] /\ r.dstPath = Home1[k.dst][1]
    /\ MatchRule(r, k)

\* Access that has been given to zones that are connected by local routers which don't
\* filter this packet.
LooseRouters(k) == {r \in LocalRouters : ~(IsFiltered(r, k.src) /\ IsFiltered(r, k.dst))}
IsGivenAround(k) ==
  \E r \in pathRules :
    /\ ~r.deny /\ "stateless" \notin r.mods /\ MatchRule(r, k)
    /\ Connected(r.srcPath, Home1[k.src][1], LooseRouters(k))
    /\ Connected(r.dstPath, Home1[k.dst][1], LooseRouters(k))

IsDenied(k) == \E r \in pathRules : r.deny /\ MatchRule(r, k)

\* A conflict that isn't found: the other rule isn't for all networks that an optimized
\* rule has at its other side, but some of their addresses.
ConflictMissed ==
  \E x \in optimized, isSrc \in BOOLEAN :
  \E q \in Optimizable(x[1]), nets \in {OtherNets(x[2], isSrc)} :
    /\ InSupernet(x[2], q, isSrc)
    /\ ~(nets \subseteq OtherNets(q, isSrc))
    /\ \E n \in nets, m \in OtherNets(q, isSrc) : AddrOf(n) \cap AddrOf(m) # {}

\* An address of a network matches attribute filter_only, but the network as a whole doesn't.
PartlyFiltered(k) ==
  \E r \in LocalRouters, n \in policy.networks :
    /\ <<r, n>> \notin filterAt
    /\ \E a \in AddrOf(n) \cap {k.src, k.dst} : IsFiltered(r, a)

PassesAll(k) == \A h \in HopsOf(k) : PassesRouter(h, k)

\* The warnings about supernet rules are complete, and secondary optimization opens
\* nothing: without warning, a packet that passes all routers on its way has been
\* permitted by a rule from its own zone to its own zone.  A rule that conflicts with
\* another one isn't optimized, if the other one is for all networks at its other side.
\* Zones count as one zone, if they are connected by routers with managed=local that don't
\* filter this packet.  A warning is missed, if networks of a zone have been cached for a
\* rule that has more elements.
OnlyGivenPasses ==
  /\ step = "print routes" /\ missing = {} /\ transient = {} /\ filterErrors = {}
  /\ ~ConflictMissed /\ ~StaleCache
  =>
    \A k \in Packets : PassesAll(k) => IsGiven(k) \/ (LooseRouters(k) # {} /\ IsGivenAround(k))

\* The comment at mark-secondary-rules.go:244 says "Disable secondary optimization for
\* conflicting rules.", such that no host gets access that hasn't been permitted.  The
\* code violates this: a rule with several networks at its other side is looked for with
\* the first one only, and rules conflict only if they have exactly the same network at
\* their other side, but not if one has a part of the network of the other one.
ConflictsAreFound ==
  step = "print routes" /\ missing = {} /\ transient = {} /\ filterErrors = {} =>
    \A k \in Packets : PassesAll(k) => IsGiven(k)

\* Access that has been given isn't blocked by any router on the way, in direction of the
\* packet as well as for answers at routers that don't keep state; but attribute filter_only
\* must not match a part of a network only.
GivenPasses ==
  step = "print routes" =>
    \A k \in Packets :
      IsGiven(k) /\ ~IsDenied(k) /\ ~PartlyFiltered(k) => PassesAll(k)
=============================================================================
