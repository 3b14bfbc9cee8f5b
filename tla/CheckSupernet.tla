---------------------------- MODULE CheckSupernet ----------------------------
(***************************************************************************)
(* Rules for supernets also apply to networks of other zones with matching *)
(* address.  The user is told about networks that get access unexpectedly  *)
(* (check-supernet.go).                                                    *)
(***************************************************************************)
EXTENDS ManagedLocal

VARIABLES
  checkTodo,  \* pairs of attribute "src" or "dst" and rule that must still be checked
  netCache,   \* ipmask2net of all zones: <<zone, ip, size>> to networks
  missing,    \* unexpected access: <<rule, attribute, supernet, zone, networks>>
  transient   \* missing transient rules: <<rule1, rule2, supernet1, supernet2>>

superVars == <<checkTodo, netCache, missing, transient>>

InitSupernet ==
  /\ checkTodo = None
  /\ netCache = <<>>
  /\ missing = {}
  /\ transient = {}

NoCheck(r) == "noCheckSupernetRules" \in r.mods
PermitRules == {r \in hostRules : ~r.deny /\ ~NoCheck(r)}
IsSupernet(o) == IsNetwork(o) /\ o \in hasOther

-----------------------------------------------------------------------------
(***************************************************************************)
(* Zones that must be checked for supernet s of a rule, at one router of   *)
(* the path.                                                               *)
(***************************************************************************)
HasNoInAcl(r) == r \in DOMAIN policy.noInAcl
IsStateful(r) == \E p \in r.prts : p[1] \in {"tcp", "udp", "ip"}

\* markStateful: zones that are connected by routers that don't keep state.
SameStatefulMark(a, b) ==
  Connected(a, b, {r \in Routers : Is(r, "stateless") \/ policy.managed[r] \in {"secondary", "local"}})

\* checkSupernetSrcRule, where d is the path of dst.  At a stateless router, a reverse
\* rule must be taken into account.
OfNoInAcl(r, zones) == IF HasNoInAcl(r) THEN {policy.noInAcl[r]} \ zones ELSE {}

OfReverse(r, s, h, d) ==
  IF /\ h.out # None /\ Is(h.router, "stateless")
     /\ "oneway" \notin r.mods /\ IsStateful(r) /\ SameStatefulMark(h.out, d)
  THEN IF HasNoInAcl(h.router) THEN {policy.noInAcl[h.router]} \ {s[1], d}
       ELSE AttachedTo(h.router) \ {h.in, s[1], d}
  ELSE {}

SrcZones(r, s, h, d) ==
  OfNoInAcl(h.router, {d, h.in}) \cup OfReverse(r, s, h, d) \cup ({h.in} \ {s[1]})

\* checkSupernetDstRule, where p is the path of src.
DstZones(s, h, p) ==
  IF h.in = None THEN {}
  ELSE IF HasNoInAcl(h.router) THEN OfNoInAcl(h.router, {p, s[1]})
  ELSE (IF Is(h.router, "ioACL") THEN {h.out} ELSE AttachedTo(h.router)) \ {h.in, p, s[1]}

Others(r, where) == IF where = "src" THEN r.dst ELSE r.src
Elements(r, where) == IF where = "src" THEN r.src ELSE r.dst
Supernets(r, where) == {o \in Elements(r, where) : IsSupernet(o)}

\* isFilteredAt: a local router ignores other rules.
CheckedHops(s, others, hops) ==
  {h \in hops : FilteredAt(h.router, {s}) # {} /\ FilteredAt(h.router, others) # {}}

ZonesToCheck(r, where, s) ==
  UNION {IF where = "src" THEN UNION {SrcZones(r, s, h, p) : h \in CheckedHops(s, OfPath(r.dst, p), Hops[s[1], p])}
         ELSE UNION {DstZones(s, h, p) : h \in CheckedHops(s, OfPath(r.src, p), Hops[p, s[1]])} :
           p \in Paths(Others(r, where)) \ {s[1]}}

-----------------------------------------------------------------------------
(***************************************************************************)
(* findZoneNetworks                                                        *)
(***************************************************************************)
\* Networks of a zone and of the rule, or part of a network of the rule.
InNetMap(n, L) == ({n} \cup UpNets(n)) \cap L # {}

Related(n, s) == IsSmaller(n, s) \/ SameAddr(n, s) \/ IsSmaller(s, n)
RealNetworks(z, s, L) == {n \in TopNetworks(z) : ~InNetMap(n, L) /\ Related(n, s)}
VisibleAgg(z, s) == {a \in DOMAIN zoneAggs : a[1] = z /\ SameAddr(a, s) /\ zoneAggs[a]}

CacheKey(z, s) == <<z, s[2], s[3]>>

FindZoneNetworks(z, s, L) ==
  IF VisibleAgg(z, s) # {} THEN {a \in VisibleAgg(z, s) : ~InNetMap(a, L)}
  ELSE IF CacheKey(z, s) \in DOMAIN netCache THEN netCache[CacheKey(z, s)]
  ELSE RealNetworks(z, s, L)

\* All <<supernet, zone>> to be checked for a rule.
Checks(r, where) == UNION {{s} \X ZonesToCheck(r, where, s) : s \in Supernets(r, where)}

InitChecks ==
  /\ step = "supernets"
  /\ checkTodo = None
  /\ checkTodo' = FlattenSeq([n \in {1, 2} |->
                     LET where == <<"src", "dst">>[n]
                         R == {r \in PermitRules : Supernets(r, where) # {}}
                     IN  [k \in 1 .. Cardinality(R) |-> <<where, SetToSortSeq(R, ComesBefore)[k]>>]])
  /\ UNCHANGED <<step, netCache, missing, transient>>

\* checkMissingSupernetRules for one rule.
CheckRule(r, where) ==
  \E C \in {Checks(r, where)} :
    /\ missing' = missing \cup
         UNION {{<<r, where, c[1], c[2], nets>> : nets \in {FindZoneNetworks(c[2], c[1], Elements(r, where))} \ {{}}} : c \in C}
    /\ netCache' = [k \in DOMAIN netCache \cup {CacheKey(c[2], c[1]) : c \in {x \in C : VisibleAgg(x[2], x[1]) = {}}} |->
                      IF k \in DOMAIN netCache THEN netCache[k]
                      ELSE RealNetworks(k[1], k, Elements(r, where))]

CheckMissing ==
  /\ step = "supernets"
  /\ checkTodo # None /\ checkTodo # <<>>
  /\ CheckRule(Head(checkTodo)[2], Head(checkTodo)[1])
  /\ checkTodo' = Tail(checkTodo)
  /\ UNCHANGED <<step, transient>>

-----------------------------------------------------------------------------
(***************************************************************************)
(* checkTransientSupernetRules                                             *)
(***************************************************************************)
\* A leaf zone has only one exit, but routers with one interface are not counted.
IsLeaf(z) == Cardinality({r \in Routers : <<r, z>> \in Links /\ Cardinality(AttachedTo(r)) > 1}) <= 1

\* A router inside of the zone that is destination of a rule is another exit.
InnerRouter(z, r) ==
  \E o \in r.dst : IsIntf(o) /\ IntfZone(o) = z /\ Cardinality(AttachedTo(o[1])) < 2
Opens(r, z) == InnerRouter(z, r) /\ \E n \in Supernets(r, "src") : n[1] = z

\* The internet is ignored as source.
Sources(r) ==
  {n \in Supernets(r, "src") :
     /\ IsAggregate(n) \/ n[3] < AddrBits
     /\ IsLeaf(n[1]) => \E q \in PermitRules : Opens(q, n[1]) /\ (q = r \/ ComesBefore(q, r))}
Targets(r) ==
  {n \in Supernets(r, "dst") : IsLeaf(n[1]) => \E q \in PermitRules : Opens(q, n[1])}

\* matchPrt, without ports that overlap without inclusion.
MatchesPrt(p, q) ==
  \/ p = PrtIP \/ q = PrtIP
  \/ IsRange(p) /\ p[1] = q[1] /\ ((p[2] <= q[2] /\ q[3] <= p[3]) \/ (q[2] <= p[2] /\ p[3] <= q[3]))
  \/ IsNumeric(p) /\ p[1] = q[1]
  \/ p[1] = "icmp" /\ q[1] = "icmp" /\ (\/ p[2] = -1 \/ q[2] = -1
                                        \/ p[2] = q[2] /\ (p[3] = -1 \/ q[3] = -1 \/ p[3] = q[3]))

\* getIpMatching: an aggregate around the supernet stands for its networks.
Matching1(o, n) == AddrOf(o) \subseteq AddrOf(n) \/ AddrOf(n) \subseteq AddrOf(o)
IpMatching(n, list) ==
  IF n[3] = AddrBits THEN list
  ELSE UNION {IF IsAggregate(o) /\ IsSmaller(n, o) THEN {m \in subNets[o] : Matching1(m, n)}
              ELSE {m \in {o} : Matching1(m, n)} : o \in list}

AllContainedIn(L, M) == \A o \in L : ObjUps(o) \cap M # {}
InOneZone(L, M) == Cardinality(Paths(L \cup M)) = 1

PathsReachZone(z, L, M) ==
  \E s \in Paths(L) \ {z}, d \in Paths(M) \ {z} : s # d /\ z \in OnPath[s, d]

\* Access that is implied by two rules is not part of them.
Implied(q1, q2, src1, dst2, n1, n2) ==
  /\ ~AllContainedIn(src1, q2.src) /\ ~AllContainedIn(dst2, q1.dst)
  /\ ~InOneZone(src1, dst2) /\ ~InOneZone(src1, {n2}) /\ ~InOneZone({n1}, dst2)
  /\ PathsReachZone(n1[1], src1, dst2)

IsTransient(q1, q2, n1, n2) ==
  /\ n1[1] = n2[1]
  /\ \E p1 \in q1.prts, p2 \in q2.prts : MatchesPrt(p1, p2)
  /\ MatchesPrt(q1.range, q2.range)
  /\ \E src1 \in {IpMatching(n2, q1.src)}, dst2 \in {IpMatching(n1, q2.dst)} :
       src1 # {} /\ dst2 # {} /\ Implied(q1, q2, src1, dst2, n1, n2)

CheckTransient ==
  /\ step = "supernets"
  /\ checkTodo = <<>>
  /\ transient' = {x \in UNION {{<<q1, q2>>} \X Targets(q1) \X Sources(q2) : <<q1, q2>> \in PermitRules \X PermitRules} :
                     IsTransient(x[1][1], x[1][2], x[2], x[3])}
  /\ step' = "collect messages"
  /\ UNCHANGED <<checkTodo, netCache, missing>>

NextSupernet ==
  \/ InitChecks
  \/ CheckMissing
  \/ CheckTransient

\* A cached result lacks networks that another rule gives access to.
StaleCache ==
  \E r \in PermitRules, where \in {"src", "dst"} : \E c \in Checks(r, where) :
    /\ VisibleAgg(c[2], c[1]) = {}
    /\ ~(RealNetworks(c[2], c[1], Elements(r, where)) \subseteq netCache[CacheKey(c[2], c[1])])
=============================================================================
