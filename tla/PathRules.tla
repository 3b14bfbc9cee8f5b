------------------------------ MODULE PathRules ------------------------------
(***************************************************************************)
(* Service rules become rules with one source zone and one destination     *)
(* zone each (convert-hosts.go, group-path-rules.go), later duplicates are *)
(* removed, adjacent subnets combined and reverse rules added              *)
(* (remove-dupl-rules.go, reverse-rules.go).                               *)
(***************************************************************************)
EXTENDS NormalizeServices, ConvertHosts

CONSTANT ByteBits  \* bits of a byte of an address

ASSUME PathRulesAssumption == ByteBits \in Nat \ {0}

VARIABLES
  hostRules,    \* rules after hosts have been converted: pRules and dRules
  pathRules,    \* allPathRules
  enforceable,  \* services with attribute seenEnforceable
  unenforced,   \* seenUnenforceable of all services: <<service, src, dst>>
  silent        \* services with attribute silentUnenforceable

pathVars == <<hostRules, pathRules, enforceable, unenforced, silent>>

InitRules ==
  /\ hostRules = {} /\ pathRules = {}
  /\ enforceable = {} /\ unenforced = {} /\ silent = {}

-----------------------------------------------------------------------------
(***************************************************************************)
(* convertHostsInRules                                                     *)
(***************************************************************************)
SubnetObj(s) ==
  IF s = Network \/ s[2] = HostBits THEN HostNet ELSE <<HostNet[1], HostNet[2] + s[1], s[2], "subnet">>
SubnetOf(obj) == <<obj[2] - HostNet[2], obj[3]>>

\* applySrcDstModifier: hosts are replaced by their network; all routers are managed here.
Modified(list, mods, mod) ==
  IF mod \in mods THEN {IF IsHost(o) THEN HostNet ELSE o : o \in list} ELSE list

\* processList: a subnet with the address of the network is the network.
Converted1(o) == IF IsHost(o) THEN {SubnetObj(s) : s \in subnetsOf[<<o[2], o[3]>>]} ELSE {o}
Subnets(list) == UNION {Converted1(o) : o \in list}

ConvertHostsInRules ==
  /\ step = "hosts in rules"
  /\ hostRules' = {[r EXCEPT !.src = Subnets(Modified(@, r.mods, "srcNet")),
                             !.dst = Subnets(Modified(@, r.mods, "dstNet"))] : r \in sRules}
  /\ step' = "group rules"
  /\ UNCHANGED <<pathRules, enforceable, unenforced, silent>>

-----------------------------------------------------------------------------
(***************************************************************************)
(* groupPathRules                                                          *)
(***************************************************************************)
\* splitRuleGroup: elements of a list by path.
Paths(list) == {PathNode(o) : o \in list}
OfPath(list, p) == {o \in list : PathNode(o) = p}

PathRule(r, s, d) ==
  [deny |-> r.deny, src |-> OfPath(r.src, s), dst |-> OfPath(r.dst, d), srcPath |-> s, dstPath |-> d,
   prts |-> r.prts, range |-> r.range, mods |-> r.mods, log |-> r.log, rule |-> r.rule]

\* Mutant of SplitRulesByPath: destinations are not split.
SplitBySource(rules) ==
  UNION {{[PathRule(r, s, d) EXCEPT !.dst = r.dst] : s \in Paths(r.src), d \in Paths(r.dst)} : r \in rules}

SplitRulesByPath(rules) ==
  UNION {{PathRule(r, s, d) : s \in Paths(r.src), d \in Paths(r.dst)} : r \in rules}

\* prevIP, with an address of two bytes: subtracts from the next byte if the value was the
\* largest one.
Byte == 2^ByteBits
PrevIP(a) ==
  LET low1 == a % Byte
      high == IF low1 = Byte - 1 THEN (a \div Byte) - 1 ELSE a \div Byte
  IN  high * Byte + ((low1 + Byte - 1) % Byte)

\* Subnets may have been split from a single range.
FromOneRange(s, d) ==
  \/ s[2] < d[2] /\ PrevIP(d[2]) \in AddrOf(s)
  \/ d[2] < s[2] /\ PrevIP(s[2]) \in AddrOf(d)

IsAny(o) == IsAggregate(o) /\ o[3] = AddrBits

\* Attribute hasUser of a rule is "both".
RECURSIVE UsesUser(_)
UsesUser(list) ==
  \E n \in DOMAIN list :
    \/ list[n] = <<"user">>
    \/ list[n][1] \notin {"obj", "group", "user"}
       /\ UsesUser(IF list[n][1] = "not" THEN <<list[n][2]>> ELSE list[n][2])
RuleOf(r) == policy.services[r.rule[1]].rules[r.rule[2]]
IsCoupling(r) == UsesUser(RuleOf(r).src) /\ UsesUser(RuleOf(r).dst)

\* collectUnenforceable: pairs that need no message.
IsSilent(r, s, d) ==
  /\ IsCoupling(r)
  /\ \/ s = d
     \/ IsSubnet(s) /\ IsSubnet(d) /\ FromOneRange(s, d)
     \/ IsAny(s) \/ IsAny(d)

GroupPathRules ==
  /\ step = "group rules"
  /\ \E R \in {SplitRulesByPath(hostRules)} :
       \E inZone \in {{r \in R : r.srcPath = r.dstPath}} :
         /\ pathRules' = R \ inZone
         /\ enforceable' = {r.rule[1] : r \in R \ inZone}
         /\ silent' = {r.rule[1] : r \in inZone}
         /\ unenforced' = UNION {{<<r.rule[1], s, d>> : <<s, d>> \in
                                    {x \in r.src \X r.dst : ~IsSilent(r, x[1], x[2])}} : r \in inZone}
  /\ step' = "identical"
  /\ UNCHANGED hostRules

-----------------------------------------------------------------------------
(***************************************************************************)
(* removeSimpleDuplicateRules                                              *)
(***************************************************************************)
IsSingle(r) ==
  /\ Cardinality(r.src) = 1 /\ Cardinality(r.dst) = 1 /\ Cardinality(r.prts) = 1
  /\ r.range = PrtIP /\ r.log = ""
  /\ r.mods \cap {"oneway", "stateless"} = {}

SameObjects(r, q) == r.deny = q.deny /\ r.src = q.src /\ r.dst = q.dst /\ r.prts = q.prts

\* Rules are sorted by service; inside of one rule of a service the simple one comes first.
ComesBefore(r, q) ==
  \/ r.rule[1] < q.rule[1]
  \/ r.rule[1] = q.rule[1] /\ (r.rule[2] < q.rule[2] \/ (r.rule[2] = q.rule[2] /\ r.mods = {} /\ q.mods # {}))

RemoveSimpleDuplicates ==
  /\ step = "duplicates"
  /\ pathRules' = {r \in pathRules :
                     IsSingle(r) => ~\E q \in pathRules : IsSingle(q) /\ SameObjects(q, r) /\ ComesBefore(q, r)}
  /\ step' = "combine subnets"
  /\ UNCHANGED <<hostRules, enforceable, unenforced, silent>>

\* Subnets of a list are combined.
CombinedList(list) ==
  {o \in list : ~IsSubnet(o)} \cup {SubnetObj(s) : s \in CombineSubnets({SubnetOf(o) : o \in {x \in list : IsSubnet(x)}})}

CombineSubnetsInRules ==
  /\ step = "combine subnets"
  /\ pathRules' = {[r EXCEPT !.src = CombinedList(@), !.dst = CombinedList(@)] : r \in pathRules}
  /\ step' = "routes"
  /\ UNCHANGED <<hostRules, enforceable, unenforced, silent>>

-----------------------------------------------------------------------------
(***************************************************************************)
(* genReverseRules                                                         *)
(***************************************************************************)
\* Answers to packets from a router itself pass stateless filters of interfaces.
HasStatelessRouter(r) ==
  \E h \in Hops[r.srcPath, r.dstPath] :
    /\ h.out # None
    /\ Is(h.router, "stateless") \/ (h.in = None /\ Is(h.router, "statelessSelf"))

TcpEsta == <<"established", 0, 0>>

\* Pairs of protocol and source range of reverse rules.
Reversed(r) ==
  {<<TcpEsta, PrtIP>> : p \in {x \in r.prts : x[1] = "tcp" /\ ~r.deny}}
    \cup {<<p, PrtIP>> : p \in r.prts \cap {PrtIP}}
    \cup {<<IF r.range # PrtIP THEN r.range ELSE AnyOf("udp"), IF p = AnyOf("udp") THEN PrtIP ELSE p>> :
            p \in {x \in r.prts : x[1] = "udp"}}

ReverseRule(r, range) ==
  [deny |-> r.deny, src |-> r.dst, dst |-> r.src, srcPath |-> r.dstPath, dstPath |-> r.srcPath,
   prts |-> {x[1] : x \in {y \in Reversed(r) : y[2] = range}}, range |-> range,
   mods |-> {"stateless"}, log |-> "", rule |-> None]

ReverseRules(rules) ==
  UNION {{ReverseRule(r, x[2]) : x \in Reversed(r)} :
           r \in {q \in rules : "oneway" \notin q.mods /\ HasStatelessRouter(q)}}

GenReverseRules ==
  /\ step = "reverse"
  /\ pathRules' = pathRules \cup ReverseRules(pathRules)
  /\ step' = "secondary"
  /\ UNCHANGED <<hostRules, enforceable, unenforced, silent>>

NextPathRules ==
  \/ ConvertHostsInRules
  \/ GroupPathRules
  \/ RemoveSimpleDuplicates
  \/ CombineSubnetsInRules
  \/ GenReverseRules

-----------------------------------------------------------------------------
\* Addresses of the objects in a list, together with their place in the topology.
AddrsOf(o) == IF IsHost(o) THEN HostNet[2] + o[2] .. HostNet[2] + o[3] ELSE AddrOf(o)
Points(list) == UNION {{<<PathNode(o), a>> : a \in AddrsOf(o)} : o \in list}

\* Pairs of addresses of different places, for the protocols and the action of a rule.
Effect(r, src, dst) ==
  {<<r.deny, p, r.range>> : p \in r.prts} \X {x \in Points(src) \X Points(dst) : x[1][1] # x[2][1]}

\* From the objects of services up to the rules that are distributed to routers, no pair
\* of addresses is lost or added: when hosts become subnets, lists are split by path,
\* duplicates are removed and subnets are combined.
RulesKeepPairs ==
  step = "routes" =>
    /\ \A r \in pathRules : Paths(r.src) = {r.srcPath} /\ Paths(r.dst) = {r.dstPath}
    /\ UNION {Effect(r, r.src, r.dst) : r \in pathRules}
         = UNION {Effect(r, Modified(r.src, r.mods, "srcNet"), Modified(r.dst, r.mods, "dstNet")) : r \in sRules}
=============================================================================
