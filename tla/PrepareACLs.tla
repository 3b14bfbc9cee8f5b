---------------------------- MODULE PrepareACLs ----------------------------
(***************************************************************************)
(* prepareACLs of pass 2: the rules of one ACL of the intermediate code    *)
(* are optimized and get the form of the device (spoc2/main.go).           *)
(***************************************************************************)
EXTENDS CiscoAcl, IptablesChains

CONSTANT
  Acls       \* ACLs of the intermediate code

VARIABLES
  acl,        \* the ACL as it was read, with expanded rules
  step,       \* next step of the program
  intfRules,  \* rules for interfaces of the device
  rules,      \* rules for other objects
  groups,     \* object groups of the device
  order,      \* attributes in the order of the rule tree that was built last
  ruleSets,   \* rule trees, each with the order it was built with
  lrules      \* rules of iptables for each rule tree

ciscoVars == <<intfRules, rules, groups>>
linuxVars == <<order, ruleSets, lrules>>
vars == <<acl, step, ciscoVars, linuxVars>>

\* Protocols with relation up and attribute hasNeighbor.
Prts == Protocols(acl.intfRules) \cup Protocols(acl.rules) \cup {PrtIP}
HasLog(R) == \E i \in DOMAIN R : R[i].log # ""

Init ==
  /\ acl \in Acls
  /\ step = IF acl.model = "Linux" THEN "find chains" ELSE "optimize"
  /\ intfRules = acl.intfRules
  /\ rules = acl.rules
  /\ groups = <<>>
  /\ order = InitialOrder
  /\ ruleSets = <<>>
  /\ lrules = <<>>

-----------------------------------------------------------------------------
(***************************************************************************)
(* Cisco devices                                                           *)
(***************************************************************************)
Optimize ==
  /\ step = "optimize"
  /\ intfRules' = OptimizeRules(intfRules, acl)
  /\ rules' = OptimizeRules(rules, acl)
  /\ step' = "join"
  /\ UNCHANGED <<acl, groups, linuxVars>>

Join ==
  /\ step = "join"
  /\ intfRules' = JoinRanges(intfRules, Prts)
  /\ rules' = JoinRanges(rules, Prts)
  /\ step' = "move"
  /\ UNCHANGED <<acl, groups, linuxVars>>

Move ==
  /\ step = "move"
  /\ intfRules' = MoveRulesEspAh(intfRules, Prts, HasLog(acl.intfRules))
  /\ rules' = MoveRulesEspAh(rules, Prts, HasLog(acl.rules))
  /\ step' = "protect"
  /\ UNCHANGED <<acl, groups, linuxVars>>

Protect ==
  /\ step = "protect"
  /\ intfRules' = AddProtectRules(intfRules, rules, acl.needProtect,
                                  CheckFinalPermit(rules) \/ acl.addPermit)
  /\ step' = IF acl.isCryptoACL THEN "final" ELSE "src groups"
  /\ UNCHANGED <<acl, rules, groups, linuxVars>>

FindObjectgroups ==
  /\ step \in {"src groups", "dst groups"}
  /\ \E g \in {FindGroups(rules, step = "dst groups", groups, acl.doObjectgroup)} :
       rules' = g.rules /\ groups' = g.groups
  /\ step' = IF step = "src groups" THEN "dst groups" ELSE "final"
  /\ UNCHANGED <<acl, intfRules, linuxVars>>

\* At a device that filters locally, traffic between its own networks is denied and any
\* other traffic is permitted.
AddLocalDenyRules ==
  /\ step = "final"
  /\ acl.filterOnly # {} /\ ~acl.addPermit
  /\ \E newGroup \in {acl.doObjectgroup /\ Cardinality(acl.filterOnly) > 1} :
       \E list \in {IF newGroup THEN {<<-(Len(groups) + 1), 0>>} ELSE acl.filterOnly} :
         /\ groups' = IF newGroup THEN Append(groups, acl.filterOnly) ELSE groups
         /\ rules' = rules \o LocalDeny(IF acl.filterAnySrc THEN {Network00} ELSE list, list)
                       \o <<NewRule(FALSE, Network00, Network00)>>
  /\ step' = "done"
  /\ UNCHANGED <<acl, intfRules, linuxVars>>

AddFinalPermitDenyRule ==
  /\ step = "final"
  /\ acl.filterOnly = {} \/ acl.addPermit
  /\ rules' = IF ~CheckFinalPermit(rules) /\ (acl.addDeny \/ acl.addPermit)
              THEN Append(rules, NewRule(acl.addDeny, Network00, Network00)) ELSE rules
  /\ step' = "done"
  /\ UNCHANGED <<acl, intfRules, groups, linuxVars>>

-----------------------------------------------------------------------------
(***************************************************************************)
(* Linux devices                                                           *)
(***************************************************************************)
\* A separate rule tree for adjacent rules with same attribute deny; the order of a tree
\* is computed from that of the tree before.
FindChains ==
  /\ step = "find chains"
  /\ \E R \in {[i \in DOMAIN rules |-> WithSrcRange(rules[i])]} :
       \E runs \in {SortSeq(SetToSeq(Starts(R)), <)} :
         \E orders \in {[n \in DOMAIN runs |->
                           FoldLeft(LAMBDA o, i : SortOrder(o, RunFrom(R, i)), order,
                                    SubSeq(runs, 1, n))]} :
           /\ order' = IF runs = <<>> THEN order ELSE orders[Len(runs)]
           /\ ruleSets' = [n \in DOMAIN runs |->
                             [tree  |-> RuleTree(ToSet(RunFrom(R, runs[n])), orders[n]),
                              order |-> orders[n]]]
  /\ step' = "gen chains"
  /\ UNCHANGED <<acl, ciscoVars, lrules>>

\* All rule trees refer to the same variable order.
GenChains ==
  /\ step = "gen chains"
  /\ Len(lrules) < Len(ruleSets)
  /\ \E new \in {GenChain(InsertBintree(ruleSets[Len(lrules) + 1].tree), order)} :
       /\ lrules' = Append(lrules, IF Len(lrules) + 1 < Len(ruleSets) THEN NoGotoAtEnd(new) ELSE new)
       /\ step' = IF WrongKind(new) THEN "panic" ELSE step
  /\ UNCHANGED <<acl, ciscoVars, order, ruleSets>>

EndOfChains ==
  /\ step = "gen chains"
  /\ Len(lrules) = Len(ruleSets)
  /\ step' = "done"
  /\ UNCHANGED <<acl, ciscoVars, linuxVars>>

-----------------------------------------------------------------------------
Next ==
  \/ Optimize
  \/ Join
  \/ Move
  \/ Protect
  \/ FindObjectgroups
  \/ AddLocalDenyRules
  \/ AddFinalPermitDenyRule
  \/ FindChains
  \/ GenChains
  \/ EndOfChains

\* prepareACLs has returned, or a failing type assertion has stopped the program.
Finished == step \in {"done", "panic"} /\ UNCHANGED vars

Spec == Init /\ [][Next \/ Finished]_vars

-----------------------------------------------------------------------------
\* Addresses of an object or a group.
AddressesOf(o) == IF o[1] < 0 THEN UNION {Block(n) : n \in groups[-o[1]]} ELSE Block(o)

Matches(r, k) ==
  /\ k.src \in AddressesOf(r.src) /\ k.dst \in AddressesOf(r.dst)
  /\ MatchSrcRange(r.srcRange, k) /\ MatchPrt(r.prt, k)

\* The first rule that matches decides; a packet without such a rule is denied.
FirstMatch(R, k, i) == Matches(R[i], k) /\ \A j \in 1 .. i - 1 : ~Matches(R[j], k)
Permits(R, k) == \E i \in DOMAIN R : ~R[i].deny /\ FirstMatch(R, k, i)

\* The rules as they were read, followed by the default of the device.
Default ==
  IF acl.filterOnly # {} /\ ~acl.addPermit
  THEN LocalDeny(IF acl.filterAnySrc THEN {Network00} ELSE acl.filterOnly, acl.filterOnly)
         \o <<NewRule(FALSE, Network00, Network00)>>
  ELSE <<NewRule(~acl.addPermit, Network00, Network00)>>
Given == acl.intfRules \o acl.rules \o Default

\* The same rules if each rule is implemented as secondary rule where possible.
GivenWide ==
  [i \in DOMAIN Given |-> IF IsSecondary(Given[i], acl) THEN Widened(Given[i], acl) ELSE Given[i]]

Code == intfRules \o rules

IsIntf(a) == <<a, 0>> \in acl.needProtect

\* The packets that tell the rules apart.
Packets ==
  {Packet(s, d, "tcp", x, y, e) : s \in Addr, d \in Addr, x \in 1 .. 2, y \in 1 .. Ports,
                                  e \in BOOLEAN}
    \cup {Packet(s, d, "icmp", t, c, FALSE) : s \in Addr, d \in Addr, t \in 0 .. 1, c \in 0 .. 1}
    \cup {Packet(s, d, "50", 0, 0, FALSE) : s \in Addr, d \in Addr}

\* Whatever rules optimizeRules and joinRanges delete, moveRulesEspAh moves and
\* findObjectgroups combines: the code permits each packet that the rules permit, and
\* nothing else except what a rule that is implemented as secondary rule may permit.
SameFilter ==
  step = "done" /\ acl.model # "Linux" =>
    \A k \in Packets :
      /\ ~IsIntf(k.dst) /\ Permits(Given, k) => Permits(Code, k)
      /\ ~IsIntf(k.dst) /\ Permits(Code, k) => Permits(GivenWide, k)

\* A rule for a network doesn't open an interface of the device inside of this network:
\* addProtectRules inserts a deny rule in between, unless it finds that none is needed.
\* And what rules for interfaces permit stays permitted if no deny rule says otherwise,
\* although some of these rules are left out because of a final permit rule.
IntfProtected ==
  step = "done" /\ acl.model # "Linux" =>
    \A k \in {p \in Packets : IsIntf(p.dst) /\ ~p.est} :
      /\ Permits(Code, k) =>
           \E i \in DOMAIN GivenWide : /\ ~GivenWide[i].deny /\ Matches(GivenWide[i], k)
                                       /\ GivenWide[i].dst = <<k.dst, 0>>
      /\ /\ Permits(acl.intfRules, k)
         /\ \A i \in DOMAIN acl.rules : acl.rules[i].deny => ~Matches(acl.rules[i], k)
         => Permits(Code, k)

\* A packet that a rule with attribute log matches is logged if it is permitted: no rule
\* without log takes its place or is moved before it.  ESP and AH are excluded, their rules
\* are moved before all rules with attribute log.
LogKept ==
  step = "done" /\ acl.model # "Linux" =>
    \A k \in {p \in Packets : p.prt # "50"} :
      \A i \in DOMAIN acl.rules :
        /\ acl.rules[i].log # "" /\ Matches(acl.rules[i], k)
        => \A n \in DOMAIN Code : FirstMatch(Code, k, n) /\ ~Code[n].deny => Code[n].log # ""

\* findChains: each rule tree is processed with the order of attributes it was built with.
OrderIsStored == \A n \in DOMAIN ruleSets : ruleSets[n].order = order

\* Chains of different rule trees don't leave each other out.
NoGotoBefore ==
  \A n \in 1 .. Len(lrules) - 1 : \A i \in DOMAIN lrules[n] : ~lrules[n][i].goto

\* Three port ranges or ICMP protocols inside of each other.
NestedTwice(prts) ==
  \E p, q, r \in prts \ {PrtIP} : p # q /\ q # r /\ PrtBelow(p, q) /\ PrtBelow(q, r)

\* The chains of iptables, as written by printChains, permit the same packets as the rules
\* in their sequence.
ChainsSame ==
  /\ step = "done" /\ acl.model = "Linux"
  /\ OrderIsStored /\ NoGotoBefore /\ ~NestedTwice(Protocols(rules))
  => \A k \in Packets :
       ~k.est => ((Verdict(FlattenSeq(lrules), k) = "permit") <=> Permits(rules, k))
=============================================================================
