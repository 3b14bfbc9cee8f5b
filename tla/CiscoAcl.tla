------------------------------ MODULE CiscoAcl ------------------------------
(***************************************************************************)
(* Optimization of ACLs of Cisco devices (spoc2/main.go).                  *)
(*                                                                         *)
(* A rule is a record with fields deny, src, dst, srcRange, prt, log and   *)
(* secondary; srcRange is protocol "ip" if there is none.  Attribute       *)
(* deleted of rules is a set of positions.                                 *)
(***************************************************************************)
EXTENDS AclObjects, SequencesExt

Without(R, deleted) ==
  LET kept == SelectSeq([i \in DOMAIN R |-> i], LAMBDA i : i \notin deleted)
  IN  [n \in DOMAIN kept |-> R[kept[n]]]

-----------------------------------------------------------------------------
(***************************************************************************)
(* optimizeRules                                                           *)
(***************************************************************************)
\* The path of a rule in a rule tree.
Key(r) == <<r.deny, r.srcRange, r.src, r.dst, r.prt>>

\* The tree holds the first one of rules with equal keys.
InTree(R, I) == {i \in I : \A j \in I : j < i => Key(R[j]) # Key(R[i])}

\* Mutant of Above: a permit rule is above a deny rule.
AboveAnyDeny(c, r) ==
  /\ PrtBelow(r.srcRange, c.srcRange)
  /\ AddrBelow(r.src, c.src) /\ AddrBelow(r.dst, c.dst)
  /\ PrtBelow(r.prt, c.prt)

\* Rule c is found on the way up from rule r; a deny rule is above a permit rule.
Above(c, r) ==
  /\ r.deny => c.deny
  /\ PrtBelow(r.srcRange, c.srcRange)
  /\ AddrBelow(r.src, c.src) /\ AddrBelow(r.dst, c.dst)
  /\ PrtBelow(r.prt, c.prt)

\* Mutant of Redundant: attribute log is not compared.
RedundantAnyLog(R, I, C, J) == {i \in I : \E j \in J \ {i} : Above(C[j], R[i])}

\* Rules at positions I of R that are redundant to one of C at positions J.
Redundant(R, I, C, J) ==
  {i \in I : \E j \in J \ {i} : C[j].log = R[i].log /\ Above(C[j], R[i])}

\* A rule that is implemented as secondary rule.
Widened(r, acl) ==
  [r EXCEPT !.src = OptNet(@, acl.optNetworks),
            !.dst = IF @ \in acl.needProtect THEN @ ELSE OptNet(@, acl.optNetworks),
            !.prt = PrtIP, !.srcRange = PrtIP]

IsSecondary(r, acl) == r.secondary /\ r.src \notin acl.noOptAddrs /\ r.dst \notin acl.noOptAddrs

\* Secondary rules W at positions S are compared with each other and with all rules.
OptimizeSecondary(R, tree, deleted, W, S) ==
  LET sTree    == InTree(W, S)
      deleted2 == deleted \cup (S \ sTree) \cup Redundant(W, sTree, W, sTree)
  IN  Without(W, deleted2 \cup Redundant(R, tree \ deleted2, W, sTree))

OptimizeRules(R, acl) ==
  LET tree    == InTree(R, DOMAIN R)
      deleted == (DOMAIN R \ tree) \cup Redundant(R, tree, R, tree)
      S       == {i \in DOMAIN R \ deleted : IsSecondary(R[i], acl)}
  IN  OptimizeSecondary(R, tree, deleted,
                        [i \in DOMAIN R |-> IF i \in S THEN Widened(R[i], acl) ELSE R[i]], S)

-----------------------------------------------------------------------------
(***************************************************************************)
(* joinRanges: neither overlaps nor sub-ranges are left at this point.     *)
(***************************************************************************)
Protocols(R) == {R[i].prt : i \in DOMAIN R} \cup {R[i].srcRange : i \in DOMAIN R}

JoinKey(r) == <<r.deny, r.src, r.dst, r.srcRange, r.log, r.prt[1]>>

\* The range of rule i is directly below that of rule j.
Joins(R, prts, i, j) ==
  /\ HasNeighbor(R[i].prt, prts) /\ HasNeighbor(R[j].prt, prts)
  /\ JoinKey(R[i]) = JoinKey(R[j])
  /\ R[i].prt[3] + 1 = R[j].prt[2]

RECURSIVE LowPort(_, _, _)
LowPort(R, prts, j) ==
  IF \E i \in DOMAIN R : Joins(R, prts, i, j)
  THEN LowPort(R, prts, CHOOSE i \in DOMAIN R : Joins(R, prts, i, j))
  ELSE R[j].prt[2]

\* The last rule gets the whole range, the other ones are deleted.
JoinRanges(R, prts) ==
  Without([j \in DOMAIN R |-> IF HasNeighbor(R[j].prt, prts)
                              THEN [R[j] EXCEPT !.prt = <<@[1], LowPort(R, prts, j), @[3]>>]
                              ELSE R[j]],
          {i \in DOMAIN R : \E j \in DOMAIN R : Joins(R, prts, i, j)})

-----------------------------------------------------------------------------
(***************************************************************************)
(* moveRulesEspAh                                                          *)
(***************************************************************************)
\* Protocols in alphabetical order.
Rank(p) == CASE p[1] = "50" -> 1 [] p[1] = "51" -> 2 [] p[1] = "icmp" -> 3
             [] p[1] = "ip" -> 4 [] p[1] \in {"tcp", "established"} -> 5 [] OTHER -> 6

AddrLess(a, b) == a[1] < b[1] \/ (a[1] = b[1] /\ a[2] > b[2])

CryptoLess(r, s) ==
  \/ Rank(r.prt) < Rank(s.prt)
  \/ Rank(r.prt) = Rank(s.prt) /\ (AddrLess(r.src, s.src)
                                     \/ (r.src = s.src /\ AddrLess(r.dst, s.dst)))

IsCrypto(r) == ~r.deny /\ (IsNumeric(r.prt) \/ r.log # "")

MoveRulesEspAh(R, prts, hasLog) ==
  IF ~hasLog /\ \A p \in prts : ~IsNumeric(p) THEN R
  ELSE SelectSeq(R, LAMBDA r : r.deny)
         \o SortSeq(SelectSeq(R, LAMBDA r : IsCrypto(r)), CryptoLess)
         \o SelectSeq(R, LAMBDA r : ~r.deny /\ ~IsCrypto(r))

-----------------------------------------------------------------------------
(***************************************************************************)
(* addProtectRules                                                         *)
(***************************************************************************)
NewRule(deny, src, dst) == [deny |-> deny, src |-> src, dst |-> dst, srcRange |-> PrtIP,
                            prt |-> PrtIP, log |-> "", secondary |-> FALSE]

PermitsAnySrc(r) == ~r.deny /\ r.src = Network00 /\ r.prt = PrtIP

\* Mutant of NeedsDeny: a rule for the interface itself is looked for.
NeedsDenySame(intf, intfRules, rules, hasFinalPermit) ==
  /\ \A i \in DOMAIN intfRules : ~(PermitsAnySrc(intfRules[i]) /\ intfRules[i].dst = intf)
  /\ hasFinalPermit \/ \E i \in DOMAIN rules : ~rules[i].deny /\ rules[i].dst = intf

\* An interface needs no deny rule if any traffic to it is permitted, or if there is no
\* permit rule for a network around it.
NeedsDeny(intf, intfRules, rules, hasFinalPermit) ==
  /\ \A i \in DOMAIN intfRules : ~(PermitsAnySrc(intfRules[i]) /\ intfRules[i].dst = intf)
  /\ \/ hasFinalPermit
     \/ \E i \in DOMAIN rules :
          /\ ~rules[i].deny /\ rules[i].prt[1] # "established"
          /\ rules[i].dst # intf /\ AddrBelow(intf, rules[i].dst)

AddProtectRules(intfRules, rules, needProtect, hasFinalPermit) ==
  IF needProtect = {} THEN intfRules
  ELSE SelectSeq(intfRules, LAMBDA r : ~(hasFinalPermit /\ PermitsAnySrc(r)))
         \o SetToSeq({NewRule(TRUE, Network00, intf) :
              intf \in {i \in needProtect : NeedsDeny(i, intfRules, rules, hasFinalPermit)}})

CheckFinalPermit(R) ==
  R # <<>> /\ LET r == R[Len(R)]
              IN  ~r.deny /\ r.src = Network00 /\ r.dst = Network00 /\ r.prt = PrtIP

-----------------------------------------------------------------------------
(***************************************************************************)
(* findObjectgroups                                                        *)
(***************************************************************************)
ObjOf(r, isDst) == IF isDst THEN r.dst ELSE r.src
WithObj(r, isDst, o) == IF isDst THEN [r EXCEPT !.dst = o] ELSE [r EXCEPT !.src = o]

\* Left and right part of a network with one more host bit.
Halves(a, b) == a[2] = b[2] /\ Enclosing(a, a[2] + 1) = Enclosing(b, b[2] + 1)

\* combineAdjacentIPMask for pairs of rule number and object, sorted by address; L is
\* looked at from position i.  The left part is replaced by the combined network, then
\* the previous element is looked at again if this network is a right half.
RECURSIVE Combine(_, _)
Combine(L, i) ==
  IF i >= Len(L) THEN L
  ELSE IF ~Halves(L[i].obj, L[i + 1].obj) THEN Combine(L, i + 1)
  ELSE LET up == <<L[i].obj[1], L[i].obj[2] + 1>>
       IN  Combine(RemoveAt([L EXCEPT ![i].obj = up], i + 1),
                   IF i > 1 /\ up # <<Enclosing(up, up[2] + 1)[1], up[2]>> THEN i - 1 ELSE i)

OtherKey(r, isDst) == <<r.deny, ObjOf(r, ~isDst), r.srcRange, r.prt, r.log>>

\* Rules with equal attributes except for src or dst, after adjacent objects have been
\* combined.
Combined(R, isDst, i) ==
  Combine(SortSeq(SetToSeq({[rule |-> j, obj |-> ObjOf(R[j], isDst)] :
                     j \in {k \in DOMAIN R : OtherKey(R[k], isDst) = OtherKey(R[i], isDst)}}),
                  LAMBDA x, y : x.obj[1] < y.obj[1]), 1)

ObjectsOf(L) == {L[n].obj : n \in DOMAIN L}

\* The number of an existing group with the same elements or of a new one.
GroupNumber(groups, elements) ==
  LET same == {n \in DOMAIN groups : groups[n] = elements}
  IN  IF same = {} THEN Len(groups) + 1 ELSE CHOOSE n \in same : TRUE

\* New groups for lists, in the order of the rules that use them.
RECURSIVE AddGroups(_, _)
AddGroups(groups, lists) ==
  IF lists = {} THEN groups
  ELSE LET L == CHOOSE x \in lists : \A y \in lists : x[1].rule <= y[1].rule
           known == GroupNumber(groups, ObjectsOf(L)) <= Len(groups)
       IN  AddGroups(IF known THEN groups ELSE Append(groups, ObjectsOf(L)), lists \ {L})

\* The first rule of a list gets the group, the other ones are deleted.
UseGroups(R, isDst, lists, groups) ==
  Without([i \in DOMAIN R |->
             WithObj(R[i], isDst, IF Len(lists[i]) = 1 THEN lists[i][1].obj
                                  ELSE <<-GroupNumber(groups, ObjectsOf(lists[i])), 0>>)],
          {i \in DOMAIN R : lists[i][1].rule # i})

\* Each rule that is left gets its combined object.
UseObjects(R, isDst, lists) ==
  LET at == [i \in DOMAIN R |-> {n \in DOMAIN lists[i] : lists[i][n].rule = i}]
  IN  Without([i \in DOMAIN R |-> IF at[i] = {} THEN R[i]
                                  ELSE WithObj(R[i], isDst, lists[i][CHOOSE n \in at[i] : TRUE].obj)],
              {i \in DOMAIN R : at[i] = {}})

\* One pass of findObjectgroups, for src or for dst.
FindGroups(R, isDst, groups, doGroup) ==
  LET lists == [i \in DOMAIN R |-> Combined(R, isDst, i)]
      new   == AddGroups(groups, {lists[i] : i \in {j \in DOMAIN R : Len(lists[j]) > 1}})
  IN  IF doGroup THEN [rules |-> UseGroups(R, isDst, lists, new), groups |-> new]
      ELSE [rules |-> UseObjects(R, isDst, lists), groups |-> groups]

-----------------------------------------------------------------------------
(***************************************************************************)
(* addLocalDenyRules and addFinalPermitDenyRule                            *)
(***************************************************************************)
\* One rule with object groups, or one rule for each pair of networks.
LocalDeny(src, dst) ==
  SetToSeq({NewRule(TRUE, s, d) : s \in src, d \in dst})
=============================================================================
