--------------------------- MODULE IptablesChains ---------------------------
(***************************************************************************)
(* Chains of iptables for Linux devices (findChains of spoc2/main.go).     *)
(*                                                                         *)
(* Rules become a rule tree: a function from the values of one attribute   *)
(* to the subtree for the next attribute, whose leaves are "permit" and    *)
(* "deny".  Identical subtrees of the same depth are merged, hence they    *)
(* are the same value.  The values of an attribute become a binary tree    *)
(* whose nodes are records with fields obj, subtree, seq; seq holds the    *)
(* nodes below.  A chain is the sequence of its rules; its name and its    *)
(* use at several places are left out.                                     *)
(***************************************************************************)
EXTENDS AclObjects, SequencesExt

CONSTANT None    \* attribute is not set

Node(obj, subtree, seq) == [obj |-> obj, subtree |-> subtree, seq |-> seq]
NoSeq == <<>>

-----------------------------------------------------------------------------
(***************************************************************************)
(* Rule trees                                                              *)
(***************************************************************************)
InitialOrder == <<"srcRange", "dst", "prt", "src">>

\* The protocol without ports is used as source range to get more efficient chains.
WithSrcRange(r) ==
  [r EXCEPT !.srcRange = IF @ # PrtIP THEN @ ELSE AnyOf(r.prt[1])]

CountOf(R, attr) == Cardinality({R[i][attr] : i \in DOMAIN R})

\* Attributes with fewer values come first; equal ones stay in the order they had.
SortOrder(order, R) ==
  SortSeq(order, LAMBDA x, y : \/ CountOf(R, x) < CountOf(R, y)
                               \/ /\ CountOf(R, x) = CountOf(R, y)
                                  /\ SelectInSeq(order, LAMBDA a : a \in {x, y}) 
                                       = SelectInSeq(order, LAMBDA a : a = x))

RECURSIVE RuleTree(_, _)
RuleTree(S, order) ==
  IF order = <<>> THEN IF \E r \in S : r.deny THEN "deny" ELSE "permit"
  ELSE [k \in {r[order[1]] : r \in S} |-> RuleTree({r \in S : r[order[1]] = k}, Tail(order))]

\* Positions where a run of rules with equal attribute deny starts.
Starts(R) == {i \in DOMAIN R : i = 1 \/ R[i].deny # R[i - 1].deny}
RunFrom(R, i) ==
  SubSeq(R, i, CHOOSE j \in i .. Len(R) : /\ \A n \in i .. j : R[n].deny = R[i].deny
                                          /\ j = Len(R) \/ R[j + 1].deny # R[i].deny)

-----------------------------------------------------------------------------
(***************************************************************************)
(* genAddrBintree: the upper half of a node comes before the lower one.    *)
(***************************************************************************)
Inside(a, b) == b[2] > a[2] /\ Enclosing(a, b[2]) = b
IsLow(obj, root) == obj[1] < root[1] + 2^(root[2] - 1)

\* The smallest network around both objects that is larger than the second one.
Common(a, b) == Enclosing(a, Min({s \in b[2] + 1 .. AddrBits : Enclosing(a, s) = Enclosing(b, s)}))

\* Both halves have the same subtree and nothing below.
Mergeable(root) ==
  /\ root.subtree = None /\ Len(root.seq) = 2
  /\ \A i \in 1 .. 2 : /\ root.seq[i].obj[2] + 1 = root.obj[2]
                       /\ root.seq[i].subtree # None /\ root.seq[i].seq = NoSeq
  /\ root.seq[1].subtree = root.seq[2].subtree

Merge(root) == IF Mergeable(root) THEN Node(root.obj, root.seq[1].subtree, NoSeq) ELSE root

\* Node new replaces that of the same half below tree.
WithBelow(tree, new) ==
  LET other == SelectSeq(tree.seq, LAMBDA n : IsLow(n.obj, tree.obj) # IsLow(new.obj, tree.obj))
  IN  [tree EXCEPT !.seq = IF IsLow(new.obj, tree.obj) THEN other \o <<new>> ELSE <<new>> \o other]

SameHalf(tree, node) ==
  SelectSeq(tree.seq, LAMBDA n : IsLow(n.obj, tree.obj) = IsLow(node.obj, tree.obj))

\* A node is discarded if a node above has the same subtree.
RECURSIVE AddBintree(_, _)
AddBintree(tree, node) ==
  Merge(IF ~Inside(node.obj, tree.obj)
        THEN Node(Common(node.obj, tree.obj), None,
                  IF node.obj[1] < tree.obj[1] THEN <<tree, node>> ELSE <<node, tree>>)
        ELSE IF tree.subtree # None /\ tree.subtree = node.subtree THEN tree
        ELSE WithBelow(tree, IF SameHalf(tree, node) = <<>> THEN node
                             ELSE AddBintree(SameHalf(tree, node)[1], node)))

RECURSIVE AddNodes(_, _, _)
AddNodes(tree, objs, T) ==
  IF objs = <<>> THEN tree
  ELSE AddNodes(AddBintree(tree, Node(objs[1], T[objs[1]], NoSeq)), Tail(objs), T)

\* Large networks come first, then the larger address.
LargeFirst(a, b) == a[2] > b[2] \/ (a[2] = b[2] /\ a[1] > b[1])
AddrRoot(objs, T) == AddNodes(Node(objs[1], T[objs[1]], NoSeq), Tail(objs), T)
GenAddrBintree(T) == AddrRoot(SortSeq(SetToSeq(DOMAIN T), LargeFirst), T)

-----------------------------------------------------------------------------
(***************************************************************************)
(* genprtBintree                                                           *)
(***************************************************************************)
\* Protocols of tree T around p, except for protocol "ip".
Around(p, T) == {q \in DOMAIN T \ {p, PrtIP} : PrtBelow(p, q)}

TopPrt(T) == {p \in DOMAIN T \ {PrtIP} : Around(p, T) = {}}

\* Protocols directly below up; those with the subtree of up are redundant.
SubPrt(up, T) ==
  {p \in DOMAIN T : /\ up \in Around(p, T) /\ T[p] # T[up]
                    /\ \A q \in Around(p, T) : PrtBelow(up, q)}

Sorted(P, n) == SortSeq(SetToSeq(P), LAMBDA a, b : a[n] < b[n])

\* Two ranges <<hi, lo>> with the same subtree are merged if at most two ranges are left
\* below.
JoinNodes(n) ==
  IF /\ n[2].obj[3] + 1 = n[1].obj[2]
     /\ n[1].subtree # None /\ n[1].subtree = n[2].subtree
     /\ Len(n[1].seq) + Len(n[2].seq) <= 2
  THEN Node(<<n[1].obj[1], n[2].obj[2], n[1].obj[3]>>, n[1].subtree, n[1].seq \o n[2].seq)
  ELSE Node(<<n[1].obj[1], n[2].obj[2], n[1].obj[3]>>, None, n)

\* The right half and the left half, which is larger.
Half(ports, i) ==
  IF i = 1 THEN SubSeq(ports, ((Len(ports) - 1) \div 2) + 2, Len(ports))
  ELSE SubSeq(ports, 1, ((Len(ports) - 1) \div 2) + 1)

\* genRangetree and genLohitrees for ranges sorted by their first port.
RECURSIVE GenRangetree(_, _)
RECURSIVE GenLohitrees(_, _)
GenLohitrees(ports, T) ==
  [i \in 1 .. Min({2, Len(ports)}) |->
     GenRangetree(IF Len(ports) = 1 THEN ports ELSE Half(ports, i), T)]

GenRangetree(ports, T) ==
  IF Len(ports) = 1
  THEN Node(ports[1], T[ports[1]], GenLohitrees(Sorted(SubPrt(ports[1], T), 2), T))
  ELSE JoinNodes(GenLohitrees(ports, T))

Single(prts, T) == [i \in DOMAIN prts |-> Node(prts[i], T[prts[i]], NoSeq)]

\* A node for ICMP protocols of one type, which have different codes if there are many.
IcmpType(prts, T) ==
  IF Len(prts) > 1 THEN Node(Icmp(prts[1][2], -1), None, Single(prts, T))
  ELSE Node(prts[1], T[prts[1]], Single(Sorted(SubPrt(prts[1], T), 3), T))

IcmpTypes(prts, T) ==
  LET types == SortSeq(SetToSeq({p[2] : p \in prts}), <)
  IN  [i \in DOMAIN types |-> IcmpType(Sorted({p \in prts : p[2] = types[i]}, 3), T)]

\* The root of nodes, if there is no protocol for it in use.
RootOf(seq, obj) == IF Len(seq) = 1 THEN seq[1] ELSE Node(obj, None, seq)

GenIcmp(prts, T) ==
  IF Icmp(-1, -1) \in prts
  THEN Node(Icmp(-1, -1), T[Icmp(-1, -1)], IcmpTypes(SubPrt(Icmp(-1, -1), T), T))
  ELSE RootOf(IcmpTypes(prts, T), Icmp(-1, -1))

PrtNodes(prts, name, T) ==
  IF prts = {} THEN <<>>
  ELSE CASE name = "icmp" -> <<GenIcmp(prts, T)>>
         [] name \in {"tcp", "udp"} -> <<GenRangetree(Sorted(prts, 2), T)>>
         [] OTHER -> Single(SetToSeq(prts), T)

\* Nodes for tcp, udp, numeric protocols and icmp.
TopNodes(T) ==
  FlattenSeq([i \in 1 .. 5 |->
    LET name == <<"tcp", "udp", "50", "51", "icmp">>[i]
    IN  PrtNodes({p \in TopPrt(T) : p[1] = name}, name, T)])

GenPrtBintree(T) ==
  IF PrtIP \in DOMAIN T THEN Node(PrtIP, T[PrtIP], TopNodes(T)) ELSE RootOf(TopNodes(T), PrtIP)

\* The values of an attribute show which kind of tree is needed.
IsAddr(obj) == Len(obj) = 2
InsertBintree(T) ==
  IF IsAddr(CHOOSE k \in DOMAIN T : TRUE) THEN GenAddrBintree(T) ELSE GenPrtBintree(T)

\* A node that needs no test.
Noop(node) == node.obj \in {Network00, PrtIP}

-----------------------------------------------------------------------------
(***************************************************************************)
(* genChain: a rule has at most one test for each attribute and either     *)
(* decides or continues with a chain.                                      *)
(***************************************************************************)
NoTest == [srcRange |-> None, dst |-> None, prt |-> None, src |-> None,
           deny |-> FALSE, chain |-> <<>>, goto |-> FALSE]

ChainRule(rules) == [NoTest EXCEPT !.chain = rules, !.goto = TRUE]

\* Mutant of WithTest: the jump is always done with goto.
WithTestGoto(r, attr, node) == IF Noop(node) THEN r ELSE [r EXCEPT ![attr] = node.obj]

\* Goto isn't used if tests for the nodes below are following.
WithTest(r, attr, node) ==
  LET jump == IF node.seq = NoSeq THEN r ELSE [r EXCEPT !.goto = FALSE]
  IN  IF Noop(node) THEN jump ELSE [jump EXCEPT ![attr] = node.obj]

RECURSIVE GenChain(_, _)
RECURSIVE NodeRules(_, _)

\* More than one rule becomes a chain of its own.
AsChain(rules, node) == IF Len(rules) > 1 /\ ~Noop(node) THEN <<ChainRule(rules)>> ELSE rules

\* Rules for the subtree of a node, without test for the node itself.
SubtreeRules(node, order) ==
  IF node.subtree = None THEN <<>>
  ELSE IF Len(order) = 1 THEN <<[NoTest EXCEPT !.deny = (node.subtree = "deny")]>>
  ELSE AsChain(GenChain(InsertBintree(node.subtree), Tail(order)), node)

Tested(rules, attr, node) == [i \in DOMAIN rules |-> WithTest(rules[i], attr, node)]

\* Rules for a node are followed by those for the nodes below.
NodeRules(node, order) ==
  Tested(SubtreeRules(node, order), order[1], node)
    \o FlattenSeq([i \in DOMAIN node.seq |->
         IF i < Len(node.seq) THEN GenChain(node.seq[i], order) ELSE NodeRules(node.seq[i], order)])

TestedChain(rules, attr, node) ==
  IF Len(rules) > 1 /\ ~Noop(node) THEN <<[ChainRule(rules) EXCEPT ![attr] = node.obj]>> ELSE rules

GenChain(node, order) == TestedChain(NodeRules(node, order), order[1], node)

\* Does a rule test an attribute with a value of another kind; this is a failing type
\* assertion of the program.
RECURSIVE WrongKind(_)
WrongKind(rules) ==
  \E i \in DOMAIN rules :
    \/ \E attr \in {"src", "dst"} : rules[i][attr] # None /\ ~IsAddr(rules[i][attr])
    \/ \E attr \in {"srcRange", "prt"} : rules[i][attr] # None /\ IsAddr(rules[i][attr])
    \/ WrongKind(rules[i].chain)

\* Goto must not be used in the last rule if other rules are following.
NoGotoAtEnd(rules) == [rules EXCEPT ![Len(rules)].goto = FALSE]

-----------------------------------------------------------------------------
(***************************************************************************)
(* What the device does with the code written by printChains.              *)
(***************************************************************************)
\* Protocol "ip" is not tested at all; if only the source range is given, its protocol is
\* tested as well.
PrtTest(r, k) ==
  \/ r.prt = None /\ (r.srcRange = None \/ r.srcRange = PrtIP \/ MatchSrcRange(r.srcRange, k))
  \/ r.prt # None /\ (r.prt = PrtIP \/ (/\ MatchPrt(r.prt, k)
                                        /\ r.srcRange # None /\ IsRange(r.prt) /\ IsRange(r.srcRange)
                                           => k.sport \in r.srcRange[2] .. r.srcRange[3]))

RuleTest(r, k) ==
  /\ r.src # None => k.src \in Block(r.src)
  /\ r.dst # None => k.dst \in Block(r.dst)
  /\ PrtTest(r, k)

\* A packet that isn't decided in a chain returns behind the last jump without goto.
RECURSIVE Verdict(_, _)
VerdictOfChain(v, rules, k) == IF v # "return" \/ rules[1].goto THEN v ELSE Verdict(Tail(rules), k)

Verdict(rules, k) ==
  IF rules = <<>> THEN "return"
  ELSE IF ~RuleTest(rules[1], k) THEN Verdict(Tail(rules), k)
  ELSE IF rules[1].chain = <<>> THEN IF rules[1].deny THEN "deny" ELSE "permit"
  ELSE VerdictOfChain(Verdict(rules[1].chain, k), rules, k)
=============================================================================
