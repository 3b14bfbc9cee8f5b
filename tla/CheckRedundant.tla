--------------------------- MODULE CheckRedundant ---------------------------
(***************************************************************************)
(* Search for redundant rules (check-redundant.go).  It runs in background *)
(* while subnet relations and supernet rules are checked; path rules are   *)
(* changed only after it has finished.  The error for equal rules with     *)
(* different values of log is left out: it stops nothing here, see         *)
(* LateError of module CodeDir.                                            *)
(***************************************************************************)
EXTENDS PathRules

VARIABLES
  isDone,     \* the check in background has finished
  duplicate,  \* expanded rules that are equal to another one
  redundant   \* expanded rules that are part of another one

redundantVars == <<isDone, duplicate, redundant>>

InitRedundant == isDone = FALSE /\ duplicate = {} /\ redundant = {}

ExpandRule(r) ==
  {[path |-> <<r.srcPath, r.dstPath>>, deny |-> r.deny, stateless |-> "stateless" \in r.mods,
    src |-> x[1], dst |-> x[2], prt |-> x[3], range |-> r.range, log |-> r.log,
    rule |-> r.rule, mods |-> r.mods] : x \in r.src \X r.dst \X r.prts}
ExpandRules == UNION {ExpandRule(r) : r \in pathRules}

\* Position of a rule in the rule tree.
Key(e) == <<e.path, e.stateless, e.deny, e.range, e.src, e.dst, e.prt>>

\* buildRuleTree: of identical rules the first one is a leaf of the tree.
Leaves(E) == {e \in E : ~\E f \in E : Key(f) = Key(e) /\ ComesBefore(f, e)}

\* Objects on the way up.
ObjUps(o) ==
  CASE IsSubnet(o) -> {o} \cup {SubnetObj(s) : s \in UpChain(SubnetOf(o))} \cup UpNets(HostNet)
    [] IsIntf(o)   -> {o, IntfNet(o)} \cup UpNets(IntfNet(o))
    [] OTHER       -> {o} \cup UpNets(o)

\* Protocols on the way up.
RECURSIVE UpPrts(_)
UpPrts(p) == IF UpPrt(p) = None THEN {p} ELSE {p} \cup UpPrts(UpPrt(p))

\* Mutant of LargerRule: values of attribute log aren't compared.
LargerUnlogged(e, f) ==
  /\ f # e /\ f.path = e.path
  /\ f.stateless => e.stateless
  /\ e.deny => f.deny
  /\ f.range \in UpPrts(e.range) /\ f.prt \in UpPrts(e.prt)
  /\ f.src \in ObjUps(e.src) /\ f.dst \in ObjUps(e.dst)

\* findRedundantRules: rule f is found on the way up from rule e.  Protocols that aren't
\* used by rules of this path are left out on the way (setLocalPrtRelation).
LargerRule(e, f) ==
  /\ f # e /\ f.path = e.path
  /\ f.stateless => e.stateless
  /\ e.deny => f.deny
  /\ f.range \in UpPrts(e.range) /\ f.prt \in UpPrts(e.prt)
  /\ f.src \in ObjUps(e.src) /\ f.dst \in ObjUps(e.dst)
  /\ f.log = e.log

CheckRedundantRules ==
  /\ step \in {"identical", "relation", "local", "supernets", "collect messages"}
  /\ ~isDone
  /\ \E E \in {ExpandRules} : \E L \in {Leaves(E)} :
       /\ duplicate' = {e \in E : \E f \in E \ {e} : Key(f) = Key(e)}
       /\ redundant' = {e \in L : \E f \in L : LargerRule(e, f)}
  /\ isDone' = TRUE
  /\ UNCHANGED <<step, pathVars>>

\* collectMessages waits for the end of the check.
CollectMessages ==
  /\ step = "collect messages"
  /\ isDone
  /\ step' = "duplicates"
  /\ UNCHANGED <<pathVars, redundantVars>>

\* showFullyRedundantRules: each rule of the service is a duplicate or redundant.
FullyRedundant(s) ==
  \E E \in {{e \in ExpandRules : e.rule[1] = s}} : E # {} /\ E \subseteq duplicate \cup redundant

-----------------------------------------------------------------------------
\* Does rule f apply to all packets of rule e, with the same effect or with deny.
Includes(f, e) ==
  /\ f.path = e.path /\ f.log = e.log
  /\ f.stateless => e.stateless
  /\ e.deny => f.deny
  /\ AddrOf(e.src) \subseteq AddrOf(f.src) /\ AddrOf(e.dst) \subseteq AddrOf(f.dst)
  /\ PrtBelow(e.prt, f.prt) /\ PrtBelow(e.range, f.range)

\* All rules that are reported as redundant can be removed together, none of the others
\* can.  The search only follows attribute up of objects and protocols, which have been
\* computed from addresses and ports.
RedundantCanGo ==
  step = "collect messages" /\ isDone =>
    \E L \in {Leaves(ExpandRules)} :
      /\ \A e \in redundant : \E f \in L \ redundant : Includes(f, e)
      /\ \A e \in L \ redundant : ~\E f \in L \ {e} : Includes(f, e)
=============================================================================
