------------------------- MODULE NormalizeServices -------------------------
(***************************************************************************)
(* Services become rules with lists of objects (normalize-services.go).    *)
(*                                                                         *)
(* A service has fields user, foreach and rules; its rules have fields     *)
(* deny, src, dst, prts and log.  A protocol in prts has fields prt, range *)
(* for its source range, and mods, the set of its modifiers.               *)
(***************************************************************************)
EXTENDS ExpandGroups, OrderProtocols

VARIABLES
  sv,         \* current service
  agenda,     \* calls of normalizeSrcDstList for this service: number of the rule and
              \* elements of user
  srcList,    \* expanded src of the current rule: None or a set
  sRules      \* service rules

serviceVars == <<sv, agenda, srcList, sRules>>

InitServices ==
  /\ sv = 1
  /\ agenda = None
  /\ srcList = None
  /\ sRules = {}

Service == policy.services[sv]
InService == step = "services" /\ stack = <<>> /\ sv <= Len(policy.services)
Call(list) == stack' = <<Frame(<<"list">>, list, TRUE)>>

\* expandGroup for attribute user of the service
ExpandUser ==
  /\ InService
  /\ agenda = None /\ expanded = None
  /\ Call(Service.user)
  /\ UNCHANGED <<userObj, cache, recursive, problems, expanded, netVars, serviceVars>>

\* All rules are handled once, or once for each element of user.
HaveUser ==
  /\ InService
  /\ agenda = None /\ expanded # None
  /\ agenda' = FlattenSeq([n \in DOMAIN Service.rules |->
                             IF Service.foreach THEN SetToSeq({[rule |-> n, user |-> {u}] : u \in expanded})
                             ELSE <<[rule |-> n, user |-> expanded]>>])
  /\ expanded' = None
  /\ UNCHANGED <<stack, userObj, cache, recursive, problems, netVars, sv, srcList, sRules>>

Todo == Head(agenda)
InRule == InService /\ agenda # None /\ agenda # <<>>
Rule == Service.rules[Todo.rule]

ExpandSrc ==
  /\ InRule
  /\ srcList = None /\ expanded = None
  /\ userObj' = Todo.user
  /\ Call(Rule.src)
  /\ UNCHANGED <<cache, recursive, problems, expanded, netVars, serviceVars>>

\* expandGroupInRule ignores some objects.
Usable(S) == {o \in S : o[1] # "area" /\ o \notin policy.crosslink}

ExpandDst ==
  /\ InRule
  /\ srcList = None /\ expanded # None
  /\ srcList' = Usable(expanded)
  /\ expanded' = None
  /\ Call(Rule.dst)
  /\ UNCHANGED <<userObj, cache, recursive, problems, netVars, sv, agenda, sRules>>

-----------------------------------------------------------------------------
(***************************************************************************)
(* substituteAutoIntf                                                      *)
(***************************************************************************)
IsAuto(o) == o[1] = "auto"
NodeOf(o) == IF IsAuto(o) THEN o[2] ELSE PathNode(o)

\* pathAutoInterfaces: the interface of router a on the path to d.
RealIntfs(a, d) ==
  IF NodeOf(d) = a[2] THEN {}
  ELSE {i \in policy.interfaces : i[1] = a[2] /\ IntfZone(i) = Entry(NodeOf(d), a[2])}

\* expandAutoIntfWithDstList: interfaces, and the objects that lead to them.
AutoPairs(a, D) ==
  {<<R, {d \in D : RealIntfs(a, d) = R}>> : R \in {RealIntfs(a, d) : d \in D} \ {{}}}

\* All objects lead to the same interfaces.
Alike(a, D) == Cardinality(AutoPairs(a, D)) = 1

Converted(S, D) ==
  UNION {IF ~IsAuto(s) THEN {s} ELSE IF Alike(s, D) THEN UNION {p[1] : p \in AutoPairs(s, D)} ELSE {} : s \in S}
Extra(S, D) == UNION {IF Alike(s, D) THEN {} ELSE AutoPairs(s, D) : s \in {a \in S : IsAuto(a)}}

Turned(pairs) == {<<p[2], p[1]>> : p \in pairs}

\* normalizeSrcDstList: pairs of src and dst list.
SrcDstPairs(S, D) ==
  {<<Converted(S, D), Converted(D, Converted(S, D))>>}
    \cup Turned(Extra(D, Converted(S, D)))
    \cup UNION {{<<p[1], Converted(p[2], p[1])>>} \cup Turned(Extra(p[2], p[1])) : p \in Extra(S, D)}

-----------------------------------------------------------------------------
\* Protocols of a rule that have been split.
Split(p) == IF IsRange(p) THEN {<<p[1]>> \o r : r \in Parts(<<p[2], p[3]>>)} ELSE {p}

ServiceRule(pair, P, p, q) ==
  [deny |-> Rule.deny, src |-> pair[1], dst |-> pair[2], prts |-> p, range |-> q, mods |-> P.mods,
   log |-> Rule.log, rule |-> <<sv, Todo.rule>>]

IsSimple(P) == P.mods = {} /\ P.range = PrtIP
SimpleRules(pair) ==
  {ServiceRule(pair, P, UNION {Split(x.prt) : x \in {y \in Rule.prts : IsSimple(y)}}, PrtIP) :
     P \in {x \in Rule.prts : IsSimple(x)}}

\* classifyProtocols: one rule with all simple protocols, one rule for each other one.
ComplexRules(pair) ==
  UNION {{ServiceRule(IF "reversed" \in P.mods THEN <<pair[2], pair[1]>> ELSE pair, P, {p}, q) :
            p \in Split(P.prt), q \in Split(P.range)} :
           P \in {x \in Rule.prts : ~IsSimple(x)}}

NormalizeRule ==
  /\ InRule
  /\ srcList # None /\ expanded # None
  /\ sRules' = sRules \cup UNION {SimpleRules(p) \cup ComplexRules(p) :
                                   p \in SrcDstPairs(srcList, Usable(expanded))}
  /\ userObj' = None
  /\ srcList' = None /\ expanded' = None
  /\ agenda' = Tail(agenda)
  /\ UNCHANGED <<stack, cache, recursive, problems, netVars, sv>>

NextService ==
  /\ InService
  /\ agenda = <<>>
  /\ sv' = sv + 1
  /\ agenda' = None
  /\ UNCHANGED <<groupVars, netVars, srcList, sRules>>

\* Errors stop the program before rules are converted.
EndOfServices ==
  /\ step = "services"
  /\ sv > Len(policy.services)
  /\ step' = IF problems = {} THEN "hosts" ELSE "stopped"
  /\ UNCHANGED <<groupVars, netVars, serviceVars>>

NextServices ==
  \/ UNCHANGED step /\ step = "services" /\ (NextGroups /\ UNCHANGED serviceVars)
  \/ UNCHANGED step /\ (ExpandUser \/ HaveUser \/ ExpandSrc \/ ExpandDst \/ NormalizeRule \/ NextService)
  \/ EndOfServices

-----------------------------------------------------------------------------
\* expandGroup: a list that is expanded without error has the objects that follow from
\* the definitions, whatever has been stored for a group before, in any context; and a
\* group that contains itself is reported if it is used.
ListsMeanGroups ==
  \A list \in {IF srcList = None THEN <<Rule.src>> ELSE <<Rule.src, Rule.dst>>
               : x \in IF InRule /\ expanded # None THEN {1} ELSE {}} :
    IF \E g \in GroupsFrom(GroupsIn(list[Len(list)])) : IsCyclic(g) THEN "recursion" \in problems
    ELSE problems = {} => expanded = Meaning(list[Len(list)], TRUE, Todo.user)
=============================================================================
