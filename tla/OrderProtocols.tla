--------------------------- MODULE OrderProtocols ---------------------------
(***************************************************************************)
(* Containment of port ranges (orderRanges in order-protocols.go): the     *)
(* ranges become nested, ranges that overlap are split.  A range is a pair *)
(* of its first and last port.                                             *)
(***************************************************************************)
EXTENDS PolicyObjects

VARIABLES
  ranges,   \* l: sorted sequence of ranges
  pos,      \* current position in it
  active,   \* stack of calls of checkSubrange, each given by its range a
  prtUp,    \* attribute up of ranges
  split     \* attribute split of ranges

prtVars == <<ranges, pos, active, prtUp, split>>

AllPorts == <<1, Ports>>

\* Port ranges of a policy that is read without error (setup-objects.go:327-355).
ASSUME PortsAssumption ==
  \A p \in Policies : \A r \in p.ports : r \in (1 .. Ports) \X (1 .. Ports) /\ r[1] <= r[2]

\* A larger range comes first if the first ports are equal.
LargerFirst(a, b) == a[1] < b[1] \/ (a[1] = b[1] /\ a[2] > b[2])
Sorted(L) == \A m, n \in DOMAIN L : m < n => LargerFirst(L[m], L[n])

InitPrt ==
  /\ ranges \in {L \in SetToSeqs(policy.ports \cup {AllPorts}) : Sorted(L)}
  /\ pos = 2
  /\ active = <<AllPorts>>
  /\ prtUp = [r \in {AllPorts} |-> PrtIP]
  /\ split = <<>>

Above == active[Len(active)]

SubRange ==
  /\ step = "protocols"
  /\ pos <= Len(ranges)
  /\ ranges[pos][2] <= Above[2]
  /\ prtUp' = [r \in DOMAIN prtUp \cup {ranges[pos]} |-> IF r = ranges[pos] THEN Above ELSE prtUp[r]]
  /\ active' = Append(active, ranges[pos])
  /\ pos' = pos + 1
  /\ UNCHANGED <<step, ranges, split>>

\* Unrelated or adjacent range: go on with the caller.
NotRelated ==
  /\ step = "protocols"
  /\ pos <= Len(ranges)
  /\ Above[2] < ranges[pos][1]
  /\ active' = SubSeq(active, 1, Len(active) - 1)
  /\ UNCHANGED <<step, ranges, pos, prtUp, split>>

\* Mutant of Insert: the new range is inserted directly behind the split one.
InsertNext(L, r) == IF r \in ToSet(L) THEN L ELSE InsertAt(L, pos + 1, r)

\* findOrInsertRange
Insert(L, r) ==
  IF r \in ToSet(SubSeq(L, pos + 1, Len(L))) THEN L
  ELSE InsertAt(L, CHOOSE n \in pos + 1 .. Len(L) + 1 :
                     /\ n <= Len(L) => LargerFirst(r, L[n])
                     /\ \A m \in pos + 1 .. n - 1 : LargerFirst(L[m], r), r)

\* Split a range that ends outside of the range above.
Overlap ==
  /\ step = "protocols"
  /\ pos <= Len(ranges)
  /\ ranges[pos][1] <= Above[2] /\ Above[2] < ranges[pos][2]
  /\ \E left \in {<<ranges[pos][1], Above[2]>>}, right \in {<<Above[2] + 1, ranges[pos][2]>>} :
       /\ ranges' = Insert(Insert(ranges, left), right)
       /\ split' = [r \in DOMAIN split \cup {ranges[pos]} |->
                      IF r = ranges[pos] THEN <<left, right>> ELSE split[r]]
  /\ pos' = pos + 1
  /\ UNCHANGED <<step, active, prtUp>>

EndOfRanges ==
  /\ step = "protocols"
  /\ pos > Len(ranges)
  /\ step' = "subnets in zone"
  /\ UNCHANGED prtVars

NextPrt ==
  \/ SubRange
  \/ NotRelated
  \/ Overlap
  \/ EndOfRanges

\* The other steps of the program, see module PolicyRules.
OtherSteps ==
  /\ step # "protocols" /\ step' # "protocols"
  /\ UNCHANGED prtVars

PrtSpec ==
  /\ policy \in Policies /\ step = "protocols" /\ InitPrt
  /\ [][(NextPrt \/ OtherSteps) /\ UNCHANGED policy]_<<policy, step, prtVars>>

-----------------------------------------------------------------------------
\* expandSplitProtocol
Halves(r) == IF r \in DOMAIN split THEN {split[r][1], split[r][2]} ELSE {r}
Parts(r) ==
  LET Split[k \in Nat] == IF k = 0 THEN {r} ELSE UNION {Halves(p) : p \in Split[k - 1]}
  IN  Split[Ports]

\* Attribute up of a protocol, for a protocol that is not split.
UpPrt(p) ==
  CASE p = PrtIP -> None
    [] IsRange(p) -> IF p = AnyOf(p[1]) THEN PrtIP ELSE <<p[1]>> \o prtUp[<<p[2], p[3]>>]
    [] p[1] = "established" -> Tcp(1, Ports)
    [] OTHER -> PrtIP

Within(a, b) == b[1] <= a[1] /\ a[2] <= b[2]
PortsOf(r) == r[1] .. r[2]

\* orderRanges: each range that is used stands for ranges with the same ports, and all of
\* these are nested or disjoint; attribute up leads to the smallest range around.  The
\* search for redundant rules follows up only, and joinRanges of pass 2 relies on ranges
\* that do not overlap.
RangesNested ==
  step = "subnets in zone" =>
    /\ \A r \in policy.ports :
         /\ Parts(r) \subseteq DOMAIN prtUp
         /\ PortsOf(r) = UNION {PortsOf(p) : p \in Parts(r)}
    /\ \A p, q \in DOMAIN prtUp : PortsOf(p) \cap PortsOf(q) # {} => Within(p, q) \/ Within(q, p)
    /\ \A p \in DOMAIN prtUp \ {AllPorts} :
         /\ prtUp[p] \in DOMAIN prtUp /\ Within(p, prtUp[p])
         /\ \A q \in DOMAIN prtUp \ {p} : Within(p, q) => Within(prtUp[p], q)
=============================================================================
