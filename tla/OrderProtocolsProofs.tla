---------------------- MODULE OrderProtocolsProofs ----------------------
(***************************************************************************)
(* Proof of RangesNested of module OrderProtocols, for every last port and *)
(* every set of port ranges.                                               *)
(*                                                                         *)
(* The inductive invariant PrtInv says what the recursive function         *)
(* checkSubrange relies on: the ranges stay sorted when the two parts of a *)
(* split range are inserted behind the current one, the calls that are     *)
(* active have ranges that contain each other, and a range without active  *)
(* call ends in front of the current one.  So a new range is either inside *)
(* of the range of the innermost call, or split at its end.                *)
(***************************************************************************)
EXTENDS OrderProtocols, DataLemmas, FiniteSetTheorems, SequenceTheorems, TLAPS

PortRange == {r \in (1 .. Ports) \X (1 .. Ports) : r[1] <= r[2]}

-----------------------------------------------------------------------------
(***************************************************************************)
(* Sorted sequences of ranges.                                             *)
(***************************************************************************)
LEMMA RangeShape ==
  \A r \in PortRange :
    r[1] \in Nat /\ r[2] \in Nat /\ 1 <= r[1] /\ r[1] <= r[2] /\ r[2] <= Ports /\ r = <<r[1], r[2]>>
BY AclObjectsAssumption DEF PortRange

LEMMA LargerFirstIsTotal ==
  ASSUME NEW a \in PortRange, NEW b \in PortRange
  PROVE  /\ ~LargerFirst(a, a)
         /\ a = b \/ LargerFirst(a, b) \/ LargerFirst(b, a)
         /\ \A c \in PortRange : LargerFirst(a, b) /\ LargerFirst(b, c) => LargerFirst(a, c)
BY RangeShape DEF LargerFirst

LEMMA InsertAtShape ==
  ASSUME NEW S, NEW L \in Seq(S), NEW r \in S, NEW n \in 1 .. Len(L) + 1
  PROVE  /\ InsertAt(L, n, r) \in Seq(S)
         /\ Len(InsertAt(L, n, r)) = Len(L) + 1
         /\ \A k \in 1 .. Len(L) + 1 :
              InsertAt(L, n, r)[k] = IF k < n THEN L[k] ELSE IF k = n THEN r ELSE L[k - 1]
<1> DEFINE A == SubSeq(L, 1, n - 1)
           B == SubSeq(L, n, Len(L))
<1>1. A \in Seq(S) /\ Len(A) = n - 1 /\ \A k \in 1 .. n - 1 : A[k] = L[k]
  BY SubSeqProperties
<1>2. B \in Seq(S) /\ Len(B) = Len(L) - n + 1 /\ \A k \in 1 .. Len(L) - n + 1 : B[k] = L[n + k - 1]
  BY SubSeqProperties
<1>3. InsertAt(L, n, r) = (A \o <<r>>) \o B
  BY DEF InsertAt
<1> HIDE DEF A, B
<1>4. /\ A \o <<r>> \in Seq(S) /\ Len(A \o <<r>>) = n
      /\ \A k \in 1 .. n : (A \o <<r>>)[k] = IF k <= n - 1 THEN A[k] ELSE r
  BY <1>1
<1> DEFINE C == A \o <<r>>
<1> HIDE DEF C
<1>5. C \in Seq(S) /\ Len(C) = n /\ \A k \in 1 .. n : C[k] = IF k <= n - 1 THEN A[k] ELSE r
  BY <1>4 DEF C
<1>6. /\ C \o B \in Seq(S) /\ Len(C \o B) = Len(L) + 1
      /\ \A k \in 1 .. Len(L) + 1 : (C \o B)[k] = IF k <= n THEN C[k] ELSE B[k - n]
  <2>1. Len(L) \in Nat /\ Len(C) + Len(B) = Len(L) + 1
    BY <1>2, <1>5
  <2> QED  BY <1>2, <1>5, <2>1, ConcatProperties
<1>7. ASSUME NEW k \in 1 .. Len(L) + 1
      PROVE  (C \o B)[k] = IF k < n THEN L[k] ELSE IF k = n THEN r ELSE L[k - 1]
  <2>1. CASE k < n
    <3>1. k \in 1 .. n - 1 /\ k \in 1 .. n /\ k <= n /\ k <= n - 1
      BY <2>1
    <3> QED  BY <1>1, <1>5, <1>6, <2>1, <3>1
  <2>2. CASE k = n
    BY <1>5, <1>6, <2>2
  <2>3. CASE k > n
    <3>1. k - n \in 1 .. Len(L) - n + 1 /\ n + (k - n) - 1 = k - 1
      BY <2>3
    <3>2. B[k - n] = L[k - 1]
      BY <1>2, <3>1
    <3>3. (C \o B)[k] = B[k - n]
      BY <1>6, <2>3
    <3> QED  BY <2>3, <3>2, <3>3
  <2>4. k < n \/ k = n \/ k > n
    <3>1. k \in Int /\ n \in Int
      OBVIOUS
    <3> QED  BY <3>1
  <2> QED  BY <2>1, <2>2, <2>3, <2>4
<1> QED  BY <1>3, <1>6, <1>7 DEF C

\* A range that comes behind the current one is inserted, unless it is there.
LEMMA InsertKeepsOrder ==
  ASSUME NEW L \in Seq(PortRange), Sorted(L), pos \in 1 .. Len(L),
         NEW r \in PortRange, LargerFirst(L[pos], r)
  PROVE  /\ Insert(L, r) \in Seq(PortRange) /\ Sorted(Insert(L, r))
         /\ Len(L) <= Len(Insert(L, r))
         /\ \A n \in 1 .. pos : Insert(L, r)[n] = L[n]
         /\ ToSet(Insert(L, r)) = ToSet(L) \cup {r}
<1> DEFINE behind == SubSeq(L, pos + 1, Len(L))
<1>0. \A n \in pos + 1 .. Len(L) : L[n] \in ToSet(behind)
  <2> TAKE n \in pos + 1 .. Len(L)
  <2>1. behind \in Seq(PortRange) /\ Len(behind) = Len(L) - pos
        /\ \A i \in 1 .. Len(L) - pos : behind[i] = L[pos + i]
    BY SubSeqProperties
  <2>2. n - pos \in DOMAIN behind /\ behind[n - pos] = L[n]
    <3> HIDE DEF behind
    <3> QED  BY <2>1
  <2> QED  BY <2>2 DEF ToSet
<1>1. ToSet(behind) \subseteq ToSet(L)
  <2>1. behind \in Seq(PortRange) /\ Len(behind) = Len(L) - pos
        /\ \A i \in 1 .. Len(L) - pos : behind[i] = L[pos + i]
    BY SubSeqProperties
  <2>2. ASSUME NEW i \in DOMAIN behind PROVE behind[i] \in ToSet(L)
    <3>1. i \in 1 .. Len(L) - pos /\ pos + i \in DOMAIN L /\ behind[i] = L[pos + i]
      <4> HIDE DEF behind
      <4> QED  BY <2>1
    <3> QED  BY <3>1 DEF ToSet
  <2> HIDE DEF behind
  <2> QED  BY <2>2 DEF ToSet
<1>2. CASE r \in ToSet(behind)
  <2>1. Insert(L, r) = L
    BY <1>2 DEF Insert
  <2> QED  BY <1>1, <1>2, <2>1
<1>3. CASE r \notin ToSet(behind)
  <2> DEFINE Fits(n) == /\ n <= Len(L) => LargerFirst(r, L[n])
                        /\ \A m \in pos + 1 .. n - 1 : LargerFirst(L[m], r)
             A == {n \in pos + 1 .. Len(L) : LargerFirst(r, L[n])}
  <2>1. \A m \in pos + 1 .. Len(L) : LargerFirst(r, L[m]) \/ LargerFirst(L[m], r)
    BY <1>0, <1>3, LargerFirstIsTotal
  <2>2. \E n \in pos + 1 .. Len(L) + 1 : Fits(n)
    <3>1. CASE A = {}
      <4>1. Fits(Len(L) + 1)
        BY <2>1, <3>1
      <4> QED  BY <4>1
    <3>2. CASE A # {}
      <4>1. PICK n \in A : \A m \in A : n <= m
        <5>1. A \in SUBSET Nat
          OBVIOUS
        <5> HIDE DEF A
        <5> QED  BY <3>2, <5>1, LeastNumber
      <4>2. Fits(n)
        BY <2>1, <4>1
      <4> QED  BY <4>1, <4>2
    <3> QED  BY <3>1, <3>2
  <2> DEFINE n == CHOOSE n \in pos + 1 .. Len(L) + 1 : Fits(n)
             K == InsertAt(L, n, r)
  <2>3. n \in pos + 1 .. Len(L) + 1 /\ Fits(n)
    BY <2>2
  <2>4. Insert(L, r) = K
    BY <1>3 DEF Insert
  <2> HIDE DEF n
  <2>5. /\ K \in Seq(PortRange) /\ Len(K) = Len(L) + 1 /\ n \in 1 .. Len(L) + 1
        /\ \A k \in 1 .. Len(L) + 1 : K[k] = IF k < n THEN L[k] ELSE IF k = n THEN r ELSE L[k - 1]
    <3>1. n \in 1 .. Len(L) + 1
      BY <2>3
    <3>2. /\ InsertAt(L, n, r) \in Seq(PortRange) /\ Len(InsertAt(L, n, r)) = Len(L) + 1
          /\ \A k \in 1 .. Len(L) + 1 :
               InsertAt(L, n, r)[k] = IF k < n THEN L[k] ELSE IF k = n THEN r ELSE L[k - 1]
      <4> HIDE DEF K
      <4> QED  BY <3>1, InsertAtShape
    <3> QED  BY <3>1, <3>2
  <2> HIDE DEF K
  <2>6. \A m \in 1 .. n - 1 : LargerFirst(L[m], r)
    <3> TAKE m \in 1 .. n - 1
    <3>1. CASE m > pos
      BY <2>3, <3>1
    <3>2. CASE m <= pos
      <4>1. m = pos \/ LargerFirst(L[m], L[pos])
        BY <3>2 DEF Sorted
      <4> QED  BY <3>2, <4>1, LargerFirstIsTotal
    <3> QED  BY <3>1, <3>2
  <2>7. \A m \in n .. Len(L) : LargerFirst(r, L[m])
    <3> TAKE m \in n .. Len(L)
    <3>1. LargerFirst(r, L[n])
      BY <2>3
    <3>2. m = n \/ LargerFirst(L[n], L[m])
      BY <2>3 DEF Sorted
    <3> QED  BY <2>3, <3>1, <3>2, LargerFirstIsTotal
  <2>8. Sorted(K)
    <3> SUFFICES ASSUME NEW i \in 1 .. Len(L) + 1, NEW j \in 1 .. Len(L) + 1, i < j
                 PROVE  LargerFirst(K[i], K[j])
      BY <2>5 DEF Sorted
    <3>1. CASE i < n /\ j < n
      BY <2>5, <3>1 DEF Sorted
    <3>2. CASE i < n /\ j = n
      BY <2>5, <2>6, <3>2
    <3>3. CASE i < n /\ j > n
      <4>1. i \in 1 .. n - 1 /\ j - 1 \in n .. Len(L) /\ K[i] = L[i] /\ K[j] = L[j - 1]
        BY <2>5, <3>3
      <4>2. i \in DOMAIN L /\ j - 1 \in DOMAIN L /\ i < j - 1
        BY <2>5, <4>1
      <4> QED  BY <4>1, <4>2 DEF Sorted
    <3>4. CASE i = n
      <4>1. j - 1 \in n .. Len(L) /\ K[j] = L[j - 1] /\ K[i] = r
        BY <2>5, <3>4
      <4> QED  BY <2>7, <4>1
    <3>5. CASE i > n
      <4>1. K[i] = L[i - 1] /\ K[j] = L[j - 1]
        BY <2>5, <3>5
      <4>2. i - 1 \in DOMAIN L /\ j - 1 \in DOMAIN L /\ i - 1 < j - 1
        BY <2>5, <3>5
      <4> QED  BY <4>1, <4>2 DEF Sorted
    <3> QED  BY <2>5, <3>1, <3>2, <3>3, <3>4, <3>5
  <2>9. ToSet(K) = ToSet(L) \cup {r}
    <3>1. \A k \in DOMAIN K : K[k] \in ToSet(L) \cup {r}
      <4> TAKE k \in DOMAIN K
      <4>1. CASE k < n
        BY <2>5, <4>1 DEF ToSet
      <4>2. CASE k = n
        BY <2>5, <4>2
      <4>3. CASE k > n
        <5>1. k - 1 \in DOMAIN L /\ K[k] = L[k - 1]
          BY <2>5, <4>3
        <5> QED  BY <5>1 DEF ToSet
      <4> QED  BY <2>5, <4>1, <4>2, <4>3
    <3>2. \A k \in DOMAIN L : \E m \in DOMAIN K : K[m] = L[k]
      <4> TAKE k \in DOMAIN L
      <4>1. CASE k < n
        BY <2>5, <4>1
      <4>2. CASE k >= n
        <5>1. k + 1 \in DOMAIN K /\ K[k + 1] = L[k]
          BY <2>5, <4>2
        <5> QED  BY <5>1
      <4> QED  BY <2>5, <4>1, <4>2
    <3>3. n \in DOMAIN K /\ K[n] = r
      BY <2>5
    <3> QED  BY <3>1, <3>2, <3>3 DEF ToSet
  <2>10. \A k \in 1 .. pos : K[k] = L[k]
    BY <2>3, <2>5
  <2> QED  BY <2>4, <2>5, <2>8, <2>9, <2>10
<1> QED  BY <1>2, <1>3

-----------------------------------------------------------------------------
(***************************************************************************)
(* The inductive invariant.                                                *)
(***************************************************************************)
Handled == {ranges[n] : n \in 1 .. pos - 1}
ActiveSet == {active[i] : i \in 1 .. Len(active)}

\* The ranges are sorted, and none of those that are in use gets lost.
RangesInv ==
  /\ policy \in Policies
  /\ ranges \in Seq(PortRange) /\ Sorted(ranges)
  /\ pos \in 2 .. Len(ranges) + 1
  /\ ranges[1] = AllPorts
  /\ policy.ports \subseteq ToSet(ranges)

\* A range in front of the current one has attribute up or it has been split.
DoneInv ==
  /\ DOMAIN prtUp \subseteq Handled
  /\ Handled \subseteq DOMAIN prtUp \cup DOMAIN split

\* A range is split into two ranges that are in the sequence.
SplitAt(r, c) ==
  /\ split[r] = <<<<r[1], c>>, <<c + 1, r[2]>>>>
  /\ <<r[1], c>> \in ToSet(ranges) /\ <<c + 1, r[2]>> \in ToSet(ranges)
SplitInv ==
  /\ DOMAIN split \subseteq PortRange
  /\ \A r \in DOMAIN split : \E c \in r[1] .. r[2] - 1 : SplitAt(r, c)

\* The ranges of the active calls contain each other.
ActiveInv ==
  /\ active \in Seq(DOMAIN prtUp) /\ Len(active) >= 1 /\ active[1] = AllPorts
  /\ \A i, j \in 1 .. Len(active) : i <= j => Within(active[j], active[i])

\* All other ranges end in front of the current one.
PassedInv ==
  pos <= Len(ranges) => \A p \in DOMAIN prtUp \ ActiveSet : p[2] < ranges[pos][1]

Apart(p, q) == p[2] < q[1] \/ q[2] < p[1]
UpInv ==
  /\ \A p, q \in DOMAIN prtUp : Within(p, q) \/ Within(q, p) \/ Apart(p, q)
  /\ \A p \in DOMAIN prtUp \ {AllPorts} :
       /\ prtUp[p] \in DOMAIN prtUp /\ Within(p, prtUp[p])
       /\ \A q \in DOMAIN prtUp \ {p} : Within(p, q) => Within(prtUp[p], q)

PrtInv ==
  /\ RangesInv /\ DoneInv /\ SplitInv /\ ActiveInv /\ PassedInv /\ UpInv
  /\ step # "protocols" => pos > Len(ranges)

-----------------------------------------------------------------------------
LEMMA IntervalBounds == \A a, b \in Nat : \A x \in a .. b : x \in Int /\ a <= x /\ x <= b
OBVIOUS

LEMMA InUseIsRange == \A p \in Policies : p.ports \cup {AllPorts} \in SUBSET PortRange
BY AclObjectsAssumption, PortsAssumption DEF PortRange, AllPorts

LEMMA PortRangeIsFinite == IsFiniteSet(PortRange)
<1>1. IsFiniteSet(1 .. Ports)
  BY AclObjectsAssumption, FS_Interval
<1>2. IsFiniteSet((1 .. Ports) \X (1 .. Ports))
  BY <1>1, FS_Product
<1> QED  BY <1>2, FS_Subset DEF PortRange

\* All elements of a set are in a sequence of its elements.
LEMMA SequenceHasAll ==
  ASSUME NEW S, IsFiniteSet(S), NEW L \in SetToSeqs(S)
  PROVE  L \in Seq(S) /\ ToSet(L) = S
<1> DEFINE n == Cardinality(S)
<1>1. n \in Nat
  BY FS_CardinalityType
<1>2. L \in [1 .. n -> S] /\ \A i, j \in 1 .. n : i # j => L[i] # L[j]
  BY DEF SetToSeqs
<1> HIDE DEF n
<1>3. L \in Injection(1 .. n, S)
  BY <1>2 DEF Injection, IsInjective
<1>4. IsFiniteSet(1 .. n) /\ Cardinality(1 .. n) = n
  BY <1>1, FS_Interval
<1>5. L \in Surjection(1 .. n, S)
  BY <1>3, <1>4, FS_Injection DEF n
<1>6. \A t \in S : \E i \in 1 .. n : L[i] = t
  BY <1>5 DEF Surjection
<1>7. L \in Seq(S)
  BY <1>1, <1>2
<1> QED  BY <1>2, <1>6, <1>7 DEF ToSet

\* The range of all ports is the first one.
LEMMA AllPortsIsFirst ==
  ASSUME NEW L \in Seq(PortRange), Sorted(L), AllPorts \in ToSet(L)
  PROVE  Len(L) >= 1 /\ L[1] = AllPorts
<1>1. PICK k \in DOMAIN L : L[k] = AllPorts
  BY DEF ToSet
<1>2. k \in Nat /\ k >= 1 /\ 1 \in DOMAIN L /\ Len(L) >= 1
  BY <1>1
<1>3. CASE k = 1
  BY <1>1, <1>2, <1>3
<1>4. CASE k > 1
  <2>1. LargerFirst(L[1], AllPorts)
    BY <1>1, <1>2, <1>4 DEF Sorted
  <2>2. L[1] \in PortRange
    BY <1>2
  <2> QED  BY <2>1, <2>2, RangeShape, AclObjectsAssumption DEF LargerFirst, AllPorts
<1> QED  BY <1>2, <1>3, <1>4

LEMMA InitPrtInv == policy \in Policies /\ step = "protocols" /\ InitPrt => PrtInv
<1> SUFFICES ASSUME policy \in Policies, step = "protocols", InitPrt PROVE PrtInv
  OBVIOUS
<1> DEFINE S == policy.ports \cup {AllPorts}
<1>1. S \in SUBSET PortRange /\ IsFiniteSet(S)
  BY InUseIsRange, PortRangeIsFinite, FS_Subset
<1>2. ranges \in SetToSeqs(S) /\ Sorted(ranges)
  BY DEF InitPrt
<1>3. ranges \in Seq(S) /\ ToSet(ranges) = S
  BY <1>1, <1>2, SequenceHasAll
<1>4. ranges \in Seq(PortRange)
  BY <1>1, <1>3
<1>5. Len(ranges) >= 1 /\ ranges[1] = AllPorts
  BY <1>2, <1>3, <1>4, AllPortsIsFirst
<1>6. RangesInv
  BY <1>2, <1>3, <1>4, <1>5 DEF InitPrt, RangesInv
<1>7. Handled = {AllPorts}
  BY <1>5 DEF InitPrt, Handled
<1>8. DoneInv /\ SplitInv
  BY <1>7 DEF InitPrt, DoneInv, SplitInv
<1>9. ActiveSet = {AllPorts}
  BY DEF InitPrt, ActiveSet
<1>10. Within(AllPorts, AllPorts)
  BY AclObjectsAssumption DEF Within, AllPorts
<1>11. ActiveInv /\ PassedInv /\ UpInv
  BY <1>9, <1>10 DEF InitPrt, ActiveInv, PassedInv, UpInv
<1> QED  BY <1>6, <1>8, <1>11 DEF PrtInv

\* Ranges that have been handled are sorted in front of the current one.
LEMMA HandledIsBefore ==
  ASSUME RangesInv, pos <= Len(ranges)
  PROVE  /\ ranges[pos] \in PortRange
         /\ Handled \subseteq PortRange
         /\ \A p \in Handled : p # ranges[pos] /\ LargerFirst(p, ranges[pos])
         /\ AllPorts \in Handled
<1>1. pos \in DOMAIN ranges /\ \A n \in 1 .. pos - 1 : n \in DOMAIN ranges /\ n < pos
  BY DEF RangesInv
<1>2. /\ ranges[pos] \in PortRange
      /\ \A n \in 1 .. pos - 1 : ranges[n] \in PortRange /\ LargerFirst(ranges[n], ranges[pos])
  BY <1>1 DEF RangesInv, Sorted
<1>3. AllPorts \in Handled
  BY DEF RangesInv, Handled
<1> QED  BY <1>2, <1>3, LargerFirstIsTotal DEF Handled

LEMMA AboveIsActive ==
  ASSUME ActiveInv
  PROVE  /\ Above \in ActiveSet /\ Above \in DOMAIN prtUp
         /\ \A p \in ActiveSet : p \in DOMAIN prtUp /\ Within(Above, p)
<1>1. Len(active) \in 1 .. Len(active) /\ Len(active) \in Nat
  BY DEF ActiveInv
<1>2. \A i \in 1 .. Len(active) : i <= Len(active) /\ active[i] \in DOMAIN prtUp
  BY DEF ActiveInv
<1> QED  BY <1>1, <1>2 DEF ActiveInv, ActiveSet, Above

LEMMA SubRangeKeepsInv == PrtInv /\ SubRange /\ UNCHANGED policy => PrtInv'
<1> SUFFICES ASSUME PrtInv, SubRange, policy' = policy PROVE PrtInv'
  OBVIOUS
<1> DEFINE r == ranges[pos]
<1>1. RangesInv /\ DoneInv /\ SplitInv /\ ActiveInv /\ PassedInv /\ UpInv
  BY DEF PrtInv
<1>2. /\ pos <= Len(ranges) /\ r[2] <= Above[2]
      /\ prtUp' = [q \in DOMAIN prtUp \cup {r} |-> IF q = r THEN Above ELSE prtUp[q]]
      /\ active' = Append(active, r) /\ pos' = pos + 1
      /\ step' = step /\ step = "protocols" /\ ranges' = ranges /\ split' = split
  BY DEF SubRange
<1>3. /\ r \in PortRange /\ Handled \subseteq PortRange
      /\ \A p \in Handled : p # r /\ LargerFirst(p, r)
      /\ AllPorts \in Handled
  BY <1>1, <1>2, HandledIsBefore
<1>4. DOMAIN prtUp' = DOMAIN prtUp \cup {r} /\ prtUp'[r] = Above
      /\ \A q \in DOMAIN prtUp : q # r => prtUp'[q] = prtUp[q]
  BY <1>2
<1>5. /\ Above \in ActiveSet /\ Above \in DOMAIN prtUp
      /\ \A p \in ActiveSet : p \in DOMAIN prtUp /\ Within(Above, p)
  BY <1>1, AboveIsActive
<1>6. \A p \in DOMAIN prtUp : p \in Handled /\ p # r /\ p \in PortRange /\ LargerFirst(p, r)
  BY <1>1, <1>3 DEF DoneInv
<1>7. pos \in Nat /\ pos >= 2 /\ Len(ranges) \in Nat
  BY <1>1 DEF RangesInv
<1>8. RangesInv'
  BY <1>1, <1>2, <1>7 DEF RangesInv, ToSet
<1>9. Handled' = Handled \cup {r}
  <2>1. 1 .. pos' - 1 = (1 .. pos - 1) \cup {pos}
    BY <1>2, <1>7
  <2> QED  BY <1>2, <2>1 DEF Handled
<1>10. DoneInv'
  BY <1>1, <1>2, <1>4, <1>9 DEF DoneInv
<1>11. SplitInv'
  BY <1>1, <1>2 DEF SplitInv, SplitAt, ToSet
<1> HIDE DEF r
<1>12. Within(r, Above)
  BY <1>2, <1>3, <1>5, <1>6, RangeShape DEF Within, LargerFirst
<1>13. \A p \in ActiveSet : Within(r, p)
  <2> TAKE p \in ActiveSet
  <2>1. p \in PortRange /\ Above \in PortRange /\ Within(Above, p)
    BY <1>5, <1>6
  <2> QED  BY <1>3, <1>12, <2>1, RangeShape DEF Within
<1>14. ActiveSet' = ActiveSet \cup {r} /\ ActiveInv'
  <2>1. active \in Seq(DOMAIN prtUp) /\ active \in Seq(DOMAIN prtUp') /\ Len(active) >= 1
    BY <1>1, <1>4 DEF ActiveInv
  <2>2. /\ active' \in Seq(DOMAIN prtUp') /\ Len(active') = Len(active) + 1 /\ Len(active) \in Nat
        /\ active'[Len(active) + 1] = r
        /\ \A i \in 1 .. Len(active) : active'[i] = active[i]
    BY <1>2, <1>4, <2>1
  <2>3. 1 .. Len(active') = (1 .. Len(active)) \cup {Len(active) + 1}
    BY <2>2
  <2>4. ActiveSet' = ActiveSet \cup {r}
    BY <2>2, <2>3 DEF ActiveSet
  <2>5. active'[1] = AllPorts
    BY <1>1, <2>1, <2>2 DEF ActiveInv
  <2>6. ASSUME NEW i \in 1 .. Len(active'), NEW j \in 1 .. Len(active'), i <= j
        PROVE  Within(active'[j], active'[i])
    <3>1. CASE j \in 1 .. Len(active)
      <4>1. i \in 1 .. Len(active)
        BY <2>2, <2>6, <3>1
      <4> QED  BY <1>1, <2>2, <2>6, <3>1, <4>1 DEF ActiveInv
    <3>2. CASE j = Len(active) + 1
      <4>1. CASE i \in 1 .. Len(active)
        BY <1>13, <2>2, <3>2, <4>1 DEF ActiveSet
      <4>2. CASE i = Len(active) + 1
        BY <1>3, <2>2, <3>2, <4>2, RangeShape DEF Within
      <4> QED  BY <2>3, <4>1, <4>2
    <3> QED  BY <2>3, <3>1, <3>2
  <2>7. ActiveInv'
    BY <2>1, <2>2, <2>5, <2>6 DEF ActiveInv
  <2> QED  BY <2>4, <2>7
<1>15. PassedInv'
  <2> SUFFICES ASSUME pos + 1 <= Len(ranges), NEW p \in DOMAIN prtUp \ ActiveSet
               PROVE  p[2] < ranges[pos + 1][1]
    BY <1>2, <1>4, <1>14 DEF PassedInv
  <2>1. p[2] < r[1]
    BY <1>1, <1>2 DEF PassedInv, r
  <2>2. LargerFirst(r, ranges[pos + 1]) /\ ranges[pos + 1] \in PortRange
    BY <1>1, <1>7 DEF RangesInv, Sorted, r
  <2> QED  BY <1>3, <1>6, <2>1, <2>2, RangeShape DEF LargerFirst
<1>16. UpInv'
  <2>1. \A q \in DOMAIN prtUp : q \in ActiveSet \/ q[2] < r[1]
    BY <1>1, <1>2 DEF PassedInv, r
  <2>2. \A q \in DOMAIN prtUp : Within(r, q) \/ Apart(q, r)
    BY <1>13, <2>1 DEF Apart
  <2>3. ASSUME NEW p \in DOMAIN prtUp', NEW q \in DOMAIN prtUp'
        PROVE  Within(p, q) \/ Within(q, p) \/ Apart(p, q)
    <3>1. CASE p = r /\ q = r
      BY <1>3, <3>1, RangeShape DEF Within
    <3>2. CASE p = r /\ q # r
      BY <1>4, <2>2, <3>2 DEF Apart
    <3>3. CASE p # r /\ q = r
      BY <1>4, <2>2, <3>3 DEF Apart
    <3>4. CASE p # r /\ q # r
      BY <1>1, <1>4, <3>4 DEF UpInv
    <3> QED  BY <3>1, <3>2, <3>3, <3>4
  <2>4. ASSUME NEW p \in DOMAIN prtUp' \ {AllPorts}
        PROVE  /\ prtUp'[p] \in DOMAIN prtUp' /\ Within(p, prtUp'[p])
               /\ \A q \in DOMAIN prtUp' \ {p} : Within(p, q) => Within(prtUp'[p], q)
    <3>1. CASE p = r
      <4>1. \A q \in DOMAIN prtUp' \ {r} : Within(r, q) => Within(Above, q)
        <5> SUFFICES ASSUME NEW q \in DOMAIN prtUp' \ {r}, Within(r, q) PROVE Within(Above, q)
          OBVIOUS
        <5>1. q \in DOMAIN prtUp /\ q \in PortRange
          BY <1>4, <1>6
        <5>2. q \in ActiveSet
          BY <1>3, <2>1, <5>1, RangeShape DEF Within
        <5> QED  BY <1>5, <5>2
      <4> QED  BY <1>4, <1>5, <1>12, <3>1, <4>1
    <3>2. CASE p # r
      <4>1. p \in DOMAIN prtUp \ {AllPorts} /\ prtUp'[p] = prtUp[p]
        BY <1>4, <3>2
      <4>2. ~Within(p, r)
        BY <1>3, <1>6, <4>1, RangeShape DEF Within, LargerFirst
      <4> QED  BY <1>1, <1>4, <4>1, <4>2 DEF UpInv
    <3> QED  BY <3>1, <3>2
  <2>5. AllPorts' = AllPorts
    BY DEF AllPorts
  <2> QED  BY <2>3, <2>4, <2>5 DEF UpInv
<1> QED  BY <1>2, <1>8, <1>10, <1>11, <1>14, <1>15, <1>16 DEF PrtInv

LEMMA NotRelatedKeepsInv == PrtInv /\ NotRelated /\ UNCHANGED policy => PrtInv'
<1> SUFFICES ASSUME PrtInv, NotRelated, policy' = policy PROVE PrtInv'
  OBVIOUS
<1>1. RangesInv /\ DoneInv /\ SplitInv /\ ActiveInv /\ PassedInv /\ UpInv
  BY DEF PrtInv
<1>2. /\ pos <= Len(ranges) /\ Above[2] < ranges[pos][1]
      /\ active' = SubSeq(active, 1, Len(active) - 1)
      /\ step' = step /\ step = "protocols"
      /\ ranges' = ranges /\ pos' = pos /\ prtUp' = prtUp /\ split' = split
  BY DEF NotRelated
<1>3. RangesInv' /\ DoneInv' /\ SplitInv' /\ UpInv'
  BY <1>1, <1>2 DEF RangesInv, DoneInv, Handled, SplitInv, SplitAt, UpInv, AllPorts, ToSet
<1>4. /\ active \in Seq(DOMAIN prtUp) /\ Len(active) \in Nat /\ Len(active) >= 1
      /\ active[1] = AllPorts
  BY <1>1 DEF ActiveInv
<1>5. Len(active) >= 2
  <2>1. ranges[pos] \in PortRange
    BY <1>1, <1>2, HandledIsBefore
  <2>2. ASSUME ~(Len(active) >= 2) PROVE FALSE
    <3>1. Above = AllPorts
      <4>1. PICK k \in Nat : k = Len(active)
        BY <1>4
      <4>2. k = 1
        BY <1>4, <2>2, <4>1
      <4> QED  BY <1>4, <4>1, <4>2 DEF Above
    <3> QED  BY <1>2, <2>1, <3>1, RangeShape, AclObjectsAssumption DEF AllPorts
  <2> QED  BY <2>2
<1>6. /\ active' \in Seq(DOMAIN prtUp) /\ Len(active') = Len(active) - 1
      /\ \A i \in 1 .. Len(active) - 1 : active'[i] = active[i]
  <2>1. \A i \in 1 .. Len(active) - 1 : active[i] \in DOMAIN prtUp
    BY <1>4
  <2>2. Len(active) - 1 \in Int /\ 1 <= Len(active) - 1
    BY <1>4, <1>5
  <2>3. /\ SubSeq(active, 1, Len(active) - 1) \in Seq(DOMAIN prtUp)
        /\ Len(SubSeq(active, 1, Len(active) - 1)) = Len(active) - 1
        /\ \A i \in 1 .. Len(active) - 1 : SubSeq(active, 1, Len(active) - 1)[i] = active[i]
    BY <1>4, <1>5, <2>1, <2>2
  <2> QED  BY <1>2, <2>3
<1>7. 1 .. Len(active) = (1 .. Len(active')) \cup {Len(active)}
  BY <1>4, <1>5, <1>6
<1>8. ActiveInv'
  <2>1. active'[1] = AllPorts /\ Len(active') >= 1
    BY <1>4, <1>5, <1>6
  <2>2. ASSUME NEW i \in 1 .. Len(active'), NEW j \in 1 .. Len(active'), i <= j
        PROVE  Within(active'[j], active'[i])
    <3>1. /\ i \in 1 .. Len(active) - 1 /\ j \in 1 .. Len(active) - 1 /\ i \in 1 .. Len(active)
          /\ j \in 1 .. Len(active)
      BY <1>6, <1>7
    <3> QED  BY <1>1, <1>6, <2>2, <3>1 DEF ActiveInv
  <2> QED  BY <1>2, <1>6, <2>1, <2>2 DEF ActiveInv, AllPorts
<1>9. ActiveSet = ActiveSet' \cup {Above}
  <2>1. ActiveSet' = {active[i] : i \in 1 .. Len(active')}
    BY <1>6 DEF ActiveSet
  <2> QED  BY <1>7, <2>1 DEF ActiveSet, Above
<1>10. PassedInv'
  BY <1>1, <1>2, <1>9 DEF PassedInv
<1> QED  BY <1>2, <1>3, <1>8, <1>10 DEF PrtInv

LEMMA OverlapKeepsInv == PrtInv /\ Overlap /\ UNCHANGED policy => PrtInv'
<1> SUFFICES ASSUME PrtInv, Overlap, policy' = policy PROVE PrtInv'
  OBVIOUS
<1> DEFINE r == ranges[pos]
           c == Above[2]
           left == <<r[1], c>>
           right == <<c + 1, r[2]>>
           L == Insert(ranges, left)
           K == Insert(L, right)
<1>1. RangesInv /\ DoneInv /\ SplitInv /\ ActiveInv /\ PassedInv /\ UpInv
  BY DEF PrtInv
<1>2. /\ pos <= Len(ranges) /\ r[1] <= c /\ c < r[2]
      /\ ranges' = K
      /\ split' = [q \in DOMAIN split \cup {r} |-> IF q = r THEN <<left, right>> ELSE split[q]]
      /\ pos' = pos + 1 /\ step' = step /\ step = "protocols" /\ active' = active /\ prtUp' = prtUp
  BY DEF Overlap
<1>3. /\ r \in PortRange /\ Handled \subseteq PortRange
      /\ \A p \in Handled : p # r /\ LargerFirst(p, r)
  BY <1>1, <1>2, HandledIsBefore
<1>4. Above \in PortRange
  BY <1>1, <1>3, AboveIsActive DEF DoneInv
<1>5. /\ left \in PortRange /\ right \in PortRange
      /\ LargerFirst(r, left) /\ LargerFirst(r, right)
      /\ c \in r[1] .. r[2] - 1
  <2> HIDE DEF r
  <2>1. c \in Nat /\ r[1] \in Nat /\ r[2] \in Nat /\ 1 <= r[1] /\ r[2] <= Ports
    BY <1>3, <1>4, RangeShape
  <2> HIDE DEF c
  <2> QED  BY <1>2, <2>1, AclObjectsAssumption DEF PortRange, LargerFirst
<1>6. pos \in Nat /\ pos >= 2 /\ Len(ranges) \in Nat /\ pos \in 1 .. Len(ranges)
      /\ ranges \in Seq(PortRange) /\ Sorted(ranges)
  BY <1>1, <1>2 DEF RangesInv
<1> HIDE DEF left, right
<1>7. /\ L \in Seq(PortRange) /\ Sorted(L) /\ Len(ranges) <= Len(L)
      /\ \A n \in 1 .. pos : L[n] = ranges[n]
      /\ ToSet(L) = ToSet(ranges) \cup {left}
  BY <1>5, <1>6, InsertKeepsOrder
<1> HIDE DEF L
<1>8. pos \in 1 .. Len(L) /\ L[pos] = r
  BY <1>6, <1>7
<1>9. /\ K \in Seq(PortRange) /\ Sorted(K) /\ Len(L) <= Len(K)
      /\ \A n \in 1 .. pos : K[n] = L[n]
      /\ ToSet(K) = ToSet(L) \cup {right}
  BY <1>5, <1>7, <1>8, InsertKeepsOrder
<1> HIDE DEF K
<1>10. /\ \A n \in 1 .. pos : ranges'[n] = ranges[n]
       /\ ToSet(ranges') = ToSet(ranges) \cup {left, right}
       /\ Len(ranges) <= Len(ranges') /\ Len(ranges') \in Nat
       /\ ranges' \in Seq(PortRange) /\ Sorted(ranges')
  BY <1>2, <1>6, <1>7, <1>9
<1>11. RangesInv'
  <2>1. ranges'[1] = AllPorts
    BY <1>1, <1>6, <1>10 DEF RangesInv
  <2>2. pos' \in 2 .. Len(ranges') + 1
    BY <1>2, <1>6, <1>10
  <2>3. policy.ports \subseteq ToSet(ranges')
    BY <1>1, <1>10 DEF RangesInv
  <2>4. Sorted(ranges)' /\ AllPorts' = AllPorts
    BY <1>10 DEF Sorted, LargerFirst, AllPorts
  <2>5. ToSet(ranges)' = ToSet(ranges')
    BY DEF ToSet
  <2> QED  BY <1>1, <1>10, <2>1, <2>2, <2>3, <2>4, <2>5 DEF RangesInv
<1>12. Handled' = Handled \cup {r}
  <2>1. 1 .. pos' - 1 = (1 .. pos - 1) \cup {pos}
    BY <1>2, <1>6
  <2>2. \A n \in 1 .. pos' - 1 : ranges'[n] = ranges[n]
    BY <1>2, <1>6, <1>10
  <2>3. Handled' = {ranges[n] : n \in 1 .. pos' - 1}
    BY <2>2 DEF Handled
  <2> QED  BY <2>1, <2>3 DEF Handled, r
<1>13. DoneInv'
  BY <1>1, <1>2, <1>12 DEF DoneInv
<1>14. SplitInv'
  <2>1. DOMAIN split' \subseteq PortRange
    BY <1>1, <1>2, <1>3 DEF SplitInv
  <2>2. ASSUME NEW q \in DOMAIN split' PROVE \E d \in q[1] .. q[2] - 1 : SplitAt(q, d)'
    <3>1. CASE q = r
      <4>1. split'[r] = <<left, right>> /\ left \in ToSet(ranges') /\ right \in ToSet(ranges')
        BY <1>2, <1>10
      <4>2. PICK d : d = c
        OBVIOUS
      <4>3. /\ split'[q] = <<<<q[1], d>>, <<d + 1, q[2]>>>> /\ <<q[1], d>> \in ToSet(ranges')
            /\ <<d + 1, q[2]>> \in ToSet(ranges')
        BY <3>1, <4>1, <4>2 DEF left, right
      <4>4. SplitAt(q, d)'
        BY <4>3 DEF SplitAt, ToSet
      <4>5. d \in q[1] .. q[2] - 1
        BY <1>5, <3>1, <4>2
      <4> QED  BY <4>4, <4>5
    <3>2. CASE q # r
      <4>1. q \in DOMAIN split /\ split'[q] = split[q]
        BY <1>2, <2>2, <3>2
      <4>2. PICK d \in q[1] .. q[2] - 1 : SplitAt(q, d)
        BY <1>1, <4>1 DEF SplitInv
      <4>3. /\ split[q] = <<<<q[1], d>>, <<d + 1, q[2]>>>> /\ <<q[1], d>> \in ToSet(ranges)
            /\ <<d + 1, q[2]>> \in ToSet(ranges)
        BY <4>2 DEF SplitAt
      <4>4. /\ split'[q] = <<<<q[1], d>>, <<d + 1, q[2]>>>> /\ <<q[1], d>> \in ToSet(ranges')
            /\ <<d + 1, q[2]>> \in ToSet(ranges')
        BY <1>10, <4>1, <4>3
      <4>5. SplitAt(q, d)'
        BY <4>4 DEF SplitAt, ToSet
      <4> QED  BY <4>2, <4>5
    <3> QED  BY <3>1, <3>2
  <2> QED  BY <2>1, <2>2 DEF SplitInv
<1>15. ActiveInv' /\ UpInv' /\ ActiveSet' = ActiveSet
  BY <1>1, <1>2 DEF ActiveInv, UpInv, ActiveSet, AllPorts
<1>16. PassedInv'
  <2> SUFFICES ASSUME pos' <= Len(ranges'), NEW p \in DOMAIN prtUp \ ActiveSet
               PROVE  p[2] < ranges'[pos'][1]
    BY <1>2, <1>15 DEF PassedInv
  <2>1. p[2] < r[1]
    BY <1>1, <1>2 DEF PassedInv
  <2>2. pos \in DOMAIN ranges' /\ pos + 1 \in DOMAIN ranges' /\ pos < pos + 1 /\ ranges'[pos] = r
    BY <1>2, <1>6, <1>10
  <2>3. LargerFirst(r, ranges'[pos + 1]) /\ ranges'[pos + 1] \in PortRange
    BY <1>10, <2>2 DEF Sorted
  <2>4. p \in PortRange
    BY <1>1, <1>3 DEF DoneInv
  <2> HIDE DEF r
  <2> QED  BY <1>2, <1>3, <2>1, <2>3, <2>4, RangeShape DEF LargerFirst
<1> QED  BY <1>2, <1>11, <1>13, <1>14, <1>15, <1>16 DEF PrtInv

LEMMA PrtInvKept ==
  PrtInv /\ [(NextPrt \/ OtherSteps) /\ UNCHANGED policy]_<<policy, step, prtVars>> => PrtInv'
<1> SUFFICES ASSUME PrtInv, [(NextPrt \/ OtherSteps) /\ UNCHANGED policy]_<<policy, step, prtVars>>
             PROVE  PrtInv'
  OBVIOUS
<1>1. ASSUME UNCHANGED prtVars, policy' = policy,
             step' # "protocols" => step # "protocols" \/ pos > Len(ranges)
      PROVE  PrtInv'
  <2>1. RangesInv' /\ DoneInv' /\ SplitInv'
    BY <1>1, SMTT(30) DEF PrtInv, prtVars, RangesInv, DoneInv, Handled, SplitInv, SplitAt, AllPorts
  <2>2. ActiveInv' /\ PassedInv' /\ UpInv'
    BY <1>1 DEF PrtInv, prtVars, ActiveInv, PassedInv, ActiveSet, UpInv, AllPorts
  <2> QED  BY <1>1, <2>1, <2>2 DEF PrtInv, prtVars
<1>2. CASE NextPrt /\ UNCHANGED policy
  <2>1. CASE EndOfRanges
    BY <1>1, <1>2, <2>1 DEF EndOfRanges
  <2> QED  BY <1>2, <2>1, SubRangeKeepsInv, NotRelatedKeepsInv, OverlapKeepsInv DEF NextPrt
<1>3. CASE OtherSteps /\ UNCHANGED policy
  BY <1>1, <1>3 DEF OtherSteps
<1>4. CASE UNCHANGED <<policy, step, prtVars>>
  BY <1>1, <1>4
<1> QED  BY <1>2, <1>3, <1>4

-----------------------------------------------------------------------------
(***************************************************************************)
(* The ranges that a range has been split into.                            *)
(***************************************************************************)
\* The function of Parts.
IsSplit(r, f) == f = [k \in Nat |-> IF k = 0 THEN {r} ELSE UNION {Halves(p) : p \in f[k - 1]}]

\* Each range is replaced by ranges with the same ports.
LEMMA HalvesCover ==
  ASSUME PrtInv, NEW p \in ToSet(ranges)
  PROVE  /\ p \in PortRange /\ Halves(p) \subseteq ToSet(ranges)
         /\ PortsOf(p) = UNION {PortsOf(q) : q \in Halves(p)}
         /\ p \notin DOMAIN split => Halves(p) = {p}
         /\ p \in DOMAIN split => \A q \in Halves(p) : q[2] - q[1] < p[2] - p[1]
<1>1. p \in PortRange
  BY DEF PrtInv, RangesInv, ToSet
<1>2. CASE p \notin DOMAIN split
  BY <1>1, <1>2 DEF Halves
<1>3. CASE p \in DOMAIN split
  <2>1. PICK c \in p[1] .. p[2] - 1 : SplitAt(p, c)
    BY <1>3 DEF PrtInv, SplitInv
  <2>2. Halves(p) = {<<p[1], c>>, <<c + 1, p[2]>>} /\ Halves(p) \subseteq ToSet(ranges)
    BY <1>3, <2>1 DEF SplitAt, Halves
  <2>3. p[1] \in Nat /\ p[2] \in Nat /\ c \in Nat /\ p[1] <= c /\ c < p[2]
    BY <1>1, <2>1, RangeShape
  <2>4. p[1] .. p[2] = (p[1] .. c) \cup (c + 1 .. p[2])
    BY <2>3
  <2>5. UNION {PortsOf(q) : q \in Halves(p)} = PortsOf(<<p[1], c>>) \cup PortsOf(<<c + 1, p[2]>>)
    BY <2>2
  <2>6. PortsOf(p) = UNION {PortsOf(q) : q \in Halves(p)}
    BY <2>4, <2>5 DEF PortsOf
  <2>7. \A q \in Halves(p) : q[2] - q[1] < p[2] - p[1]
    BY <2>2, <2>3
  <2> QED  BY <1>1, <1>3, <2>2, <2>6, <2>7
<1> QED  BY <1>1, <1>2, <1>3

\* A smaller number stays below a bound that is one less.
LEMMA BelowSmallerBound ==
  ASSUME NEW a \in Int, NEW b \in Int, NEW k \in Nat, NEW m \in Nat,
         a < b, b <= m - 1 - (k - 1)
  PROVE  a <= m - 1 - k
OBVIOUS

LEMMA PartsCover ==
  ASSUME PrtInv, pos > Len(ranges), NEW r \in ToSet(ranges)
  PROVE  Parts(r) \subseteq DOMAIN prtUp /\ PortsOf(r) = UNION {PortsOf(p) : p \in Parts(r)}
<1> DEFINE Covers(X) == PortsOf(r) = UNION {PortsOf(p) : p \in X}
           Step(X) == UNION {Halves(p) : p \in X}
           S == {X \in SUBSET ToSet(ranges) : Covers(X)}
           next == [x \in Nat \X S |-> Step(x[2])]
           Split == CHOOSE f : IsSplit(r, f)
<1>1. ASSUME NEW X \in S PROVE Step(X) \in S
  <2>1. X \subseteq ToSet(ranges) /\ Covers(X)
    OBVIOUS
  <2>2. Step(X) \subseteq ToSet(ranges)
    BY <2>1, HalvesCover
  <2>3. UNION {PortsOf(p) : p \in X} = UNION {PortsOf(q) : q \in Step(X)}
    <3>1. \A p \in X : PortsOf(p) = UNION {PortsOf(q) : q \in Halves(p)}
      BY <2>1, HalvesCover
    <3> QED  BY <3>1
  <2> QED  BY <2>1, <2>2, <2>3
<1>2. {r} \in S
  OBVIOUS
<1> HIDE DEF S
<1>3. next \in [Nat \X S -> S]
  BY <1>1
<1>4. PICK f \in [Nat -> S] : \A k \in Nat : f[k] = IF k = 0 THEN {r} ELSE next[<<k, f[k - 1]>>]
  <2>1. \E f : Solves(f, S, {r}, next)
    <3> HIDE DEF next
    <3> QED  BY <1>2, <1>3, RecursiveFunction
  <2> QED  BY <2>1 DEF Solves
<1>5. \A k \in Nat \ {0} : f[k] = Step(f[k - 1])
  <2> TAKE k \in Nat \ {0}
  <2>1. k - 1 \in Nat /\ <<k, f[k - 1]>> \in Nat \X S
    OBVIOUS
  <2> QED  BY <1>4, <2>1
<1>6. IsSplit(r, f)
  BY <1>4, <1>5 DEF IsSplit
<1>7. IsSplit(r, Split)
  BY <1>6
<1>8. Parts(r) = Split[Ports]
  BY DEF Parts, IsSplit
<1> HIDE DEF Split
<1>9. Split[0] = {r} /\ \A k \in Nat \ {0} : Split[k] = Step(Split[k - 1])
  BY <1>7 DEF IsSplit
<1> DEFINE Narrow(k) == \A p \in Split[k] : p \in DOMAIN split => p[2] - p[1] <= Ports - 1 - k
<1>10. \A k \in Nat : Split[k] \in S /\ Narrow(k)
  <2> DEFINE Bad == {k \in Nat : ~(Split[k] \in S /\ Narrow(k))}
  <2> SUFFICES ASSUME Bad # {} PROVE FALSE
    OBVIOUS
  <2>1. PICK k \in Bad : \A j \in Bad : k <= j
    <3>1. Bad \in SUBSET Nat
      OBVIOUS
    <3> HIDE DEF Bad
    <3> QED  BY <3>1, LeastNumber
  <2>2. k # 0
    <3>1. r \in PortRange
      BY HalvesCover
    <3>2. r[2] - r[1] <= Ports - 1 - 0
      BY <3>1, RangeShape, AclObjectsAssumption
    <3> QED  BY <1>2, <1>9, <2>1, <3>2
  <2>3. /\ k \in Nat /\ k - 1 \in Nat /\ Split[k - 1] \in S /\ Narrow(k - 1)
        /\ Split[k] = Step(Split[k - 1])
    BY <1>9, <2>1, <2>2
  <2>4. Split[k] \in S
    BY <1>1, <2>3
  <2>5. ASSUME NEW q \in Split[k], q \in DOMAIN split PROVE q[2] - q[1] <= Ports - 1 - k
    <3>1. PICK p \in Split[k - 1] : q \in Halves(p)
      BY <2>3, <2>5
    <3>2. p \in ToSet(ranges)
      BY <2>3 DEF S
    <3>3. q \in ToSet(ranges)
      BY <2>4 DEF S
    <3>4. p \in DOMAIN split
      BY <2>5, <3>1, <3>2, HalvesCover
    <3>5. q[2] - q[1] < p[2] - p[1] /\ p[2] - p[1] <= Ports - 1 - (k - 1)
      BY <2>3, <3>1, <3>2, <3>4, HalvesCover
    <3>6. q \in PortRange /\ p \in PortRange
      BY <3>2, <3>3, HalvesCover
    <3>7. q[2] - q[1] \in Int /\ p[2] - p[1] \in Int
      BY <3>6, RangeShape
    <3>8. k \in Nat /\ Ports \in Nat
      BY <2>3, AclObjectsAssumption
    <3> HIDE DEF Narrow, Bad, Step, Covers, next
    <3> QED  BY <3>5, <3>7, <3>8, BelowSmallerBound
  <2> QED  BY <2>1, <2>4, <2>5
<1>11. Parts(r) \in S /\ Narrow(Ports)
  BY <1>8, <1>10, AclObjectsAssumption
<1>12. ASSUME NEW p \in Parts(r) PROVE p \in DOMAIN prtUp
  <2>1. p \in ToSet(ranges) /\ p \in PortRange
    BY <1>11, HalvesCover DEF S
  <2>2. p \notin DOMAIN split
    <3>1. p \in DOMAIN split => p[2] - p[1] <= Ports - 1 - Ports
      BY <1>8, <1>11
    <3> QED  BY <2>1, <3>1, RangeShape, AclObjectsAssumption
  <2>3. ToSet(ranges) \subseteq Handled
    <3>1. DOMAIN ranges \subseteq 1 .. pos - 1
      BY DEF PrtInv, RangesInv
    <3> QED  BY <3>1 DEF ToSet, Handled
  <2> QED  BY <2>1, <2>2, <2>3 DEF PrtInv, DoneInv
<1> QED  BY <1>11, <1>12 DEF S

\* When all ranges have been handled, they are nested.
LEMMA PrtInvNests ==
  ASSUME PrtInv, pos > Len(ranges)
  PROVE  /\ \A r \in policy.ports :
              Parts(r) \subseteq DOMAIN prtUp /\ PortsOf(r) = UNION {PortsOf(p) : p \in Parts(r)}
         /\ \A p, q \in DOMAIN prtUp :
              PortsOf(p) \cap PortsOf(q) # {} => Within(p, q) \/ Within(q, p)
<1>1. RangesInv /\ DoneInv /\ UpInv
  BY DEF PrtInv
<1>2. \A r \in policy.ports :
        Parts(r) \subseteq DOMAIN prtUp /\ PortsOf(r) = UNION {PortsOf(p) : p \in Parts(r)}
  BY <1>1, PartsCover DEF RangesInv
<1>3. ASSUME NEW p \in DOMAIN prtUp, NEW q \in DOMAIN prtUp, PortsOf(p) \cap PortsOf(q) # {}
      PROVE  Within(p, q) \/ Within(q, p)
  <2>1. p \in PortRange /\ q \in PortRange
    <3>1. pos \in 2 .. Len(ranges) + 1
      BY <1>1 DEF RangesInv
    <3>2. ranges \in Seq(PortRange)
      BY <1>1 DEF RangesInv
    <3>3. Len(ranges) \in Nat
      BY <3>2
    <3>4. \A n \in 1 .. pos - 1 : n \in 1 .. Len(ranges)
      BY <3>1, <3>3
    <3>5. \A n \in 1 .. Len(ranges) : ranges[n] \in PortRange
      BY <3>2
    <3>6. \A n \in 1 .. pos - 1 : ranges[n] \in PortRange
      BY <3>4, <3>5
    <3>7. Handled \subseteq PortRange
      BY <3>6 DEF Handled
    <3> QED  BY <1>1, <3>7 DEF DoneInv
  <2>2. ~Apart(p, q)
    <3>1. PICK x \in PortsOf(p) \cap PortsOf(q) : TRUE
      BY <1>3
    <3>2. p[1] <= x /\ x <= p[2] /\ q[1] <= x /\ x <= q[2] /\ x \in Int
      <4>1. x \in p[1] .. p[2] /\ x \in q[1] .. q[2]
        BY <3>1 DEF PortsOf
      <4>2. p[1] \in Nat /\ p[2] \in Nat /\ q[1] \in Nat /\ q[2] \in Nat
        BY <2>1, RangeShape
      <4> QED  BY <4>1, <4>2, IntervalBounds
    <3>3. p[1] \in Nat /\ p[2] \in Nat /\ q[1] \in Nat /\ q[2] \in Nat
      BY <2>1, RangeShape
    <3> QED  BY <3>2, <3>3 DEF Apart
  <2> QED  BY <1>1, <2>2 DEF UpInv
<1> QED  BY <1>2, <1>3

LEMMA PrtInvImpliesNested == PrtInv => RangesNested
<1> SUFFICES ASSUME PrtInv PROVE RangesNested
  OBVIOUS
<1>1. CASE step = "protocols"
  BY <1>1 DEF RangesNested
<1>2. CASE step # "protocols"
  <2>1. pos > Len(ranges) /\ UpInv
    BY <1>2 DEF PrtInv
  <2>2. UpInv
    BY <2>1
  <2> QED  BY <2>1, <2>2, PrtInvNests DEF RangesNested, UpInv
<1> QED  BY <1>1, <1>2

-----------------------------------------------------------------------------
\* The invariant of orderRanges.
THEOREM PrtInvariance == PrtSpec => []PrtInv
<1>1. policy \in Policies /\ step = "protocols" /\ InitPrt => PrtInv
  BY InitPrtInv
<1>2. PrtInv /\ [(NextPrt \/ OtherSteps) /\ UNCHANGED policy]_<<policy, step, prtVars>> => PrtInv'
  BY PrtInvKept
<1> QED  BY <1>1, <1>2, PTL DEF PrtSpec

\* orderRanges: at its end each range that is used stands for ranges with the same ports that
\* are nested or disjoint, and attribute up leads to the smallest range around.
THEOREM RangesAreNested == PrtSpec => []RangesNested
BY PrtInvariance, PrtInvImpliesNested, PTL
=============================================================================
