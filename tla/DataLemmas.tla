----------------------------- MODULE DataLemmas -----------------------------
(***************************************************************************)
(* What the operations on a channel or a pipe do to the set of its         *)
(* elements; the least element of a set of numbers, as principle of        *)
(* induction; functions that are defined by recursion.                     *)
(***************************************************************************)
EXTENDS Integers, Sequences, Functions, WellFoundedInduction, TLAPS

\* Appending adds exactly one element.
LEMMA RangeAppend ==
  ASSUME NEW S, NEW s \in Seq(S), NEW e \in S
  PROVE  Range(Append(s, e)) = Range(s) \cup {e}
<1>1. DOMAIN Append(s, e) = 1 .. Len(s) + 1 /\ DOMAIN s = 1 .. Len(s) /\ Len(s) \in Nat
  OBVIOUS
<1>2. Append(s, e)[Len(s) + 1] = e /\ \A i \in DOMAIN s : Append(s, e)[i] = s[i]
  OBVIOUS
<1>3. DOMAIN Append(s, e) = DOMAIN s \cup {Len(s) + 1}
  BY <1>1
<1> QED  BY <1>2, <1>3 DEF Range

\* The head and the elements of the tail are all elements.
LEMMA RangeTail ==
  ASSUME NEW S, NEW s \in Seq(S), s # <<>>
  PROVE  /\ Tail(s) \in Seq(S)
         /\ Head(s) \in S
         /\ Range(s) = Range(Tail(s)) \cup {Head(s)}
<1>1. /\ Len(s) \in Nat \ {0}
      /\ DOMAIN s = 1 .. Len(s)
      /\ DOMAIN Tail(s) = 1 .. Len(s) - 1
      /\ \A i \in DOMAIN Tail(s) : Tail(s)[i] = s[i + 1]
      /\ Head(s) = s[1]
  OBVIOUS
<1>2. \A i \in DOMAIN s : i = 1 \/ (i - 1 \in DOMAIN Tail(s) /\ s[i] = Tail(s)[i - 1])
  BY <1>1
<1>3. \A i \in DOMAIN Tail(s) : i + 1 \in DOMAIN s /\ Tail(s)[i] = s[i + 1]
  BY <1>1
<1>4. 1 \in DOMAIN s /\ Head(s) = s[1]
  BY <1>1
<1>5. Tail(s) \in Seq(S) /\ Head(s) \in S
  OBVIOUS
<1>6. ASSUME NEW e \in Range(s)  PROVE e \in Range(Tail(s)) \cup {Head(s)}
  BY <1>2, <1>4 DEF Range
<1>7. ASSUME NEW e \in Range(Tail(s)) \cup {Head(s)}  PROVE e \in Range(s)
  BY <1>3, <1>4 DEF Range
<1> QED  BY <1>5, <1>6, <1>7

\* Nothing is in an empty channel.
LEMMA RangeEmpty == Range(<<>>) = {}
BY DEF Range

\* The head of a sequence without duplicates does not occur in its tail.
LEMMA HeadNotInTail ==
  ASSUME NEW S, NEW s \in Seq(S), s # <<>>, IsInjective(s)
  PROVE  Head(s) \notin Range(Tail(s)) /\ IsInjective(Tail(s))
<1>1. /\ Len(s) \in Nat \ {0}
      /\ DOMAIN s = 1 .. Len(s)
      /\ DOMAIN Tail(s) = 1 .. Len(s) - 1
      /\ Head(s) = s[1]
      /\ \A i \in DOMAIN Tail(s) : Tail(s)[i] = s[i + 1]
  OBVIOUS
<1>2. \A i \in DOMAIN Tail(s) : i + 1 \in DOMAIN s /\ i + 1 # 1 /\ Tail(s)[i] = s[i + 1]
  BY <1>1
<1>3. \A i \in DOMAIN Tail(s) : Tail(s)[i] # Head(s)
  BY <1>1, <1>2 DEF IsInjective
<1>4. ASSUME NEW i \in DOMAIN Tail(s), NEW k \in DOMAIN Tail(s), Tail(s)[i] = Tail(s)[k]
      PROVE  i = k
  BY <1>1, <1>2, <1>4 DEF IsInjective
<1> QED  BY <1>3, <1>4 DEF Range, IsInjective

\* Appending a new element keeps a sequence free of duplicates.
LEMMA AppendNew ==
  ASSUME NEW S, NEW s \in Seq(S), NEW e \in S, e \notin Range(s), IsInjective(s)
  PROVE  IsInjective(Append(s, e))
<1>1. DOMAIN Append(s, e) = 1 .. Len(s) + 1 /\ DOMAIN s = 1 .. Len(s) /\ Len(s) \in Nat
  OBVIOUS
<1>2. Append(s, e)[Len(s) + 1] = e /\ \A i \in DOMAIN s : Append(s, e)[i] = s[i]
  OBVIOUS
<1>3. DOMAIN Append(s, e) = DOMAIN s \cup {Len(s) + 1}
  BY <1>1
<1>4. \A i \in DOMAIN s : s[i] # e
  BY DEF Range
<1> QED  BY <1>2, <1>3, <1>4 DEF IsInjective

-----------------------------------------------------------------------------
(***************************************************************************)
(* Induction.  The theorems of the library that have a predicate as        *)
(* parameter are used by their instances for sets.                         *)
(***************************************************************************)
\* Relation "less" on the numbers is well-founded.
LEMMA LessIsWellFounded == IsWellFoundedOn({p \in Nat \X Nat : p[1] < p[2]}, Nat)
BY NatLessThanWellFounded DEF OpToRel

\* Each non-empty set of numbers has a least element.
LEMMA LeastNumber ==
  ASSUME NEW S \in SUBSET Nat, S # {}
  PROVE  \E x \in S : \A y \in S : x <= y
<1> DEFINE R == {p \in Nat \X Nat : p[1] < p[2]}
<1>1. PICK x \in S : \A y \in S : <<y, x>> \notin R
  BY LessIsWellFounded, WFMin
<1>2. \A y \in S : ~(y < x)
  BY <1>1
<1> QED  BY <1>2

\* The values of a function that is defined by recursion up to n.
Unrollings(n, S, init, next) ==
  {g \in [0 .. n -> S] : g[0] = init /\ \A k \in 1 .. n : g[k] = next[<<k, g[k - 1]>>]}

LEMMA UnrollingExists ==
  ASSUME NEW S, NEW init \in S, NEW next \in [Nat \X S -> S]
  PROVE  \A n \in Nat : Unrollings(n, S, init, next) # {}
<1> DEFINE Bad == {n \in Nat : Unrollings(n, S, init, next) = {}}
<1> SUFFICES ASSUME Bad # {} PROVE FALSE
  OBVIOUS
<1>1. PICK n \in Bad : \A m \in Bad : n <= m
  BY LeastNumber
<1>2. CASE n = 0
  <2>1. [k \in 0 .. 0 |-> init] \in Unrollings(0, S, init, next)
    BY DEF Unrollings
  <2> QED  BY <1>1, <1>2, <2>1
<1>3. CASE n # 0
  <2>1. n \in Nat /\ n - 1 \in Nat
    BY <1>3
  <2>2. PICK g \in Unrollings(n - 1, S, init, next) : TRUE
    BY <1>1, <2>1
  <2> DEFINE h == [k \in 0 .. n |-> IF k = n THEN next[<<n, g[n - 1]>>] ELSE g[k]]
  <2>3. g \in [0 .. n - 1 -> S] /\ g[0] = init /\ \A k \in 1 .. n - 1 : g[k] = next[<<k, g[k - 1]>>]
    BY <2>2 DEF Unrollings
  <2>4. g[n - 1] \in S /\ next[<<n, g[n - 1]>>] \in S
    BY <2>1, <2>3
  <2>5. h \in [0 .. n -> S]
    BY <2>1, <2>3, <2>4
  <2>6. h[0] = init
    BY <1>3, <2>1, <2>3
  <2>7. ASSUME NEW k \in 1 .. n PROVE h[k] = next[<<k, h[k - 1]>>]
    <3>1. k \in Nat /\ k \in 0 .. n /\ k - 1 \in 0 .. n /\ k - 1 # n
      BY <2>1
    <3>2. h[k - 1] = g[k - 1]
      BY <3>1
    <3>3. CASE k = n
      BY <3>1, <3>2, <3>3
    <3>4. CASE k # n
      <4>1. k \in 1 .. n - 1
        BY <2>1, <3>1, <3>4
      <4> QED  BY <2>3, <3>1, <3>2, <3>4, <4>1
    <3> QED  BY <3>3, <3>4
  <2>8. h \in Unrollings(n, S, init, next)
    BY <2>5, <2>6, <2>7 DEF Unrollings
  <2> QED  BY <1>1, <2>8
<1> QED  BY <1>2, <1>3

LEMMA UnrollingsAgree ==
  ASSUME NEW S, NEW init \in S, NEW next \in [Nat \X S -> S],
         NEW m \in Nat, NEW n \in Nat, m <= n,
         NEW g \in Unrollings(m, S, init, next), NEW h \in Unrollings(n, S, init, next)
  PROVE  \A k \in 0 .. m : g[k] = h[k]
<1> DEFINE Bad == {k \in 0 .. m : g[k] # h[k]}
<1> SUFFICES ASSUME Bad # {} PROVE FALSE
  OBVIOUS
<1>1. PICK k \in Bad : \A j \in Bad : k <= j
  <2>1. Bad \in SUBSET Nat
    OBVIOUS
  <2> HIDE DEF Bad
  <2> QED  BY <2>1, LeastNumber
<1>2. k # 0
  BY <1>1 DEF Unrollings
<1>3. k - 1 \in 0 .. m /\ k - 1 \notin Bad /\ k \in 1 .. m /\ k \in 1 .. n
  BY <1>1, <1>2
<1>4. g[k] = next[<<k, g[k - 1]>>] /\ h[k] = next[<<k, h[k - 1]>>]
  BY <1>3 DEF Unrollings
<1> QED  BY <1>1, <1>3, <1>4

\* Function f satisfies a recursive equation.
Solves(f, S, init, next) ==
  /\ f \in [Nat -> S]
  /\ \A k \in Nat : f[k] = IF k = 0 THEN init ELSE next[<<k, f[k - 1]>>]

\* Each recursive equation has a solution.
LEMMA RecursiveFunction ==
  ASSUME NEW S, NEW init \in S, NEW next \in [Nat \X S -> S]
  PROVE  \E f : Solves(f, S, init, next)
<1> DEFINE P(n) == CHOOSE g : g \in Unrollings(n, S, init, next)
           f == [n \in Nat |-> P(n)[n]]
<1>1. \A n \in Nat : P(n) \in Unrollings(n, S, init, next)
  BY UnrollingExists
<1> HIDE DEF P
<1>2. f \in [Nat -> S]
  BY <1>1 DEF Unrollings
<1>3. f[0] = init
  BY <1>1 DEF Unrollings
<1>4. ASSUME NEW k \in Nat \ {0} PROVE f[k] = next[<<k, f[k - 1]>>]
  <2>1. k \in Nat /\ k - 1 \in Nat /\ k - 1 <= k /\ k - 1 \in 0 .. k - 1 /\ k \in 1 .. k
    OBVIOUS
  <2>2. P(k)[k] = next[<<k, P(k)[k - 1]>>]
    BY <1>1, <2>1 DEF Unrollings
  <2>3. P(k - 1)[k - 1] = P(k)[k - 1]
    <3>1. P(k - 1) \in Unrollings(k - 1, S, init, next) /\ P(k) \in Unrollings(k, S, init, next)
      BY <1>1, <2>1
    <3>2. \A j \in 0 .. k - 1 : P(k - 1)[j] = P(k)[j]
      BY <2>1, <3>1, UnrollingsAgree
    <3> QED  BY <2>1, <3>2
  <2> QED  BY <2>1, <2>2, <2>3
<1> QED  BY <1>2, <1>3, <1>4 DEF Solves
=============================================================================
