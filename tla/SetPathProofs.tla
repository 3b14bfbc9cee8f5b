--------------------------- MODULE SetPathProofs ---------------------------
(***************************************************************************)
(* Proofs about module SetPath.                                            *)
(*                                                                         *)
(* The inductive invariant SetPathInv says how calls of the depth first    *)
(* search, loops of nodes and loops of interfaces belong together:         *)
(*   - redirection of loops leads to zone1 and ends (Redirects);           *)
(*   - distances of active calls increase, interfaces that have been       *)
(*     handled lead to nodes that have been reached (CallsDescend,         *)
(*     CallsJoined, NothingForgotten);                                     *)
(*   - loops of active nodes start at an active node, and loops of later   *)
(*     calls are younger (LoopsOfCalls);                                   *)
(*   - at each end of an interface with a loop, the node belongs to the    *)
(*     same outer loop, or is its exit, or has still to get it             *)
(*     (LoopsPlaced);                                                      *)
(*   - the exit of each loop belongs to this loop or to one nearer to      *)
(*     zone1 (LoopsEnd, ExitsKnown), hence setLoopClusterExit ends.        *)
(*                                                                         *)
(* The second invariant StepsInv rests on it and follows the walk of       *)
(* findZone1: some distance decreases with each of its steps, each node    *)
(* that has been left has such a step unless it is zone1, no step leaves   *)
(* the partition, and a cluster of loops ends at the exit of its outermost *)
(* loop.                                                                   *)
(***************************************************************************)
EXTENDS SetPath, DataLemmas, FiniteSetTheorems

-----------------------------------------------------------------------------
(***************************************************************************)
(* Loops and what they are redirected to.                                  *)
(***************************************************************************)
LoopObject == [exit : Node, distance : Nat, redirect : Nat, clusterExit : Node \cup {None}]

\* Redirection leads to a loop that is closer to zone1, or as close and older.
Redirects(L) ==
  \A l \in DOMAIN L : L[l].redirect # 0 =>
    /\ L[l].redirect \in DOMAIN L
    /\ \/ L[L[l].redirect].distance < L[l].distance
       \/ L[L[l].redirect].distance = L[l].distance /\ L[l].redirect < l

IsLoops(L) == L \in Seq(LoopObject) /\ Redirects(L)

\* FindOuterLoop of loops L.
OuterOf(L) ==
  CHOOSE f : f = [l \in DOMAIN L |-> IF L[l].redirect = 0 THEN l ELSE f[L[l].redirect]]

LEMMA LoopNumbers ==
  ASSUME NEW L, IsLoops(L)
  PROVE  /\ DOMAIN L = 1 .. Len(L) /\ Len(L) \in Nat /\ 0 \notin DOMAIN L
         /\ \A l \in DOMAIN L : /\ l \in Nat /\ L[l] \in LoopObject
                                /\ L[l].exit \in Node /\ L[l].distance \in Nat
                                /\ L[l].redirect \in Nat
<1>1. L \in Seq(LoopObject)
  BY DEF IsLoops
<1>2. DOMAIN L = 1 .. Len(L) /\ Len(L) \in Nat /\ \A l \in DOMAIN L : L[l] \in LoopObject
  BY <1>1
<1> QED  BY <1>2 DEF LoopObject

Nearer(L, a, b) ==
  L[a].distance < L[b].distance \/ (L[a].distance = L[b].distance /\ a < b)

\* Some loop of a set is nearest to zone1.
LEMMA NearestLoop ==
  ASSUME NEW L, IsLoops(L), NEW B \in SUBSET DOMAIN L, B # {}
  PROVE  \E l \in B : \A k \in B : ~Nearer(L, k, l)
<1> USE LoopNumbers
<1> DEFINE D == {L[l].distance : l \in B}
<1>1. PICK d \in D : \A e \in D : d <= e
  <2>1. D \in SUBSET Nat /\ D # {}
    OBVIOUS
  <2> HIDE DEF D
  <2> QED  BY <2>1, LeastNumber
<1> DEFINE C == {l \in B : L[l].distance = d}
<1>2. PICK l \in C : \A k \in C : l <= k
  <2>1. C \in SUBSET Nat /\ C # {}
    BY <1>1
  <2> HIDE DEF C
  <2> QED  BY <2>1, LeastNumber
<1>3. ASSUME NEW k \in B, Nearer(L, k, l) PROVE FALSE
  <2>1. d <= L[k].distance /\ L[k].distance \in Nat /\ d \in Nat
    BY <1>1
  <2>2. L[k].distance = d /\ k < l
    BY <1>2, <1>3, <2>1 DEF Nearer
  <2> QED  BY <1>2, <2>2
<1> QED  BY <1>2, <1>3

\* Redirection does not turn in circles: some loop of a set is redirected out of it.
LEMMA LeavesSet ==
  ASSUME NEW L, IsLoops(L), NEW B \in SUBSET DOMAIN L, B # {}
  PROVE  \E l \in B : L[l].redirect \notin B
<1>1. PICK l \in B : \A k \in B : ~Nearer(L, k, l)
  BY NearestLoop
<1>2. SUFFICES ASSUME L[l].redirect \in B PROVE FALSE
  BY <1>1
<1>3. L[l].redirect # 0 /\ l \in DOMAIN L
  BY <1>2, LoopNumbers
<1> QED  BY <1>1, <1>2, <1>3 DEF IsLoops, Redirects, Nearer

\* The loops at the end of redirection from l, as a set.
Ends(L, l) ==
  {r \in DOMAIN L :
     /\ L[r].redirect = 0
     /\ \A S \in SUBSET DOMAIN L :
          l \in S /\ (\A x \in S : L[x].redirect # 0 => L[x].redirect \in S) => r \in S}

LEMMA EndsOfLast ==
  ASSUME NEW L, IsLoops(L), NEW l \in DOMAIN L, L[l].redirect = 0
  PROVE  Ends(L, l) = {l}
<1>1. l \in Ends(L, l)
  BY DEF Ends
<1>2. ASSUME NEW r \in Ends(L, l) PROVE r = l
  <2>1. {l} \in SUBSET DOMAIN L /\ l \in {l} /\ \A x \in {l} : L[x].redirect # 0 => L[x].redirect \in {l}
    OBVIOUS
  <2>2. r \in {l}
    BY <2>1 DEF Ends
  <2> QED  BY <2>2
<1> QED  BY <1>1, <1>2

LEMMA EndsOfNext ==
  ASSUME NEW L, IsLoops(L), NEW l \in DOMAIN L, L[l].redirect # 0
  PROVE  Ends(L, l) = Ends(L, L[l].redirect)
<1> DEFINE n == L[l].redirect
<1>1. n \in DOMAIN L
  BY DEF IsLoops, Redirects
<1>2. ASSUME NEW r \in Ends(L, l) PROVE r \in Ends(L, n)
  <2>1. r \in DOMAIN L /\ L[r].redirect = 0
    BY DEF Ends
  <2>2. ASSUME NEW S \in SUBSET DOMAIN L, n \in S,
               \A x \in S : L[x].redirect # 0 => L[x].redirect \in S
        PROVE  r \in S
    <3>1. S \cup {l} \in SUBSET DOMAIN L /\ l \in S \cup {l}
      OBVIOUS
    <3>2. \A x \in S \cup {l} : L[x].redirect # 0 => L[x].redirect \in S \cup {l}
      BY <2>2
    <3>3. r \in S \cup {l}
      BY <3>1, <3>2 DEF Ends
    <3> QED  BY <2>1, <3>3
  <2> QED  BY <2>1, <2>2 DEF Ends
<1>3. ASSUME NEW r \in Ends(L, n) PROVE r \in Ends(L, l)
  <2>1. r \in DOMAIN L /\ L[r].redirect = 0
    BY DEF Ends
  <2>2. ASSUME NEW S \in SUBSET DOMAIN L, l \in S,
               \A x \in S : L[x].redirect # 0 => L[x].redirect \in S
        PROVE  r \in S
    <3>1. n \in S
      BY <2>2
    <3> QED  BY <2>2, <3>1 DEF Ends
  <2> QED  BY <2>1, <2>2 DEF Ends
<1> QED  BY <1>2, <1>3

LEMMA OuterEquation ==
  ASSUME NEW L, IsLoops(L)
  PROVE  OuterOf(L) = [l \in DOMAIN L |-> IF L[l].redirect = 0 THEN l ELSE OuterOf(L)[L[l].redirect]]
<1> DEFINE f == [l \in DOMAIN L |-> CHOOSE r : r \in Ends(L, l)]
<1>1. ASSUME NEW l \in DOMAIN L
      PROVE  f[l] = IF L[l].redirect = 0 THEN l ELSE f[L[l].redirect]
  <2>1. CASE L[l].redirect = 0
    BY <2>1, EndsOfLast
  <2>2. CASE L[l].redirect # 0
    <3>1. L[l].redirect \in DOMAIN L
      BY <2>2 DEF IsLoops, Redirects
    <3> QED  BY <2>2, <3>1, EndsOfNext
  <2> QED  BY <2>1, <2>2
<1>2. f = [l \in DOMAIN L |-> IF L[l].redirect = 0 THEN l ELSE f[L[l].redirect]]
  BY <1>1
<1> HIDE DEF f
<1> QED  BY <1>2 DEF OuterOf

\* The outer loop is redirected to none and is not farther from zone1.
LEMMA OuterIsLast ==
  ASSUME NEW L, IsLoops(L), NEW l \in DOMAIN L
  PROVE  /\ OuterOf(L)[l] \in DOMAIN L
         /\ L[OuterOf(L)[l]].redirect = 0
         /\ L[OuterOf(L)[l]].distance <= L[l].distance
         /\ L[l].redirect = 0 => OuterOf(L)[l] = l
         /\ L[l].redirect # 0 => OuterOf(L)[l] = OuterOf(L)[L[l].redirect]
<1> DEFINE Outer == OuterOf(L)
           Good(k) == /\ Outer[k] \in DOMAIN L
                      /\ L[Outer[k]].redirect = 0
                      /\ L[Outer[k]].distance <= L[k].distance
           B == {k \in DOMAIN L : ~Good(k)}
<1>0. \A k \in DOMAIN L : /\ L[k].distance \in Nat
                          /\ L[k].redirect = 0 => Outer[k] = k
                          /\ L[k].redirect # 0 => Outer[k] = Outer[L[k].redirect]
  <2>1. Outer = [k \in DOMAIN L |-> IF L[k].redirect = 0 THEN k ELSE Outer[L[k].redirect]]
    BY OuterEquation
  <2>2. \A k \in DOMAIN L : L[k].distance \in Nat
    BY LoopNumbers
  <2> HIDE DEF Outer
  <2> QED  BY <2>1, <2>2
<1> HIDE DEF Outer
<1>1. B = {}
  <2> SUFFICES ASSUME B # {} PROVE FALSE
    OBVIOUS
  <2>1. PICK k \in B : L[k].redirect \notin B
    <3>1. B \in SUBSET DOMAIN L
      OBVIOUS
    <3> HIDE DEF B
    <3> QED  BY <3>1, LeavesSet
  <2>2. CASE L[k].redirect = 0
    BY <1>0, <2>1, <2>2
  <2>3. CASE L[k].redirect # 0
    <3>1. L[k].redirect \in DOMAIN L /\ L[L[k].redirect].distance <= L[k].distance
      <4>1. Redirects(L) /\ k \in DOMAIN L
        BY <2>1 DEF IsLoops
      <4> QED  BY <1>0, <2>3, <4>1 DEF Redirects
    <3>2. Good(L[k].redirect)
      BY <2>1, <3>1
    <3>3. Outer[k] = Outer[L[k].redirect]
      BY <1>0, <2>1, <2>3
    <3>4. Outer[L[k].redirect] \in DOMAIN L
      BY <3>2
    <3>5. L[Outer[k]].distance <= L[k].distance
      BY <1>0, <2>1, <3>1, <3>2, <3>3, <3>4
    <3> QED  BY <2>1, <3>2, <3>3, <3>5
  <2> QED  BY <2>2, <2>3
<1>2. Good(l)
  BY <1>1
<1> QED  BY <1>0, <1>2 DEF Outer

\* The loops of L are redirected in M as in L.
SameRedirects(L, M) ==
  /\ IsLoops(L) /\ IsLoops(M)
  /\ \A l \in DOMAIN L : l \in DOMAIN M /\ M[l].redirect = L[l].redirect
SameOuter(L, M) == \A l \in DOMAIN L : OuterOf(M)[l] = OuterOf(L)[l]

\* More loops, or other attributes of loops, do not change outer loops.
LEMMA OuterKept ==
  ASSUME NEW L, NEW M, SameRedirects(L, M)
  PROVE  SameOuter(L, M)
<1> USE DEF SameOuter
<1>0. IsLoops(L) /\ IsLoops(M) /\ \A l \in DOMAIN L : l \in DOMAIN M /\ M[l].redirect = L[l].redirect
  BY DEF SameRedirects
<1> DEFINE B == {l \in DOMAIN L : OuterOf(M)[l] # OuterOf(L)[l]}
<1> SUFFICES ASSUME B # {} PROVE FALSE
  OBVIOUS
<1>1. PICK l \in B : L[l].redirect \notin B
  BY <1>0, LeavesSet
<1>2. l \in DOMAIN L /\ l \in DOMAIN M /\ M[l].redirect = L[l].redirect
  BY <1>0, <1>1
<1>3. CASE L[l].redirect = 0
  BY <1>0, <1>1, <1>2, <1>3, OuterIsLast
<1>4. CASE L[l].redirect # 0
  <2>1. L[l].redirect \in DOMAIN L
    BY <1>0, <1>2, <1>4 DEF IsLoops, Redirects
  <2>2. OuterOf(L)[l] = OuterOf(L)[L[l].redirect] /\ OuterOf(M)[l] = OuterOf(M)[L[l].redirect]
    BY <1>0, <1>2, <1>4, OuterIsLast
  <2> QED  BY <1>1, <2>1, <2>2
<1> QED  BY <1>3, <1>4

\* M differs from L in that loop a is redirected to loop b.
Unites(L, M, a, b) ==
  /\ IsLoops(M) /\ DOMAIN M = DOMAIN L
  /\ \A l \in DOMAIN L : /\ M[l].exit = L[l].exit /\ M[l].distance = L[l].distance
                         /\ l # a => M[l].redirect = L[l].redirect
  /\ M[a].redirect = b
OuterBecomes(L, M, a, b) ==
  \A l \in DOMAIN L : OuterOf(M)[l] = IF OuterOf(L)[l] = a THEN b ELSE OuterOf(L)[l]

LEMMA OuterUnited ==
  ASSUME NEW L, IsLoops(L), NEW M, NEW a \in DOMAIN L, NEW b \in DOMAIN L, a # b,
         L[a].redirect = 0, L[b].redirect = 0, Unites(L, M, a, b)
  PROVE  OuterBecomes(L, M, a, b)
<1>0. /\ IsLoops(M) /\ DOMAIN M = DOMAIN L /\ M[a].redirect = b
      /\ \A l \in DOMAIN L : l # a => M[l].redirect = L[l].redirect
  BY DEF Unites
<1> DEFINE Good(l) == OuterOf(M)[l] = IF OuterOf(L)[l] = a THEN b ELSE OuterOf(L)[l]
           B == {l \in DOMAIN L : ~Good(l)}
<1>1. ASSUME NEW l \in DOMAIN L
      PROVE  /\ l \in DOMAIN M
             /\ M[l].redirect = 0 => OuterOf(M)[l] = l
             /\ M[l].redirect # 0 => OuterOf(M)[l] = OuterOf(M)[M[l].redirect]
             /\ L[l].redirect = 0 => OuterOf(L)[l] = l
             /\ L[l].redirect # 0 => OuterOf(L)[l] = OuterOf(L)[L[l].redirect] /\ L[l].redirect \in DOMAIN L
  <2>1. l \in DOMAIN M
    BY <1>0
  <2>2. /\ L[l].redirect = 0 => OuterOf(L)[l] = l
        /\ L[l].redirect # 0 => OuterOf(L)[l] = OuterOf(L)[L[l].redirect]
    BY OuterIsLast
  <2>3. /\ M[l].redirect = 0 => OuterOf(M)[l] = l
        /\ M[l].redirect # 0 => OuterOf(M)[l] = OuterOf(M)[M[l].redirect]
    BY <1>0, <2>1, OuterIsLast
  <2>4. L[l].redirect # 0 => L[l].redirect \in DOMAIN L
    BY DEF IsLoops, Redirects
  <2> QED  BY <2>1, <2>2, <2>3, <2>4
<1>2. b # 0
  BY LoopNumbers
<1>3. Good(a)
  BY <1>0, <1>1, <1>2
<1>4. ASSUME NEW l \in DOMAIN L, l # a, L[l].redirect = 0 PROVE Good(l)
  BY <1>0, <1>1, <1>4
<1>5. ASSUME NEW l \in DOMAIN L, l # a, L[l].redirect # 0, Good(L[l].redirect) PROVE Good(l)
  BY <1>0, <1>1, <1>5
<1> HIDE DEF Good
<1>6. B = {}
  <2> SUFFICES ASSUME B # {} PROVE FALSE
    OBVIOUS
  <2>1. PICK l \in B : L[l].redirect \notin B
    BY LeavesSet
  <2>2. l # a /\ L[l].redirect # 0
    BY <1>3, <1>4, <2>1
  <2>3. L[l].redirect \in DOMAIN L
    BY <1>1, <2>1, <2>2
  <2> QED  BY <1>5, <2>1, <2>2, <2>3
<1>7. \A l \in DOMAIN L : Good(l)
  BY <1>6
<1> QED  BY <1>7 DEF Good, OuterBecomes

-----------------------------------------------------------------------------
(***************************************************************************)
(* What a call makes of a loop it has found, see FoundLoop: S are the      *)
(* calls, NL the loops of nodes, L the loops and D the distances.          *)
(***************************************************************************)
\* Loops of active nodes are not redirected, start at an active node, and the loop of
\* a later call is younger.
LoopsOfCalls(S, NL, L, D) ==
  \A k \in DOMAIN S : NL[S[k].obj] # 0 =>
    /\ NL[S[k].obj] \in DOMAIN L
    /\ L[NL[S[k].obj]].redirect = 0
    /\ \E j \in 1 .. k :
         /\ L[NL[S[k].obj]].exit = S[j].obj
         /\ L[NL[S[k].obj]].distance = IF j < k THEN D[S[j].obj] + 1 ELSE D[S[j].obj]
    /\ \A j \in 1 .. k - 1 : NL[S[j].obj] < NL[S[k].obj]

\* Distances increase from call to call.
CallsDescend(S, D) ==
  /\ \E n \in Nat : DOMAIN S = 1 .. n
  /\ \A k \in DOMAIN S : S[k].obj \in Node
  /\ \A j, k \in DOMAIN S : j < k => D[S[j].obj] + 2 <= D[S[k].obj]

\* Loop f has been found behind the last call.
NewlyFound(S, NL, L, D, f) ==
  /\ f \in DOMAIN L
  /\ L[f].redirect = 0
  /\ \E j \in DOMAIN S : L[f].exit = S[j].obj /\ L[f].distance = D[S[j].obj] + 1
  /\ \A k \in DOMAIN S : NL[S[k].obj] < f

\* Loops M and loops of nodes NM are what obj makes of L and NL.
Made(obj, f, NL, L, D, NM, M) ==
  \/ /\ obj = L[f].exit
     /\ NL[obj] = 0
     /\ M = Append(L, Loop(obj, D[obj]))
     /\ NM = [NL EXCEPT ![obj] = Len(L) + 1]
  \/ /\ obj = L[f].exit \/ NL[obj] = f
     /\ NL[obj] # 0
     /\ M = L /\ NM = NL
  \/ /\ obj # L[f].exit
     /\ NL[obj] \notin {0, f}
     /\ \/ /\ Closer(f, NL[obj], L)
           /\ M = [L EXCEPT ![NL[obj]].redirect = f]
           /\ NM = [NL EXCEPT ![obj] = f]
        \/ /\ ~Closer(f, NL[obj], L)
           /\ M = [L EXCEPT ![f].redirect = NL[obj]]
           /\ NM = NL
  \/ /\ obj # L[f].exit
     /\ NL[obj] = 0
     /\ M = L
     /\ NM = [NL EXCEPT ![obj] = f]

LEMMA FoundLoopMakes ==
  ASSUME NEW obj, NEW i, NEW f, NEW L, FoundLoop(obj, i, f, L)
  PROVE  /\ Made(obj, f, nodeLoop, L, dist, nodeLoop', loops')
         /\ intfLoop' = [intfLoop EXCEPT ![i] = f]
         /\ intfToZone1' = intfToZone1
BY DEF FoundLoop, Made, Loop

\* A place of loops at node n, for an interface of loop F: the node belongs to the same
\* outer loop, or it is the exit of this loop and has another one, or this loop has
\* still to be returned to it.
SamePlace(NL, L, F, n) == NL[n] # 0 /\ OuterOf(L)[F] = OuterOf(L)[NL[n]]
ExitPlace(S, NL, L, F, n) ==
  /\ NL[n] # 0
  /\ L[OuterOf(L)[F]].exit = n
  /\ \A k \in DOMAIN S : NL[S[k].obj] # OuterOf(L)[F]
LaterPlace(S, NL, L, D, F, n) ==
  \E j, k \in DOMAIN S : /\ S[j].obj = n /\ j < k
                          /\ NL[S[k].obj] = OuterOf(L)[F]
                          /\ D[L[OuterOf(L)[F]].exit] <= D[n]
Place(S, NL, L, D, F, n) ==
  SamePlace(NL, L, F, n) \/ ExitPlace(S, NL, L, F, n) \/ LaterPlace(S, NL, L, D, F, n)

\* The same while loop f is found.
FoundPlace(S, L, D, f, F, n) ==
  /\ OuterOf(L)[F] = f
  /\ \E j \in DOMAIN S : S[j].obj = n /\ D[L[f].exit] <= D[n]
PlaceBefore(S, NL, L, D, f, F, n) ==
  \/ SamePlace(NL, L, F, n)
  \/ ExitPlace(S, NL, L, F, n) /\ OuterOf(L)[F] # f
  \/ LaterPlace(S, NL, L, D, F, n)
  \/ FoundPlace(S, L, D, f, F, n)

\* The last call n has found loop f.
Finds(S, NL, L, D, f, n) ==
  /\ n \in Nat \ {0} /\ DOMAIN S = 1 .. n
  /\ NL \in [Node -> Nat] /\ D \in [Node -> Nat]
  /\ IsLoops(L) /\ CallsDescend(S, D) /\ LoopsOfCalls(S, NL, L, D)
  /\ NewlyFound(S, NL, L, D, f)

FoundFacts(S, NL, L, D, f, n, obj, inner) ==
  /\ obj \in Node /\ f \in Nat /\ inner \in Nat /\ f # 0 /\ inner < f
  /\ inner # 0 => inner \in DOMAIN L /\ L[inner].redirect = 0
  /\ \A k \in 1 .. n - 1 : /\ S[k].obj \in Node /\ S[k].obj # obj
                           /\ inner # 0 => NL[S[k].obj] < inner
                           /\ NL[S[k].obj] < f
  /\ obj # L[f].exit => /\ L[f].distance = D[L[f].exit] + 1
                        /\ D[L[f].exit] + 2 <= D[obj]
  /\ inner # 0 /\ obj # L[f].exit =>
       /\ Closer(f, inner, L) => D[L[f].exit] <= D[L[inner].exit]
       /\ ~Closer(f, inner, L) => /\ D[L[inner].exit] <= D[L[f].exit]
                                  /\ L[inner].distance <= L[f].distance

LEMMA FindsFacts ==
  ASSUME NEW S, NEW NL, NEW L, NEW D, NEW f, NEW n, Finds(S, NL, L, D, f, n),
         NEW obj, obj = S[n].obj, NEW inner, inner = NL[obj]
  PROVE  FoundFacts(S, NL, L, D, f, n, obj, inner)
<1>1. n \in Nat \ {0} /\ DOMAIN S = 1 .. n /\ n \in DOMAIN S
  BY DEF Finds
<1>2. \A k \in 1 .. n : S[k].obj \in Node
  BY <1>1 DEF Finds, CallsDescend
<1>3. /\ NL \in [Node -> Nat] /\ D \in [Node -> Nat] /\ IsLoops(L)
      /\ \A m \in Node : NL[m] \in Nat /\ D[m] \in Nat
  BY DEF Finds
<1>4. \A j, k \in 1 .. n : j < k => D[S[j].obj] + 2 <= D[S[k].obj]
  BY <1>1 DEF Finds, CallsDescend
<1>5. /\ f \in DOMAIN L
      /\ L[f].redirect = 0
      /\ \E j \in 1 .. n : L[f].exit = S[j].obj /\ L[f].distance = D[S[j].obj] + 1
      /\ \A k \in 1 .. n : NL[S[k].obj] < f
  BY <1>1 DEF Finds, NewlyFound
<1>6. obj \in Node /\ inner \in Nat /\ f \in Nat /\ f # 0 /\ inner < f
  BY <1>1, <1>2, <1>3, <1>5, LoopNumbers
<1>7. inner # 0 =>
        /\ inner \in DOMAIN L
        /\ L[inner].redirect = 0
        /\ \E j \in 1 .. n :
             /\ L[inner].exit = S[j].obj
             /\ L[inner].distance = IF j < n THEN D[S[j].obj] + 1 ELSE D[S[j].obj]
        /\ \A j \in 1 .. n - 1 : NL[S[j].obj] < inner
  BY <1>1 DEF Finds, LoopsOfCalls
<1>8. \A k \in 1 .. n - 1 : k \in 1 .. n /\ k < n /\ S[k].obj # obj
  <2> TAKE k \in 1 .. n - 1
  <2>1. k \in 1 .. n /\ k < n
    BY <1>1
  <2>2. D[S[k].obj] + 2 <= D[obj] /\ D[obj] \in Nat
    BY <1>1, <1>3, <1>4, <1>6, <2>1
  <2> QED  BY <2>1, <2>2
<1>9. obj # L[f].exit => L[f].distance = D[L[f].exit] + 1 /\ D[L[f].exit] + 2 <= D[obj]
  <2> SUFFICES ASSUME obj # L[f].exit
               PROVE  L[f].distance = D[L[f].exit] + 1 /\ D[L[f].exit] + 2 <= D[obj]
    OBVIOUS
  <2>1. PICK j \in 1 .. n : L[f].exit = S[j].obj /\ L[f].distance = D[S[j].obj] + 1
    BY <1>5
  <2>2. j < n
    BY <1>1, <2>1
  <2> QED  BY <1>1, <1>4, <2>1, <2>2
<1>10. inner # 0 /\ obj # L[f].exit =>
              /\ Closer(f, inner, L) => D[L[f].exit] <= D[L[inner].exit]
              /\ ~Closer(f, inner, L) => /\ D[L[inner].exit] <= D[L[f].exit]
                                         /\ L[inner].distance <= L[f].distance
  <2> SUFFICES ASSUME inner # 0, obj # L[f].exit
               PROVE  /\ Closer(f, inner, L) => D[L[f].exit] <= D[L[inner].exit]
                      /\ ~Closer(f, inner, L) => /\ D[L[inner].exit] <= D[L[f].exit]
                                                 /\ L[inner].distance <= L[f].distance
    OBVIOUS
  <2>1. PICK j \in 1 .. n : /\ L[inner].exit = S[j].obj
                            /\ L[inner].distance = IF j < n THEN D[S[j].obj] + 1 ELSE D[S[j].obj]
    BY <1>7
  <2>2. L[f].distance = D[L[f].exit] + 1 /\ D[L[f].exit] + 2 <= D[obj]
    BY <1>9
  <2>3. D[obj] \in Nat /\ D[L[f].exit] \in Nat /\ D[L[inner].exit] \in Nat
    BY <1>3, <1>5, <1>6, <1>7, LoopNumbers
  <2>4. CASE j = n
    <3>1. L[inner].distance = D[obj] /\ D[L[inner].exit] = D[obj]
      BY <2>1, <2>4
    <3> QED  BY <2>2, <2>3, <3>1 DEF Closer
  <2>5. CASE j # n
    <3>1. L[inner].distance = D[L[inner].exit] + 1
      BY <1>1, <2>1, <2>5
    <3> QED  BY <2>2, <2>3, <3>1 DEF Closer
  <2> QED  BY <2>4, <2>5
<1> QED
  <2>1. \A k \in 1 .. n - 1 : /\ S[k].obj \in Node /\ S[k].obj # obj
                              /\ inner # 0 => NL[S[k].obj] < inner
                              /\ NL[S[k].obj] < f
    BY <1>2, <1>5, <1>7, <1>8
  <2> QED  BY <1>6, <1>7, <1>9, <1>10, <2>1 DEF FoundFacts

\* What is made of loops and of the loop of obj.
MadeLoops(S, NL, L, D, f, obj, NM, M) ==
  /\ IsLoops(M) /\ LoopsOfCalls(S, NM, M, D)
  /\ NM \in [Node -> Nat] /\ NM[obj] \in DOMAIN M
  /\ \A m \in Node : m # obj => NM[m] = NL[m]
  /\ DOMAIN L \subseteq DOMAIN M
  /\ \A l \in DOMAIN L : M[l].exit = L[l].exit
MadeAtExit(L, f, inner, NM, M, obj) ==
  /\ NM[obj] # f
  /\ \A l \in DOMAIN L : OuterOf(M)[l] = OuterOf(L)[l]
  /\ inner # 0 => NM[obj] = inner
  /\ inner = 0 => NM[obj] \notin DOMAIN L
MadeInside(L, D, f, inner, NM, M, obj) ==
  /\ \A l \in DOMAIN L : OuterOf(M)[l] = IF OuterOf(L)[l] \in {f, inner} THEN NM[obj] ELSE OuterOf(L)[l]
  /\ D[M[NM[obj]].exit] <= D[L[f].exit]
  /\ inner # 0 => D[M[NM[obj]].exit] <= D[L[inner].exit]

\* Calls below the last one keep their loops; o is the new one of the last call.
KeepsCalls(S, NL, L, D, n, NM, M, o) ==
  /\ DOMAIN L \subseteq DOMAIN M
  /\ \A l \in DOMAIN L : M[l].exit = L[l].exit /\ M[l].distance = L[l].distance
  /\ \A k \in 1 .. n - 1 : NL[S[k].obj] # 0 =>
       M[NL[S[k].obj]].redirect = L[NL[S[k].obj]].redirect
  /\ NM = [NL EXCEPT ![S[n].obj] = o]
  /\ o \in DOMAIN M /\ M[o].redirect = 0
  /\ \E j \in 1 .. n : /\ M[o].exit = S[j].obj
                        /\ M[o].distance = IF j < n THEN D[S[j].obj] + 1 ELSE D[S[j].obj]
  /\ \A j \in 1 .. n - 1 : NL[S[j].obj] < o

LEMMA CallsKept ==
  ASSUME NEW S, NEW NL, NEW L, NEW D, NEW f, NEW n, Finds(S, NL, L, D, f, n),
         NEW NM, NEW M, NEW o, KeepsCalls(S, NL, L, D, n, NM, M, o)
  PROVE  LoopsOfCalls(S, NM, M, D)
<1>0. FoundFacts(S, NL, L, D, f, n, S[n].obj, NL[S[n].obj])
  BY FindsFacts
<1>1. n \in Nat \ {0} /\ DOMAIN S = 1 .. n /\ NL \in [Node -> Nat]
  BY DEF Finds
<1>2. \A k \in 1 .. n - 1 : k \in 1 .. n /\ S[k].obj \in Node /\ S[k].obj # S[n].obj
  BY <1>0, <1>1 DEF FoundFacts
<1>3. \A k \in 1 .. n - 1 : NM[S[k].obj] = NL[S[k].obj]
  BY <1>1, <1>2 DEF KeepsCalls
<1>4. NM[S[n].obj] = o
  BY <1>0, <1>1 DEF FoundFacts, KeepsCalls
<1> DEFINE Q(k) == /\ NM[S[k].obj] \in DOMAIN M
                   /\ M[NM[S[k].obj]].redirect = 0
                   /\ \E j \in 1 .. k :
                        /\ M[NM[S[k].obj]].exit = S[j].obj
                        /\ M[NM[S[k].obj]].distance = IF j < k THEN D[S[j].obj] + 1 ELSE D[S[j].obj]
                   /\ \A j \in 1 .. k - 1 : NM[S[j].obj] < NM[S[k].obj]
<1>5. Q(n)
  BY <1>1, <1>3, <1>4 DEF KeepsCalls
<1>6. ASSUME NEW k \in 1 .. n - 1, NM[S[k].obj] # 0 PROVE Q(k)
  <2> DEFINE l == NL[S[k].obj]
  <2>1. l # 0 /\ NM[S[k].obj] = l /\ k \in DOMAIN S /\ l < o
    BY <1>1, <1>2, <1>3, <1>6 DEF KeepsCalls
  <2>2. /\ l \in DOMAIN L
        /\ L[l].redirect = 0
        /\ \E j \in 1 .. k :
             /\ L[l].exit = S[j].obj
             /\ L[l].distance = IF j < k THEN D[S[j].obj] + 1 ELSE D[S[j].obj]
        /\ \A j \in 1 .. k - 1 : NL[S[j].obj] < l
    BY <2>1 DEF Finds, LoopsOfCalls
  <2>5. M[l].redirect = L[l].redirect
    BY <1>6, <2>1 DEF KeepsCalls
  <2>3. l \in DOMAIN M /\ M[l].redirect = 0 /\ M[l].exit = L[l].exit /\ M[l].distance = L[l].distance
    BY <2>1, <2>2, <2>5 DEF KeepsCalls
  <2>4. \A j \in 1 .. k - 1 : NM[S[j].obj] = NL[S[j].obj]
    BY <1>1, <1>3
  <2> HIDE DEF l
  <2> QED  BY <2>1, <2>2, <2>3, <2>4
<1> HIDE DEF Q
<1>7. \A k \in 1 .. n : k = n \/ k \in 1 .. n - 1
  BY <1>1
<1>8. \A k \in DOMAIN S : NM[S[k].obj] # 0 => Q(k)
  BY <1>1, <1>5, <1>6, <1>7
<1> QED  BY <1>8 DEF LoopsOfCalls, Q

\* The loop ends at obj and it is the first one.
LEMMA MadeOwn ==
  ASSUME NEW S, NEW NL, NEW L, NEW D, NEW f, NEW n, Finds(S, NL, L, D, f, n),
         NEW obj, obj = S[n].obj, NEW NM, NEW M,
         obj = L[f].exit, NL[obj] = 0,
         M = Append(L, Loop(obj, D[obj])), NM = [NL EXCEPT ![obj] = Len(L) + 1]
  PROVE  MadeLoops(S, NL, L, D, f, obj, NM, M) /\ MadeAtExit(L, f, 0, NM, M, obj)
<1>0. FoundFacts(S, NL, L, D, f, n, obj, NL[obj])
  BY FindsFacts
<1> DEFINE o == Len(L) + 1
           new == Loop(obj, D[obj])
<1>1. n \in Nat \ {0} /\ DOMAIN S = 1 .. n /\ NL \in [Node -> Nat] /\ D \in [Node -> Nat] /\ IsLoops(L)
      /\ f \in DOMAIN L
  BY DEF Finds, NewlyFound
<1>2. L \in Seq(LoopObject) /\ DOMAIN L = 1 .. Len(L) /\ Len(L) \in Nat
  BY <1>1, LoopNumbers DEF IsLoops
<1>3. obj \in Node /\ D[obj] \in Nat
  BY <1>0, <1>1 DEF FoundFacts
<1>4. /\ new \in LoopObject
      /\ new.exit = obj /\ new.distance = D[obj] /\ new.redirect = 0
  BY <1>3 DEF Loop, LoopObject
<1> HIDE DEF new
<1>5. /\ M \in Seq(LoopObject) /\ DOMAIN M = 1 .. o /\ M[o] = new
      /\ \A l \in DOMAIN L : l \in DOMAIN M /\ l < o /\ M[l] = L[l]
  BY <1>2, <1>4 DEF new
<1>6. Redirects(M)
  <2> SUFFICES ASSUME NEW l \in DOMAIN M, M[l].redirect # 0
               PROVE  /\ M[l].redirect \in DOMAIN M
                      /\ \/ M[M[l].redirect].distance < M[l].distance
                         \/ M[M[l].redirect].distance = M[l].distance /\ M[l].redirect < l
    BY DEF Redirects
  <2>1. l # o
    BY <1>4, <1>5
  <2>2. l \in DOMAIN L
    BY <1>2, <1>5, <2>1
  <2>3. M[l] = L[l] /\ L[l].redirect \in DOMAIN L
    BY <1>1, <1>5, <2>2 DEF IsLoops, Redirects
  <2> QED  BY <1>1, <1>5, <2>2, <2>3 DEF IsLoops, Redirects
<1>7. IsLoops(M)
  BY <1>5, <1>6 DEF IsLoops
<1>8. \A l \in DOMAIN L : OuterOf(M)[l] = OuterOf(L)[l]
  <2>1. SameRedirects(L, M)
    BY <1>1, <1>5, <1>7 DEF SameRedirects
  <2>2. SameOuter(L, M)
    BY <2>1, OuterKept
  <2> QED  BY <2>2 DEF SameOuter
<1>9. NM[obj] = o /\ o \notin DOMAIN L /\ NM \in [Node -> Nat] /\ \A m \in Node : m # obj => NM[m] = NL[m]
  BY <1>1, <1>2, <1>3
<1>10. MadeAtExit(L, f, 0, NM, M, obj)
  BY <1>1, <1>8, <1>9 DEF MadeAtExit
<1>11. LoopsOfCalls(S, NM, M, D)
  <2>1. \A j \in 1 .. n - 1 : NL[S[j].obj] < o
    <3> TAKE j \in 1 .. n - 1
    <3>1. NL[S[j].obj] < f /\ NL[S[j].obj] \in Nat
      BY <1>0, <1>1 DEF FoundFacts
    <3> QED  BY <1>1, <1>2, <3>1
  <2>2. n \in 1 .. n /\ M[o].exit = S[n].obj /\ M[o].distance = IF n < n THEN D[S[n].obj] + 1 ELSE D[S[n].obj]
    BY <1>1, <1>4, <1>5
  <2>3. DOMAIN L \subseteq DOMAIN M
    BY <1>5
  <2>4. \A l \in DOMAIN L : M[l].exit = L[l].exit /\ M[l].distance = L[l].distance
    BY <1>5
  <2>5. \A k \in 1 .. n - 1 : NL[S[k].obj] # 0 =>
          M[NL[S[k].obj]].redirect = L[NL[S[k].obj]].redirect
    <3> TAKE k \in 1 .. n - 1
    <3> HAVE NL[S[k].obj] # 0
    <3>1. k \in DOMAIN S
      BY <1>1
    <3>2. NL[S[k].obj] \in DOMAIN L
      BY <3>1 DEF Finds, LoopsOfCalls
    <3> QED  BY <1>5, <3>2
  <2>6. o \in DOMAIN M /\ M[o].redirect = 0
    BY <1>2, <1>4, <1>5
  <2>7. NM = [NL EXCEPT ![S[n].obj] = o]
    OBVIOUS
  <2> HIDE DEF o
  <2>8. \E j \in 1 .. n : /\ M[o].exit = S[j].obj
                          /\ M[o].distance = IF j < n THEN D[S[j].obj] + 1 ELSE D[S[j].obj]
    BY <2>2
  <2>9. KeepsCalls(S, NL, L, D, n, NM, M, o)
    BY <2>1, <2>3, <2>4, <2>5, <2>6, <2>7, <2>8 DEF KeepsCalls
  <2> QED  BY <2>9, CallsKept
<1>12. MadeLoops(S, NL, L, D, f, obj, NM, M)
  BY <1>2, <1>5, <1>7, <1>9, <1>11 DEF MadeLoops
<1> QED  BY <1>10, <1>12

\* The loop ends at obj and there is another one.
LEMMA MadeOther ==
  ASSUME NEW S, NEW NL, NEW L, NEW D, NEW f, NEW n, Finds(S, NL, L, D, f, n),
         NEW obj, obj = S[n].obj, obj = L[f].exit, NL[obj] # 0
  PROVE  MadeLoops(S, NL, L, D, f, obj, NL, L) /\ MadeAtExit(L, f, NL[obj], NL, L, obj)
<1>0. FoundFacts(S, NL, L, D, f, n, obj, NL[obj])
  BY FindsFacts
<1>1. NL[obj] < f /\ NL[obj] \in Nat /\ NL[obj] \in DOMAIN L /\ f \in Nat
  BY <1>0 DEF FoundFacts
<1>2. NL \in [Node -> Nat] /\ IsLoops(L) /\ LoopsOfCalls(S, NL, L, D)
  BY DEF Finds
<1> QED  BY <1>1, <1>2 DEF MadeLoops, MadeAtExit

\* The loop is the first one of obj.
LEMMA MadeFirst ==
  ASSUME NEW S, NEW NL, NEW L, NEW D, NEW f, NEW n, Finds(S, NL, L, D, f, n),
         NEW obj, obj = S[n].obj, obj # L[f].exit, NL[obj] = 0,
         NEW NM, NM = [NL EXCEPT ![obj] = f]
  PROVE  MadeLoops(S, NL, L, D, f, obj, NM, L) /\ MadeInside(L, D, f, 0, NM, L, obj)
<1>0. FoundFacts(S, NL, L, D, f, n, obj, NL[obj])
  BY FindsFacts
<1>1. n \in Nat \ {0} /\ DOMAIN S = 1 .. n /\ NL \in [Node -> Nat] /\ D \in [Node -> Nat] /\ IsLoops(L)
      /\ f \in DOMAIN L /\ f \in Nat /\ L[f].redirect = 0
  BY <1>0 DEF Finds, NewlyFound, FoundFacts
<1>2. obj \in Node
  BY <1>0 DEF FoundFacts
<1>3. NM[obj] = f /\ NM \in [Node -> Nat] /\ \A m \in Node : m # obj => NM[m] = NL[m]
  BY <1>1, <1>2
<1>4. LoopsOfCalls(S, NM, L, D)
  <2>1. \E j \in 1 .. n : /\ L[f].exit = S[j].obj
                          /\ L[f].distance = IF j < n THEN D[S[j].obj] + 1 ELSE D[S[j].obj]
    <3>1. PICK j \in 1 .. n : L[f].exit = S[j].obj /\ L[f].distance = D[S[j].obj] + 1
      BY <1>1 DEF Finds, NewlyFound
    <3>2. j < n
      BY <1>1, <3>1
    <3> QED  BY <3>1, <3>2
  <2>2. \A j \in 1 .. n - 1 : NL[S[j].obj] < f
    BY <1>0 DEF FoundFacts
  <2>3. NM = [NL EXCEPT ![S[n].obj] = f]
    OBVIOUS
  <2>4. KeepsCalls(S, NL, L, D, n, NM, L, f)
    BY <1>1, <2>1, <2>2, <2>3 DEF KeepsCalls
  <2> QED  BY <2>4, CallsKept
<1>5. MadeLoops(S, NL, L, D, f, obj, NM, L)
  BY <1>1, <1>3, <1>4 DEF MadeLoops
<1>6. \A l \in DOMAIN L : OuterOf(L)[l] \in DOMAIN L /\ OuterOf(L)[l] # 0
  <2>1. \A l \in DOMAIN L : OuterOf(L)[l] \in DOMAIN L
    BY <1>1, OuterIsLast
  <2>2. 0 \notin DOMAIN L
    BY <1>1, LoopNumbers
  <2> QED  BY <2>1, <2>2
<1>7. D[L[f].exit] \in Nat
  BY <1>1, LoopNumbers
<1>8. MadeInside(L, D, f, 0, NM, L, obj)
  BY <1>3, <1>6, <1>7 DEF MadeInside
<1> QED  BY <1>5, <1>8

\* One of two loops is redirected.
LEMMA Redirected ==
  ASSUME NEW L, IsLoops(L), NEW a \in DOMAIN L, NEW b \in DOMAIN L, a # b,
         L[a].redirect = 0, L[b].redirect = 0,
         Nearer(L, b, a),
         NEW M, M = [L EXCEPT ![a].redirect = b]
  PROVE  Unites(L, M, a, b)
<1>1. L \in Seq(LoopObject) /\ DOMAIN L = 1 .. Len(L) /\ Len(L) \in Nat /\ b \in Nat /\ L[a] \in LoopObject
  BY LoopNumbers DEF IsLoops
<1> DEFINE new == [L[a] EXCEPT !.redirect = b]
<1>2. /\ new \in LoopObject
      /\ new.exit = L[a].exit /\ new.distance = L[a].distance /\ new.redirect = b
  BY <1>1 DEF LoopObject
<1>3. M = [L EXCEPT ![a] = new]
  OBVIOUS
<1> HIDE DEF new
<1>4. M \in Seq(LoopObject) /\ DOMAIN M = DOMAIN L
  BY <1>1, <1>2, <1>3
<1>5. M[a] = new /\ \A l \in DOMAIN L : l # a => M[l] = L[l]
  BY <1>3
<1>6. \A l \in DOMAIN L : /\ M[l].exit = L[l].exit /\ M[l].distance = L[l].distance
                          /\ l # a => M[l].redirect = L[l].redirect
  BY <1>2, <1>5
<1>7. M[a].redirect = b
  BY <1>2, <1>5
<1>8. Redirects(M)
  <2> SUFFICES ASSUME NEW l \in DOMAIN L, M[l].redirect # 0
               PROVE  /\ M[l].redirect \in DOMAIN L
                      /\ \/ M[M[l].redirect].distance < M[l].distance
                         \/ M[M[l].redirect].distance = M[l].distance /\ M[l].redirect < l
    BY <1>4 DEF Redirects
  <2>1. CASE l = a
    BY <1>6, <1>7, <2>1 DEF Nearer
  <2>2. CASE l # a
    <3>1. M[l].redirect = L[l].redirect /\ L[l].redirect \in DOMAIN L
      BY <1>6, <2>2 DEF IsLoops, Redirects
    <3> QED  BY <1>6, <2>2, <3>1 DEF IsLoops, Redirects
  <2> QED  BY <2>1, <2>2
<1>9. IsLoops(M)
  BY <1>4, <1>8 DEF IsLoops
<1> QED  BY <1>4, <1>6, <1>7, <1>9 DEF Unites

\* The loop of obj is redirected to the one that has been found.
LEMMA MadeCloser ==
  ASSUME NEW S, NEW NL, NEW L, NEW D, NEW f, NEW n, Finds(S, NL, L, D, f, n),
         NEW obj, obj = S[n].obj, obj # L[f].exit, NL[obj] # 0, Closer(f, NL[obj], L),
         NEW M, M = [L EXCEPT ![NL[obj]].redirect = f],
         NEW NM, NM = [NL EXCEPT ![obj] = f]
  PROVE  MadeLoops(S, NL, L, D, f, obj, NM, M) /\ MadeInside(L, D, f, NL[obj], NM, M, obj)
<1>0. FoundFacts(S, NL, L, D, f, n, obj, NL[obj])
  BY FindsFacts
<1> DEFINE inner == NL[obj]
<1>1. n \in Nat \ {0} /\ DOMAIN S = 1 .. n /\ NL \in [Node -> Nat] /\ D \in [Node -> Nat] /\ IsLoops(L)
      /\ f \in DOMAIN L /\ f \in Nat /\ L[f].redirect = 0
  BY <1>0 DEF Finds, NewlyFound, FoundFacts
<1>2. obj \in Node /\ inner \in DOMAIN L /\ L[inner].redirect = 0 /\ inner < f /\ inner \in Nat
  BY <1>0 DEF FoundFacts
<1>3. NM[obj] = f /\ NM \in [Node -> Nat] /\ \A m \in Node : m # obj => NM[m] = NL[m]
  BY <1>1, <1>2
<1>4. /\ IsLoops(M) /\ DOMAIN M = DOMAIN L
      /\ \A l \in DOMAIN L : /\ M[l].exit = L[l].exit /\ M[l].distance = L[l].distance
                             /\ l # inner => M[l].redirect = L[l].redirect
      /\ \A l \in DOMAIN L : OuterOf(M)[l] = IF OuterOf(L)[l] = inner THEN f ELSE OuterOf(L)[l]
  <2>1. Nearer(L, f, inner) /\ f # inner
    BY <1>1, <1>2 DEF Closer, Nearer
  <2>2. M = [L EXCEPT ![inner].redirect = f]
    OBVIOUS
  <2> HIDE DEF inner
  <2>3. Unites(L, M, inner, f)
    BY <1>1, <1>2, <2>1, <2>2, Redirected
  <2>4. OuterBecomes(L, M, inner, f)
    BY <1>1, <1>2, <2>1, <2>3, OuterUnited
  <2> QED  BY <2>3, <2>4 DEF Unites, OuterBecomes
<1>5. LoopsOfCalls(S, NM, M, D)
  <2>1. \E j \in 1 .. n : /\ M[f].exit = S[j].obj
                          /\ M[f].distance = IF j < n THEN D[S[j].obj] + 1 ELSE D[S[j].obj]
    <3>1. PICK j \in 1 .. n : L[f].exit = S[j].obj /\ L[f].distance = D[S[j].obj] + 1
      BY <1>1 DEF Finds, NewlyFound
    <3>2. j < n
      BY <1>1, <3>1
    <3> QED  BY <1>1, <1>4, <3>1, <3>2
  <2>2. \A j \in 1 .. n - 1 : NL[S[j].obj] < inner /\ NL[S[j].obj] < f
    BY <1>0 DEF FoundFacts
  <2>3. \A k \in 1 .. n - 1 : NL[S[k].obj] # 0 =>
          M[NL[S[k].obj]].redirect = L[NL[S[k].obj]].redirect
    <3> TAKE k \in 1 .. n - 1
    <3> HAVE NL[S[k].obj] # 0
    <3>1. NL[S[k].obj] \in DOMAIN L /\ NL[S[k].obj] < inner /\ NL[S[k].obj] \in Nat
      BY <1>1, <2>2, LoopNumbers DEF Finds, LoopsOfCalls
    <3> QED  BY <1>2, <1>4, <3>1
  <2>4. NM = [NL EXCEPT ![S[n].obj] = f] /\ DOMAIN L \subseteq DOMAIN M /\ f \in DOMAIN M
    BY <1>1, <1>4
  <2>5. M[f].redirect = 0
    BY <1>1, <1>2, <1>4
  <2>6. \A l \in DOMAIN L : M[l].exit = L[l].exit /\ M[l].distance = L[l].distance
    BY <1>4
  <2>7. KeepsCalls(S, NL, L, D, n, NM, M, f)
    BY <2>1, <2>2, <2>3, <2>4, <2>5, <2>6 DEF KeepsCalls
  <2> QED  BY <2>7, CallsKept
<1>6. MadeLoops(S, NL, L, D, f, obj, NM, M)
  BY <1>1, <1>3, <1>4, <1>5 DEF MadeLoops
<1>7. \A l \in DOMAIN L : OuterOf(M)[l] = IF OuterOf(L)[l] \in {f, inner} THEN NM[obj] ELSE OuterOf(L)[l]
  BY <1>3, <1>4
<1>8. D[L[f].exit] <= D[L[inner].exit] /\ D[L[f].exit] \in Nat
  <2>1. D[L[f].exit] \in Nat
    BY <1>1, LoopNumbers
  <2> QED  BY <1>0, <1>2, <2>1, LoopNumbers DEF FoundFacts
<1>9. M[NM[obj]].exit = L[f].exit
  BY <1>1, <1>3, <1>4
<1>10. MadeInside(L, D, f, inner, NM, M, obj)
  <2>1. D[M[NM[obj]].exit] <= D[L[f].exit] /\ D[M[NM[obj]].exit] <= D[L[inner].exit]
    BY <1>8, <1>9
  <2> HIDE DEF inner
  <2> QED  BY <1>7, <2>1 DEF MadeInside
<1> QED  BY <1>6, <1>10

\* The loop that has been found is redirected to that of obj.
LEMMA MadeFarther ==
  ASSUME NEW S, NEW NL, NEW L, NEW D, NEW f, NEW n, Finds(S, NL, L, D, f, n),
         NEW obj, obj = S[n].obj, obj # L[f].exit, NL[obj] # 0, ~Closer(f, NL[obj], L),
         NEW M, M = [L EXCEPT ![f].redirect = NL[obj]]
  PROVE  MadeLoops(S, NL, L, D, f, obj, NL, M) /\ MadeInside(L, D, f, NL[obj], NL, M, obj)
<1>0. FoundFacts(S, NL, L, D, f, n, obj, NL[obj])
  BY FindsFacts
<1> DEFINE inner == NL[obj]
<1>1. n \in Nat \ {0} /\ DOMAIN S = 1 .. n /\ NL \in [Node -> Nat] /\ D \in [Node -> Nat] /\ IsLoops(L)
      /\ f \in DOMAIN L /\ f \in Nat /\ L[f].redirect = 0
  BY <1>0 DEF Finds, NewlyFound, FoundFacts
<1>2. obj \in Node /\ inner \in DOMAIN L /\ L[inner].redirect = 0 /\ inner < f /\ inner \in Nat
  BY <1>0 DEF FoundFacts
<1>3. Nearer(L, inner, f)
  <2>1. L[inner].distance <= L[f].distance
    BY <1>0 DEF FoundFacts
  <2> QED  BY <1>1, <1>2, <2>1, LoopNumbers DEF Nearer
<1>4. /\ IsLoops(M) /\ DOMAIN M = DOMAIN L
      /\ \A l \in DOMAIN L : /\ M[l].exit = L[l].exit /\ M[l].distance = L[l].distance
                             /\ l # f => M[l].redirect = L[l].redirect
      /\ \A l \in DOMAIN L : OuterOf(M)[l] = IF OuterOf(L)[l] = f THEN inner ELSE OuterOf(L)[l]
  <2>1. f # inner
    BY <1>1, <1>2
  <2>2. M = [L EXCEPT ![f].redirect = inner]
    OBVIOUS
  <2> HIDE DEF inner
  <2>3. Unites(L, M, f, inner)
    BY <1>1, <1>2, <1>3, <2>1, <2>2, Redirected
  <2>4. OuterBecomes(L, M, f, inner)
    BY <1>1, <1>2, <2>1, <2>3, OuterUnited
  <2> QED  BY <2>3, <2>4 DEF Unites, OuterBecomes
<1>5. LoopsOfCalls(S, NL, M, D)
  <2>1. \E j \in 1 .. n : /\ M[inner].exit = S[j].obj
                          /\ M[inner].distance = IF j < n THEN D[S[j].obj] + 1 ELSE D[S[j].obj]
    <3>1. n \in DOMAIN S
      BY <1>1
    <3>2. \E j \in 1 .. n : /\ L[inner].exit = S[j].obj
                          /\ L[inner].distance = IF j < n THEN D[S[j].obj] + 1 ELSE D[S[j].obj]
      BY <1>1, <3>1 DEF Finds, LoopsOfCalls
    <3> QED  BY <1>2, <1>4, <3>2
  <2>2. \A j \in 1 .. n - 1 : NL[S[j].obj] < inner /\ NL[S[j].obj] < f
    BY <1>0 DEF FoundFacts
  <2>3. \A k \in 1 .. n - 1 : NL[S[k].obj] # 0 =>
          M[NL[S[k].obj]].redirect = L[NL[S[k].obj]].redirect
    <3> TAKE k \in 1 .. n - 1
    <3> HAVE NL[S[k].obj] # 0
    <3>1. NL[S[k].obj] \in DOMAIN L /\ NL[S[k].obj] < inner /\ NL[S[k].obj] \in Nat
      BY <1>1, <2>2, LoopNumbers DEF Finds, LoopsOfCalls
    <3> QED  BY <1>1, <1>2, <1>4, <3>1
  <2>4. NL = [NL EXCEPT ![S[n].obj] = inner] /\ DOMAIN L \subseteq DOMAIN M /\ inner \in DOMAIN M
    BY <1>1, <1>2, <1>4
  <2>5. M[inner].redirect = 0
    BY <1>1, <1>2, <1>4
  <2>6. \A l \in DOMAIN L : M[l].exit = L[l].exit /\ M[l].distance = L[l].distance
    BY <1>4
  <2> HIDE DEF inner
  <2>7. KeepsCalls(S, NL, L, D, n, NL, M, inner)
    BY <2>1, <2>2, <2>3, <2>4, <2>5, <2>6 DEF KeepsCalls
  <2> QED  BY <2>7, CallsKept
<1>6. MadeLoops(S, NL, L, D, f, obj, NL, M)
  BY <1>1, <1>2, <1>4, <1>5 DEF MadeLoops
<1>7. \A l \in DOMAIN L : OuterOf(M)[l] = IF OuterOf(L)[l] \in {f, inner} THEN NL[obj] ELSE OuterOf(L)[l]
  BY <1>4
<1>8. D[L[inner].exit] <= D[L[f].exit] /\ D[L[inner].exit] \in Nat
  <2>1. D[L[inner].exit] \in Nat
    BY <1>1, <1>2, LoopNumbers
  <2> QED  BY <1>0, <1>2, <2>1, LoopNumbers DEF FoundFacts
<1>9. M[NL[obj]].exit = L[inner].exit
  BY <1>2, <1>4
<1>10. MadeInside(L, D, f, inner, NL, M, obj)
  <2>1. D[M[NL[obj]].exit] <= D[L[f].exit] /\ D[M[NL[obj]].exit] <= D[L[inner].exit]
    BY <1>8, <1>9
  <2> HIDE DEF inner
  <2> QED  BY <1>7, <2>1 DEF MadeInside
<1> QED  BY <1>6, <1>10

\* All cases of Made.
LEMMA MadeCases ==
  ASSUME NEW S, NEW NL, NEW L, NEW D, NEW f, NEW n, Finds(S, NL, L, D, f, n),
         NEW obj, obj = S[n].obj, NEW NM, NEW M, Made(obj, f, NL, L, D, NM, M)
  PROVE  /\ MadeLoops(S, NL, L, D, f, obj, NM, M)
         /\ obj = L[f].exit => MadeAtExit(L, f, NL[obj], NM, M, obj)
         /\ obj # L[f].exit => MadeInside(L, D, f, NL[obj], NM, M, obj)
<1>0. FoundFacts(S, NL, L, D, f, n, obj, NL[obj])
  BY FindsFacts
<1>1. NL[obj] # f
  <2>1. NL[obj] < f /\ NL[obj] \in Nat /\ f \in Nat
    BY <1>0 DEF FoundFacts
  <2> QED  BY <2>1
<1> QED  BY <1>1, MadeOwn, MadeOther, MadeFirst, MadeCloser, MadeFarther DEF Made

\* Each place stays one.
LEMMA MadePlaces ==
  ASSUME NEW S, NEW NL, NEW L, NEW D, NEW f, NEW n, Finds(S, NL, L, D, f, n),
         NEW obj, obj = S[n].obj, NEW NM, NEW M, Made(obj, f, NL, L, D, NM, M),
         \A m \in Node : NL[m] # 0 => NL[m] \in DOMAIN L,
         NEW F \in DOMAIN L, NEW m \in Node, PlaceBefore(S, NL, L, D, f, F, m)
  PROVE  Place(S, NM, M, D, F, m)
<1>0. FoundFacts(S, NL, L, D, f, n, obj, NL[obj])
  BY FindsFacts
<1> DEFINE inner == NL[obj]
           R == OuterOf(L)[F]
<1>1. n \in Nat \ {0} /\ DOMAIN S = 1 .. n /\ n \in DOMAIN S /\ NL \in [Node -> Nat] /\ D \in [Node -> Nat]
      /\ IsLoops(L) /\ f \in DOMAIN L /\ L[f].redirect = 0
  BY DEF Finds, NewlyFound
<1>2. /\ obj \in Node /\ f \in Nat /\ inner \in Nat /\ f # 0 /\ inner < f
      /\ inner # 0 => inner \in DOMAIN L /\ L[inner].redirect = 0
      /\ \A k \in 1 .. n - 1 : /\ S[k].obj \in Node /\ S[k].obj # obj
                               /\ inner # 0 => NL[S[k].obj] < inner
                               /\ NL[S[k].obj] < f
  BY <1>0 DEF FoundFacts
<1>3. /\ MadeLoops(S, NL, L, D, f, obj, NM, M)
      /\ obj = L[f].exit => MadeAtExit(L, f, inner, NM, M, obj)
      /\ obj # L[f].exit => MadeInside(L, D, f, inner, NM, M, obj)
  BY MadeCases
<1>4. /\ IsLoops(M) /\ NM[obj] \in DOMAIN M /\ NM[obj] # 0
      /\ \A x \in Node : x # obj => NM[x] = NL[x]
      /\ DOMAIN L \subseteq DOMAIN M
      /\ \A l \in DOMAIN L : M[l].exit = L[l].exit
      /\ M[NM[obj]].redirect = 0
  <2>1. NM[obj] # 0
    BY <1>3, LoopNumbers DEF MadeLoops
  <2> QED  BY <1>1, <1>3, <2>1 DEF MadeLoops, LoopsOfCalls
<1>5. R \in DOMAIN L /\ L[R].redirect = 0 /\ R # 0 /\ R \in Nat
  BY <1>1, OuterIsLast, LoopNumbers
<1>6. OuterOf(L)[f] = f /\ (inner # 0 => OuterOf(L)[inner] = inner)
  BY <1>1, <1>2, OuterIsLast
<1>7. OuterOf(M)[NM[obj]] = NM[obj]
  BY <1>4, OuterIsLast
<1>8. \A k \in DOMAIN S : k = n \/ k \in 1 .. n - 1
  BY <1>1
\* Loops of calls below are others.
<1>9. \A k \in 1 .. n - 1 : /\ k \in DOMAIN S
                            /\ NM[S[k].obj] = NL[S[k].obj]
                            /\ NL[S[k].obj] # f
                            /\ NL[S[k].obj] # 0 => NL[S[k].obj] # inner
                            /\ NL[S[k].obj] \in Nat
  <2> TAKE k \in 1 .. n - 1
  <2>1. k \in DOMAIN S /\ S[k].obj \in Node /\ S[k].obj # obj /\ NL[S[k].obj] < f /\ NL[S[k].obj] \in Nat
    BY <1>1, <1>2
  <2>2. NL[S[k].obj] # 0 => NL[S[k].obj] # inner
    BY <1>2, <2>1
  <2> QED  BY <1>2, <1>4, <2>1, <2>2
<1>10. ASSUME obj = L[f].exit PROVE Place(S, NM, M, D, F, m)
  <2>1. /\ NM[obj] # f
        /\ \A l \in DOMAIN L : OuterOf(M)[l] = OuterOf(L)[l]
        /\ inner # 0 => NM[obj] = inner
        /\ inner = 0 => NM[obj] \notin DOMAIN L
    BY <1>3, <1>10 DEF MadeAtExit
  <2>2. OuterOf(M)[F] = R /\ M[R].exit = L[R].exit
    BY <1>4, <1>5, <2>1
  <2>3. CASE SamePlace(NL, L, F, m)
    <3>1. NL[m] # 0 /\ NM[m] = NL[m] /\ NL[m] \in DOMAIN L
      BY <1>4, <2>1, <2>3 DEF SamePlace
    <3>2. SamePlace(NM, M, F, m)
      BY <2>1, <2>2, <2>3, <3>1 DEF SamePlace
    <3> QED  BY <3>2 DEF Place
  <2>4. CASE ExitPlace(S, NL, L, F, m) /\ R # f
    <3>1. NL[m] # 0 /\ L[R].exit = m /\ \A k \in DOMAIN S : NL[S[k].obj] # R
      BY <2>4 DEF ExitPlace
    <3>2. NM[m] # 0
      BY <1>4, <3>1
    <3>3. NM[obj] # R
      BY <1>1, <1>5, <2>1, <3>1
    <3>4. \A k \in DOMAIN S : NM[S[k].obj] # R
      BY <1>8, <1>9, <3>1, <3>3
    <3>5. ExitPlace(S, NM, M, F, m)
      BY <2>2, <3>1, <3>2, <3>4 DEF ExitPlace
    <3> QED  BY <3>5 DEF Place
  <2>5. CASE LaterPlace(S, NL, L, D, F, m)
    <3>1. PICK j, k \in DOMAIN S : S[j].obj = m /\ j < k /\ NL[S[k].obj] = R /\ D[L[R].exit] <= D[m]
      BY <2>5 DEF LaterPlace
    <3>2. NM[S[k].obj] = R
      <4>1. CASE k = n
        BY <1>5, <2>1, <3>1, <4>1
      <4>2. CASE k # n
        BY <1>8, <1>9, <3>1, <4>2
      <4> QED  BY <4>1, <4>2
    <3>3. LaterPlace(S, NM, M, D, F, m)
      BY <2>2, <3>1, <3>2 DEF LaterPlace
    <3> QED  BY <3>3 DEF Place
  <2>6. CASE FoundPlace(S, L, D, f, F, m)
    <3>1. PICK j \in DOMAIN S : S[j].obj = m /\ D[L[f].exit] <= D[m]
      BY <2>6 DEF FoundPlace
    <3>2. R = f
      BY <2>6 DEF FoundPlace
    <3>3. j = n
      <4> SUFFICES ASSUME j # n PROVE FALSE
        OBVIOUS
      <4>1. j < n
        BY <1>1
      <4>2. D[S[j].obj] + 2 <= D[S[n].obj]
        BY <1>1, <4>1 DEF Finds, CallsDescend
      <4>3. D[m] \in Nat /\ D[obj] \in Nat
        BY <1>1, <1>2
      <4> QED  BY <1>10, <3>1, <4>2, <4>3
    <3>4. m = obj
      BY <3>1, <3>3
    <3>5. NM[m] # 0 /\ M[R].exit = m
      BY <1>4, <1>10, <2>2, <3>2, <3>4
    <3>6. \A k \in DOMAIN S : NM[S[k].obj] # R
      BY <1>8, <1>9, <2>1, <3>2
    <3>7. ExitPlace(S, NM, M, F, m)
      BY <2>2, <3>5, <3>6 DEF ExitPlace
    <3> QED  BY <3>7 DEF Place
  <2> QED  BY <2>3, <2>4, <2>5, <2>6 DEF PlaceBefore
<1>11. ASSUME obj # L[f].exit PROVE Place(S, NM, M, D, F, m)
  <2>1. /\ \A l \in DOMAIN L : OuterOf(M)[l] = IF OuterOf(L)[l] \in {f, inner} THEN NM[obj] ELSE OuterOf(L)[l]
        /\ D[M[NM[obj]].exit] <= D[L[f].exit]
        /\ inner # 0 => D[M[NM[obj]].exit] <= D[L[inner].exit]
    BY <1>3, <1>11 DEF MadeInside
  <2>2. OuterOf(M)[F] = IF R \in {f, inner} THEN NM[obj] ELSE R
    BY <2>1
  <2>3. CASE SamePlace(NL, L, F, m)
    <3>1. NL[m] # 0 /\ NL[m] \in DOMAIN L /\ OuterOf(L)[NL[m]] = R
      BY <2>3 DEF SamePlace
    <3>2. CASE m = obj
      <4>1. R = inner
        BY <1>6, <3>1, <3>2
      <4>2. SamePlace(NM, M, F, m)
        BY <1>4, <1>7, <2>2, <3>2, <4>1 DEF SamePlace
      <4> QED  BY <4>2 DEF Place
    <3>3. CASE m # obj
      <4>1. NM[m] = NL[m]
        BY <1>4, <3>3
      <4>2. SamePlace(NM, M, F, m)
        BY <2>1, <2>2, <3>1, <4>1 DEF SamePlace
      <4> QED  BY <4>2 DEF Place
    <3> QED  BY <3>2, <3>3
  <2>4. CASE ExitPlace(S, NL, L, F, m) /\ R # f
    <3>1. NL[m] # 0 /\ L[R].exit = m /\ \A k \in DOMAIN S : NL[S[k].obj] # R
      BY <2>4 DEF ExitPlace
    <3>2. NM[m] # 0 /\ R # inner
      BY <1>1, <1>4, <3>1
    <3>3. OuterOf(M)[F] = R /\ M[R].exit = m
      BY <1>4, <1>5, <2>2, <2>4, <3>1, <3>2
    <3>4. NM[obj] # R
      <4>1. OuterOf(M)[f] = NM[obj] /\ OuterOf(M)[R] = R
        <5>1. OuterOf(L)[R] = R
          BY <1>1, <1>5, OuterIsLast
        <5> QED  BY <1>1, <1>5, <1>6, <2>1, <2>4, <3>2, <5>1
      <4>2. NM = NL \/ NM[obj] = f
        BY <1>1, <1>2, <1>11 DEF Made
      <4> QED  BY <2>4, <3>2, <4>2
    <3>5. \A k \in DOMAIN S : NM[S[k].obj] # R
      BY <1>8, <1>9, <3>1, <3>4
    <3>6. ExitPlace(S, NM, M, F, m)
      BY <3>2, <3>3, <3>5 DEF ExitPlace
    <3> QED  BY <3>6 DEF Place
  <2>5. CASE LaterPlace(S, NL, L, D, F, m)
    <3>1. PICK j, k \in DOMAIN S : S[j].obj = m /\ j < k /\ NL[S[k].obj] = R /\ D[L[R].exit] <= D[m]
      BY <2>5 DEF LaterPlace
    <3>2. CASE k = n
      <4>1. R = inner /\ inner # 0
        BY <1>5, <3>1, <3>2
      <4>2. OuterOf(M)[F] = NM[obj] /\ NM[S[k].obj] = NM[obj]
        BY <2>2, <3>2, <4>1
      <4>3. D[M[NM[obj]].exit] <= D[m]
        <5>1. D[M[NM[obj]].exit] \in Nat /\ D[L[R].exit] \in Nat /\ D[m] \in Nat
          BY <1>1, <1>4, <1>5, LoopNumbers
        <5> QED  BY <2>1, <3>1, <4>1, <5>1
      <4>4. LaterPlace(S, NM, M, D, F, m)
        BY <3>1, <4>2, <4>3 DEF LaterPlace
      <4> QED  BY <4>4 DEF Place
    <3>3. CASE k # n
      <4>1. NM[S[k].obj] = R /\ R # f /\ R # inner
        BY <1>5, <1>8, <1>9, <3>1, <3>3
      <4>2. OuterOf(M)[F] = R /\ M[R].exit = L[R].exit
        BY <1>4, <1>5, <2>2, <4>1
      <4>3. LaterPlace(S, NM, M, D, F, m)
        BY <3>1, <4>1, <4>2 DEF LaterPlace
      <4> QED  BY <4>3 DEF Place
    <3> QED  BY <3>2, <3>3
  <2>6. CASE FoundPlace(S, L, D, f, F, m)
    <3>1. PICK j \in DOMAIN S : S[j].obj = m /\ D[L[f].exit] <= D[m]
      BY <2>6 DEF FoundPlace
    <3>2. R = f
      BY <2>6 DEF FoundPlace
    <3>3. OuterOf(M)[F] = NM[obj]
      BY <2>2, <3>2
    <3>4. CASE j = n
      <4>1. SamePlace(NM, M, F, m)
        BY <1>4, <1>7, <3>1, <3>3, <3>4 DEF SamePlace
      <4> QED  BY <4>1 DEF Place
    <3>5. CASE j # n
      <4>1. D[M[NM[obj]].exit] <= D[m]
        <5>1. D[M[NM[obj]].exit] \in Nat /\ D[L[f].exit] \in Nat /\ D[m] \in Nat
          BY <1>1, <1>4, LoopNumbers
        <5> QED  BY <2>1, <3>1, <5>1
      <4>2. j < n
        BY <1>1, <3>5
      <4>3. LaterPlace(S, NM, M, D, F, m)
        BY <1>1, <3>1, <3>3, <4>1, <4>2 DEF LaterPlace
      <4> QED  BY <4>3 DEF Place
    <3> QED  BY <3>4, <3>5
  <2> QED  BY <2>3, <2>4, <2>5, <2>6 DEF PlaceBefore
<1> QED  BY <1>10, <1>11

-----------------------------------------------------------------------------
(***************************************************************************)
(* The inductive invariant.                                                *)
(***************************************************************************)
FrameSet == [obj : Node, intf : Intfs \cup {None}, todo : SUBSET Intfs, max : Nat]

\* A sequence of calls stays one if a call of it changes.
LEMMA FrameChanged ==
  ASSUME NEW S, S \in Seq(FrameSet), NEW k, k \in 1 .. Len(S), NEW fr, fr \in FrameSet,
         NEW T, T = [S EXCEPT ![k] = fr]
  PROVE  T \in Seq(FrameSet) /\ Len(T) = Len(S)
OBVIOUS

Types ==
  /\ graph \in Topologies
  /\ phase \in {"search", "process", "done"}
  /\ stack \in Seq(FrameSet)
  /\ startDistance \in Nat
  /\ partitions \in SUBSET Zones
  /\ pending \in SUBSET Node
  /\ dist \in [Node -> Nat]
  /\ nodeLoop \in [Node -> Nat]
  /\ intfLoop \in [Intfs -> Nat]
  /\ nodeToZone1 \in [Node -> Intfs \cup {None}]
  /\ intfToZone1 \in [Intfs -> Node \cup {None}]
  /\ IsLoops(loops)
  /\ \A n \in Node : nodeLoop[n] # 0 => nodeLoop[n] \in DOMAIN loops
  /\ \A i \in Intfs : intfLoop[i] # 0 => intfLoop[i] \in DOMAIN loops

\* Interface i joins two nodes.
Joins(i, n, m) == n # m /\ i \in IntfList(n) /\ i \in IntfList(m)

\* Each call is one for a node next to that of its caller.
CallsJoined ==
  /\ stack # << >> => /\ phase = "search"
                      /\ stack[1].obj \in partitions /\ stack[1].intf = None
  /\ \A k \in DOMAIN stack : \A n \in Node : stack[k].obj = n =>
       /\ stack[k].todo \subseteq IntfList(n) \ {stack[k].intf}
       /\ nodeToZone1[n] = None
  /\ \A k \in DOMAIN stack : k > 1 =>
       \A n, m \in Node : \A i : n = stack[k].obj /\ m = stack[k - 1].obj /\ i = stack[k].intf =>
         Joins(i, n, m) /\ i \notin stack[k - 1].todo

\* Nodes that the search has reached, and those it has left again.
Reached(n) == Active(n) \/ nodeToZone1[n] # None \/ nodeLoop[n] # 0 \/ n \in partitions
Left(n) == Reached(n) /\ ~Active(n)

\* No interface is forgotten, and none leads back to a node that has been left.
NothingForgotten ==
  /\ \A i \in Intfs : \A n, m \in Node : Joins(i, n, m) =>
       /\ Left(n) => Reached(m)
       /\ intfLoop[i] # 0 => Reached(n)
  /\ \A k \in DOMAIN stack : \A i \in Intfs : \A n, m \in Node :
       stack[k].obj = n /\ Joins(i, n, m) =>
         /\ i \notin stack[k].todo => Reached(m)
         /\ i \in stack[k].todo /\ intfLoop[i] = 0 => ~Left(m)
  /\ \A j, k \in DOMAIN stack : \A i \in Intfs : \A n, m \in Node :
       stack[j].obj = n /\ stack[k].obj = m /\ Joins(i, n, m) =>
         (i \notin stack[j].todo /\ intfLoop[i] = 0 => i \notin stack[k].todo)

\* Loops of interfaces and loops of nodes belong together.
LoopsPlaced ==
  /\ \A n \in Node : \A i \in IntfList(n) :
       intfLoop[i] # 0 => Place(stack, nodeLoop, loops, dist, intfLoop[i], n)
  /\ \A n \in Node : nodeLoop[n] # 0 => \E i \in IntfList(n) : intfLoop[i] # 0

SearchInv ==
  /\ Types
  /\ CallsDescend(stack, dist) /\ CallsJoined
  /\ NothingForgotten
  /\ LoopsOfCalls(stack, nodeLoop, loops, dist)
  /\ LoopsPlaced

\* Two ends of an interface.
LEMMA TwoEnds ==
  ASSUME graph \in Topologies, NEW n \in Node, NEW i \in IntfList(n)
  PROVE  /\ i \in Intfs
         /\ Next1(n, i) \in Node
         /\ \A m \in Node : Joins(i, n, m) <=> m = Next1(n, i)
         /\ {n, Next1(n, i)} = {graph[i].router, graph[i].zone}
<1>1. i \in Intfs /\ graph[i].router \in Routers /\ graph[i].zone \in Zones
  BY TopologyAssumption DEF IntfList
<1>2. graph[i].router # graph[i].zone
  BY <1>1, TopologyAssumption
<1>3. n = graph[i].router \/ n = graph[i].zone
  BY DEF IntfList
<1> QED  BY <1>1, <1>2, <1>3 DEF IntfList, Next1, Node, Joins

LEMMA JoinsBoth ==
  \A i, n, m : Joins(i, n, m) <=> Joins(i, m, n)
BY DEF Joins

LEMMA IntfListIsSet ==
  \A n : IntfList(n) \in SUBSET Intfs
BY DEF IntfList

LEMMA GraphKept ==
  ASSUME graph' = graph
  PROVE  /\ \A n : IntfList(n)' = IntfList(n)
         /\ \A n, i : Next1(n, i)' = Next1(n, i)
         /\ \A i, n, m : Joins(i, n, m)' <=> Joins(i, n, m)
BY DEF IntfList, Next1, Joins

LEMMA SearchInit == Init => SearchInv
<1> SUFFICES ASSUME Init PROVE SearchInv
  OBVIOUS
<1>1. loops = << >> /\ DOMAIN loops = {} /\ stack = << >> /\ DOMAIN stack = {}
  BY DEF Init
<1>2. IsLoops(loops)
  <2>1. << >> \in Seq(LoopObject)
    OBVIOUS
  <2> QED  BY <1>1, <2>1 DEF IsLoops, Redirects
<1>3. << >> \in Seq(FrameSet)
  OBVIOUS
<1>4. Types
  BY <1>1, <1>2, <1>3 DEF Types, Init, Node
<1>5. CallsDescend(stack, dist)
  <2>1. DOMAIN stack = 1 .. 0
    BY <1>1
  <2> QED  BY <1>1, <2>1 DEF CallsDescend
<1>6. \A n \in Node : ~Reached(n)
  BY <1>1 DEF Init, Reached, Active
<1>7. \A n \in Node : \A i \in IntfList(n) : intfLoop[i] = 0
  BY IntfListIsSet DEF Init
<1>8. CallsJoined /\ NothingForgotten
  BY <1>1, <1>6, <1>7 DEF CallsJoined, NothingForgotten, Left, Joins
<1>9. LoopsOfCalls(stack, nodeLoop, loops, dist)
  BY <1>1 DEF LoopsOfCalls
<1>10. LoopsPlaced
  BY <1>7 DEF LoopsPlaced, Init
<1> QED  BY <1>4, <1>5, <1>8, <1>9, <1>10 DEF SearchInv

-----------------------------------------------------------------------------
(***************************************************************************)
(* Each loop ends at a node of the same loop or of one nearer to zone1.    *)
(***************************************************************************)
\* The exit of loop l has a loop itself.
KnownExit(L, NL, l) ==
  NL[L[l].exit] # 0 /\ (NL[L[l].exit] = l \/ Nearer(L, NL[L[l].exit], l))

\* Exit of a loop that has still to be returned to it.
OpenExit(IL, L, D, l) ==
  D[L[l].exit] < L[l].distance /\ \E i \in IntfList(L[l].exit) : IL[i] # 0

LoopsEnd ==
  /\ \A n \in Node : nodeLoop[n] # 0 => loops[nodeLoop[n]].distance <= dist[n]
  /\ \A l \in DOMAIN loops : OpenExit(intfLoop, loops, dist, l) \/ KnownExit(loops, nodeLoop, l)

LEMMA NearerIsTransitive ==
  ASSUME NEW L, IsLoops(L), NEW a \in DOMAIN L, NEW b \in DOMAIN L, NEW c \in DOMAIN L,
         Nearer(L, a, b), Nearer(L, b, c)
  PROVE  Nearer(L, a, c)
<1>1. /\ a \in Nat /\ b \in Nat /\ c \in Nat
      /\ L[a].distance \in Nat /\ L[b].distance \in Nat /\ L[c].distance \in Nat
  BY LoopNumbers
<1> QED  BY <1>1 DEF Nearer

\* The outer loop is the same or nearer.
LEMMA OuterIsNearer ==
  ASSUME NEW L, IsLoops(L), NEW l \in DOMAIN L
  PROVE  OuterOf(L)[l] = l \/ Nearer(L, OuterOf(L)[l], l)
<1> DEFINE Good(k) == OuterOf(L)[k] = k \/ Nearer(L, OuterOf(L)[k], k)
           B == {k \in DOMAIN L : ~Good(k)}
<1>1. B = {}
  <2> SUFFICES ASSUME B # {} PROVE FALSE
    OBVIOUS
  <2>1. PICK k \in B : L[k].redirect \notin B
    BY LeavesSet
  <2>2. k \in DOMAIN L /\ ~Good(k)
    OBVIOUS
  <2>3. L[k].redirect # 0
    BY <2>2, OuterIsLast
  <2>4. L[k].redirect \in DOMAIN L /\ Nearer(L, L[k].redirect, k)
    BY <2>2, <2>3 DEF IsLoops, Redirects, Nearer
  <2>5. Good(L[k].redirect)
    BY <2>1, <2>4
  <2>6. OuterOf(L)[k] = OuterOf(L)[L[k].redirect] /\ OuterOf(L)[k] \in DOMAIN L
    BY <2>2, <2>3, OuterIsLast
  <2> QED  BY <2>2, <2>4, <2>5, <2>6, NearerIsTransitive
<1> QED  BY <1>1

-----------------------------------------------------------------------------
\* Above is the sequence of calls when node x is called for interface i.
Above(above, x, i) ==
  LET c == Len(stack) IN
  /\ above \in Seq(FrameSet) /\ Len(above) = c
  /\ \A k \in 1 .. c : /\ above[k].obj = stack[k].obj /\ above[k].intf = stack[k].intf
                       /\ above[k].todo = IF k = c THEN stack[k].todo \ {i} ELSE stack[k].todo
  /\ \/ c = 0 /\ i = None /\ x \in partitions'
     \/ c # 0 /\ i \in stack[c].todo /\ Joins(i, x, stack[c].obj)

LEMMA NewCall ==
  ASSUME SearchInv, phase = "search", NEW above, NEW x \in Node, NEW i, NEW d \in Nat,
         Above(above, x, i), ~Reached(x),
         Call(above, x, i, d),
         stack # << >> => dist[stack[Len(stack)].obj] + 2 <= d,
         UNCHANGED <<graph, phase, nodeLoop, nodeToZone1, intfLoop, intfToZone1, loops, pending, startDistance>>,
         partitions' \in SUBSET Zones, partitions \subseteq partitions', partitions' \subseteq partitions \cup {x}
  PROVE  SearchInv' /\ (LoopsEnd => LoopsEnd')
<1> DEFINE c == Len(stack)
           fr == Frame(x, i, d)
<1>1. Types /\ stack \in Seq(FrameSet) /\ DOMAIN stack = 1 .. c /\ c \in Nat
  BY DEF SearchInv, Types
<1>0. /\ \A k \in 1 .. c : stack[k] \in FrameSet
      /\ c # 0 <=> stack # << >>
      /\ c # 0 => dist[stack[c].obj] + 2 <= d
  BY <1>1
<1>2. /\ above \in Seq(FrameSet) /\ Len(above) = c
      /\ \A k \in 1 .. c : /\ above[k].obj = stack[k].obj /\ above[k].intf = stack[k].intf
                           /\ above[k].todo = IF k = c THEN stack[k].todo \ {i} ELSE stack[k].todo
      /\ \/ c = 0 /\ i = None /\ x \in partitions'
         \/ c # 0 /\ i \in stack[c].todo /\ Joins(i, x, stack[c].obj)
  BY DEF Above
<1> HIDE DEF c
<1>3. stack' = Append(above, fr) /\ dist' = [dist EXCEPT ![x] = d]
  BY DEF Call
<1>4. fr \in FrameSet /\ fr.obj = x /\ fr.intf = i /\ fr.todo = IntfList(x) \ {i}
  <2>1. i \in Intfs \cup {None} /\ IntfList(x) \ {i} \in SUBSET Intfs
    BY <1>2, IntfListIsSet DEF Joins
  <2> QED  BY <2>1 DEF Frame, FrameSet
<1> HIDE DEF fr
<1>5. /\ stack' \in Seq(FrameSet) /\ DOMAIN stack' = 1 .. c + 1 /\ stack'[c + 1] = fr
      /\ \A k \in 1 .. c : stack'[k] = above[k]
  <2>1. above \in Seq(FrameSet) /\ DOMAIN above = 1 .. c /\ Len(above) = c /\ c \in Nat
    BY <1>1, <1>2
  <2> QED  BY <1>3, <1>4, <2>1
<1>6. /\ stack'[c + 1].obj = x /\ stack'[c + 1].intf = i /\ stack'[c + 1].todo = IntfList(x) \ {i}
      /\ \A k \in 1 .. c : /\ stack'[k].obj = stack[k].obj /\ stack'[k].intf = stack[k].intf
                           /\ stack'[k].todo = IF k = c THEN stack[k].todo \ {i} ELSE stack[k].todo
                           /\ stack[k].obj \in Node /\ stack[k].obj # x
  <2>1. \A k \in 1 .. c : stack[k].obj \in Node
    BY <1>0 DEF FrameSet
  <2>2. \A k \in 1 .. c : stack[k].obj # x
    <3>1. ~Active(x)
      BY DEF Reached
    <3> QED  BY <1>1, <3>1 DEF Active
  <2>3. stack'[c + 1].obj = x /\ stack'[c + 1].intf = i /\ stack'[c + 1].todo = IntfList(x) \ {i}
    BY <1>4, <1>5
  <2>4. \A k \in 1 .. c : /\ stack'[k].obj = stack[k].obj /\ stack'[k].intf = stack[k].intf
                          /\ stack'[k].todo = IF k = c THEN stack[k].todo \ {i} ELSE stack[k].todo
    <3> TAKE k \in 1 .. c
    <3>1. stack'[k] = above[k]
      BY <1>5
    <3> QED  BY <1>2, <3>1
  <2> QED  BY <2>1, <2>2, <2>3, <2>4
<1>7. \A k \in DOMAIN stack' : k = c + 1 \/ k \in 1 .. c
  BY <1>1, <1>5
<1>8. dist \in [Node -> Nat] /\ dist' \in [Node -> Nat] /\ dist'[x] = d /\ \A n \in Node : n # x => dist'[n] = dist[n]
  BY <1>1, <1>3 DEF Types
<1>9. nodeLoop[x] = 0 /\ nodeToZone1[x] = None /\ x \notin partitions
  BY DEF Reached
<1>10. /\ graph \in Topologies
       /\ \A n : IntfList(n)' = IntfList(n)
       /\ \A j, n, m : Joins(j, n, m)' <=> Joins(j, n, m)
  BY <1>1, GraphKept DEF Types
<1>11. Types'
  BY <1>1, <1>5, <1>8 DEF Types
<1>12. CallsDescend(stack, dist)'
  <2>1. \A k \in 1 .. c : dist[stack[k].obj] + 2 <= d
    <3> TAKE k \in 1 .. c
    <3>1. c # 0 /\ c \in DOMAIN stack /\ k \in DOMAIN stack
      BY <1>1
    <3>2. dist[stack[c].obj] + 2 <= d
      BY <1>0, <3>1
    <3>3. CASE k = c
      BY <3>2, <3>3
    <3>4. CASE k # c
      <4>1. k < c
        BY <1>1, <3>4
      <4>2. dist[stack[k].obj] + 2 <= dist[stack[c].obj]
        <5>1. CallsDescend(stack, dist)
          BY DEF SearchInv
        <5> QED  BY <3>1, <4>1, <5>1 DEF CallsDescend
      <4>3. dist[stack[k].obj] \in Nat /\ dist[stack[c].obj] \in Nat
        <5>1. dist \in [Node -> Nat]
          BY <1>1 DEF Types
        <5>2. stack[k] \in FrameSet /\ stack[c] \in FrameSet
          BY <1>0, <1>1, <3>1
        <5> QED  BY <5>1, <5>2 DEF FrameSet
      <4>4. PICK a \in Nat, b \in Nat : a = dist[stack[k].obj] /\ b = dist[stack[c].obj]
        BY <4>3
      <4>5. a + 2 <= b /\ b + 2 <= d
        BY <3>2, <4>2, <4>4
      <4>6. a + 2 <= d
        BY <1>0, <4>5
      <4> QED  BY <4>4, <4>6
    <3> QED  BY <3>3, <3>4
  <2>2. ASSUME NEW j \in DOMAIN stack', NEW k \in DOMAIN stack', j < k
        PROVE  dist'[stack'[j].obj] + 2 <= dist'[stack'[k].obj]
    <3>1. j \in 1 .. c
      BY <1>1, <1>5, <2>2
    <3>2. dist'[stack'[j].obj] = dist[stack[j].obj]
      BY <1>6, <1>8, <3>1
    <3>3. CASE k = c + 1
      BY <1>6, <1>8, <2>1, <3>1, <3>2, <3>3
    <3>4. CASE k \in 1 .. c
      <4>1. dist'[stack'[k].obj] = dist[stack[k].obj]
        BY <1>6, <1>8, <3>4
      <4>2. dist[stack[j].obj] + 2 <= dist[stack[k].obj]
        BY <1>1, <2>2, <3>1, <3>4 DEF SearchInv, CallsDescend
      <4> QED  BY <3>2, <4>1, <4>2
    <3> QED  BY <1>7, <3>3, <3>4
  <2>3. DOMAIN stack' = 1 .. c + 1 /\ c + 1 \in Nat
    BY <1>1, <1>5
  <2>4. \A k \in DOMAIN stack' : stack'[k].obj \in Node
    BY <1>6, <1>7
  <2> QED  BY <2>2, <2>3, <2>4 DEF CallsDescend
<1>13. CallsJoined'
  <2>1. phase' = "search"
    OBVIOUS
  <2>2. stack'[1].obj \in partitions' /\ stack'[1].intf = None
    <3>1. CASE c = 0
      BY <1>2, <1>6, <3>1
    <3>2. CASE c # 0
      <4>1. 1 \in 1 .. c /\ stack # << >>
        BY <1>0, <1>1, <3>2
      <4> QED  BY <1>6, <4>1 DEF SearchInv, CallsJoined
    <3> QED  BY <3>1, <3>2
  <2>3. ASSUME NEW k \in DOMAIN stack', NEW n \in Node, stack'[k].obj = n
        PROVE  stack'[k].todo \subseteq IntfList(n)' \ {stack'[k].intf} /\ nodeToZone1'[n] = None
    <3>1. CASE k = c + 1
      BY <1>6, <1>9, <1>10, <2>3, <3>1
    <3>2. CASE k \in 1 .. c
      <4>1. stack[k].todo \subseteq IntfList(n) \ {stack[k].intf} /\ nodeToZone1[n] = None
        BY <1>1, <1>6, <2>3, <3>2 DEF SearchInv, CallsJoined
      <4> QED  BY <1>6, <1>10, <3>2, <4>1
    <3> QED  BY <1>7, <3>1, <3>2
  <2>4. ASSUME NEW k \in DOMAIN stack', k > 1, NEW n \in Node, NEW m \in Node, NEW j,
               n = stack'[k].obj, m = stack'[k - 1].obj, j = stack'[k].intf
        PROVE  Joins(j, n, m)' /\ j \notin stack'[k - 1].todo
    <3>1. CASE k = c + 1
      <4>1. c # 0 /\ c \in 1 .. c /\ k - 1 = c
        BY <1>1, <2>4, <3>1
      <4>2. Joins(i, x, stack[c].obj)
        BY <1>2, <4>1
      <4>3. n = x /\ j = i /\ m = stack[c].obj /\ stack'[k - 1].todo = stack[c].todo \ {i}
        BY <1>6, <2>4, <3>1, <4>1
      <4> QED  BY <1>10, <4>2, <4>3
    <3>2. CASE k \in 1 .. c
      <4>1. k - 1 \in 1 .. c /\ k \in DOMAIN stack
        BY <1>1, <2>4, <3>2
      <4>2. n = stack[k].obj /\ m = stack[k - 1].obj /\ j = stack[k].intf
        BY <1>6, <2>4, <3>2, <4>1
      <4>3. Joins(j, n, m) /\ j \notin stack[k - 1].todo
        BY <2>4, <4>1, <4>2 DEF SearchInv, CallsJoined
      <4> QED  BY <1>6, <1>10, <4>1, <4>3
    <3> QED  BY <1>7, <3>1, <3>2
  <2> QED  BY <2>1, <2>2, <2>3, <2>4 DEF CallsJoined
<1>14. /\ \A n : Active(n)' <=> Active(n) \/ n = x
       /\ \A n \in Node : Reached(n)' <=> Reached(n) \/ n = x
       /\ \A n \in Node : Left(n)' <=> Left(n)
  <2>1. \A n : Active(n)' <=> Active(n) \/ n = x
    <3> TAKE n
    <3>1. Active(n) => Active(n)'
      <4> SUFFICES ASSUME NEW k \in DOMAIN stack, stack[k].obj = n PROVE Active(n)'
        BY DEF Active
      <4>1. k \in 1 .. c /\ k \in DOMAIN stack'
        BY <1>1, <1>5
      <4>2. stack'[k].obj = n
        BY <1>6, <4>1
      <4> QED  BY <4>1, <4>2 DEF Active
    <3>2. n = x => Active(n)'
      <4>1. c + 1 \in DOMAIN stack'
        BY <1>1, <1>5
      <4> QED  BY <1>6, <4>1 DEF Active
    <3>3. Active(n)' => Active(n) \/ n = x
      BY <1>1, <1>6, <1>7 DEF Active
    <3> QED  BY <3>1, <3>2, <3>3
  <2>2. \A n \in Node : Reached(n)' <=> Reached(n) \/ n = x
    BY <2>1 DEF Reached
  <2> QED  BY <2>1, <2>2 DEF Left
<1>15. NothingForgotten'
  <2>1. ASSUME NEW j \in Intfs, NEW n \in Node, NEW m \in Node, Joins(j, n, m)
        PROVE  /\ Left(n) => Reached(m)
               /\ intfLoop[j] # 0 => Reached(n)
    BY <2>1 DEF SearchInv, NothingForgotten
  <2>2. ASSUME NEW j \in Intfs, NEW n \in Node, NEW m \in Node, Joins(j, n, m)'
        PROVE  /\ Left(n)' => Reached(m)'
               /\ intfLoop'[j] # 0 => Reached(n)'
    BY <1>10, <1>14, <2>1, <2>2
  <2>3. ASSUME NEW k \in 1 .. c, NEW j \in Intfs, NEW n \in Node, NEW m \in Node,
               stack[k].obj = n, Joins(j, n, m)
        PROVE  /\ j \notin stack[k].todo => Reached(m)
               /\ j \in stack[k].todo /\ intfLoop[j] = 0 => ~Left(m)
    BY <1>1, <2>3 DEF SearchInv, NothingForgotten
  <2>4. ASSUME NEW k \in DOMAIN stack', NEW j \in Intfs, NEW n \in Node, NEW m \in Node,
               stack'[k].obj = n, Joins(j, n, m)'
        PROVE  /\ j \notin stack'[k].todo => Reached(m)'
               /\ j \in stack'[k].todo /\ intfLoop'[j] = 0 => ~Left(m)'
    <3>1. Joins(j, n, m)
      BY <1>10, <2>4
    <3>2. CASE k = c + 1
      <4>1. n = x /\ stack'[k].todo = IntfList(x) \ {i}
        BY <1>6, <2>4, <3>2
      <4>2. ~Left(m)
        BY <2>1, <3>1, <4>1, JoinsBoth
      <4>3. j \notin stack'[k].todo => j = i
        BY <3>1, <4>1 DEF Joins
      <4>4. j = i => Reached(m)
        <5> SUFFICES ASSUME j = i PROVE Reached(m)
          OBVIOUS
        <5>1. c # 0 /\ Joins(i, x, stack[c].obj)
          BY <1>2, TopologyAssumption
        <5>2. c \in 1 .. c
          BY <1>1, <5>1
        <5>3. m = stack[c].obj
          <6>1. i \in IntfList(x) /\ stack[c].obj \in Node
            BY <1>6, <5>1, <5>2 DEF Joins
          <6> QED  BY <1>10, <3>1, <4>1, <5>1, <6>1, TwoEnds
        <5> QED  BY <1>1, <5>2, <5>3 DEF Reached, Active
      <4> QED  BY <1>14, <4>2, <4>3, <4>4
    <3>3. CASE k \in 1 .. c
      <4>1. stack[k].obj = n /\ stack'[k].todo = IF k = c THEN stack[k].todo \ {i} ELSE stack[k].todo
        BY <1>6, <2>4, <3>3
      <4>2. /\ j \notin stack[k].todo => Reached(m)
            /\ j \in stack[k].todo /\ intfLoop[j] = 0 => ~Left(m)
        BY <2>3, <3>1, <3>3, <4>1
      <4>3. j = i /\ k = c => m = x
        <5> SUFFICES ASSUME j = i, k = c PROVE m = x
          OBVIOUS
        <5>1. Joins(i, x, stack[c].obj)
          BY <1>1, <1>2, <3>3
        <5>2. Joins(i, n, x) /\ i \in IntfList(n)
          BY <4>1, <5>1, JoinsBoth DEF Joins
        <5> QED  BY <1>10, <3>1, <5>2, TwoEnds
      <4> QED  BY <1>14, <4>1, <4>2, <4>3
    <3> QED  BY <1>7, <3>2, <3>3
  <2>5. ASSUME NEW k \in DOMAIN stack', NEW l \in DOMAIN stack',
               NEW j \in Intfs, NEW n \in Node, NEW m \in Node,
               stack'[k].obj = n, stack'[l].obj = m, Joins(j, n, m)',
               j \notin stack'[k].todo, intfLoop'[j] = 0
        PROVE  j \notin stack'[l].todo
    <3>1. Joins(j, n, m) /\ intfLoop[j] = 0 /\ n # m
      BY <1>10, <2>5 DEF Joins
    <3>2. CASE k = c + 1
      <4>1. n = x /\ j = i
        <5>1. n = x /\ j \notin IntfList(x) \ {i}
          BY <1>6, <2>5, <3>2
        <5> QED  BY <3>1, <5>1 DEF Joins
      <4>2. c # 0 /\ c \in 1 .. c /\ Joins(i, x, stack[c].obj) /\ stack[c].obj \in Node /\ i \in IntfList(x)
        <5>1. i \in Intfs /\ i # None
          BY <4>1, TopologyAssumption
        <5>2. c # 0 /\ Joins(i, x, stack[c].obj)
          BY <1>2, <5>1
        <5>3. c \in 1 .. c
          BY <1>1, <5>2
        <5> QED  BY <1>6, <5>2, <5>3 DEF Joins
      <4>3. m = stack[c].obj
        BY <1>10, <3>1, <4>1, <4>2, TwoEnds
      <4>4. l = c
        <5>1. l \in 1 .. c /\ stack[l].obj = stack[c].obj
          BY <1>6, <1>7, <2>5, <3>1, <4>1, <4>3
        <5>2. l = c
          <6> SUFFICES ASSUME l # c PROVE FALSE
            OBVIOUS
          <6>1. l < c
            BY <1>1, <5>1
          <6>2. dist[stack[l].obj] + 2 <= dist[stack[c].obj]
            BY <1>1, <4>2, <5>1, <6>1 DEF SearchInv, CallsDescend
          <6>3. dist[stack[c].obj] \in Nat
            BY <1>8, <4>2
          <6> QED  BY <5>1, <6>2, <6>3
        <5> QED  BY <5>2
      <4> QED  BY <1>6, <4>1, <4>2, <4>4
    <3>3. CASE k \in 1 .. c /\ l = c + 1
      <4>1. m = x /\ stack[k].obj = n
        BY <1>6, <2>5, <3>3
      <4>2. ~(j \notin stack[k].todo)
        BY <2>3, <3>1, <3>3, <4>1
      <4>3. j = i
        BY <1>6, <2>5, <3>3, <4>2
      <4> QED  BY <1>6, <3>3, <4>3
    <3>4. CASE k \in 1 .. c /\ l \in 1 .. c
      <4>1. stack[k].obj = n /\ stack[l].obj = m
        BY <1>6, <2>5, <3>4
      <4>2. j \notin stack[k].todo => j \notin stack[l].todo
        BY <1>1, <3>1, <3>4, <4>1 DEF SearchInv, NothingForgotten
      <4>3. CASE j \notin stack[k].todo
        BY <1>6, <3>4, <4>2, <4>3
      <4>4. CASE j \in stack[k].todo
        <5>1. j = i /\ k = c
          BY <1>6, <2>5, <3>4, <4>4
        <5>2. Joins(i, x, stack[c].obj)
          <6>1. c # 0
            BY <1>1, <3>4
          <6> QED  BY <1>2, <6>1
        <5>3. Joins(i, n, x) /\ i \in IntfList(n)
          BY <4>1, <5>1, <5>2, JoinsBoth DEF Joins
        <5>4. m = x
          BY <1>10, <3>1, <5>1, <5>3, TwoEnds
        <5> QED  BY <1>6, <3>4, <4>1, <5>4
      <4> QED  BY <4>3, <4>4
    <3> QED  BY <1>7, <3>2, <3>3, <3>4
  <2> QED  BY <2>2, <2>4, <2>5 DEF NothingForgotten
<1>16. LoopsOfCalls(stack, nodeLoop, loops, dist)'
  <2> SUFFICES ASSUME NEW k \in DOMAIN stack', nodeLoop[stack'[k].obj] # 0
               PROVE  /\ nodeLoop[stack'[k].obj] \in DOMAIN loops
                      /\ loops[nodeLoop[stack'[k].obj]].redirect = 0
                      /\ \E j \in 1 .. k :
                           /\ loops[nodeLoop[stack'[k].obj]].exit = stack'[j].obj
                           /\ loops[nodeLoop[stack'[k].obj]].distance =
                                IF j < k THEN dist'[stack'[j].obj] + 1 ELSE dist'[stack'[j].obj]
                      /\ \A j \in 1 .. k - 1 : nodeLoop[stack'[j].obj] < nodeLoop[stack'[k].obj]
    BY DEF LoopsOfCalls
  <2>1. k \in 1 .. c
    BY <1>6, <1>7, <1>9
  <2>2. /\ \A j \in 1 .. k : j \in 1 .. c
        /\ \A j \in 1 .. k - 1 : j \in 1 .. c
    BY <1>1, <2>1
  <2>3. stack'[k].obj = stack[k].obj
    BY <1>6, <2>1
  <2>4. /\ nodeLoop[stack[k].obj] \in DOMAIN loops
        /\ loops[nodeLoop[stack[k].obj]].redirect = 0
        /\ \E j \in 1 .. k :
             /\ loops[nodeLoop[stack[k].obj]].exit = stack[j].obj
             /\ loops[nodeLoop[stack[k].obj]].distance =
                  IF j < k THEN dist[stack[j].obj] + 1 ELSE dist[stack[j].obj]
        /\ \A j \in 1 .. k - 1 : nodeLoop[stack[j].obj] < nodeLoop[stack[k].obj]
    BY <1>1, <2>1, <2>3 DEF SearchInv, LoopsOfCalls
  <2>5. \A j \in 1 .. c : stack'[j].obj = stack[j].obj /\ dist'[stack'[j].obj] = dist[stack[j].obj]
    BY <1>6, <1>8
  <2> QED  BY <2>2, <2>3, <2>4, <2>5
<1>17. LoopsPlaced'
  <2>1. ASSUME NEW n \in Node, NEW j \in IntfList(n), intfLoop[j] # 0
        PROVE  Place(stack', nodeLoop, loops, dist', intfLoop[j], n)
    <3> DEFINE F == intfLoop[j]
               R == OuterOf(loops)[F]
    <3>1. Place(stack, nodeLoop, loops, dist, F, n)
      BY <2>1 DEF SearchInv, LoopsPlaced
    <3>2. F \in DOMAIN loops /\ IsLoops(loops)
      BY <1>1, <2>1, IntfListIsSet DEF Types
    <3>3. R \in DOMAIN loops /\ R # 0
      BY <3>2, OuterIsLast, LoopNumbers
    <3> HIDE DEF F
    <3>4. CASE SamePlace(nodeLoop, loops, F, n)
      BY <3>4 DEF Place, F
    <3>5. CASE ExitPlace(stack, nodeLoop, loops, F, n)
      <4>1. nodeLoop[n] # 0 /\ loops[R].exit = n /\ \A k \in DOMAIN stack : nodeLoop[stack[k].obj] # R
        BY <3>5 DEF ExitPlace
      <4>2. \A k \in DOMAIN stack' : nodeLoop[stack'[k].obj] # R
        BY <1>1, <1>6, <1>7, <1>9, <3>3, <4>1
      <4>3. ExitPlace(stack', nodeLoop, loops, F, n)
        BY <4>1, <4>2 DEF ExitPlace
      <4> QED  BY <4>3 DEF Place, F
    <3>6. CASE LaterPlace(stack, nodeLoop, loops, dist, F, n)
      <4>1. PICK k, l \in DOMAIN stack : stack[k].obj = n /\ k < l /\ nodeLoop[stack[l].obj] = R
                                         /\ dist[loops[R].exit] <= dist[n]
        BY <3>6 DEF LaterPlace
      <4>2. k \in 1 .. c /\ l \in 1 .. c /\ k \in DOMAIN stack' /\ l \in DOMAIN stack'
        BY <1>1, <1>5, <4>1
      <4>3. stack'[k].obj = n /\ nodeLoop[stack'[l].obj] = R /\ n # x
        BY <1>6, <4>1, <4>2
      <4>4. loops[R].exit # x
        <5>1. \E q \in 1 .. l : loops[R].exit = stack[q].obj
          BY <3>3, <4>1 DEF SearchInv, LoopsOfCalls
        <5>2. \A q \in 1 .. l : q \in 1 .. c
          BY <1>1, <4>2
        <5> QED  BY <1>6, <5>1, <5>2
      <4>5. dist'[loops[R].exit] <= dist'[n]
        BY <1>8, <3>2, <3>3, <4>1, <4>3, <4>4, LoopNumbers
      <4>6. LaterPlace(stack', nodeLoop, loops, dist', F, n)
        BY <4>1, <4>2, <4>3, <4>5 DEF LaterPlace
      <4> QED  BY <4>6 DEF Place, F
    <3> QED  BY <3>1, <3>4, <3>5, <3>6 DEF Place
  <2>2. \A n \in Node : nodeLoop[n] # 0 => \E j \in IntfList(n) : intfLoop[j] # 0
    BY DEF SearchInv, LoopsPlaced
  <2> QED  BY <1>10, <2>1, <2>2 DEF LoopsPlaced
<1>18. LoopsEnd => LoopsEnd'
  <2> SUFFICES ASSUME LoopsEnd PROVE LoopsEnd'
    OBVIOUS
  <2>1. \A m \in Node : nodeLoop[m] # 0 => loops[nodeLoop[m]].distance <= dist'[m]
    BY <1>8, <1>9 DEF LoopsEnd
  <2>2. ASSUME NEW l \in DOMAIN loops
        PROVE  \/ dist'[loops[l].exit] < loops[l].distance /\ \E j \in IntfList(loops[l].exit) : intfLoop[j] # 0
               \/ KnownExit(loops, nodeLoop, l)
    <3>1. OpenExit(intfLoop, loops, dist, l) \/ KnownExit(loops, nodeLoop, l)
      BY DEF LoopsEnd
    <3>2. CASE OpenExit(intfLoop, loops, dist, l)
      <4>1. loops[l].exit \in Node
        BY <1>1, LoopNumbers DEF Types
      <4>2. PICK j \in IntfList(loops[l].exit) : intfLoop[j] # 0
        BY <3>2 DEF OpenExit
      <4>3. PICK m \in Node : Joins(j, loops[l].exit, m) /\ j \in Intfs
        BY <1>10, <4>1, TwoEnds
      <4>4. Reached(loops[l].exit)
        BY <4>1, <4>2, <4>3 DEF SearchInv, NothingForgotten
      <4>5. dist'[loops[l].exit] = dist[loops[l].exit]
        BY <1>8, <4>1, <4>4
      <4> QED  BY <3>2, <4>5 DEF OpenExit
    <3> QED  BY <3>1, <3>2
  <2> QED  BY <1>10, <2>1, <2>2 DEF LoopsEnd, OpenExit, IntfList
<1> QED  BY <1>11, <1>12, <1>13, <1>15, <1>16, <1>17, <1>18 DEF SearchInv

LEMMA NewPartitionKeeps ==
  ASSUME SearchInv, NEW z \in Zones, NewPartition(z)
  PROVE  SearchInv' /\ (LoopsEnd => LoopsEnd')
<1> DEFINE none == << >>
<1>1. /\ phase = "search" /\ stack = none /\ z \notin partitions
      /\ nodeToZone1[z] = None /\ nodeLoop[z] = 0
      /\ Call(none, z, None, startDistance)
      /\ partitions' = partitions \cup {z}
      /\ UNCHANGED <<graph, phase, nodeLoop, nodeToZone1, intfLoop, intfToZone1, loops, pending, startDistance>>
  BY DEF NewPartition, intfVars
<1>2. z \in Node /\ startDistance \in Nat /\ partitions \in SUBSET Zones /\ IsLoops(loops)
  BY DEF SearchInv, Types, Node
<1>3. Above(none, z, None)
  <2>1. Len(stack) = 0 /\ none \in Seq(FrameSet) /\ Len(none) = 0
    BY <1>1
  <2> QED  BY <1>1, <2>1 DEF Above
<1>4. ~Reached(z)
  <2>1. DOMAIN stack = {}
    BY <1>1
  <2> QED  BY <1>1, <2>1 DEF Reached, Active
<1>5. partitions' \in SUBSET Zones /\ partitions \subseteq partitions' /\ partitions' \subseteq partitions \cup {z}
  BY <1>1, <1>2
<1> HIDE DEF none
<1>6. stack # << >> => dist[stack[Len(stack)].obj] + 2 <= startDistance
  BY <1>1 DEF none
<1> QED  BY <1>1, <1>2, <1>3, <1>4, <1>5, <1>6, NewCall

LEMMA DescendKeeps ==
  ASSUME SearchInv, NEW i \in Intfs, Descend(i)
  PROVE  SearchInv' /\ (LoopsEnd => LoopsEnd')
<1> DEFINE c == Len(stack)
           n == stack[c].obj
           x == Next1(n, i)
           above == [stack EXCEPT ![c].todo = @ \ {i}]
<1>1. /\ stack # << >> /\ i \in stack[c].todo /\ intfLoop[i] = 0 /\ ~Active(x)
      /\ Call(above, x, i, dist[n] + 2)
      /\ UNCHANGED <<graph, phase, partitions, nodeLoop, nodeToZone1, intfLoop, intfToZone1, loops, pending, startDistance>>
  BY DEF Descend, Top, intfVars
<1>2. /\ stack \in Seq(FrameSet) /\ graph \in Topologies /\ dist \in [Node -> Nat] /\ partitions \in SUBSET Zones
  BY DEF SearchInv, Types
<1>3. DOMAIN stack = 1 .. c /\ c \in Nat \ {0} /\ c \in DOMAIN stack /\ stack[c] \in FrameSet
  BY <1>1, <1>2
<1>4. n \in Node /\ i \in IntfList(n)
  <2>1. n \in Node
    BY <1>3 DEF FrameSet
  <2>2. stack[c].todo \subseteq IntfList(n) \ {stack[c].intf}
    BY <1>3, <2>1 DEF SearchInv, CallsJoined
  <2> QED  BY <1>1, <2>1, <2>2
<1>5. x \in Node /\ Joins(i, n, x) /\ Joins(i, x, n)
  BY <1>2, <1>4, TwoEnds, JoinsBoth
<1>6. ~Reached(x)
  <2>1. ~Left(x)
    BY <1>1, <1>3, <1>4, <1>5 DEF SearchInv, NothingForgotten
  <2> QED  BY <1>1, <2>1 DEF Left
<1>7. phase = "search"
  BY <1>1 DEF SearchInv, CallsJoined
<1>8. Above(above, x, i)
  <2>1. \A k \in 1 .. c : /\ above[k].obj = stack[k].obj /\ above[k].intf = stack[k].intf
                          /\ above[k].todo = IF k = c THEN stack[k].todo \ {i} ELSE stack[k].todo
    <3> SUFFICES ASSUME NEW k \in 1 .. c
                 PROVE  /\ above[k].obj = stack[k].obj /\ above[k].intf = stack[k].intf
                        /\ above[k].todo = IF k = c THEN stack[k].todo \ {i} ELSE stack[k].todo
      OBVIOUS
    <3>1. above[k] = IF k = c THEN [stack[k] EXCEPT !.todo = @ \ {i}] ELSE stack[k]
      BY <1>3
    <3>2. stack[k] \in FrameSet
      BY <1>2, <1>3
    <3> HIDE DEF above
    <3>3. CASE k = c
      <4>1. above[k] = [stack[k] EXCEPT !.todo = @ \ {i}]
        BY <3>1, <3>3
      <4> QED  BY <3>2, <3>3, <4>1 DEF FrameSet
    <3>4. CASE k # c
      BY <3>1, <3>4
    <3> QED  BY <3>3, <3>4
  <2>2. above \in Seq(FrameSet) /\ Len(above) = c
    <3> DEFINE fr == [stack[c] EXCEPT !.todo = @ \ {i}]
    <3>1. fr \in FrameSet
      BY <1>3 DEF FrameSet
    <3>2. above = [stack EXCEPT ![c] = fr]
      OBVIOUS
    <3> HIDE DEF fr, above, n, x
    <3> QED  BY <1>2, <1>3, <3>1, <3>2, FrameChanged
  <2> HIDE DEF above, x, n
  <2>3. Joins(i, x, stack[c].obj)
    BY <1>5 DEF n
  <2> QED  BY <1>1, <1>3, <2>1, <2>2, <2>3 DEF Above
<1> HIDE DEF above, x
<1>9. dist[n] + 2 \in Nat
  BY <1>2, <1>4
<1> HIDE DEF n
<1>10. stack # << >> => dist[stack[Len(stack)].obj] + 2 <= dist[n] + 2
  BY <1>9 DEF n
<1> QED  BY <1>1, <1>2, <1>5, <1>6, <1>7, <1>8, <1>9, <1>10, NewCall

\* The part of Types about loops.
LoopTypes(NL, IL, L) ==
  /\ NL \in [Node -> Nat] /\ IL \in [Intfs -> Nat] /\ IsLoops(L)
  /\ \A n \in Node : NL[n] # 0 => NL[n] \in DOMAIN L
  /\ \A i \in Intfs : IL[i] # 0 => IL[i] \in DOMAIN L

\* The places of loops of interfaces before interface i gets loop f.
PlacesBefore(S, L, f, i) ==
  /\ \A m \in Node : \A j \in IntfList(m) :
       intfLoop[j] # 0 => PlaceBefore(S, nodeLoop, L, dist, f, intfLoop[j], m)
  /\ \A m \in Node : i \in IntfList(m) => PlaceBefore(S, nodeLoop, L, dist, f, f, m)

\* Loops of nodes and interfaces stay together, if obj finds loop f at i.
Together(S, f, i, obj) ==
  /\ LoopTypes(nodeLoop', intfLoop', loops')
  /\ LoopsPlaced' /\ LoopsOfCalls(S, nodeLoop', loops', dist)
  /\ f # 0 /\ intfLoop' = [intfLoop EXCEPT ![i] = f] /\ intfToZone1' = intfToZone1
  /\ \A m \in Node : m # obj => nodeLoop'[m] = nodeLoop[m]

\* Loop f is found by the last call of S.
LEMMA FoundKeeps ==
  ASSUME SearchInv, NEW S, S = stack', NEW L, NEW f, NEW n, NEW obj, obj = S[n].obj,
         NEW i \in IntfList(obj),
         Finds(S, nodeLoop, L, dist, f, n), FoundLoop(obj, i, f, L),
         dist' = dist, graph' = graph, DOMAIN loops \subseteq DOMAIN L,
         PlacesBefore(S, L, f, i)
  PROVE  Together(S, f, i, obj)
<1>0. FoundFacts(S, nodeLoop, L, dist, f, n, obj, nodeLoop[obj])
  BY FindsFacts
<1>1. /\ Made(obj, f, nodeLoop, L, dist, nodeLoop', loops')
      /\ intfLoop' = [intfLoop EXCEPT ![i] = f]
      /\ intfToZone1' = intfToZone1
  BY FoundLoopMakes
<1>2. /\ MadeLoops(S, nodeLoop, L, dist, f, obj, nodeLoop', loops')
  <2> HIDE DEF Made, MadeLoops
  <2> QED  BY <1>1, MadeCases
<1>3. /\ IsLoops(loops') /\ LoopsOfCalls(S, nodeLoop', loops', dist)
      /\ nodeLoop' \in [Node -> Nat] /\ nodeLoop'[obj] \in DOMAIN loops'
      /\ \A m \in Node : m # obj => nodeLoop'[m] = nodeLoop[m]
      /\ DOMAIN L \subseteq DOMAIN loops'
  BY <1>2 DEF MadeLoops
<1>4. /\ intfLoop \in [Intfs -> Nat] /\ nodeLoop \in [Node -> Nat] /\ i \in Intfs
      /\ \A m \in Node : nodeLoop[m] # 0 => nodeLoop[m] \in DOMAIN L
      /\ \A j \in Intfs : intfLoop[j] # 0 => intfLoop[j] \in DOMAIN L
  BY IntfListIsSet DEF SearchInv, Types
<1>5. f \in DOMAIN L /\ f \in Nat /\ f # 0 /\ IsLoops(L) /\ obj \in Node
  <2>1. f \in DOMAIN L /\ IsLoops(L)
    BY DEF Finds, NewlyFound
  <2> QED  BY <1>0, <2>1, LoopNumbers DEF FoundFacts
<1>6. intfLoop' \in [Intfs -> Nat] /\ \A j \in Intfs : intfLoop'[j] = IF j = i THEN f ELSE intfLoop[j]
  BY <1>1, <1>4, <1>5
<1>7. \A m \in Node : nodeLoop'[m] # 0 => nodeLoop'[m] \in DOMAIN loops'
  BY <1>3, <1>4
<1>8. \A j \in Intfs : intfLoop'[j] # 0 => intfLoop'[j] \in DOMAIN loops'
  BY <1>3, <1>4, <1>5, <1>6
<1>9. ASSUME NEW m \in Node, NEW j \in IntfList(m), intfLoop'[j] # 0
      PROVE  Place(S, nodeLoop', loops', dist, intfLoop'[j], m)
  <2>1. j \in Intfs
    BY IntfListIsSet
  <2>2. intfLoop'[j] \in DOMAIN L
    BY <1>4, <1>5, <1>6, <1>9, <2>1
  <2>3. PlaceBefore(S, nodeLoop, L, dist, f, intfLoop'[j], m)
    <3>1. \A k \in IntfList(m) : intfLoop[k] # 0 => PlaceBefore(S, nodeLoop, L, dist, f, intfLoop[k], m)
      BY DEF PlacesBefore
    <3>2. j = i => PlaceBefore(S, nodeLoop, L, dist, f, f, m)
      BY DEF PlacesBefore
    <3> QED  BY <1>6, <1>9, <2>1, <3>1, <3>2
  <2> HIDE DEF Place, PlaceBefore, Made, Finds
  <2> QED  BY <1>1, <1>4, <2>2, <2>3, MadePlaces
<1>10. ASSUME NEW m \in Node, nodeLoop'[m] # 0 PROVE \E j \in IntfList(m) : intfLoop'[j] # 0
  <2>1. CASE m = obj
    BY <1>4, <1>5, <1>6, <2>1
  <2>2. CASE m # obj
    <3>1. PICK j \in IntfList(m) : intfLoop[j] # 0
      BY <1>3, <1>10, <2>2 DEF SearchInv, LoopsPlaced
    <3> QED  BY <1>5, <1>6, <3>1, IntfListIsSet
  <2> QED  BY <2>1, <2>2
<1>11. \A m : IntfList(m)' = IntfList(m)
  BY GraphKept
<1>12. LoopsPlaced'
  BY <1>9, <1>10, <1>11 DEF LoopsPlaced
<1>13. LoopTypes(nodeLoop', intfLoop', loops')
  BY <1>3, <1>6, <1>7, <1>8 DEF LoopTypes
<1> QED  BY <1>1, <1>3, <1>5, <1>12, <1>13 DEF Together

\* Loops end as LoopsEnd says, if also interface i gets loop f.
EndsBefore(L, f, i) ==
  /\ \A m \in Node : nodeLoop[m] # 0 => nodeLoop[m] \in DOMAIN L /\ L[nodeLoop[m]].distance <= dist[m]
  /\ \A l \in DOMAIN L : \/ OpenExit(intfLoop, L, dist, l) \/ KnownExit(L, nodeLoop, l)
                         \/ l = f /\ dist[L[l].exit] < L[l].distance /\ i \in IntfList(L[l].exit)

\* A loop that is found is not farther from zone1 than the last call.
LEMMA FoundEnds ==
  ASSUME SearchInv, NEW S, NEW L, NEW f, NEW n, NEW obj, obj = S[n].obj,
         NEW i \in IntfList(obj),
         Finds(S, nodeLoop, L, dist, f, n), FoundLoop(obj, i, f, L),
         dist' = dist, graph' = graph, EndsBefore(L, f, i)
  PROVE  LoopsEnd'
<1>0. FoundFacts(S, nodeLoop, L, dist, f, n, obj, nodeLoop[obj])
  BY FindsFacts
<1> DEFINE inner == nodeLoop[obj]
           M == loops'
           NM == nodeLoop'
           o == NM[obj]
<1>12. /\ \A m \in Node : nodeLoop[m] # 0 => nodeLoop[m] \in DOMAIN L /\ L[nodeLoop[m]].distance <= dist[m]
       /\ \A l \in DOMAIN L : \/ OpenExit(intfLoop, L, dist, l) \/ KnownExit(L, nodeLoop, l)
                              \/ l = f /\ dist[L[l].exit] < L[l].distance /\ i \in IntfList(L[l].exit)
  BY DEF EndsBefore
<1>1. /\ Made(obj, f, nodeLoop, L, dist, NM, M)
      /\ intfLoop' = [intfLoop EXCEPT ![i] = f]
  BY FoundLoopMakes
<1>2. /\ obj \in Node /\ f \in DOMAIN L /\ f # 0 /\ f \in Nat /\ n \in Nat \ {0} /\ DOMAIN S = 1 .. n
      /\ IsLoops(L) /\ nodeLoop \in [Node -> Nat] /\ dist \in [Node -> Nat]
      /\ \E j \in DOMAIN S : L[f].exit = S[j].obj /\ L[f].distance = dist[S[j].obj] + 1
      /\ inner \in Nat /\ (inner # 0 => inner \in DOMAIN L)
  <2>1. obj \in Node /\ f \in Nat /\ f # 0
    BY <1>0 DEF FoundFacts
  <2> QED  BY <1>12, <2>1 DEF Finds, NewlyFound
<1>3. /\ L \in Seq(LoopObject) /\ DOMAIN L = 1 .. Len(L) /\ Len(L) \in Nat
      /\ \A l \in DOMAIN L : L[l] \in LoopObject /\ L[l].exit \in Node /\ L[l].distance \in Nat /\ l \in Nat
  BY <1>2, LoopNumbers DEF IsLoops
<1> HIDE DEF M, NM
<1>4. \/ /\ obj = L[f].exit /\ inner = 0
         /\ M = Append(L, Loop(obj, dist[obj]))
         /\ NM = [nodeLoop EXCEPT ![obj] = Len(L) + 1]
      \/ M = L /\ NM = nodeLoop
      \/ /\ obj # L[f].exit /\ inner # 0 /\ Closer(f, inner, L)
         /\ M = [L EXCEPT ![inner].redirect = f]
         /\ NM = [nodeLoop EXCEPT ![obj] = f]
      \/ /\ inner # 0
         /\ M = [L EXCEPT ![f].redirect = inner]
         /\ NM = nodeLoop
      \/ /\ obj # L[f].exit /\ inner = 0
         /\ M = L
         /\ NM = [nodeLoop EXCEPT ![obj] = f]
  BY <1>1 DEF Made
<1>5. /\ DOMAIN L \subseteq DOMAIN M
      /\ \A l \in DOMAIN L : M[l].exit = L[l].exit /\ M[l].distance = L[l].distance
      /\ \A l \in DOMAIN M : l \notin DOMAIN L =>
           M[l].exit = obj /\ M[l].distance = dist[obj] /\ NM[obj] = l /\ l # 0
  <2>1. CASE M = L
    BY <2>1
  <2>2. CASE obj = L[f].exit /\ inner = 0 /\ M = Append(L, Loop(obj, dist[obj]))
             /\ NM = [nodeLoop EXCEPT ![obj] = Len(L) + 1]
    <3>1. Loop(obj, dist[obj]) \in LoopObject /\ Loop(obj, dist[obj]).exit = obj /\ Loop(obj, dist[obj]).distance = dist[obj]
      BY <1>2 DEF Loop, LoopObject
    <3>2. DOMAIN M = 1 .. Len(L) + 1 /\ M[Len(L) + 1] = Loop(obj, dist[obj]) /\ \A l \in DOMAIN L : M[l] = L[l]
      BY <1>3, <2>2, <3>1
    <3>3. NM[obj] = Len(L) + 1
      BY <1>2, <2>2
    <3>4. \A l \in DOMAIN M : l \notin DOMAIN L => l = Len(L) + 1 /\ l # 0
      BY <1>3, <3>2
    <3> QED  BY <1>3, <3>1, <3>2, <3>3, <3>4
  <2>3. ASSUME NEW k \in DOMAIN L, NEW r, M = [L EXCEPT ![k].redirect = r]
        PROVE  DOMAIN M = DOMAIN L /\ \A l \in DOMAIN L : M[l].exit = L[l].exit /\ M[l].distance = L[l].distance
    <3>1. DOMAIN M = DOMAIN L /\ \A l \in DOMAIN L : M[l] = IF l = k THEN [L[l] EXCEPT !.redirect = r] ELSE L[l]
      BY <1>3, <2>3
    <3> QED  BY <1>3, <3>1 DEF LoopObject
  <2> QED  BY <1>2, <1>4, <2>1, <2>2, <2>3
<1>6. /\ \A m \in Node : m # obj => NM[m] = nodeLoop[m]
      /\ \/ o = inner
         \/ o = f /\ obj # L[f].exit /\ inner = 0
         \/ o = f /\ obj # L[f].exit /\ inner # 0 /\ L[f].distance < L[inner].distance
         \/ o \notin DOMAIN L /\ o \in DOMAIN M /\ o # 0 /\ inner = 0
  <2>1. CASE NM = nodeLoop
    BY <2>1
  <2>2. CASE NM = [nodeLoop EXCEPT ![obj] = f] /\ obj # L[f].exit /\ (inner = 0 \/ Closer(f, inner, L))
    BY <1>2, <2>2 DEF Closer
  <2>3. CASE NM = [nodeLoop EXCEPT ![obj] = Len(L) + 1] /\ inner = 0 /\ M = Append(L, Loop(obj, dist[obj]))
    <3>1. o = Len(L) + 1 /\ \A m \in Node : m # obj => NM[m] = nodeLoop[m]
      BY <1>2, <2>3
    <3>2. DOMAIN M = 1 .. Len(L) + 1
      BY <1>3, <2>3
    <3> QED  BY <1>3, <2>3, <3>1, <3>2
  <2> QED  BY <1>4, <2>1, <2>2, <2>3
<1>7. L[f].distance <= dist[obj] \/ obj = L[f].exit
  <2>1. PICK j \in DOMAIN S : L[f].exit = S[j].obj /\ L[f].distance = dist[S[j].obj] + 1
    BY <1>2
  <2>2. CASE j = n
    BY <2>1, <2>2
  <2>3. CASE j # n
    <3>1. j < n /\ n \in DOMAIN S
      BY <1>2, <2>3
    <3>2. dist[S[j].obj] + 2 <= dist[obj]
      BY <2>1, <3>1 DEF Finds, CallsDescend
    <3>3. dist[S[j].obj] \in Nat /\ dist[obj] \in Nat
      BY <1>2, <1>3, <2>1
    <3> QED  BY <2>1, <3>2, <3>3
  <2> QED  BY <2>2, <2>3
<1>8. \A m \in Node : NM[m] # 0 => M[NM[m]].distance <= dist[m]
  <2> SUFFICES ASSUME NEW m \in Node, NM[m] # 0 PROVE M[NM[m]].distance <= dist[m]
    OBVIOUS
  <2>1. CASE m # obj \/ o = inner
    <3>1. NM[m] = nodeLoop[m] /\ nodeLoop[m] \in DOMAIN L
      BY <1>6, <1>12, <2>1
    <3> QED  BY <1>5, <1>12, <3>1
  <2>2. CASE m = obj /\ o = f /\ obj # L[f].exit
    BY <1>2, <1>5, <1>7, <2>2
  <2>3. CASE m = obj /\ o \notin DOMAIN L /\ o \in DOMAIN M
    BY <1>2, <1>5, <2>3
  <2> QED  BY <1>6, <2>1, <2>2, <2>3
<1>9. \A l \in DOMAIN M : OpenExit(intfLoop', M, dist, l) \/ KnownExit(M, NM, l)
  <2> SUFFICES ASSUME NEW l \in DOMAIN M PROVE OpenExit(intfLoop', M, dist, l) \/ KnownExit(M, NM, l)
    OBVIOUS
  <2>1. CASE l \notin DOMAIN L
    <3>1. M[l].exit = obj /\ NM[obj] = l /\ l # 0
      BY <1>5, <2>1
    <3> QED  BY <3>1 DEF KnownExit
  <2>2. CASE l \in DOMAIN L
    <3> DEFINE e == L[l].exit
    <3>1. M[l].exit = e /\ M[l].distance = L[l].distance /\ e \in Node
      BY <1>3, <1>5, <2>2
    <3>2. \A j \in Intfs : intfLoop[j] # 0 \/ j = i => intfLoop'[j] # 0
      BY <1>1, <1>2 DEF SearchInv, Types
    <3>3. CASE OpenExit(intfLoop, L, dist, l) \/ (dist[e] < L[l].distance /\ i \in IntfList(e))
      <4>1. dist[e] < L[l].distance /\ \E j \in IntfList(e) : intfLoop[j] # 0 \/ j = i
        BY <3>3 DEF OpenExit
      <4>2. \E j \in IntfList(e) : intfLoop'[j] # 0
        BY <3>2, <4>1, IntfListIsSet
      <4> HIDE DEF e
      <4>3. OpenExit(intfLoop', M, dist, l)
        BY <3>1, <4>1, <4>2 DEF OpenExit
      <4> QED  BY <4>3
    <3>4. CASE KnownExit(L, nodeLoop, l)
      <4>1. nodeLoop[e] # 0 /\ (nodeLoop[e] = l \/ Nearer(L, nodeLoop[e], l)) /\ nodeLoop[e] \in DOMAIN L
        BY <1>12, <3>1, <3>4 DEF KnownExit
      <4>2. NM[e] # 0 /\ NM[e] \in DOMAIN L /\ (NM[e] = nodeLoop[e] \/ Nearer(L, NM[e], nodeLoop[e]))
        BY <1>2, <1>6, <3>1, <4>1 DEF Nearer
      <4>3. NM[e] = l \/ Nearer(L, NM[e], l)
        BY <1>2, <2>2, <4>1, <4>2, NearerIsTransitive
      <4>4. NM[e] = l \/ Nearer(M, NM[e], l)
        BY <1>5, <2>2, <4>2, <4>3 DEF Nearer
      <4>5. NM[M[l].exit] # 0 /\ (NM[M[l].exit] = l \/ Nearer(M, NM[M[l].exit], l))
        BY <3>1, <4>2, <4>4
      <4> QED  BY <4>5 DEF KnownExit
    <3> QED  BY <1>12, <2>2, <3>3, <3>4
  <2> QED  BY <2>1, <2>2
<1>10. \A l \in DOMAIN loops' :
         \/ dist'[loops'[l].exit] < loops'[l].distance /\ \E j \in IntfList(loops'[l].exit) : intfLoop'[j] # 0
         \/ KnownExit(loops', nodeLoop', l)
  BY <1>9 DEF OpenExit, M, NM
<1>11. \A m \in Node : nodeLoop'[m] # 0 => loops'[nodeLoop'[m]].distance <= dist'[m]
  BY <1>8 DEF M, NM
<1> QED  BY <1>10, <1>11 DEF LoopsEnd, OpenExit, IntfList

LEMMA SearchIsLoopTypes ==
  SearchInv => LoopTypes(nodeLoop, intfLoop, loops)
BY DEF SearchInv, Types, LoopTypes

LEMMA CloseLoopKeeps ==
  ASSUME SearchInv, NEW i \in Intfs, CloseLoop(i)
  PROVE  SearchInv' /\ (LoopsEnd => LoopsEnd')
<1> DEFINE c == Len(stack)
           n == stack[c].obj
           x == Next1(n, i)
           new == Loop(x, dist[x] + 1)
           L == Append(loops, new)
           f == Len(L)
           larger == IF new.distance > stack[c].max THEN new.distance ELSE stack[c].max
           S == [stack EXCEPT ![c].todo = @ \ {i}, ![c].max = IF new.distance > @ THEN new.distance ELSE @]
<1>1. /\ stack # << >> /\ i \in stack[c].todo /\ intfLoop[i] = 0 /\ Active(x)
      /\ FoundLoop(n, i, f, L)
      /\ stack' = S
      /\ UNCHANGED <<graph, phase, startDistance, partitions, pending, dist, nodeToZone1>>
  BY DEF CloseLoop, Top
<1>2. /\ stack \in Seq(FrameSet) /\ graph \in Topologies /\ dist \in [Node -> Nat]
      /\ nodeLoop \in [Node -> Nat] /\ IsLoops(loops)
      /\ \A m \in Node : nodeLoop[m] # 0 => nodeLoop[m] \in DOMAIN loops
      /\ \A j \in Intfs : intfLoop[j] # 0 => intfLoop[j] \in DOMAIN loops
  BY DEF SearchInv, Types
<1>3. DOMAIN stack = 1 .. c /\ c \in Nat \ {0} /\ c \in DOMAIN stack /\ stack[c] \in FrameSet
  BY <1>1, <1>2
<1> HIDE DEF c
<1>4. n \in Node /\ i \in IntfList(n)
  <2>1. n \in Node
    BY <1>3 DEF FrameSet
  <2>2. stack[c].todo \subseteq IntfList(n) \ {stack[c].intf}
    BY <1>3, <2>1 DEF SearchInv, CallsJoined
  <2> QED  BY <1>1, <2>1, <2>2
<1>5. x \in Node /\ Joins(i, n, x) /\ Joins(i, x, n) /\ x # n
  BY <1>2, <1>4, TwoEnds, JoinsBoth DEF Joins
<1>6. new \in LoopObject /\ new.exit = x /\ new.distance = dist[x] + 1 /\ new.redirect = 0
  BY <1>2, <1>5 DEF Loop, LoopObject
<1>7. PICK kx \in DOMAIN stack : stack[kx].obj = x
  BY <1>1 DEF Active
<1> HIDE DEF new
<1>8. /\ loops \in Seq(LoopObject) /\ L \in Seq(LoopObject)
      /\ f = Len(loops) + 1 /\ Len(loops) \in Nat /\ DOMAIN L = 1 .. f /\ DOMAIN loops = 1 .. Len(loops)
      /\ L[f] = new /\ \A l \in DOMAIN loops : L[l] = loops[l]
      /\ DOMAIN loops \subseteq DOMAIN L
  BY <1>2, <1>6 DEF IsLoops
<1>9. IsLoops(L)
  <2> SUFFICES ASSUME NEW l \in DOMAIN L, L[l].redirect # 0
               PROVE  /\ L[l].redirect \in DOMAIN L
                      /\ \/ L[L[l].redirect].distance < L[l].distance
                         \/ L[L[l].redirect].distance = L[l].distance /\ L[l].redirect < l
    BY <1>8 DEF IsLoops, Redirects
  <2>1. l \in DOMAIN loops /\ L[l] = loops[l]
    BY <1>6, <1>8
  <2>2. /\ loops[l].redirect \in DOMAIN loops
        /\ \/ loops[loops[l].redirect].distance < loops[l].distance
           \/ loops[loops[l].redirect].distance = loops[l].distance /\ loops[l].redirect < l
    BY <1>2, <2>1 DEF IsLoops, Redirects
  <2> QED  BY <1>8, <2>1, <2>2
<1>10. /\ S \in Seq(FrameSet) /\ DOMAIN S = 1 .. c
       /\ \A k \in 1 .. c : /\ S[k].obj = stack[k].obj /\ S[k].intf = stack[k].intf
                            /\ S[k].todo = IF k = c THEN stack[k].todo \ {i} ELSE stack[k].todo
                            /\ stack[k].obj \in Node
  <2>1. new.distance \in Nat
    BY <1>2, <1>5, <1>6
  <2>2. S = [stack EXCEPT ![c] = [stack[c] EXCEPT !.todo = @ \ {i}, !.max = larger]]
    BY <1>3
  <2> DEFINE fr == [stack[c] EXCEPT !.todo = @ \ {i}, !.max = larger]
  <2>3. /\ fr \in FrameSet
        /\ fr.obj = stack[c].obj /\ fr.intf = stack[c].intf /\ fr.todo = stack[c].todo \ {i}
    BY <1>3, <2>1 DEF FrameSet
  <2>5. S = [stack EXCEPT ![c] = fr]
    BY <2>2
  <2> HIDE DEF larger, S, fr, n, x, L, f
  <2>4. \A k \in 1 .. c : /\ S[k].obj = stack[k].obj /\ S[k].intf = stack[k].intf
                          /\ S[k].todo = IF k = c THEN stack[k].todo \ {i} ELSE stack[k].todo
                          /\ stack[k].obj \in Node
    <3> SUFFICES ASSUME NEW k \in 1 .. c
                 PROVE  /\ S[k].obj = stack[k].obj /\ S[k].intf = stack[k].intf
                        /\ S[k].todo = IF k = c THEN stack[k].todo \ {i} ELSE stack[k].todo
                        /\ stack[k].obj \in Node
      OBVIOUS
    <3>1. S[k] = IF k = c THEN fr ELSE stack[k]
      BY <1>3, <2>5
    <3>2. stack[k] \in FrameSet
      BY <1>2, <1>3
    <3>3. stack[k].obj \in Node
      BY <3>2 DEF FrameSet
    <3> QED  BY <2>3, <3>1, <3>3
  <2>6. c \in 1 .. Len(stack) /\ Len(stack) = c
    BY <1>3 DEF c
  <2>7. S \in Seq(FrameSet) /\ Len(S) = Len(stack)
    BY <1>2, <2>3, <2>5, <2>6, FrameChanged
  <2>8. DOMAIN S = 1 .. c
    BY <2>6, <2>7
  <2> QED  BY <2>4, <2>7, <2>8
<1> HIDE DEF S, x, n, L, f
<1>11. CallsDescend(S, dist)
  <2>1. /\ \A k \in DOMAIN S : S[k].obj \in Node
        /\ \A j, k \in DOMAIN S : j < k => dist[S[j].obj] + 2 <= dist[S[k].obj]
    BY <1>3, <1>10 DEF SearchInv, CallsDescend
  <2> QED  BY <1>3, <1>10, <2>1 DEF CallsDescend
<1>12. LoopsOfCalls(S, nodeLoop, L, dist)
  <2> SUFFICES ASSUME NEW k \in DOMAIN S, nodeLoop[S[k].obj] # 0
               PROVE  /\ nodeLoop[S[k].obj] \in DOMAIN L
                      /\ L[nodeLoop[S[k].obj]].redirect = 0
                      /\ \E j \in 1 .. k :
                           /\ L[nodeLoop[S[k].obj]].exit = S[j].obj
                           /\ L[nodeLoop[S[k].obj]].distance = IF j < k THEN dist[S[j].obj] + 1 ELSE dist[S[j].obj]
                      /\ \A j \in 1 .. k - 1 : nodeLoop[S[j].obj] < nodeLoop[S[k].obj]
    BY DEF LoopsOfCalls
  <2>1. /\ k \in DOMAIN stack /\ k \in 1 .. c
        /\ \A j \in 1 .. k : j \in 1 .. c
        /\ \A j \in 1 .. k - 1 : j \in 1 .. c
    BY <1>3, <1>10
  <2>2. S[k].obj = stack[k].obj
    BY <1>10, <2>1
  <2>3. /\ nodeLoop[stack[k].obj] \in DOMAIN loops
        /\ loops[nodeLoop[stack[k].obj]].redirect = 0
        /\ \E j \in 1 .. k :
             /\ loops[nodeLoop[stack[k].obj]].exit = stack[j].obj
             /\ loops[nodeLoop[stack[k].obj]].distance =
                  IF j < k THEN dist[stack[j].obj] + 1 ELSE dist[stack[j].obj]
        /\ \A j \in 1 .. k - 1 : nodeLoop[stack[j].obj] < nodeLoop[stack[k].obj]
    BY <2>1, <2>2 DEF SearchInv, LoopsOfCalls
  <2>4. L[nodeLoop[stack[k].obj]] = loops[nodeLoop[stack[k].obj]]
    BY <1>8, <2>3
  <2>5. \A j \in 1 .. c : S[j].obj = stack[j].obj
    BY <1>10
  <2>6. nodeLoop[stack[k].obj] \in DOMAIN L
    BY <1>8, <2>3
  <2>7. \E j \in 1 .. k :
          /\ loops[nodeLoop[stack[k].obj]].exit = S[j].obj
          /\ loops[nodeLoop[stack[k].obj]].distance = IF j < k THEN dist[S[j].obj] + 1 ELSE dist[S[j].obj]
    BY <2>1, <2>3, <2>5
  <2>8. \A j \in 1 .. k - 1 : nodeLoop[S[j].obj] < nodeLoop[stack[k].obj]
    BY <2>1, <2>3, <2>5
  <2> QED  BY <2>2, <2>3, <2>4, <2>6, <2>7, <2>8
<1>13. kx \in DOMAIN S /\ S[kx].obj = x /\ c \in DOMAIN S /\ S[c].obj = n
  BY <1>3, <1>7, <1>10 DEF n
<1>14. NewlyFound(S, nodeLoop, L, dist, f)
  <2>1. \A k \in DOMAIN S : nodeLoop[S[k].obj] < f
    <3> TAKE k \in DOMAIN S
    <3>1. S[k].obj \in Node
      BY <1>10
    <3>2. nodeLoop[S[k].obj] = 0 \/ nodeLoop[S[k].obj] \in 1 .. Len(loops)
      BY <1>2, <1>8, <3>1
    <3> QED  BY <1>8, <3>2
  <2>2. f \in DOMAIN L
    BY <1>8
  <2> QED  BY <1>6, <1>8, <1>13, <2>1, <2>2 DEF NewlyFound
<1>15. Finds(S, nodeLoop, L, dist, f, c)
  BY <1>2, <1>3, <1>9, <1>10, <1>11, <1>12, <1>14 DEF Finds
<1>16. \A l \in DOMAIN loops : OuterOf(L)[l] = OuterOf(loops)[l] /\ OuterOf(L)[l] # f /\ OuterOf(loops)[l] \in DOMAIN loops
  <2>1. \A l \in DOMAIN loops : OuterOf(L)[l] = OuterOf(loops)[l]
    <3>1. SameRedirects(loops, L)
      BY <1>2, <1>8, <1>9 DEF SameRedirects
    <3>2. SameOuter(loops, L)
      BY <3>1, OuterKept
    <3> QED  BY <3>2 DEF SameOuter
  <2>2. \A l \in DOMAIN loops : OuterOf(loops)[l] \in DOMAIN loops
    BY <1>2, OuterIsLast
  <2>3. f \notin DOMAIN loops
    BY <1>8
  <2> QED  BY <2>1, <2>2, <2>3
<1>17. ASSUME NEW m \in Node, NEW j \in IntfList(m), intfLoop[j] # 0
       PROVE  PlaceBefore(S, nodeLoop, L, dist, f, intfLoop[j], m)
  <2> DEFINE F == intfLoop[j]
             R == OuterOf(loops)[F]
  <2>1. Place(stack, nodeLoop, loops, dist, F, m)
    BY <1>17 DEF SearchInv, LoopsPlaced
  <2>2. F \in DOMAIN loops
    BY <1>2, <1>17, IntfListIsSet
  <2> HIDE DEF F
  <2>3. OuterOf(L)[F] = R /\ R \in DOMAIN loops /\ R # f /\ L[R] = loops[R]
    BY <1>8, <1>16, <2>2
  <2>4. CASE SamePlace(nodeLoop, loops, F, m)
    <3>1. nodeLoop[m] # 0 /\ R = OuterOf(loops)[nodeLoop[m]]
      BY <2>4 DEF SamePlace
    <3>2. OuterOf(L)[nodeLoop[m]] = OuterOf(loops)[nodeLoop[m]]
      BY <1>2, <1>16, <3>1
    <3>3. SamePlace(nodeLoop, L, F, m)
      BY <2>3, <3>1, <3>2 DEF SamePlace
    <3> QED  BY <3>3 DEF PlaceBefore, F
  <2>5. CASE ExitPlace(stack, nodeLoop, loops, F, m)
    <3>1. nodeLoop[m] # 0 /\ loops[R].exit = m /\ \A k \in DOMAIN stack : nodeLoop[stack[k].obj] # R
      BY <2>5 DEF ExitPlace
    <3>2. \A k \in DOMAIN S : nodeLoop[S[k].obj] # R
      BY <1>3, <1>10, <3>1
    <3>3. ExitPlace(S, nodeLoop, L, F, m)
      BY <2>3, <3>1, <3>2 DEF ExitPlace
    <3> QED  BY <2>3, <3>3 DEF PlaceBefore, F
  <2>6. CASE LaterPlace(stack, nodeLoop, loops, dist, F, m)
    <3>1. PICK k, l \in DOMAIN stack : stack[k].obj = m /\ k < l /\ nodeLoop[stack[l].obj] = R
                                       /\ dist[loops[R].exit] <= dist[m]
      BY <2>6 DEF LaterPlace
    <3>2. /\ k \in DOMAIN S /\ l \in DOMAIN S /\ S[k].obj = m /\ nodeLoop[S[l].obj] = R
      BY <1>3, <1>10, <3>1
    <3>3. dist[L[R].exit] <= dist[m]
      BY <2>3, <3>1
    <3>4. LaterPlace(S, nodeLoop, L, dist, F, m)
      BY <2>3, <3>1, <3>2, <3>3 DEF LaterPlace
    <3> QED  BY <3>4 DEF PlaceBefore, F
  <2> QED  BY <2>1, <2>4, <2>5, <2>6 DEF Place, F
<1>18. ASSUME NEW m \in Node, i \in IntfList(m)
       PROVE  PlaceBefore(S, nodeLoop, L, dist, f, f, m)
  <2>1. m = n \/ m = x
    <3>1. m # n => Joins(i, n, m)
      BY <1>4, <1>18 DEF Joins
    <3> QED  BY <1>2, <1>4, <1>5, <3>1, TwoEnds DEF x
  <2>2. OuterOf(L)[f] = f
    BY <1>6, <1>8, <1>9, <1>14, OuterIsLast DEF NewlyFound
  <2>3. kx <= c
    BY <1>3
  <2>4. dist[x] <= dist[n]
    <3>1. CASE kx = c
      BY <1>2, <1>5, <1>13, <3>1
    <3>2. CASE kx # c
      <4>1. kx < c
        BY <1>3, <2>3, <3>2
      <4>2. dist[x] + 2 <= dist[n]
        BY <1>11, <1>13, <4>1 DEF CallsDescend
      <4> QED  BY <1>2, <1>4, <1>5, <4>2
    <3> QED  BY <3>1, <3>2
  <2>5. dist[L[f].exit] <= dist[m]
    BY <1>2, <1>5, <1>6, <1>8, <2>1, <2>4
  <2>6. \E k \in DOMAIN S : S[k].obj = m /\ dist[L[f].exit] <= dist[m]
    BY <1>13, <2>1, <2>5
  <2>7. FoundPlace(S, L, dist, f, f, m)
    BY <2>2, <2>6 DEF FoundPlace
  <2> QED  BY <2>7 DEF PlaceBefore
<1>19. /\ LoopTypes(nodeLoop', intfLoop', loops')
       /\ LoopsPlaced' /\ LoopsOfCalls(S, nodeLoop', loops', dist)
       /\ f # 0 /\ intfLoop' = [intfLoop EXCEPT ![i] = f] /\ intfToZone1' = intfToZone1
       /\ \A m \in Node : m # n => nodeLoop'[m] = nodeLoop[m]
  <2>1. S = stack' /\ n = S[c].obj /\ dist' = dist /\ graph' = graph
    BY <1>1, <1>13
  <2>2. PlacesBefore(S, L, f, i)
    BY <1>17, <1>18 DEF PlacesBefore
  <2>3. FoundLoop(n, i, f, L) /\ i \in IntfList(n) /\ DOMAIN loops \subseteq DOMAIN L
    BY <1>1, <1>4, <1>8
  <2>4. Together(S, f, i, n)
    BY <1>15, <2>1, <2>2, <2>3, FoundKeeps
  <2> QED  BY <2>4 DEF Together
<1>20. /\ \A m, k, j : Joins(j, m, k)' <=> Joins(j, m, k)
       /\ \A m : IntfList(m)' = IntfList(m)
  BY <1>1, GraphKept
<1>21. /\ \A m : Active(m)' <=> Active(m)
       /\ \A m \in Node : Reached(m)' <=> Reached(m)
       /\ \A m \in Node : Left(m)' <=> Left(m)
  <2>1. \A m : Active(m)' <=> Active(m)
    BY <1>1, <1>3, <1>10 DEF Active
  <2>2. Active(n)
    BY <1>3 DEF Active, n
  <2>3. \A m \in Node : Reached(m)' <=> Reached(m)
    BY <1>1, <1>19, <2>1, <2>2 DEF Reached
  <2> QED  BY <2>1, <2>3 DEF Left
<1>22. intfLoop'[i] # 0 /\ \A j \in Intfs : j # i => intfLoop'[j] = intfLoop[j]
  BY <1>19 DEF SearchInv, Types
<1>23. CallsJoined'
  <2>1. c # 0 /\ 1 \in 1 .. c
    BY <1>3
  <2>2. phase' = "search" /\ stack'[1].obj \in partitions' /\ stack'[1].intf = None
    BY <1>1, <1>10, <2>1 DEF SearchInv, CallsJoined
  <2>3. ASSUME NEW k \in DOMAIN stack', NEW q \in Node, stack'[k].obj = q
        PROVE  stack'[k].todo \subseteq IntfList(q)' \ {stack'[k].intf} /\ nodeToZone1'[q] = None
    <3>1. k \in DOMAIN stack /\ k \in 1 .. c /\ stack[k].obj = q
      BY <1>1, <1>3, <1>10, <2>3
    <3>2. stack[k].todo \subseteq IntfList(q) \ {stack[k].intf} /\ nodeToZone1[q] = None
      BY <3>1 DEF SearchInv, CallsJoined
    <3> QED  BY <1>1, <1>10, <1>20, <3>1, <3>2
  <2>4. ASSUME NEW k \in DOMAIN stack', k > 1, NEW q \in Node, NEW m \in Node, NEW j,
               q = stack'[k].obj, m = stack'[k - 1].obj, j = stack'[k].intf
        PROVE  Joins(j, q, m)' /\ j \notin stack'[k - 1].todo
    <3>1. k \in DOMAIN stack /\ k \in 1 .. c /\ k - 1 \in 1 .. c
      <4>1. DOMAIN stack' = 1 .. c
        BY <1>1, <1>10
      <4> QED  BY <1>3, <2>4, <4>1
    <3>2. q = stack[k].obj /\ m = stack[k - 1].obj /\ j = stack[k].intf
      BY <1>1, <1>10, <2>4, <3>1
    <3>3. Joins(j, q, m) /\ j \notin stack[k - 1].todo
      BY <2>4, <3>1, <3>2 DEF SearchInv, CallsJoined
    <3> QED  BY <1>1, <1>10, <1>20, <3>1, <3>3
  <2> QED  BY <2>2, <2>3, <2>4 DEF CallsJoined
<1>24. NothingForgotten'
  <2>1. ASSUME NEW j \in Intfs, NEW q \in Node, NEW m \in Node, Joins(j, q, m)'
        PROVE  /\ Left(q)' => Reached(m)'
               /\ intfLoop'[j] # 0 => Reached(q)'
    <3>1. Joins(j, q, m)
      BY <1>20, <2>1
    <3>2. (Left(q) => Reached(m)) /\ (intfLoop[j] # 0 => Reached(q))
      BY <3>1 DEF SearchInv, NothingForgotten
    <3>3. j = i => Reached(q)
      <4> SUFFICES ASSUME j = i PROVE Reached(q)
        OBVIOUS
      <4>1. q = n \/ Joins(i, n, q)
        BY <1>4, <3>1 DEF Joins
      <4>2. q = n \/ q = x
        BY <1>2, <1>4, <4>1, TwoEnds DEF x
      <4>3. Active(n) /\ Active(x)
        BY <1>3, <1>7 DEF Active, n
      <4> QED  BY <4>2, <4>3 DEF Reached
    <3> QED  BY <1>21, <1>22, <3>2, <3>3
  <2>2. ASSUME NEW k \in DOMAIN stack', NEW j \in Intfs, NEW q \in Node, NEW m \in Node,
               stack'[k].obj = q, Joins(j, q, m)'
        PROVE  /\ j \notin stack'[k].todo => Reached(m)'
               /\ j \in stack'[k].todo /\ intfLoop'[j] = 0 => ~Left(m)'
    <3>1. k \in DOMAIN stack /\ k \in 1 .. c /\ stack[k].obj = q /\ Joins(j, q, m)
      BY <1>1, <1>3, <1>10, <1>20, <2>2
    <3>2. /\ j \notin stack[k].todo => Reached(m)
          /\ j \in stack[k].todo /\ intfLoop[j] = 0 => ~Left(m)
      BY <3>1 DEF SearchInv, NothingForgotten
    <3>3. k = c /\ j = i => m = x
      <4> SUFFICES ASSUME k = c, j = i PROVE m = x
        OBVIOUS
      <4>1. Joins(i, n, m)
        BY <3>1 DEF n
      <4> QED  BY <1>2, <1>4, <4>1, TwoEnds DEF x
    <3>4. stack'[k].todo = IF k = c THEN stack[k].todo \ {i} ELSE stack[k].todo
      BY <1>1, <1>10, <3>1
    <3>5. Reached(x)
      BY <1>1 DEF Reached
    <3> QED  BY <1>21, <1>22, <3>2, <3>3, <3>4, <3>5
  <2>3. ASSUME NEW k \in DOMAIN stack', NEW l \in DOMAIN stack', NEW j \in Intfs, NEW q \in Node, NEW m \in Node,
               stack'[k].obj = q, stack'[l].obj = m, Joins(j, q, m)',
               j \notin stack'[k].todo, intfLoop'[j] = 0
        PROVE  j \notin stack'[l].todo
    <3>1. j # i /\ intfLoop[j] = 0
      BY <1>22, <2>3
    <3>2. /\ k \in DOMAIN stack /\ k \in 1 .. c /\ stack[k].obj = q
          /\ l \in DOMAIN stack /\ l \in 1 .. c /\ stack[l].obj = m /\ Joins(j, q, m)
      BY <1>1, <1>3, <1>10, <1>20, <2>3
    <3>3. j \notin stack[k].todo
      BY <1>1, <1>10, <2>3, <3>1, <3>2
    <3>4. j \notin stack[l].todo
      BY <3>1, <3>2, <3>3 DEF SearchInv, NothingForgotten
    <3> QED  BY <1>1, <1>10, <3>2, <3>4
  <2> QED  BY <2>1, <2>2, <2>3 DEF NothingForgotten
<1>25. Types'
  <2>1. stack' \in Seq(FrameSet)
    BY <1>1, <1>10
  <2> QED  BY <1>1, <1>19, <2>1 DEF SearchInv, Types, LoopTypes
<1>26. LoopsOfCalls(stack, nodeLoop, loops, dist)' /\ CallsDescend(stack, dist)'
  <2>1. LoopsOfCalls(stack', nodeLoop', loops', dist') /\ CallsDescend(stack', dist')
    BY <1>1, <1>11, <1>19
  <2> QED  BY <2>1
<1>27. ASSUME LoopsEnd PROVE LoopsEnd'
  <2>1. ASSUME NEW m \in Node, nodeLoop[m] # 0
        PROVE  nodeLoop[m] \in DOMAIN L /\ L[nodeLoop[m]].distance <= dist[m]
    <3>1. nodeLoop[m] \in DOMAIN loops /\ loops[nodeLoop[m]].distance <= dist[m]
      BY <1>2, <1>27, <2>1 DEF LoopsEnd
    <3> QED  BY <1>8, <3>1
  <2>2. ASSUME NEW l \in DOMAIN L
        PROVE  \/ OpenExit(intfLoop, L, dist, l) \/ KnownExit(L, nodeLoop, l)
               \/ l = f /\ dist[L[l].exit] < L[l].distance /\ i \in IntfList(L[l].exit)
    <3>1. CASE l = f
      <4>1. L[l].exit = x /\ L[l].distance = dist[x] + 1 /\ dist[x] \in Nat
        BY <1>2, <1>5, <1>6, <1>8, <3>1
      <4>2. i \in IntfList(x)
        BY <1>5 DEF Joins
      <4> QED  BY <3>1, <4>1, <4>2
    <3>2. CASE l # f
      <4>1. l \in DOMAIN loops /\ L[l] = loops[l]
        BY <1>8, <3>2
      <4>2. CASE OpenExit(intfLoop, loops, dist, l)
        BY <4>1, <4>2 DEF OpenExit
      <4>3. CASE KnownExit(loops, nodeLoop, l)
        <5>1. nodeLoop[loops[l].exit] # 0 /\ (nodeLoop[loops[l].exit] = l \/ Nearer(loops, nodeLoop[loops[l].exit], l))
          BY <4>3 DEF KnownExit
        <5>2. loops[l].exit \in Node
          BY <1>2, <4>1, LoopNumbers
        <5>3. L[nodeLoop[loops[l].exit]] = loops[nodeLoop[loops[l].exit]]
          BY <1>2, <1>8, <5>1, <5>2
        <5>4. nodeLoop[loops[l].exit] = l \/ Nearer(L, nodeLoop[loops[l].exit], l)
          BY <4>1, <5>1, <5>3 DEF Nearer
        <5> QED  BY <4>1, <5>1, <5>4 DEF KnownExit
      <4> QED  BY <1>27, <4>1, <4>2, <4>3 DEF LoopsEnd
    <3> QED  BY <3>1, <3>2
  <2>3. S = stack' /\ n = S[c].obj /\ dist' = dist /\ graph' = graph
    BY <1>1, <1>13
  <2>4. EndsBefore(L, f, i)
    BY <2>1, <2>2 DEF EndsBefore
  <2>5. FoundLoop(n, i, f, L) /\ i \in IntfList(n)
    BY <1>1, <1>4
  <2> QED  BY <1>15, <2>3, <2>4, <2>5, FoundEnds
<1> QED  BY <1>19, <1>23, <1>24, <1>25, <1>26, <1>27 DEF SearchInv

\* What is left of the calls when the last one, call c for node t, returns.
LastLeft(c, t) ==
  /\ c \in Nat \ {0} /\ DOMAIN stack = 1 .. c /\ t \in Node /\ stack[c] \in FrameSet
  /\ \A i \in stack[c].todo : intfLoop[i] # 0
  /\ stack' \in Seq(FrameSet) /\ DOMAIN stack' = 1 .. c - 1
  /\ \A k \in 1 .. c - 1 :
       /\ k \in DOMAIN stack
       /\ stack'[k].obj = stack[k].obj /\ stack'[k].intf = stack[k].intf
       /\ stack'[k].todo = stack[k].todo
       /\ stack[k].obj \in Node
       /\ stack[k].obj # t
  /\ UNCHANGED <<graph, phase, partitions, pending, dist>>
  /\ startDistance' \in Nat
  /\ nodeToZone1' = IF Result(t) = 0 THEN [nodeToZone1 EXCEPT ![t] = stack[c].intf] ELSE nodeToZone1
  /\ Result(t) = 0 => /\ UNCHANGED <<nodeLoop, intfLoop, loops>>
                      /\ intfToZone1' \in [Intfs -> Node \cup {None}]
  /\ Result(t) # 0 => /\ c > 1
                      /\ FoundLoop(stack[c - 1].obj, stack[c].intf, Result(t), loops)
  /\ c = 1 => startDistance' = stack[c].max + 1 /\ intfToZone1' = intfToZone1
  /\ c > 1 => /\ startDistance' = startDistance
              /\ \A k \in 1 .. c - 1 : stack[k].max <= stack'[k].max
              /\ stack[c].max <= stack'[c - 1].max
              /\ Result(t) = 0 =>
                   intfToZone1' = [intfToZone1 EXCEPT ![stack[c].intf] = stack[c - 1].obj]

LEMMA ReturnLeaves ==
  ASSUME SearchInv, Return, NEW c, c = Len(stack), NEW t, t = stack[c].obj
  PROVE  LastLeft(c, t)
<1>1. /\ stack # << >>
      /\ \A i \in stack[c].todo : intfLoop[i] # 0
      /\ UNCHANGED <<graph, phase, partitions, pending, dist>>
      /\ nodeToZone1' = IF Result(t) = 0 THEN [nodeToZone1 EXCEPT ![t] = stack[c].intf] ELSE nodeToZone1
  BY DEF Return, Top
<1>2. /\ stack \in Seq(FrameSet) /\ startDistance \in Nat /\ dist \in [Node -> Nat]
      /\ intfToZone1 \in [Intfs -> Node \cup {None}]
  BY DEF SearchInv, Types
<1>3. DOMAIN stack = 1 .. c /\ c \in Nat \ {0} /\ \A k \in 1 .. c : stack[k] \in FrameSet /\ stack[k].obj \in Node
  <2>1. DOMAIN stack = 1 .. c /\ c \in Nat \ {0}
    BY <1>1, <1>2
  <2>2. \A k \in 1 .. c : stack[k] \in FrameSet
    BY <1>2, <2>1
  <2> QED  BY <2>1, <2>2 DEF FrameSet
<1>4. \A k \in 1 .. c - 1 : stack[k].obj # t
  <2> SUFFICES ASSUME NEW k \in 1 .. c - 1, stack[k].obj = t PROVE FALSE
    OBVIOUS
  <2>1. k < c /\ k \in DOMAIN stack /\ c \in DOMAIN stack
    BY <1>3
  <2>2. dist[t] + 2 <= dist[t]
    BY <2>1 DEF SearchInv, CallsDescend
  <2> QED  BY <1>2, <1>3, <2>2
<1>5. stack[c].max \in Nat
  BY <1>3 DEF FrameSet
<1>6. CASE c = 1
  <2>1. Below = << >>
    BY <1>2, <1>6 DEF Below
  <2>2. stack' = << >> /\ startDistance' = stack[c].max + 1 /\ UNCHANGED <<nodeLoop, intfLoop, intfToZone1, loops>>
    BY <2>1 DEF Return, Top, NextStart, intfVars
  <2>3. stack' \in Seq(FrameSet) /\ DOMAIN stack' = 1 .. c - 1
    BY <1>6, <2>2
  <2>4. Result(t) = 0
    <3> SUFFICES ASSUME nodeLoop[t] # 0 PROVE loops[nodeLoop[t]].exit = t
      BY DEF Result
    <3>1. \E j \in 1 .. c : loops[nodeLoop[t]].exit = stack[j].obj
      BY <1>3 DEF SearchInv, LoopsOfCalls
    <3> QED  BY <1>6, <3>1
  <2> QED  BY <1>1, <1>2, <1>3, <1>5, <1>6, <2>2, <2>3, <2>4 DEF LastLeft
<1>7. CASE c # 1
  <2> DEFINE b == SubSeq(stack, 1, c - 1)
             larger == IF stack[c].max > b[c - 1].max THEN stack[c].max ELSE b[c - 1].max
  <2>1. c > 1 /\ c - 1 \in Nat /\ c - 1 # 0 /\ c - 1 \in 1 .. c
    BY <1>3, <1>7
  <2>2. b \in Seq(FrameSet) /\ Len(b) = c - 1 /\ DOMAIN b = 1 .. c - 1 /\ \A k \in 1 .. c - 1 : b[k] = stack[k]
    BY <1>2, <1>3, <2>1
  <2>3. Below = b /\ b # << >>
    BY <2>1, <2>2 DEF Below
  <2> HIDE DEF b
  <2>4. /\ stack' = [b EXCEPT ![c - 1].max = IF stack[c].max > @ THEN stack[c].max ELSE @]
        /\ IF Result(t) = 0
             THEN /\ intfToZone1' = [intfToZone1 EXCEPT ![stack[c].intf] = b[c - 1].obj]
                  /\ UNCHANGED <<nodeLoop, intfLoop, loops>>
             ELSE FoundLoop(b[c - 1].obj, stack[c].intf, Result(t), loops)
        /\ UNCHANGED startDistance
    BY <2>2, <2>3 DEF Return, Top
  <2>5. stack' = [b EXCEPT ![c - 1] = [b[c - 1] EXCEPT !.max = larger]]
    BY <2>1, <2>2, <2>4
  <2> DEFINE fr == [b[c - 1] EXCEPT !.max = larger]
  <2>6. /\ fr \in FrameSet
        /\ fr.obj = b[c - 1].obj /\ fr.intf = b[c - 1].intf /\ fr.todo = b[c - 1].todo
    <3>1. b[c - 1] \in FrameSet
      BY <1>3, <2>1, <2>2
    <3>2. larger \in Nat
      BY <1>5, <3>1 DEF FrameSet
    <3> HIDE DEF larger
    <3> QED  BY <3>1, <3>2 DEF FrameSet
  <2>13. b[c - 1].max <= larger /\ stack[c].max <= larger /\ fr.max = larger
    <3>1. b[c - 1] \in FrameSet
      BY <1>3, <2>1, <2>2
    <3>2. b[c - 1].max <= larger /\ stack[c].max <= larger
      BY <1>5, <3>1 DEF FrameSet
    <3> HIDE DEF larger
    <3>3. fr.max = larger
      BY <3>1 DEF FrameSet
    <3> QED  BY <3>2, <3>3
  <2> HIDE DEF larger
  <2>12. stack' = [b EXCEPT ![c - 1] = fr]
    BY <2>5
  <2> HIDE DEF fr
  <2>7. stack' \in Seq(FrameSet) /\ DOMAIN stack' = 1 .. c - 1
    <3>1. c - 1 \in 1 .. Len(b)
      BY <2>1, <2>2
    <3>2. stack' \in Seq(FrameSet) /\ Len(stack') = Len(b)
      BY <2>2, <2>6, <2>12, <3>1, FrameChanged
    <3> QED  BY <2>2, <3>2
  <2>8. \A k \in 1 .. c - 1 : /\ k \in DOMAIN stack
                              /\ stack'[k].obj = stack[k].obj /\ stack'[k].intf = stack[k].intf
                              /\ stack'[k].todo = stack[k].todo
                              /\ stack[k].obj \in Node
                              /\ stack[k].obj # t
    <3> SUFFICES ASSUME NEW k \in 1 .. c - 1
                 PROVE  /\ k \in DOMAIN stack
                        /\ stack'[k].obj = stack[k].obj /\ stack'[k].intf = stack[k].intf
                        /\ stack'[k].todo = stack[k].todo
                        /\ stack[k].obj \in Node
      BY <1>4
    <3>1. k \in 1 .. c /\ stack[k] \in FrameSet
      BY <1>3
    <3>2. stack'[k] = IF k = c - 1 THEN fr ELSE stack[k]
      BY <2>2, <2>12
    <3>3. b[k] = stack[k]
      BY <2>2
    <3> QED  BY <1>3, <2>6, <3>1, <3>2, <3>3
  <2>9. Result(t) = 0 => intfToZone1' \in [Intfs -> Node \cup {None}]
    <3>1. b[c - 1].obj \in Node
      BY <1>3, <2>1, <2>2
    <3> QED  BY <1>2, <2>4, <3>1
  <2>10. Result(t) # 0 => FoundLoop(stack[c - 1].obj, stack[c].intf, Result(t), loops)
    BY <2>1, <2>2, <2>4
  <2>11. startDistance' \in Nat
    BY <1>2, <2>4
  <2>14. stack[c].max <= stack'[c - 1].max /\ \A k \in 1 .. c - 1 : stack[k].max <= stack'[k].max
    <3>1. \A k \in 1 .. c - 1 : /\ stack'[k] = IF k = c - 1 THEN fr ELSE stack[k]
                                /\ b[k] = stack[k] /\ stack[k] \in FrameSet
      BY <1>3, <2>2, <2>12
    <3>2. c - 1 \in 1 .. c - 1
      BY <2>1
    <3>3. \A k \in 1 .. c - 1 : stack[k].max \in Nat
      BY <3>1 DEF FrameSet
    <3> QED  BY <2>13, <3>1, <3>2, <3>3
  <2>15. Result(t) = 0 => intfToZone1' = [intfToZone1 EXCEPT ![stack[c].intf] = stack[c - 1].obj]
    BY <2>1, <2>2, <2>4, SMTT(30)
  <2> QED  BY <1>1, <1>3, <2>1, <2>4, <2>7, <2>8, <2>9, <2>10, <2>11, <2>14, <2>15 DEF LastLeft
<1> QED  BY <1>6, <1>7

\* Loops of nodes and interfaces stay together, if the last call returns.
TogetherAfter ==
  /\ LoopTypes(nodeLoop', intfLoop', loops')
  /\ LoopsPlaced' /\ LoopsOfCalls(stack', nodeLoop', loops', dist)
  /\ LoopsEnd => LoopsEnd'

\* Loop f is returned from call c for node t to its caller.
LoopReturned(c, t, f) ==
  /\ intfLoop' = [intfLoop EXCEPT ![stack[c].intf] = f] /\ intfToZone1' = intfToZone1
  /\ \A m \in Node : m # stack[c - 1].obj => nodeLoop'[m] = nodeLoop[m]
  /\ nodeLoop[t] = f /\ c > 1 /\ Joins(stack[c].intf, t, stack[c - 1].obj)

\* The loop of the last call that ends at its node cannot be returned to another call.
LEMMA ReturnNoLoop ==
  ASSUME SearchInv, Return, NEW c, c = Len(stack), NEW t, t = stack[c].obj, Result(t) = 0
  PROVE  TogetherAfter
<1>0. LastLeft(c, t)
  BY ReturnLeaves
<1> DEFINE S == stack'
<1>1. /\ c \in Nat \ {0} /\ DOMAIN stack = 1 .. c /\ t \in Node
      /\ DOMAIN S = 1 .. c - 1
      /\ \A k \in 1 .. c - 1 : k \in DOMAIN stack /\ S[k].obj = stack[k].obj /\ stack[k].obj \in Node
      /\ nodeLoop' = nodeLoop /\ intfLoop' = intfLoop /\ loops' = loops
      /\ graph' = graph /\ dist' = dist
  BY <1>0 DEF LastLeft
<1>2. \A m : IntfList(m)' = IntfList(m)
  BY <1>1, GraphKept
<1> HIDE DEF S
<1>3. LoopsOfCalls(S, nodeLoop, loops, dist)
  <2> SUFFICES ASSUME NEW k \in DOMAIN S, nodeLoop[S[k].obj] # 0
               PROVE  /\ nodeLoop[S[k].obj] \in DOMAIN loops
                      /\ loops[nodeLoop[S[k].obj]].redirect = 0
                      /\ \E j \in 1 .. k :
                           /\ loops[nodeLoop[S[k].obj]].exit = S[j].obj
                           /\ loops[nodeLoop[S[k].obj]].distance = IF j < k THEN dist[S[j].obj] + 1 ELSE dist[S[j].obj]
                      /\ \A j \in 1 .. k - 1 : nodeLoop[S[j].obj] < nodeLoop[S[k].obj]
    BY DEF LoopsOfCalls
  <2>1. /\ k \in DOMAIN stack /\ k \in 1 .. c - 1
        /\ \A j \in 1 .. k : j \in 1 .. c - 1
        /\ \A j \in 1 .. k - 1 : j \in 1 .. c - 1
    BY <1>1
  <2>2. S[k].obj = stack[k].obj
    BY <1>1, <2>1
  <2>3. /\ nodeLoop[stack[k].obj] \in DOMAIN loops
        /\ loops[nodeLoop[stack[k].obj]].redirect = 0
        /\ \E j \in 1 .. k :
             /\ loops[nodeLoop[stack[k].obj]].exit = stack[j].obj
             /\ loops[nodeLoop[stack[k].obj]].distance =
                  IF j < k THEN dist[stack[j].obj] + 1 ELSE dist[stack[j].obj]
        /\ \A j \in 1 .. k - 1 : nodeLoop[stack[j].obj] < nodeLoop[stack[k].obj]
    BY <2>1, <2>2 DEF SearchInv, LoopsOfCalls
  <2> QED  BY <1>1, <2>1, <2>2, <2>3
<1>4. ASSUME NEW m \in Node, NEW j \in IntfList(m), intfLoop[j] # 0
      PROVE  Place(S, nodeLoop, loops, dist, intfLoop[j], m)
  <2> DEFINE F == intfLoop[j]
             R == OuterOf(loops)[F]
  <2>1. Place(stack, nodeLoop, loops, dist, F, m)
    BY <1>4 DEF SearchInv, LoopsPlaced
  <2>2. F \in DOMAIN loops /\ IsLoops(loops)
    BY <1>4, IntfListIsSet DEF SearchInv, Types
  <2>3. R # 0
    BY <2>2, OuterIsLast, LoopNumbers
  <2> HIDE DEF F
  <2>4. CASE SamePlace(nodeLoop, loops, F, m)
    BY <2>4 DEF Place, F
  <2>5. CASE ExitPlace(stack, nodeLoop, loops, F, m)
    <3>1. nodeLoop[m] # 0 /\ loops[R].exit = m /\ \A k \in DOMAIN stack : nodeLoop[stack[k].obj] # R
      BY <2>5 DEF ExitPlace
    <3>2. \A k \in DOMAIN S : nodeLoop[S[k].obj] # R
      BY <1>1, <3>1
    <3>3. ExitPlace(S, nodeLoop, loops, F, m)
      BY <3>1, <3>2 DEF ExitPlace
    <3> QED  BY <3>3 DEF Place, F
  <2>6. CASE LaterPlace(stack, nodeLoop, loops, dist, F, m)
    <3>1. PICK k, l \in DOMAIN stack : stack[k].obj = m /\ k < l /\ nodeLoop[stack[l].obj] = R
                                       /\ dist[loops[R].exit] <= dist[m]
      BY <2>6 DEF LaterPlace
    <3>2. l # c
      <4> SUFFICES ASSUME l = c PROVE FALSE
        OBVIOUS
      <4>1. nodeLoop[t] = R
        BY <3>1
      <4>2. loops[R].exit = t
        BY <2>3, <4>1 DEF Result
      <4>3. dist[m] + 2 <= dist[t]
        BY <3>1 DEF SearchInv, CallsDescend
      <4>4. dist[m] \in Nat /\ dist[t] \in Nat
        BY <1>1 DEF SearchInv, Types
      <4> QED  BY <3>1, <4>2, <4>3, <4>4
    <3>3. k \in 1 .. c - 1 /\ l \in 1 .. c - 1
      BY <1>1, <3>1, <3>2
    <3>4. k \in DOMAIN S /\ l \in DOMAIN S /\ S[k].obj = m /\ nodeLoop[S[l].obj] = R
      BY <1>1, <3>1, <3>3
    <3>5. LaterPlace(S, nodeLoop, loops, dist, F, m)
      BY <3>1, <3>4 DEF LaterPlace
    <3> QED  BY <3>5 DEF Place, F
  <2> QED  BY <2>1, <2>4, <2>5, <2>6 DEF Place, F
<1>5. \A m \in Node : nodeLoop[m] # 0 => \E j \in IntfList(m) : intfLoop[j] # 0
  BY DEF SearchInv, LoopsPlaced
<1>6. LoopsPlaced'
  <2>1. \A m \in Node : \A j \in IntfList(m) :
          intfLoop'[j] # 0 => Place(stack', nodeLoop', loops', dist', intfLoop'[j], m)
    BY <1>1, <1>4 DEF S
  <2>2. \A m \in Node : nodeLoop'[m] # 0 => \E j \in IntfList(m) : intfLoop'[j] # 0
    BY <1>1, <1>5
  <2> QED  BY <1>2, <2>1, <2>2 DEF LoopsPlaced
<1>7. LoopTypes(nodeLoop', intfLoop', loops')
  BY <1>1, SearchIsLoopTypes
<1>8. LoopsOfCalls(stack', nodeLoop', loops', dist)
  BY <1>1, <1>3 DEF S
<1>9. LoopsEnd => LoopsEnd'
  BY <1>1, <1>2 DEF LoopsEnd, OpenExit, IntfList
<1> QED  BY <1>6, <1>7, <1>8, <1>9 DEF TogetherAfter

LEMMA ReturnLoop ==
  ASSUME SearchInv, Return, NEW c, c = Len(stack), NEW t, t = stack[c].obj,
         NEW f, f = Result(t), f # 0
  PROVE  TogetherAfter /\ LoopReturned(c, t, f)
<1>0. LastLeft(c, t)
  BY ReturnLeaves
<1> DEFINE S == stack'
           n == c - 1
           obj == stack[n].obj
           i == stack[c].intf
<1>1. /\ c \in Nat \ {0} /\ DOMAIN stack = 1 .. c /\ t \in Node
      /\ DOMAIN S = 1 .. n
      /\ \A k \in 1 .. n : k \in DOMAIN stack /\ S[k].obj = stack[k].obj /\ stack[k].obj \in Node
      /\ graph' = graph /\ dist' = dist /\ c > 1
      /\ FoundLoop(obj, i, f, loops)
  BY <1>0 DEF LastLeft
<1>2. /\ dist \in [Node -> Nat] /\ nodeLoop \in [Node -> Nat] /\ IsLoops(loops) /\ graph \in Topologies
      /\ \A m \in Node : nodeLoop[m] # 0 => nodeLoop[m] \in DOMAIN loops
  <2>1. Types
    BY DEF SearchInv
  <2> QED  BY <2>1 DEF Types
<1>3. nodeLoop[t] = f /\ loops[f].exit # t
  BY DEF Result
<1>4. n \in Nat \ {0} /\ n \in 1 .. n /\ n \in DOMAIN S /\ S[n].obj = obj /\ obj \in Node
  <2>1. n \in Nat \ {0} /\ n \in 1 .. n
    <3>1. c \in Nat \ {0} /\ c > 1
      BY <1>1
    <3> QED  BY <3>1
  <2> HIDE DEF n
  <2> QED  BY <1>1, <2>1
<1>5. Joins(i, t, obj) /\ i \in IntfList(obj) /\ i \in IntfList(t)
  <2>1. c \in DOMAIN stack /\ c > 1
    BY <1>1
  <2> QED  BY <1>1, <1>4, <2>1 DEF SearchInv, CallsJoined, Joins
<1>6. /\ f \in DOMAIN loops
      /\ loops[f].redirect = 0
      /\ \E j \in 1 .. c :
           /\ loops[f].exit = stack[j].obj
           /\ loops[f].distance = IF j < c THEN dist[stack[j].obj] + 1 ELSE dist[stack[j].obj]
      /\ \A j \in 1 .. c - 1 : nodeLoop[stack[j].obj] < f
  <2>1. LoopsOfCalls(stack, nodeLoop, loops, dist)
    BY DEF SearchInv
  <2>2. c \in DOMAIN stack /\ nodeLoop[stack[c].obj] = f
    BY <1>1, <1>3
  <2> HIDE DEF S, n, obj, i
  <2> QED  BY <2>1, <2>2 DEF LoopsOfCalls
<1> HIDE DEF S
<1>7. CallsDescend(S, dist)
  <2>1. /\ \A k \in DOMAIN S : S[k].obj \in Node
        /\ \A j, k \in DOMAIN S : j < k => dist[S[j].obj] + 2 <= dist[S[k].obj]
    BY <1>1 DEF SearchInv, CallsDescend
  <2> QED  BY <1>1, <1>4, <2>1 DEF CallsDescend
<1>8. LoopsOfCalls(S, nodeLoop, loops, dist)
  <2> SUFFICES ASSUME NEW k \in DOMAIN S, nodeLoop[S[k].obj] # 0
               PROVE  /\ nodeLoop[S[k].obj] \in DOMAIN loops
                      /\ loops[nodeLoop[S[k].obj]].redirect = 0
                      /\ \E j \in 1 .. k :
                           /\ loops[nodeLoop[S[k].obj]].exit = S[j].obj
                           /\ loops[nodeLoop[S[k].obj]].distance = IF j < k THEN dist[S[j].obj] + 1 ELSE dist[S[j].obj]
                      /\ \A j \in 1 .. k - 1 : nodeLoop[S[j].obj] < nodeLoop[S[k].obj]
    BY DEF LoopsOfCalls
  <2>1. /\ k \in DOMAIN stack /\ k \in 1 .. n
        /\ \A j \in 1 .. k : j \in 1 .. n
        /\ \A j \in 1 .. k - 1 : j \in 1 .. n
    BY <1>1
  <2>2. S[k].obj = stack[k].obj
    BY <1>1, <2>1
  <2>3. /\ nodeLoop[stack[k].obj] \in DOMAIN loops
        /\ loops[nodeLoop[stack[k].obj]].redirect = 0
        /\ \E j \in 1 .. k :
             /\ loops[nodeLoop[stack[k].obj]].exit = stack[j].obj
             /\ loops[nodeLoop[stack[k].obj]].distance =
                  IF j < k THEN dist[stack[j].obj] + 1 ELSE dist[stack[j].obj]
        /\ \A j \in 1 .. k - 1 : nodeLoop[stack[j].obj] < nodeLoop[stack[k].obj]
    BY <2>1, <2>2 DEF SearchInv, LoopsOfCalls
  <2> QED  BY <1>1, <2>1, <2>2, <2>3
<1>9. PICK e \in DOMAIN S : loops[f].exit = S[e].obj /\ loops[f].distance = dist[S[e].obj] + 1 /\ e \in 1 .. n
  <2>1. PICK e \in 1 .. c : /\ loops[f].exit = stack[e].obj
                            /\ loops[f].distance = IF e < c THEN dist[stack[e].obj] + 1 ELSE dist[stack[e].obj]
    BY <1>6
  <2>2. e < c /\ e \in 1 .. n
    BY <1>1, <1>3, <2>1
  <2> QED  BY <1>1, <2>1, <2>2
<1>10. NewlyFound(S, nodeLoop, loops, dist, f)
  <2>1. \A k \in DOMAIN S : nodeLoop[S[k].obj] < f
    BY <1>1, <1>6
  <2>2. \E j \in DOMAIN S : loops[f].exit = S[j].obj /\ loops[f].distance = dist[S[j].obj] + 1
    BY <1>9
  <2> QED  BY <1>6, <2>1, <2>2 DEF NewlyFound
<1>11. Finds(S, nodeLoop, loops, dist, f, n)
  BY <1>1, <1>2, <1>4, <1>7, <1>8, <1>10 DEF Finds
<1>12. OuterOf(loops)[f] = f
  BY <1>2, <1>6, OuterIsLast
<1>13. ASSUME NEW m \in Node, NEW j \in IntfList(m), intfLoop[j] # 0
       PROVE  PlaceBefore(S, nodeLoop, loops, dist, f, intfLoop[j], m)
  <2> DEFINE F == intfLoop[j]
             R == OuterOf(loops)[F]
  <2>1. Place(stack, nodeLoop, loops, dist, F, m)
    BY <1>13 DEF SearchInv, LoopsPlaced
  <2> HIDE DEF F
  <2>4. CASE SamePlace(nodeLoop, loops, F, m)
    BY <2>4 DEF PlaceBefore, F
  <2>5. CASE ExitPlace(stack, nodeLoop, loops, F, m)
    <3>1. nodeLoop[m] # 0 /\ loops[R].exit = m /\ \A k \in DOMAIN stack : nodeLoop[stack[k].obj] # R
      BY <2>5 DEF ExitPlace
    <3>2. \A k \in DOMAIN S : nodeLoop[S[k].obj] # R
      BY <1>1, <3>1
    <3>3. R # f
      <4>1. c \in DOMAIN stack
        BY <1>1
      <4>2. nodeLoop[stack[c].obj] # R
        BY <3>1, <4>1
      <4> QED  BY <1>3, <4>2
    <3>4. ExitPlace(S, nodeLoop, loops, F, m)
      BY <3>1, <3>2 DEF ExitPlace
    <3> QED  BY <3>3, <3>4 DEF PlaceBefore, F
  <2>6. CASE LaterPlace(stack, nodeLoop, loops, dist, F, m)
    <3>1. PICK k, l \in DOMAIN stack : stack[k].obj = m /\ k < l /\ nodeLoop[stack[l].obj] = R
                                       /\ dist[loops[R].exit] <= dist[m]
      BY <2>6 DEF LaterPlace
    <3>2. k \in 1 .. n /\ k \in DOMAIN S /\ S[k].obj = m
      BY <1>1, <3>1
    <3>3. CASE l = c
      <4>1. R = f
        BY <1>3, <3>1, <3>3
      <4>2. FoundPlace(S, loops, dist, f, F, m)
        BY <3>1, <3>2, <4>1 DEF FoundPlace
      <4> QED  BY <4>2 DEF PlaceBefore, F
    <3>4. CASE l # c
      <4>1. l \in 1 .. n /\ l \in DOMAIN S /\ nodeLoop[S[l].obj] = R
        BY <1>1, <3>1, <3>4
      <4>2. LaterPlace(S, nodeLoop, loops, dist, F, m)
        BY <3>1, <3>2, <4>1 DEF LaterPlace
      <4> QED  BY <4>2 DEF PlaceBefore, F
    <3> QED  BY <3>3, <3>4
  <2> QED  BY <2>1, <2>4, <2>5, <2>6 DEF Place, F
<1>14. ASSUME NEW m \in Node, i \in IntfList(m)
       PROVE  PlaceBefore(S, nodeLoop, loops, dist, f, f, m)
  <2>1. CASE m = t
    <3>1. SamePlace(nodeLoop, loops, f, t)
      BY <1>3 DEF SamePlace
    <3> QED  BY <2>1, <3>1 DEF PlaceBefore
  <2>2. CASE m # t
    <3>1. Joins(i, t, m)
      BY <1>5, <1>14, <2>2 DEF Joins
    <3>2. m = obj
      <4>1. \A x \in Node : Joins(i, t, x) => x = Next1(t, i)
        BY <1>1, <1>2, <1>5, TwoEnds
      <4> QED  BY <1>4, <1>5, <3>1, <4>1
    <3>3. dist[loops[f].exit] <= dist[m]
      <4>1. CASE e = n
        BY <1>2, <1>4, <1>9, <3>2, <4>1
      <4>2. CASE e # n
        <5>1. e < n /\ e \in DOMAIN S
          BY <1>4, <1>9, <4>2
        <5>2. dist[S[e].obj] + 2 <= dist[S[n].obj]
          BY <1>4, <1>7, <5>1 DEF CallsDescend
        <5>3. dist[S[e].obj] \in Nat /\ dist[S[n].obj] \in Nat
          BY <1>1, <1>2, <1>4, <1>9
        <5> QED  BY <1>4, <1>9, <3>2, <5>2, <5>3
      <4> QED  BY <4>1, <4>2
    <3>4. \E k \in DOMAIN S : S[k].obj = m /\ dist[loops[f].exit] <= dist[m]
      BY <1>4, <3>2, <3>3
    <3>5. FoundPlace(S, loops, dist, f, f, m)
      BY <1>12, <3>4 DEF FoundPlace
    <3> QED  BY <3>5 DEF PlaceBefore
  <2> QED  BY <2>1, <2>2
<1>15. /\ LoopTypes(nodeLoop', intfLoop', loops')
       /\ LoopsPlaced' /\ LoopsOfCalls(S, nodeLoop', loops', dist)
       /\ f # 0 /\ intfLoop' = [intfLoop EXCEPT ![i] = f] /\ intfToZone1' = intfToZone1
       /\ \A m \in Node : m # obj => nodeLoop'[m] = nodeLoop[m]
  <2>1. S = stack'
    BY DEF S
  <2>2. obj = S[n].obj
    BY <1>4
  <2> HIDE DEF n, obj, i
  <2>3. PlacesBefore(S, loops, f, i)
    BY <1>13, <1>14 DEF PlacesBefore
  <2>4. FoundLoop(obj, i, f, loops) /\ i \in IntfList(obj) /\ dist' = dist /\ graph' = graph
    BY <1>1, <1>5
  <2>5. Together(S, f, i, obj)
    BY <1>11, <2>1, <2>2, <2>3, <2>4, FoundKeeps
  <2> QED  BY <2>5 DEF Together
<1>16. ASSUME LoopsEnd PROVE LoopsEnd'
  <2>1. \A m \in Node : nodeLoop[m] # 0 =>
          nodeLoop[m] \in DOMAIN loops /\ loops[nodeLoop[m]].distance <= dist[m]
    BY <1>2, <1>16 DEF LoopsEnd
  <2>2. \A l \in DOMAIN loops : OpenExit(intfLoop, loops, dist, l) \/ KnownExit(loops, nodeLoop, l)
    BY <1>16 DEF LoopsEnd
  <2>3. obj = S[n].obj /\ S = stack'
    BY <1>4 DEF S
  <2> HIDE DEF n, obj, i
  <2>4. EndsBefore(loops, f, i)
    BY <2>1, <2>2 DEF EndsBefore
  <2>5. FoundLoop(obj, i, f, loops) /\ i \in IntfList(obj) /\ dist' = dist /\ graph' = graph
    BY <1>1, <1>5
  <2> QED  BY <1>11, <2>3, <2>4, <2>5, FoundEnds
<1>17. /\ LoopsOfCalls(stack', nodeLoop', loops', dist)
       /\ \A m \in Node : m # stack[c - 1].obj => nodeLoop'[m] = nodeLoop[m]
       /\ Joins(stack[c].intf, t, stack[c - 1].obj)
  BY <1>5, <1>15 DEF S
<1> QED  BY <1>1, <1>3, <1>15, <1>16, <1>17 DEF LoopReturned, TogetherAfter

\* The node of the last call is left, and that is all.
ReachedAfter(t) ==
  /\ Active(t) /\ \A m : Active(m)' <=> Active(m) /\ m # t
  /\ Reached(t) /\ \A m \in Node : Reached(m)' <=> Reached(m)
  /\ \A m \in Node : Left(m)' <=> Left(m) \/ m = t

LEMMA ReturnReaches ==
  ASSUME SearchInv, Return, NEW c, c = Len(stack), NEW t, t = stack[c].obj
  PROVE  ReachedAfter(t)
<1> DEFINE r == Result(t)
<1>0. LastLeft(c, t)
  BY ReturnLeaves
<1>1. /\ c \in Nat \ {0} /\ DOMAIN stack = 1 .. c /\ t \in Node /\ stack[c] \in FrameSet
      /\ DOMAIN stack' = 1 .. c - 1
      /\ \A k \in 1 .. c - 1 :
           /\ k \in DOMAIN stack
           /\ stack'[k].obj = stack[k].obj
           /\ stack[k].obj \in Node
           /\ stack[k].obj # t
      /\ UNCHANGED <<graph, phase, partitions, pending, dist>>
      /\ nodeToZone1' = IF r = 0 THEN [nodeToZone1 EXCEPT ![t] = stack[c].intf] ELSE nodeToZone1
      /\ r = 0 => UNCHANGED <<nodeLoop, intfLoop, loops>>
  BY <1>0 DEF LastLeft
<1>3. r # 0 => /\ \A m \in Node : m # stack[c - 1].obj => nodeLoop'[m] = nodeLoop[m]
               /\ nodeLoop[t] = r /\ c > 1
  <2> SUFFICES ASSUME r # 0 PROVE LoopReturned(c, t, r)
    BY DEF LoopReturned
  <2> HIDE DEF r
  <2>1. r = Result(t)
    BY DEF r
  <2> QED  BY <2>1, ReturnLoop
<1>4. /\ nodeToZone1 \in [Node -> Intfs \cup {None}]
      /\ c \in DOMAIN stack
  BY <1>1 DEF SearchInv, Types
<1> HIDE DEF r
<1>8. /\ nodeToZone1[t] = None
      /\ \A m \in Node : m # t => nodeToZone1'[m] = nodeToZone1[m]
      /\ r = 0 => nodeToZone1'[t] = stack[c].intf
      /\ r # 0 => nodeToZone1'[t] = None
  BY <1>1, <1>4 DEF SearchInv, CallsJoined
<1>10. Active(t) /\ \A m : Active(m)' <=> Active(m) /\ m # t
  <2>1. Active(t)
    BY <1>4 DEF Active
  <2>2. ASSUME NEW m, Active(m)' PROVE Active(m) /\ m # t
    BY <1>1, <2>2 DEF Active
  <2>3. ASSUME NEW m, Active(m), m # t PROVE Active(m)'
    <3>1. PICK k \in DOMAIN stack : stack[k].obj = m
      BY <2>3 DEF Active
    <3>2. k \in 1 .. c - 1
      BY <1>1, <2>3, <3>1
    <3> QED  BY <1>1, <3>1, <3>2 DEF Active
  <2> QED  BY <2>1, <2>2, <2>3
<1>11. /\ \A m \in Node : Reached(m)' <=> Reached(m)
       /\ \A m \in Node : Left(m)' <=> Left(m) \/ m = t
       /\ Reached(t)
  <2>1. ASSUME NEW m \in Node, m = t PROVE Reached(m)' /\ Reached(m)
    <3>0. Active(m)
      BY <1>10, <2>1
    <3>1. CASE r = 0
      <4>1. CASE c = 1
        <5>1. stack[1].obj \in partitions
          BY <1>4, <4>1 DEF SearchInv, CallsJoined
        <5>2. m \in partitions'
          BY <1>1, <2>1, <4>1, <5>1
        <5> QED  BY <3>0, <5>2 DEF Reached
      <4>2. CASE c # 1
        <5>1. c > 1 /\ c - 1 \in 1 .. c - 1
          BY <1>1, <4>2
        <5>2. Joins(stack[c].intf, t, stack[c - 1].obj)
          BY <1>1, <1>4, <5>1 DEF SearchInv, CallsJoined
        <5>3. stack[c].intf \in Intfs
          BY <5>2, IntfListIsSet DEF Joins
        <5>4. nodeToZone1'[m] # None
          BY <1>8, <2>1, <3>1, <5>3, TopologyAssumption
        <5> QED  BY <3>0, <5>4 DEF Reached
      <4> QED  BY <4>1, <4>2
    <3>2. CASE r # 0
      <4>1. c - 1 \in 1 .. c - 1
        BY <1>1, <1>3, <3>2
      <4>2. t # stack[c - 1].obj
        BY <1>1, <4>1
      <4>3. nodeLoop'[m] # 0
        BY <1>3, <2>1, <3>2, <4>2
      <4> QED  BY <3>0, <4>3 DEF Reached
    <3> QED  BY <3>1, <3>2
  <2>2. ASSUME NEW m \in Node, m # t PROVE Reached(m)' <=> Reached(m)
    <3>1. CASE r = 0
      BY <1>1, <1>8, <1>10, <2>2, <3>1 DEF Reached
    <3>2. CASE r # 0
      <4>1. CASE m = stack[c - 1].obj
        <5>1. c - 1 \in 1 .. c - 1 /\ c - 1 \in DOMAIN stack
          BY <1>1, <1>3, <3>2
        <5>2. Active(m)
          BY <4>1, <5>1 DEF Active
        <5> QED  BY <1>10, <2>2, <5>2 DEF Reached
      <4>2. CASE m # stack[c - 1].obj
        <5>1. nodeLoop'[m] = nodeLoop[m]
          BY <1>3, <3>2, <4>2
        <5> QED  BY <1>1, <1>8, <1>10, <2>2, <5>1 DEF Reached
      <4> QED  BY <4>1, <4>2
    <3> QED  BY <3>1, <3>2
  <2>3. \A m \in Node : Reached(m)' <=> Reached(m)
    BY <2>1, <2>2
  <2>4. Reached(t)
    BY <1>1, <2>1
  <2>5. ASSUME NEW m \in Node PROVE Left(m)' <=> Left(m) \/ m = t
    <3>1. Active(m)' <=> Active(m) /\ m # t
      BY <1>10
    <3> QED  BY <1>1, <1>10, <2>3, <2>4, <3>1 DEF Left
  <2> QED  BY <2>3, <2>4, <2>5
<1> QED  BY <1>10, <1>11 DEF ReachedAfter

LEMMA ReturnKeeps ==
  ASSUME SearchInv, Return
  PROVE  SearchInv' /\ (LoopsEnd => LoopsEnd')
<1> DEFINE c == Len(stack)
           t == stack[c].obj
           r == Result(t)
<1>0. LastLeft(c, t)
  BY ReturnLeaves
<1>1. /\ c \in Nat \ {0} /\ DOMAIN stack = 1 .. c /\ t \in Node /\ stack[c] \in FrameSet
      /\ \A i \in stack[c].todo : intfLoop[i] # 0
      /\ stack' \in Seq(FrameSet) /\ DOMAIN stack' = 1 .. c - 1
      /\ \A k \in 1 .. c - 1 :
           /\ k \in DOMAIN stack
           /\ stack'[k].obj = stack[k].obj /\ stack'[k].intf = stack[k].intf
           /\ stack'[k].todo = stack[k].todo
           /\ stack[k].obj \in Node
           /\ stack[k].obj # t
      /\ UNCHANGED <<graph, phase, partitions, pending, dist>>
      /\ startDistance' \in Nat
      /\ nodeToZone1' = IF r = 0 THEN [nodeToZone1 EXCEPT ![t] = stack[c].intf] ELSE nodeToZone1
      /\ r = 0 => /\ UNCHANGED <<nodeLoop, intfLoop, loops>>
                  /\ intfToZone1' \in [Intfs -> Node \cup {None}]
  BY <1>0 DEF LastLeft
<1>2. /\ LoopTypes(nodeLoop', intfLoop', loops')
      /\ LoopsPlaced' /\ LoopsOfCalls(stack', nodeLoop', loops', dist)
      /\ LoopsEnd => LoopsEnd'
  <2>1. TogetherAfter
    <3> HIDE DEF t, r, c
    <3>1. c = Len(stack) /\ t = stack[c].obj /\ r = Result(t)
      BY DEF c, t, r
    <3>2. CASE r = 0
      BY <3>1, <3>2, ReturnNoLoop
    <3>3. CASE r # 0
      BY <3>1, <3>3, ReturnLoop
    <3> QED  BY <3>2, <3>3
  <2> QED  BY <2>1 DEF TogetherAfter
<1>3. r # 0 => /\ intfLoop' = [intfLoop EXCEPT ![stack[c].intf] = r] /\ intfToZone1' = intfToZone1
               /\ \A m \in Node : m # stack[c - 1].obj => nodeLoop'[m] = nodeLoop[m]
               /\ nodeLoop[t] = r /\ c > 1 /\ Joins(stack[c].intf, t, stack[c - 1].obj)
  <2> SUFFICES ASSUME r # 0 PROVE LoopReturned(c, t, r)
    BY DEF LoopReturned
  <2> HIDE DEF c, t, r
  <2>1. c = Len(stack) /\ t = stack[c].obj /\ r = Result(t)
    BY DEF c, t, r
  <2> QED  BY <2>1, ReturnLoop
<1>4. /\ dist \in [Node -> Nat] /\ nodeLoop \in [Node -> Nat] /\ intfLoop \in [Intfs -> Nat] /\ graph \in Topologies
      /\ nodeToZone1 \in [Node -> Intfs \cup {None}]
      /\ stack[c].intf \in Intfs \cup {None}
      /\ c \in DOMAIN stack
  BY <1>1 DEF SearchInv, Types, FrameSet
<1> HIDE DEF c, t, r
<1>5. Types'
  <2>1. nodeToZone1' \in [Node -> Intfs \cup {None}]
    BY <1>1, <1>4
  <2>2. intfToZone1' \in [Intfs -> Node \cup {None}]
    BY <1>1, <1>3 DEF SearchInv, Types
  <2> QED  BY <1>1, <1>2, <2>1, <2>2 DEF SearchInv, Types, LoopTypes
<1>6. /\ \A m, k, j : Joins(j, m, k)' <=> Joins(j, m, k)
      /\ \A m : IntfList(m)' = IntfList(m)
  BY <1>1, GraphKept
<1>7. CallsDescend(stack', dist)
  <2>1. /\ \A k \in DOMAIN stack' : stack'[k].obj \in Node
        /\ \A j, k \in DOMAIN stack' : j < k => dist[stack'[j].obj] + 2 <= dist[stack'[k].obj]
    BY <1>1 DEF SearchInv, CallsDescend
  <2>2. c - 1 \in Nat
    BY <1>1
  <2> QED  BY <1>1, <2>1, <2>2 DEF CallsDescend
<1>8. /\ nodeToZone1[t] = None
      /\ \A m \in Node : m # t => nodeToZone1'[m] = nodeToZone1[m]
      /\ r = 0 => nodeToZone1'[t] = stack[c].intf
      /\ r # 0 => nodeToZone1'[t] = None
  BY <1>1, <1>4 DEF SearchInv, CallsJoined, t
<1>9. CallsJoined'
  <2>1. stack' # << >> => /\ phase' = "search"
                          /\ stack'[1].obj \in partitions' /\ stack'[1].intf = None
    <3> SUFFICES ASSUME stack' # << >>
                 PROVE  phase' = "search" /\ stack'[1].obj \in partitions' /\ stack'[1].intf = None
      OBVIOUS
    <3>1. 1 \in DOMAIN stack' /\ 1 \in 1 .. c - 1
      BY <1>1
    <3>2. stack # << >>
      BY <1>1
    <3> QED  BY <1>1, <3>1, <3>2 DEF SearchInv, CallsJoined
  <2>2. ASSUME NEW k \in DOMAIN stack', NEW q \in Node, stack'[k].obj = q
        PROVE  stack'[k].todo \subseteq IntfList(q)' \ {stack'[k].intf} /\ nodeToZone1'[q] = None
    <3>1. k \in DOMAIN stack /\ k \in 1 .. c - 1 /\ stack[k].obj = q /\ q # t
      BY <1>1, <2>2
    <3>2. stack[k].todo \subseteq IntfList(q) \ {stack[k].intf} /\ nodeToZone1[q] = None
      BY <3>1 DEF SearchInv, CallsJoined
    <3> QED  BY <1>1, <1>6, <1>8, <3>1, <3>2
  <2>3. ASSUME NEW k \in DOMAIN stack', k > 1, NEW q \in Node, NEW m \in Node, NEW j,
               q = stack'[k].obj, m = stack'[k - 1].obj, j = stack'[k].intf
        PROVE  Joins(j, q, m)' /\ j \notin stack'[k - 1].todo
    <3>1. k \in DOMAIN stack /\ k \in 1 .. c - 1 /\ k - 1 \in 1 .. c - 1
      BY <1>1, <2>3
    <3>2. q = stack[k].obj /\ m = stack[k - 1].obj /\ j = stack[k].intf
      BY <1>1, <2>3, <3>1
    <3>3. Joins(j, q, m) /\ j \notin stack[k - 1].todo
      BY <2>3, <3>1, <3>2 DEF SearchInv, CallsJoined
    <3> QED  BY <1>1, <1>6, <3>1, <3>3
  <2> QED  BY <2>1, <2>2, <2>3 DEF CallsJoined
<1>10. /\ Active(t) /\ \A m : Active(m)' <=> Active(m) /\ m # t
       /\ Reached(t) /\ \A m \in Node : Reached(m)' <=> Reached(m)
       /\ \A m \in Node : Left(m)' <=> Left(m) \/ m = t
  <2>1. c = Len(stack) /\ t = stack[c].obj
    BY DEF c, t
  <2>2. ReachedAfter(t)
    BY <2>1, ReturnReaches
  <2> QED  BY <2>2 DEF ReachedAfter
<1>11. /\ \A m \in Node : Reached(m)' <=> Reached(m)
       /\ \A m \in Node : Left(m)' <=> Left(m) \/ m = t
       /\ Reached(t)
  BY <1>10
<1>12. /\ \A j \in Intfs : intfLoop[j] # 0 => intfLoop'[j] # 0
       /\ \A j \in Intfs : \A q, m \in Node : Joins(j, q, m) /\ intfLoop'[j] # 0 /\ intfLoop[j] = 0 => Reached(q)
  <2>1. CASE r = 0
    BY <1>1, <2>1
  <2>2. CASE r # 0
    <3>1. \A j \in Intfs : intfLoop'[j] = IF j = stack[c].intf THEN r ELSE intfLoop[j]
      BY <1>3, <1>4, <2>2
    <3>2. ASSUME NEW q \in Node, NEW m \in Node, Joins(stack[c].intf, q, m) PROVE Reached(q)
      <4>1. Joins(stack[c].intf, t, stack[c - 1].obj) /\ stack[c].intf \in IntfList(t)
        BY <1>3, <2>2 DEF Joins
      <4>2. c - 1 \in 1 .. c - 1 /\ stack[c - 1].obj \in Node /\ c - 1 \in DOMAIN stack
        BY <1>1, <1>3, <2>2
      <4>3. q # t => Joins(stack[c].intf, t, q)
        BY <3>2, <4>1 DEF Joins
      <4>4. q = t \/ q = stack[c - 1].obj
        BY <1>1, <1>4, <4>1, <4>2, <4>3, TwoEnds
      <4>5. Active(stack[c - 1].obj)
        BY <4>2 DEF Active
      <4> QED  BY <1>11, <4>4, <4>5 DEF Reached
    <3> QED  BY <2>2, <3>1, <3>2
  <2> QED  BY <2>1, <2>2
<1>13. NothingForgotten'
  <2>1. ASSUME NEW j \in Intfs, NEW q \in Node, NEW m \in Node, Joins(j, q, m)'
        PROVE  /\ Left(q)' => Reached(m)'
               /\ intfLoop'[j] # 0 => Reached(q)'
    <3>1. Joins(j, q, m) /\ Joins(j, m, q)
      BY <1>6, <2>1, JoinsBoth
    <3>2. /\ Left(q) => Reached(m)
          /\ intfLoop[j] # 0 => Reached(q)
          /\ intfLoop[j] # 0 => Reached(m)
      BY <3>1 DEF SearchInv, NothingForgotten
    <3>3. intfLoop'[j] # 0 => Reached(q)
      BY <1>12, <3>1, <3>2
    <3>4. q = t => Reached(m)
      <4> SUFFICES ASSUME q = t PROVE Reached(m)
        OBVIOUS
      <4>1. j \notin stack[c].todo => Reached(m)
        BY <1>4, <3>1 DEF SearchInv, NothingForgotten, t
      <4> QED  BY <1>1, <3>2, <4>1
    <3> QED  BY <1>11, <3>2, <3>3, <3>4
  <2>2. ASSUME NEW k \in DOMAIN stack', NEW j \in Intfs, NEW q \in Node, NEW m \in Node,
               stack'[k].obj = q, Joins(j, q, m)'
        PROVE  /\ j \notin stack'[k].todo => Reached(m)'
               /\ j \in stack'[k].todo /\ intfLoop'[j] = 0 => ~Left(m)'
    <3>1. k \in DOMAIN stack /\ stack[k].obj = q /\ stack'[k].todo = stack[k].todo /\ Joins(j, q, m) /\ Joins(j, m, q)
      BY <1>1, <1>6, <2>2, JoinsBoth
    <3>2. /\ j \notin stack[k].todo => Reached(m)
          /\ j \in stack[k].todo /\ intfLoop[j] = 0 => ~Left(m)
      BY <3>1 DEF SearchInv, NothingForgotten
    <3>3. j \in stack[k].todo /\ intfLoop[j] = 0 => m # t
      <4> SUFFICES ASSUME j \in stack[k].todo, intfLoop[j] = 0, m = t PROVE FALSE
        OBVIOUS
      <4>1. j \notin stack[c].todo
        BY <1>1
      <4>2. stack[c].obj = m
        BY DEF t
      <4>3. j \notin stack[k].todo
        BY <1>4, <3>1, <4>1, <4>2 DEF SearchInv, NothingForgotten
      <4> QED  BY <4>3
    <3> QED  BY <1>11, <1>12, <3>1, <3>2, <3>3
  <2>3. ASSUME NEW k \in DOMAIN stack', NEW l \in DOMAIN stack', NEW j \in Intfs, NEW q \in Node, NEW m \in Node,
               stack'[k].obj = q, stack'[l].obj = m, Joins(j, q, m)',
               j \notin stack'[k].todo, intfLoop'[j] = 0
        PROVE  j \notin stack'[l].todo
    <3>1. intfLoop[j] = 0
      BY <1>12, <2>3
    <3>2. /\ k \in DOMAIN stack /\ stack[k].obj = q /\ j \notin stack[k].todo
          /\ l \in DOMAIN stack /\ stack[l].obj = m /\ stack'[l].todo = stack[l].todo /\ Joins(j, q, m)
      BY <1>1, <1>6, <2>3
    <3> QED  BY <3>1, <3>2 DEF SearchInv, NothingForgotten
  <2> QED  BY <2>1, <2>2, <2>3 DEF NothingForgotten
<1>14. LoopsOfCalls(stack, nodeLoop, loops, dist)' /\ CallsDescend(stack, dist)'
  <2>1. LoopsOfCalls(stack', nodeLoop', loops', dist') /\ CallsDescend(stack', dist')
    BY <1>1, <1>2, <1>7
  <2> QED  BY <2>1
<1> QED  BY <1>2, <1>5, <1>9, <1>13, <1>14 DEF SearchInv

-----------------------------------------------------------------------------
(***************************************************************************)
(* processLoops.                                                           *)
(***************************************************************************)
ExitsKnown == \A l \in DOMAIN loops : KnownExit(loops, nodeLoop, l)

\* Nodes that have been processed, and the interfaces of processed routers.
Processed ==
  \A n \in Node \ pending :
    /\ nodeLoop[n] # 0 => loops[nodeLoop[n]].redirect = 0
    /\ n \in Routers => \A i \in IntfList(n) : intfLoop[i] # 0 => loops[intfLoop[i]].redirect = 0

SetPathInv ==
  /\ SearchInv
  /\ phase = "search" => LoopsEnd
  /\ phase # "search" => stack = << >> /\ ExitsKnown /\ Processed
  /\ phase = "done" => pending = {}

LEMMA EndOfSearchKeeps ==
  ASSUME SetPathInv, EndOfSearch
  PROVE  SetPathInv'
<1>1. /\ phase = "search" /\ stack = << >> /\ phase' = "process" /\ pending' = Node
      /\ UNCHANGED <<graph, stack, startDistance, partitions, dist, nodeLoop, nodeToZone1,
                     intfLoop, intfToZone1, loops>>
      /\ SearchInv /\ LoopsEnd
  BY DEF EndOfSearch, SetPathInv, nodeVars, intfVars
<1>2. SearchInv'
  <2>1. Types'
    BY <1>1 DEF SearchInv, Types
  <2>2. CallsJoined'
    <3>1. stack' = << >> /\ DOMAIN stack' = {}
      BY <1>1
    <3> QED  BY <3>1 DEF CallsJoined
  <2>3. NothingForgotten'
    <3>1. \A n : Active(n)' <=> Active(n)
      BY <1>1 DEF Active
    <3>2. /\ \A n : Reached(n)' <=> Reached(n)
          /\ \A n : Left(n)' <=> Left(n)
      BY <1>1, <3>1 DEF Reached, Left
    <3>3. \A j, n, m : Joins(j, n, m)' <=> Joins(j, n, m)
      BY <1>1, GraphKept
    <3>4. DOMAIN stack' = {}
      BY <1>1
    <3>5. \A i \in Intfs : \A n, m \in Node : Joins(i, n, m) =>
            /\ Left(n) => Reached(m)
            /\ intfLoop[i] # 0 => Reached(n)
      BY <1>1 DEF SearchInv, NothingForgotten
    <3> QED  BY <1>1, <3>2, <3>3, <3>4, <3>5 DEF NothingForgotten
  <2>4. LoopsPlaced'
    <3>1. \A m : IntfList(m)' = IntfList(m)
      BY <1>1, GraphKept
    <3> QED  BY <1>1, <3>1 DEF SearchInv, LoopsPlaced
  <2>5. CallsDescend(stack, dist)' /\ LoopsOfCalls(stack, nodeLoop, loops, dist)'
    BY <1>1 DEF SearchInv
  <2> QED  BY <2>1, <2>2, <2>3, <2>4, <2>5 DEF SearchInv
<1>3. ASSUME NEW l \in DOMAIN loops PROVE KnownExit(loops, nodeLoop, l)
  <2>1. SUFFICES ASSUME OpenExit(intfLoop, loops, dist, l) PROVE KnownExit(loops, nodeLoop, l)
    BY <1>1 DEF LoopsEnd
  <2> DEFINE e == loops[l].exit
  <2>2. /\ Types /\ IsLoops(loops) /\ e \in Node /\ loops[l].distance \in Nat /\ dist[e] \in Nat
        /\ nodeLoop[e] # 0 => nodeLoop[e] \in DOMAIN loops
    BY <1>1, LoopNumbers DEF SearchInv, Types
  <2>3. dist[e] < loops[l].distance
    BY <2>1 DEF OpenExit
  <2>4. PICK i \in IntfList(e) : intfLoop[i] # 0
    BY <2>1 DEF OpenExit
  <2>5. Place(stack, nodeLoop, loops, dist, intfLoop[i], e)
    BY <1>1, <2>2, <2>4 DEF SearchInv, LoopsPlaced
  <2>6. DOMAIN stack = {}
    BY <1>1
  <2>7. nodeLoop[e] # 0
    BY <2>5, <2>6 DEF Place, SamePlace, ExitPlace, LaterPlace
  <2>8. loops[nodeLoop[e]].distance <= dist[e] /\ loops[nodeLoop[e]].distance \in Nat
    BY <1>1, <2>2, <2>7, LoopNumbers DEF LoopsEnd
  <2>9. Nearer(loops, nodeLoop[e], l)
    BY <2>2, <2>3, <2>8 DEF Nearer
  <2> QED  BY <2>7, <2>9 DEF KnownExit
<1>4. ExitsKnown'
  BY <1>1, <1>3 DEF ExitsKnown
<1>5. Processed'
  BY <1>1 DEF Processed
<1> QED  BY <1>1, <1>2, <1>4, <1>5 DEF SetPathInv

\* The loops from one loop on to that with the exit of the cluster.
LastOf(L, NL, k) == L[k].clusterExit # None \/ NL[L[k].exit] = k
ChainOf(L, NL) ==
  CHOOSE f : f = [k \in DOMAIN L |-> {k} \cup (IF LastOf(L, NL, k) THEN {} ELSE f[NL[L[k].exit]])]

LEMMA ChainEquation ==
  ASSUME NEW L, NEW NL, \A k \in DOMAIN L : NL[L[k].exit] \in DOMAIN L
  PROVE  ChainOf(L, NL) =
           [k \in DOMAIN L |-> {k} \cup (IF LastOf(L, NL, k) THEN {} ELSE ChainOf(L, NL)[NL[L[k].exit]])]
<1> DEFINE Closed(S) == \A y \in S : ~LastOf(L, NL, y) => NL[L[y].exit] \in S
           f == [k \in DOMAIN L |-> {x \in DOMAIN L : \A S \in SUBSET DOMAIN L : k \in S /\ Closed(S) => x \in S}]
<1>1. ASSUME NEW k \in DOMAIN L
      PROVE  f[k] = {k} \cup (IF LastOf(L, NL, k) THEN {} ELSE f[NL[L[k].exit]])
  <2> DEFINE n == NL[L[k].exit]
  <2>1. k \in f[k] /\ n \in DOMAIN L
    OBVIOUS
  <2>2. ASSUME NEW x \in f[k], x # k PROVE ~LastOf(L, NL, k) /\ x \in f[n]
    <3>1. ~LastOf(L, NL, k)
      <4> SUFFICES ASSUME LastOf(L, NL, k) PROVE FALSE
        OBVIOUS
      <4>1. Closed({k})
        OBVIOUS
      <4> HIDE DEF Closed
      <4>2. x \in {k}
        BY <4>1
      <4> QED  BY <2>2, <4>2
    <3>2. ASSUME NEW S \in SUBSET DOMAIN L, n \in S, Closed(S) PROVE x \in S
      <4>1. Closed(S \cup {k})
        BY <3>2
      <4> HIDE DEF Closed
      <4>2. x \in S \cup {k}
        BY <4>1
      <4> QED  BY <2>2, <4>2
    <3> HIDE DEF Closed
    <3> QED  BY <2>1, <3>1, <3>2
  <2>3. ASSUME ~LastOf(L, NL, k), NEW x \in f[n] PROVE x \in f[k]
    <3>1. ASSUME NEW S \in SUBSET DOMAIN L, k \in S, Closed(S) PROVE x \in S
      <4>1. n \in S
        BY <2>3, <3>1
      <4> HIDE DEF Closed
      <4> QED  BY <2>1, <3>1, <4>1
    <3> HIDE DEF Closed
    <3> QED  BY <2>1, <3>1
  <2> HIDE DEF f
  <2> QED  BY <2>1, <2>2, <2>3
<1>2. f = [k \in DOMAIN L |-> {k} \cup (IF LastOf(L, NL, k) THEN {} ELSE f[NL[L[k].exit]])]
  BY <1>1
<1> HIDE DEF f
<1> QED  BY <1>2 DEF ChainOf

LEMMA ChainEnds ==
  ASSUME NEW L, NEW NL, IsLoops(L), \A k \in DOMAIN L : NL[L[k].exit] \in DOMAIN L /\ KnownExit(L, NL, k),
         NEW l \in DOMAIN L
  PROVE  /\ ChainOf(L, NL)[l] \in SUBSET DOMAIN L
         /\ \E k \in ChainOf(L, NL)[l] : LastOf(L, NL, k)
<1> DEFINE C == ChainOf(L, NL)
           Good(k) == C[k] \in SUBSET DOMAIN L /\ \E x \in C[k] : LastOf(L, NL, x)
           B == {k \in DOMAIN L : ~Good(k)}
<1>1. C = [k \in DOMAIN L |-> {k} \cup (IF LastOf(L, NL, k) THEN {} ELSE C[NL[L[k].exit]])]
  BY ChainEquation
<1> HIDE DEF C
<1>2. B = {}
  <2> SUFFICES ASSUME B # {} PROVE FALSE
    OBVIOUS
  <2>1. PICK k \in B : \A x \in B : ~Nearer(L, x, k)
    BY NearestLoop
  <2>2. k \in DOMAIN L /\ ~Good(k)
    OBVIOUS
  <2>3. CASE LastOf(L, NL, k)
    <3>1. C[k] = {k}
      BY <1>1, <2>2, <2>3
    <3> QED  BY <2>2, <2>3, <3>1
  <2>4. CASE ~LastOf(L, NL, k)
    <3> DEFINE n == NL[L[k].exit]
    <3>1. C[k] = {k} \cup C[n] /\ n \in DOMAIN L
      BY <1>1, <2>2, <2>4
    <3>2. Nearer(L, n, k)
      BY <2>2, <2>4 DEF KnownExit, LastOf
    <3> HIDE DEF n
    <3>3. Good(n)
      BY <2>1, <3>1, <3>2
    <3> QED  BY <2>2, <3>1, <3>3
  <2> QED  BY <2>3, <2>4
<1> QED  BY <1>2 DEF C

LEMMA ClusterExitIsNode ==
  ASSUME IsLoops(loops), NEW NL, \A k \in DOMAIN loops : NL[loops[k].exit] \in DOMAIN loops /\ KnownExit(loops, NL, k),
         NEW l \in DOMAIN loops
  PROVE  ClusterExit(l, NL) \in Node
<1>1. ClusterChain(l, NL) = ChainOf(loops, NL)[l] /\ \A k : IsLast(k, NL) <=> LastOf(loops, NL, k)
  BY DEF ClusterChain, ChainOf, IsLast, LastOf
<1> DEFINE last == CHOOSE k \in ClusterChain(l, NL) : IsLast(k, NL)
<1>2. last \in ClusterChain(l, NL)
  <2>1. \E k \in ClusterChain(l, NL) : IsLast(k, NL)
    BY <1>1, ChainEnds
  <2> QED  BY <2>1
<1>3. last \in DOMAIN loops
  BY <1>1, <1>2, ChainEnds
<1> HIDE DEF last
<1>4. loops[last] \in LoopObject
  BY <1>3, LoopNumbers
<1>5. ClusterExit(l, NL) = IF loops[last].clusterExit # None THEN loops[last].clusterExit ELSE loops[last].exit
  BY DEF ClusterExit, last
<1> QED  BY <1>4, <1>5 DEF LoopObject

\* What processing of a node does to loops and to the loops of nodes and interfaces.
LEMMA ProcessObjMakes ==
  ASSUME SetPathInv, NEW n \in Node, ProcessObj(n)
  PROVE  /\ phase = "process" /\ stack = << >> /\ pending' = pending \ {n}
         /\ n \in Zones \/ pending \subseteq Routers
         /\ UNCHANGED <<graph, phase, stack, startDistance, partitions, nodeToZone1, intfToZone1>>
         /\ dist' \in [Node -> Nat]
         /\ DOMAIN loops' = DOMAIN loops /\ loops' \in Seq(LoopObject)
         /\ \A k \in DOMAIN loops : /\ loops'[k].exit = loops[k].exit
                                    /\ loops'[k].distance = loops[k].distance
                                    /\ loops'[k].redirect = loops[k].redirect
         /\ nodeLoop' = IF nodeLoop[n] = 0 THEN nodeLoop
                        ELSE [nodeLoop EXCEPT ![n] = OuterOf(loops)[nodeLoop[n]]]
         /\ intfLoop' = [i \in Intfs |-> IF graph[i].router = n /\ intfLoop[i] # 0
                                           THEN OuterOf(loops)[intfLoop[i]] ELSE intfLoop[i]]
<1>1. FindOuterLoop = OuterOf(loops)
  BY DEF FindOuterLoop, OuterOf
<1>2. /\ phase = "process" /\ pending' = pending \ {n}
      /\ n \in Zones \/ pending \subseteq Routers
      /\ UNCHANGED <<graph, phase, stack, startDistance, partitions, nodeToZone1, intfToZone1>>
      /\ intfLoop' = [i \in Intfs |-> IF graph[i].router = n /\ intfLoop[i] # 0
                                        THEN OuterOf(loops)[intfLoop[i]] ELSE intfLoop[i]]
  BY <1>1 DEF ProcessObj
<1>3. stack = << >> /\ ExitsKnown
  BY <1>2 DEF SetPathInv
<1>4. /\ Types /\ IsLoops(loops) /\ nodeLoop \in [Node -> Nat] /\ dist \in [Node -> Nat]
      /\ \A m \in Node : nodeLoop[m] # 0 => nodeLoop[m] \in DOMAIN loops
  BY DEF SetPathInv, SearchInv, Types
<1>5. CASE nodeLoop[n] = 0
  <2>1. loops' = loops /\ dist' = dist /\ nodeLoop' = nodeLoop
    BY <1>5 DEF ProcessObj
  <2> QED  BY <1>2, <1>3, <1>4, <1>5, <2>1 DEF IsLoops
<1>6. CASE nodeLoop[n] # 0
  <2> DEFINE l == OuterOf(loops)[nodeLoop[n]]
             NL == [nodeLoop EXCEPT ![n] = l]
             exit == ClusterExit(l, NL)
  <2>1. /\ nodeLoop' = NL
        /\ loops' = [k \in DOMAIN loops |->
                       IF k \in ClusterChain(l, NL) THEN [loops[k] EXCEPT !.clusterExit = exit] ELSE loops[k]]
        /\ dist' = [dist EXCEPT ![n] = dist[exit]]
    BY <1>1, <1>6 DEF ProcessObj
  <2>2. /\ l \in DOMAIN loops /\ l # 0
        /\ l = nodeLoop[n] \/ Nearer(loops, l, nodeLoop[n])
        /\ nodeLoop[n] \in DOMAIN loops
    BY <1>4, <1>6, OuterIsLast, OuterIsNearer, LoopNumbers
  <2>3. ASSUME NEW k \in DOMAIN loops PROVE NL[loops[k].exit] \in DOMAIN loops /\ KnownExit(loops, NL, k)
    <3> DEFINE e == loops[k].exit
    <3>1. e \in Node /\ nodeLoop[e] # 0 /\ nodeLoop[e] \in DOMAIN loops
          /\ (nodeLoop[e] = k \/ Nearer(loops, nodeLoop[e], k))
      BY <1>3, <1>4, LoopNumbers DEF ExitsKnown, KnownExit
    <3>2. NL[e] = IF e = n THEN l ELSE nodeLoop[e]
      BY <1>4, <3>1
    <3> HIDE DEF NL, l
    <3>3. NL[e] \in DOMAIN loops /\ NL[e] # 0
      BY <2>2, <3>1, <3>2
    <3>4. NL[e] = k \/ Nearer(loops, NL[e], k)
      BY <1>4, <2>2, <3>1, <3>2, NearerIsTransitive
    <3> QED  BY <3>3, <3>4 DEF KnownExit
  <2> HIDE DEF NL, l
  <2>4. exit \in Node
    BY <1>4, <2>2, <2>3, ClusterExitIsNode
  <2> HIDE DEF exit
  <2>5. \A k \in DOMAIN loops : /\ loops'[k] \in LoopObject
                                /\ loops'[k].exit = loops[k].exit
                                /\ loops'[k].distance = loops[k].distance
                                /\ loops'[k].redirect = loops[k].redirect
    <3> TAKE k \in DOMAIN loops
    <3>1. loops[k] \in LoopObject
      BY <1>4, LoopNumbers
    <3>2. loops'[k] = loops[k] \/ loops'[k] = [loops[k] EXCEPT !.clusterExit = exit]
      BY <2>1
    <3> QED  BY <2>4, <3>1, <3>2 DEF LoopObject
  <2>6. DOMAIN loops' = DOMAIN loops /\ loops' \in Seq(LoopObject)
    <3>1. DOMAIN loops = 1 .. Len(loops) /\ Len(loops) \in Nat
      BY <1>4, LoopNumbers
    <3>2. DOMAIN loops' = DOMAIN loops /\ loops' \in [1 .. Len(loops) -> LoopObject]
      BY <2>1, <2>5, <3>1
    <3> QED  BY <3>1, <3>2
  <2>7. dist' \in [Node -> Nat]
    BY <1>4, <2>1, <2>4
  <2> QED  BY <1>2, <1>3, <1>6, <2>1, <2>5, <2>6, <2>7 DEF NL, l
<1> QED  BY <1>5, <1>6

LEMMA ProcessObjKeeps ==
  ASSUME SetPathInv, NEW n \in Node, ProcessObj(n)
  PROVE  SetPathInv'
<1> DEFINE Outer == OuterOf(loops)
<1>1. /\ phase = "process" /\ stack = << >> /\ pending' = pending \ {n}
      /\ n \in Zones \/ pending \subseteq Routers
      /\ UNCHANGED <<graph, phase, stack, startDistance, partitions, nodeToZone1, intfToZone1>>
      /\ dist' \in [Node -> Nat]
      /\ DOMAIN loops' = DOMAIN loops /\ loops' \in Seq(LoopObject)
      /\ \A k \in DOMAIN loops : /\ loops'[k].exit = loops[k].exit
                                 /\ loops'[k].distance = loops[k].distance
                                 /\ loops'[k].redirect = loops[k].redirect
      /\ nodeLoop' = IF nodeLoop[n] = 0 THEN nodeLoop
                     ELSE [nodeLoop EXCEPT ![n] = Outer[nodeLoop[n]]]
      /\ intfLoop' = [i \in Intfs |-> IF graph[i].router = n /\ intfLoop[i] # 0
                                        THEN Outer[intfLoop[i]] ELSE intfLoop[i]]
  BY ProcessObjMakes
<1>2. /\ SearchInv /\ Types /\ IsLoops(loops) /\ nodeLoop \in [Node -> Nat] /\ intfLoop \in [Intfs -> Nat]
      /\ \A m \in Node : nodeLoop[m] # 0 => nodeLoop[m] \in DOMAIN loops
      /\ \A i \in Intfs : intfLoop[i] # 0 => intfLoop[i] \in DOMAIN loops
      /\ ExitsKnown /\ Processed /\ pending \in SUBSET Node
  BY <1>1 DEF SetPathInv, SearchInv, Types
<1>3. IsLoops(loops')
  <2>1. ASSUME NEW l \in DOMAIN loops, loops'[l].redirect # 0
        PROVE  /\ loops'[l].redirect \in DOMAIN loops
               /\ \/ loops'[loops'[l].redirect].distance < loops'[l].distance
                  \/ loops'[loops'[l].redirect].distance = loops'[l].distance /\ loops'[l].redirect < l
    <3>1. loops'[l].redirect = loops[l].redirect /\ loops'[l].distance = loops[l].distance
      BY <1>1
    <3>2. /\ loops[l].redirect \in DOMAIN loops
          /\ \/ loops[loops[l].redirect].distance < loops[l].distance
             \/ loops[loops[l].redirect].distance = loops[l].distance /\ loops[l].redirect < l
      BY <1>2, <2>1, <3>1 DEF IsLoops, Redirects
    <3>3. loops'[loops[l].redirect].distance = loops[loops[l].redirect].distance
      BY <1>1, <3>2
    <3> QED  BY <3>1, <3>2, <3>3
  <2> QED  BY <1>1, <2>1 DEF IsLoops, Redirects
<1>4. /\ \A l \in DOMAIN loops : OuterOf(loops')[l] = Outer[l]
      /\ \A l \in DOMAIN loops : /\ Outer[l] \in DOMAIN loops /\ Outer[l] # 0 /\ Outer[l] \in Nat
                                 /\ loops[Outer[l]].redirect = 0
                                 /\ loops[l].redirect = 0 => Outer[l] = l
                                 /\ Outer[l] = l \/ Nearer(loops, Outer[l], l)
  <2>1. \A l \in DOMAIN loops : OuterOf(loops')[l] = OuterOf(loops)[l]
    <3>1. SameRedirects(loops, loops')
      BY <1>1, <1>2, <1>3 DEF SameRedirects
    <3>2. SameOuter(loops, loops')
      BY <3>1, OuterKept
    <3> QED  BY <3>2 DEF SameOuter
  <2>2. \A l \in DOMAIN loops : /\ OuterOf(loops)[l] \in DOMAIN loops
                                /\ loops[OuterOf(loops)[l]].redirect = 0
                                /\ loops[l].redirect = 0 => OuterOf(loops)[l] = l
    BY <1>2, OuterIsLast
  <2>3. \A l \in DOMAIN loops : OuterOf(loops)[l] = l \/ Nearer(loops, OuterOf(loops)[l], l)
    BY <1>2, OuterIsNearer
  <2>4. 0 \notin DOMAIN loops /\ \A l \in DOMAIN loops : l \in Nat
    BY <1>2, LoopNumbers
  <2> QED  BY <2>1, <2>2, <2>3, <2>4
<1> HIDE DEF Outer
<1>5. /\ \A m \in Node : nodeLoop'[m] = IF m = n /\ nodeLoop[m] # 0 THEN Outer[nodeLoop[m]] ELSE nodeLoop[m]
      /\ \A i \in Intfs : intfLoop'[i] = IF graph[i].router = n /\ intfLoop[i] # 0
                                           THEN Outer[intfLoop[i]] ELSE intfLoop[i]
  BY <1>1, <1>2
<1>6. /\ nodeLoop' \in [Node -> Nat] /\ intfLoop' \in [Intfs -> Nat]
      /\ \A m \in Node : nodeLoop'[m] # 0 <=> nodeLoop[m] # 0
      /\ \A i \in Intfs : intfLoop'[i] # 0 <=> intfLoop[i] # 0
      /\ \A m \in Node : nodeLoop'[m] # 0 => nodeLoop'[m] \in DOMAIN loops'
      /\ \A i \in Intfs : intfLoop'[i] # 0 => intfLoop'[i] \in DOMAIN loops'
  <2>1. \A m \in Node : /\ nodeLoop'[m] # 0 <=> nodeLoop[m] # 0
                        /\ nodeLoop'[m] # 0 => nodeLoop'[m] \in DOMAIN loops'
                        /\ nodeLoop'[m] \in Nat
    BY <1>1, <1>2, <1>4, <1>5
  <2>2. \A i \in Intfs : /\ intfLoop'[i] # 0 <=> intfLoop[i] # 0
                         /\ intfLoop'[i] # 0 => intfLoop'[i] \in DOMAIN loops'
                         /\ intfLoop'[i] \in Nat
    BY <1>1, <1>2, <1>4, <1>5
  <2>3. nodeLoop' \in [Node -> Nat]
    <3>1. DOMAIN nodeLoop' = Node /\ nodeLoop' = [m \in Node |-> nodeLoop'[m]]
      BY <1>1, <1>2
    <3> QED  BY <2>1, <3>1
  <2>4. intfLoop' \in [Intfs -> Nat]
    <3>1. intfLoop' = [i \in Intfs |-> intfLoop'[i]]
      BY <1>1
    <3> QED  BY <2>2, <3>1
  <2> QED  BY <2>1, <2>2, <2>3, <2>4
<1>7. /\ \A m, k, j : Joins(j, m, k)' <=> Joins(j, m, k)
      /\ \A m : IntfList(m)' = IntfList(m)
  BY <1>1, GraphKept
<1>8. Types'
  BY <1>1, <1>2, <1>3, <1>6 DEF Types
<1>9. stack' = << >> /\ DOMAIN stack' = {} /\ DOMAIN stack = {}
  BY <1>1
<1>10. CallsDescend(stack, dist)' /\ CallsJoined' /\ LoopsOfCalls(stack, nodeLoop, loops, dist)'
  <2>1. DOMAIN stack' = 1 .. 0
    BY <1>9
  <2> QED  BY <1>9, <2>1 DEF CallsDescend, CallsJoined, LoopsOfCalls
<1>11. NothingForgotten'
  <2>1. \A m : Active(m)' <=> Active(m)
    BY <1>9 DEF Active
  <2>2. \A m \in Node : (Reached(m)' <=> Reached(m)) /\ (Left(m)' <=> Left(m))
    BY <1>1, <1>6, <2>1 DEF Reached, Left
  <2>3. \A i \in Intfs : \A m, k \in Node : Joins(i, m, k) =>
          /\ Left(m) => Reached(k)
          /\ intfLoop[i] # 0 => Reached(m)
    BY <1>2 DEF SearchInv, NothingForgotten
  <2> QED  BY <1>6, <1>7, <1>9, <2>2, <2>3 DEF NothingForgotten
<1>12. LoopsPlaced'
  <2>1. ASSUME NEW m \in Node, NEW i \in IntfList(m), intfLoop'[i] # 0
        PROVE  Place(stack', nodeLoop', loops', dist', intfLoop'[i], m)
    <3>1. i \in Intfs /\ intfLoop[i] # 0 /\ intfLoop[i] \in DOMAIN loops
      BY <1>2, <1>6, <2>1, IntfListIsSet
    <3>2. Place(stack, nodeLoop, loops, dist, intfLoop[i], m)
      BY <1>2, <2>1, <3>1 DEF SearchInv, LoopsPlaced
    <3>3. OuterOf(loops')[intfLoop'[i]] = Outer[intfLoop[i]]
      BY <1>4, <1>5, <3>1
    <3>4. CASE SamePlace(nodeLoop, loops, intfLoop[i], m)
      <4>1. nodeLoop[m] # 0 /\ Outer[intfLoop[i]] = Outer[nodeLoop[m]]
        BY <3>4 DEF SamePlace, Outer
      <4>2. OuterOf(loops')[nodeLoop'[m]] = Outer[nodeLoop[m]] /\ nodeLoop'[m] # 0
        BY <1>2, <1>4, <1>5, <1>6, <4>1
      <4>3. SamePlace(nodeLoop', loops', intfLoop'[i], m)
        BY <3>3, <4>1, <4>2 DEF SamePlace
      <4> QED  BY <4>3 DEF Place
    <3>5. CASE ExitPlace(stack, nodeLoop, loops, intfLoop[i], m)
      <4>1. nodeLoop'[m] # 0 /\ loops[Outer[intfLoop[i]]].exit = m
        BY <1>6, <3>5 DEF ExitPlace, Outer
      <4>2. loops'[Outer[intfLoop[i]]].exit = m
        BY <1>1, <1>4, <3>1, <4>1
      <4>3. ExitPlace(stack', nodeLoop', loops', intfLoop'[i], m)
        BY <1>9, <3>3, <4>1, <4>2 DEF ExitPlace
      <4> QED  BY <4>3 DEF Place
    <3>6. ~LaterPlace(stack, nodeLoop, loops, dist, intfLoop[i], m)
      BY <1>9 DEF LaterPlace
    <3> QED  BY <3>2, <3>4, <3>5, <3>6 DEF Place
  <2>2. ASSUME NEW m \in Node, nodeLoop'[m] # 0 PROVE \E i \in IntfList(m) : intfLoop'[i] # 0
    <3>1. \E i \in IntfList(m) : intfLoop[i] # 0
      BY <1>2, <1>6, <2>2 DEF SearchInv, LoopsPlaced
    <3> QED  BY <1>6, <3>1, IntfListIsSet
  <2> QED  BY <1>7, <2>1, <2>2 DEF LoopsPlaced
<1>13. ExitsKnown'
  <2> SUFFICES ASSUME NEW l \in DOMAIN loops PROVE KnownExit(loops', nodeLoop', l)
    BY <1>1 DEF ExitsKnown
  <2> DEFINE e == loops[l].exit
  <2>1. /\ e \in Node /\ nodeLoop[e] # 0 /\ nodeLoop[e] \in DOMAIN loops
        /\ nodeLoop[e] = l \/ Nearer(loops, nodeLoop[e], l)
    BY <1>2, LoopNumbers DEF ExitsKnown, KnownExit
  <2>2. loops'[l].exit = e
    BY <1>1
  <2> HIDE DEF e
  <2>3. /\ nodeLoop'[e] # 0 /\ nodeLoop'[e] \in DOMAIN loops
        /\ nodeLoop'[e] = nodeLoop[e] \/ Nearer(loops, nodeLoop'[e], nodeLoop[e])
    BY <1>1, <1>4, <1>5, <1>6, <2>1
  <2>4. nodeLoop'[e] = l \/ Nearer(loops, nodeLoop'[e], l)
    BY <1>2, <2>1, <2>3, NearerIsTransitive
  <2>5. nodeLoop'[e] = l \/ Nearer(loops', nodeLoop'[e], l)
    BY <1>1, <2>3, <2>4 DEF Nearer
  <2> QED  BY <2>2, <2>3, <2>5 DEF KnownExit
<1>16. \A l \in DOMAIN loops : loops'[Outer[l]].redirect = 0
  <2> TAKE l \in DOMAIN loops
  <2>1. Outer[l] \in DOMAIN loops /\ loops[Outer[l]].redirect = 0
    BY <1>4
  <2> QED  BY <1>1, <2>1
<1>14. Processed'
  <2>1. ASSUME NEW l \in DOMAIN loops, loops[l].redirect = 0
        PROVE  loops'[l].redirect = 0 /\ Outer[l] = l
    BY <1>1, <1>4, <2>1
  <2>2. ASSUME NEW m \in Node \ pending', nodeLoop'[m] # 0 PROVE loops'[nodeLoop'[m]].redirect = 0
    <3>1. nodeLoop[m] # 0 /\ nodeLoop[m] \in DOMAIN loops
      BY <1>2, <1>6, <2>2
    <3>2. CASE m = n
      <4>1. nodeLoop'[m] = Outer[nodeLoop[m]]
        BY <1>5, <3>1, <3>2
      <4> QED  BY <1>16, <3>1, <4>1
    <3>3. CASE m # n
      <4>1. m \in Node \ pending /\ nodeLoop'[m] = nodeLoop[m]
        BY <1>1, <1>5, <2>2, <3>3
      <4>2. loops[nodeLoop[m]].redirect = 0
        BY <1>2, <3>1, <4>1 DEF Processed
      <4> QED  BY <2>1, <3>1, <4>1, <4>2
    <3> QED  BY <3>2, <3>3
  <2>3. ASSUME NEW m \in Node \ pending', m \in Routers, NEW i \in IntfList(m), intfLoop'[i] # 0
        PROVE  loops'[intfLoop'[i]].redirect = 0
    <3>1. i \in Intfs /\ intfLoop[i] # 0 /\ intfLoop[i] \in DOMAIN loops
      BY <1>2, <1>6, <2>3, IntfListIsSet
    <3>2. graph[i].router = m
      <4>1. graph[i].zone \in Zones
        BY <1>2, <3>1, TopologyAssumption DEF Types
      <4> QED  BY <2>3, <4>1, TopologyAssumption DEF IntfList
    <3>3. CASE m = n
      <4>1. intfLoop'[i] = Outer[intfLoop[i]]
        BY <1>5, <3>1, <3>2, <3>3
      <4> QED  BY <1>16, <3>1, <4>1
    <3>4. CASE m # n
      <4>1. m \in Node \ pending /\ intfLoop'[i] = intfLoop[i]
        BY <1>1, <1>5, <2>3, <3>1, <3>2, <3>4
      <4>2. loops[intfLoop[i]].redirect = 0
        BY <1>2, <2>3, <3>1, <4>1 DEF Processed
      <4> QED  BY <2>1, <3>1, <4>1, <4>2
    <3> QED  BY <3>3, <3>4
  <2> QED  BY <1>7, <2>2, <2>3 DEF Processed
<1>15. SearchInv'
  BY <1>8, <1>10, <1>11, <1>12 DEF SearchInv
<1> QED  BY <1>1, <1>9, <1>13, <1>14, <1>15 DEF SetPathInv

\* Steps that change at most the phase.
LEMMA IdleKeeps ==
  ASSUME SetPathInv,
         \/ phase' \in {"process", "done"} /\ pending = {} /\ phase = "process"
         \/ phase' = phase,
         UNCHANGED <<graph, stack, startDistance, partitions, pending, nodeVars, intfVars, loops>>
  PROVE  SetPathInv'
<1>1. /\ UNCHANGED <<graph, stack, startDistance, partitions, pending, dist, nodeLoop, nodeToZone1,
                     intfLoop, intfToZone1, loops>>
      /\ SearchInv
  BY DEF SetPathInv, nodeVars, intfVars
<1>2. phase' \in {"search", "process", "done"} /\ (phase' = "search" <=> phase = "search")
  BY <1>1 DEF SearchInv, Types
<1>3. Types'
  BY <1>1, <1>2 DEF SearchInv, Types
<1>4. /\ \A m, k, j : Joins(j, m, k)' <=> Joins(j, m, k)
      /\ \A m : IntfList(m)' = IntfList(m)
  BY <1>1, GraphKept
<1>5. CallsJoined'
  BY <1>1, <1>2, <1>4 DEF SearchInv, CallsJoined
<1>6. NothingForgotten'
  <2>1. \A m : Active(m)' <=> Active(m)
    BY <1>1 DEF Active
  <2>2. \A m : (Reached(m)' <=> Reached(m)) /\ (Left(m)' <=> Left(m))
    BY <1>1, <2>1 DEF Reached, Left
  <2> QED  BY <1>1, <1>4, <2>2 DEF SearchInv, NothingForgotten
<1>7. LoopsPlaced' /\ CallsDescend(stack, dist)' /\ LoopsOfCalls(stack, nodeLoop, loops, dist)'
  BY <1>1, <1>4 DEF SearchInv, LoopsPlaced
<1>8. phase' = "search" => LoopsEnd'
  BY <1>1, <1>2, <1>4 DEF SetPathInv, LoopsEnd, OpenExit, IntfList
<1>9. phase' # "search" => stack' = << >> /\ ExitsKnown' /\ Processed'
  BY <1>1, <1>2, <1>4 DEF SetPathInv, ExitsKnown, Processed
<1>10. phase' = "done" => pending' = {}
  BY <1>1 DEF SetPathInv
<1> QED  BY <1>3, <1>5, <1>6, <1>7, <1>8, <1>9, <1>10 DEF SetPathInv, SearchInv

LEMMA SearchPhaseKeeps ==
  ASSUME SetPathInv, phase = "search", phase' = phase, SearchInv', LoopsEnd => LoopsEnd'
  PROVE  SetPathInv'
BY DEF SetPathInv

LEMMA SetPathInductive ==
  SetPathInv /\ [Next]_vars => SetPathInv'
<1> SUFFICES ASSUME SetPathInv, [Next]_vars PROVE SetPathInv'
  OBVIOUS
<1>1. SearchInv /\ (stack # << >> => phase = "search")
  BY DEF SetPathInv, SearchInv, CallsJoined
<1>2. ASSUME NEW z \in Zones, NewPartition(z) PROVE SetPathInv'
  <2>1. phase = "search" /\ phase' = phase
    BY <1>2 DEF NewPartition
  <2> QED  BY <1>1, <1>2, <2>1, NewPartitionKeeps, SearchPhaseKeeps
<1>3. ASSUME NEW i \in Intfs, CloseLoop(i) PROVE SetPathInv'
  <2>1. phase = "search" /\ phase' = phase
    BY <1>1, <1>3 DEF CloseLoop
  <2> QED  BY <1>1, <1>3, <2>1, CloseLoopKeeps, SearchPhaseKeeps
<1>4. ASSUME NEW i \in Intfs, Descend(i) PROVE SetPathInv'
  <2>1. phase = "search" /\ phase' = phase
    BY <1>1, <1>4 DEF Descend
  <2> QED  BY <1>1, <1>4, <2>1, DescendKeeps, SearchPhaseKeeps
<1>5. CASE Return
  <2>1. phase = "search" /\ phase' = phase
    BY <1>1, <1>5 DEF Return
  <2> QED  BY <1>1, <1>5, <2>1, ReturnKeeps, SearchPhaseKeeps
<1>6. CASE EndOfSearch
  BY <1>6, EndOfSearchKeeps
<1>7. ASSUME NEW n \in Node, ProcessObj(n) PROVE SetPathInv'
  BY <1>7, ProcessObjKeeps
<1>8. CASE EndOfProcess
  BY <1>8, IdleKeeps DEF EndOfProcess
<1>9. CASE UNCHANGED vars
  BY <1>9, IdleKeeps DEF vars, nodeVars, intfVars
<1> QED  BY <1>2, <1>3, <1>4, <1>5, <1>6, <1>7, <1>8, <1>9 DEF Next, Done

LEMMA SetPathInit == Init => SetPathInv
<1> SUFFICES ASSUME Init PROVE SetPathInv
  OBVIOUS
<1>1. phase = "search" /\ SearchInv
  BY SearchInit DEF Init
<1>2. LoopsEnd
  <2>1. DOMAIN loops = {}
    BY DEF Init
  <2>2. \A n \in Node : nodeLoop[n] = 0
    BY DEF Init
  <2> QED  BY <2>1, <2>2 DEF LoopsEnd
<1> QED  BY <1>1, <1>2 DEF SetPathInv

\* The order of the search does not matter: at any time the loops of nodes and
\* interfaces that setpathObj has found so far fit together.
THEOREM SetPathInvariance == Spec => []SetPathInv
BY SetPathInit, SetPathInductive, PTL DEF Spec

\* After processLoops a node with a loop is the exit of each other loop at its
\* interfaces, for each topology and each order of the search.
THEOREM LoopsFormTree == Spec => []LoopTree
<1>1. SetPathInv => LoopTree
  <2> SUFFICES ASSUME SetPathInv, phase = "done", NEW n \in Node
               PROVE  /\ nodeLoop[n] # 0 <=> \E i \in IntfList(n) : intfLoop[i] # 0
                      /\ \A i \in IntfList(n) :
                           intfLoop[i] \in {0, nodeLoop[n]} \/ loops[intfLoop[i]].exit = n
    BY DEF LoopTree
  <2>1. /\ SearchInv /\ Types /\ Processed /\ pending = {} /\ DOMAIN stack = {} /\ IsLoops(loops)
        /\ nodeLoop[n] # 0 => nodeLoop[n] \in DOMAIN loops /\ loops[nodeLoop[n]].redirect = 0
    BY DEF SetPathInv, SearchInv, Types, Processed
  <2>2. ASSUME NEW i \in IntfList(n), intfLoop[i] # 0
        PROVE  nodeLoop[n] # 0 /\ (intfLoop[i] = nodeLoop[n] \/ loops[intfLoop[i]].exit = n)
    <3>1. Place(stack, nodeLoop, loops, dist, intfLoop[i], n)
      BY <2>1, <2>2 DEF SearchInv, LoopsPlaced
    <3>2. i \in Intfs /\ graph[i].router \in Routers /\ graph[i].router \in Node /\ i \in IntfList(graph[i].router)
      BY <2>1, IntfListIsSet, TopologyAssumption DEF Types, Node, IntfList
    <3>3. intfLoop[i] \in DOMAIN loops /\ loops[intfLoop[i]].redirect = 0
      BY <2>1, <2>2, <3>2 DEF Processed, Types
    <3>4. OuterOf(loops)[intfLoop[i]] = intfLoop[i]
      BY <2>1, <3>3, OuterIsLast
    <3>5. nodeLoop[n] # 0 => OuterOf(loops)[nodeLoop[n]] = nodeLoop[n]
      BY <2>1, OuterIsLast
    <3> QED  BY <2>1, <3>1, <3>4, <3>5 DEF Place, SamePlace, ExitPlace, LaterPlace
  <2>3. nodeLoop[n] # 0 => \E i \in IntfList(n) : intfLoop[i] # 0
    BY <2>1 DEF SearchInv, LoopsPlaced
  <2> QED  BY <2>2, <2>3
<1> QED  BY <1>1, SetPathInvariance, PTL
-----------------------------------------------------------------------------
(***************************************************************************)
(* Steps towards zone1.                                                    *)
(***************************************************************************)

\* Nodes of the same partition.
Linked(n, m) == Connected(n, m, Intfs)

\* Node n is the exit of its own loop.
OwnExit(n) == nodeLoop[n] # 0 /\ loops[nodeLoop[n]].exit = n
Inside(n) == nodeLoop[n] # 0 /\ loops[nodeLoop[n]].exit # n

\* Each step towards zone1 decreases D, the distance found by the search.
Decreasing(D, NZ, IZ, NL, L) ==
  /\ \A n \in Node : NZ[n] # None => D[IZ[NZ[n]]] < D[n]
  /\ \A n \in Node : NL[n] # 0 /\ L[NL[n]].exit # n => L[NL[n]].distance < D[n]
  /\ \A l \in DOMAIN L : D[L[l].exit] <= L[l].distance
StepsDecreasing(D) == Decreasing(D, nodeToZone1, intfToZone1, nodeLoop, loops)

\* Each node that has been left has a step towards zone1, unless it is zone1.
StepsKnown ==
  /\ \A n \in Node : \A i \in Intfs : i = nodeToZone1[n] =>
       /\ ~Inside(n)
       /\ \E m \in Node : m = intfToZone1[i] /\ Joins(i, n, m) /\ Reached(m)
  /\ \A n \in Node : Left(n) => nodeToZone1[n] # None \/ Inside(n) \/ n \in partitions

\* A loop that belongs to its exit is not redirected.
OwnLoops ==
  \A n \in Node : OwnExit(n) => /\ loops[nodeLoop[n]].redirect = 0
                                /\ loops[nodeLoop[n]].distance = dist[n]

\* Loops do not leave their partition.
LoopsLinked ==
  /\ \A n, m \in Node : nodeLoop[n] # 0 /\ m = loops[nodeLoop[n]].exit => Linked(n, m)
  /\ \A l \in DOMAIN loops : \A n, m \in Node : n = loops[l].exit =>
       /\ Reached(n)
       /\ loops[l].redirect # 0 /\ m = loops[loops[l].redirect].exit => Linked(n, m)

\* A partition has one zone1, and its distances are its own.
Partitioned ==
  /\ \A y, z \in partitions : Linked(y, z) => y = z
  /\ \A n, m \in Node : Reached(n) /\ Reached(m) /\ dist[n] = dist[m] => Linked(n, m)

\* Distances of earlier partitions, and of that of the active calls.
Located ==
  /\ stack # << >> => startDistance <= dist[stack[1].obj]
  /\ \A n, z \in Node : Reached(n) /\ (stack # << >> => z = stack[1].obj) =>
       \/ dist[n] < startDistance
       \/ \E k \in DOMAIN stack : Linked(z, n) /\ dist[n] <= stack[k].max
  /\ \A l \in DOMAIN loops : loops[l].clusterExit = None

\* Cluster exits are exits of their own loop.
ClustersEnd ==
  \A l \in DOMAIN loops : \A c \in Node : c = loops[l].clusterExit =>
    /\ OwnExit(c)
    /\ dist[c] <= loops[l].distance
    /\ Linked(loops[l].exit, c)
    /\ nodeLoop[loops[l].exit] = l => c = loops[l].exit

ClustersFound ==
  \A n \in Node \ pending : nodeLoop[n] # 0 =>
    \E c \in Node : c = loops[nodeLoop[n]].clusterExit /\ dist[n] = dist[c]

\* D has the distances found by the search: those of nodes with a loop change later.
SearchDistance(D) ==
  /\ D \in [Node -> Nat] /\ StepsDecreasing(D)
  /\ \A n \in Node : /\ dist[n] <= D[n]
                     /\ n \in pending \/ nodeLoop[n] = 0 => dist[n] = D[n]

StepsInv ==
  /\ StepsKnown /\ OwnLoops /\ LoopsLinked /\ Partitioned
  /\ phase = "search" => StepsDecreasing(dist) /\ Located
  /\ phase # "search" =>
       /\ \E D : SearchDistance(D)
       /\ ClustersEnd /\ ClustersFound
       /\ \A n \in Node : IntfList(n) # {} => Reached(n)

LEMMA LinkedIsEquivalence ==
  ASSUME graph \in Topologies
  PROVE  /\ \A n \in Node : Linked(n, n)
         /\ \A n, m \in Node : Linked(n, m) => Linked(m, n)
         /\ \A k, n, m \in Node : Linked(k, n) /\ Linked(n, m) => Linked(k, m)
         /\ \A i : \A n, m \in Node : Joins(i, n, m) => Linked(n, m)
<1>1. \A n \in Node : Linked(n, n)
  BY DEF Linked, Connected
<1>2. ASSUME NEW n \in Node, NEW m \in Node, Linked(n, m) PROVE Linked(m, n)
  <2> SUFFICES ASSUME NEW S \in SUBSET Node, m \in S, 
                      \A i \in Intfs : graph[i].router \in S <=> graph[i].zone \in S
               PROVE  n \in S
    BY DEF Linked, Connected
  <2> DEFINE T == Node \ S
  <2>1. \A i \in Intfs : graph[i].router \in Node /\ graph[i].zone \in Node
    BY TopologyAssumption DEF Node
  <2>2. \A i \in Intfs : graph[i].router \in T <=> graph[i].zone \in T
    BY <2>1
  <2>3. n \in T => m \in T
    <3>1. T \in SUBSET Node
      OBVIOUS
    <3> HIDE DEF T
    <3> QED  BY <1>2, <2>2, <3>1 DEF Linked, Connected
  <2> QED  BY <2>3
<1>3. \A k, n, m \in Node : Linked(k, n) /\ Linked(n, m) => Linked(k, m)
  BY DEF Linked, Connected
<1>4. ASSUME NEW i, NEW n \in Node, NEW m \in Node, Joins(i, n, m) PROVE Linked(n, m)
  <2>1. i \in IntfList(n) /\ m = Next1(n, i) /\ {n, m} = {graph[i].router, graph[i].zone} /\ i \in Intfs
    BY <1>4, TwoEnds DEF Joins
  <2> QED  BY <2>1 DEF Linked, Connected
<1> QED  BY <1>1, <1>2, <1>3, <1>4

LEMMA LinkedKept ==
  ASSUME graph' = graph
  PROVE  \A n, m : Linked(n, m)' <=> Linked(n, m)
BY DEF Linked, Connected

\* Active nodes belong to the partition searched last.
LEMMA ActiveLinked ==
  ASSUME SearchInv, Located, NEW k \in DOMAIN stack
  PROVE  startDistance <= dist[stack[k].obj] /\ Linked(stack[1].obj, stack[k].obj)
<1>1. /\ \A j \in DOMAIN stack : stack[j].obj \in Node /\ dist[stack[j].obj] \in Nat
      /\ 1 \in DOMAIN stack /\ stack # << >> /\ k \in Nat \ {0} /\ startDistance \in Nat
  <2>1. \A j \in DOMAIN stack : stack[j].obj \in Node
    BY DEF SearchInv, CallsDescend
  <2>2. 1 \in DOMAIN stack /\ stack # << >> /\ k \in Nat \ {0} /\ startDistance \in Nat /\ dist \in [Node -> Nat]
    BY DEF SearchInv, Types
  <2> QED  BY <2>1, <2>2
<1>2. startDistance <= dist[stack[1].obj]
  BY <1>1 DEF Located
<1>3. startDistance <= dist[stack[k].obj]
  <2>1. CASE k = 1
    BY <1>2, <2>1
  <2>2. CASE k # 1
    <3>1. dist[stack[1].obj] + 2 <= dist[stack[k].obj]
      BY <1>1, <2>2 DEF SearchInv, CallsDescend
    <3> QED  BY <1>1, <1>2, <3>1
  <2> QED  BY <2>1, <2>2
<1>4. Reached(stack[k].obj)
  BY DEF Reached, Active
<1>5. ~(dist[stack[k].obj] < startDistance)
  BY <1>1, <1>3
<1> QED  BY <1>1, <1>3, <1>4, <1>5 DEF Located

\* What a new call changes: node x gets distance d.
Called(x, d) ==
  /\ ~Reached(x) /\ x \in Node /\ d \in Nat
  /\ dist' = [dist EXCEPT ![x] = d]
  /\ \E c \in Nat :
       /\ DOMAIN stack = 1 .. c /\ DOMAIN stack' = 1 .. c + 1
       /\ stack'[c + 1].obj = x /\ stack'[c + 1].max = d
       /\ \A k \in 1 .. c : stack'[k].obj = stack[k].obj /\ stack'[k].max = stack[k].max
       /\ IF c = 0
            THEN /\ d = startDistance
                 /\ x \in Zones /\ partitions' = partitions \cup {x}
            ELSE /\ d = dist[stack[c].obj] + 2
                 /\ \E i : Joins(i, stack[c].obj, x)
                 /\ partitions' = partitions
  /\ UNCHANGED <<graph, phase, nodeLoop, nodeToZone1, intfLoop, intfToZone1, loops, pending, startDistance>>

\* No node of another partition than that of the active calls has been reached from here.
LEMMA PartitionClosed ==
  ASSUME SearchInv, stack = << >>, NEW n \in Node, NEW m \in Node, Reached(n), Linked(n, m)
  PROVE  Reached(m)
<1> DEFINE R == {q \in Node : Reached(q)}
<1>1. \A q : ~Active(q)
  BY DEF Active
<1>2. ASSUME NEW i \in Intfs PROVE graph[i].router \in R <=> graph[i].zone \in R
  <2>1. graph \in Topologies
    BY DEF SearchInv, Types
  <2> DEFINE r == graph[i].router
             z == graph[i].zone
  <2>2. r \in Node /\ z \in Node /\ r # z /\ i \in IntfList(r) /\ i \in IntfList(z)
    BY <2>1, TopologyAssumption DEF Node, IntfList
  <2>3. Joins(i, r, z) /\ Joins(i, z, r)
    BY <2>2 DEF Joins
  <2> HIDE DEF r, z
  <2>4. Reached(r) <=> Reached(z)
    BY <1>1, <2>2, <2>3 DEF SearchInv, NothingForgotten, Left
  <2>5. r \in R <=> z \in R
    BY <2>2, <2>4
  <2> QED  BY <2>5 DEF r, z
<1>3. R \in SUBSET Node /\ n \in R
  OBVIOUS
<1> HIDE DEF R
<1>4. m \in R
  BY <1>2, <1>3 DEF Linked, Connected
<1> QED  BY <1>4 DEF R

LEMMA CalledSteps ==
  ASSUME SearchInv, StepsInv, phase = "search", NEW x, NEW d, Called(x, d)
  PROVE  StepsInv'
<1>1. PICK c \in Nat :
        /\ DOMAIN stack = 1 .. c /\ DOMAIN stack' = 1 .. c + 1
        /\ stack'[c + 1].obj = x /\ stack'[c + 1].max = d
        /\ \A k \in 1 .. c : stack'[k].obj = stack[k].obj /\ stack'[k].max = stack[k].max
        /\ IF c = 0
             THEN /\ d = startDistance
                  /\ x \in Zones /\ partitions' = partitions \cup {x}
             ELSE /\ d = dist[stack[c].obj] + 2
                  /\ \E i : Joins(i, stack[c].obj, x)
                  /\ partitions' = partitions
  BY DEF Called
<1>2. /\ ~Reached(x) /\ x \in Node /\ d \in Nat
      /\ UNCHANGED <<graph, phase, nodeLoop, nodeToZone1, intfLoop, intfToZone1, loops, pending, startDistance>>
  BY DEF Called
<1>3. /\ graph \in Topologies /\ dist \in [Node -> Nat] /\ startDistance \in Nat /\ partitions \in SUBSET Zones
      /\ IsLoops(loops) /\ stack \in Seq(FrameSet) /\ nodeToZone1 \in [Node -> Intfs \cup {None}]
      /\ \A n \in Node : nodeLoop[n] # 0 => nodeLoop[n] \in DOMAIN loops
      /\ \A l \in DOMAIN loops : loops[l].exit \in Node /\ loops[l].distance \in Nat
  BY LoopNumbers DEF SearchInv, Types
<1>4. /\ dist' \in [Node -> Nat] /\ dist'[x] = d
      /\ \A n \in Node : n # x => dist'[n] = dist[n]
  BY <1>2, <1>3 DEF Called
<1>5. /\ StepsKnown /\ OwnLoops /\ LoopsLinked /\ Partitioned /\ StepsDecreasing(dist) /\ Located
  BY DEF StepsInv
<1>6. /\ \A n, m : Linked(n, m)' <=> Linked(n, m)
      /\ \A i, n, m : Joins(i, n, m)' <=> Joins(i, n, m)
      /\ \A n : (Inside(n)' <=> Inside(n)) /\ (OwnExit(n)' <=> OwnExit(n))
  BY <1>2, LinkedKept, GraphKept DEF Inside, OwnExit
<1>7. /\ \A n \in Node : Active(n)' <=> Active(n) \/ n = x
      /\ \A n \in Node : Reached(n)' <=> Reached(n) \/ n = x
      /\ \A n \in Node : Left(n)' <=> Left(n)
      /\ \A n \in Node : nodeToZone1[n] # None \/ nodeLoop[n] # 0 => n # x
  <2>1. ASSUME NEW n \in Node PROVE Active(n)' <=> Active(n) \/ n = x
    <3>1. ASSUME Active(n)' PROVE Active(n) \/ n = x
      <4>1. PICK k \in DOMAIN stack' : stack'[k].obj = n
        BY <3>1 DEF Active
      <4>2. k = c + 1 \/ k \in 1 .. c
        BY <1>1
      <4> QED  BY <1>1, <4>1, <4>2 DEF Active
    <3>2. ASSUME Active(n) PROVE Active(n)'
      <4>1. PICK k \in DOMAIN stack : stack[k].obj = n
        BY <3>2 DEF Active
      <4>2. k \in DOMAIN stack' /\ stack'[k].obj = n
        BY <1>1, <4>1
      <4> QED  BY <4>2 DEF Active
    <3>3. n = x => Active(n)'
      <4>1. c + 1 \in DOMAIN stack'
        BY <1>1
      <4> QED  BY <1>1, <4>1 DEF Active
    <3> QED  BY <3>1, <3>2, <3>3
  <2>2. partitions \subseteq partitions' /\ partitions' \subseteq partitions \cup {x}
    BY <1>1
  <2>3. \A n \in Node : Reached(n)' <=> Reached(n) \/ n = x
    BY <1>2, <2>1, <2>2 DEF Reached
  <2> QED  BY <1>2, <2>1, <2>3 DEF Left, Reached
<1>8. StepsKnown'
  <2>1. ASSUME NEW n \in Node, NEW i \in Intfs, i = nodeToZone1'[n]
        PROVE  /\ ~Inside(n)'
               /\ \E m \in Node : m = intfToZone1'[i] /\ Joins(i, n, m)' /\ Reached(m)'
    <3>1. ~Inside(n) /\ \E m \in Node : m = intfToZone1[i] /\ Joins(i, n, m) /\ Reached(m)
      BY <1>2, <1>5, <2>1 DEF StepsKnown
    <3> QED  BY <1>2, <1>6, <1>7, <3>1
  <2>2. ASSUME NEW n \in Node, Left(n)' PROVE nodeToZone1'[n] # None \/ Inside(n)' \/ n \in partitions'
    <3>1. nodeToZone1[n] # None \/ Inside(n) \/ n \in partitions
      BY <1>5, <1>7, <2>2 DEF StepsKnown
    <3> QED  BY <1>1, <1>2, <1>6, <3>1
  <2> QED  BY <2>1, <2>2 DEF StepsKnown
<1>9. OwnLoops'
  BY <1>2, <1>4, <1>5, <1>6, <1>7 DEF OwnLoops, OwnExit
<1>10. LoopsLinked'
  BY <1>2, <1>3, <1>5, <1>6, <1>7 DEF LoopsLinked
<1>11. Decreasing(dist', nodeToZone1, intfToZone1, nodeLoop, loops)
  <2>1. ASSUME NEW n \in Node, nodeToZone1[n] # None
        PROVE  dist'[intfToZone1[nodeToZone1[n]]] < dist'[n]
    <3>0. nodeToZone1[n] \in Intfs
      BY <1>3, <2>1
    <3>1. PICK m \in Node : m = intfToZone1[nodeToZone1[n]] /\ Reached(m)
      BY <1>5, <3>0 DEF StepsKnown
    <3>2. m # x /\ n # x
      BY <1>2, <1>7, <2>1, <3>1
    <3> QED  BY <1>4, <1>5, <2>1, <3>1, <3>2 DEF StepsDecreasing, Decreasing
  <2>2. ASSUME NEW n \in Node, nodeLoop[n] # 0, loops[nodeLoop[n]].exit # n PROVE loops[nodeLoop[n]].distance < dist'[n]
    <3>1. n # x
      BY <1>7, <2>2
    <3> QED  BY <1>4, <1>5, <2>2, <3>1 DEF StepsDecreasing, Decreasing
  <2>3. ASSUME NEW l \in DOMAIN loops PROVE dist'[loops[l].exit] <= loops[l].distance
    <3>1. loops[l].exit # x /\ loops[l].exit \in Node
      BY <1>2, <1>3, <1>5 DEF LoopsLinked
    <3> QED  BY <1>4, <1>5, <3>1 DEF StepsDecreasing, Decreasing
  <2> QED  BY <2>1, <2>2, <2>3 DEF Decreasing
<1>12. \A k \in 1 .. c : /\ stack[k].obj \in Node /\ stack[k].obj # x
                         /\ startDistance <= dist[stack[k].obj] /\ Linked(stack[1].obj, stack[k].obj)
                         /\ Reached(stack[k].obj)
  <2> TAKE k \in 1 .. c
  <2>1. k \in DOMAIN stack
    BY <1>1
  <2>2. stack[k].obj \in Node /\ Reached(stack[k].obj)
    BY <2>1 DEF SearchInv, CallsDescend, Reached, Active
  <2> QED  BY <1>2, <1>5, <2>1, <2>2, ActiveLinked
<1>13. Linked(stack'[1].obj, x) /\ stack'[1].obj \in Node /\ startDistance <= d
  <2>1. CASE c = 0
    BY <1>1, <1>2, <1>3, <2>1, LinkedIsEquivalence
  <2>2. CASE c # 0
    <3>1. c \in 1 .. c /\ 1 \in 1 .. c
      BY <2>2
    <3>2. stack'[1].obj = stack[1].obj /\ stack[1].obj \in Node
      BY <1>1, <1>12, <3>1
    <3>3. Linked(stack[1].obj, stack[c].obj) /\ stack[c].obj \in Node
      BY <1>12, <3>1
    <3>4. Linked(stack[c].obj, x)
      BY <1>1, <1>2, <1>3, <2>2, <3>3, LinkedIsEquivalence
    <3>5. Linked(stack[1].obj, x)
      BY <1>2, <1>3, <3>2, <3>3, <3>4, LinkedIsEquivalence
    <3>6. startDistance <= d
      <4>1. startDistance <= dist[stack[c].obj] /\ dist[stack[c].obj] \in Nat
        BY <1>3, <1>12, <3>1
      <4> QED  BY <1>1, <1>3, <2>2, <4>1
    <3> QED  BY <3>2, <3>5, <3>6
  <2> QED  BY <2>1, <2>2
<1>14. Partitioned'
  <2>1. ASSUME NEW y \in partitions', NEW z \in partitions', Linked(y, z) PROVE y = z
    <3>1. CASE y \in partitions /\ z \in partitions
      BY <1>5, <2>1, <3>1 DEF Partitioned
    <3>2. ASSUME NEW p \in partitions, Linked(p, x), c = 0 PROVE FALSE
      <4>1. p \in Node /\ Reached(p) /\ stack = << >>
        BY <1>1, <1>3, <3>2 DEF Node, Reached
      <4> QED  BY <1>2, <3>2, <4>1, PartitionClosed
    <3>3. CASE c = 0
      <4>1. y \in Node /\ z \in Node /\ Linked(z, y)
        <5>1. y \in Node /\ z \in Node
          BY <1>1, <1>2, <1>3, <3>3 DEF Node
        <5> QED  BY <1>3, <2>1, <5>1, LinkedIsEquivalence
      <4> QED  BY <1>1, <2>1, <3>1, <3>2, <3>3, <4>1
    <3>4. CASE c # 0
      BY <1>1, <2>1, <3>1, <3>4
    <3> QED  BY <3>3, <3>4
  <2>2. ASSUME NEW m \in Node, Reached(m), dist[m] = d PROVE Linked(m, x)
    <3>1. PICK k \in DOMAIN stack : Linked(stack'[1].obj, m) /\ dist[m] <= stack[k].max
      <4>1. ~(dist[m] < startDistance)
        BY <1>3, <1>13, <2>2
      <4>2. stack # << >> => stack'[1].obj = stack[1].obj
        <5> SUFFICES ASSUME stack # << >> PROVE stack'[1].obj = stack[1].obj
          OBVIOUS
        <5>1. 1 \in 1 .. c
          BY <1>1, <1>3
        <5> QED  BY <1>1, <5>1
      <4> QED  BY <1>5, <1>13, <2>2, <4>1, <4>2 DEF Located
    <3> QED  BY <1>2, <1>3, <1>13, <3>1, LinkedIsEquivalence
  <2>3. ASSUME NEW n \in Node, NEW m \in Node, Reached(n)', Reached(m)', dist'[n] = dist'[m]
        PROVE  Linked(n, m)
    <3>1. CASE n # x /\ m # x
      BY <1>4, <1>5, <1>7, <2>3, <3>1 DEF Partitioned
    <3>2. CASE n = x /\ m = x
      BY <1>2, <1>3, <3>2, LinkedIsEquivalence
    <3>3. CASE n = x /\ m # x
      <4>1. Linked(m, x)
        BY <1>4, <1>7, <2>2, <2>3, <3>3
      <4> QED  BY <1>2, <1>3, <3>3, <4>1, LinkedIsEquivalence
    <3>4. CASE n # x /\ m = x
      <4>1. Linked(n, x)
        BY <1>4, <1>7, <2>2, <2>3, <3>4
      <4> QED  BY <3>4, <4>1
    <3> QED  BY <3>1, <3>2, <3>3, <3>4
  <2> QED  BY <1>6, <2>1, <2>3 DEF Partitioned
<1>15. Located'
  <2>1. startDistance <= dist'[stack'[1].obj]
    <3>1. CASE c = 0
      BY <1>1, <1>4, <1>13, <3>1
    <3>2. CASE c # 0
      <4>1. 1 \in 1 .. c
        BY <3>2
      <4> QED  BY <1>1, <1>4, <1>12, <4>1
    <3> QED  BY <3>1, <3>2
  <2>2. ASSUME NEW n \in Node, NEW z \in Node, Reached(n)', stack' # << >> => z = stack'[1].obj
        PROVE  \/ dist'[n] < startDistance
               \/ \E k \in DOMAIN stack' : Linked(z, n) /\ dist'[n] <= stack'[k].max
    <3>0. z = stack'[1].obj
      <4>1. stack' # << >>
        BY <1>1
      <4> QED  BY <2>2, <4>1
    <3>1. CASE n = x
      <4>1. c + 1 \in DOMAIN stack' /\ dist'[n] <= stack'[c + 1].max
        BY <1>1, <1>2, <1>4, <3>1
      <4> QED  BY <1>13, <3>0, <3>1, <4>1
    <3>2. CASE n # x
      <4>1. Reached(n) /\ dist'[n] = dist[n]
        BY <1>4, <1>7, <2>2, <3>2
      <4>2. CASE dist[n] < startDistance
        BY <4>1, <4>2
      <4>3. CASE \E k \in DOMAIN stack : Linked(z, n) /\ dist[n] <= stack[k].max
        <5>1. PICK k \in 1 .. c : Linked(z, n) /\ dist[n] <= stack[k].max
          BY <1>1, <4>3
        <5>2. k \in DOMAIN stack'
          BY <1>1
        <5> QED  BY <1>1, <4>1, <5>1, <5>2
      <4>4. stack # << >> => z = stack[1].obj
        <5> SUFFICES ASSUME stack # << >> PROVE z = stack[1].obj
          OBVIOUS
        <5>1. 1 \in 1 .. c
          BY <1>1, <1>3
        <5> QED  BY <1>1, <3>0, <5>1
      <4> QED  BY <1>5, <4>1, <4>2, <4>3, <4>4 DEF Located
    <3> QED  BY <3>1, <3>2
  <2> QED  BY <1>2, <1>5, <1>6, <2>1, <2>2 DEF Located
<1>16. phase' = "search" /\ StepsDecreasing(dist)'
  BY <1>2, <1>11 DEF StepsDecreasing
<1> QED  BY <1>8, <1>9, <1>10, <1>14, <1>15, <1>16 DEF StepsInv

LEMMA NewPartitionCalls ==
  ASSUME SearchInv, NEW z \in Zones, NewPartition(z)
  PROVE  Called(z, startDistance)
<1>1. /\ stack = << >> /\ z \notin partitions
      /\ nodeToZone1[z] = None /\ nodeLoop[z] = 0
      /\ stack' = Append(<< >>, Frame(z, None, startDistance))
      /\ dist' = [dist EXCEPT ![z] = startDistance]
      /\ partitions' = partitions \cup {z}
      /\ UNCHANGED <<graph, phase, nodeLoop, nodeToZone1, intfLoop, intfToZone1, loops, pending, startDistance>>
  BY DEF NewPartition, intfVars, Call
<1>2. z \in Node /\ startDistance \in Nat
  BY DEF SearchInv, Types, Node
<1>3. ~Reached(z)
  <2>1. DOMAIN stack = {}
    BY <1>1
  <2> QED  BY <1>1, <2>1 DEF Reached, Active
<1>4. DOMAIN stack' = 1 .. 0 + 1 /\ stack'[0 + 1] = Frame(z, None, startDistance) /\ DOMAIN stack = 1 .. 0
  <2> DEFINE fr == Frame(z, None, startDistance)
  <2> HIDE DEF fr
  <2>1. stack' = << fr >>
    BY <1>1 DEF fr
  <2>2. stack'[1] = fr /\ DOMAIN stack' = 1 .. 1
    BY <2>1
  <2> QED  BY <1>1, <2>2 DEF fr
<1>5. stack'[0 + 1].obj = z /\ stack'[0 + 1].max = startDistance
  BY <1>4 DEF Frame
<1>6. \E c \in Nat :
       /\ DOMAIN stack = 1 .. c /\ DOMAIN stack' = 1 .. c + 1
       /\ stack'[c + 1].obj = z /\ stack'[c + 1].max = startDistance
       /\ \A k \in 1 .. c : stack'[k].obj = stack[k].obj /\ stack'[k].max = stack[k].max
       /\ IF c = 0
            THEN /\ startDistance = startDistance
                 /\ z \in Zones /\ partitions' = partitions \cup {z}
            ELSE /\ startDistance = dist[stack[c].obj] + 2
                 /\ \E i : Joins(i, stack[c].obj, z)
                 /\ partitions' = partitions
  <2> WITNESS 0 \in Nat
  <2> QED  BY <1>1, <1>4, <1>5
<1> QED  BY <1>1, <1>2, <1>3, <1>6 DEF Called

LEMMA DescendCalls ==
  ASSUME SearchInv, NEW i \in Intfs, Descend(i)
  PROVE  \E x, d : phase = "search" /\ Called(x, d)
<1> DEFINE c == Len(stack)
           n == stack[c].obj
           x == Next1(n, i)
           above == [stack EXCEPT ![c].todo = @ \ {i}]
           d == dist[n] + 2
           fr == Frame(x, i, d)
<1>1. /\ stack # << >> /\ i \in stack[c].todo /\ intfLoop[i] = 0 /\ ~Active(x)
      /\ stack' = Append(above, fr) /\ dist' = [dist EXCEPT ![x] = d]
      /\ UNCHANGED <<graph, phase, partitions, nodeLoop, nodeToZone1, intfLoop, intfToZone1, loops, pending, startDistance>>
  BY DEF Descend, Top, intfVars, Call
<1>2. /\ stack \in Seq(FrameSet) /\ graph \in Topologies /\ dist \in [Node -> Nat]
  BY DEF SearchInv, Types
<1>3. DOMAIN stack = 1 .. c /\ c \in Nat \ {0} /\ c \in DOMAIN stack /\ stack[c] \in FrameSet
  BY <1>1, <1>2
<1>4. n \in Node /\ i \in IntfList(n)
  <2>1. n \in Node
    BY <1>3 DEF FrameSet
  <2>2. stack[c].todo \subseteq IntfList(n) \ {stack[c].intf}
    BY <1>3, <2>1 DEF SearchInv, CallsJoined
  <2> QED  BY <1>1, <2>1, <2>2
<1>5. x \in Node /\ Joins(i, n, x)
  BY <1>2, <1>4, TwoEnds
<1>6. ~Reached(x)
  <2>1. ~Left(x)
    BY <1>1, <1>3, <1>4, <1>5 DEF SearchInv, NothingForgotten
  <2> QED  BY <1>1, <2>1 DEF Left
<1>7. phase = "search"
  BY <1>1 DEF SearchInv, CallsJoined
<1>8. DOMAIN above = 1 .. c /\ \A k \in 1 .. c : above[k].obj = stack[k].obj /\ above[k].max = stack[k].max
  <2> DEFINE new == [stack[c] EXCEPT !.todo = @ \ {i}]
  <2>1. new.obj = stack[c].obj /\ new.max = stack[c].max
    BY <1>3 DEF FrameSet
  <2> HIDE DEF new
  <2>2. above = [stack EXCEPT ![c] = new]
    BY DEF new
  <2> HIDE DEF above, n, x
  <2>3. DOMAIN above = 1 .. c /\ \A k \in 1 .. c : above[k] = IF k = c THEN new ELSE stack[k]
    BY <1>3, <2>2
  <2> QED  BY <2>1, <2>3
<1>9. Len(above) = c
  <2> HIDE DEF above, c
  <2> QED  BY <1>3, <1>8
<1>10. fr.obj = x /\ fr.max = d
  BY DEF Frame
<1> HIDE DEF above, x, fr, d, n
<1>11. /\ DOMAIN stack' = 1 .. c + 1 /\ stack'[c + 1] = fr
       /\ \A k \in 1 .. c : stack'[k] = above[k]
  <2> HIDE DEF c
  <2>1. above = [k \in 1 .. c |-> above[k]]
    <3>1. above = [stack EXCEPT ![c].todo = @ \ {i}]
      BY DEF above, c
    <3> QED  BY <1>3, <3>1 DEF above
  <2>2. \E S : above \in Seq(S) /\ fr \in S
    <3>1. above \in [1 .. c -> {above[k] : k \in 1 .. c} \cup {fr}]
      BY <2>1
    <3>2. above \in Seq({above[k] : k \in 1 .. c} \cup {fr})
      BY <1>3, <3>1
    <3> QED  BY <3>2
  <2>3. PICK S : above \in Seq(S) /\ fr \in S
    BY <2>2
  <2> QED  BY <1>1, <1>3, <1>8, <1>9, <2>3
<1>12. d \in Nat /\ d = dist[stack[c].obj] + 2 /\ Joins(i, stack[c].obj, x)
  BY <1>2, <1>4, <1>5 DEF d, n
<1> HIDE DEF c
<1>13. \E e \in Nat :
       /\ DOMAIN stack = 1 .. e /\ DOMAIN stack' = 1 .. e + 1
       /\ stack'[e + 1].obj = x /\ stack'[e + 1].max = d
       /\ \A k \in 1 .. e : stack'[k].obj = stack[k].obj /\ stack'[k].max = stack[k].max
       /\ IF e = 0
            THEN /\ d = startDistance
                 /\ x \in Zones /\ partitions' = partitions \cup {x}
            ELSE /\ d = dist[stack[e].obj] + 2
                 /\ \E j : Joins(j, stack[e].obj, x)
                 /\ partitions' = partitions
  <2> SUFFICES /\ DOMAIN stack = 1 .. c /\ DOMAIN stack' = 1 .. c + 1
               /\ stack'[c + 1].obj = x /\ stack'[c + 1].max = d
               /\ \A k \in 1 .. c : stack'[k].obj = stack[k].obj /\ stack'[k].max = stack[k].max
               /\ c # 0 /\ d = dist[stack[c].obj] + 2
               /\ \E j : Joins(j, stack[c].obj, x)
               /\ partitions' = partitions
    BY <1>3
  <2> QED  BY <1>1, <1>3, <1>8, <1>10, <1>11, <1>12
<1>14. Called(x, d)
  BY <1>1, <1>5, <1>6, <1>12, <1>13 DEF Called
<1> QED  BY <1>7, <1>14

\* What a call obj that finds a loop leaves unchanged: only loops that start at active
\* nodes are redirected.
OnStack(S, x) == \E k \in DOMAIN S : S[k].obj = x
KeepsLinks(S, NL, L, D, obj, NM, M) ==
  /\ \A m \in Node : m # obj => NM[m] = NL[m]
  /\ DOMAIN L \subseteq DOMAIN M
  /\ \A l \in DOMAIN L :
       /\ M[l].exit = L[l].exit /\ M[l].distance = L[l].distance /\ M[l].clusterExit = L[l].clusterExit
       /\ \/ M[l].redirect = L[l].redirect
          \/ /\ OnStack(S, L[l].exit)
             /\ M[l].redirect \in DOMAIN L /\ OnStack(S, L[M[l].redirect].exit)
  /\ \A l \in DOMAIN M \ DOMAIN L : M[l] = Loop(obj, D[obj])

LEMMA MadeLinks ==
  ASSUME NEW S, NEW NL, NEW L, NEW D, NEW f, NEW NM, NEW M, NEW obj,
         Made(obj, f, NL, L, D, NM, M), NL \in [Node -> Nat], IsLoops(L),
         f \in DOMAIN L, OnStack(S, L[f].exit),
         NL[obj] # 0 => NL[obj] \in DOMAIN L /\ OnStack(S, L[NL[obj]].exit)
  PROVE  KeepsLinks(S, NL, L, D, obj, NM, M)
<1>1. /\ L \in Seq(LoopObject)
      /\ DOMAIN L = 1 .. Len(L) /\ Len(L) \in Nat
  BY LoopNumbers DEF IsLoops
<1>3. \A m \in Node : m # obj => NM[m] = NL[m]
  BY <1>1 DEF Made
<1>4. CASE M = Append(L, Loop(obj, D[obj]))
  <2> DEFINE new == Loop(obj, D[obj])
  <2> HIDE DEF new
  <2>1. \E T : L \in Seq(T) /\ new \in T
    <3>1. L \in Seq(LoopObject \cup {new})
      BY <1>1
    <3> QED  BY <3>1
  <2>2. DOMAIN M = 1 .. Len(L) + 1 /\ M[Len(L) + 1] = new /\ \A l \in 1 .. Len(L) : M[l] = L[l]
    BY <1>4, <2>1 DEF new
  <2>3. \A l \in DOMAIN M \ DOMAIN L : M[l] = new
    BY <1>1, <2>2
  <2>4. DOMAIN L \subseteq DOMAIN M /\ \A l \in DOMAIN L : M[l] = L[l]
    BY <1>1, <2>2
  <2> QED  BY <1>3, <2>3, <2>4 DEF KeepsLinks, new
<1>5. CASE M = L
  BY <1>3, <1>5 DEF KeepsLinks
<1>6. ASSUME NEW a \in DOMAIN L, NEW b \in DOMAIN L, M = [L EXCEPT ![a].redirect = b],
             OnStack(S, L[a].exit), OnStack(S, L[b].exit)
      PROVE  KeepsLinks(S, NL, L, D, obj, NM, M)
  <2>1. DOMAIN M = DOMAIN L
    BY <1>6
  <2>2. ASSUME NEW l \in DOMAIN L
        PROVE  /\ M[l].exit = L[l].exit /\ M[l].distance = L[l].distance /\ M[l].clusterExit = L[l].clusterExit
               /\ M[l].redirect = IF l = a THEN b ELSE L[l].redirect
    <3>1. L[l] \in LoopObject
      BY <1>1
    <3>2. M[l] = IF l = a THEN [L[l] EXCEPT !.redirect = b] ELSE L[l]
      BY <1>6
    <3> QED  BY <3>1, <3>2 DEF LoopObject
  <2> QED  BY <1>3, <1>6, <2>1, <2>2 DEF KeepsLinks
<1>7. \/ M = Append(L, Loop(obj, D[obj])) \/ M = L
      \/ NL[obj] # 0 /\ M = [L EXCEPT ![NL[obj]].redirect = f]
      \/ NL[obj] # 0 /\ M = [L EXCEPT ![f].redirect = NL[obj]]
  BY DEF Made
<1>8. NL[obj] # 0 /\ M = [L EXCEPT ![NL[obj]].redirect = f] => KeepsLinks(S, NL, L, D, obj, NM, M)
  BY <1>6
<1>9. NL[obj] # 0 /\ M = [L EXCEPT ![f].redirect = NL[obj]] => KeepsLinks(S, NL, L, D, obj, NM, M)
  BY <1>6
<1> QED  BY <1>4, <1>5, <1>7, <1>8, <1>9

\* Loops L are those that have been made so far, and perhaps a new one.
Extends(S, L) ==
  /\ DOMAIN loops \subseteq DOMAIN L
  /\ \A l \in DOMAIN loops : L[l] = loops[l]
  /\ \A l \in DOMAIN L \ DOMAIN loops :
       /\ L[l].redirect = 0 /\ L[l].clusterExit = None
       /\ OnStack(S, L[l].exit) /\ dist[L[l].exit] <= L[l].distance

\* Loops of active nodes.
LEMMA LoopOfCall ==
  ASSUME NEW S, NEW NL, NEW L, NEW D, D \in [Node -> Nat], CallsDescend(S, D), LoopsOfCalls(S, NL, L, D),
         NEW k \in DOMAIN S, NEW m, m = S[k].obj, NL[m] # 0
  PROVE  /\ NL[m] \in DOMAIN L /\ L[NL[m]].redirect = 0 /\ OnStack(S, L[NL[m]].exit)
         /\ L[NL[m]].exit = m => L[NL[m]].distance = D[m]
         /\ L[NL[m]].exit # m => L[NL[m]].distance < D[m]
<1>1. PICK c \in Nat : DOMAIN S = 1 .. c
  BY DEF CallsDescend
<1>2. PICK j \in 1 .. k : /\ L[NL[m]].exit = S[j].obj
                          /\ L[NL[m]].distance = IF j < k THEN D[S[j].obj] + 1 ELSE D[S[j].obj]
  BY DEF LoopsOfCalls
<1>3. j \in DOMAIN S /\ k \in Nat /\ j \in Nat /\ (j < k \/ j = k)
  BY <1>1
<1>4. S[j].obj \in Node /\ D[S[j].obj] \in Nat /\ D[m] \in Nat
  BY <1>3 DEF CallsDescend
<1>5. j < k => D[S[j].obj] + 2 <= D[m]
  BY <1>3 DEF CallsDescend
<1>6. L[NL[m]].exit = m => L[NL[m]].distance = D[m]
  BY <1>2, <1>3, <1>4, <1>5
<1>7. L[NL[m]].exit # m => L[NL[m]].distance < D[m]
  BY <1>2, <1>3, <1>4, <1>5
<1>8. NL[m] \in DOMAIN L /\ L[NL[m]].redirect = 0
  BY DEF LoopsOfCalls
<1>9. OnStack(S, L[NL[m]].exit)
  BY <1>2, <1>3 DEF OnStack
<1> QED  BY <1>6, <1>7, <1>8, <1>9

LEMMA FoundSteps ==
  ASSUME SearchInv, StepsInv, phase = "search",
         NEW S, NEW L, NEW obj, KeepsLinks(S, nodeLoop, L, dist, obj, nodeLoop', loops'),
         LoopsOfCalls(S, nodeLoop', loops', dist), CallsDescend(S, dist),
         OnStack(S, obj), \A x : OnStack(S, x) => Active(x),
         Extends(S, L),
         UNCHANGED <<graph, dist, nodeToZone1, intfToZone1, partitions>>,
         \A m \in Node : (Reached(m)' <=> Reached(m)) /\ (Left(m)' => Left(m) \/ Inside(m)')
  PROVE  /\ StepsKnown' /\ OwnLoops' /\ LoopsLinked' /\ Partitioned' /\ StepsDecreasing(dist)'
         /\ \A l \in DOMAIN loops' : loops'[l].clusterExit = None
<1> DEFINE NM == nodeLoop'
           M == loops'
<1>1. /\ graph \in Topologies /\ dist \in [Node -> Nat]
      /\ \A n \in Node : nodeLoop[n] # 0 => nodeLoop[n] \in DOMAIN loops
      /\ \A l \in DOMAIN loops : loops[l].exit \in Node /\ loops[l].distance \in Nat
      /\ StepsKnown /\ OwnLoops /\ LoopsLinked /\ Partitioned /\ StepsDecreasing(dist) /\ Located
      /\ nodeToZone1 \in [Node -> Intfs \cup {None}]
  BY LoopNumbers DEF SearchInv, Types, StepsInv
<1>2. /\ \A n, m : Linked(n, m)' <=> Linked(n, m)
      /\ \A i, n, m : Joins(i, n, m)' <=> Joins(i, n, m)
  BY LinkedKept, GraphKept
<1>3. \A x : OnStack(S, x) => x \in Node /\ Reached(x) /\ nodeToZone1[x] = None
  <2> SUFFICES ASSUME NEW x, OnStack(S, x) PROVE x \in Node /\ Reached(x) /\ nodeToZone1[x] = None
    OBVIOUS
  <2>1. x \in Node
    BY DEF OnStack, CallsDescend
  <2>2. Active(x)
    OBVIOUS
  <2> QED  BY <2>1, <2>2 DEF SearchInv, CallsJoined, Active, Reached
<1>4. ASSUME NEW x, NEW y, OnStack(S, x), OnStack(S, y) PROVE Linked(x, y)
  <2>1. PICK j \in DOMAIN stack : stack[j].obj = x
    BY <1>4 DEF Active
  <2>2. PICK k \in DOMAIN stack : stack[k].obj = y
    BY <1>4 DEF Active
  <2>3. Linked(stack[1].obj, x) /\ Linked(stack[1].obj, y) /\ x \in Node /\ y \in Node
    BY <1>1, <1>3, <1>4, <2>1, <2>2, ActiveLinked
  <2>4. stack[1].obj \in Node
    <3>1. 1 \in DOMAIN stack
      BY <2>1 DEF SearchInv, Types
    <3> QED  BY <3>1 DEF SearchInv, CallsDescend
  <2> QED  BY <1>1, <2>3, <2>4, LinkedIsEquivalence
<1>5. ASSUME NEW n \in Node, ~OnStack(S, n)
      PROVE  /\ NM[n] = nodeLoop[n]
             /\ NM[n] # 0 => /\ NM[n] \in DOMAIN loops
                             /\ M[NM[n]].exit = loops[NM[n]].exit
                             /\ M[NM[n]].distance = loops[NM[n]].distance
                             /\ loops[NM[n]].exit = n => M[NM[n]].redirect = loops[NM[n]].redirect
  <2>1. NM[n] = nodeLoop[n]
    BY <1>5 DEF KeepsLinks
  <2> HIDE DEF NM, M
  <2>2. ASSUME NM[n] # 0
        PROVE  /\ NM[n] \in DOMAIN loops
               /\ M[NM[n]].exit = loops[NM[n]].exit
               /\ M[NM[n]].distance = loops[NM[n]].distance
               /\ loops[NM[n]].exit = n => M[NM[n]].redirect = loops[NM[n]].redirect
    <3>1. NM[n] \in DOMAIN loops /\ NM[n] \in DOMAIN L /\ L[NM[n]] = loops[NM[n]]
      BY <1>1, <2>1, <2>2 DEF Extends
    <3> QED  BY <1>5, <3>1 DEF KeepsLinks, M
  <2> QED  BY <2>1, <2>2
<1>6. ASSUME NEW l \in DOMAIN M
      PROVE  /\ M[l].clusterExit = None /\ M[l].exit \in Node /\ Reached(M[l].exit)
             /\ dist[M[l].exit] <= M[l].distance
             /\ M[l].redirect # 0 => Linked(M[l].exit, M[M[l].redirect].exit)
  <2> DEFINE r == M[l].redirect
  <2>1. CASE l \notin DOMAIN L
    <3>1. M[l] = Loop(obj, dist[obj])
      BY <2>1 DEF KeepsLinks
    <3>2. obj \in Node /\ Reached(obj)
      BY <1>3
    <3>3. M[l].redirect = 0 /\ M[l].exit = obj /\ M[l].distance = dist[obj] /\ M[l].clusterExit = None
      BY <3>1 DEF Loop
    <3> HIDE DEF M
    <3> QED  BY <1>1, <3>2, <3>3
  <2>2. CASE l \in DOMAIN L
    <3>1. M[l].exit = L[l].exit /\ M[l].distance = L[l].distance /\ M[l].clusterExit = L[l].clusterExit
      BY <2>2 DEF KeepsLinks
    <3>2. \/ r = L[l].redirect
          \/ OnStack(S, L[l].exit) /\ r \in DOMAIN L /\ OnStack(S, L[r].exit)
      BY <2>2 DEF KeepsLinks
    <3>3. \A k \in DOMAIN L : M[k].exit = L[k].exit
      BY DEF KeepsLinks
    <3> HIDE DEF r, M
    <3>4. CASE OnStack(S, L[l].exit) /\ r \in DOMAIN L /\ OnStack(S, L[r].exit)
      <4>1. Linked(L[l].exit, L[r].exit)
        BY <1>4, <3>4
      <4>2. L[l].exit \in Node /\ Reached(L[l].exit)
        BY <1>3, <3>4
      <4>3. L[l].clusterExit = None /\ dist[L[l].exit] <= L[l].distance
        <5>1. CASE l \in DOMAIN loops
          <6>1. dist[loops[l].exit] <= loops[l].distance /\ loops[l].clusterExit = None /\ L[l] = loops[l]
            BY <1>1, <5>1 DEF Extends, StepsDecreasing, Decreasing, Located
          <6> QED  BY <6>1
        <5>2. CASE l \notin DOMAIN loops
          BY <2>2, <5>2 DEF Extends
        <5> QED  BY <5>1, <5>2
      <4> QED  BY <3>1, <3>3, <3>4, <4>1, <4>2, <4>3 DEF r
    <3>5. CASE r = L[l].redirect
      <4>1. CASE l \in DOMAIN loops
        <5>1. L[l] = loops[l]
          BY <4>1 DEF Extends
        <5>2. /\ dist[loops[l].exit] <= loops[l].distance /\ loops[l].clusterExit = None
              /\ Reached(loops[l].exit) /\ loops[l].exit \in Node
              /\ loops[l].redirect # 0 => Linked(loops[l].exit, loops[loops[l].redirect].exit)
          <6>1. dist[loops[l].exit] <= loops[l].distance /\ loops[l].clusterExit = None
            BY <1>1, <4>1 DEF StepsDecreasing, Decreasing, Located
          <6>2. Reached(loops[l].exit) /\ loops[l].exit \in Node
            BY <1>1, <4>1 DEF LoopsLinked
          <6>3. loops[l].redirect # 0 => loops[l].redirect \in DOMAIN loops
            BY <4>1 DEF SearchInv, Types, IsLoops, Redirects
          <6>4. loops[l].redirect # 0 => Linked(loops[l].exit, loops[loops[l].redirect].exit)
            BY <1>1, <4>1, <6>2, <6>3 DEF LoopsLinked
          <6> QED  BY <6>1, <6>2, <6>4
        <5>3. r # 0 => r \in DOMAIN loops /\ M[r].exit = loops[r].exit
          <6> SUFFICES ASSUME r # 0 PROVE r \in DOMAIN loops /\ M[r].exit = loops[r].exit
            OBVIOUS
          <6>1. r \in DOMAIN loops
            BY <3>5, <4>1, <5>1 DEF SearchInv, Types, IsLoops, Redirects
          <6> QED  BY <3>3, <6>1 DEF Extends
        <5> QED  BY <3>1, <3>5, <5>1, <5>2, <5>3 DEF r
      <4>2. CASE l \notin DOMAIN loops
        <5>1. /\ L[l].redirect = 0 /\ L[l].clusterExit = None
              /\ OnStack(S, L[l].exit) /\ dist[L[l].exit] <= L[l].distance
          BY <2>2, <4>2 DEF Extends
        <5> QED  BY <1>3, <3>1, <3>5, <5>1 DEF r
      <4> QED  BY <4>1, <4>2
    <3> QED  BY <3>2, <3>4, <3>5
  <2> QED  BY <2>1, <2>2
<1>7. ASSUME NEW n \in Node, OnStack(S, n), NM[n] # 0
      PROVE  /\ NM[n] \in DOMAIN M /\ M[NM[n]].redirect = 0 /\ OnStack(S, M[NM[n]].exit)
             /\ M[NM[n]].exit = n => M[NM[n]].distance = dist[n]
             /\ M[NM[n]].exit # n => M[NM[n]].distance < dist[n]
  <2>1. PICK k \in DOMAIN S : n = S[k].obj
    BY <1>7 DEF OnStack
  <2>2. LoopsOfCalls(S, NM, M, dist)
    OBVIOUS
  <2> HIDE DEF NM, M
  <2> QED  BY <1>1, <1>7, <2>1, <2>2, LoopOfCall
<1>8. /\ \A n \in Node : Inside(n)' <=> NM[n] # 0 /\ M[NM[n]].exit # n
      /\ \A n \in Node : OwnExit(n)' <=> NM[n] # 0 /\ M[NM[n]].exit = n
  BY DEF Inside, OwnExit
<1>9. \A n \in Node : ~OnStack(S, n) => (Inside(n)' <=> Inside(n)) /\ (OwnExit(n)' <=> OwnExit(n))
  <2> TAKE n \in Node
  <2> SUFFICES ASSUME ~OnStack(S, n) PROVE (Inside(n)' <=> Inside(n)) /\ (OwnExit(n)' <=> OwnExit(n))
    OBVIOUS
  <2>1. NM[n] = nodeLoop[n] /\ (NM[n] # 0 => M[NM[n]].exit = loops[NM[n]].exit)
    BY <1>5
  <2> HIDE DEF NM, M
  <2> QED  BY <1>8, <2>1 DEF Inside, OwnExit
<1>10. StepsKnown'
  <2>1. ASSUME NEW n \in Node, NEW i \in Intfs, i = nodeToZone1'[n]
        PROVE  /\ ~Inside(n)'
               /\ \E m \in Node : m = intfToZone1'[i] /\ Joins(i, n, m)' /\ Reached(m)'
    <3>1. ~Inside(n) /\ \E m \in Node : m = intfToZone1[i] /\ Joins(i, n, m) /\ Reached(m)
      BY <1>1, <2>1 DEF StepsKnown
    <3>2. ~OnStack(S, n)
      BY <1>3, <2>1, TopologyAssumption
    <3> QED  BY <1>2, <1>9, <3>1, <3>2
  <2>2. ASSUME NEW n \in Node, Left(n)' PROVE nodeToZone1'[n] # None \/ Inside(n)' \/ n \in partitions'
    <3>1. CASE Inside(n)'
      BY <3>1
    <3>2. CASE Left(n)
      <4>1. ~OnStack(S, n)
        BY <3>2 DEF Left
      <4> QED  BY <1>1, <1>9, <3>2, <4>1 DEF StepsKnown
    <3> QED  BY <2>2, <3>1, <3>2
  <2> QED  BY <2>1, <2>2 DEF StepsKnown
<1>11. OwnLoops'
  <2>1. ASSUME NEW n \in Node, OwnExit(n)'
        PROVE  M[NM[n]].redirect = 0 /\ M[NM[n]].distance = dist[n]
    <3>1. NM[n] # 0 /\ M[NM[n]].exit = n
      BY <1>8, <2>1
    <3>2. CASE OnStack(S, n)
      BY <1>7, <3>1, <3>2
    <3>3. CASE ~OnStack(S, n)
      <4>1. OwnExit(n)
        BY <1>9, <2>1, <3>3
      <4>2. loops[nodeLoop[n]].redirect = 0 /\ loops[nodeLoop[n]].distance = dist[n] /\ loops[nodeLoop[n]].exit = n
        BY <1>1, <4>1 DEF OwnLoops, OwnExit
      <4>3. /\ NM[n] = nodeLoop[n]
            /\ M[NM[n]].distance = loops[NM[n]].distance
            /\ loops[NM[n]].exit = n => M[NM[n]].redirect = loops[NM[n]].redirect
        BY <1>5, <3>1, <3>3
      <4> HIDE DEF NM, M
      <4> QED  BY <4>2, <4>3
    <3> QED  BY <3>2, <3>3
  <2> QED  BY <2>1 DEF OwnLoops
<1>12. LoopsLinked'
  <2>1. ASSUME NEW n \in Node, NM[n] # 0 PROVE Linked(n, M[NM[n]].exit)
    <3>1. CASE OnStack(S, n)
      BY <1>4, <1>7, <2>1, <3>1
    <3>2. CASE ~OnStack(S, n)
      <4>1. NM[n] = nodeLoop[n] /\ M[NM[n]].exit = loops[NM[n]].exit
        BY <1>5, <2>1, <3>2
      <4> HIDE DEF NM, M
      <4> QED  BY <1>1, <2>1, <4>1 DEF LoopsLinked
    <3> QED  BY <3>1, <3>2
  <2>2. ASSUME NEW l \in DOMAIN M, NEW n \in Node, NEW m \in Node, n = M[l].exit
        PROVE  Reached(n)' /\ (M[l].redirect # 0 /\ m = M[M[l].redirect].exit => Linked(n, m))
    <3>1. M[l].exit = n => Reached(n)
      BY <1>6
    <3>2. M[l].exit = n /\ M[l].redirect # 0 /\ m = M[M[l].redirect].exit => Linked(n, m)
      BY <1>6
    <3> QED  BY <2>2, <3>1, <3>2
  <2>3. ASSUME NEW n \in Node, NEW m \in Node, NM[n] # 0, m = M[NM[n]].exit PROVE Linked(n, m)
    BY <2>1, <2>3
  <2> QED  BY <1>2, <2>2, <2>3 DEF LoopsLinked
<1>13. Partitioned'
  BY <1>1, <1>2 DEF Partitioned
<1>14. StepsDecreasing(dist)'
  <2>1. ASSUME NEW n \in Node, NM[n] # 0, M[NM[n]].exit # n PROVE M[NM[n]].distance < dist[n]
    <3>1. CASE OnStack(S, n)
      BY <1>7, <2>1, <3>1
    <3>2. CASE ~OnStack(S, n)
      <4>1. NM[n] = nodeLoop[n] /\ M[NM[n]].exit = loops[NM[n]].exit /\ M[NM[n]].distance = loops[NM[n]].distance
        BY <1>5, <2>1, <3>2
      <4> HIDE DEF NM, M
      <4> QED  BY <1>1, <2>1, <4>1 DEF StepsDecreasing, Decreasing
    <3> QED  BY <3>1, <3>2
  <2>2. \A n \in Node : nodeToZone1[n] # None => dist[intfToZone1[nodeToZone1[n]]] < dist[n]
    BY <1>1 DEF StepsDecreasing, Decreasing
  <2>3. Decreasing(dist, nodeToZone1, intfToZone1, NM, M)
    <3> HIDE DEF NM, M
    <3> QED  BY <1>6, <2>1, <2>2 DEF Decreasing
  <2> QED  BY <2>3 DEF StepsDecreasing
<1> QED  BY <1>6, <1>10, <1>11, <1>12, <1>13, <1>14

LEMMA CloseLoopSteps ==
  ASSUME SearchInv, SearchInv', StepsInv, NEW i \in Intfs, CloseLoop(i)
  PROVE  StepsInv'
<1> DEFINE c == Len(stack)
           n == stack[c].obj
           x == Next1(n, i)
           new == Loop(x, dist[x] + 1)
           L == Append(loops, new)
           f == Len(L)
           S == stack'
           larger == IF new.distance > stack[c].max THEN new.distance ELSE stack[c].max
           fr == [stack[c] EXCEPT !.todo = @ \ {i}, !.max = larger]
<1>1. /\ stack # << >> /\ i \in stack[c].todo /\ intfLoop[i] = 0 /\ Active(x)
      /\ FoundLoop(n, i, f, L)
      /\ stack' = [stack EXCEPT ![c].todo = @ \ {i}, ![c].max = IF new.distance > @ THEN new.distance ELSE @]
      /\ UNCHANGED <<graph, phase, startDistance, partitions, pending, dist, nodeToZone1>>
  BY DEF CloseLoop, Top
<1>2. /\ stack \in Seq(FrameSet) /\ graph \in Topologies /\ dist \in [Node -> Nat]
      /\ nodeLoop \in [Node -> Nat] /\ IsLoops(loops)
      /\ loops \in Seq(LoopObject)
      /\ phase = "search"
  BY <1>1 DEF SearchInv, Types, IsLoops, CallsJoined
<1>3. DOMAIN stack = 1 .. c /\ c \in Nat \ {0} /\ c \in DOMAIN stack /\ stack[c] \in FrameSet
  BY <1>1, <1>2
<1>4. n \in Node /\ x \in Node
  <2>1. n \in Node
    BY <1>3 DEF FrameSet
  <2>2. x \in Node
    BY <1>1 DEF SearchInv, CallsDescend, Active
  <2> QED  BY <2>1, <2>2
<1>5. new \in LoopObject /\ new.exit = x /\ new.distance = dist[x] + 1 /\ new.redirect = 0 /\ new.clusterExit = None
  BY <1>2, <1>4 DEF Loop, LoopObject
<1>6. stack' = [stack EXCEPT ![c] = fr]
  BY <1>1, <1>3
<1>7. fr.obj = stack[c].obj /\ fr.max \in Nat /\ stack[c].max <= fr.max
  <2>1. stack[c].max \in Nat /\ new.distance \in Nat
    BY <1>2, <1>3, <1>4, <1>5 DEF FrameSet
  <2>2. fr.obj = stack[c].obj /\ fr.max = larger
    BY <1>3 DEF FrameSet
  <2> QED  BY <2>1, <2>2
<1> HIDE DEF fr, larger
<1>8. DOMAIN S = 1 .. c /\ \A k \in 1 .. c : S[k].obj = stack[k].obj /\ stack[k].max <= S[k].max
  <2>1. DOMAIN S = 1 .. c /\ \A k \in 1 .. c : S[k] = IF k = c THEN fr ELSE stack[k]
    BY <1>3, <1>6
  <2>2. \A k \in 1 .. c : stack[k].max \in Nat
    <3>1. \A k \in 1 .. c : stack[k] \in FrameSet
      BY <1>2, <1>3
    <3> QED  BY <3>1 DEF FrameSet
  <2> HIDE DEF S
  <2> QED  BY <1>7, <2>1, <2>2
<1> HIDE DEF c
<1>9. /\ f = Len(loops) + 1 /\ Len(loops) \in Nat /\ DOMAIN L = 1 .. f /\ DOMAIN loops = 1 .. Len(loops)
      /\ L[f] = new /\ \A l \in DOMAIN loops : L[l] = loops[l]
      /\ L \in Seq(LoopObject) /\ f \in DOMAIN L
      /\ \A l \in DOMAIN L : l \in DOMAIN loops \/ l = f
  <2> HIDE DEF new
  <2> QED  BY <1>2, <1>5
<1> HIDE DEF L, f, new, n, x, S
<1>10. IsLoops(L)
  <2> SUFFICES ASSUME NEW l \in DOMAIN L, L[l].redirect # 0
               PROVE  /\ L[l].redirect \in DOMAIN L
                      /\ \/ L[L[l].redirect].distance < L[l].distance
                         \/ L[L[l].redirect].distance = L[l].distance /\ L[l].redirect < l
    BY <1>9 DEF IsLoops, Redirects
  <2>1. l \in DOMAIN loops /\ L[l] = loops[l]
    BY <1>5, <1>9
  <2>2. /\ loops[l].redirect \in DOMAIN loops
        /\ \/ loops[loops[l].redirect].distance < loops[l].distance
           \/ loops[loops[l].redirect].distance = loops[l].distance /\ loops[l].redirect < l
    BY <1>2, <2>1 DEF IsLoops, Redirects
  <2> QED  BY <1>9, <2>1, <2>2
<1>11. \A y : (OnStack(S, y) <=> Active(y)) /\ (Active(y)' <=> Active(y))
  BY <1>3, <1>8 DEF OnStack, Active, S
<1>12. OnStack(S, x) /\ OnStack(S, n) /\ OnStack(S, L[f].exit)
  BY <1>1, <1>3, <1>5, <1>9, <1>11 DEF Active, n
<1>13. nodeLoop[n] # 0 => nodeLoop[n] \in DOMAIN L /\ OnStack(S, L[nodeLoop[n]].exit)
  <2> SUFFICES ASSUME nodeLoop[n] # 0 PROVE nodeLoop[n] \in DOMAIN L /\ OnStack(S, L[nodeLoop[n]].exit)
    OBVIOUS
  <2>1. nodeLoop[n] \in DOMAIN loops /\ OnStack(stack, loops[nodeLoop[n]].exit)
    <3>1. CallsDescend(stack, dist) /\ LoopsOfCalls(stack, nodeLoop, loops, dist)
      BY DEF SearchInv
    <3>2. c \in DOMAIN stack /\ n = stack[c].obj
      BY <1>3 DEF n
    <3> QED  BY <1>2, <3>1, <3>2, LoopOfCall
  <2>2. nodeLoop[n] \in DOMAIN L /\ L[nodeLoop[n]] = loops[nodeLoop[n]]
    BY <1>9, <2>1
  <2>3. \A y : OnStack(stack, y) => OnStack(S, y)
    BY <1>11 DEF OnStack, Active
  <2> QED  BY <2>1, <2>2, <2>3
<1>14. KeepsLinks(S, nodeLoop, L, dist, n, nodeLoop', loops') /\ intfToZone1' = intfToZone1
  <2>1. Made(n, f, nodeLoop, L, dist, nodeLoop', loops') /\ intfToZone1' = intfToZone1
    BY <1>1, FoundLoopMakes
  <2> QED  BY <1>2, <1>9, <1>10, <1>12, <1>13, <2>1, MadeLinks
<1>15. Extends(S, L)
  <2>1. dist[x] <= new.distance
    BY <1>2, <1>4, <1>5
  <2>2. \A l \in DOMAIN L \ DOMAIN loops : L[l] = new
    BY <1>9
  <2>3. DOMAIN loops \subseteq DOMAIN L
    BY <1>9
  <2> QED  BY <1>5, <1>9, <1>12, <2>1, <2>2, <2>3 DEF Extends
<1>16. LoopsOfCalls(S, nodeLoop', loops', dist) /\ CallsDescend(S, dist)
  <2>1. LoopsOfCalls(stack, nodeLoop, loops, dist)' /\ CallsDescend(stack, dist)'
    BY DEF SearchInv
  <2>2. LoopsOfCalls(stack', nodeLoop', loops', dist') /\ CallsDescend(stack', dist')
    BY <2>1
  <2> QED  BY <1>1, <2>2 DEF S
<1>17. \A m \in Node : (Reached(m)' <=> Reached(m)) /\ (Left(m)' => Left(m) \/ Inside(m)')
  <2>1. ASSUME NEW m \in Node PROVE Reached(m)' <=> Reached(m)
    <3>1. CASE m = n
      <4>1. Active(m) /\ Active(m)'
        BY <1>11, <1>12, <3>1
      <4> QED  BY <4>1 DEF Reached
    <3>2. CASE m # n
      <4>1. nodeLoop'[m] = nodeLoop[m]
        BY <1>14, <3>2 DEF KeepsLinks
      <4> QED  BY <1>1, <1>11, <4>1 DEF Reached
    <3> QED  BY <3>1, <3>2
  <2> QED  BY <1>11, <2>1 DEF Left
<1>18. /\ StepsKnown' /\ OwnLoops' /\ LoopsLinked' /\ Partitioned' /\ StepsDecreasing(dist)'
       /\ \A l \in DOMAIN loops' : loops'[l].clusterExit = None
  BY <1>1, <1>2, <1>11, <1>12, <1>14, <1>15, <1>16, <1>17, FoundSteps
<1>19. Located'
  <2>0. Located
    BY <1>2 DEF StepsInv
  <2>1. 1 \in 1 .. c /\ S[1].obj = stack[1].obj /\ 1 \in DOMAIN stack
    BY <1>3, <1>8
  <2>2. startDistance' <= dist'[stack'[1].obj]
    BY <1>1, <2>0, <2>1 DEF Located, S
  <2>3. ASSUME NEW m \in Node, NEW z \in Node, Reached(m)', stack' # << >> => z = stack'[1].obj
        PROVE  \/ dist'[m] < startDistance'
               \/ \E k \in DOMAIN stack' : Linked(z, m)' /\ dist'[m] <= stack'[k].max
    <3>1. Reached(m) /\ z = stack[1].obj
      <4>1. stack' # << >>
        BY <1>3, <1>8 DEF S
      <4> QED  BY <1>17, <2>1, <2>3, <4>1 DEF S
    <3>2. CASE dist[m] < startDistance
      BY <1>1, <3>2
    <3>3. ASSUME NEW k \in DOMAIN stack, Linked(z, m), dist[m] <= stack[k].max
          PROVE  \E j \in DOMAIN stack' : Linked(z, m)' /\ dist'[m] <= stack'[j].max
      <4>1. k \in DOMAIN S
        BY <1>3, <1>8, <3>3
      <4>2. dist[m] <= S[k].max
        <5>1. dist[m] \in Nat /\ stack[k].max \in Nat /\ S[k].max \in Nat /\ stack[k].max <= S[k].max
          <6>1. stack'[k] \in FrameSet /\ stack[k] \in FrameSet
            <7>1. stack' \in Seq(FrameSet)
              BY DEF SearchInv, Types
            <7> QED  BY <1>2, <4>1, <7>1 DEF S
          <6> QED  BY <1>2, <1>3, <1>8, <6>1 DEF FrameSet, S
        <5> QED  BY <3>3, <5>1
      <4>3. \A a, b : Linked(a, b)' <=> Linked(a, b)
        BY <1>1, LinkedKept
      <4> QED  BY <1>1, <3>3, <4>1, <4>2, <4>3 DEF S
    <3> QED  BY <2>0, <3>1, <3>2, <3>3 DEF Located
  <2> QED  BY <1>18, <2>2, <2>3 DEF Located
<1> QED  BY <1>1, <1>2, <1>18, <1>19 DEF StepsInv

\* Distances of reached nodes, if the last call returns.
DistancesLocated ==
  /\ stack # << >> => startDistance <= dist[stack[1].obj]
  /\ \A n, z \in Node : Reached(n) /\ (stack # << >> => z = stack[1].obj) =>
       \/ dist[n] < startDistance
       \/ \E k \in DOMAIN stack : Linked(z, n) /\ dist[n] <= stack[k].max

LEMMA ReturnLocated ==
  ASSUME SearchInv, Located, Return, NEW c, c = Len(stack), NEW t, t = stack[c].obj
  PROVE  DistancesLocated'
<1>1. /\ c \in Nat \ {0} /\ DOMAIN stack = 1 .. c /\ t \in Node /\ stack[c] \in FrameSet
      /\ stack' \in Seq(FrameSet) /\ DOMAIN stack' = 1 .. c - 1
      /\ \A k \in 1 .. c - 1 : k \in DOMAIN stack /\ stack'[k].obj = stack[k].obj
      /\ UNCHANGED <<graph, phase, partitions, pending, dist>>
      /\ startDistance' \in Nat
      /\ c = 1 => startDistance' = stack[c].max + 1
      /\ c > 1 => /\ startDistance' = startDistance
                  /\ \A k \in 1 .. c - 1 : stack[k].max <= stack'[k].max
                  /\ stack[c].max <= stack'[c - 1].max
  BY ReturnLeaves DEF LastLeft
<1>2. ReachedAfter(t)
  BY ReturnReaches
<1>3. /\ graph \in Topologies /\ dist \in [Node -> Nat] /\ startDistance \in Nat
      /\ stack \in Seq(FrameSet) /\ 1 \in DOMAIN stack /\ stack # << >> /\ stack[1].obj \in Node
      /\ \A k \in 1 .. c : stack[k].max \in Nat
      /\ \A k \in 1 .. c - 1 : stack'[k].max \in Nat
  <2>1. stack \in Seq(FrameSet) /\ stack' \in Seq(FrameSet)
    BY <1>1 DEF SearchInv, Types
  <2>2. \A k \in 1 .. c : stack[k] \in FrameSet
    BY <1>1, <2>1
  <2>3. \A k \in 1 .. c - 1 : stack'[k] \in FrameSet
    BY <1>1, <2>1
  <2>4. 1 \in DOMAIN stack /\ stack # << >>
    BY <1>1
  <2>5. stack[1].obj \in Node
    BY <2>4 DEF SearchInv, CallsDescend
  <2> QED  BY <2>1, <2>2, <2>3, <2>4, <2>5 DEF FrameSet, SearchInv, Types
<1>4. /\ startDistance <= dist[stack[1].obj]
      /\ \A n \in Node : Reached(n) =>
           \/ dist[n] < startDistance
           \/ \E k \in 1 .. c : Linked(stack[1].obj, n) /\ dist[n] <= stack[k].max
  BY <1>1, <1>3 DEF Located
<1>5. /\ \A n, m : Linked(n, m)' <=> Linked(n, m)
      /\ \A n \in Node : Reached(n)' <=> Reached(n)
  BY <1>1, <1>2, LinkedKept DEF ReachedAfter
<1>6. CASE c = 1
  <2>1. stack' = << >>
    BY <1>1, <1>6
  <2>2. stack[1].obj = t /\ Reached(t) /\ startDistance' = stack[1].max + 1
    BY <1>1, <1>2, <1>6 DEF ReachedAfter
  <2>3. \A k \in 1 .. c : k = 1
    BY <1>6
  <2>4. startDistance <= stack[1].max
    <3>1. ~(dist[t] < startDistance)
      BY <1>1, <1>3, <1>4, <2>2
    <3>2. dist[t] <= stack[1].max
      BY <1>1, <1>4, <2>2, <2>3, <3>1
    <3> QED  BY <1>1, <1>3, <1>4, <2>2, <3>2
  <2>5. \A n \in Node : Reached(n) => dist[n] < startDistance'
    <3> SUFFICES ASSUME NEW n \in Node, Reached(n) PROVE dist[n] < startDistance'
      OBVIOUS
    <3>1. dist[n] < startDistance \/ dist[n] <= stack[1].max
      BY <1>4, <2>3
    <3>2. dist[n] \in Nat /\ stack[1].max \in Nat
      BY <1>3, <1>6
    <3> QED  BY <1>3, <2>2, <2>4, <3>1, <3>2
  <2> QED  BY <1>1, <1>5, <2>1, <2>5 DEF DistancesLocated
<1>7. CASE c # 1
  <2>1. c > 1 /\ 1 \in 1 .. c - 1 /\ c - 1 \in 1 .. c - 1
    BY <1>1, <1>7
  <2>2. stack' # << >> /\ stack'[1].obj = stack[1].obj
    BY <1>1, <2>1
  <2>3. ASSUME NEW n \in Node, Reached(n), ~(dist[n] < startDistance)
        PROVE  \E k \in DOMAIN stack' : Linked(stack[1].obj, n) /\ dist[n] <= stack'[k].max
    <3>1. PICK k \in 1 .. c : Linked(stack[1].obj, n) /\ dist[n] <= stack[k].max
      BY <1>4, <2>3
    <3>2. dist[n] \in Nat /\ stack[k].max \in Nat
      BY <1>3
    <3>3. CASE k = c
      <4>1. dist[n] <= stack'[c - 1].max
        <5>1. stack[c].max <= stack'[c - 1].max /\ stack'[c - 1].max \in Nat
          BY <1>1, <1>3, <2>1
        <5> QED  BY <3>1, <3>2, <3>3, <5>1
      <4> QED  BY <1>1, <2>1, <3>1, <4>1
    <3>4. CASE k # c
      <4>1. k \in 1 .. c - 1
        BY <1>1, <3>4
      <4>2. stack[k].max <= stack'[k].max /\ stack'[k].max \in Nat
        BY <1>1, <1>3, <2>1, <4>1
      <4>3. dist[n] <= stack'[k].max
        BY <3>1, <3>2, <4>2
      <4> QED  BY <1>1, <3>1, <4>1, <4>3
    <3> QED  BY <3>3, <3>4
  <2>4. startDistance' = startDistance
    BY <1>1, <2>1
  <2> QED  BY <1>1, <1>4, <1>5, <2>2, <2>3, <2>4 DEF DistancesLocated
<1> QED  BY <1>6, <1>7

\* The node of the last call leads to the node of its caller.
LEMMA ReturnBackSteps ==
  ASSUME SearchInv, StepsInv, Return, NEW c, c = Len(stack), NEW t, t = stack[c].obj, Result(t) = 0
  PROVE  StepsInv'
<1>1. /\ c \in Nat \ {0} /\ DOMAIN stack = 1 .. c /\ t \in Node
      /\ \A k \in 1 .. c - 1 : k \in DOMAIN stack /\ stack[k].obj \in Node /\ stack[k].obj # t
      /\ UNCHANGED <<graph, phase, partitions, pending, dist, nodeLoop, intfLoop, loops>>
      /\ nodeToZone1' = [nodeToZone1 EXCEPT ![t] = stack[c].intf]
      /\ c = 1 => intfToZone1' = intfToZone1
      /\ c > 1 => intfToZone1' = [intfToZone1 EXCEPT ![stack[c].intf] = stack[c - 1].obj]
  <2>1. LastLeft(c, t)
    BY ReturnLeaves
  <2> QED  BY <2>1 DEF LastLeft
<1>2. ReachedAfter(t)
  BY ReturnReaches
<1>3. /\ graph \in Topologies /\ dist \in [Node -> Nat]
      /\ nodeToZone1 \in [Node -> Intfs \cup {None}] /\ intfToZone1 \in [Intfs -> Node \cup {None}]
      /\ StepsKnown /\ OwnLoops /\ LoopsLinked /\ Partitioned
      /\ stack # << >> /\ phase = "search" /\ StepsDecreasing(dist) /\ Located
      /\ c \in DOMAIN stack
  <2>1. stack # << >> /\ c \in DOMAIN stack
    BY <1>1
  <2>2. phase = "search"
    BY <2>1 DEF SearchInv, CallsJoined
  <2> QED  BY <2>1, <2>2 DEF SearchInv, Types, StepsInv
<1>4. /\ \A n, m : Linked(n, m)' <=> Linked(n, m)
      /\ \A i, n, m : Joins(i, n, m)' <=> Joins(i, n, m)
      /\ \A n : (Inside(n)' <=> Inside(n)) /\ (OwnExit(n)' <=> OwnExit(n))
  BY <1>1, LinkedKept, GraphKept DEF Inside, OwnExit
<1>5. ~Inside(t)
  BY DEF Result, Inside
<1>6. c = 1 => stack[c].intf = None /\ t \in partitions
  BY <1>1, <1>3 DEF SearchInv, CallsJoined
<1>7. c > 1 => /\ Joins(stack[c].intf, t, stack[c - 1].obj) /\ stack[c].intf \in Intfs
               /\ stack[c - 1].obj \in Node /\ Active(stack[c - 1].obj)
               /\ dist[stack[c - 1].obj] + 2 <= dist[t]
  <2> SUFFICES ASSUME c > 1
               PROVE  /\ Joins(stack[c].intf, t, stack[c - 1].obj) /\ stack[c].intf \in Intfs
                      /\ stack[c - 1].obj \in Node /\ Active(stack[c - 1].obj)
                      /\ dist[stack[c - 1].obj] + 2 <= dist[t]
    OBVIOUS
  <2>1. c - 1 \in DOMAIN stack /\ c - 1 < c /\ stack[c - 1].obj \in Node
    BY <1>1
  <2>2. Joins(stack[c].intf, t, stack[c - 1].obj)
    BY <1>1, <1>3, <2>1 DEF SearchInv, CallsJoined
  <2>3. dist[stack[c - 1].obj] + 2 <= dist[t]
    BY <1>3, <2>1 DEF SearchInv, CallsDescend
  <2>4. stack[c].intf \in Intfs
    BY <2>2, IntfListIsSet DEF Joins
  <2> QED  BY <2>1, <2>2, <2>3, <2>4 DEF Active
<1>8. /\ nodeToZone1'[t] = stack[c].intf
      /\ \A n \in Node : n # t => nodeToZone1'[n] = nodeToZone1[n]
      /\ c > 1 => intfToZone1'[stack[c].intf] = stack[c - 1].obj
      /\ \A i \in Intfs : c = 1 \/ i # stack[c].intf => intfToZone1'[i] = intfToZone1[i]
  BY <1>1, <1>3, <1>7
<1>9. ASSUME NEW n \in Node, n # t, NEW i \in Intfs, i = nodeToZone1[n]
      PROVE  intfToZone1'[i] = intfToZone1[i]
  <2> SUFFICES ASSUME c > 1, i = stack[c].intf PROVE FALSE
    BY <1>1, <1>8
  <2>1. i \in IntfList(n) /\ i \in IntfList(t)
    BY <1>3, <1>7, <1>9 DEF StepsKnown, Joins
  <2>2. Joins(i, t, n)
    BY <1>9, <2>1 DEF Joins
  <2>3. n = stack[c - 1].obj
    BY <1>1, <1>3, <1>7, <2>1, <2>2, TwoEnds, SMTT(30)
  <2>4. nodeToZone1[n] = None
    BY <1>7, <2>3 DEF SearchInv, CallsJoined, Active
  <2> QED  BY <1>9, <2>4, TopologyAssumption
<1>10. StepsKnown'
  <2>1. ASSUME NEW n \in Node, NEW i \in Intfs, i = nodeToZone1'[n]
        PROVE  /\ ~Inside(n)'
               /\ \E m \in Node : m = intfToZone1'[i] /\ Joins(i, n, m)' /\ Reached(m)'
    <3>1. CASE n = t
      <4>1. c > 1
        BY <1>1, <1>6, <1>8, <2>1, <3>1, TopologyAssumption
      <4>2. i = stack[c].intf /\ intfToZone1'[i] = stack[c - 1].obj /\ Reached(stack[c - 1].obj)
        BY <1>7, <1>8, <2>1, <3>1, <4>1 DEF Reached
      <4> QED  BY <1>2, <1>4, <1>5, <1>7, <3>1, <4>1, <4>2 DEF ReachedAfter
    <3>2. CASE n # t
      <4>1. i = nodeToZone1[n]
        BY <1>8, <2>1, <3>2
      <4>2. intfToZone1'[i] = intfToZone1[i]
        BY <1>9, <3>2, <4>1
      <4>3. ~Inside(n) /\ \E m \in Node : m = intfToZone1[i] /\ Joins(i, n, m) /\ Reached(m)
        BY <1>3, <4>1 DEF StepsKnown
      <4> QED  BY <1>2, <1>4, <4>2, <4>3 DEF ReachedAfter
    <3> QED  BY <3>1, <3>2
  <2>2. ASSUME NEW n \in Node, Left(n)' PROVE nodeToZone1'[n] # None \/ Inside(n)' \/ n \in partitions'
    <3>1. CASE n = t
      <4>1. c > 1 => nodeToZone1'[n] # None
        BY <1>7, <1>8, <3>1, TopologyAssumption
      <4> QED  BY <1>1, <1>6, <3>1, <4>1
    <3>2. CASE n # t
      <4>1. Left(n)
        BY <1>2, <2>2, <3>2 DEF ReachedAfter
      <4>2. nodeToZone1[n] # None \/ Inside(n) \/ n \in partitions
        BY <1>3, <4>1 DEF StepsKnown
      <4> QED  BY <1>1, <1>4, <1>8, <3>2, <4>2
    <3> QED  BY <3>1, <3>2
  <2> QED  BY <2>1, <2>2 DEF StepsKnown
<1>11. OwnLoops' /\ LoopsLinked' /\ Partitioned'
  <2>1. \A n \in Node : Reached(n)' <=> Reached(n)
    BY <1>2 DEF ReachedAfter
  <2>2. OwnLoops'
    BY <1>1, <1>3, <1>4 DEF OwnLoops
  <2>3. LoopsLinked'
    BY <1>1, <1>3, <1>4, <2>1 DEF LoopsLinked
  <2>4. Partitioned'
    BY <1>1, <1>3, <1>4, <2>1 DEF Partitioned
  <2> QED  BY <2>2, <2>3, <2>4
<1>12. Decreasing(dist, nodeToZone1', intfToZone1', nodeLoop, loops)
  <2>1. ASSUME NEW n \in Node, nodeToZone1'[n] # None
        PROVE  dist[intfToZone1'[nodeToZone1'[n]]] < dist[n]
    <3>1. CASE n = t
      <4>1. c > 1
        BY <1>1, <1>6, <1>8, <2>1, <3>1
      <4>2. dist[stack[c - 1].obj] + 2 <= dist[t] /\ dist[stack[c - 1].obj] \in Nat /\ dist[t] \in Nat
        BY <1>1, <1>3, <1>7, <4>1
      <4>3. intfToZone1'[nodeToZone1'[n]] = stack[c - 1].obj
        BY <1>8, <3>1, <4>1
      <4> QED  BY <3>1, <4>2, <4>3
    <3>2. CASE n # t
      <4>1. nodeToZone1'[n] = nodeToZone1[n] /\ nodeToZone1[n] \in Intfs
        BY <1>3, <1>8, <2>1, <3>2
      <4>2. intfToZone1'[nodeToZone1[n]] = intfToZone1[nodeToZone1[n]]
        BY <1>9, <3>2, <4>1
      <4> QED  BY <1>3, <2>1, <4>1, <4>2 DEF StepsDecreasing, Decreasing
    <3> QED  BY <3>1, <3>2
  <2> QED  BY <1>3, <2>1 DEF StepsDecreasing, Decreasing
<1>13. StepsDecreasing(dist)'
  BY <1>1, <1>12 DEF StepsDecreasing
<1>14. Located'
  <2>1. DistancesLocated'
    BY <1>3, ReturnLocated
  <2> QED  BY <1>1, <1>3, <2>1 DEF Located, DistancesLocated
<1> QED  BY <1>1, <1>3, <1>10, <1>11, <1>13, <1>14 DEF StepsInv

\* The node of the last call stays in a loop, which is returned to its caller.
LEMMA ReturnLoopSteps ==
  ASSUME SearchInv, SearchInv', StepsInv, Return, NEW c, c = Len(stack), NEW t, t = stack[c].obj,
         NEW f, f = Result(t), f # 0
  PROVE  StepsInv'
<1> DEFINE S == stack'
           obj == stack[c - 1].obj
<1>1. /\ c \in Nat \ {0} /\ DOMAIN stack = 1 .. c /\ t \in Node /\ c > 1
      /\ DOMAIN S = 1 .. c - 1
      /\ \A k \in 1 .. c - 1 : k \in DOMAIN stack /\ S[k].obj = stack[k].obj /\ stack[k].obj \in Node
                               /\ stack[k].obj # t
      /\ UNCHANGED <<graph, phase, partitions, pending, dist, nodeToZone1>>
      /\ FoundLoop(obj, stack[c].intf, f, loops)
  <2>1. LastLeft(c, t)
    BY ReturnLeaves
  <2> QED  BY <2>1 DEF LastLeft
<1>2. ReachedAfter(t)
  BY ReturnReaches
<1>3. /\ dist \in [Node -> Nat] /\ nodeLoop \in [Node -> Nat] /\ IsLoops(loops)
      /\ stack # << >> /\ phase = "search" /\ Located
      /\ c \in DOMAIN stack
  <2>1. stack # << >> /\ c \in DOMAIN stack
    BY <1>1
  <2>2. phase = "search"
    BY <2>1 DEF SearchInv, CallsJoined
  <2> QED  BY <2>1, <2>2 DEF SearchInv, Types, StepsInv
<1>4. nodeLoop[t] = f /\ loops[f].exit # t
  BY DEF Result
<1> HIDE DEF S
<1>5. \A x : OnStack(S, x) <=> Active(x) /\ x # t
  <2>1. \A x : OnStack(S, x) <=> Active(x)'
    BY DEF S, OnStack, Active
  <2> QED  BY <1>2, <2>1 DEF ReachedAfter
<1>6. ASSUME NEW k \in 1 .. c, nodeLoop[stack[k].obj] # 0, loops[nodeLoop[stack[k].obj]].exit # t
      PROVE  /\ nodeLoop[stack[k].obj] \in DOMAIN loops
             /\ OnStack(S, loops[nodeLoop[stack[k].obj]].exit)
  <2>1. k \in DOMAIN stack /\ \A j \in 1 .. k : j \in DOMAIN stack
    BY <1>1
  <2>2. /\ nodeLoop[stack[k].obj] \in DOMAIN loops
        /\ \E j \in 1 .. k : loops[nodeLoop[stack[k].obj]].exit = stack[j].obj
    BY <1>6, <2>1 DEF SearchInv, LoopsOfCalls
  <2> QED  BY <1>5, <1>6, <2>1, <2>2 DEF Active
<1>7. f \in DOMAIN loops /\ OnStack(S, loops[f].exit)
  BY <1>1, <1>4, <1>6
<1>8. c - 1 \in 1 .. c - 1 /\ OnStack(S, obj) /\ obj # t /\ obj \in Node
  <2>1. c - 1 \in 1 .. c - 1
    BY <1>1
  <2> QED  BY <1>1, <2>1 DEF OnStack
<1>9. nodeLoop[obj] # 0 => nodeLoop[obj] \in DOMAIN loops /\ OnStack(S, loops[nodeLoop[obj]].exit)
  <2> SUFFICES ASSUME nodeLoop[obj] # 0
               PROVE  nodeLoop[obj] \in DOMAIN loops /\ OnStack(S, loops[nodeLoop[obj]].exit)
    OBVIOUS
  <2>1. c - 1 \in DOMAIN stack /\ c - 1 < c /\ \A j \in 1 .. c - 1 : j \in 1 .. c - 1 /\ j \in DOMAIN stack
    BY <1>1, <1>8
  <2>2. /\ nodeLoop[obj] \in DOMAIN loops
        /\ \E j \in 1 .. c - 1 : loops[nodeLoop[obj]].exit = stack[j].obj
    BY <2>1 DEF SearchInv, LoopsOfCalls
  <2> QED  BY <1>1, <1>5, <2>1, <2>2 DEF Active
<1>10. KeepsLinks(S, nodeLoop, loops, dist, obj, nodeLoop', loops') /\ intfToZone1' = intfToZone1
  <2>1. Made(obj, f, nodeLoop, loops, dist, nodeLoop', loops') /\ intfToZone1' = intfToZone1
    BY <1>1, FoundLoopMakes
  <2> HIDE DEF obj
  <2> QED  BY <1>3, <1>7, <1>9, <2>1, MadeLinks
<1>11. Extends(S, loops)
  BY DEF Extends
<1>12. LoopsOfCalls(S, nodeLoop', loops', dist) /\ CallsDescend(S, dist)
  <2>1. LoopsOfCalls(stack, nodeLoop, loops, dist)' /\ CallsDescend(stack, dist)'
    BY DEF SearchInv
  <2>2. LoopsOfCalls(stack', nodeLoop', loops', dist') /\ CallsDescend(stack', dist')
    BY <2>1
  <2> QED  BY <1>1, <2>2 DEF S
<1>13. \A m \in Node : (Reached(m)' <=> Reached(m)) /\ (Left(m)' => Left(m) \/ Inside(m)')
  <2>1. Inside(t)'
    <3>1. nodeLoop'[t] = f /\ loops'[f].exit = loops[f].exit
      BY <1>1, <1>4, <1>7, <1>8, <1>10 DEF KeepsLinks
    <3> QED  BY <1>4, <3>1 DEF Inside
  <2> QED  BY <1>2, <2>1 DEF ReachedAfter
<1>14. /\ StepsKnown' /\ OwnLoops' /\ LoopsLinked' /\ Partitioned' /\ StepsDecreasing(dist)'
       /\ \A l \in DOMAIN loops' : loops'[l].clusterExit = None
  <2> HIDE DEF obj
  <2> QED  BY <1>1, <1>3, <1>5, <1>8, <1>10, <1>11, <1>12, <1>13, FoundSteps
<1>15. Located'
  <2>1. DistancesLocated'
    BY <1>3, ReturnLocated
  <2> QED  BY <1>14, <2>1 DEF Located, DistancesLocated
<1> QED  BY <1>1, <1>3, <1>14, <1>15 DEF StepsInv

LEMMA ReturnSteps ==
  ASSUME SearchInv, SearchInv', StepsInv, Return
  PROVE  StepsInv'
<1> DEFINE c == Len(stack)
           t == stack[c].obj
           f == Result(t)
<1>1. c = Len(stack) /\ t = stack[c].obj /\ f = Result(t)
  OBVIOUS
<1> HIDE DEF c, t, f
<1>2. CASE f = 0
  BY <1>1, <1>2, ReturnBackSteps
<1>3. CASE f # 0
  BY <1>1, <1>3, ReturnLoopSteps
<1> QED  BY <1>2, <1>3

LEMMA EndOfSearchSteps ==
  ASSUME SearchInv, StepsInv, EndOfSearch
  PROVE  StepsInv'
<1>1. /\ phase = "search" /\ stack = << >> /\ phase' = "process" /\ pending' = Node
      /\ \A z \in Zones : z \in partitions \/ nodeToZone1[z] # None \/ nodeLoop[z] # 0
      /\ UNCHANGED <<graph, stack, startDistance, partitions, dist, nodeLoop, nodeToZone1,
                     intfLoop, intfToZone1, loops>>
  BY DEF EndOfSearch, nodeVars, intfVars
<1>2. /\ graph \in Topologies /\ dist \in [Node -> Nat]
      /\ StepsKnown /\ OwnLoops /\ LoopsLinked /\ Partitioned
      /\ StepsDecreasing(dist) /\ Located
  BY <1>1 DEF SearchInv, Types, StepsInv
<1>3. /\ \A n, m : Linked(n, m)' <=> Linked(n, m)
      /\ \A i, n, m : Joins(i, n, m)' <=> Joins(i, n, m)
      /\ \A n : IntfList(n)' = IntfList(n)
      /\ \A n : (Inside(n)' <=> Inside(n)) /\ (OwnExit(n)' <=> OwnExit(n))
      /\ \A n : (Reached(n)' <=> Reached(n)) /\ (Left(n)' <=> Left(n))
  BY <1>1, LinkedKept, GraphKept DEF Inside, OwnExit, Reached, Left, Active
<1>4. StepsKnown' /\ OwnLoops' /\ LoopsLinked' /\ Partitioned'
  <2>1. StepsKnown'
    BY <1>1, <1>2, <1>3 DEF StepsKnown
  <2>2. OwnLoops'
    BY <1>1, <1>2, <1>3 DEF OwnLoops
  <2>3. LoopsLinked'
    BY <1>1, <1>2, <1>3 DEF LoopsLinked
  <2>4. Partitioned'
    BY <1>1, <1>2, <1>3 DEF Partitioned
  <2> QED  BY <2>1, <2>2, <2>3, <2>4
<1>5. SearchDistance(dist)'
  <2>1. StepsDecreasing(dist)'
    BY <1>1, <1>2 DEF StepsDecreasing
  <2>2. \A n \in Node : dist'[n] <= dist'[n]
    BY <1>1, <1>2
  <2> QED  BY <1>1, <1>2, <2>1, <2>2 DEF SearchDistance
<1>6. ClustersEnd' /\ ClustersFound'
  <2>1. \A l \in DOMAIN loops' : loops'[l].clusterExit = None
    BY <1>1, <1>2 DEF Located
  <2>2. None \notin Node
    BY TopologyAssumption DEF Node
  <2> QED  BY <1>1, <2>1, <2>2 DEF ClustersEnd, ClustersFound
<1>7. \A n \in Node : IntfList(n) # {} => Reached(n)
  <2> SUFFICES ASSUME NEW n \in Node, NEW i \in IntfList(n) PROVE Reached(n)
    OBVIOUS
  <2>1. \A z \in Zones : Left(z)
    <3>1. \A z : ~Active(z)
      BY <1>1 DEF Active
    <3> QED  BY <1>1, <3>1 DEF Left, Reached
  <2>2. CASE n \in Zones
    BY <2>1, <2>2 DEF Left
  <2>3. CASE n \notin Zones
    <3> DEFINE m == Next1(n, i)
    <3>1. i \in Intfs /\ m \in Zones /\ Joins(i, n, m) /\ Joins(i, m, n)
      <4>1. i \in Intfs /\ graph[i].zone \in Zones
        BY <1>2, TopologyAssumption DEF IntfList
      <4>2. m = graph[i].zone
        BY <2>3, <4>1 DEF IntfList, Next1
      <4>3. Joins(i, n, m)
        BY <1>2, <4>1, <4>2, TwoEnds DEF Node
      <4> QED  BY <4>1, <4>2, <4>3, JoinsBoth
    <3> HIDE DEF m
    <3>2. Left(m) /\ m \in Node
      BY <2>1, <3>1 DEF Node
    <3> QED  BY <3>1, <3>2 DEF SearchInv, NothingForgotten
  <2> QED  BY <2>2, <2>3
<1> QED  BY <1>1, <1>3, <1>4, <1>5, <1>6, <1>7 DEF StepsInv

-----------------------------------------------------------------------------
\* A loop and the one it is redirected to belong to the same partition.
LEMMA OuterLinked ==
  ASSUME SearchInv, LoopsLinked, NEW l \in DOMAIN loops
  PROVE  Linked(loops[l].exit, loops[OuterOf(loops)[l]].exit)
<1> DEFINE Outer == OuterOf(loops)
           Good(k) == Linked(loops[k].exit, loops[Outer[k]].exit)
           B == {k \in DOMAIN loops : ~Good(k)}
<1>1. /\ graph \in Topologies /\ IsLoops(loops)
      /\ \A k \in DOMAIN loops : loops[k].exit \in Node
  BY LoopNumbers DEF SearchInv, Types
<1>2. \A k \in DOMAIN loops : /\ Outer[k] \in DOMAIN loops
                              /\ loops[k].redirect = 0 => Outer[k] = k
                              /\ loops[k].redirect # 0 => Outer[k] = Outer[loops[k].redirect]
  BY <1>1, OuterIsLast
<1> HIDE DEF Outer
<1>3. B = {}
  <2> SUFFICES ASSUME B # {} PROVE FALSE
    OBVIOUS
  <2>1. PICK k \in B : loops[k].redirect \notin B
    <3>1. B \in SUBSET DOMAIN loops
      OBVIOUS
    <3> HIDE DEF B
    <3> QED  BY <1>1, <3>1, LeavesSet
  <2>2. CASE loops[k].redirect = 0
    BY <1>1, <1>2, <2>1, <2>2, LinkedIsEquivalence
  <2>3. CASE loops[k].redirect # 0
    <3> DEFINE r == loops[k].redirect
    <3>1. r \in DOMAIN loops
      BY <1>1, <2>1, <2>3 DEF IsLoops, Redirects
    <3>2. Good(r) /\ Outer[k] = Outer[r] /\ Outer[r] \in DOMAIN loops
      BY <1>2, <2>1, <2>3, <3>1
    <3>3. Linked(loops[k].exit, loops[r].exit)
      BY <1>1, <2>1, <2>3, <3>1 DEF LoopsLinked
    <3>4. Linked(loops[k].exit, loops[Outer[r]].exit)
      BY <1>1, <2>1, <3>1, <3>2, <3>3, LinkedIsEquivalence
    <3> QED  BY <2>1, <3>2, <3>4
  <2> QED  BY <2>2, <2>3
<1> QED  BY <1>3 DEF Outer

\* Loop x is the last one of the chain of loop k.
ChainLast(L, NL, x, k) ==
  LET C == ChainOf(L, NL)[k] IN
  /\ C \subseteq DOMAIN L /\ k \in C /\ x \in C
  /\ \A y \in C : /\ LastOf(L, NL, y) <=> y = x
                  /\ L[x].distance <= L[y].distance
                  /\ Linked(L[y].exit, L[x].exit)

LEMMA ChainHasLast ==
  ASSUME graph \in Topologies, NEW L, NEW NL, IsLoops(L),
         \A k \in DOMAIN L : /\ NL[L[k].exit] \in DOMAIN L /\ KnownExit(L, NL, k)
                             /\ Linked(L[k].exit, L[NL[L[k].exit]].exit),
         NEW l \in DOMAIN L
  PROVE  \E x : ChainLast(L, NL, x, l)
<1> DEFINE C == ChainOf(L, NL)
           Good(k) == \E x : ChainLast(L, NL, x, k)
           B == {k \in DOMAIN L : ~Good(k)}
<1>1. C = [k \in DOMAIN L |-> {k} \cup (IF LastOf(L, NL, k) THEN {} ELSE C[NL[L[k].exit]])]
  BY ChainEquation
<1>2. \A k \in DOMAIN L : L[k].exit \in Node /\ L[k].distance \in Nat
  BY LoopNumbers
<1> HIDE DEF C
<1>3. B = {}
  <2> SUFFICES ASSUME B # {} PROVE FALSE
    OBVIOUS
  <2>1. PICK k \in B : \A x \in B : ~Nearer(L, x, k)
    BY NearestLoop
  <2>2. k \in DOMAIN L /\ ~Good(k)
    OBVIOUS
  <2>3. CASE LastOf(L, NL, k)
    <3>1. C[k] = {k}
      BY <1>1, <2>2, <2>3
    <3>2. Linked(L[k].exit, L[k].exit) /\ L[k].distance <= L[k].distance
      BY <1>2, <2>2, LinkedIsEquivalence
    <3>3. ChainLast(L, NL, k, k)
      BY <2>2, <2>3, <3>1, <3>2 DEF ChainLast, C
    <3> QED  BY <2>2, <3>3
  <2>4. CASE ~LastOf(L, NL, k)
    <3> DEFINE n == NL[L[k].exit]
    <3>1. C[k] = {k} \cup C[n] /\ n \in DOMAIN L
      BY <1>1, <2>2, <2>4
    <3>2. Nearer(L, n, k) /\ Linked(L[k].exit, L[n].exit)
      BY <2>2, <2>4 DEF KnownExit, LastOf
    <3> HIDE DEF n
    <3>3. Good(n)
      BY <2>1, <3>1, <3>2
    <3>4. PICK x : ChainLast(L, NL, x, n)
      BY <3>3
    <3>5. /\ C[n] \subseteq DOMAIN L /\ n \in C[n] /\ x \in C[n]
          /\ \A y \in C[n] : /\ LastOf(L, NL, y) <=> y = x
                             /\ L[x].distance <= L[y].distance
                             /\ Linked(L[y].exit, L[x].exit)
      BY <3>4 DEF ChainLast, C
    <3>6. L[x].distance <= L[k].distance
      <4>1. L[n].distance <= L[k].distance /\ L[x].distance <= L[n].distance
        BY <1>2, <2>2, <3>1, <3>2, <3>5 DEF Nearer
      <4> QED  BY <1>2, <2>2, <3>1, <3>5, <4>1
    <3>7. Linked(L[k].exit, L[x].exit)
      <4>1. Linked(L[n].exit, L[x].exit)
        BY <3>5
      <4> QED  BY <1>2, <2>2, <3>1, <3>2, <3>5, <4>1, LinkedIsEquivalence
    <3>8. LastOf(L, NL, k) <=> k = x
      BY <2>4, <3>5
    <3>9. \A y \in C[k] : /\ LastOf(L, NL, y) <=> y = x
                          /\ L[x].distance <= L[y].distance
                          /\ Linked(L[y].exit, L[x].exit)
      BY <3>1, <3>5, <3>6, <3>7, <3>8
    <3>10. ChainLast(L, NL, x, k)
      BY <2>2, <3>1, <3>5, <3>9 DEF ChainLast, C
    <3> QED  BY <2>2, <3>10
  <2> QED  BY <2>3, <2>4
<1> QED  BY <1>3

\* What processing of node n changes: it gets loop l, the loops of set C get cluster exit c.
Clusters(n, l, nl, c, C) ==
  /\ nodeLoop[n] # 0 /\ l = OuterOf(loops)[nodeLoop[n]] /\ l \in DOMAIN loops
  /\ nl = [nodeLoop EXCEPT ![n] = l]
  /\ nodeLoop' = nl /\ dist' = [dist EXCEPT ![n] = dist[c]]
  /\ C \subseteq DOMAIN loops /\ l \in C /\ c \in Node
  /\ DOMAIN loops' = DOMAIN loops
  /\ \A k \in DOMAIN loops :
       /\ loops'[k].exit = loops[k].exit /\ loops'[k].distance = loops[k].distance
       /\ loops'[k].redirect = loops[k].redirect
       /\ loops'[k].clusterExit = IF k \in C THEN c ELSE loops[k].clusterExit
  /\ \E x \in C : /\ c = IF loops[x].clusterExit # None THEN loops[x].clusterExit ELSE loops[x].exit
                  /\ loops[x].clusterExit # None \/ nl[loops[x].exit] = x
                  /\ \A y \in C : /\ loops[y].clusterExit # None \/ nl[loops[y].exit] = y => y = x
                                  /\ loops[x].distance <= loops[y].distance
                                  /\ Linked(loops[y].exit, loops[x].exit)
  /\ Linked(n, loops[l].exit)

LEMMA ProcessObjClusters ==
  ASSUME SetPathInv, LoopsLinked, NEW n \in Node, ProcessObj(n), nodeLoop[n] # 0
  PROVE  \E l, nl, c, C : Clusters(n, l, nl, c, C)
<1> DEFINE l == OuterOf(loops)[nodeLoop[n]]
           nl == [nodeLoop EXCEPT ![n] = l]
           C == ClusterChain(l, nl)
           c == ClusterExit(l, nl)
<1>1. FindOuterLoop = OuterOf(loops)
  BY DEF FindOuterLoop, OuterOf
<1>2. /\ nodeLoop' = nl
      /\ loops' = [k \in DOMAIN loops |-> IF k \in C THEN [loops[k] EXCEPT !.clusterExit = c] ELSE loops[k]]
      /\ dist' = [dist EXCEPT ![n] = dist[c]]
      /\ phase = "process"
  BY <1>1 DEF ProcessObj
<1>3. /\ SearchInv /\ ExitsKnown /\ graph \in Topologies /\ IsLoops(loops)
      /\ nodeLoop \in [Node -> Nat]
      /\ \A m \in Node : nodeLoop[m] # 0 => nodeLoop[m] \in DOMAIN loops
      /\ \A k \in DOMAIN loops : loops[k] \in LoopObject /\ loops[k].exit \in Node
  BY <1>2, LoopNumbers DEF SetPathInv, SearchInv, Types
<1>4. /\ l \in DOMAIN loops /\ l # 0
      /\ l = nodeLoop[n] \/ Nearer(loops, l, nodeLoop[n])
      /\ nodeLoop[n] \in DOMAIN loops
      /\ Linked(n, loops[l].exit)
  <2>1. nodeLoop[n] \in DOMAIN loops
    BY <1>3
  <2>2. /\ l \in DOMAIN loops /\ l # 0
        /\ l = nodeLoop[n] \/ Nearer(loops, l, nodeLoop[n])
    BY <1>3, <2>1, OuterIsLast, OuterIsNearer, LoopNumbers
  <2>3. Linked(n, loops[nodeLoop[n]].exit)
    BY <1>3, <2>1 DEF LoopsLinked
  <2>4. Linked(loops[nodeLoop[n]].exit, loops[l].exit)
    BY <1>3, <2>1, OuterLinked
  <2> HIDE DEF l
  <2>5. Linked(n, loops[l].exit)
    BY <1>3, <2>1, <2>2, <2>3, <2>4, LinkedIsEquivalence
  <2> QED  BY <2>1, <2>2, <2>5
<1>5. ASSUME NEW k \in DOMAIN loops
      PROVE  /\ nl[loops[k].exit] \in DOMAIN loops /\ KnownExit(loops, nl, k)
             /\ Linked(loops[k].exit, loops[nl[loops[k].exit]].exit)
  <2> DEFINE e == loops[k].exit
  <2>1. e \in Node /\ nodeLoop[e] # 0 /\ nodeLoop[e] \in DOMAIN loops
        /\ (nodeLoop[e] = k \/ Nearer(loops, nodeLoop[e], k))
    BY <1>3 DEF ExitsKnown, KnownExit
  <2>2. nl[e] = IF e = n THEN l ELSE nodeLoop[e]
    BY <1>3, <2>1
  <2>3. Linked(e, loops[nodeLoop[e]].exit)
    BY <1>3, <2>1 DEF LoopsLinked
  <2> HIDE DEF nl, l
  <2>4. nl[e] \in DOMAIN loops /\ nl[e] # 0
    BY <1>4, <2>1, <2>2
  <2>5. nl[e] = k \/ Nearer(loops, nl[e], k)
    BY <1>3, <1>4, <2>1, <2>2, NearerIsTransitive
  <2>6. Linked(e, loops[nl[e]].exit)
    BY <1>4, <2>2, <2>3
  <2> QED  BY <2>4, <2>5, <2>6 DEF KnownExit
<1>6. C = ChainOf(loops, nl)[l] /\ \A k : IsLast(k, nl) <=> LastOf(loops, nl, k)
  BY DEF ClusterChain, ChainOf, IsLast, LastOf
<1>7. c = LET last == CHOOSE k \in C : IsLast(k, nl)
          IN  IF loops[last].clusterExit # None THEN loops[last].clusterExit ELSE loops[last].exit
  BY DEF ClusterExit
<1>8. c \in Node
  BY <1>3, <1>4, <1>5, ClusterExitIsNode
<1> HIDE DEF C, c
<1>9. PICK x : ChainLast(loops, nl, x, l)
  <2> HIDE DEF nl, l
  <2> QED  BY <1>3, <1>4, <1>5, ChainHasLast
<1>10. /\ C \subseteq DOMAIN loops /\ l \in C /\ x \in C
       /\ \A y \in C : /\ LastOf(loops, nl, y) <=> y = x
                       /\ loops[x].distance <= loops[y].distance
                       /\ Linked(loops[y].exit, loops[x].exit)
  BY <1>6, <1>9 DEF ChainLast
<1> HIDE DEF nl, l
<1>11. x = CHOOSE k \in C : IsLast(k, nl)
  BY <1>6, <1>10
<1>12. c = IF loops[x].clusterExit # None THEN loops[x].clusterExit ELSE loops[x].exit
  BY <1>7, <1>11
<1>13. \A y \in C : loops[y].clusterExit # None \/ nl[loops[y].exit] = y <=> y = x
  BY <1>10 DEF LastOf
<1>14. /\ DOMAIN loops' = DOMAIN loops
       /\ \A k \in DOMAIN loops :
            /\ loops'[k].exit = loops[k].exit /\ loops'[k].distance = loops[k].distance
            /\ loops'[k].redirect = loops[k].redirect
            /\ loops'[k].clusterExit = IF k \in C THEN c ELSE loops[k].clusterExit
  <2>1. DOMAIN loops' = DOMAIN loops
    BY <1>2
  <2>2. ASSUME NEW k \in DOMAIN loops
        PROVE  /\ loops'[k].exit = loops[k].exit /\ loops'[k].distance = loops[k].distance
               /\ loops'[k].redirect = loops[k].redirect
               /\ loops'[k].clusterExit = IF k \in C THEN c ELSE loops[k].clusterExit
    <3>1. loops[k] \in LoopObject
      BY <1>3
    <3>2. loops'[k] = IF k \in C THEN [loops[k] EXCEPT !.clusterExit = c] ELSE loops[k]
      BY <1>2
    <3> QED  BY <3>1, <3>2 DEF LoopObject
  <2> QED  BY <2>1, <2>2
<1>15. Clusters(n, l, nl, c, C)
  <2>1. nl = [nodeLoop EXCEPT ![n] = l] /\ l = OuterOf(loops)[nodeLoop[n]]
    BY DEF nl, l
  <2> QED  BY <1>2, <1>4, <1>8, <1>10, <1>12, <1>13, <1>14, <2>1 DEF Clusters
<1> QED  BY <1>15

\* The cluster exit of a processed node.
ExitOfCluster(n, l, nl, c, C) ==
  /\ \A m \in Node : nl[m] = IF m = n THEN l ELSE nodeLoop[m]
  /\ l # 0 /\ loops[l].redirect = 0
  /\ loops[l].distance <= loops[nodeLoop[n]].distance
  /\ loops[l].exit = n <=> nodeLoop[n] = l /\ loops[l].exit = n
  /\ loops[nodeLoop[n]].exit = n => nodeLoop[n] = l
  /\ OwnExit(c) /\ (n = c => nodeLoop[n] = l /\ loops[l].exit = n)
  /\ loops[l].exit = n => c = n
  /\ \A k \in C : /\ dist[c] <= loops[k].distance
                  /\ Linked(loops[k].exit, c)
                  /\ nl[loops[k].exit] = k => c = loops[k].exit
                  /\ loops[k].clusterExit # None => loops[k].clusterExit = c

LEMMA ClusterExitFound ==
  ASSUME SetPathInv, StepsInv, phase = "process", NEW n \in Node,
         NEW l, NEW nl, NEW c, NEW C, Clusters(n, l, nl, c, C)
  PROVE  ExitOfCluster(n, l, nl, c, C)
<1>1. /\ graph \in Topologies /\ dist \in [Node -> Nat] /\ IsLoops(loops) /\ nodeLoop \in [Node -> Nat]
      /\ \A m \in Node : nodeLoop[m] # 0 => nodeLoop[m] \in DOMAIN loops
      /\ \A k \in DOMAIN loops : loops[k] \in LoopObject /\ loops[k].exit \in Node /\ loops[k].distance \in Nat
      /\ 0 \notin DOMAIN loops
  BY LoopNumbers DEF SetPathInv, SearchInv, Types
<1>2. OwnLoops /\ ClustersEnd /\ \E D : SearchDistance(D)
  BY DEF StepsInv
<1>3. PICK D : SearchDistance(D)
  BY <1>2
<1>4. /\ D \in [Node -> Nat]
      /\ \A m \in Node : nodeLoop[m] # 0 /\ loops[nodeLoop[m]].exit # m => loops[nodeLoop[m]].distance < D[m]
      /\ \A k \in DOMAIN loops : D[loops[k].exit] <= loops[k].distance
  BY <1>3 DEF SearchDistance, StepsDecreasing, Decreasing
<1>5. /\ nodeLoop[n] # 0 /\ l = OuterOf(loops)[nodeLoop[n]] /\ l \in DOMAIN loops
      /\ nl = [nodeLoop EXCEPT ![n] = l]
      /\ C \subseteq DOMAIN loops /\ l \in C /\ c \in Node
  BY DEF Clusters
<1>6. PICK x \in C :
        /\ c = IF loops[x].clusterExit # None THEN loops[x].clusterExit ELSE loops[x].exit
        /\ loops[x].clusterExit # None \/ nl[loops[x].exit] = x
        /\ \A y \in C : /\ loops[y].clusterExit # None \/ nl[loops[y].exit] = y => y = x
                        /\ loops[x].distance <= loops[y].distance
                        /\ Linked(loops[y].exit, loops[x].exit)
  BY DEF Clusters
<1>7. \A m \in Node : nl[m] = IF m = n THEN l ELSE nodeLoop[m]
  BY <1>1, <1>5
<1>8. /\ l # 0 /\ loops[l].redirect = 0
      /\ loops[l].distance <= loops[nodeLoop[n]].distance
      /\ nodeLoop[n] \in DOMAIN loops
      /\ loops[nodeLoop[n]].redirect = 0 => nodeLoop[n] = l
  BY <1>1, <1>5, OuterIsLast
<1>9. loops[nodeLoop[n]].exit = n => nodeLoop[n] = l
  BY <1>2, <1>5, <1>8 DEF OwnLoops, OwnExit
<1>10. loops[l].exit = n => nodeLoop[n] = l
  <2> SUFFICES ASSUME loops[l].exit = n, nodeLoop[n] # l PROVE FALSE
    OBVIOUS
  <2>1. loops[nodeLoop[n]].exit # n
    BY <1>9
  <2>2. loops[nodeLoop[n]].distance < D[n] /\ D[n] <= loops[l].distance
    BY <1>4, <1>5, <2>1
  <2>3. loops[nodeLoop[n]].distance \in Nat /\ D[n] \in Nat /\ loops[l].distance \in Nat
    BY <1>1, <1>4, <1>5, <1>8
  <2> QED  BY <1>8, <2>2, <2>3
<1>11. \A m \in Node : nl[m] # 0 /\ loops[nl[m]].exit = m => OwnExit(m) /\ nodeLoop[m] = nl[m]
  BY <1>5, <1>7, <1>10 DEF OwnExit
<1>12. x \in DOMAIN loops /\ loops[x].exit \in Node /\ x # 0
  BY <1>1, <1>5, <1>6
<1>13. nl[loops[x].exit] = x => OwnExit(loops[x].exit) /\ nodeLoop[loops[x].exit] = x
  BY <1>11, <1>12
<1>14. /\ OwnExit(c) /\ dist[c] <= loops[x].distance
       /\ Linked(loops[x].exit, c)
       /\ nl[loops[x].exit] = x => c = loops[x].exit
  <2>1. CASE loops[x].clusterExit # None
    <3>1. c = loops[x].clusterExit
      BY <1>6, <2>1
    <3> QED  BY <1>2, <1>5, <1>12, <1>13, <3>1 DEF ClustersEnd
  <2>2. CASE loops[x].clusterExit = None
    <3>1. c = loops[x].exit /\ nl[c] = x
      BY <1>6, <2>2
    <3>2. OwnExit(c) /\ nodeLoop[c] = x
      BY <1>13, <3>1
    <3>3. dist[c] = loops[x].distance
      BY <1>2, <1>5, <3>2 DEF OwnLoops
    <3> QED  BY <1>1, <1>5, <1>12, <3>1, <3>2, <3>3, LinkedIsEquivalence
  <2> QED  BY <2>1, <2>2
<1>15. ASSUME NEW k \in C
       PROVE  /\ dist[c] <= loops[k].distance
              /\ Linked(loops[k].exit, c)
              /\ nl[loops[k].exit] = k => c = loops[k].exit
              /\ loops[k].clusterExit # None => loops[k].clusterExit = c
  <2>1. k \in DOMAIN loops /\ loops[k].exit \in Node
    BY <1>1, <1>5
  <2>2. dist[c] <= loops[k].distance
    <3>1. loops[x].distance <= loops[k].distance
      BY <1>6
    <3>2. dist[c] \in Nat /\ loops[x].distance \in Nat /\ loops[k].distance \in Nat
      BY <1>1, <1>5, <1>12, <2>1
    <3> QED  BY <1>14, <3>1, <3>2
  <2>3. Linked(loops[k].exit, c)
    <3>1. Linked(loops[k].exit, loops[x].exit)
      BY <1>6
    <3> QED  BY <1>1, <1>5, <1>12, <1>14, <2>1, <3>1, LinkedIsEquivalence
  <2>4. nl[loops[k].exit] = k => c = loops[k].exit
    BY <1>6, <1>14
  <2>5. loops[k].clusterExit # None => loops[k].clusterExit = c
    BY <1>6
  <2> QED  BY <2>2, <2>3, <2>4, <2>5
<1>16. loops[l].exit = n => c = n
  BY <1>5, <1>7, <1>15
<1>17. n = c => nodeLoop[n] = l /\ loops[l].exit = n
  BY <1>9, <1>14 DEF OwnExit
<1> QED  BY <1>7, <1>8, <1>9, <1>10, <1>14, <1>15, <1>16, <1>17 DEF ExitOfCluster

LEMMA ProcessObjSteps ==
  ASSUME SetPathInv, StepsInv, NEW n \in Node, ProcessObj(n)
  PROVE  StepsInv'
<1>1. /\ phase = "process" /\ stack = << >> /\ pending' = pending \ {n}
      /\ UNCHANGED <<graph, phase, stack, startDistance, partitions, nodeToZone1, intfToZone1>>
  BY ProcessObjMakes
<1>2. /\ graph \in Topologies /\ dist \in [Node -> Nat] /\ IsLoops(loops) /\ nodeLoop \in [Node -> Nat]
      /\ \A m \in Node : nodeLoop[m] # 0 => nodeLoop[m] \in DOMAIN loops
      /\ \A k \in DOMAIN loops : loops[k].exit \in Node /\ loops[k].distance \in Nat
      /\ 0 \notin DOMAIN loops
      /\ StepsKnown /\ OwnLoops /\ LoopsLinked /\ Partitioned
      /\ ClustersEnd /\ ClustersFound /\ \E D : SearchDistance(D)
      /\ \A m \in Node : IntfList(m) # {} => Reached(m)
  BY <1>1, LoopNumbers DEF SetPathInv, SearchInv, Types, StepsInv
<1>3. /\ \A m, k : Linked(m, k)' <=> Linked(m, k)
      /\ \A i, m, k : Joins(i, m, k)' <=> Joins(i, m, k)
      /\ \A m : IntfList(m)' = IntfList(m)
      /\ \A m : Active(m)' <=> Active(m)
  BY <1>1, LinkedKept, GraphKept DEF Active
<1>4. CASE nodeLoop[n] = 0
  <2>1. UNCHANGED <<nodeLoop, loops, dist>>
    BY <1>4 DEF ProcessObj
  <2>2. /\ \A m : (Inside(m)' <=> Inside(m)) /\ (OwnExit(m)' <=> OwnExit(m))
        /\ \A m : (Reached(m)' <=> Reached(m)) /\ (Left(m)' <=> Left(m))
    BY <1>1, <1>3, <2>1 DEF Inside, OwnExit, Reached, Left
  <2>3. StepsKnown'
    BY <1>1, <1>2, <1>3, <2>2 DEF StepsKnown
  <2>4. OwnLoops' /\ LoopsLinked' /\ Partitioned'
    <3>1. OwnLoops'
      BY <1>2, <2>1, <2>2 DEF OwnLoops
    <3>2. LoopsLinked'
      BY <1>2, <1>3, <2>1, <2>2 DEF LoopsLinked
    <3>3. Partitioned'
      BY <1>1, <1>2, <1>3, <2>1, <2>2 DEF Partitioned
    <3> QED  BY <3>1, <3>2, <3>3
  <2>5. ClustersEnd' /\ ClustersFound'
    <3>1. ClustersEnd'
      BY <1>2, <1>3, <2>1, <2>2 DEF ClustersEnd
    <3>2. ASSUME NEW m \in Node \ pending', nodeLoop[m] # 0
          PROVE  \E c \in Node : c = loops[nodeLoop[m]].clusterExit /\ dist[m] = dist[c]
      BY <1>1, <1>2, <1>4, <3>2 DEF ClustersFound
    <3> QED  BY <2>1, <3>1, <3>2 DEF ClustersFound
  <2>6. \E D : SearchDistance(D)'
    <3>1. PICK D : SearchDistance(D)
      BY <1>2
    <3>2. StepsDecreasing(D)'
      BY <1>1, <2>1, <3>1 DEF SearchDistance, StepsDecreasing
    <3>3. ASSUME NEW m \in Node PROVE dist[m] <= D[m] /\ (m \in pending' \/ nodeLoop[m] = 0 => dist[m] = D[m])
      BY <1>1, <1>4, <3>1 DEF SearchDistance
    <3>4. SearchDistance(D)'
      BY <2>1, <3>1, <3>2, <3>3 DEF SearchDistance
    <3> QED  BY <3>4
  <2> QED  BY <1>1, <1>2, <1>3, <2>2, <2>3, <2>4, <2>5, <2>6 DEF StepsInv
<1>5. CASE nodeLoop[n] # 0
  <2>1. PICK l, nl, c, C : Clusters(n, l, nl, c, C)
    BY <1>2, <1>5, ProcessObjClusters
  <2>2. ExitOfCluster(n, l, nl, c, C)
    BY <1>1, <2>1, ClusterExitFound
  <2>3. /\ l \in DOMAIN loops /\ nodeLoop' = nl /\ dist' = [dist EXCEPT ![n] = dist[c]]
        /\ C \subseteq DOMAIN loops /\ l \in C /\ c \in Node
        /\ DOMAIN loops' = DOMAIN loops
        /\ \A k \in DOMAIN loops :
             /\ loops'[k].exit = loops[k].exit /\ loops'[k].distance = loops[k].distance
             /\ loops'[k].redirect = loops[k].redirect
             /\ loops'[k].clusterExit = IF k \in C THEN c ELSE loops[k].clusterExit
        /\ Linked(n, loops[l].exit)
    BY <2>1 DEF Clusters
  <2>4. /\ \A m \in Node : nodeLoop'[m] = IF m = n THEN l ELSE nodeLoop[m]
        /\ l # 0 /\ loops[l].redirect = 0
        /\ loops[l].distance <= loops[nodeLoop[n]].distance
        /\ loops[l].exit = n => nodeLoop[n] = l
        /\ loops[nodeLoop[n]].exit = n => nodeLoop[n] = l
        /\ OwnExit(c) /\ (n = c => nodeLoop[n] = l /\ loops[l].exit = n)
        /\ loops[l].exit = n => c = n
        /\ \A k \in C : /\ dist[c] <= loops[k].distance
                        /\ Linked(loops[k].exit, c)
                        /\ nodeLoop'[loops[k].exit] = k => c = loops[k].exit
                        /\ loops[k].clusterExit # None => loops[k].clusterExit = c
    BY <2>2, <2>3 DEF ExitOfCluster
  <2>5. \A m \in Node : dist'[m] = IF m = n THEN dist[c] ELSE dist[m]
    BY <1>2, <2>3
  <2>6. \A m \in Node : nodeLoop'[m] # 0 <=> nodeLoop[m] # 0
    BY <1>5, <2>4
  <2>7. \A m \in Node : (Inside(m)' <=> Inside(m)) /\ (OwnExit(m)' <=> OwnExit(m))
    <3> TAKE m \in Node
    <3>1. nodeLoop'[m] # 0 => loops'[nodeLoop'[m]].exit = loops[nodeLoop'[m]].exit
      BY <1>2, <2>3, <2>4
    <3>2. nodeLoop[m] # 0 => (loops[nodeLoop'[m]].exit = m <=> loops[nodeLoop[m]].exit = m)
      BY <2>4
    <3> QED  BY <2>6, <3>1, <3>2 DEF Inside, OwnExit
  <2>8. /\ \A m \in Node : Reached(m)' <=> Reached(m)
        /\ \A m \in Node : Left(m)' <=> Left(m)
        /\ Reached(n) /\ Reached(c)
    <3>1. \A m \in Node : Reached(m)' <=> Reached(m)
      BY <1>1, <1>3, <2>6 DEF Reached
    <3>2. \A m \in Node : Left(m)' <=> Left(m)
      BY <1>3, <3>1 DEF Left
    <3>3. Reached(n) /\ Reached(c)
      BY <1>5, <2>4 DEF Reached, OwnExit
    <3> QED  BY <3>1, <3>2, <3>3
  <2>9. Linked(n, c)
    <3>1. Linked(loops[l].exit, c) /\ loops[l].exit \in Node
      BY <1>2, <2>3, <2>4
    <3> QED  BY <1>2, <2>3, <3>1, LinkedIsEquivalence
  <2>10. StepsKnown'
    BY <1>1, <1>2, <1>3, <2>7, <2>8 DEF StepsKnown
  <2>11. \A m \in Node : OwnExit(m) => dist'[m] = dist[m]
    <3>1. OwnExit(n) => c = n
      BY <2>4 DEF OwnExit
    <3> QED  BY <2>5, <3>1
  <2>12. OwnLoops'
    <3>1. ASSUME NEW m \in Node, OwnExit(m) 
          PROVE  loops'[nodeLoop'[m]].redirect = 0 /\ loops'[nodeLoop'[m]].distance = dist'[m]
      <4>1. nodeLoop'[m] = nodeLoop[m] /\ nodeLoop[m] \in DOMAIN loops
        BY <1>2, <2>4, <3>1 DEF OwnExit
      <4>2. loops[nodeLoop[m]].redirect = 0 /\ loops[nodeLoop[m]].distance = dist[m]
        BY <1>2, <3>1 DEF OwnLoops
      <4> QED  BY <2>3, <2>11, <3>1, <4>1, <4>2
    <3> QED  BY <2>7, <3>1 DEF OwnLoops
  <2>13. LoopsLinked'
    <3>1. ASSUME NEW m \in Node, NEW k \in Node, nodeLoop'[m] # 0, k = loops'[nodeLoop'[m]].exit PROVE Linked(m, k)
      <4>1. CASE m = n
        BY <2>3, <2>4, <3>1, <4>1
      <4>2. CASE m # n
        <5>1. nodeLoop[m] # 0 /\ k = loops[nodeLoop[m]].exit
          BY <1>2, <2>3, <2>4, <3>1, <4>2
        <5> QED  BY <1>2, <5>1 DEF LoopsLinked
      <4> QED  BY <4>1, <4>2
    <3>2. ASSUME NEW j \in DOMAIN loops, NEW m \in Node, NEW k \in Node, m = loops'[j].exit
          PROVE  /\ Reached(m)
                 /\ loops'[j].redirect # 0 /\ k = loops'[loops'[j].redirect].exit => Linked(m, k)
      <4>1. m = loops[j].exit /\ loops'[j].redirect = loops[j].redirect
        BY <2>3, <3>2
      <4>2. loops[j].redirect # 0 => loops'[loops[j].redirect].exit = loops[loops[j].redirect].exit
        BY <1>2, <2>3 DEF IsLoops, Redirects
      <4> QED  BY <1>2, <4>1, <4>2 DEF LoopsLinked
    <3> QED  BY <1>3, <2>3, <2>8, <3>1, <3>2 DEF LoopsLinked
  <2>14. Partitioned'
    <3>1. ASSUME NEW m \in Node, Reached(m), dist[c] = dist'[m] PROVE Linked(n, m)
      <4>1. CASE m = n
        BY <1>2, <4>1, LinkedIsEquivalence
      <4>2. CASE m # n
        <5>1. Linked(c, m)
          BY <1>2, <2>3, <2>5, <2>8, <3>1, <4>2 DEF Partitioned
        <5> QED  BY <1>2, <2>3, <2>9, <5>1, LinkedIsEquivalence
      <4> QED  BY <4>1, <4>2
    <3>2. ASSUME NEW m \in Node, NEW k \in Node, Reached(m), Reached(k), dist'[m] = dist'[k] PROVE Linked(m, k)
      <4>1. CASE m = n
        BY <2>5, <3>1, <3>2, <4>1
      <4>2. CASE k = n
        <5>1. Linked(k, m)
          BY <2>5, <3>1, <3>2, <4>2
        <5> QED  BY <1>2, <5>1, LinkedIsEquivalence
      <4>3. CASE m # n /\ k # n
        BY <1>2, <2>5, <3>2, <4>3 DEF Partitioned
      <4> QED  BY <4>1, <4>2, <4>3
    <3> QED  BY <1>1, <1>2, <1>3, <2>8, <3>2 DEF Partitioned
  <2>15. ClustersEnd'
    <3>1. ASSUME NEW k \in DOMAIN loops, NEW e \in Node, e = loops'[k].clusterExit
          PROVE  /\ OwnExit(e)
                 /\ dist'[e] <= loops'[k].distance
                 /\ Linked(loops'[k].exit, e)
                 /\ nodeLoop'[loops'[k].exit] = k => e = loops'[k].exit
      <4>0. /\ loops'[k].exit = loops[k].exit /\ loops'[k].distance = loops[k].distance
            /\ loops'[k].clusterExit = IF k \in C THEN c ELSE loops[k].clusterExit
            /\ loops[k].exit \in Node /\ k # 0
        BY <1>2, <2>3
      <4>1. CASE k \in C
        <5>1. e = c /\ dist'[e] = dist[c]
          BY <2>4, <2>11, <3>1, <4>0, <4>1
        <5> QED  BY <2>4, <4>0, <4>1, <5>1
      <4>2. CASE k \notin C
        <5>1. e = loops[k].clusterExit
          BY <3>1, <4>0, <4>2
        <5>2. /\ OwnExit(e)
              /\ dist[e] <= loops[k].distance
              /\ Linked(loops[k].exit, e)
              /\ nodeLoop[loops[k].exit] = k => e = loops[k].exit
          BY <1>2, <5>1 DEF ClustersEnd
        <5>3. nodeLoop'[loops[k].exit] = k => nodeLoop[loops[k].exit] = k
          BY <2>3, <2>4, <4>0, <4>2
        <5> QED  BY <2>11, <4>0, <5>2, <5>3
      <4> QED  BY <4>1, <4>2
    <3> QED  BY <1>3, <2>3, <2>7, <3>1 DEF ClustersEnd
  <2>16. ClustersFound'
    <3>1. ASSUME NEW m \in Node \ pending', nodeLoop'[m] # 0
          PROVE  \E e \in Node : e = loops'[nodeLoop'[m]].clusterExit /\ dist'[m] = dist'[e]
      <4>1. CASE m = n
        <5>1. loops'[nodeLoop'[m]].clusterExit = c
          BY <2>3, <2>4, <4>1
        <5> QED  BY <2>3, <2>4, <2>5, <2>11, <4>1, <5>1
      <4>2. CASE m # n
        <5>1. m \in Node \ pending /\ nodeLoop'[m] = nodeLoop[m] /\ dist'[m] = dist[m] /\ nodeLoop[m] \in DOMAIN loops
          BY <1>1, <1>2, <2>4, <2>5, <3>1, <4>2
        <5>2. PICK e \in Node : e = loops[nodeLoop[m]].clusterExit /\ dist[m] = dist[e]
          BY <1>2, <3>1, <5>1 DEF ClustersFound
        <5>3. OwnExit(e) /\ e # None
          BY <1>2, <5>1, <5>2, TopologyAssumption DEF ClustersEnd, Node
        <5>4. loops'[nodeLoop[m]].clusterExit = e
          BY <2>3, <2>4, <5>1, <5>2, <5>3
        <5> QED  BY <2>11, <5>1, <5>2, <5>3, <5>4
      <4> QED  BY <4>1, <4>2
    <3> QED  BY <3>1 DEF ClustersFound
  <2>17. \E D : SearchDistance(D)'
    <3>1. PICK D : SearchDistance(D)
      BY <1>2
    <3>2. /\ D \in [Node -> Nat]
          /\ \A m \in Node : nodeToZone1[m] # None => D[intfToZone1[nodeToZone1[m]]] < D[m]
          /\ \A m \in Node : nodeLoop[m] # 0 /\ loops[nodeLoop[m]].exit # m => loops[nodeLoop[m]].distance < D[m]
          /\ \A k \in DOMAIN loops : D[loops[k].exit] <= loops[k].distance
          /\ \A m \in Node : /\ dist[m] <= D[m]
                             /\ m \in pending \/ nodeLoop[m] = 0 => dist[m] = D[m]
      BY <3>1 DEF SearchDistance, StepsDecreasing, Decreasing
    <3>3. loops[l].exit # n => loops[l].distance < D[n]
      <4> SUFFICES ASSUME loops[l].exit # n PROVE loops[l].distance < D[n]
        OBVIOUS
      <4>1. loops[nodeLoop[n]].exit # n
        BY <2>4
      <4>2. loops[nodeLoop[n]].distance < D[n]
        BY <1>5, <3>2, <4>1
      <4>3. loops[nodeLoop[n]].distance \in Nat /\ D[n] \in Nat /\ loops[l].distance \in Nat
        BY <1>2, <1>5, <2>3, <3>2
      <4> QED  BY <2>4, <4>2, <4>3
    <3>4. dist[c] <= D[n]
      <4>1. CASE c = n
        BY <3>2, <4>1
      <4>2. CASE c # n
        <5>1. dist[c] <= loops[l].distance /\ loops[l].distance < D[n]
          BY <2>3, <2>4, <3>3, <4>2
        <5>2. dist[c] \in Nat /\ loops[l].distance \in Nat /\ D[n] \in Nat
          BY <1>2, <2>3, <3>2
        <5> QED  BY <5>1, <5>2
      <4> QED  BY <4>1, <4>2
    <3>5. Decreasing(D, nodeToZone1', intfToZone1', nodeLoop', loops')
      <4>1. ASSUME NEW m \in Node, nodeLoop'[m] # 0, loops'[nodeLoop'[m]].exit # m
            PROVE  loops'[nodeLoop'[m]].distance < D[m]
        <5>1. CASE m = n
          BY <2>3, <2>4, <3>3, <4>1, <5>1
        <5>2. CASE m # n
          BY <1>2, <2>3, <2>4, <3>2, <4>1, <5>2
        <5> QED  BY <5>1, <5>2
      <4>2. \A k \in DOMAIN loops' : D[loops'[k].exit] <= loops'[k].distance
        BY <2>3, <3>2
      <4> QED  BY <1>1, <3>2, <4>1, <4>2 DEF Decreasing
    <3>6. StepsDecreasing(D)'
      BY <3>5 DEF StepsDecreasing
    <3>7. ASSUME NEW m \in Node
          PROVE  dist'[m] <= D[m] /\ (m \in pending' \/ nodeLoop'[m] = 0 => dist'[m] = D[m])
      BY <1>1, <2>4, <2>5, <3>2, <3>4
    <3>8. SearchDistance(D)'
      BY <3>2, <3>6, <3>7 DEF SearchDistance
    <3> QED  BY <3>8
  <2> QED  BY <1>1, <1>2, <1>3, <2>8, <2>10, <2>12, <2>13, <2>14, <2>15, <2>16, <2>17 DEF StepsInv
<1> QED  BY <1>4, <1>5

\* Steps that change at most the phase.
LEMMA IdleSteps ==
  ASSUME SetPathInv, StepsInv,
         \/ phase' = "done" /\ phase = "process"
         \/ phase' = phase,
         UNCHANGED <<graph, stack, startDistance, partitions, pending, nodeVars, intfVars, loops>>
  PROVE  StepsInv'
<1>1. /\ UNCHANGED <<graph, stack, startDistance, partitions, pending, dist, nodeLoop, nodeToZone1,
                     intfLoop, intfToZone1, loops>>
      /\ phase' = "search" <=> phase = "search"
  BY DEF nodeVars, intfVars
<1>2. /\ \A n, m : Linked(n, m)' <=> Linked(n, m)
      /\ \A i, n, m : Joins(i, n, m)' <=> Joins(i, n, m)
      /\ \A n : IntfList(n)' = IntfList(n)
      /\ \A n : (Inside(n)' <=> Inside(n)) /\ (OwnExit(n)' <=> OwnExit(n))
      /\ \A n : (Reached(n)' <=> Reached(n)) /\ (Left(n)' <=> Left(n))
  BY <1>1, LinkedKept, GraphKept DEF Inside, OwnExit, Reached, Left, Active
<1>3. StepsKnown' /\ OwnLoops'
  <2>1. StepsKnown'
    BY <1>1, <1>2 DEF StepsInv, StepsKnown
  <2>2. OwnLoops'
    BY <1>1, <1>2 DEF StepsInv, OwnLoops
  <2> QED  BY <2>1, <2>2
<1>4. LoopsLinked' /\ Partitioned'
  <2>1. LoopsLinked'
    BY <1>1, <1>2 DEF StepsInv, LoopsLinked
  <2>2. Partitioned'
    BY <1>1, <1>2 DEF StepsInv, Partitioned
  <2> QED  BY <2>1, <2>2
<1>5. phase' = "search" => StepsDecreasing(dist)' /\ Located'
  <2> SUFFICES ASSUME phase = "search" PROVE StepsDecreasing(dist)' /\ Located'
    BY <1>1
  <2>1. StepsDecreasing(dist)'
    BY <1>1 DEF StepsInv, StepsDecreasing
  <2>2. Located'
    BY <1>1, <1>2 DEF StepsInv, Located
  <2> QED  BY <2>1, <2>2
<1>6. phase' # "search" => /\ (\E D : SearchDistance(D))'
                           /\ ClustersEnd' /\ ClustersFound'
                           /\ \A n \in Node : IntfList(n)' # {} => Reached(n)'
  <2> SUFFICES ASSUME phase # "search"
               PROVE  /\ (\E D : SearchDistance(D))'
                      /\ ClustersEnd' /\ ClustersFound'
                      /\ \A n \in Node : IntfList(n)' # {} => Reached(n)'
    BY <1>1
  <2>1. PICK D : SearchDistance(D)
    BY DEF StepsInv
  <2>2. SearchDistance(D)'
    BY <1>1, <2>1 DEF SearchDistance, StepsDecreasing
  <2>3. ClustersEnd'
    BY <1>1, <1>2 DEF StepsInv, ClustersEnd
  <2>4. ClustersFound'
    BY <1>1 DEF StepsInv, ClustersFound
  <2>5. \A n \in Node : IntfList(n)' # {} => Reached(n)'
    BY <1>2 DEF StepsInv
  <2> QED  BY <2>2, <2>3, <2>4, <2>5
<1> QED  BY <1>3, <1>4, <1>5, <1>6 DEF StepsInv

LEMMA StepsInductive ==
  SetPathInv /\ StepsInv /\ [Next]_vars => StepsInv'
<1> SUFFICES ASSUME SetPathInv, StepsInv, [Next]_vars PROVE StepsInv'
  OBVIOUS
<1>1. /\ SearchInv /\ SetPathInv' /\ SearchInv'
      /\ stack # << >> => phase = "search"
  <2>1. SetPathInv'
    BY SetPathInductive
  <2> QED  BY <2>1 DEF SetPathInv, SearchInv, CallsJoined
<1>2. ASSUME NEW z \in Zones, NewPartition(z) PROVE StepsInv'
  <2>1. phase = "search"
    BY <1>2 DEF NewPartition
  <2>2. Called(z, startDistance)
    BY <1>1, <1>2, NewPartitionCalls
  <2> QED  BY <1>1, <2>1, <2>2, CalledSteps
<1>3. ASSUME NEW i \in Intfs, CloseLoop(i) PROVE StepsInv'
  BY <1>1, <1>3, CloseLoopSteps
<1>4. ASSUME NEW i \in Intfs, Descend(i) PROVE StepsInv'
  <2>1. PICK x, d : phase = "search" /\ Called(x, d)
    BY <1>1, <1>4, DescendCalls
  <2> QED  BY <1>1, <2>1, CalledSteps
<1>5. CASE Return
  BY <1>1, <1>5, ReturnSteps
<1>6. CASE EndOfSearch
  BY <1>1, <1>6, EndOfSearchSteps
<1>7. ASSUME NEW n \in Node, ProcessObj(n) PROVE StepsInv'
  BY <1>7, ProcessObjSteps
<1>8. CASE EndOfProcess
  BY <1>8, IdleSteps DEF EndOfProcess
<1>9. CASE UNCHANGED vars
  BY <1>9, IdleSteps DEF vars, nodeVars, intfVars
<1> QED  BY <1>2, <1>3, <1>4, <1>5, <1>6, <1>7, <1>8, <1>9 DEF Next, Done

LEMMA StepsInit == Init => StepsInv
<1> SUFFICES ASSUME Init PROVE StepsInv
  OBVIOUS
<1>1. /\ loops = << >> /\ DOMAIN loops = {} /\ stack = << >> /\ DOMAIN stack = {} /\ phase = "search"
      /\ partitions = {}
      /\ \A n \in Node : nodeLoop[n] = 0 /\ nodeToZone1[n] = None
  BY DEF Init
<1>2. \A n \in Node : ~Reached(n) /\ ~OwnExit(n) /\ ~Inside(n)
  BY <1>1 DEF Reached, Active, OwnExit, Inside
<1>3. None \notin Intfs
  BY TopologyAssumption
<1>4. StepsKnown /\ OwnLoops /\ LoopsLinked /\ Partitioned
  BY <1>1, <1>2, <1>3 DEF StepsKnown, OwnLoops, LoopsLinked, Partitioned, Left
<1>5. StepsDecreasing(dist) /\ Located
  BY <1>1, <1>2 DEF StepsDecreasing, Decreasing, Located
<1> QED  BY <1>1, <1>4, <1>5 DEF StepsInv

\* The steps towards zone1 and the distances of nodes fit together at any time of the search
\* and while loops are united, for each topology and each order of the search.
THEOREM StepsInvariance == Spec => [](SetPathInv /\ StepsInv)
<1>1. Init => SetPathInv /\ StepsInv
  BY SetPathInit, StepsInit
<1>2. SetPathInv /\ StepsInv /\ [Next]_vars => (SetPathInv /\ StepsInv)'
  BY SetPathInductive, StepsInductive
<1> QED  BY <1>1, <1>2, PTL DEF Spec

\* Each step that pathMark takes towards zone1 decreases the distance, which processObj
\* has changed for each node of a loop, and equal distances mean the same partition.
THEOREM DistancesDecrease == Spec => []StepsDecrease
<1>1. SetPathInv /\ StepsInv => StepsDecrease
  <2> SUFFICES ASSUME SetPathInv, StepsInv, phase = "done", NEW n \in Node
               PROVE  LET out == nodeToZone1[IF nodeLoop[n] = 0 THEN n ELSE loops[nodeLoop[n]].clusterExit] IN
                      /\ out # None => dist[intfToZone1[out]] < dist[n]
                      /\ \A m \in Node :
                           IntfList(n) # {} /\ IntfList(m) # {} /\ dist[n] = dist[m] => Connected(n, m, Intfs)
    BY DEF StepsDecrease
  <2>1. /\ pending = {} /\ dist \in [Node -> Nat] /\ nodeToZone1 \in [Node -> Intfs \cup {None}]
        /\ nodeLoop[n] # 0 => nodeLoop[n] \in DOMAIN loops
    BY DEF SetPathInv, SearchInv, Types
  <2>2. PICK D : SearchDistance(D)
    BY DEF StepsInv
  <2>3. /\ D \in [Node -> Nat]
        /\ \A m \in Node : nodeToZone1[m] # None => D[intfToZone1[nodeToZone1[m]]] < D[m]
        /\ \A l \in DOMAIN loops : D[loops[l].exit] <= loops[l].distance
        /\ \A m \in Node : dist[m] <= D[m] /\ (nodeLoop[m] = 0 => dist[m] = D[m])
    BY <2>2 DEF SearchDistance, StepsDecreasing, Decreasing
  <2>4. ASSUME NEW c \in Node, D[c] <= dist[n], nodeToZone1[c] # None
        PROVE  dist[intfToZone1[nodeToZone1[c]]] < dist[n]
    <3>1. nodeToZone1[c] \in Intfs
      BY <2>1, <2>4
    <3>2. PICK m \in Node : m = intfToZone1[nodeToZone1[c]]
      BY <3>1 DEF StepsInv, StepsKnown
    <3>3. dist[m] <= D[m] /\ D[m] < D[c]
      BY <2>3, <2>4, <3>2
    <3>4. dist[m] \in Nat /\ D[m] \in Nat /\ D[c] \in Nat /\ dist[n] \in Nat
      BY <2>1, <2>3
    <3> QED  BY <2>4, <3>2, <3>3, <3>4
  <2>5. PICK c \in Node : /\ c = IF nodeLoop[n] = 0 THEN n ELSE loops[nodeLoop[n]].clusterExit
                          /\ D[c] <= dist[n]
    <3>1. CASE nodeLoop[n] = 0
      BY <2>1, <2>3, <3>1
    <3>2. CASE nodeLoop[n] # 0
      <4>1. PICK c \in Node : c = loops[nodeLoop[n]].clusterExit /\ dist[n] = dist[c]
        BY <2>1, <3>2 DEF StepsInv, ClustersFound
      <4>2. OwnExit(c)
        BY <2>1, <3>2, <4>1 DEF StepsInv, ClustersEnd
      <4>3. nodeLoop[c] \in DOMAIN loops /\ loops[nodeLoop[c]].exit = c
        BY <4>2 DEF OwnExit, SetPathInv, SearchInv, Types
      <4>4. loops[nodeLoop[c]].distance = dist[c]
        BY <4>2 DEF StepsInv, OwnLoops
      <4>5. D[c] <= dist[c]
        BY <2>3, <4>3, <4>4
      <4> QED  BY <3>2, <4>1, <4>5
    <3> QED  BY <3>1, <3>2
  <2>6. \A m \in Node : IntfList(n) # {} /\ IntfList(m) # {} /\ dist[n] = dist[m] => Connected(n, m, Intfs)
    BY DEF StepsInv, Partitioned, Linked
  <2> QED  BY <2>4, <2>5, <2>6
<1> QED  BY <1>1, StepsInvariance, PTL

-----------------------------------------------------------------------------
(***************************************************************************)
(* findZone1.                                                              *)
(***************************************************************************)
\* A step of findZone1 from a node that has been left.
StepDone(D, m, t) ==
  /\ t \in Node /\ Reached(t) /\ Linked(m, t)
  /\ \/ D[t] < D[m]
     \/ t = m /\ m \in partitions

LEMMA TowardsStep ==
  ASSUME SetPathInv, StepsInv, stack = << >>, NEW D, D \in [Node -> Nat], StepsDecreasing(D),
         NEW m \in Node, Reached(m)
  PROVE  StepDone(D, m, TowardsZone1(m))
<1>1. /\ graph \in Topologies /\ nodeToZone1 \in [Node -> Intfs \cup {None}]
      /\ \A l \in DOMAIN loops : loops[l].exit \in Node /\ loops[l].distance \in Nat
      /\ nodeLoop[m] # 0 => nodeLoop[m] \in DOMAIN loops
      /\ StepsKnown /\ LoopsLinked /\ Partitioned
  BY LoopNumbers DEF SetPathInv, SearchInv, Types, StepsInv
<1>2. /\ nodeToZone1[m] # None => D[intfToZone1[nodeToZone1[m]]] < D[m]
      /\ nodeLoop[m] # 0 /\ loops[nodeLoop[m]].exit # m => loops[nodeLoop[m]].distance < D[m]
      /\ \A l \in DOMAIN loops : D[loops[l].exit] <= loops[l].distance
  BY DEF StepsDecreasing, Decreasing
<1>3. CASE Inside(m)
  <2>1. nodeLoop[m] \in DOMAIN loops /\ TowardsZone1(m) = loops[nodeLoop[m]].exit
    BY <1>1, <1>3 DEF Inside, TowardsZone1
  <2> DEFINE x == loops[nodeLoop[m]].exit
  <2>2. x \in Node /\ Reached(x) /\ Linked(m, x)
    BY <1>1, <1>3, <2>1 DEF LoopsLinked, Inside
  <2>3. D[x] <= loops[nodeLoop[m]].distance /\ loops[nodeLoop[m]].distance < D[m]
    BY <1>2, <1>3, <2>1 DEF Inside
  <2>4. D[x] < D[m]
    <3>1. D[x] \in Nat /\ D[m] \in Nat /\ loops[nodeLoop[m]].distance \in Nat
      BY <1>1, <2>1, <2>2
    <3> QED  BY <2>3, <3>1
  <2> QED  BY <2>1, <2>2, <2>4 DEF StepDone
<1>4. CASE ~Inside(m) /\ nodeToZone1[m] # None
  <2>1. nodeToZone1[m] \in Intfs /\ TowardsZone1(m) = intfToZone1[nodeToZone1[m]]
    BY <1>1, <1>4 DEF Inside, TowardsZone1
  <2>2. PICK x \in Node : x = intfToZone1[nodeToZone1[m]] /\ Joins(nodeToZone1[m], m, x) /\ Reached(x)
    BY <1>1, <2>1 DEF StepsKnown
  <2>3. Linked(m, x)
    BY <1>1, <2>2, LinkedIsEquivalence
  <2> QED  BY <1>2, <1>4, <2>1, <2>2, <2>3 DEF StepDone
<1>5. CASE ~Inside(m) /\ nodeToZone1[m] = None
  <2>1. TowardsZone1(m) = m
    BY <1>5 DEF Inside, TowardsZone1
  <2>2. Left(m)
    BY DEF Left, Active
  <2>3. m \in partitions
    BY <1>1, <1>5, <2>2 DEF StepsKnown
  <2> QED  BY <1>1, <2>1, <2>3, LinkedIsEquivalence DEF StepDone
<1> QED  BY <1>3, <1>4, <1>5

\* Walk w takes N steps of findZone1 from node n.
Walks(n, N, w) == w = [k \in 0 .. N |-> IF k = 0 THEN n ELSE TowardsZone1(w[k - 1])]

LEMMA WalkExists ==
  ASSUME NEW n, NEW N \in Nat, NEW W, n \in W, \A m \in W : TowardsZone1(m) \in W
  PROVE  \E w : Walks(n, N, w)
<1> DEFINE next == [p \in Nat \X W |-> TowardsZone1(p[2])]
<1>1. next \in [Nat \X W -> W]
  OBVIOUS
<1>2. \A k \in Nat : \A m \in W : next[<<k, m>>] = TowardsZone1(m)
  OBVIOUS
<1> HIDE DEF next
<1>3. PICK f : Solves(f, W, n, next)
  BY <1>1, RecursiveFunction
<1>4. /\ f \in [Nat -> W]
      /\ \A k \in Nat : f[k] = IF k = 0 THEN n ELSE next[<<k, f[k - 1]>>]
  BY <1>3 DEF Solves
<1> DEFINE w == [k \in 0 .. N |-> f[k]]
<1>5. ASSUME NEW k \in 0 .. N PROVE w[k] = IF k = 0 THEN n ELSE TowardsZone1(w[k - 1])
  <2>1. CASE k = 0
    BY <1>4, <2>1
  <2>2. CASE k # 0
    <3>1. k \in Nat /\ k - 1 \in Nat /\ k - 1 \in 0 .. N
      BY <2>2
    <3>2. f[k - 1] \in W /\ f[k] = next[<<k, f[k - 1]>>]
      BY <1>4, <2>2, <3>1
    <3>3. w[k] = f[k] /\ w[k - 1] = f[k - 1]
      BY <3>1
    <3> HIDE DEF w
    <3> QED  BY <1>2, <2>2, <3>1, <3>2, <3>3
  <2> QED  BY <2>1, <2>2
<1>6. Walks(n, N, w)
  BY <1>5 DEF Walks
<1> QED  BY <1>6

\* A walk ends after as many steps as there are nodes, since distances decrease.
WalkAt(n, D, w, k) ==
  /\ w[k] \in Node /\ Reached(w[k]) /\ Linked(n, w[k])
  /\ \/ w[k] \in partitions /\ TowardsZone1(w[k]) = w[k]
     \/ \E S \in SUBSET Node : /\ IsFiniteSet(S) /\ Cardinality(S) = k
                               /\ \A y \in S : D[w[k]] < D[y]

LEMMA WalkEnds ==
  ASSUME SetPathInv, StepsInv, stack = << >>, NEW D, D \in [Node -> Nat], StepsDecreasing(D),
         NEW n \in Node, Reached(n), NEW w, Walks(n, Cardinality(Node), w)
  PROVE  w[Cardinality(Node)] \in partitions /\ Linked(n, w[Cardinality(Node)])
<1> DEFINE N == Cardinality(Node)
           Bad == {k \in 0 .. N : ~WalkAt(n, D, w, k)}
<1>1. IsFiniteSet(Node) /\ N \in Nat
  BY FiniteAssumption, FS_CardinalityType DEF Node
<1>2. /\ graph \in Topologies
      /\ w[0] = n /\ \A k \in 1 .. N : w[k] = TowardsZone1(w[k - 1])
  BY <1>1 DEF Walks, SetPathInv, SearchInv, Types
<1>3. Bad = {}
  <2> SUFFICES ASSUME Bad # {} PROVE FALSE
    OBVIOUS
  <2>1. PICK k \in Bad : \A j \in Bad : k <= j
    <3>1. Bad \in SUBSET Nat
      BY <1>1
    <3> HIDE DEF Bad
    <3> QED  BY <3>1, LeastNumber
  <2>2. CASE k = 0
    <3>1. {} \in SUBSET Node /\ IsFiniteSet({}) /\ Cardinality({}) = 0
      BY FS_EmptySet
    <3>2. WalkAt(n, D, w, 0)
      BY <1>2, <3>1, LinkedIsEquivalence DEF WalkAt
    <3> QED  BY <2>1, <2>2, <3>2
  <2>3. CASE k # 0
    <3> DEFINE m == w[k - 1]
               t == w[k]
    <3>1. k \in 1 .. N /\ k - 1 \in 0 .. N /\ k - 1 \in Nat /\ k \in Nat
      BY <1>1, <2>1, <2>3
    <3>2. WalkAt(n, D, w, k - 1)
      BY <2>1, <3>1
    <3>3. t = TowardsZone1(m)
      BY <1>2, <3>1
    <3>4. m \in Node /\ Reached(m) /\ Linked(n, m)
      BY <3>2 DEF WalkAt
    <3>5. StepDone(D, m, t)
      BY <3>3, <3>4, TowardsStep
    <3>6. t \in Node /\ Reached(t) /\ Linked(n, t)
      BY <1>2, <3>4, <3>5, LinkedIsEquivalence DEF StepDone
    <3>7. CASE t = m /\ m \in partitions
      BY <2>1, <3>3, <3>6, <3>7 DEF WalkAt
    <3>8. CASE D[t] < D[m]
      <4>1. TowardsZone1(m) # m
        BY <3>3, <3>4, <3>8
      <4>2. PICK S \in SUBSET Node : IsFiniteSet(S) /\ Cardinality(S) = k - 1 /\ \A y \in S : D[m] < D[y]
        BY <3>2, <4>1 DEF WalkAt
      <4> DEFINE T == S \cup {m}
      <4>3. m \notin S
        BY <3>4, <4>2
      <4>4. IsFiniteSet(T) /\ Cardinality(T) = k /\ T \in SUBSET Node
        <5>1. IsFiniteSet(T) /\ Cardinality(T) = Cardinality(S) + 1
          BY <4>2, <4>3, FS_AddElement
        <5> QED  BY <3>1, <3>4, <4>2, <5>1
      <4>5. \A y \in T : D[t] < D[y]
        <5> SUFFICES ASSUME NEW y \in S PROVE D[t] < D[y]
          BY <3>8
        <5>1. D[m] < D[y] /\ D[m] \in Nat /\ D[y] \in Nat /\ D[t] \in Nat
          BY <3>4, <3>6, <4>2
        <5> QED  BY <3>8, <5>1
      <4> HIDE DEF T, t
      <4> QED  BY <2>1, <3>6, <4>4, <4>5 DEF WalkAt, t
    <3> QED  BY <3>5, <3>7, <3>8 DEF StepDone
  <2> QED  BY <2>2, <2>3
<1>4. WalkAt(n, D, w, N)
  <2>1. N \in 0 .. N
    BY <1>1
  <2> QED  BY <1>3, <2>1
<1>5. ASSUME NEW S \in SUBSET Node, Cardinality(S) = N, \A y \in S : D[w[N]] < D[y], w[N] \in Node PROVE FALSE
  <2>1. S = Node
    BY <1>1, <1>5, FS_Subset
  <2>2. D[w[N]] < D[w[N]] /\ D[w[N]] \in Nat
    BY <1>5, <2>1
  <2> QED  BY <2>2
<1> HIDE DEF N
<1>6. w[N] \in partitions /\ Linked(n, w[N])
  BY <1>4, <1>5 DEF WalkAt
<1> QED  BY <1>6 DEF N

\* The search starts exactly once in each partition, and findZone1 leads to this start
\* from each node, whether loops have already been united or not.
THEOREM FindZone1IsFound == Spec => []Zone1Found
<1>1. SetPathInv /\ StepsInv => Zone1Found
  <2> SUFFICES ASSUME SetPathInv, StepsInv, phase # "search" \/ stack = << >>, NEW n \in Node,
                      IntfList(n) # {}, phase # "search" \/ nodeToZone1[n] # None
               PROVE  {z \in partitions : Connected(n, z, Intfs)} = {FindZone1(n)}
    BY DEF Zone1Found
  <2>1. stack = << >> /\ graph \in Topologies /\ dist \in [Node -> Nat] /\ partitions \in SUBSET Zones
    BY DEF SetPathInv, SearchInv, Types
  <2>2. Reached(n)
    BY DEF StepsInv, Reached
  <2>3. PICK D : D \in [Node -> Nat] /\ StepsDecreasing(D)
    <3>1. CASE phase = "search"
      BY <2>1, <3>1 DEF StepsInv
    <3>2. CASE phase # "search"
      BY <3>2 DEF StepsInv, SearchDistance
    <3> QED  BY <3>1, <3>2
  <2>4. Cardinality(Node) \in Nat
    BY FiniteAssumption, FS_CardinalityType DEF Node
  <2>5. \E w : Walks(n, Cardinality(Node), w)
    <3> DEFINE W == {m \in Node : Reached(m)}
    <3>1. n \in W
      BY <2>2
    <3>2. \A m \in W : TowardsZone1(m) \in W
      BY <2>1, <2>3, TowardsStep DEF StepDone
    <3> HIDE DEF W
    <3> QED  BY <2>4, <3>1, <3>2, WalkExists
  <2> DEFINE w == CHOOSE w : Walks(n, Cardinality(Node), w)
  <2>6. FindZone1(n) = w[Cardinality(Node)]
    BY DEF FindZone1, Walks
  <2>7. Walks(n, Cardinality(Node), w)
    BY <2>5
  <2> HIDE DEF w
  <2>8. FindZone1(n) \in partitions /\ Linked(n, FindZone1(n))
    BY <2>1, <2>2, <2>3, <2>6, <2>7, WalkEnds
  <2>9. ASSUME NEW z \in partitions, Linked(n, z) PROVE z = FindZone1(n)
    <3> DEFINE f == FindZone1(n)
    <3>1. z \in Node /\ f \in Node
      BY <2>1, <2>8 DEF Node
    <3>2. Linked(f, z)
      BY <2>1, <2>8, <2>9, <3>1, LinkedIsEquivalence
    <3> QED  BY <2>8, <3>2 DEF StepsInv, Partitioned
  <2> QED  BY <2>8, <2>9 DEF Linked
<1> QED  BY <1>1, StepsInvariance, PTL

=============================================================================
