------------------------- MODULE CausalTrace_proofs -------------------------
(***************************************************************************)
(* What the metrics of CausalTrace amount to, for any trace whose messages *)
(* do not lead in a circle: the depth is the number of steps of a longest  *)
(* chain of messages, the union-find counts the connected components, and  *)
(* the sum over the nodes counts the edges.                                *)
(*                                                                         *)
(* Folds and recursive functions are CHOOSEn, so each is first shown to    *)
(* exist: a function that satisfies its equation up to rank k satisfies it *)
(* up to k + 1 after one update (FoldTable, DepthTable).                   *)
(***************************************************************************)
EXTENDS CausalTrace, FiniteSetTheorems, FunctionTheorems, WellFoundedInduction, TLAPS

-----------------------------------------------------------------------------
(* Induction over numbers, as the least counterexample.                    *)

LEMMA LeastElement ==
  ASSUME NEW R \in SUBSET Nat, R # {}
  PROVE  \E r \in R : \A q \in R : r <= q
<1> DEFINE Less == OpToRel(<, Nat)
<1>1. IsWellFoundedOn(Less, Nat)
  BY NatLessThanWellFounded
<1>2. \A q, r \in Nat : q < r => <<q, r>> \in Less
  BY DEF OpToRel
<1> HIDE DEF Less
<1>3. PICK r \in R : \A q \in R : ~ (<<q, r>> \in Less)
  BY <1>1, WFMin
<1>4. ASSUME NEW q \in R PROVE r <= q
  <2>1. q \in Nat /\ r \in Nat /\ ~ (q < r)
    BY <1>2, <1>3
  <2> QED
    BY <2>1
<1> QED
  BY <1>4

(* What holds of 0, and of k + 1 if of k, holds of every number: T is the  *)
(* set of the numbers of which it holds.                                   *)
LEMMA UpFromZero ==
  ASSUME NEW T, 0 \in T, \A k \in Nat : k \in T => k + 1 \in T
  PROVE  Nat \subseteq T
<1> SUFFICES ASSUME Nat \ T # {} PROVE FALSE
  OBVIOUS
<1>1. PICK r \in Nat \ T : \A q \in Nat \ T : r <= q
  BY LeastElement
<1>2. r # 0 /\ r - 1 \in Nat
  BY <1>1
<1>3. r - 1 \in T
  BY <1>1, <1>2
<1> QED
  BY <1>1, <1>2, <1>3

(* A finite set of numbers has a largest one.                              *)
LEMMA LargestElement ==
  ASSUME NEW R \in SUBSET Nat, R # {}, IsFiniteSet(R)
  PROVE  Max(R) \in R /\ \A q \in R : q <= Max(R)
<1> DEFINE T == {k \in Nat : \A S \in SUBSET Nat :
                   S # {} /\ IsFiniteSet(S) /\ Cardinality(S) = k
                     => \E r \in S : \A q \in S : q <= r}
<1>1. 0 \in T
  BY FS_EmptySet
<1>2. ASSUME NEW k \in Nat, k \in T PROVE k + 1 \in T
  <2> SUFFICES ASSUME NEW S \in SUBSET Nat, S # {}, IsFiniteSet(S), Cardinality(S) = k + 1
               PROVE  \E r \in S : \A q \in S : q <= r
    OBVIOUS
  <2>1. PICK x \in S : TRUE
    OBVIOUS
  <2>2. IsFiniteSet(S \ {x}) /\ Cardinality(S \ {x}) = k
    <3> HIDE DEF T
    <3>1. IsFiniteSet(S \ {x}) /\ Cardinality(S \ {x}) = Cardinality(S) - 1
      BY <2>1, FS_RemoveElement
    <3> QED
      BY <3>1
  <2>3. CASE S \ {x} = {}
    <3>1. \A q \in S : q = x
      BY <2>3
    <3> QED
      BY <2>1, <3>1
  <2>4. CASE S \ {x} # {}
    <3>1. PICK r \in S \ {x} : \A q \in S \ {x} : q <= r
      BY <1>2, <2>2, <2>4
    <3>2. CASE x <= r
      BY <3>1, <3>2
    <3>3. CASE ~ (x <= r)
      <4>1. \A q \in S : q <= x
        BY <2>1, <3>1, <3>3
      <4> QED
        BY <2>1, <4>1
    <3> QED
      BY <3>2, <3>3
  <2> QED
    BY <2>3, <2>4
<1>3. Nat \subseteq T
  <2> HIDE DEF T
  <2> QED
    BY <1>1, <1>2, UpFromZero
<1>4. Cardinality(R) \in T
  BY <1>3, FS_CardinalityType
<1>5. \E r \in R : \A q \in R : q <= r
  BY <1>4
<1>6. \E r \in R : \A q \in R : r >= q
  BY <1>5
<1>7. Max(R) \in R /\ \A q \in R : Max(R) >= q
  BY <1>6 DEF Max
<1> QED
  BY <1>7

LEMMA LargestOrZero ==
  ASSUME NEW R \in SUBSET Nat, IsFiniteSet(R)
  PROVE  /\ MaxOrZero(R) \in Nat
         /\ R # {} => MaxOrZero(R) \in R
         /\ \A q \in R : q <= MaxOrZero(R)
BY LargestElement DEF MaxOrZero
-----------------------------------------------------------------------------
(* A fold over a finite set: what its equation needs exists.               *)
FoldInput(S, V, base, op, pick) ==
  /\ IsFiniteSet(S) /\ base \in V /\ op \in [S \X V -> V]
  /\ pick \in [(SUBSET S) \ {{}} -> S] /\ \A s \in (SUBSET S) \ {{}} : pick[s] \in s

IsFoldTable(S, V, base, op, pick, g) ==
  /\ g \in [SUBSET S -> V]
  /\ \A s \in SUBSET S :
       g[s] = IF s = {} THEN base ELSE op[<<pick[s], g[s \ {pick[s]}]>>]

LEMMA FoldTable ==
  ASSUME NEW S, NEW V, NEW base, NEW op, NEW pick, FoldInput(S, V, base, op, pick)
  PROVE  \E g : IsFoldTable(S, V, base, op, pick, g)
<1> USE DEF FoldInput
<1> DEFINE Value(g, s) == IF s = {} THEN base ELSE op[<<pick[s], g[s \ {pick[s]}]>>]
           T == {k \in Nat : \E g \in [SUBSET S -> V] :
                   \A s \in SUBSET S : Cardinality(s) <= k => g[s] = Value(g, s)}
<1>1. \A s \in SUBSET S : IsFiniteSet(s) /\ Cardinality(s) \in Nat
  BY FS_Subset, FS_CardinalityType
<1>2. ASSUME NEW g \in [SUBSET S -> V], NEW s \in SUBSET S PROVE Value(g, s) \in V
  <2>1. CASE s # {}
    <3>1. pick[s] \in S /\ s \ {pick[s]} \in SUBSET S
      BY <2>1
    <3>2. g[s \ {pick[s]}] \in V
      BY <3>1
    <3> QED
      BY <2>1, <3>1, <3>2
  <2> QED
    BY <2>1
<1>3. 0 \in T
  <2> DEFINE g == [s \in SUBSET S |-> base]
  <2>1. g \in [SUBSET S -> V]
    OBVIOUS
  <2>2. ASSUME NEW s \in SUBSET S, Cardinality(s) <= 0 PROVE g[s] = Value(g, s)
    <3>1. s = {}
      BY <1>1, <2>2, FS_EmptySet
    <3> QED
      BY <3>1
  <2> HIDE DEF g, Value
  <2> QED
    BY <2>1, <2>2
<1>4. ASSUME NEW k \in Nat, k \in T PROVE k + 1 \in T
  <2>1. PICK g \in [SUBSET S -> V] :
          \A s \in SUBSET S : Cardinality(s) <= k => g[s] = Value(g, s)
    BY <1>4
  <2> DEFINE h == [s \in SUBSET S |-> IF Cardinality(s) <= k THEN g[s] ELSE Value(g, s)]
  <2>2. h \in [SUBSET S -> V]
    <3>1. \A s \in SUBSET S : Value(g, s) \in V
      BY <1>2
    <3> HIDE DEF Value
    <3> QED
      BY <3>1
  <2>3. ASSUME NEW s \in SUBSET S, Cardinality(s) <= k + 1 PROVE h[s] = Value(h, s)
    <3>1. h[s] = Value(g, s)
      <4> HIDE DEF Value
      <4> QED
        BY <2>1
    <3>2. Value(g, s) = Value(h, s)
      <4>1. CASE s # {}
        <5>1. pick[s] \in s
          BY <4>1
        <5>2. Cardinality(s \ {pick[s]}) <= k
          <6> HIDE DEF h, Value, T
          <6>1. IsFiniteSet(s) /\ Cardinality(s) \in Nat
            BY <1>1, FS_CardinalityType
          <6>2. Cardinality(s \ {pick[s]}) = Cardinality(s) - 1
            <7> DEFINE x == pick[s]
            <7>1. x \in s
              BY <5>1
            <7> HIDE DEF x
            <7>2. Cardinality(s \ {x}) = Cardinality(s) - 1
              BY <6>1, <7>1, FS_RemoveElement
            <7> QED
              BY <7>2 DEF x
          <6> QED
            BY <2>3, <6>1, <6>2
        <5>3. h[s \ {pick[s]}] = g[s \ {pick[s]}]
          BY <5>2
        <5> HIDE DEF h
        <5> QED
          BY <5>3
      <4> QED
        BY <4>1
    <3> QED
      BY <3>1, <3>2
  <2> HIDE DEF h, Value
  <2> QED
    BY <2>2, <2>3
<1>5. Cardinality(S) \in T
  <2> HIDE DEF T
  <2> QED
    BY <1>3, <1>4, UpFromZero, FS_CardinalityType
<1>6. \A s \in SUBSET S : Cardinality(s) <= Cardinality(S)
  BY FS_Subset
<1> HIDE DEF Value
<1>7. \E g \in [SUBSET S -> V] : \A s \in SUBSET S : g[s] = Value(g, s)
  BY <1>5, <1>6
<1> QED
  BY <1>7 DEF Value, IsFoldTable
-----------------------------------------------------------------------------
LEMMA ImageFinite ==
  ASSUME NEW S, IsFiniteSet(S), NEW f
  PROVE  IsFiniteSet({f[x] : x \in S}) /\ Cardinality({f[x] : x \in S}) <= Cardinality(S)
<1> DEFINE g == [x \in S |-> f[x]]
           R == {f[x] : x \in S}
<1>1. g \in [S -> R] /\ \A r \in R : \E x \in S : g[x] = r
  OBVIOUS
<1> HIDE DEF g, R
<1>2. g \in Surjection(S, R)
  BY <1>1, Fun_IsSurj
<1>3. IsFiniteSet(R) /\ Cardinality(R) <= Cardinality(S)
  BY <1>2, FS_Surjection
<1> QED
  BY <1>3 DEF R

(* E leads every node of N to nodes of lower rank.                         *)
Grounded(N, E, rank) ==
  /\ E \in [N -> SUBSET N] /\ rank \in [N -> Nat]
  /\ \A n \in N : \A p \in E[n] : rank[p] < rank[n]

(* d is what the recursion of depth() computes.                            *)
IsDepth(N, E, d) ==
  /\ d \in [N -> Nat]
  /\ d = [n \in N |-> IF E[n] = {} THEN 0 ELSE 1 + Max({d[p] : p \in E[n]})]

LEMMA DepthTable ==
  ASSUME NEW N, IsFiniteSet(N), NEW E, NEW rank, Grounded(N, E, rank)
  PROVE  \E d : IsDepth(N, E, d)
<1> DEFINE Value(d, n) == IF E[n] = {} THEN 0 ELSE 1 + Max({d[p] : p \in E[n]})
           T == {k \in Nat : \E d \in [N -> Nat] : \A n \in N : rank[n] < k => d[n] = Value(d, n)}
<1>1. ASSUME NEW d \in [N -> Nat], NEW n \in N PROVE Value(d, n) \in Nat
  <2>1. CASE E[n] # {}
    <3> DEFINE R == {d[p] : p \in E[n]}
    <3>1. E[n] \subseteq N
      BY DEF Grounded
    <3>2. IsFiniteSet(E[n])
      BY <3>1, FS_Subset
    <3>3. R # {} /\ R \subseteq Nat
      BY <2>1, <3>1
    <3>4. IsFiniteSet(R)
      BY <3>2, ImageFinite
    <3> HIDE DEF R
    <3>5. Max(R) \in Nat
      BY <3>3, <3>4, LargestElement
    <3> QED
      BY <2>1, <3>5 DEF R
  <2> QED
    BY <2>1
<1>2. 0 \in T
  <2> DEFINE d == [n \in N |-> 0]
  <2>1. d \in [N -> Nat] /\ \A n \in N : ~ (rank[n] < 0)
    BY DEF Grounded
  <2> HIDE DEF d, Value
  <2> QED
    BY <2>1
<1>3. ASSUME NEW k \in Nat, k \in T PROVE k + 1 \in T
  <2>1. PICK d \in [N -> Nat] : \A n \in N : rank[n] < k => d[n] = Value(d, n)
    BY <1>3
  <2> DEFINE h == [n \in N |-> IF rank[n] < k THEN d[n] ELSE Value(d, n)]
  <2>2. h \in [N -> Nat] /\ \A n \in N : h[n] = Value(d, n) \/ ~ (rank[n] < k)
    <3> HIDE DEF Value
    <3> QED
      BY <1>1, <2>1
  <2>3. ASSUME NEW n \in N, rank[n] < k + 1 PROVE h[n] = Value(h, n)
    <3>1. h[n] = Value(d, n)
      <4> HIDE DEF Value
      <4> QED
        BY <2>1
    <3>2. \A p \in E[n] : h[p] = d[p]
      <4> HIDE DEF Value
      <4>1. \A p \in E[n] : p \in N /\ rank[p] < k
        BY <2>3 DEF Grounded
      <4> QED
        BY <4>1
    <3> HIDE DEF h
    <3>3. {h[p] : p \in E[n]} = {d[p] : p \in E[n]}
      BY <3>2
    <3>4. Value(d, n) = Value(h, n)
      BY <3>3
    <3> QED
      BY <3>1, <3>4
  <2> HIDE DEF h, Value
  <2> QED
    BY <2>2, <2>3
<1>4. PICK k \in Nat : \A n \in N : rank[n] < k
  <2> DEFINE R == {rank[n] : n \in N}
  <2>1. R \subseteq Nat /\ IsFiniteSet(R)
    BY ImageFinite DEF Grounded
  <2> HIDE DEF R
  <2>2. PICK b \in Nat : \A q \in R : q <= b
    BY <2>1, LargestElement
  <2>3. \A n \in N : rank[n] < b + 1
    <3>1. \A n \in N : rank[n] \in R
      BY DEF R
    <3>2. \A n \in N : rank[n] \in Nat /\ rank[n] <= b
      BY <2>1, <2>2, <3>1
    <3> QED
      BY <3>2
  <2> QED
    BY <2>2, <2>3
<1>5. k \in T
  <2> HIDE DEF T
  <2> QED
    BY <1>2, <1>3, UpFromZero
<1> HIDE DEF Value
<1>6. PICK d \in [N -> Nat] : \A n \in N : d[n] = Value(d, n)
  BY <1>4, <1>5
<1>7. d = [n \in N |-> Value(d, n)]
  BY <1>6
<1> QED
  BY <1>6, <1>7 DEF Value, IsDepth

(* Any two functions that satisfy the equation agree.                      *)
LEMMA DepthUnique ==
  ASSUME NEW N, NEW E, NEW rank, Grounded(N, E, rank), NEW d, IsDepth(N, E, d),
         NEW h, h = [n \in N |-> IF E[n] = {} THEN 0 ELSE 1 + Max({h[p] : p \in E[n]})]
  PROVE  h = d
<1> DEFINE Odd == {n \in N : h[n] # d[n]}
<1>1. Odd = {}
  <2> SUFFICES ASSUME Odd # {} PROVE FALSE
    OBVIOUS
  <2>1. PICK n \in Odd : \A q \in Odd : rank[n] <= rank[q]
    <3> DEFINE R == {rank[q] : q \in Odd}
    <3>1. \A q \in Odd : rank[q] \in Nat
      BY DEF Grounded
    <3>2. R \in SUBSET Nat /\ R # {}
      <4> HIDE DEF Odd
      <4> QED
        BY <3>1
    <3>3. PICK r \in R : \A q \in R : r <= q
      <4> HIDE DEF R
      <4> QED
        BY <3>2, LeastElement
    <3> HIDE DEF Odd
    <3> QED
      BY <3>3
  <2>2. ASSUME NEW p \in E[n] PROVE h[p] = d[p]
    <3>1. p \in N /\ n \in N /\ rank[p] < rank[n] /\ rank[p] \in Nat /\ rank[n] \in Nat
      BY DEF Grounded
    <3>2. p \notin Odd
      <4> HIDE DEF Odd
      <4> QED
        BY <2>1, <3>1
    <3> QED
      BY <3>1, <3>2
  <2>3. {h[p] : p \in E[n]} = {d[p] : p \in E[n]}
    <3>1. \A p \in E[n] : h[p] = d[p]
      BY <2>2
    <3> HIDE DEF Odd
    <3> QED
      BY <3>1, Zenon
  <2>4. h[n] = IF E[n] = {} THEN 0 ELSE 1 + Max({h[p] : p \in E[n]})
    OBVIOUS
  <2>5. d[n] = IF E[n] = {} THEN 0 ELSE 1 + Max({d[p] : p \in E[n]})
    BY DEF IsDepth
  <2>6. h[n] = d[n]
    BY <2>3, <2>4, <2>5
  <2> QED
    BY <2>6
<1>2. DOMAIN h = N /\ DOMAIN d = N /\ \A n \in N : h[n] = d[n]
  BY <1>1 DEF IsDepth
<1>3. h = [n \in N |-> h[n]] /\ d = [n \in N |-> d[n]]
  BY <1>2 DEF IsDepth
<1> QED
  BY <1>2, <1>3

LEMMA MaxDepthIsDepth ==
  ASSUME NEW t, IsFiniteSet(Nodes(t)), NEW rank, Grounded(Nodes(t), Edges(t), rank),
         NEW d, IsDepth(Nodes(t), Edges(t), d)
  PROVE  MaxDepth(t) = MaxOrZero({d[n] : n \in Nodes(t)})
<1> DEFINE N == Nodes(t)
           E == Edges(t)
           h == CHOOSE g : g = [n \in N |-> IF E[n] = {} THEN 0 ELSE 1 + Max({g[p] : p \in E[n]})]
<1>1. MaxDepth(t) = MaxOrZero({h[n] : n \in N})
  BY DEF MaxDepth
<1>2. h = [n \in N |-> IF E[n] = {} THEN 0 ELSE 1 + Max({h[p] : p \in E[n]})]
  BY DEF IsDepth
<1> HIDE DEF h
<1>3. h = d
  BY <1>2, DepthUnique
<1> QED
  BY <1>1, <1>3
-----------------------------------------------------------------------------
(* Depth is the length of a longest chain.                                 *)
LEMMA DepthSteps ==
  ASSUME NEW N, IsFiniteSet(N), NEW E, NEW rank, Grounded(N, E, rank), NEW d, IsDepth(N, E, d),
         NEW n \in N
  PROVE  /\ d[n] \in Nat
         /\ \A p \in E[n] : p \in N /\ d[p] \in Nat /\ d[p] + 1 <= d[n]
         /\ d[n] # 0 => \E p \in E[n] : d[n] = d[p] + 1
<1>1. d[n] \in Nat /\ E[n] \subseteq N
  BY DEF IsDepth, Grounded
<1>2. d[n] = IF E[n] = {} THEN 0 ELSE 1 + Max({d[p] : p \in E[n]})
  BY DEF IsDepth
<1>3. CASE E[n] # {}
  <2> DEFINE R == {d[p] : p \in E[n]}
  <2>1. R # {} /\ R \subseteq Nat /\ \A p \in E[n] : d[p] \in R
    BY <1>1, <1>3 DEF IsDepth
  <2>2. IsFiniteSet(R)
    <3>1. IsFiniteSet(E[n])
      BY <1>1, FS_Subset
    <3> QED
      BY <3>1, ImageFinite
  <2>3. d[n] = 1 + Max(R)
    BY <1>2, <1>3
  <2>4. \E p \in E[n] : d[p] = Max(R)
    <3> HIDE DEF R
    <3>1. Max(R) \in R
      BY <2>1, <2>2, LargestElement
    <3> QED
      BY <3>1 DEF R
  <2> HIDE DEF R
  <2>5. Max(R) \in Nat /\ \A q \in R : q \in Nat /\ q <= Max(R)
    BY <2>1, <2>2, LargestElement
  <2>6. ASSUME NEW p \in E[n] PROVE p \in N /\ d[p] \in Nat /\ d[p] + 1 <= d[n]
    <3>1. d[p] \in R /\ p \in N
      BY <1>1, <2>1
    <3>2. d[p] \in Nat /\ d[p] <= Max(R)
      BY <2>5, <3>1
    <3> QED
      BY <2>3, <2>5, <3>1, <3>2
  <2>7. \E p \in E[n] : d[n] = d[p] + 1
    BY <2>3, <2>4, <2>5, <2>6
  <2> QED
    BY <1>1, <2>6, <2>7
<1> QED
  BY <1>1, <1>2, <1>3

IsChain(N, E, p, k) == p \in [1 .. k -> N] /\ \A i \in 1 .. k - 1 : p[i + 1] \in E[p[i]]

LEMMA ChainTo ==
  ASSUME NEW N, IsFiniteSet(N), NEW E, NEW rank, Grounded(N, E, rank), NEW d, IsDepth(N, E, d),
         NEW k \in Nat, NEW n \in N, d[n] = k
  PROVE  \E p : IsChain(N, E, p, k + 1)
<1> DEFINE T == {j \in Nat : \A m \in N : d[m] = j => \E p : IsChain(N, E, p, j + 1) /\ p[1] = m}
<1>1. 0 \in T
  <2> SUFFICES ASSUME NEW m \in N PROVE \E p : IsChain(N, E, p, 1) /\ p[1] = m
    OBVIOUS
  <2> DEFINE p == [i \in 1 .. 1 |-> m]
  <2>1. IsChain(N, E, p, 1) /\ p[1] = m
    BY DEF IsChain
  <2> QED
    BY <2>1
<1>2. ASSUME NEW j \in Nat, j \in T PROVE j + 1 \in T
  <2> SUFFICES ASSUME NEW m \in N, d[m] = j + 1
               PROVE  \E p : IsChain(N, E, p, j + 2) /\ p[1] = m
    OBVIOUS
  <2>1. PICK q \in E[m] : d[m] = d[q] + 1
    <3>1. d[m] # 0
      OBVIOUS
    <3> HIDE DEF T
    <3> QED
      BY <3>1, DepthSteps
  <2>2. q \in N /\ d[q] = j
    <3> HIDE DEF T
    <3>1. q \in N /\ d[q] \in Nat
      BY <2>1, DepthSteps
    <3> QED
      BY <2>1, <3>1
  <2>3. PICK c : IsChain(N, E, c, j + 1) /\ c[1] = q
    BY <1>2, <2>2
  <2> DEFINE p == [i \in 1 .. j + 2 |-> IF i = 1 THEN m ELSE c[i - 1]]
  <2>4. \A i \in 1 .. j + 2 : i # 1 => i - 1 \in 1 .. j + 1
    OBVIOUS
  <2>5. p \in [1 .. j + 2 -> N] /\ p[1] = m
    BY <2>3, <2>4 DEF IsChain
  <2>6. ASSUME NEW i \in 1 .. (j + 2) - 1 PROVE p[i + 1] \in E[p[i]]
    <3>1. p[i + 1] = c[i]
      OBVIOUS
    <3>2. CASE i = 1
      BY <2>1, <2>3, <3>1, <3>2
    <3>3. CASE i # 1
      <4>1. i - 1 \in 1 .. (j + 1) - 1 /\ (i - 1) + 1 = i /\ p[i] = c[i - 1]
        BY <3>3
      <4>2. c[(i - 1) + 1] \in E[c[i - 1]]
        BY <2>3, <4>1 DEF IsChain
      <4> QED
        BY <3>1, <4>1, <4>2
    <3> QED
      BY <3>2, <3>3
  <2> HIDE DEF p
  <2> QED
    BY <2>5, <2>6 DEF IsChain
<1>3. k \in T
  <2> HIDE DEF T
  <2> QED
    BY <1>1, <1>2, UpFromZero
<1> QED
  BY <1>3

LEMMA ChainBound ==
  ASSUME NEW N, IsFiniteSet(N), NEW E, NEW rank, Grounded(N, E, rank), NEW d, IsDepth(N, E, d),
         NEW k \in Nat, NEW p, IsChain(N, E, p, k + 1)
  PROVE  p[1] \in N /\ k <= d[p[1]]
<1>1. \A i \in 1 .. k + 1 : p[i] \in N
  BY DEF IsChain
<1> DEFINE T == {j \in Nat : j <= k => j <= d[p[(k + 1) - j]]}
<1>2. \A i \in 1 .. k + 1 : d[p[i]] \in Nat
  BY <1>1, DepthSteps
<1>3. 0 \in T
  BY <1>2
<1>4. ASSUME NEW j \in Nat, j \in T PROVE j + 1 \in T
  <2> SUFFICES ASSUME j + 1 <= k PROVE j + 1 <= d[p[(k + 1) - (j + 1)]]
    OBVIOUS
  <2> DEFINE i == (k + 1) - (j + 1)
  <2>1. i \in 1 .. (k + 1) - 1 /\ i + 1 = (k + 1) - j /\ i \in 1 .. k + 1 /\ i + 1 \in 1 .. k + 1
    OBVIOUS
  <2>2. j <= d[p[i + 1]]
    BY <1>4, <2>1
  <2> HIDE DEF i, T
  <2>3. p[i + 1] \in E[p[i]] /\ p[i] \in N
    BY <1>1, <2>1 DEF IsChain
  <2>4. d[p[i + 1]] + 1 <= d[p[i]]
    BY <2>3, DepthSteps
  <2>5. d[p[i]] \in Nat /\ d[p[i + 1]] \in Nat
    BY <1>2, <2>1
  <2>6. j + 1 <= d[p[i]]
    BY <2>2, <2>4, <2>5
  <2> QED
    BY <2>6 DEF i
<1>5. k \in T
  <2> HIDE DEF T
  <2> QED
    BY <1>3, <1>4, UpFromZero
<1> QED
  BY <1>1, <1>5

LEMMA LongestChain ==
  ASSUME NEW N, IsFiniteSet(N), N # {}, NEW E, NEW rank, Grounded(N, E, rank),
         NEW d, IsDepth(N, E, d), NEW k, k = MaxOrZero({d[n] : n \in N})
  PROVE  k \in Nat /\ (\E p : IsChain(N, E, p, k + 1)) /\ ~ (\E p : IsChain(N, E, p, k + 2))
<1> DEFINE R == {d[n] : n \in N}
<1>1. R \subseteq Nat /\ R # {} /\ IsFiniteSet(R) /\ \A n \in N : d[n] \in R
  <2>1. IsFiniteSet(R)
    BY ImageFinite
  <2> QED
    BY <2>1 DEF IsDepth
<1>2. k \in Nat /\ k \in R /\ \A q \in R : q <= k
  <2> HIDE DEF R
  <2>1. k = MaxOrZero(R)
    BY DEF R
  <2> QED
    BY <1>1, <2>1, LargestOrZero
<1>3. PICK n \in N : d[n] = k
  BY <1>2
<1>4. \E p : IsChain(N, E, p, k + 1)
  BY <1>2, <1>3, ChainTo
<1>5. ASSUME NEW p, IsChain(N, E, p, k + 2) PROVE FALSE
  <2>1. k + 1 \in Nat /\ k + 2 = (k + 1) + 1
    BY <1>2
  <2>2. IsChain(N, E, p, (k + 1) + 1)
    BY <1>5, <2>1
  <2>3. p[1] \in N /\ k + 1 <= d[p[1]]
    BY <2>1, <2>2, ChainBound
  <2>4. d[p[1]] \in R
    BY <1>1, <2>3
  <2> HIDE DEF R
  <2>5. d[p[1]] \in Nat /\ d[p[1]] <= k
    BY <1>1, <1>2, <2>4
  <2> QED
    BY <1>2, <2>3, <2>5
<1> QED
  BY <1>2, <1>4, <1>5
-----------------------------------------------------------------------------
(* The union-find.  Two nodes are joined by a set of pairs if no set that  *)
(* respects the pairs separates them.                                      *)
Respects(C, s) == \A e \in s : e[1] \in C <=> e[2] \in C

JoinedBy(N, s, n, m) == \A C \in SUBSET N : Respects(C, s) /\ n \in C => m \in C

(* find tells apart exactly what the pairs do not join.                    *)
Separates(N, s, find) ==
  /\ find \in [N -> N]
  /\ \A n, m \in N : find[n] = find[m] <=> JoinedBy(N, s, n, m)

LEMMA UnionSeparates ==
  ASSUME NEW N, NEW s, s \subseteq N \X N, NEW e \in s, NEW find, Separates(N, s \ {e}, find)
  PROVE  Separates(N, s, UnionClasses(find, e))
<1> DEFINE a == e[1]
           b == e[2]
           rest == s \ {e}
           new == UnionClasses(find, e)
<1>1. a \in N /\ b \in N /\ find \in [N -> N]
  BY DEF Separates
<1>2. new = [n \in N |-> IF find[n] = find[a] THEN find[b] ELSE find[n]]
  BY <1>1 DEF UnionClasses
<1>3. \A C \in SUBSET N : Respects(C, s) <=> Respects(C, rest) /\ (a \in C <=> b \in C)
  BY DEF Respects
<1>4. \A n, m \in N : find[n] = find[m] <=> JoinedBy(N, rest, n, m)
  BY DEF Separates
<1> HIDE DEF a, b, rest, new
<1>5. ASSUME NEW n \in N, NEW m \in N, new[n] = new[m], NEW C \in SUBSET N, Respects(C, s), n \in C
      PROVE  m \in C
  <2>1. \A x, y \in N : find[x] = find[y] => (x \in C => y \in C)
    BY <1>3, <1>4, <1>5 DEF JoinedBy
  <2>2. a \in C <=> b \in C
    BY <1>3, <1>5
  <2>3. /\ new[n] = IF find[n] = find[a] THEN find[b] ELSE find[n]
        /\ new[m] = IF find[m] = find[a] THEN find[b] ELSE find[m]
    BY <1>2
  <2> QED
    BY <1>1, <1>5, <2>1, <2>2, <2>3
<1>6. ASSUME NEW n \in N, NEW m \in N, JoinedBy(N, s, n, m)
      PROVE  new[n] = new[m]
  <2> DEFINE C == {x \in N : new[x] = new[n]}
  <2>1. ASSUME NEW p \in rest PROVE p[1] \in N /\ p[2] \in N /\ find[p[1]] = find[p[2]]
    <3>1. p[1] \in N /\ p[2] \in N
      BY DEF rest
    <3>2. JoinedBy(N, rest, p[1], p[2])
      BY DEF JoinedBy, Respects
    <3> QED
      BY <1>4, <3>1, <3>2
  <2>2. ASSUME NEW p \in rest PROVE p[1] \in C <=> p[2] \in C
    BY <1>2, <2>1
  <2>3. new[a] = find[b] /\ new[b] = find[b]
    BY <1>1, <1>2
  <2>4. a \in C <=> b \in C
    BY <1>1, <2>3
  <2>5. C \in SUBSET N /\ n \in C
    OBVIOUS
  <2>6. Respects(C, s)
    BY <1>3, <2>2, <2>4, <2>5 DEF Respects
  <2>7. m \in C
    BY <1>6, <2>5, <2>6 DEF JoinedBy
  <2> QED
    BY <2>7
<1>7. new \in [N -> N]
  BY <1>1, <1>2
<1> QED
  BY <1>5, <1>6, <1>7 DEF Separates, JoinedBy, new

LEMMA FoldSeparates ==
  ASSUME NEW N, IsFiniteSet(N), NEW s, s \subseteq N \X N
  PROVE  Separates(N, s, FoldSet(LAMBDA edge, f : UnionClasses(f, edge), [n \in N |-> n], s))
<1> DEFINE V == [N -> N]
           base == [n \in N |-> n]
           pick(S) == CHOOSE x \in S : TRUE
           Value(g, S) == IF S = {} THEN base ELSE UnionClasses(g[S \ {pick(S)}], pick(S))
           it == CHOOSE g : g = [S \in SUBSET s |-> Value(g, S)]
<1>1. IsFiniteSet(s) /\ \A S \in SUBSET s : IsFiniteSet(S) /\ Cardinality(S) \in Nat
  <2>1. IsFiniteSet(s)
    BY FS_Product, FS_Subset
  <2> QED
    BY <2>1, FS_Subset, FS_CardinalityType
<1>2. FoldSet(LAMBDA edge, f : UnionClasses(f, edge), base, s) = it[s]
  BY DEF FoldSet, MapThenFoldSet
<1>3. it = [S \in SUBSET s |-> Value(it, S)]
  <2> DEFINE op == [x \in s \X V |-> UnionClasses(x[2], x[1])]
             choose == [S \in (SUBSET s) \ {{}} |-> pick(S)]
  <2>1. base \in V
    OBVIOUS
  <2>2. op \in [s \X V -> V]
    <3> SUFFICES ASSUME NEW e \in s, NEW f \in V PROVE UnionClasses(f, e) \in V
      OBVIOUS
    <3>1. e[1] \in N /\ e[2] \in N
      OBVIOUS
    <3> QED
      BY <3>1 DEF UnionClasses
  <2>3. choose \in [(SUBSET s) \ {{}} -> s] /\ \A S \in (SUBSET s) \ {{}} : choose[S] \in S
    OBVIOUS
  <2>4. \A S \in (SUBSET s) \ {{}} : choose[S] = pick(S) /\ pick(S) \in s
    OBVIOUS
  <2>5. \A e \in s, f \in V : op[<<e, f>>] = UnionClasses(f, e)
    OBVIOUS
  <2> HIDE DEF base, op, choose, V, pick, Value, it
  <2>6. PICK g : IsFoldTable(s, V, base, op, choose, g)
    <3>1. FoldInput(s, V, base, op, choose)
      BY <1>1, <2>1, <2>2, <2>3 DEF FoldInput
    <3> QED
      BY <3>1, FoldTable
  <2>7. ASSUME NEW S \in SUBSET s PROVE g[S] = Value(g, S)
    <3>1. CASE S # {}
      <4>1. choose[S] = pick(S) /\ pick(S) \in s /\ g[S \ {pick(S)}] \in V
        BY <2>4, <2>6, <3>1 DEF IsFoldTable
      <4> QED
        BY <2>5, <2>6, <3>1, <4>1 DEF Value, IsFoldTable
    <3> QED
      BY <2>6, <3>1 DEF Value, IsFoldTable
  <2>8. g = [S \in SUBSET s |-> Value(g, S)]
    BY <2>6, <2>7 DEF IsFoldTable
  <2> QED
    BY <2>8 DEF it
<1> HIDE DEF it
<1> DEFINE T == {k \in Nat : \A S \in SUBSET s : Cardinality(S) = k => Separates(N, S, it[S])}
<1>4. 0 \in T
  <2> SUFFICES ASSUME NEW S \in SUBSET s, Cardinality(S) = 0 PROVE Separates(N, S, it[S])
    OBVIOUS
  <2>1. S = {}
    BY <1>1, FS_EmptySet
  <2>2. it[S] = base
    BY <1>3, <2>1
  <2>3. \A n, m \in N : JoinedBy(N, {}, n, m) => n = m
    <3> SUFFICES ASSUME NEW n \in N, NEW m \in N, JoinedBy(N, {}, n, m) PROVE n = m
      OBVIOUS
    <3>1. {n} \in SUBSET N /\ Respects({n}, {})
      BY DEF Respects
    <3> QED
      BY <3>1 DEF JoinedBy
  <2> QED
    BY <2>1, <2>2, <2>3 DEF Separates, JoinedBy
<1>5. ASSUME NEW k \in Nat, k \in T PROVE k + 1 \in T
  <2> SUFFICES ASSUME NEW S \in SUBSET s, Cardinality(S) = k + 1 PROVE Separates(N, S, it[S])
    OBVIOUS
  <2>1. S # {}
    <3> HIDE DEF T
    <3>1. Cardinality({}) = 0 /\ k + 1 # 0
      BY FS_EmptySet
    <3> QED
      BY <3>1
  <2> DEFINE e == pick(S)
  <2>2. e \in S
    BY <2>1
  <2>3. it[S] = UnionClasses(it[S \ {e}], e)
    BY <1>3, <2>1
  <2> HIDE DEF e, T
  <2>4. Cardinality(S \ {e}) = k
    <3>1. IsFiniteSet(S)
      BY <1>1
    <3>2. Cardinality(S \ {e}) = Cardinality(S) - 1
      BY <2>2, <3>1, FS_RemoveElement
    <3> QED
      BY <3>2
  <2>5. Separates(N, S \ {e}, it[S \ {e}])
    BY <1>5, <2>4 DEF T
  <2> QED
    BY <2>2, <2>3, <2>5, UnionSeparates
<1>6. Cardinality(s) \in T
  <2> HIDE DEF T
  <2> QED
    BY <1>1, <1>4, <1>5, UpFromZero
<1>7. Separates(N, s, it[s])
  BY <1>6
<1> QED
  BY <1>2, <1>7

(* The connected components.                                               *)
Part(N, s, n) == {m \in N : JoinedBy(N, s, n, m)}
Parts(N, s) == {Part(N, s, n) : n \in N}

LEMMA PartsCounted ==
  ASSUME NEW N, IsFiniteSet(N), NEW s, NEW find, Separates(N, s, find)
  PROVE  /\ Cardinality({find[n] : n \in N}) = Cardinality(Parts(N, s))
         /\ \A n, m \in N : JoinedBy(N, s, n, m) <=> Part(N, s, n) = Part(N, s, m)
<1> DEFINE R == {find[n] : n \in N}
           class == [r \in R |-> {m \in N : find[m] = r}]
<1>1. ASSUME NEW n \in N
      PROVE  find[n] \in R /\ class[find[n]] = Part(N, s, n) /\ n \in Part(N, s, n)
  <2>1. find[n] \in R /\ class[find[n]] = {m \in N : find[m] = find[n]}
    OBVIOUS
  <2>2. \A m \in N : find[n] = find[m] <=> JoinedBy(N, s, n, m)
    BY DEF Separates
  <2> HIDE DEF R, class
  <2>3. {m \in N : find[m] = find[n]} = Part(N, s, n)
    BY <2>2 DEF Part
  <2> QED
    BY <2>1, <2>3
<1>2. \A r \in R : \E n \in N : r = find[n]
  OBVIOUS
<1>3. class \in [R -> Parts(N, s)]
  <2>1. ASSUME NEW r \in R PROVE class[r] \in Parts(N, s)
    <3>1. PICK n \in N : r = find[n]
      BY <1>2
    <3>2. class[r] = Part(N, s, n)
      BY <1>1, <3>1
    <3> HIDE DEF R, class
    <3> QED
      BY <3>2 DEF Parts
  <2> QED
    BY <2>1
<1>4. ASSUME NEW r \in R, NEW q \in R, class[r] = class[q] PROVE r = q
  <2>1. PICK n \in N : r = find[n]
    BY <1>2
  <2> QED
    BY <1>4, <2>1
<1>5. IsFiniteSet(R)
  BY ImageFinite
<1>6. \A P \in Parts(N, s) : \E r \in R : class[r] = P
  BY <1>1 DEF Parts
<1> HIDE DEF R, class
<1>7. class \in Bijection(R, Parts(N, s))
  BY <1>3, <1>4, <1>6, Fun_IsBij
<1>8. Cardinality(R) = Cardinality(Parts(N, s))
  BY <1>5, <1>7, FS_Bijection DEF ExistsBijection
<1>9. \A n, m \in N : JoinedBy(N, s, n, m) <=> Part(N, s, n) = Part(N, s, m)
  BY DEF Separates, Part
<1> QED
  BY <1>8, <1>9 DEF R

EdgePairs(N, E) == {p \in N \X N : p[2] \in E[p[1]]}

LEMMA ComponentsCounted ==
  ASSUME NEW t, IsFiniteSet(Nodes(t))
  PROVE  /\ ComponentCount(t) = Cardinality(Parts(Nodes(t), EdgePairs(Nodes(t), Edges(t))))
         /\ \A n, m \in Nodes(t) :
              JoinedBy(Nodes(t), EdgePairs(Nodes(t), Edges(t)), n, m)
                <=> Part(Nodes(t), EdgePairs(Nodes(t), Edges(t)), n)
                      = Part(Nodes(t), EdgePairs(Nodes(t), Edges(t)), m)
<1> DEFINE N == Nodes(t)
           E == Edges(t)
           pairs == UNION {{n} \X E[n] : n \in N}
           find == FoldSet(LAMBDA edge, f : UnionClasses(f, edge), [n \in N |-> n], pairs)
<1>1. ComponentCount(t) = Cardinality({find[n] : n \in N})
  BY DEF ComponentCount
<1>2. E \in [N -> SUBSET N]
  BY DEF Edges
<1>3. pairs = EdgePairs(N, E)
  BY <1>2 DEF EdgePairs
<1>4. pairs \subseteq N \X N
  BY <1>3 DEF EdgePairs
<1> HIDE DEF N, E, pairs
<1>5. Separates(N, pairs, find)
  <2>1. IsFiniteSet(N)
    BY DEF N
  <2> QED
    BY <1>4, <2>1, FoldSeparates
<1> HIDE DEF find
<1>6. IsFiniteSet(N)
  BY DEF N
<1>7. Cardinality({find[n] : n \in N}) = Cardinality(Parts(N, pairs))
  BY <1>5, <1>6, PartsCounted
<1>8. \A n, m \in N : JoinedBy(N, pairs, n, m) <=> Part(N, pairs, n) = Part(N, pairs, m)
  BY <1>5, <1>6, PartsCounted
<1> QED
  BY <1>1, <1>3, <1>7, <1>8 DEF N, E
-----------------------------------------------------------------------------
(* The sum over the nodes is the number of all entries.                    *)
LEMMA EntriesAddUp ==
  ASSUME NEW t, IsFiniteSet(Nodes(t)), \A n \in Nodes(t) : IsFiniteSet(Entries(t, n))
  PROVE  MapThenSumSet(LAMBDA n : Cardinality(Entries(t, n)), Nodes(t))
           = Cardinality(UNION {Entries(t, n) : n \in Nodes(t)})
<1> DEFINE S == Nodes(t)
           part == [n \in S |-> Entries(t, n)]
           pick(s) == CHOOSE x \in s : TRUE
           Value(g, s) == IF s = {} THEN 0 ELSE Cardinality(Entries(t, pick(s))) + g[s \ {pick(s)}]
           it == CHOOSE g : g = [s \in SUBSET S |-> Value(g, s)]
           Whole(s) == UNION {Entries(t, x) : x \in s}
           total == [s \in SUBSET S |-> Cardinality(Whole(s))]
<1>1. MapThenSumSet(LAMBDA n : Cardinality(Entries(t, n)), S) = it[S]
  BY DEF MapThenSumSet, MapThenFoldSet
<1>2. ASSUME NEW s \in SUBSET S
      PROVE  IsFiniteSet(s) /\ Cardinality(s) \in Nat /\ IsFiniteSet(Whole(s))
  <2>1. IsFiniteSet(s) /\ Cardinality(s) \in Nat
    BY FS_Subset, FS_CardinalityType
  <2>2. IsFiniteSet({Entries(t, x) : x \in s})
    <3>1. {Entries(t, x) : x \in s} = {part[x] : x \in s}
      OBVIOUS
    <3> HIDE DEF part
    <3> QED
      BY <2>1, <3>1, ImageFinite
  <2>3. \A P \in {Entries(t, x) : x \in s} : IsFiniteSet(P)
    OBVIOUS
  <2> QED
    BY <2>1, <2>2, <2>3, FS_UNION
<1>3. ASSUME NEW s \in SUBSET S PROVE total[s] = Value(total, s)
  <2>1. CASE s = {}
    <3>1. Whole(s) = {}
      BY <2>1
    <3> QED
      BY <2>1, <3>1, FS_EmptySet
  <2>2. CASE s # {}
    <3> DEFINE x == pick(s)
               rest == s \ {x}
    <3>1. x \in s
      BY <2>2
    <3>2. Value(total, s) = Cardinality(Entries(t, x)) + total[rest]
      BY <2>2
    <3> HIDE DEF x
    <3>3. Whole(s) = Entries(t, x) \cup Whole(rest)
      BY <3>1
    <3>4. Entries(t, x) \cap Whole(rest) = {}
      BY <3>1 DEF Entries
    <3>5. IsFiniteSet(Entries(t, x)) /\ IsFiniteSet(Whole(rest)) /\ total[rest] = Cardinality(Whole(rest))
      BY <1>2, <3>1
    <3>6. total[s] = Cardinality(Whole(s))
      OBVIOUS
    <3> HIDE DEF rest, Whole, total, Value
    <3>7. Cardinality(Entries(t, x) \cup Whole(rest)) =
            Cardinality(Entries(t, x)) + Cardinality(Whole(rest)) - Cardinality({})
      BY <3>3, <3>4, <3>5, FS_Union
    <3>8. Cardinality(Entries(t, x)) \in Nat /\ Cardinality(Whole(rest)) \in Nat /\ Cardinality({}) = 0
      BY <3>5, FS_CardinalityType, FS_EmptySet
    <3> QED
      BY <3>2, <3>3, <3>5, <3>6, <3>7, <3>8
  <2> QED
    BY <2>1, <2>2
<1>4. it = [s \in SUBSET S |-> Value(it, s)]
  <2>1. total = [s \in SUBSET S |-> Value(total, s)]
    <3>1. total = [s \in SUBSET S |-> total[s]]
      OBVIOUS
    <3> HIDE DEF total, Value
    <3> QED
      BY <1>3, <3>1
  <2> HIDE DEF total, Value
  <2> QED
    BY <2>1
<1> HIDE DEF it
<1> DEFINE T == {k \in Nat : \A s \in SUBSET S : Cardinality(s) = k => it[s] = total[s]}
<1>5. 0 \in T
  <2> SUFFICES ASSUME NEW s \in SUBSET S, Cardinality(s) = 0 PROVE it[s] = total[s]
    OBVIOUS
  <2>1. s = {}
    BY <1>2, FS_EmptySet
  <2>2. it[s] = 0
    BY <1>4, <2>1
  <2>3. total[s] = 0
    <3>1. Value(total, s) = 0
      BY <2>1
    <3> HIDE DEF total, Value
    <3> QED
      BY <1>3, <3>1
  <2> QED
    BY <2>2, <2>3
<1>6. ASSUME NEW k \in Nat, k \in T PROVE k + 1 \in T
  <2> HIDE DEF total
  <2> SUFFICES ASSUME NEW s \in SUBSET S, Cardinality(s) = k + 1 PROVE it[s] = total[s]
    <3>1. k + 1 \in Nat
      OBVIOUS
    <3> QED
      BY <3>1
  <2> DEFINE rest == s \ {pick(s)}
  <2>1. s # {}
    <3> HIDE DEF T
    <3>1. Cardinality({}) = 0 /\ k + 1 # 0
      BY FS_EmptySet
    <3> QED
      BY <3>1
  <2>2. pick(s) \in s
    BY <2>1
  <2>3. Cardinality(rest) = k
    <3>1. IsFiniteSet(s)
      BY <1>2
    <3>2. Cardinality(rest) = Cardinality(s) - 1
      <4> HIDE DEF pick, T
      <4> QED
        BY <2>2, <3>1, FS_RemoveElement
    <3> QED
      BY <3>2
  <2>4. it[rest] = total[rest] /\ rest \in SUBSET S
    <3> HIDE DEF pick, total
    <3> QED
      BY <1>6, <2>3
  <2> HIDE DEF rest, total, T
  <2>5. it[s] = Cardinality(Entries(t, pick(s))) + it[rest]
    BY <1>4, <2>1 DEF rest
  <2>6. total[s] = Cardinality(Entries(t, pick(s))) + total[rest]
    BY <1>3, <2>1 DEF rest
  <2> QED
    BY <2>4, <2>5, <2>6
<1>7. Cardinality(S) \in T
  <2>1. Cardinality(S) \in Nat
    BY FS_CardinalityType
  <2> HIDE DEF T
  <2> QED
    BY <1>5, <1>6, <2>1, UpFromZero
<1>8. it[S] = total[S]
  <2> HIDE DEF total
  <2> QED
    BY <1>7
<1> QED
  BY <1>1, <1>8
=============================================================================
