--------------------------- MODULE Dispatch_proofs --------------------------
(***************************************************************************)
(* Theorems about the dispatch policies: whatever the batch, the policy,   *)
(* the backend and the interleaving of the threads, dispatch() answers     *)
(* every request once and with its own outcome (ImplementsExecution), and  *)
(* what the policies say of concurrency and of order holds.                *)
(*                                                                         *)
(* The planning first: each request of a wave is in one pool, once, and    *)
(* its pool has the size, the hint and the limit the policy gives it.      *)
(* Then DispatchInv, which follows every request from remaining through    *)
(* the plan, the queue and the threads to the results; one lemma per       *)
(* action.  On top of it, OrderInv says what the pools that wait may       *)
(* depend on, and DrawnInv what a request in a serial pool has drawn.      *)
(***************************************************************************)
EXTENDS Dispatch, FunctionTheorems, FiniteSetTheorems, SequenceTheorems,
        WellFoundedInduction, TLAPS

-----------------------------------------------------------------------------
(* Listing a finite set in a strict order.                                 *)

StrictOrder(S, R) ==
  /\ \A x \in S : <<x, x>> \notin R
  /\ \A x, y \in S : x # y => <<x, y>> \in R \/ <<y, x>> \in R
  /\ \A x, y, z \in S : <<x, y>> \in R /\ <<y, z>> \in R => <<x, z>> \in R

(* The number of predecessors tells the members apart and takes every      *)
(* value below the size of the set.                                        *)
LEMMA RankOnto ==
  ASSUME NEW S, NEW R, IsFiniteSet(S), StrictOrder(S, R)
  PROVE  /\ Cardinality(S) \in Nat
         /\ \A x \in S : Cardinality(Before(x, S, R)) \in 0 .. Cardinality(S) - 1
         /\ \A x, y \in S : Cardinality(Before(x, S, R)) = Cardinality(Before(y, S, R)) => x = y
         /\ \A k \in 1 .. Cardinality(S) :
              \E x \in S : Cardinality(Before(x, S, R)) = k - 1
  <1> DEFINE n == Cardinality(S)
             rank(x) == Cardinality(Before(x, S, R))
             f == [x \in S |-> rank(x) + 1]
  <1>1. n \in Nat
    BY FS_CardinalityType
  <1>2. ASSUME NEW x \in S
        PROVE  /\ IsFiniteSet(Before(x, S, R)) /\ rank(x) \in Nat /\ rank(x) < n
               /\ x \notin Before(x, S, R) /\ Before(x, S, R) \subseteq S
    <2>1. x \notin Before(x, S, R) /\ Before(x, S, R) \subseteq S
      BY DEF Before, StrictOrder
    <2> HIDE DEF n
    <2>2. IsFiniteSet(Before(x, S, R)) /\ Cardinality(Before(x, S, R)) <= Cardinality(S)
          /\ (Before(x, S, R) # S => Cardinality(Before(x, S, R)) < Cardinality(S))
      BY <2>1, FS_Subset, FS_CardinalityType
    <2> QED
      BY <2>1, <2>2, FS_CardinalityType DEF n
  <1>3. ASSUME NEW x \in S, NEW y \in S, <<y, x>> \in R PROVE rank(y) < rank(x)
    <2>1. /\ Before(y, S, R) \subseteq Before(x, S, R)
          /\ y \in Before(x, S, R) /\ y \notin Before(y, S, R)
      BY <1>3 DEF Before, StrictOrder
    <2> QED
      BY <1>2, <2>1, FS_Subset, FS_CardinalityType
  <1>4. ASSUME NEW x \in S, NEW y \in S, rank(x) = rank(y) PROVE x = y
    <2>1. rank(x) \in Nat /\ rank(y) \in Nat
      BY <1>2
    <2>2. <<x, y>> \in R => rank(x) < rank(y)
      BY <1>3
    <2>3. <<y, x>> \in R => rank(y) < rank(x)
      BY <1>3
    <2> HIDE DEF rank
    <2> QED
      BY <1>4, <2>1, <2>2, <2>3 DEF StrictOrder
  <1>5. \A k \in 1 .. n : \E x \in S : rank(x) = k - 1
    <2>1. f \in [S -> 1 .. n]
      BY <1>1, <1>2
    <2>2. \A x, y \in S : f[x] = f[y] => x = y
      BY <1>2, <1>4
    <2>3. f \in Injection(S, 1 .. n)
      <3> HIDE DEF f, n
      <3> QED
        BY <2>1, <2>2, Fun_IsInj
    <2>4. IsFiniteSet(1 .. n) /\ Cardinality(1 .. n) = n
      <3> HIDE DEF n
      <3> QED
        BY <1>1, FS_Interval
    <2>5. f \in Surjection(S, 1 .. n)
      <3> HIDE DEF f
      <3> QED
        BY <2>3, <2>4, FS_Injection
    <2>6. \A k \in 1 .. n : \E x \in S : f[x] = k
      <3> HIDE DEF f
      <3> QED
        BY <2>5, Fun_SurjectionProperties
    <2> QED
      BY <1>2, <2>6
  <1> QED
    BY <1>1, <1>2, <1>4, <1>5

(* The listing names each member once.                                     *)
LEMMA ListingExact ==
  ASSUME NEW S, NEW R, IsFiniteSet(S), StrictOrder(S, R)
  PROVE  LET s == Listing(S, R)
         IN  /\ Len(s) = Cardinality(S) /\ s \in Seq(S) /\ DOMAIN s = 1 .. Cardinality(S)
             /\ \A k \in DOMAIN s : s[k] \in S /\ Cardinality(Before(s[k], S, R)) = k - 1
             /\ \A k, l \in DOMAIN s : s[k] = s[l] => k = l
             /\ \A x \in S : \E k \in DOMAIN s : s[k] = x
  <1> DEFINE s == Listing(S, R)
             n == Cardinality(S)
  <1>1. n \in Nat /\ DOMAIN s = 1 .. n
    BY RankOnto DEF Listing
  <1>2. ASSUME NEW k \in 1 .. n
        PROVE  s[k] \in S /\ Cardinality(Before(s[k], S, R)) = k - 1
    <2>1. s[k] = CHOOSE x \in S : Cardinality(Before(x, S, R)) = k - 1
      BY DEF Listing
    <2>2. \E x \in S : Cardinality(Before(x, S, R)) = k - 1
      BY RankOnto
    <2> QED
      BY <2>1, <2>2
  <1>3. ASSUME NEW x \in S PROVE \E k \in 1 .. n : s[k] = x
    <2> DEFINE k == Cardinality(Before(x, S, R)) + 1
    <2>1. k \in 1 .. n
      BY <1>1, RankOnto
    <2>2. s[k] \in S /\ Cardinality(Before(s[k], S, R)) = Cardinality(Before(x, S, R))
      BY <1>2, <2>1, RankOnto
    <2> QED
      BY <2>1, <2>2, RankOnto
  <1>4. s = [k \in 1 .. n |-> s[k]]
    BY DEF Listing
  <1> HIDE DEF s
  <1>5. s \in Seq(S) /\ Len(s) = n
    <2> HIDE DEF n
    <2>1. s \in [1 .. n -> S]
      BY <1>1, <1>2, <1>4
    <2> QED
      BY <1>1, <2>1, SeqDef
  <1>6. ASSUME NEW k \in 1 .. n, NEW l \in 1 .. n, s[k] = s[l] PROVE k = l
    BY <1>2, <1>6
  <1> QED
    BY <1>1, <1>2, <1>3, <1>5, <1>6 DEF s

(* The least of some natural numbers.                                      *)
LEMMA LeastNumber ==
  ASSUME NEW S \in SUBSET Nat, S # {}
  PROVE  Min(S) \in S /\ \A x \in S : Min(S) <= x
  <1> DEFINE Less == OpToRel(<, Nat)
  <1>1. IsWellFoundedOn(Less, Nat)
    BY NatLessThanWellFounded
  <1>2. \A x, y \in Nat : x < y => <<x, y>> \in Less
    BY DEF OpToRel
  <1> HIDE DEF Less
  <1>3. PICK m \in S : \A x \in S : ~ (<<x, m>> \in Less)
    BY <1>1, WFMin
  <1>4. ASSUME NEW x \in S PROVE m <= x
    <2>1. x \in Nat /\ m \in Nat /\ ~ (x < m)
      BY <1>2, <1>3
    <2> QED
      BY <2>1
  <1> QED
    BY <1>3, <1>4 DEF Min

(* The two orders that the policies put requests in.                       *)
LEMMA EarlierIsStrict ==
  ASSUME NEW S \in SUBSET Nat
  PROVE  StrictOrder(S, Earlier(S))
  BY DEF StrictOrder, Earlier

LEMMA ByClassIsStrict ==
  ASSUME NEW S \in SUBSET Nat, NEW class, NEW T \in SUBSET S
  PROVE  StrictOrder(T, ByClass(class, S))
  <1> DEFINE first(i) == First(class, i, S)
  <1>1. \A i \in S : first(i) \in Nat
    <2> SUFFICES ASSUME NEW i \in S PROVE first(i) \in Nat
      OBVIOUS
    <2> DEFINE C == {j \in S : class[j] = class[i]}
    <2>1. C \in SUBSET Nat /\ C # {}
      OBVIOUS
    <2> HIDE DEF C
    <2>2. Min(C) \in C
      BY <2>1, LeastNumber
    <2> QED
      BY <2>1, <2>2 DEF First, C
  <1>2. \A i, j \in S :
          <<i, j>> \in ByClass(class, S)
            <=> first(i) < first(j) \/ (first(i) = first(j) /\ i < j)
    BY DEF ByClass
  <1> HIDE DEF first
  <1> QED
    BY <1>1, <1>2 DEF StrictOrder
-----------------------------------------------------------------------------
(* The pools of one wave: no request is left out or put in two of them.    *)

Parts(w, groups) ==
  /\ Len(groups) \in Nat /\ DOMAIN groups = 1 .. Len(groups)
  /\ \A k \in DOMAIN groups : groups[k] \subseteq w
  /\ \A i \in w : \E k \in DOMAIN groups : i \in groups[k]
  /\ \A k, l \in DOMAIN groups : groups[k] \cap groups[l] # {} => k = l

OneHint(g) == \A i, j \in g : batch[i].hint = batch[j].hint

(* Within one hint the numbers run from zero without gaps.                 *)
LEMMA Numbering ==
  ASSUME NEW w \in SUBSET Nat, IsFiniteSet(w), NEW i \in w
  PROVE  /\ Number(i, w) \in Nat
         /\ \A j \in w : batch[j].hint = batch[i].hint /\ Number(j, w) = Number(i, w) => i = j
         /\ \A r \in 0 .. Number(i, w) :
              \E j \in w : batch[j].hint = batch[i].hint /\ Number(j, w) = r
  <1> DEFINE C == {j \in w : batch[j].hint = batch[i].hint}
             R == Earlier(C)
  <1>1. C \in SUBSET Nat /\ IsFiniteSet(C) /\ i \in C
    BY FS_Subset
  <1>2. ASSUME NEW j \in C PROVE Number(j, w) = Cardinality(Before(j, C, R))
    <2>1. {h \in w : h < j /\ batch[h].hint = batch[j].hint} = Before(j, C, R)
      BY DEF Before, Earlier
    <2> QED
      BY <2>1 DEF Number
  <1>3. \A j \in w : batch[j].hint = batch[i].hint <=> j \in C
    OBVIOUS
  <1> HIDE DEF C, R
  <1>4. StrictOrder(C, R)
    BY <1>1, EarlierIsStrict DEF R
  <1>5. /\ Cardinality(C) \in Nat
        /\ \A x \in C : Cardinality(Before(x, C, R)) \in 0 .. Cardinality(C) - 1
        /\ \A x, y \in C : Cardinality(Before(x, C, R)) = Cardinality(Before(y, C, R)) => x = y
        /\ \A k \in 1 .. Cardinality(C) : \E x \in C : Cardinality(Before(x, C, R)) = k - 1
    BY <1>1, <1>4, RankOnto
  <1>6. ASSUME NEW r \in 0 .. Number(i, w)
        PROVE  \E j \in w : batch[j].hint = batch[i].hint /\ Number(j, w) = r
    <2>1. r + 1 \in 1 .. Cardinality(C) /\ r + 1 - 1 = r
      BY <1>1, <1>2, <1>5
    <2>2. PICK j \in C : Cardinality(Before(j, C, R)) = r
      BY <1>5, <2>1
    <2> QED
      BY <1>2, <2>2 DEF C
  <1> QED
    BY <1>1, <1>2, <1>3, <1>5, <1>6

LEMMA RoundedDown ==
  ASSUME NEW n \in Nat, NEW size \in Nat \ {0}
  PROVE  /\ (n \div size) * size \in 0 .. n
         /\ ((n \div size) * size) % size = 0
         /\ ((n \div size) * size) \div size = n \div size
  <1> DEFINE q == n \div size
  <1>1. q \in Nat /\ q * size <= n /\ q * size \in Nat
    OBVIOUS
  <1> HIDE DEF q
  <1>2. (q * size) % size = 0
    BY <1>1
  <1>3. (q * size) \div size = q
    BY <1>1
  <1> QED
    BY <1>1, <1>2, <1>3 DEF q

LEMMA GroupParts ==
  ASSUME NEW w \in SUBSET Nat, IsFiniteSet(w), NEW size \in Nat \ {0}
  PROVE  /\ Parts(w, Group(w, size))
         /\ \A k \in DOMAIN Group(w, size) : OneHint(Group(w, size)[k]) /\ Group(w, size)[k] # {}
         /\ size = 1 => \A k \in DOMAIN Group(w, size) : \A i, j \in Group(w, size)[k] : i = j
  <1> DEFINE L == Leaders(w, size)
             s == Listing(L, ByClass(Hints, w))
             G == Group(w, size)
  <1>1. L \in SUBSET w /\ IsFiniteSet(L) /\ L \in SUBSET Nat
    BY FS_Subset DEF Leaders
  <1>2. /\ Len(s) = Cardinality(L) /\ DOMAIN s = 1 .. Cardinality(L) /\ Cardinality(L) \in Nat
        /\ \A k \in DOMAIN s : s[k] \in L
        /\ \A k, l \in DOMAIN s : s[k] = s[l] => k = l
        /\ \A x \in L : \E k \in DOMAIN s : s[k] = x
    BY <1>1, ByClassIsStrict, ListingExact, FS_CardinalityType
  <1>3. G = [k \in DOMAIN s |-> Slice(s[k], w, size)]
    BY DEF Group
  <1> HIDE DEF s, G
  <1>4. /\ DOMAIN G = DOMAIN s /\ Len(G) = Cardinality(L)
        /\ \A k \in DOMAIN s : G[k] = Slice(s[k], w, size)
    <2>1. G \in Seq(SUBSET w)
      <3>1. G \in [1 .. Cardinality(L) -> SUBSET w]
        BY <1>2, <1>3 DEF Slice
      <3> QED
        BY <1>2, <3>1, SeqDef
    <2> QED
      BY <1>2, <1>3, <2>1, LenProperties
  <1>5. ASSUME NEW i \in w PROVE \E k \in DOMAIN G : i \in G[k]
    <2> DEFINE r == (Number(i, w) \div size) * size
    <2>1. /\ Number(i, w) \in Nat /\ r \in 0 .. Number(i, w)
          /\ r % size = 0 /\ r \div size = Number(i, w) \div size
      BY Numbering, RoundedDown
    <2> HIDE DEF r
    <2>2. PICK j \in w : batch[j].hint = batch[i].hint /\ Number(j, w) = r
      BY <2>1, Numbering
    <2>3. j \in L /\ i \in Slice(j, w, size)
      BY <2>1, <2>2 DEF Leaders, Slice
    <2> QED
      BY <1>2, <1>4, <2>3
  <1>6. ASSUME NEW k \in DOMAIN G, NEW l \in DOMAIN G, G[k] \cap G[l] # {} PROVE k = l
    <2>1. /\ s[k] \in L /\ s[l] \in L /\ s[k] \in w /\ s[l] \in w
          /\ batch[s[k]].hint = batch[s[l]].hint
          /\ Number(s[k], w) \div size = Number(s[l], w) \div size
          /\ Number(s[k], w) % size = 0 /\ Number(s[l], w) % size = 0
      BY <1>1, <1>2, <1>4, <1>6 DEF Slice, Leaders
    <2>2. Number(s[k], w) \in Nat /\ Number(s[l], w) \in Nat
      BY <2>1, Numbering
    <2>3. Number(s[k], w) = Number(s[l], w)
      BY <2>1, <2>2
    <2>4. s[k] = s[l]
      BY <2>1, <2>3, Numbering
    <2> QED
      BY <1>2, <1>4, <2>4
  <1>7. ASSUME NEW k \in DOMAIN G
        PROVE  /\ OneHint(G[k]) /\ G[k] # {} /\ G[k] \subseteq w
               /\ size = 1 => \A i, j \in G[k] : i = j
    <2>1. G[k] = Slice(s[k], w, size) /\ s[k] \in w
      BY <1>1, <1>2, <1>4
    <2>2. s[k] \in G[k]
      BY <2>1 DEF Slice
    <2>3. ASSUME size = 1, NEW i \in G[k], NEW j \in G[k] PROVE i = j
      <3>1. /\ i \in w /\ j \in w /\ batch[i].hint = batch[j].hint
            /\ Number(i, w) \div 1 = Number(j, w) \div 1
        BY <2>1, <2>3 DEF Slice
      <3>2. Number(i, w) \in Nat /\ Number(j, w) \in Nat
        BY <3>1, Numbering
      <3>3. Number(i, w) = Number(j, w)
        BY <3>1, <3>2
      <3>4. \A q \in w : batch[q].hint = batch[i].hint /\ Number(q, w) = Number(i, w) => i = q
        BY <3>1, Numbering
      <3> QED
        BY <3>1, <3>3, <3>4
    <2> QED
      BY <2>1, <2>2, <2>3 DEF OneHint, Slice
  <1> QED
    BY <1>2, <1>4, <1>5, <1>6, <1>7 DEF Parts, G

LEMMA OneByOneParts ==
  ASSUME NEW w \in SUBSET Nat, IsFiniteSet(w)
  PROVE  /\ Parts(w, OneByOne(w))
         /\ \A k \in DOMAIN OneByOne(w) :
              OneByOne(w)[k] # {} /\ \A i, j \in OneByOne(w)[k] : i = j
  <1> DEFINE s == InOrder(w)
             G == OneByOne(w)
  <1>1. /\ Len(s) = Cardinality(w) /\ DOMAIN s = 1 .. Cardinality(w) /\ Cardinality(w) \in Nat
        /\ \A k \in DOMAIN s : s[k] \in w
        /\ \A k, l \in DOMAIN s : s[k] = s[l] => k = l
        /\ \A x \in w : \E k \in DOMAIN s : s[k] = x
    BY EarlierIsStrict, ListingExact, FS_CardinalityType DEF InOrder
  <1>2. G = [k \in DOMAIN s |-> {s[k]}]
    BY DEF OneByOne
  <1> HIDE DEF s, G
  <1>3. G \in [1 .. Cardinality(w) -> SUBSET w]
    BY <1>1, <1>2
  <1>4. Len(G) = Cardinality(w) /\ DOMAIN G = 1 .. Cardinality(w)
    <2>1. G \in Seq(SUBSET w)
      BY <1>1, <1>3, SeqDef
    <2> QED
      BY <1>1, <1>2, <2>1, LenProperties
  <1>5. \A k, l \in DOMAIN G : G[k] \cap G[l] # {} => k = l
    BY <1>1, <1>2
  <1>6. \A i \in w : \E k \in DOMAIN G : i \in G[k]
    BY <1>1, <1>2
  <1> QED
    BY <1>1, <1>2, <1>4, <1>5, <1>6 DEF Parts, G

(* Split: of one hint under the grouping policies, single where requests   *)
(* must not overlap.                                                       *)
LEMMA SplitParts ==
  ASSUME policy \in AllPolicies, NEW w \in SUBSET Nat, IsFiniteSet(w)
  PROVE  /\ Parts(w, Split(w))
         /\ \A k \in DOMAIN Split(w) :
              /\ policy \in Grouping => OneHint(Split(w)[k]) /\ Split(w)[k] # {}
              /\ Serial => \A i, j \in Split(w)[k] : i = j
  <1>1. CASE policy \in {"naive_concurrent", "causal_only"}
    <2>1. Split(w) = <<w>> /\ policy \notin Grouping /\ ~ Serial
      BY <1>1 DEF Split, Grouping, Serial, WavePolicies
    <2>2. Len(<<w>>) = 1 /\ DOMAIN <<w>> = {1} /\ <<w>>[1] = w /\ 1 .. 1 = {1}
      OBVIOUS
    <2> QED
      BY <2>1, <2>2 DEF Parts
  <1>2. CASE policy = "sequential"
    <2>1. Split(w) = OneByOne(w) /\ policy \notin Grouping
      BY <1>2 DEF Split, Grouping
    <2> QED
      BY <2>1, OneByOneParts
  <1>3. CASE policy \in Grouping
    <2> DEFINE size == IF Serial THEN 1 ELSE MaxBatchSize
    <2>1. /\ Split(w) = Group(w, size) /\ size \in Nat \ {0}
          /\ Serial => size = 1
      BY <1>3, DispatchAssumption DEF Split, Grouping
    <2> HIDE DEF size
    <2> QED
      BY <2>1, GroupParts
  <1> QED
    BY <1>1, <1>2, <1>3 DEF AllPolicies, WavePolicies, Grouping

(* A pool as the policies promise it.                                      *)
PoolOK(p) ==
  /\ p \in [members : Seq(DOMAIN batch), workers : Nat]
  /\ \A m, n \in DOMAIN p.members : p.members[m] = p.members[n] => m = n
  /\ \A m \in DOMAIN p.members : p.workers <= MostInFlight(p.members[m])
  /\ policy \in Grouping => OneHint(ToSet(p.members))
  /\ Serial => \A i, j \in ToSet(p.members) : i = j

LEMMA PoolIsOK ==
  ASSUME policy \in AllPolicies, batch \in Batches, NEW g \in SUBSET DOMAIN batch,
         policy \in Grouping => OneHint(g) /\ g # {},
         Serial => \A i, j \in g : i = j
  PROVE  PoolOK(Pool(g)) /\ ToSet(Pool(g).members) = g
  <1> DEFINE n == Cardinality(g)
             s == Members(g)
             p == Pool(g)
  <1>1. g \in SUBSET Nat /\ IsFiniteSet(g) /\ n \in Nat
    <2>1. DOMAIN batch = 1 .. Len(batch) /\ Len(batch) \in Nat
      BY DispatchAssumption
    <2>2. g \subseteq 1 .. Len(batch) /\ IsFiniteSet(1 .. Len(batch))
      BY <2>1, FS_Interval
    <2> QED
      BY <2>2, FS_Subset, FS_CardinalityType
  <1>2. /\ s \in Seq(g) /\ DOMAIN s = 1 .. n
        /\ \A k \in DOMAIN s : s[k] \in g
        /\ \A k, l \in DOMAIN s : s[k] = s[l] => k = l
        /\ \A x \in g : \E k \in DOMAIN s : s[k] = x
    <2>1. StrictOrder(g, Earlier(g)) /\ StrictOrder(g, ByClass(Roles, g))
      BY <1>1, EarlierIsStrict, ByClassIsStrict
    <2>2. s = Listing(g, ByClass(Roles, g)) \/ s = Listing(g, Earlier(g))
      BY DEF Members, InOrder
    <2> HIDE DEF s
    <2>3. CASE s = Listing(g, ByClass(Roles, g))
      BY <1>1, <2>1, <2>3, ListingExact
    <2>4. CASE s = Listing(g, Earlier(g))
      BY <1>1, <2>1, <2>4, ListingExact
    <2> QED
      BY <2>2, <2>3, <2>4
  <1>3. ToSet(s) = g
    BY <1>2 DEF ToSet
  <1>4. p.members = s /\ p.workers = Smaller(InFlightLimit(g), n)
        /\ p = [members |-> s, workers |-> Smaller(InFlightLimit(g), n)]
    BY DEF Pool
  <1>5. InFlightLimit(g) \in Nat
    <2>1. CASE policy \in {"queue_aware", "full"}
      <3>1. Min(g) \in g
        BY <1>1, <2>1, LeastNumber DEF Grouping
      <3>2. batch[Min(g)].hint \in DOMAIN MaxInFlight
        BY <3>1, DispatchAssumption
      <3>3. MaxInFlight[batch[Min(g)].hint] \in Int
        BY <3>2, DispatchAssumption
      <3> QED
        BY <2>1, <3>3 DEF InFlightLimit, Larger
    <2>2. CASE policy \notin {"queue_aware", "full"}
      BY <2>2, DispatchAssumption DEF InFlightLimit
    <2> QED
      BY <2>1, <2>2
  <1>6. p.workers \in Nat /\ p.workers <= InFlightLimit(g) /\ p.workers <= n
    BY <1>1, <1>4, <1>5 DEF Smaller
  <1>7. ASSUME NEW i \in g PROVE p.workers <= MostInFlight(i)
    <2>1. CASE Serial
      <3>1. g = {i}
        BY <1>7, <2>1
      <3>2. n = 1
        BY <3>1, FS_Singleton
      <3> QED
        BY <1>6, <2>1, <3>2 DEF MostInFlight
    <2>2. CASE ~ Serial /\ policy \in {"queue_aware", "full"}
      <3>1. Min(g) \in g
        BY <1>1, <1>7, LeastNumber
      <3>2. batch[Min(g)].hint = batch[i].hint
        BY <2>2, <3>1 DEF OneHint, Grouping
      <3> QED
        BY <1>6, <2>2, <3>2 DEF MostInFlight, InFlightLimit
    <2>3. CASE ~ Serial /\ policy \notin {"queue_aware", "full"}
      BY <1>6, <2>3 DEF MostInFlight, InFlightLimit
    <2> QED
      BY <2>1, <2>2, <2>3
  <1>8. p \in [members : Seq(DOMAIN batch), workers : Nat]
    <2>1. s \in Seq(DOMAIN batch)
      BY <1>2, SeqMonotonic
    <2> QED
      BY <1>4, <1>6, <2>1
  <1> HIDE DEF s, p, n
  <1>9. PoolOK(p)
    BY <1>2, <1>3, <1>4, <1>7, <1>8 DEF PoolOK
  <1> QED
    BY <1>3, <1>4, <1>9 DEF p

-----------------------------------------------------------------------------
(* The way of a request: remaining, a planned pool, the queue of the open  *)
(* pool, a thread, the finished futures, the results.                      *)

Pools == [members : Seq(DOMAIN batch), workers : Nat]

Answers == [request : DOMAIN batch, outcome : [of : DOMAIN batch, kind : Kinds]]

Requests(s) == {s[k].request : k \in DOMAIN s}

Distinct(s) == \A k, l \in DOMAIN s : s[k] = s[l] => k = l

DistinctRequests(s) == \A k, l \in DOMAIN s : s[k].request = s[l].request => k = l

Slot(k) == ToSet(plan[k].members)

Planned == UNION {Slot(k) : k \in DOMAIN plan}

Opened == IF pool = NoPool THEN {} ELSE ToSet(pool.members)

(* DispatchTypeOK with the types of the pools and the answers, but without *)
(* the bound on calls, which CountInv gives.                               *)
TypeInv ==
  /\ policy \in Policies /\ concurrent \in BOOLEAN /\ batch \in Batches
  /\ phase \in {"planning", "dispatching", "returned"}
  /\ remaining \subseteq DOMAIN batch
  /\ plan \in Seq(Pools)
  /\ pool \in Pools \cup {NoPool}
  /\ queue \in Seq(DOMAIN batch) /\ watching \in BOOLEAN
  /\ at \in [DOMAIN batch -> {"waiting", "reading", "counting", "working", "stored", "done"}]
  /\ calls \in Nat
  /\ mode \in [DOMAIN batch -> Modes \cup {NoMode}]
  /\ outcomes \in [DOMAIN batch -> {NoOutcome} \cup [of : DOMAIN batch, kind : Kinds]]
  /\ finished \in Seq(Answers)
  /\ results \in Seq(Answers)

(* Every pool is as the policy promises, and no request is in two.         *)
PoolsInv ==
  /\ \A p \in ToSet(plan) : PoolOK(p)
  /\ \A k, l \in DOMAIN plan : Slot(k) \cap Slot(l) # {} => k = l
  /\ pool # NoPool => PoolOK(pool)
  /\ remaining \cap Planned = {}
  /\ Opened \cap (remaining \cup Planned) = {}

(* A request is where its state says, and in one place only.               *)
PlaceInv ==
  /\ \A i \in DOMAIN batch : at[i] = "waiting" <=> i \in remaining \cup Planned \cup ToSet(queue)
  /\ \A i \in DOMAIN batch : at[i] = "done" <=> i \in Requests(finished) \cup Collected
  /\ Executing \subseteq Opened
  /\ ToSet(queue) \subseteq Opened
  /\ Requests(finished) \subseteq Opened
  /\ Requests(finished) \cap Collected = {}
  /\ Distinct(queue) /\ DistinctRequests(finished) /\ DistinctRequests(results)

PhaseInv ==
  /\ phase = "planning" /\ policy \notin WavePolicies => remaining = DOMAIN batch /\ plan = <<>>
  /\ phase # "planning" => remaining = {}
  /\ phase = "returned" => pool = NoPool /\ plan = <<>>

AnswerInv ==
  /\ \A i \in DOMAIN batch : at[i] \in {"stored", "done"} =>
       outcomes[i].of = i /\ outcomes[i] \in [of : DOMAIN batch, kind : Kinds]
  /\ \A k \in DOMAIN finished : finished[k].outcome = outcomes[finished[k].request]
  /\ \A k \in DOMAIN results : results[k].outcome = outcomes[results[k].request]

Draws(i) == batch[i].planned = NoMode /\ Cycle # <<>>

Counted == {i \in DOMAIN batch : Draws(i) /\ at[i] \in {"working", "stored", "done"}}

(* The shared counter counts the requests that have drawn a mode.          *)
CountInv ==
  /\ calls = Cardinality(Counted)
  /\ \A i \in DOMAIN batch : at[i] \in {"reading", "counting"} => Draws(i)

WorkersInv == pool # NoPool => Cardinality(Executing) <= pool.workers

DispatchInv ==
  /\ TypeInv /\ PoolsInv /\ PlaceInv /\ PhaseInv /\ AnswerInv /\ CountInv /\ WorkersInv

(* The pools wait in the order of the waves: what a request reads of its   *)
(* batch is collected, or will be before its own pool is opened.           *)
InEarlierSlots(k) == UNION {Slot(l) : l \in 1 .. k - 1}

MayFollow(i, S) == batch[i].parents \subseteq S \/ Entangled(i)

OrderInv ==
  policy \in WavePolicies =>
    /\ \A k \in DOMAIN plan : \A i \in Slot(k) :
         MayFollow(i, Collected \cup Opened \cup InEarlierSlots(k))
    /\ \A i \in Opened \cup Collected : MayFollow(i, Collected)

(* In serial execution a request draws what the number of results says.    *)
UnplannedSoFar == Cardinality({l \in DOMAIN results : Unplanned(l)})

DrawnInv ==
  Serial =>
    \A i \in DOMAIN batch \ Collected :
      Draws(i) /\ at[i] \in {"counting", "working", "stored", "done"} =>
        mode[i] = Cycle[(UnplannedSoFar % Len(Cycle)) + 1]

-----------------------------------------------------------------------------
LEMMA WavePools ==
  ASSUME policy \in AllPolicies, batch \in Batches, NEW w \in SUBSET DOMAIN batch
  PROVE  /\ DispatchWave(w) \in Seq(Pools)
         /\ \A k \in DOMAIN DispatchWave(w) : PoolOK(DispatchWave(w)[k])
         /\ \A k, l \in DOMAIN DispatchWave(w) :
              ToSet(DispatchWave(w)[k].members) \cap ToSet(DispatchWave(w)[l].members) # {} => k = l
         /\ \A k \in DOMAIN DispatchWave(w) : ToSet(DispatchWave(w)[k].members) \subseteq w
         /\ \A i \in w : \E k \in DOMAIN DispatchWave(w) :
              i \in ToSet(DispatchWave(w)[k].members)
  <1> DEFINE P == DispatchWave(w)
             G == Split(w)
  <1>1. w \in SUBSET Nat /\ IsFiniteSet(w)
    <2>1. DOMAIN batch = 1 .. Len(batch) /\ Len(batch) \in Nat
      BY DispatchAssumption
    <2>2. w \subseteq 1 .. Len(batch) /\ IsFiniteSet(1 .. Len(batch))
      BY <2>1, FS_Interval
    <2> QED
      BY <2>2, FS_Subset
  <1>2. /\ Parts(w, G)
        /\ \A k \in DOMAIN G :
              /\ policy \in Grouping => OneHint(G[k]) /\ G[k] # {}
              /\ Serial => \A i, j \in G[k] : i = j
    BY <1>1, SplitParts
  <1>3. P = [k \in DOMAIN G |-> Pool(G[k])]
    BY DEF DispatchWave
  <1> HIDE DEF P, G
  <1>4. DOMAIN P = DOMAIN G /\ Len(G) \in Nat /\ DOMAIN G = 1 .. Len(G)
    BY <1>2, <1>3 DEF Parts
  <1>5. ASSUME NEW k \in DOMAIN G
        PROVE  PoolOK(P[k]) /\ P[k] \in Pools /\ ToSet(P[k].members) = G[k]
    <2>1. /\ G[k] \in SUBSET DOMAIN batch
          /\ policy \in Grouping => OneHint(G[k]) /\ G[k] # {}
          /\ Serial => \A i, j \in G[k] : i = j
      BY <1>2 DEF Parts
    <2>2. P[k] = Pool(G[k])
      BY <1>3
    <2>3. PoolOK(Pool(G[k])) /\ ToSet(Pool(G[k]).members) = G[k]
      BY <2>1, PoolIsOK
    <2> QED
      BY <2>2, <2>3 DEF PoolOK, Pools
  <1>6. P \in Seq(Pools)
    <2>1. P \in [1 .. Len(G) -> Pools]
      BY <1>3, <1>4, <1>5
    <2> QED
      BY <1>4, <2>1, SeqDef
  <1> QED
    BY <1>2, <1>4, <1>5, <1>6 DEF Parts, P

(* What Head, Tail, Append and \o do to the members of a sequence.         *)
LEMMA HeadAndTail ==
  ASSUME NEW S, NEW s \in Seq(S), s # <<>>
  PROVE  /\ Head(s) \in S /\ Tail(s) \in Seq(S) /\ Head(s) = s[1]
         /\ DOMAIN s = 1 .. Len(s) /\ Len(s) \in Nat \ {0}
         /\ DOMAIN Tail(s) = 1 .. Len(s) - 1
         /\ \A k \in 1 .. Len(s) - 1 : Tail(s)[k] = s[k + 1]
         /\ ToSet(s) = {Head(s)} \cup ToSet(Tail(s))
         /\ Requests(s) = {Head(s).request} \cup Requests(Tail(s))
  <1> DEFINE t == Tail(s)
             h == Head(s)
  <1>1. /\ h \in S /\ t \in Seq(S) /\ h = s[1] /\ Len(t) = Len(s) - 1
        /\ Len(s) \in Nat \ {0} /\ DOMAIN s = 1 .. Len(s)
        /\ \A k \in 1 .. Len(t) : t[k] = s[k + 1]
    BY HeadTailProperties, LenProperties, EmptySeq
  <1> HIDE DEF t, h
  <1>2. DOMAIN t = 1 .. Len(s) - 1
    BY <1>1, LenProperties
  <1>3. ASSUME NEW k \in DOMAIN s PROVE s[k] = h \/ \E l \in DOMAIN t : s[k] = t[l]
    <2>1. CASE k = 1
      BY <1>1, <2>1
    <2>2. CASE k # 1
      <3>1. k - 1 \in DOMAIN t /\ t[k - 1] = s[(k - 1) + 1] /\ (k - 1) + 1 = k
        BY <1>1, <1>2, <2>2
      <3> QED
        BY <3>1
    <2> QED
      BY <2>1, <2>2
  <1>4. 1 \in DOMAIN s /\ \A l \in DOMAIN t : l + 1 \in DOMAIN s /\ t[l] = s[l + 1]
    BY <1>1, <1>2
  <1>5. ToSet(s) = {h} \cup ToSet(t)
    <2>1. ToSet(s) \subseteq {h} \cup ToSet(t)
      BY <1>3 DEF ToSet
    <2>2. {h} \subseteq ToSet(s)
      BY <1>1, <1>4 DEF ToSet
    <2>3. ToSet(t) \subseteq ToSet(s)
      BY <1>4 DEF ToSet
    <2> QED
      BY <2>1, <2>2, <2>3
  <1>6. Requests(s) = {h.request} \cup Requests(t)
    BY <1>1, <1>3, <1>4 DEF Requests
  <1> QED
    BY <1>1, <1>2, <1>5, <1>6 DEF t, h

LEMMA TailDistinct ==
  ASSUME NEW S, NEW s \in Seq(S), s # <<>>
  PROVE  /\ Distinct(s) => Distinct(Tail(s)) /\ Head(s) \notin ToSet(Tail(s))
         /\ DistinctRequests(s) =>
              DistinctRequests(Tail(s)) /\ Head(s).request \notin Requests(Tail(s))
  <1> DEFINE t == Tail(s)
             h == Head(s)
  <1>1. /\ h = s[1] /\ DOMAIN s = 1 .. Len(s) /\ Len(s) \in Nat \ {0}
        /\ DOMAIN t = 1 .. Len(s) - 1 /\ \A k \in 1 .. Len(s) - 1 : t[k] = s[k + 1]
    BY HeadAndTail
  <1> HIDE DEF t, h
  <1>2. 1 \in DOMAIN s /\ \A l \in DOMAIN t : l + 1 \in DOMAIN s /\ t[l] = s[l + 1] /\ l + 1 # 1 /\ l \in Int
    BY <1>1
  <1>3. ASSUME Distinct(s) PROVE Distinct(t) /\ h \notin ToSet(t)
    <2>1. h \notin ToSet(t)
      BY <1>1, <1>2, <1>3 DEF Distinct, ToSet
    <2>2. \A k, l \in DOMAIN t : t[k] = t[l] => k + 1 = l + 1
      BY <1>2, <1>3 DEF Distinct
    <2> QED
      BY <1>2, <2>1, <2>2 DEF Distinct
  <1>4. ASSUME DistinctRequests(s) PROVE DistinctRequests(t) /\ h.request \notin Requests(t)
    <2>1. h.request \notin Requests(t)
      BY <1>1, <1>2, <1>4 DEF DistinctRequests, Requests
    <2>2. \A k, l \in DOMAIN t : t[k].request = t[l].request => k + 1 = l + 1
      BY <1>2, <1>4 DEF DistinctRequests
    <2> QED
      BY <1>2, <2>1, <2>2 DEF DistinctRequests
  <1> QED
    BY <1>3, <1>4 DEF t, h

LEMMA Appending ==
  ASSUME NEW S, NEW s \in Seq(S), NEW e \in S
  PROVE  /\ Append(s, e) \in Seq(S) /\ Len(s) \in Nat
         /\ DOMAIN s = 1 .. Len(s) /\ DOMAIN Append(s, e) = 1 .. Len(s) + 1
         /\ \A k \in DOMAIN s : Append(s, e)[k] = s[k]
         /\ Append(s, e)[Len(s) + 1] = e
         /\ Requests(Append(s, e)) = Requests(s) \cup {e.request}
         /\ DistinctRequests(s) /\ e.request \notin Requests(s) => DistinctRequests(Append(s, e))
  <1> DEFINE t == Append(s, e)
  <1>1. /\ t \in Seq(S) /\ Len(t) = Len(s) + 1 /\ t[Len(s) + 1] = e
        /\ \A k \in 1 .. Len(s) : t[k] = s[k]
        /\ DOMAIN s = 1 .. Len(s) /\ Len(s) \in Nat
    BY AppendProperties, LenProperties
  <1> HIDE DEF t
  <1>2. DOMAIN t = 1 .. Len(s) + 1
    BY <1>1, LenProperties
  <1>3. DOMAIN t = DOMAIN s \cup {Len(s) + 1} /\ Len(s) + 1 \notin DOMAIN s
    BY <1>1, <1>2
  <1>4. Requests(t) = Requests(s) \cup {e.request}
    BY <1>1, <1>3 DEF Requests
  <1>5. ASSUME DistinctRequests(s), e.request \notin Requests(s) PROVE DistinctRequests(t)
    BY <1>1, <1>3, <1>5 DEF Requests, DistinctRequests
  <1> QED
    BY <1>1, <1>2, <1>4, <1>5 DEF t

LEMMA Shuffled ==
  ASSUME NEW S, NEW s \in Seq(S), NEW t \in SetToSeqs(ToSet(s)), DistinctRequests(s)
  PROVE  t \in Seq(S) /\ ToSet(t) = ToSet(s) /\ DistinctRequests(t) /\ Requests(t) = Requests(s)
  <1> DEFINE T == ToSet(s)
             n == Cardinality(T)
  <1>1. IsFiniteSet(T) /\ n \in Nat /\ T \subseteq S
    <2>1. DOMAIN s = 1 .. Len(s) /\ Len(s) \in Nat /\ s \in [1 .. Len(s) -> S]
      BY LenProperties
    <2> DEFINE f == [k \in 1 .. Len(s) |-> s[k]]
    <2>2. f \in [1 .. Len(s) -> T] /\ \A x \in T : \E k \in 1 .. Len(s) : f[k] = x
      BY <2>1 DEF ToSet
    <2> HIDE DEF f, T
    <2>3. f \in Surjection(1 .. Len(s), T)
      BY <2>2, Fun_IsSurj
    <2>4. IsFiniteSet(1 .. Len(s))
      BY <2>1, FS_Interval
    <2>5. IsFiniteSet(T)
      BY <2>3, <2>4, FS_Surjection
    <2>6. T \subseteq S
      BY <2>1 DEF ToSet, T
    <2> QED
      BY <2>5, <2>6, FS_CardinalityType
  <1>2. t \in [1 .. n -> T] /\ \A k, l \in 1 .. n : k # l => t[k] # t[l]
    BY DEF SetToSeqs
  <1> HIDE DEF T, n
  <1>3. t \in Injection(1 .. n, T)
    BY <1>2, Fun_IsInj
  <1>4. IsFiniteSet(1 .. n) /\ Cardinality(1 .. n) = Cardinality(T)
    BY <1>1, FS_Interval DEF n
  <1>5. t \in Surjection(1 .. n, T)
    BY <1>1, <1>3, <1>4, FS_Injection
  <1>6. DOMAIN t = 1 .. n /\ ToSet(t) = T
    <2>1. \A x \in T : \E k \in 1 .. n : t[k] = x
      BY <1>5 DEF Surjection
    <2>2. DOMAIN t = 1 .. n /\ \A k \in 1 .. n : t[k] \in T
      BY <1>2
    <2>3. ToSet(t) \subseteq T
      BY <2>2 DEF ToSet
    <2>4. T \subseteq ToSet(t)
      BY <2>1, <2>2 DEF ToSet
    <2> QED
      BY <2>2, <2>3, <2>4
  <1>7. t \in Seq(S)
    BY <1>1, <1>2, SeqDef
  <1>8. Requests(t) = Requests(s)
    <2>1. \A q \in {s, t} : Requests(q) = {x.request : x \in ToSet(q)}
      BY DEF Requests, ToSet
    <2>2. Requests(s) = {x.request : x \in T} /\ Requests(t) = {x.request : x \in T}
      BY <1>6, <2>1 DEF T
    <2> QED
      BY <2>2
  <1>9. DistinctRequests(t)
    <2>1. \A x, y \in T : x.request = y.request => x = y
      BY DEF DistinctRequests, T, ToSet
    <2> QED
      BY <1>2, <1>6, <2>1 DEF DistinctRequests
  <1> QED
    BY <1>6, <1>7, <1>8, <1>9 DEF T

LEMMA Joined ==
  ASSUME NEW S, NEW s \in Seq(S), NEW t \in Seq(S)
  PROVE  /\ s \o t \in Seq(S) /\ Len(s) \in Nat /\ Len(t) \in Nat
         /\ DOMAIN s = 1 .. Len(s) /\ DOMAIN t = 1 .. Len(t)
         /\ DOMAIN (s \o t) = 1 .. Len(s) + Len(t)
         /\ \A k \in DOMAIN s : (s \o t)[k] = s[k]
         /\ \A k \in DOMAIN t : (s \o t)[Len(s) + k] = t[k]
         /\ \A k \in DOMAIN (s \o t) : k \in DOMAIN s \/ (k - Len(s)) \in DOMAIN t
  <1> DEFINE u == s \o t
  <1>1. /\ u \in Seq(S) /\ Len(u) = Len(s) + Len(t)
        /\ \A i \in 1 .. Len(s) + Len(t) : u[i] = IF i <= Len(s) THEN s[i] ELSE t[i - Len(s)]
    BY ConcatProperties
  <1>2. /\ Len(s) \in Nat /\ Len(t) \in Nat
        /\ DOMAIN s = 1 .. Len(s) /\ DOMAIN t = 1 .. Len(t)
    BY LenProperties
  <1> HIDE DEF u
  <1>3. DOMAIN u = 1 .. Len(s) + Len(t)
    BY <1>1, LenProperties
  <1>4. \A k \in DOMAIN s : u[k] = s[k]
    BY <1>1, <1>2
  <1>5. ASSUME NEW k \in DOMAIN t PROVE u[Len(s) + k] = t[k]
    <2>1. Len(s) + k \in 1 .. Len(s) + Len(t) /\ ~ (Len(s) + k <= Len(s)) /\ (Len(s) + k) - Len(s) = k
      BY <1>2
    <2> QED
      BY <1>1, <2>1
  <1>6. \A k \in DOMAIN u : k \in DOMAIN s \/ (k - Len(s)) \in DOMAIN t
    BY <1>2, <1>3
  <1> QED
    BY <1>1, <1>2, <1>3, <1>4, <1>5, <1>6 DEF u

LEMMA PoolStays ==
  ASSUME NEW p, PoolOK(p), UNCHANGED <<policy, concurrent, batch>>
  PROVE  PoolOK(p)'
  BY DEF PoolOK, OneHint, MostInFlight, Serial

(* A wave leaves remaining and joins the plan behind the earlier ones.     *)
LEMMA PlanGrows ==
  ASSUME TypeInv, PoolsInv, NEW w \in SUBSET remaining,
         plan' = plan \o DispatchWave(w), remaining' = remaining \ w,
         UNCHANGED <<policy, concurrent, batch, pool>>
  PROVE  /\ PoolsInv' /\ plan' \in Seq(Pools)
         /\ remaining' \cup Planned' = remaining \cup Planned
         /\ Planned' = Planned \cup w
         /\ \A k \in DOMAIN plan : k \in DOMAIN plan' /\ Slot(k)' = Slot(k)
         /\ DOMAIN plan = 1 .. Len(plan) /\ Len(plan) \in Nat
         /\ \A k \in DOMAIN plan' : k \in DOMAIN plan \/ (k \in Int /\ k > Len(plan) /\ Slot(k)' \subseteq w)
  <1> DEFINE P == DispatchWave(w)
  <1>1. /\ plan \in Seq(Pools) /\ policy \in AllPolicies /\ batch \in Batches
        /\ w \in SUBSET DOMAIN batch
    BY DispatchAssumption DEF TypeInv
  <1>2. /\ P \in Seq(Pools)
        /\ \A k \in DOMAIN P : PoolOK(P[k])
        /\ \A k, l \in DOMAIN P : ToSet(P[k].members) \cap ToSet(P[l].members) # {} => k = l
        /\ \A k \in DOMAIN P : ToSet(P[k].members) \subseteq w
        /\ \A i \in w : \E k \in DOMAIN P : i \in ToSet(P[k].members)
    BY <1>1, WavePools
  <1> HIDE DEF P
  <1>3. plan' = plan \o P
    BY DEF P
  <1>4. /\ plan' \in Seq(Pools) /\ Len(plan) \in Nat /\ Len(P) \in Nat
        /\ DOMAIN plan = 1 .. Len(plan) /\ DOMAIN P = 1 .. Len(P)
        /\ DOMAIN (plan') = 1 .. Len(plan) + Len(P)
        /\ \A k \in DOMAIN plan : plan'[k] = plan[k]
        /\ \A k \in DOMAIN P : plan'[Len(plan) + k] = P[k]
        /\ \A k \in DOMAIN (plan') : k \in DOMAIN plan \/ (k - Len(plan)) \in DOMAIN P
    <2> DEFINE q == plan \o P
    <2>1. /\ q \in Seq(Pools) /\ Len(plan) \in Nat /\ Len(P) \in Nat
          /\ DOMAIN plan = 1 .. Len(plan) /\ DOMAIN P = 1 .. Len(P)
          /\ DOMAIN q = 1 .. Len(plan) + Len(P)
          /\ \A k \in DOMAIN plan : q[k] = plan[k]
          /\ \A k \in DOMAIN P : q[Len(plan) + k] = P[k]
          /\ \A k \in DOMAIN q : k \in DOMAIN plan \/ (k - Len(plan)) \in DOMAIN P
      BY <1>1, <1>2, Joined
    <2>2. plan' = q
      BY <1>3
    <2> HIDE DEF q
    <2> QED
      BY <2>1, <2>2
  <1> DEFINE new(k) == ToSet(P[k].members)
  <1>5. \A k \in DOMAIN plan : k \in DOMAIN (plan') /\ Slot(k)' = Slot(k)
    BY <1>4 DEF Slot
  <1>6. \A k \in DOMAIN P : \E m \in DOMAIN (plan') : Slot(m)' = new(k)
    <2> SUFFICES ASSUME NEW k \in DOMAIN P
                 PROVE  \E m \in DOMAIN (plan') : Slot(m)' = new(k)
      OBVIOUS
    <2> DEFINE n == Len(plan) + k
    <2>0. n \in DOMAIN (plan') /\ plan'[n] = P[k]
      BY <1>4
    <2> HIDE DEF n
    <2>1. PICK m \in DOMAIN (plan') : plan'[m] = P[k]
      BY <2>0
    <2>2. ToSet(plan'[m].members) = new(k)
      BY <2>1
    <2> QED
      BY <2>1, <2>2 DEF Slot
  <1>7. ASSUME NEW k \in DOMAIN (plan')
        PROVE  \/ k \in DOMAIN plan /\ Slot(k)' = Slot(k)
               \/ /\ k \in Int /\ k > Len(plan)
                  /\ (k - Len(plan)) \in DOMAIN P /\ Slot(k)' = new(k - Len(plan))
    <2>1. CASE k \in DOMAIN plan
      BY <1>5, <2>1
    <2>2. CASE (k - Len(plan)) \in DOMAIN P
      <3>1. k \in Int /\ k > Len(plan) /\ Len(plan) + (k - Len(plan)) = k
        BY <1>4, <2>2
      <3>2. plan'[Len(plan) + (k - Len(plan))] = P[k - Len(plan)]
        BY <1>4, <2>2
      <3>3. plan'[k] = P[k - Len(plan)]
        BY <3>1, <3>2
      <3> QED
        BY <2>2, <3>1, <3>3 DEF Slot
    <2> QED
      BY <1>4, <2>1, <2>2
  <1> HIDE DEF new
  <1>8. /\ \A k \in DOMAIN P : new(k) \subseteq w
        /\ \A i \in w : \E k \in DOMAIN P : i \in new(k)
        /\ \A k, l \in DOMAIN P : new(k) \cap new(l) # {} => k = l
    BY <1>2 DEF new
  <1>9. Planned' = Planned \cup w
    <2>1. ASSUME NEW i \in Planned' PROVE i \in Planned \cup w
      <3>1. PICK k \in DOMAIN (plan') : i \in Slot(k)'
        BY <2>1 DEF Planned
      <3> QED
        BY <1>7, <1>8, <3>1 DEF Planned
    <2>2. Planned \subseteq Planned'
      BY <1>5 DEF Planned
    <2>3. ASSUME NEW i \in w PROVE i \in Planned'
      <3>1. PICK k \in DOMAIN P : i \in new(k)
        BY <1>8
      <3>2. PICK m \in DOMAIN (plan') : Slot(m)' = new(k)
        BY <1>6
      <3> QED
        BY <3>1, <3>2 DEF Planned
    <2> QED
      BY <2>1, <2>2, <2>3
  <1>10. w \cap Planned = {} /\ \A k \in DOMAIN plan : Slot(k) \subseteq Planned
    BY DEF PoolsInv, Planned
  <1>11. ASSUME NEW k \in DOMAIN (plan'), NEW l \in DOMAIN (plan'), Slot(k)' \cap Slot(l)' # {}
         PROVE  k = l
    <2>1. CASE k \in DOMAIN plan /\ l \in DOMAIN plan
      BY <1>5, <1>11, <2>1 DEF PoolsInv
    <2>2. CASE k \notin DOMAIN plan /\ l \notin DOMAIN plan
      <3>1. /\ k \in Int /\ l \in Int
            /\ (k - Len(plan)) \in DOMAIN P /\ (l - Len(plan)) \in DOMAIN P
            /\ Slot(k)' = new(k - Len(plan)) /\ Slot(l)' = new(l - Len(plan))
        BY <1>7, <2>2
      <3>2. k - Len(plan) = l - Len(plan)
        BY <1>8, <1>11, <3>1
      <3> QED
        BY <1>4, <3>1, <3>2
    <2>3. CASE k \in DOMAIN plan /\ l \notin DOMAIN plan
      BY <1>5, <1>7, <1>8, <1>10, <1>11, <2>3
    <2>4. CASE k \notin DOMAIN plan /\ l \in DOMAIN plan
      BY <1>5, <1>7, <1>8, <1>10, <1>11, <2>4
    <2> QED
      BY <2>1, <2>2, <2>3, <2>4
  <1>12. ASSUME NEW p \in ToSet(plan)' PROVE PoolOK(p)'
    <2>1. PICK k \in DOMAIN (plan') : p = plan'[k]
      BY <1>12 DEF ToSet
    <2>2. PoolOK(p)
      <3>1. CASE k \in DOMAIN plan
        BY <1>4, <2>1, <3>1 DEF PoolsInv, ToSet
      <3>2. CASE (k - Len(plan)) \in DOMAIN P
        <4>1. k = Len(plan) + (k - Len(plan))
          BY <1>4
        <4> QED
          BY <1>2, <1>4, <2>1, <3>2, <4>1
      <3> QED
        BY <1>4, <3>1, <3>2
    <2> QED
      BY <2>2, PoolStays
  <1>13. Opened' = Opened
    BY DEF Opened
  <1>14. PoolsInv'
    <2>1. pool # NoPool => PoolOK(pool)'
      BY PoolStays DEF PoolsInv
    <2>2. pool' # NoPool => PoolOK(pool)'
      BY <2>1
    <2>3. (remaining \cap Planned = {})' /\ (Opened \cap (remaining \cup Planned) = {})'
      BY <1>9, <1>13 DEF PoolsInv
    <2> QED
      BY <1>11, <1>12, <2>2, <2>3 DEF PoolsInv
  <1> QED
    BY <1>4, <1>5, <1>7, <1>8, <1>9, <1>14
-----------------------------------------------------------------------------
(* What a step leaves alone stays true.                                    *)

LEMMA PoolsStay ==
  ASSUME PoolsInv, UNCHANGED <<policy, concurrent, batch, remaining, plan, pool>>
  PROVE  PoolsInv'
  <1>1. \A p \in ToSet(plan) : PoolOK(p)'
    BY PoolStays DEF PoolsInv
  <1>2. pool # NoPool => PoolOK(pool)'
    BY PoolStays DEF PoolsInv
  <1>3. pool' = pool /\ plan' = plan /\ remaining' = remaining
    OBVIOUS
  <1>4. (\A p \in ToSet(plan) : PoolOK(p))' /\ (pool # NoPool => PoolOK(pool))'
    BY <1>1, <1>2, <1>3
  <1>5. \A k : Slot(k)' = Slot(k)
    BY <1>3 DEF Slot
  <1>6. Planned' = Planned /\ Opened' = Opened
    BY <1>3, <1>5 DEF Planned, Opened
  <1> QED
    BY <1>3, <1>4, <1>5, <1>6 DEF PoolsInv

LEMMA AnswersStay ==
  ASSUME AnswerInv, UNCHANGED <<batch, at, outcomes, finished, results>>
  PROVE  AnswerInv'
  BY DEF AnswerInv

LEMMA CountStays ==
  ASSUME CountInv, UNCHANGED <<batch, at, calls>>
  PROVE  CountInv'
  BY DEF CountInv, Counted, Draws

LEMMA WorkersStay ==
  ASSUME WorkersInv, UNCHANGED <<batch, at, pool>>
  PROVE  WorkersInv'
  BY DEF WorkersInv, Executing

LEMMA InitInv ==
  ASSUME Init
  PROVE  DispatchInv
  <1>1. DOMAIN batch = 1 .. Len(batch) /\ Len(batch) \in Nat
    BY DispatchAssumption DEF Init
  <1>2. DOMAIN <<>> = {} /\ \A S : <<>> \in Seq(S)
    BY EmptySeq
  <1>3. ToSet(<<>>) = {} /\ Requests(<<>>) = {} /\ Planned = {} /\ Opened = {} /\ Collected = {}
    BY <1>2 DEF Init, ToSet, Requests, Planned, Opened, Collected
  <1>4. Executing = {} /\ Counted = {}
    BY DEF Init, Executing, Counted
  <1>5. TypeInv
    BY <1>2 DEF Init, TypeInv
  <1>6. PoolsInv
    BY <1>2, <1>3 DEF Init, PoolsInv
  <1>7. PlaceInv
    BY <1>2, <1>3, <1>4 DEF Init, PlaceInv, Distinct, DistinctRequests
  <1>8. PhaseInv /\ AnswerInv /\ WorkersInv
    BY <1>2 DEF Init, PhaseInv, AnswerInv, WorkersInv
  <1>9. CountInv
    BY <1>4, FS_EmptySet DEF Init, CountInv
  <1> QED
    BY <1>5, <1>6, <1>7, <1>8, <1>9 DEF DispatchInv

(* A wave is planned.                                                      *)
LEMMA WaveStep ==
  ASSUME DispatchInv, NEW w \in SUBSET remaining,
         plan' = plan \o DispatchWave(w), remaining' = remaining \ w,
         phase' \in {"planning", "dispatching"},
         phase' = "planning" => policy \in WavePolicies,
         phase' = "dispatching" => remaining' = {},
         UNCHANGED <<policy, concurrent, batch, poolVars, workVars, results>>
  PROVE  DispatchInv'
  <1>1. TypeInv /\ PoolsInv /\ PlaceInv /\ AnswerInv /\ CountInv /\ WorkersInv
    BY DEF DispatchInv
  <1>2. UNCHANGED <<policy, concurrent, batch, pool, queue, at, calls, mode, outcomes, watching,
                    finished, results>>
    BY DEF poolVars, workVars
  <1>3. PoolsInv' /\ plan' \in Seq(Pools) /\ remaining' \cup Planned' = remaining \cup Planned
    BY <1>1, <1>2, PlanGrows
  <1>4. TypeInv'
    <2>1. Pools' = Pools /\ Answers' = Answers
      BY <1>2 DEF Pools, Answers
    <2> QED
      BY <1>1, <1>2, <1>3, <2>1 DEF TypeInv
  <1>5. PlaceInv'
    <2>1. Opened' = Opened /\ Executing' = Executing /\ Collected' = Collected
      BY <1>2 DEF Opened, Executing, Collected
    <2>2. \A i : i \in (remaining \cup Planned \cup ToSet(queue))' <=>
                 i \in remaining \cup Planned \cup ToSet(queue)
      BY <1>2, <1>3
    <2> QED
      BY <1>1, <1>2, <2>1, <2>2 DEF PlaceInv
  <1>6. PhaseInv'
    BY <1>2 DEF PhaseInv
  <1>7. AnswerInv' /\ CountInv' /\ WorkersInv'
    BY <1>1, <1>2, AnswersStay, CountStays, WorkersStay
  <1> QED
    BY <1>3, <1>4, <1>5, <1>6, <1>7 DEF DispatchInv

LEMMA PlanAllInv ==
  ASSUME DispatchInv, PlanAll
  PROVE  DispatchInv'
  <1>1. remaining = DOMAIN batch /\ plan = <<>> /\ policy \in AllPolicies /\ batch \in Batches
    BY DispatchAssumption DEF DispatchInv, PhaseInv, TypeInv, PlanAll
  <1>2. DispatchWave(remaining) \in Seq(Pools)
    BY <1>1, WavePools
  <1>3. plan' = plan \o DispatchWave(remaining) /\ remaining' = remaining \ remaining
    <2> DEFINE P == DispatchWave(remaining)
    <2>1. plan' = P
      BY <1>1 DEF PlanAll
    <2> HIDE DEF P
    <2>2. <<>> \o P = P
      BY <1>2, ConcatEmptySeq DEF P
    <2> QED
      BY <1>1, <2>1, <2>2 DEF P, PlanAll
  <1>4. phase' = "dispatching" /\ remaining' = {}
        /\ UNCHANGED <<policy, concurrent, batch, poolVars, workVars, results>>
    BY DEF PlanAll
  <1> QED
    BY <1>3, <1>4, WaveStep

Wave == IF ReadyIds = {} THEN remaining ELSE ReadyIds

LEMMA BuildWaveInv ==
  ASSUME DispatchInv, BuildWave
  PROVE  DispatchInv'
  <1>1. Wave \in SUBSET remaining
    BY DEF Wave, ReadyIds
  <1>2. /\ plan' = plan \o DispatchWave(Wave) /\ remaining' = remaining \ Wave
        /\ phase' = "planning" /\ policy \in WavePolicies
        /\ UNCHANGED <<policy, concurrent, batch, poolVars, workVars, results>>
    BY DEF BuildWave, Wave
  <1> QED
    BY <1>1, <1>2, WaveStep

(* A step of the dispatcher that touches neither pools nor requests.       *)
LEMMA PhaseStep ==
  ASSUME DispatchInv, PhaseInv', phase' \in {"planning", "dispatching", "returned"},
         UNCHANGED <<policy, concurrent, batch, remaining, plan, poolVars, workVars, results>>
  PROVE  DispatchInv'
  <1>1. TypeInv /\ PoolsInv /\ PlaceInv /\ AnswerInv /\ CountInv /\ WorkersInv
    BY DEF DispatchInv
  <1>2. UNCHANGED <<policy, concurrent, batch, remaining, plan, pool, queue, at, calls, mode,
                    outcomes, watching, finished, results>>
    BY DEF poolVars, workVars
  <1>3. PoolsInv' /\ AnswerInv' /\ CountInv' /\ WorkersInv'
    BY <1>1, <1>2, PoolsStay, AnswersStay, CountStays, WorkersStay
  <1>4. TypeInv'
    <2>1. Pools' = Pools /\ Answers' = Answers
      BY <1>2 DEF Pools, Answers
    <2> QED
      BY <1>1, <1>2, <2>1 DEF TypeInv
  <1>5. PlaceInv'
    BY <1>1, <1>2 DEF PlaceInv, Planned, Slot, Opened, Executing, Collected
  <1> QED
    BY <1>3, <1>4, <1>5 DEF DispatchInv

LEMMA WavesBuiltInv ==
  ASSUME DispatchInv, WavesBuilt
  PROVE  DispatchInv'
  <1>1. PhaseInv'
    BY DEF DispatchInv, PhaseInv, WavesBuilt
  <1> QED
    BY <1>1, PhaseStep DEF WavesBuilt

LEMMA ReturnInv ==
  ASSUME DispatchInv, Return
  PROVE  DispatchInv'
  <1>1. PhaseInv'
    BY DEF DispatchInv, PhaseInv, Return, poolVars
  <1> QED
    BY <1>1, PhaseStep DEF Return

(* The first pool leaves the plan.                                         *)
LEMMA PlanShrinks ==
  ASSUME TypeInv, PoolsInv, plan # <<>>, plan' = Tail(plan)
  PROVE  /\ Head(plan) \in Pools /\ PoolOK(Head(plan)) /\ Head(plan) # NoPool
         /\ plan' \in Seq(Pools)
         /\ Slot(1) = ToSet(Head(plan).members)
         /\ DOMAIN plan = 1 .. Len(plan) /\ Len(plan) \in Nat \ {0}
         /\ DOMAIN (plan') = 1 .. Len(plan) - 1
         /\ \A k \in DOMAIN (plan') : plan'[k] = plan[k + 1] /\ k + 1 \in DOMAIN plan
         /\ \A k \in DOMAIN (plan') : Slot(k)' = Slot(k + 1)
         /\ Planned = Slot(1) \cup Planned' /\ Slot(1) \cap Planned' = {}
  <1> DEFINE t == Tail(plan)
  <1>1. /\ Head(plan) \in Pools /\ t \in Seq(Pools) /\ Head(plan) = plan[1]
        /\ DOMAIN plan = 1 .. Len(plan) /\ Len(plan) \in Nat \ {0}
        /\ DOMAIN t = 1 .. Len(plan) - 1
        /\ \A k \in 1 .. Len(plan) - 1 : t[k] = plan[k + 1]
    BY HeadAndTail DEF TypeInv
  <1>2. plan' = t
    OBVIOUS
  <1> HIDE DEF t
  <1>3. /\ \A k \in DOMAIN (plan') : plan'[k] = plan[k + 1] /\ k + 1 \in DOMAIN plan /\ k \in Int /\ k + 1 # 1
        /\ 1 \in DOMAIN plan
    BY <1>1, <1>2
  <1>4. Head(plan) # NoPool
    <2>1. DOMAIN batch \subseteq Nat
      BY DispatchAssumption DEF TypeInv
    <2>2. Head(plan).members \in Seq(Nat) /\ Head(plan).workers \in Nat
      BY <1>1, <2>1, SeqMonotonic DEF Pools
    <2>3. Head(plan) = [members |-> Head(plan).members, workers |-> Head(plan).workers]
      BY <1>1 DEF Pools
    <2>4. Head(plan) \in [members : Seq(Nat), workers : Nat]
      BY <2>2, <2>3
    <2> QED
      BY <2>4, DispatchAssumption
  <1>5. PoolOK(Head(plan)) /\ Slot(1) = ToSet(Head(plan).members)
    BY <1>1, <1>3 DEF PoolsInv, ToSet, Slot
  <1>6. \A k \in DOMAIN (plan') : Slot(k)' = Slot(k + 1)
    BY <1>3 DEF Slot
  <1>7. ASSUME NEW i \in Planned PROVE i \in Slot(1) \cup Planned'
    <2>1. PICK k \in DOMAIN plan : i \in Slot(k)
      BY <1>7 DEF Planned
    <2>2. CASE k = 1
      BY <2>1, <2>2
    <2>3. CASE k # 1
      <3>1. PICK l \in DOMAIN (plan') : l + 1 = k
        <4>1. k - 1 \in DOMAIN (plan') /\ (k - 1) + 1 = k
          BY <1>1, <1>2, <2>3
        <4> QED
          BY <4>1
      <3> QED
        BY <1>6, <2>1, <3>1 DEF Planned
    <2> QED
      BY <2>2, <2>3
  <1>8. ASSUME NEW i \in Planned' PROVE i \in Planned /\ i \notin Slot(1)
    <2>1. PICK k \in DOMAIN (plan') : i \in Slot(k)'
      BY <1>8 DEF Planned
    <2>2. i \in Slot(k + 1) /\ k + 1 \in DOMAIN plan /\ k + 1 # 1
      BY <1>3, <1>6, <2>1
    <2>3. i \notin Slot(1)
      BY <1>3, <2>2 DEF PoolsInv
    <2> QED
      BY <2>2, <2>3 DEF Planned
  <1>9. Slot(1) \subseteq Planned
    BY <1>3 DEF Planned
  <1> QED
    BY <1>1, <1>2, <1>3, <1>4, <1>5, <1>6, <1>7, <1>8, <1>9

LEMMA OpenPoolInv ==
  ASSUME DispatchInv, OpenPool
  PROVE  DispatchInv'
  <1> DEFINE h == Head(plan)
  <1>1. TypeInv /\ PoolsInv /\ PlaceInv /\ PhaseInv /\ AnswerInv /\ CountInv /\ WorkersInv
    BY DEF DispatchInv
  <1>2. /\ phase = "dispatching" /\ pool = NoPool /\ plan # <<>>
        /\ pool' = h /\ queue' = h.members /\ plan' = Tail(plan)
        /\ UNCHANGED <<policy, concurrent, batch, phase, remaining, watching, finished,
                       at, calls, mode, outcomes, results>>
    BY DEF OpenPool, workVars
  <1>3. /\ h \in Pools /\ PoolOK(h) /\ h # NoPool
        /\ plan' \in Seq(Pools)
        /\ Slot(1) = ToSet(h.members)
        /\ DOMAIN plan = 1 .. Len(plan) /\ Len(plan) \in Nat \ {0}
        /\ DOMAIN (plan') = 1 .. Len(plan) - 1
        /\ \A k \in DOMAIN (plan') : plan'[k] = plan[k + 1] /\ k + 1 \in DOMAIN plan
        /\ \A k \in DOMAIN (plan') : Slot(k)' = Slot(k + 1)
        /\ Planned = Slot(1) \cup Planned' /\ Slot(1) \cap Planned' = {}
    BY <1>1, <1>2, PlanShrinks
  <1> HIDE DEF h
  <1>4. Opened = {} /\ Opened' = Slot(1)
    BY <1>2, <1>3 DEF Opened
  <1>5. Executing = {} /\ Executing' = {} /\ Collected' = Collected
    BY <1>1, <1>2, <1>4 DEF PlaceInv, Executing, Collected
  <1>6. TypeInv'
    <2>1. Pools' = Pools /\ Answers' = Answers
      BY <1>2 DEF Pools, Answers
    <2>2. queue' \in Seq(DOMAIN batch)
      BY <1>2, <1>3 DEF Pools
    <2> QED
      BY <1>1, <1>2, <1>3, <2>1, <2>2 DEF TypeInv
  <1>7. PoolsInv'
    <2>1. ASSUME NEW p \in ToSet(plan)' PROVE PoolOK(p)'
      <3>1. PICK k \in DOMAIN (plan') : p = plan'[k]
        BY <2>1 DEF ToSet
      <3>2. PoolOK(p)
        BY <1>1, <1>3, <3>1 DEF PoolsInv, ToSet
      <3> QED
        BY <1>2, <3>2, PoolStays
    <2>2. (\A k, l \in DOMAIN plan : Slot(k) \cap Slot(l) # {} => k = l)'
      <3>1. \A k, l \in DOMAIN (plan') : Slot(k)' \cap Slot(l)' # {} => k + 1 = l + 1
        BY <1>1, <1>3 DEF PoolsInv
      <3>2. \A k \in DOMAIN (plan') : k \in Int
        BY <1>3
      <3> QED
        BY <3>1, <3>2
    <2>3. (pool # NoPool => PoolOK(pool))'
      <3>1. PICK p : p = h
        OBVIOUS
      <3>2. PoolOK(p)'
        BY <1>2, <1>3, <3>1, PoolStays
      <3> QED
        BY <1>2, <3>1, <3>2
    <2>4. (remaining \cap Planned = {})' /\ (Opened \cap (remaining \cup Planned) = {})'
      BY <1>1, <1>2, <1>3, <1>4 DEF PoolsInv
    <2> QED
      BY <2>1, <2>2, <2>3, <2>4 DEF PoolsInv
  <1>8. PlaceInv'
    <2>1. ToSet(queue) = {} /\ ToSet(queue)' = Slot(1)
      BY <1>1, <1>2, <1>3, <1>4 DEF PlaceInv
    <2>2. Requests(finished) = {} /\ Requests(finished)' = {}
      BY <1>1, <1>2, <1>4 DEF PlaceInv
    <2>3. Distinct(queue)'
      BY <1>2, <1>3 DEF PoolOK, Distinct
    <2>4. \A i : i \in (remaining \cup Planned \cup ToSet(queue))' <=>
                 i \in remaining \cup Planned \cup ToSet(queue)
      BY <1>2, <1>3, <2>1
    <2>5. DistinctRequests(finished)' /\ DistinctRequests(results)'
      BY <1>1, <1>2 DEF PlaceInv
    <2> QED
      BY <1>1, <1>2, <1>4, <1>5, <2>1, <2>2, <2>3, <2>4, <2>5 DEF PlaceInv
  <1>9. PhaseInv'
    BY <1>1, <1>2 DEF PhaseInv
  <1>10. WorkersInv'
    BY <1>2, <1>3, <1>5, FS_EmptySet DEF WorkersInv, Pools
  <1>11. AnswerInv' /\ CountInv'
    BY <1>1, <1>2, AnswersStay, CountStays
  <1> QED
    BY <1>6, <1>7, <1>8, <1>9, <1>10, <1>11 DEF DispatchInv

LEMMA WatchInv ==
  ASSUME DispatchInv, Watch
  PROVE  DispatchInv'
  <1>1. TypeInv /\ PoolsInv /\ PlaceInv /\ PhaseInv /\ AnswerInv /\ CountInv /\ WorkersInv
    BY DEF DispatchInv
  <1>2. /\ watching' = TRUE /\ finished' \in SetToSeqs(ToSet(finished))
        /\ UNCHANGED <<policy, concurrent, batch, phase, remaining, plan, pool, queue, at, calls,
                       mode, outcomes, results>>
    BY DEF Watch, planVars, workVars
  <1>3. PICK t \in SetToSeqs(ToSet(finished)) : finished' = t
    BY <1>2
  <1>4. /\ t \in Seq(Answers) /\ ToSet(t) = ToSet(finished)
        /\ DistinctRequests(t) /\ Requests(t) = Requests(finished)
    BY <1>1, Shuffled DEF TypeInv, PlaceInv
  <1>5. TypeInv'
    <2>1. Pools' = Pools /\ Answers' = Answers
      BY <1>2 DEF Pools, Answers
    <2> QED
      BY <1>1, <1>2, <1>3, <1>4, <2>1 DEF TypeInv
  <1>6. PlaceInv'
    <2>1. /\ Planned' = Planned /\ Opened' = Opened /\ Executing' = Executing
          /\ Collected' = Collected /\ Requests(finished)' = Requests(finished)
          /\ DistinctRequests(finished)'
      BY <1>2, <1>3, <1>4 DEF Planned, Slot, Opened, Executing, Collected
    <2> QED
      BY <1>1, <1>2, <2>1 DEF PlaceInv
  <1>7. AnswerInv'
    <2>1. \A x \in ToSet(finished) : x.outcome = outcomes[x.request]
      BY <1>1 DEF AnswerInv, ToSet
    <2>2. \A k \in DOMAIN t : t[k].outcome = outcomes[t[k].request]
      BY <1>4, <2>1 DEF ToSet
    <2> QED
      BY <1>1, <1>2, <1>3, <2>2 DEF AnswerInv
  <1>8. PhaseInv'
    BY <1>1, <1>2 DEF PhaseInv
  <1>9. PoolsInv' /\ CountInv' /\ WorkersInv'
    BY <1>1, <1>2, PoolsStay, CountStays, WorkersStay
  <1> QED
    BY <1>5, <1>6, <1>7, <1>8, <1>9 DEF DispatchInv

LEMMA CollectInv ==
  ASSUME DispatchInv, Collect
  PROVE  /\ DispatchInv'
         /\ Head(finished) \in Answers
         /\ Head(finished).request \in Opened \ Collected
         /\ Head(finished).outcome = outcomes[Head(finished).request]
         /\ Collected' = Collected \cup {Head(finished).request}
  <1> DEFINE h == Head(finished)
  <1>1. TypeInv /\ PoolsInv /\ PlaceInv /\ PhaseInv /\ AnswerInv /\ CountInv /\ WorkersInv
    BY DEF DispatchInv
  <1>2. /\ finished # <<>> /\ results' = Append(results, h) /\ finished' = Tail(finished)
        /\ UNCHANGED <<policy, concurrent, batch, phase, remaining, plan, pool, queue, watching,
                       at, calls, mode, outcomes>>
    BY DEF Collect, planVars, workVars
  <1>3. /\ h \in Answers /\ finished' \in Seq(Answers) /\ h = finished[1]
        /\ DOMAIN finished = 1 .. Len(finished) /\ Len(finished) \in Nat \ {0}
        /\ DOMAIN (finished') = 1 .. Len(finished) - 1
        /\ \A k \in 1 .. Len(finished) - 1 : finished'[k] = finished[k + 1]
        /\ Requests(finished) = {h.request} \cup Requests(finished)'
        /\ DistinctRequests(finished)' /\ h.request \notin Requests(finished)'
    <2> DEFINE t == Tail(finished)
    <2>1. /\ h \in Answers /\ t \in Seq(Answers) /\ h = finished[1]
          /\ DOMAIN finished = 1 .. Len(finished) /\ Len(finished) \in Nat \ {0}
          /\ DOMAIN t = 1 .. Len(finished) - 1
          /\ \A k \in 1 .. Len(finished) - 1 : t[k] = finished[k + 1]
          /\ Requests(finished) = {h.request} \cup Requests(t)
      BY <1>1, <1>2, HeadAndTail DEF TypeInv
    <2>2. DistinctRequests(t) /\ h.request \notin Requests(t)
      BY <1>1, <1>2, TailDistinct DEF TypeInv, PlaceInv
    <2>3. finished' = t
      BY <1>2
    <2> HIDE DEF t, h
    <2> QED
      BY <2>1, <2>2, <2>3
  <1>4. /\ results' \in Seq(Answers) /\ Len(results) \in Nat
        /\ DOMAIN results = 1 .. Len(results) /\ DOMAIN (results') = 1 .. Len(results) + 1
        /\ \A k \in DOMAIN results : results'[k] = results[k]
        /\ results'[Len(results) + 1] = h
        /\ Requests(results)' = Requests(results) \cup {h.request}
        /\ DistinctRequests(results) /\ h.request \notin Requests(results)
             => DistinctRequests(results)'
    <2> DEFINE t == Append(results, h)
    <2> HIDE DEF h
    <2>1. /\ t \in Seq(Answers) /\ Len(results) \in Nat
          /\ DOMAIN results = 1 .. Len(results) /\ DOMAIN t = 1 .. Len(results) + 1
          /\ \A k \in DOMAIN results : t[k] = results[k]
          /\ t[Len(results) + 1] = h
          /\ Requests(t) = Requests(results) \cup {h.request}
          /\ DistinctRequests(results) /\ h.request \notin Requests(results) => DistinctRequests(t)
      BY <1>1, <1>3, Appending DEF TypeInv
    <2>2. results' = t
      BY <1>2
    <2> HIDE DEF t
    <2> QED
      BY <2>1, <2>2
  <1> HIDE DEF h
  <1>5. Collected = Requests(results) /\ Collected' = Requests(results)'
    BY DEF Collected, Requests
  <1>6. h.request \in Opened \ Collected
    BY <1>1, <1>3 DEF PlaceInv
  <1>7. h.outcome = outcomes[h.request]
    BY <1>1, <1>3 DEF AnswerInv
  <1>8. TypeInv'
    <2>1. Pools' = Pools /\ Answers' = Answers
      BY <1>2 DEF Pools, Answers
    <2> QED
      BY <1>1, <1>2, <1>3, <1>4, <2>1 DEF TypeInv
  <1>9. PlaceInv'
    <2>1. Planned' = Planned /\ Opened' = Opened /\ Executing' = Executing
      BY <1>2 DEF Planned, Slot, Opened, Executing
    <2>2. \A i : i \in (Requests(finished) \cup Collected)' <=> i \in Requests(finished) \cup Collected
      BY <1>3, <1>4, <1>5
    <2>3. (Requests(finished) \cap Collected = {})'
      BY <1>1, <1>3, <1>4, <1>5 DEF PlaceInv
    <2>4. (Requests(finished) \subseteq Opened)'
      BY <1>1, <1>3, <2>1 DEF PlaceInv
    <2>5. DistinctRequests(finished)' /\ DistinctRequests(results)'
      BY <1>1, <1>3, <1>4, <1>5, <1>6 DEF PlaceInv
    <2> QED
      BY <1>1, <1>2, <2>1, <2>2, <2>3, <2>4, <2>5 DEF PlaceInv
  <1>10. AnswerInv'
    <2>1. \A k \in DOMAIN (finished') : finished'[k] = finished[k + 1] /\ k + 1 \in DOMAIN finished
      BY <1>3
    <2>2. \A k \in DOMAIN (results') : k \in DOMAIN results \/ k = Len(results) + 1
      BY <1>4
    <2>3. \A k \in DOMAIN (finished') : finished'[k].outcome = outcomes[finished'[k].request]
      BY <1>1, <2>1 DEF AnswerInv
    <2>4. \A k \in DOMAIN (results') : results'[k].outcome = outcomes[results'[k].request]
      BY <1>1, <1>4, <1>7, <2>2 DEF AnswerInv
    <2> QED
      BY <1>1, <1>2, <2>3, <2>4 DEF AnswerInv
  <1>11. PhaseInv'
    BY <1>1, <1>2 DEF PhaseInv
  <1>12. PoolsInv' /\ CountInv' /\ WorkersInv'
    BY <1>1, <1>2, PoolsStay, CountStays, WorkersStay
  <1> QED
    BY <1>3, <1>4, <1>5, <1>6, <1>7, <1>8, <1>9, <1>10, <1>11, <1>12 DEF DispatchInv, h

(* Every request of the pool is collected: nothing else is going on.       *)
LEMMA PoolDrained ==
  ASSUME DispatchInv, Opened \subseteq Collected
  PROVE  Executing = {} /\ ToSet(queue) = {} /\ Requests(finished) = {}
  <1>1. PlaceInv /\ \A i \in Collected : i \in DOMAIN batch
    <2>1. \A k \in DOMAIN results : results[k] \in Answers
      BY LenProperties, ElementOfSeq DEF DispatchInv, TypeInv
    <2> QED
      BY <2>1 DEF DispatchInv, Collected, Answers
  <1>2. \A i \in Opened : i \in DOMAIN batch /\ at[i] = "done"
    BY <1>1 DEF PlaceInv
  <1> QED
    BY <1>1, <1>2 DEF PlaceInv, Executing

LEMMA ClosePoolInv ==
  ASSUME DispatchInv, ClosePool
  PROVE  DispatchInv'
  <1>1. TypeInv /\ PoolsInv /\ PlaceInv /\ PhaseInv /\ AnswerInv /\ CountInv /\ WorkersInv
    BY DEF DispatchInv
  <1>2. /\ pool # NoPool /\ ToSet(pool.members) \subseteq Collected
        /\ pool' = NoPool /\ watching' = FALSE
        /\ UNCHANGED <<policy, concurrent, batch, phase, remaining, plan, queue, finished,
                       at, calls, mode, outcomes, results>>
    BY DEF ClosePool, planVars, workVars
  <1>3. Executing = {} /\ ToSet(queue) = {} /\ Requests(finished) = {}
    BY <1>2, PoolDrained DEF Opened
  <1>4. Opened' = {} /\ Planned' = Planned /\ Executing' = Executing /\ Collected' = Collected
    BY <1>2 DEF Opened, Planned, Slot, Executing, Collected
  <1>5. TypeInv'
    <2>1. Pools' = Pools /\ Answers' = Answers
      BY <1>2 DEF Pools, Answers
    <2> QED
      BY <1>1, <1>2, <2>1 DEF TypeInv
  <1>6. PoolsInv'
    <2>1. \A p \in ToSet(plan) : PoolOK(p)'
      BY <1>1, <1>2, PoolStays DEF PoolsInv
    <2>2. (\A p \in ToSet(plan) : PoolOK(p))'
      BY <1>2, <2>1
    <2>3. (pool # NoPool => PoolOK(pool))'
      BY <1>2
    <2>4. \A k : Slot(k)' = Slot(k)
      BY <1>2 DEF Slot
    <2> QED
      BY <1>1, <1>2, <1>4, <2>2, <2>3, <2>4 DEF PoolsInv
  <1>7. PlaceInv'
    BY <1>1, <1>2, <1>3, <1>4 DEF PlaceInv
  <1>8. PhaseInv' /\ WorkersInv'
    BY <1>1, <1>2 DEF PhaseInv, WorkersInv
  <1>9. AnswerInv' /\ CountInv'
    BY <1>1, <1>2, AnswersStay, CountStays
  <1> QED
    BY <1>5, <1>6, <1>7, <1>8, <1>9 DEF DispatchInv

LEMMA SomeRequests ==
  ASSUME TypeInv, NEW S \in SUBSET DOMAIN batch
  PROVE  IsFiniteSet(S) /\ Cardinality(S) \in 0 .. Len(batch) /\ Len(batch) \in Nat
  <1>1. DOMAIN batch = 1 .. Len(batch) /\ Len(batch) \in Nat
    BY DispatchAssumption DEF TypeInv
  <1>2. IsFiniteSet(1 .. Len(batch)) /\ Cardinality(1 .. Len(batch)) = Len(batch)
    BY <1>1, FS_Interval
  <1>3. S \in SUBSET (1 .. Len(batch))
    BY <1>1
  <1>4. IsFiniteSet(S) /\ Cardinality(S) <= Cardinality(1 .. Len(batch))
    BY <1>2, <1>3, FS_Subset
  <1>5. Cardinality(S) \in Nat
    BY <1>4, FS_CardinalityType
  <1> QED
    BY <1>1, <1>2, <1>4, <1>5

(* A thread takes a request from the queue.                                *)
LEMMA StartInv ==
  ASSUME DispatchInv, Start
  PROVE  /\ DispatchInv'
         /\ Head(queue) \in Opened /\ at[Head(queue)] = "waiting"
         /\ \E v \in {"reading", "working"} :
              /\ at' = [at EXCEPT ![Head(queue)] = v]
              /\ Draws(Head(queue)) => v = "reading"
  <1> DEFINE i == Head(queue)
             v == IF Draws(i) THEN "reading" ELSE "working"
  <1>1. TypeInv /\ PoolsInv /\ PlaceInv /\ PhaseInv /\ AnswerInv /\ CountInv /\ WorkersInv
    BY DEF DispatchInv
  <1>2. /\ queue # <<>> /\ Cardinality(Executing) < pool.workers
        /\ queue' = Tail(queue)
        /\ at' = [at EXCEPT ![i] = v]
        /\ mode' = [mode EXCEPT ![i] = batch[i].planned]
        /\ UNCHANGED <<policy, concurrent, batch, phase, remaining, plan, pool, watching, finished,
                       calls, outcomes, results>>
    BY DEF Start, Draws, planVars
  <1>3. /\ i \in DOMAIN batch /\ queue' \in Seq(DOMAIN batch)
        /\ ToSet(queue) = {i} \cup ToSet(queue)'
        /\ Distinct(queue)' /\ i \notin ToSet(queue)'
    <2> DEFINE t == Tail(queue)
    <2>1. i \in DOMAIN batch /\ t \in Seq(DOMAIN batch) /\ ToSet(queue) = {i} \cup ToSet(t)
      BY <1>1, <1>2, HeadAndTail DEF TypeInv
    <2>2. Distinct(t) /\ i \notin ToSet(t)
      BY <1>1, <1>2, TailDistinct DEF TypeInv, PlaceInv
    <2>3. queue' = t
      BY <1>2
    <2> HIDE DEF t, i
    <2> QED
      BY <2>1, <2>2, <2>3
  <1>4. v \in {"reading", "working"} /\ (v = "reading" <=> Draws(i))
    OBVIOUS
  <1> HIDE DEF i, v
  <1>5. i \in Opened /\ at[i] = "waiting" /\ i \notin remaining \cup Planned
    BY <1>1, <1>3 DEF PlaceInv, PoolsInv
  <1>6. /\ at' \in [DOMAIN batch -> {"waiting", "reading", "counting", "working", "stored", "done"}]
        /\ at'[i] = v /\ \A j \in DOMAIN batch : j # i => at'[j] = at[j]
    BY <1>1, <1>2, <1>3, <1>4 DEF TypeInv
  <1>7. mode' \in [DOMAIN batch -> Modes \cup {NoMode}]
    <2>1. batch[i].planned \in Modes \cup {NoMode}
      BY <1>1, <1>3, DispatchAssumption DEF TypeInv
    <2> QED
      BY <1>1, <1>2, <2>1 DEF TypeInv
  <1>8. TypeInv'
    <2>1. Pools' = Pools /\ Answers' = Answers
      BY <1>2 DEF Pools, Answers
    <2> QED
      BY <1>1, <1>2, <1>3, <1>6, <1>7, <2>1 DEF TypeInv
  <1>9. Executing' = Executing \cup {i} /\ i \notin Executing
    BY <1>2, <1>3, <1>4, <1>5, <1>6 DEF Executing
  <1>10. Counted' = Counted
    BY <1>2, <1>3, <1>4, <1>5, <1>6 DEF Counted, Draws
  <1>11. PlaceInv'
    <2>1. Planned' = Planned /\ Opened' = Opened /\ Collected' = Collected
      BY <1>2 DEF Planned, Slot, Opened, Collected
    <2>2. (\A j \in DOMAIN batch : at[j] = "waiting" <=> j \in remaining \cup Planned \cup ToSet(queue))'
      <3>1. ASSUME NEW j \in DOMAIN batch
            PROVE  at'[j] = "waiting" <=> j \in remaining' \cup Planned' \cup ToSet(queue)'
        <4>1. CASE j = i
          BY <1>2, <1>3, <1>4, <1>5, <1>6, <2>1, <4>1
        <4>2. CASE j # i
          BY <1>1, <1>2, <1>3, <1>6, <2>1, <4>2 DEF PlaceInv
        <4> QED
          BY <4>1, <4>2
      <3> QED
        BY <1>2, <3>1
    <2>3. (\A j \in DOMAIN batch : at[j] = "done" <=> j \in Requests(finished) \cup Collected)'
      <3>1. \A j \in DOMAIN batch : at'[j] = "done" <=> at[j] = "done"
        BY <1>4, <1>5, <1>6
      <3> QED
        BY <1>1, <1>2, <2>1, <3>1 DEF PlaceInv
    <2>4. (Executing \subseteq Opened)' /\ (ToSet(queue) \subseteq Opened)'
      BY <1>1, <1>3, <1>5, <1>9, <2>1 DEF PlaceInv
    <2>5. /\ (Requests(finished) \subseteq Opened)' /\ (Requests(finished) \cap Collected = {})'
          /\ DistinctRequests(finished)' /\ DistinctRequests(results)'
      BY <1>1, <1>2, <2>1 DEF PlaceInv
    <2> QED
      BY <1>3, <2>2, <2>3, <2>4, <2>5 DEF PlaceInv
  <1>12. WorkersInv'
    <2>1. IsFiniteSet(Executing) /\ Cardinality(Executing) \in Nat
      BY <1>1, SomeRequests DEF Executing
    <2>2. Cardinality(Executing') = Cardinality(Executing) + 1
      BY <1>9, <2>1, FS_AddElement
    <2>3. pool # NoPool => pool.workers \in Nat
      BY <1>1 DEF TypeInv, Pools
    <2>4. pool # NoPool => Cardinality(Executing') <= pool.workers
      BY <1>2, <2>1, <2>2, <2>3
    <2> QED
      BY <1>2, <2>4 DEF WorkersInv
  <1>13. CountInv'
    <2>1. \A j \in DOMAIN batch : at'[j] \in {"reading", "counting"} => Draws(j)
      BY <1>1, <1>4, <1>6 DEF CountInv
    <2> QED
      BY <1>1, <1>2, <1>10, <2>1 DEF CountInv, Draws
  <1>14. AnswerInv'
    <2>1. \A j \in DOMAIN batch : at'[j] \in {"stored", "done"} => at[j] \in {"stored", "done"}
      BY <1>4, <1>6
    <2> QED
      BY <1>1, <1>2, <2>1 DEF AnswerInv
  <1>15. PhaseInv'
    BY <1>1, <1>2 DEF PhaseInv
  <1>16. PoolsInv'
    BY <1>1, <1>2, PoolsStay
  <1> QED
    BY <1>2, <1>4, <1>5, <1>8, <1>11, <1>12, <1>13, <1>14, <1>15, <1>16 DEF DispatchInv, i

(* A request stays in its thread.                                          *)
LEMMA InThread ==
  ASSUME DispatchInv, NEW i \in DOMAIN batch, at[i] \in {"reading", "counting", "working"},
         NEW v \in {"counting", "working", "stored"}, at' = [at EXCEPT ![i] = v],
         UNCHANGED <<policy, concurrent, batch, planVars, poolVars, results>>
  PROVE  /\ PoolsInv' /\ PlaceInv' /\ PhaseInv' /\ WorkersInv'
         /\ at' \in [DOMAIN batch -> {"waiting", "reading", "counting", "working", "stored", "done"}]
         /\ at'[i] = v /\ \A j \in DOMAIN batch : j # i => at'[j] = at[j]
         /\ Pools' = Pools /\ Answers' = Answers
         /\ Opened' = Opened /\ Collected' = Collected /\ i \in Opened
  <1>1. TypeInv /\ PoolsInv /\ PlaceInv /\ PhaseInv /\ AnswerInv /\ CountInv /\ WorkersInv
    BY DEF DispatchInv
  <1>2. UNCHANGED <<policy, concurrent, batch, phase, remaining, plan, pool, queue, watching,
                    finished, results>>
    BY DEF planVars, poolVars
  <1>3. /\ at' \in [DOMAIN batch -> {"waiting", "reading", "counting", "working", "stored", "done"}]
        /\ at'[i] = v /\ \A j \in DOMAIN batch : j # i => at'[j] = at[j]
    BY <1>1 DEF TypeInv
  <1>4. Executing' = Executing /\ i \in Executing
    BY <1>2, <1>3 DEF Executing
  <1>5. /\ Pools' = Pools /\ Answers' = Answers
        /\ Planned' = Planned /\ Opened' = Opened /\ Collected' = Collected
    BY <1>2 DEF Pools, Answers, Planned, Slot, Opened, Collected
  <1>6. PlaceInv'
    <2>1. \A j \in DOMAIN batch : /\ at'[j] = "waiting" <=> at[j] = "waiting"
                                  /\ at'[j] = "done" <=> at[j] = "done"
      BY <1>3
    <2> QED
      BY <1>1, <1>2, <1>4, <1>5, <2>1 DEF PlaceInv
  <1>7. PhaseInv'
    BY <1>1, <1>2 DEF PhaseInv
  <1>8. WorkersInv'
    BY <1>1, <1>2, <1>4 DEF WorkersInv
  <1>9. PoolsInv'
    BY <1>1, <1>2, PoolsStay
  <1>10. i \in Opened
    BY <1>1, <1>4 DEF PlaceInv
  <1> QED
    BY <1>3, <1>5, <1>6, <1>7, <1>8, <1>9, <1>10

LEMMA CycleEntry ==
  ASSUME Cycle # <<>>, NEW n \in Nat
  PROVE  Len(Cycle) \in Nat \ {0} /\ Cycle[(n % Len(Cycle)) + 1] \in Modes
  <1>1. Len(Cycle) \in Nat \ {0}
    BY DispatchAssumption, EmptySeq
  <1>2. (n % Len(Cycle)) + 1 \in 1 .. Len(Cycle)
    BY <1>1
  <1> QED
    BY <1>1, <1>2, DispatchAssumption, ElementOfSeq

LEMMA ReadCountInv ==
  ASSUME DispatchInv, NEW i \in DOMAIN batch, ReadCount(i)
  PROVE  DispatchInv'
  <1> DEFINE m == Cycle[(calls % Len(Cycle)) + 1]
  <1>1. TypeInv /\ AnswerInv /\ CountInv
    BY DEF DispatchInv
  <1>2. /\ at[i] = "reading" /\ at' = [at EXCEPT ![i] = "counting"]
        /\ mode' = [mode EXCEPT ![i] = m]
        /\ UNCHANGED <<policy, concurrent, batch, planVars, poolVars, calls, outcomes, results>>
    BY DEF ReadCount
  <1>3. UNCHANGED <<phase, remaining, plan, pool, queue, watching, finished>>
    BY <1>2 DEF planVars, poolVars
  <1>4. /\ PoolsInv' /\ PlaceInv' /\ PhaseInv' /\ WorkersInv'
        /\ at' \in [DOMAIN batch -> {"waiting", "reading", "counting", "working", "stored", "done"}]
        /\ at'[i] = "counting" /\ \A j \in DOMAIN batch : j # i => at'[j] = at[j]
        /\ Pools' = Pools /\ Answers' = Answers
    BY <1>2, InThread
  <1>5. Draws(i) /\ m \in Modes
    BY <1>1, <1>2, CycleEntry DEF CountInv, Draws, TypeInv
  <1> HIDE DEF m
  <1>6. TypeInv'
    <2>1. mode' \in [DOMAIN batch -> Modes \cup {NoMode}]
      BY <1>1, <1>2, <1>5 DEF TypeInv
    <2> QED
      BY <1>1, <1>2, <1>3, <1>4, <2>1 DEF TypeInv
  <1>7. AnswerInv'
    <2>1. \A j \in DOMAIN batch : at'[j] \in {"stored", "done"} => at[j] \in {"stored", "done"}
      BY <1>4
    <2> QED
      BY <1>1, <1>2, <1>3, <2>1 DEF AnswerInv
  <1>8. CountInv'
    <2>1. \A j \in DOMAIN batch : at'[j] \in {"reading", "counting"} => Draws(j)
      BY <1>1, <1>4, <1>5 DEF CountInv
    <2>2. Counted' = Counted
      BY <1>2, <1>4 DEF Counted, Draws
    <2> QED
      BY <1>1, <1>2, <2>1, <2>2 DEF CountInv, Draws
  <1> QED
    BY <1>4, <1>6, <1>7, <1>8 DEF DispatchInv

LEMMA AdvanceCountInv ==
  ASSUME DispatchInv, NEW i \in DOMAIN batch, AdvanceCount(i)
  PROVE  DispatchInv'
  <1>1. TypeInv /\ AnswerInv /\ CountInv
    BY DEF DispatchInv
  <1>2. /\ at[i] = "counting" /\ at' = [at EXCEPT ![i] = "working"] /\ calls' = calls + 1
        /\ UNCHANGED <<policy, concurrent, batch, planVars, poolVars, mode, outcomes, results>>
    BY DEF AdvanceCount
  <1>3. UNCHANGED <<phase, remaining, plan, pool, queue, watching, finished>>
    BY <1>2 DEF planVars, poolVars
  <1>4. /\ PoolsInv' /\ PlaceInv' /\ PhaseInv' /\ WorkersInv'
        /\ at' \in [DOMAIN batch -> {"waiting", "reading", "counting", "working", "stored", "done"}]
        /\ at'[i] = "working" /\ \A j \in DOMAIN batch : j # i => at'[j] = at[j]
        /\ Pools' = Pools /\ Answers' = Answers
    BY <1>2, InThread
  <1>5. TypeInv'
    BY <1>1, <1>2, <1>3, <1>4 DEF TypeInv
  <1>6. AnswerInv'
    <2>1. \A j \in DOMAIN batch : at'[j] \in {"stored", "done"} => at[j] \in {"stored", "done"}
      BY <1>4
    <2> QED
      BY <1>1, <1>2, <1>3, <2>1 DEF AnswerInv
  <1>7. CountInv'
    <2>1. \A j \in DOMAIN batch : at'[j] \in {"reading", "counting"} => Draws(j)
      BY <1>1, <1>4 DEF CountInv
    <2>2. Draws(i)
      BY <1>1, <1>2 DEF CountInv
    <2>3. Counted' = Counted \cup {i} /\ i \notin Counted
      BY <1>2, <1>4, <2>2 DEF Counted, Draws
    <2>4. IsFiniteSet(Counted)
      BY <1>1, SomeRequests DEF Counted
    <2>5. Cardinality(Counted') = Cardinality(Counted) + 1
      BY <2>3, <2>4, FS_AddElement
    <2> QED
      BY <1>1, <1>2, <2>1, <2>5 DEF CountInv, Draws
  <1> QED
    BY <1>4, <1>5, <1>6, <1>7 DEF DispatchInv

LEMMA SubmitInv ==
  ASSUME DispatchInv, NEW i \in DOMAIN batch, Submit(i)
  PROVE  DispatchInv'
  <1>1. TypeInv /\ PlaceInv /\ AnswerInv /\ CountInv
    BY DEF DispatchInv
  <1>2. /\ at[i] = "working" /\ at' = [at EXCEPT ![i] = "stored"]
        /\ UNCHANGED <<policy, concurrent, batch, planVars, poolVars, calls, mode, results>>
    BY DEF Submit
  <1>3. PICK kind \in Kinds : outcomes' = [outcomes EXCEPT ![i] = [of |-> i, kind |-> kind]]
    <2>1. \A m : KindsOf(m) \subseteq Kinds
      BY DEF KindsOf, Kinds
    <2> QED
      BY <2>1 DEF Submit
  <1>4. UNCHANGED <<phase, remaining, plan, pool, queue, watching, finished>>
    BY <1>2 DEF planVars, poolVars
  <1>5. /\ PoolsInv' /\ PlaceInv' /\ PhaseInv' /\ WorkersInv'
        /\ at' \in [DOMAIN batch -> {"waiting", "reading", "counting", "working", "stored", "done"}]
        /\ at'[i] = "stored" /\ \A j \in DOMAIN batch : j # i => at'[j] = at[j]
        /\ Pools' = Pools /\ Answers' = Answers
    BY <1>2, InThread
  <1> DEFINE o == [of |-> i, kind |-> kind]
  <1>6. o \in [of : DOMAIN batch, kind : Kinds] /\ o.of = i
    OBVIOUS
  <1> HIDE DEF o
  <1>7. /\ outcomes' \in [DOMAIN batch -> {NoOutcome} \cup [of : DOMAIN batch, kind : Kinds]]
        /\ outcomes'[i] = o /\ \A j \in DOMAIN batch : j # i => outcomes'[j] = outcomes[j]
    <2>1. outcomes' = [outcomes EXCEPT ![i] = o]
      BY <1>3 DEF o
    <2> QED
      BY <1>1, <1>6, <2>1 DEF TypeInv
  <1>8. TypeInv'
    BY <1>1, <1>2, <1>4, <1>5, <1>7 DEF TypeInv
  <1>9. AnswerInv'
    <2>1. \A j \in DOMAIN batch : at'[j] \in {"stored", "done"} =>
            outcomes'[j].of = j /\ outcomes'[j] \in [of : DOMAIN batch, kind : Kinds]
      BY <1>1, <1>5, <1>6, <1>7 DEF AnswerInv
    <2>2. /\ \A k \in DOMAIN finished : finished[k] \in Answers
          /\ \A k \in DOMAIN results : results[k] \in Answers
      BY <1>1, LenProperties, ElementOfSeq DEF TypeInv
    <2>3. \A k \in DOMAIN finished : finished[k].request \in DOMAIN batch /\ finished[k].request # i
      BY <1>1, <1>2, <2>2 DEF PlaceInv, Requests, Answers
    <2>4. \A k \in DOMAIN results : results[k].request \in DOMAIN batch /\ results[k].request # i
      BY <1>1, <1>2, <2>2 DEF PlaceInv, Collected, Answers
    <2> QED
      BY <1>1, <1>2, <1>4, <1>7, <2>1, <2>3, <2>4 DEF AnswerInv
  <1>10. CountInv'
    <2>1. \A j \in DOMAIN batch : at'[j] \in {"reading", "counting"} => Draws(j)
      BY <1>1, <1>5 DEF CountInv
    <2>2. Counted' = Counted
      BY <1>2, <1>5 DEF Counted, Draws
    <2> QED
      BY <1>1, <1>2, <2>1, <2>2 DEF CountInv, Draws
  <1> QED
    BY <1>5, <1>8, <1>9, <1>10 DEF DispatchInv

LEMMA PollInv ==
  ASSUME DispatchInv, NEW i \in DOMAIN batch, Poll(i)
  PROVE  DispatchInv' /\ i \in Opened
  <1> DEFINE e == [request |-> i, outcome |-> outcomes[i]]
  <1>1. TypeInv /\ PoolsInv /\ PlaceInv /\ PhaseInv /\ AnswerInv /\ CountInv /\ WorkersInv
    BY DEF DispatchInv
  <1>2. /\ at[i] = "stored" /\ at' = [at EXCEPT ![i] = "done"]
        /\ finished' = Append(finished, e)
        /\ UNCHANGED <<policy, concurrent, batch, phase, remaining, plan, pool, queue, watching,
                       calls, mode, outcomes, results>>
    BY DEF Poll, planVars
  <1>3. e \in Answers /\ e.request = i /\ e.outcome = outcomes[i]
    BY <1>1, <1>2 DEF AnswerInv, Answers
  <1> HIDE DEF e
  <1>4. /\ at' \in [DOMAIN batch -> {"waiting", "reading", "counting", "working", "stored", "done"}]
        /\ at'[i] = "done" /\ \A j \in DOMAIN batch : j # i => at'[j] = at[j]
    BY <1>1, <1>2 DEF TypeInv
  <1>5. i \in Executing /\ i \in Opened /\ i \notin Requests(finished) \cup Collected
    BY <1>1, <1>2 DEF PlaceInv, Executing
  <1>6. /\ finished' \in Seq(Answers) /\ Len(finished) \in Nat
        /\ DOMAIN finished = 1 .. Len(finished) /\ DOMAIN (finished') = 1 .. Len(finished) + 1
        /\ \A k \in DOMAIN finished : finished'[k] = finished[k]
        /\ finished'[Len(finished) + 1] = e
        /\ Requests(finished)' = Requests(finished) \cup {i}
        /\ DistinctRequests(finished)'
    <2> DEFINE t == Append(finished, e)
    <2>1. /\ t \in Seq(Answers) /\ Len(finished) \in Nat
          /\ DOMAIN finished = 1 .. Len(finished) /\ DOMAIN t = 1 .. Len(finished) + 1
          /\ \A k \in DOMAIN finished : t[k] = finished[k]
          /\ t[Len(finished) + 1] = e
          /\ Requests(t) = Requests(finished) \cup {e.request}
          /\ DistinctRequests(finished) /\ e.request \notin Requests(finished)
               => DistinctRequests(t)
      BY <1>1, <1>3, Appending DEF TypeInv
    <2>2. DistinctRequests(t)
      BY <1>1, <1>3, <1>5, <2>1 DEF PlaceInv
    <2>3. finished' = t
      BY <1>2
    <2> HIDE DEF t
    <2> QED
      BY <1>3, <2>1, <2>2, <2>3
  <1>7. Executing' = Executing \ {i}
    BY <1>2, <1>4 DEF Executing
  <1>8. TypeInv'
    <2>1. Pools' = Pools /\ Answers' = Answers
      BY <1>2 DEF Pools, Answers
    <2> QED
      BY <1>1, <1>2, <1>4, <1>6, <2>1 DEF TypeInv
  <1>9. PlaceInv'
    <2>1. Planned' = Planned /\ Opened' = Opened /\ Collected' = Collected
      BY <1>2 DEF Planned, Slot, Opened, Collected
    <2>2. \A j \in DOMAIN batch : /\ at'[j] = "waiting" <=> at[j] = "waiting"
                                  /\ at'[j] = "done" <=> at[j] = "done" \/ j = i
      BY <1>2, <1>4
    <2>3. (\A j \in DOMAIN batch : at[j] = "waiting" <=> j \in remaining \cup Planned \cup ToSet(queue))'
      BY <1>1, <1>2, <2>1, <2>2 DEF PlaceInv
    <2>4. (\A j \in DOMAIN batch : at[j] = "done" <=> j \in Requests(finished) \cup Collected)'
      BY <1>1, <1>2, <1>6, <2>1, <2>2 DEF PlaceInv
    <2>5. (Requests(finished) \subseteq Opened)' /\ (Requests(finished) \cap Collected = {})'
      BY <1>1, <1>5, <1>6, <2>1 DEF PlaceInv
    <2>6. (Executing \subseteq Opened)' /\ (ToSet(queue) \subseteq Opened)'
          /\ Distinct(queue)' /\ DistinctRequests(results)'
      BY <1>1, <1>2, <1>7, <2>1 DEF PlaceInv
    <2> QED
      BY <1>6, <2>3, <2>4, <2>5, <2>6 DEF PlaceInv
  <1>10. AnswerInv'
    <2>1. \A k \in DOMAIN (finished') : k \in DOMAIN finished \/ k = Len(finished) + 1
      BY <1>6
    <2>2. \A k \in DOMAIN (finished') : finished'[k].outcome = outcomes[finished'[k].request]
      BY <1>1, <1>3, <1>6, <2>1 DEF AnswerInv
    <2>3. \A j \in DOMAIN batch : at'[j] \in {"stored", "done"} => at[j] \in {"stored", "done"}
      BY <1>2, <1>4
    <2> QED
      BY <1>1, <1>2, <2>2, <2>3 DEF AnswerInv
  <1>11. WorkersInv'
    <2>1. IsFiniteSet(Executing) /\ Cardinality(Executing) \in Nat
      BY <1>1, SomeRequests DEF Executing
    <2>2. Cardinality(Executing') = Cardinality(Executing) - 1
      BY <1>5, <1>7, <2>1, FS_RemoveElement
    <2>3. pool # NoPool => pool.workers \in Nat
      BY <1>1 DEF TypeInv, Pools
    <2>4. pool # NoPool => Cardinality(Executing') <= pool.workers
      BY <1>1, <2>1, <2>2, <2>3 DEF WorkersInv
    <2> QED
      BY <1>2, <2>4 DEF WorkersInv
  <1>12. CountInv'
    <2>1. \A j \in DOMAIN batch : at'[j] \in {"reading", "counting"} => Draws(j)
      BY <1>1, <1>4 DEF CountInv
    <2>2. Counted' = Counted
      BY <1>2, <1>4 DEF Counted, Draws
    <2> QED
      BY <1>1, <1>2, <2>1, <2>2 DEF CountInv, Draws
  <1>13. PhaseInv'
    BY <1>1, <1>2 DEF PhaseInv
  <1>14. PoolsInv'
    BY <1>1, <1>2, PoolsStay
  <1> QED
    BY <1>5, <1>8, <1>9, <1>10, <1>11, <1>12, <1>13, <1>14 DEF DispatchInv

LEMMA IdleInv ==
  ASSUME DispatchInv, UNCHANGED vars
  PROVE  DispatchInv'
  <1>1. UNCHANGED <<policy, concurrent, batch, phase, remaining, plan, poolVars, workVars, results>>
    BY DEF vars, planVars
  <1>2. PhaseInv'
    BY <1>1 DEF DispatchInv, PhaseInv, poolVars
  <1>3. phase' \in {"planning", "dispatching", "returned"}
    BY <1>1 DEF DispatchInv, TypeInv
  <1> QED
    BY <1>1, <1>2, <1>3, PhaseStep

LEMMA StepInv ==
  ASSUME DispatchInv, [Next]_vars
  PROVE  DispatchInv'
  <1>1. CASE Dispatcher
    BY <1>1, PlanAllInv, BuildWaveInv, WavesBuiltInv, OpenPoolInv, WatchInv, CollectInv,
       ClosePoolInv, ReturnInv DEF Dispatcher
  <1>2. CASE Start
    BY <1>2, StartInv
  <1>3. CASE \E i \in Positions : Thread(i)
    BY <1>3, ReadCountInv, AdvanceCountInv, SubmitInv, PollInv DEF Thread
  <1>4. CASE Returned \/ UNCHANGED vars
    BY <1>4, IdleInv DEF Returned
  <1> QED
    BY <1>1, <1>2, <1>3, <1>4 DEF Next

(* Every state a dispatch() can be in, whatever its batch, its limits and  *)
(* the switches between its threads, satisfies the invariant.              *)
THEOREM InvariantHolds == Spec => []DispatchInv
  <1>1. Init => DispatchInv
    BY InitInv
  <1>2. DispatchInv /\ [Next]_vars => DispatchInv'
    BY StepInv
  <1> QED
    BY <1>1, <1>2, PTL DEF Spec
-----------------------------------------------------------------------------
(* What follows from the invariant alone.                                  *)

LEMMA TypeFollows ==
  ASSUME DispatchInv
  PROVE  DispatchTypeOK
  <1>1. TypeInv /\ CountInv
    BY DEF DispatchInv
  <1>2. calls \in 0 .. Len(batch)
    BY <1>1, SomeRequests DEF CountInv, Counted
  <1>3. ASSUME NEW k \in DOMAIN plan
        PROVE  plan[k].members \in Seq(DOMAIN batch) /\ plan[k].workers \in Nat
    <2>1. plan[k] \in Pools
      BY <1>1, LenProperties, ElementOfSeq DEF TypeInv
    <2> QED
      BY <2>1 DEF Pools
  <1> QED
    BY <1>1, <1>2, <1>3 DEF TypeInv, DispatchTypeOK

(* The state keeps its types: in particular the shared call counter never  *)
(* runs ahead of the number of requests (DispatchTypeOK).                  *)
THEOREM TypesHold == Spec => []DispatchTypeOK
  <1>1. DispatchInv => DispatchTypeOK
    BY TypeFollows
  <1> QED
    BY <1>1, InvariantHolds, PTL

LEMMA BoundFollows ==
  ASSUME DispatchInv
  PROVE  InFlightBound
  <1> SUFFICES ASSUME NEW i \in Executing
               PROVE  Cardinality(Executing) <= MostInFlight(i)
    BY DEF InFlightBound
  <1>1. TypeInv /\ PoolsInv /\ PlaceInv /\ WorkersInv
    BY DEF DispatchInv
  <1>2. i \in Opened /\ pool # NoPool /\ i \in ToSet(pool.members)
    BY <1>1 DEF PlaceInv, Opened
  <1>3. PoolOK(pool) /\ Cardinality(Executing) <= pool.workers
    BY <1>1, <1>2 DEF PoolsInv, WorkersInv
  <1>4. pool.workers <= MostInFlight(i) /\ pool.workers \in Nat
    BY <1>2, <1>3 DEF PoolOK, ToSet
  <1>5. Cardinality(Executing) \in Nat
    BY <1>1, SomeRequests DEF Executing
  <1>6. MostInFlight(i) \in Int
    <2>1. i \in DOMAIN batch /\ batch \in Batches
      BY <1>1 DEF Executing, TypeInv
    <2>2. MaxInFlight[batch[i].hint] \in Int /\ MaxWorkers \in Int
      BY <2>1, DispatchAssumption
    <2> QED
      BY <2>2 DEF MostInFlight, Larger
  <1> QED
    BY <1>3, <1>4, <1>5, <1>6

(* However the threads interleave, no policy has more requests in flight   *)
(* than it says (InFlightBound).                                           *)
THEOREM InFlightIsBounded == Spec => []InFlightBound
  <1>1. DispatchInv => InFlightBound
    BY BoundFollows
  <1> QED
    BY <1>1, InvariantHolds, PTL

LEMMA OneBackendFollows ==
  ASSUME DispatchInv
  PROVE  OneBackendAtATime
  <1> SUFFICES ASSUME policy \in Grouping, NEW i \in Executing, NEW j \in Executing
               PROVE  batch[i].hint = batch[j].hint
    BY DEF OneBackendAtATime
  <1>1. pool # NoPool /\ i \in ToSet(pool.members) /\ j \in ToSet(pool.members)
    BY DEF DispatchInv, PlaceInv, Opened
  <1>2. PoolOK(pool)
    BY <1>1 DEF DispatchInv, PoolsInv
  <1> QED
    BY <1>1, <1>2 DEF PoolOK, OneHint

(* The grouping policies serve one backend hint at a time                  *)
(* (OneBackendAtATime).                                                    *)
THEOREM BackendsTakeTurns == Spec => []OneBackendAtATime
  <1>1. DispatchInv => OneBackendAtATime
    BY OneBackendFollows
  <1> QED
    BY <1>1, InvariantHolds, PTL
-----------------------------------------------------------------------------
(* The execution contract.                                                 *)

LEMMA AnswersNew ==
  ASSUME DispatchInv, Collect
  PROVE  \E i \in DOMAIN batch : Contract!Answer(i)
  <1> DEFINE h == Head(finished)
             i == h.request
  <1>1. /\ h \in Answers /\ i \in Opened \ Collected /\ h.outcome = outcomes[i]
    BY CollectInv
  <1>2. TypeInv /\ PlaceInv /\ PhaseInv /\ AnswerInv
    BY DEF DispatchInv
  <1>3. results' = Append(results, h) /\ UNCHANGED <<batch, phase>>
    BY DEF Collect, planVars
  <1>4. h \in ToSet(finished) /\ i \in Requests(finished)
    <2>1. /\ ToSet(finished) = {h} \cup ToSet(Tail(finished))
          /\ Requests(finished) = {i} \cup Requests(Tail(finished))
      BY <1>2, HeadAndTail DEF TypeInv, Collect
    <2> QED
      BY <2>1
  <1> HIDE DEF h
  <1>5. i \in DOMAIN batch
    BY <1>1 DEF Answers
  <1>6. at[i] = "done"
    BY <1>2, <1>4, <1>5 DEF PlaceInv
  <1>7. PICK kind \in Kinds : outcomes[i] = [of |-> i, kind |-> kind]
    <2>1. outcomes[i].of = i /\ outcomes[i] \in [of : DOMAIN batch, kind : Kinds]
      BY <1>2, <1>5, <1>6 DEF AnswerInv
    <2>2. outcomes[i] = [of |-> outcomes[i].of, kind |-> outcomes[i].kind] /\ outcomes[i].kind \in Kinds
      BY <2>1
    <2> QED
      BY <2>1, <2>2
  <1>8. h = [request |-> i, outcome |-> [of |-> i, kind |-> kind]]
    <2>1. h = [request |-> i, outcome |-> h.outcome]
      BY <1>1 DEF Answers
    <2> QED
      BY <1>1, <1>7, <2>1
  <1>9. results' = Append(results, [request |-> i, outcome |-> [of |-> i, kind |-> kind]])
    BY <1>3, <1>8
  <1>10. phase # "returned"
    BY <1>1, <1>2 DEF PhaseInv, Opened
  <1>11. i \in DOMAIN batch \ Contract!Answered
    BY <1>1, <1>5 DEF Contract!Answered, Collected
  <1>12. (phase = "returned")' = (phase = "returned")
    BY <1>3
  <1> QED
    BY <1>3, <1>5, <1>9, <1>10, <1>11, <1>12 DEF Contract!Answer

LEMMA ReturnsComplete ==
  ASSUME DispatchInv, Return
  PROVE  Contract!Return
  <1>1. TypeInv /\ PoolsInv /\ PlaceInv /\ PhaseInv
    BY DEF DispatchInv
  <1>2. /\ phase = "dispatching" /\ pool = NoPool /\ plan = <<>> /\ phase' = "returned"
        /\ UNCHANGED <<batch, results>>
    BY DEF Return
  <1>3. remaining = {} /\ Planned = {} /\ Opened = {}
    BY <1>1, <1>2, EmptySeq DEF PhaseInv, Planned, Opened
  <1>4. Executing = {} /\ ToSet(queue) = {} /\ Requests(finished) = {}
    BY <1>1, <1>3 DEF PlaceInv
  <1>5. \A i \in DOMAIN batch : i \in Collected
    <2>1. \A i \in DOMAIN batch : at[i] = "done"
      BY <1>1, <1>3, <1>4 DEF PlaceInv, Executing, TypeInv
    <2> QED
      BY <1>1, <1>4, <2>1 DEF PlaceInv
  <1>6. Collected \subseteq DOMAIN batch
    <2>1. \A k \in DOMAIN results : results[k] \in Answers
      BY <1>1, LenProperties, ElementOfSeq DEF TypeInv
    <2> QED
      BY <2>1 DEF Collected, Answers
  <1>7. Contract!Answered = DOMAIN batch
    BY <1>5, <1>6 DEF Contract!Answered, Collected
  <1> QED
    BY <1>2, <1>7 DEF Contract!Return

LEMMA ContractStep ==
  ASSUME DispatchInv, [Next]_vars
  PROVE  [Contract!Next]_(Contract!contractVars)
  <1>1. CASE Collect
    BY <1>1, AnswersNew DEF Contract!Next
  <1>2. CASE Return
    BY <1>2, ReturnsComplete DEF Contract!Next
  <1>3. CASE batch' = batch /\ results' = results /\ (phase' = "returned" <=> phase = "returned")
    BY <1>3 DEF Contract!contractVars
  <1>4. CASE PlanAll \/ BuildWave \/ WavesBuilt
    BY <1>3, <1>4 DEF PlanAll, BuildWave, WavesBuilt
  <1>5. CASE OpenPool \/ Watch \/ ClosePool \/ Start
    BY <1>3, <1>5 DEF OpenPool, Watch, ClosePool, Start, planVars
  <1>6. CASE \E i \in Positions : Thread(i)
    BY <1>3, <1>6 DEF Thread, ReadCount, AdvanceCount, Submit, Poll, planVars
  <1>7. CASE Returned \/ UNCHANGED vars
    BY <1>3, <1>7 DEF Returned, vars, planVars
  <1> QED
    BY <1>1, <1>2, <1>4, <1>5, <1>6, <1>7 DEF Next, Dispatcher

(* dispatch() implements the contract the engine relies on: every request  *)
(* is answered once, with its own outcome, and dispatch() returns only     *)
(* when all are (ImplementsExecution).                                     *)
THEOREM EveryRequestAnswered == Spec => ImplementsExecution
  <1>1. Init => Contract!Init
    BY DEF Init, Contract!Init
  <1>2. DispatchInv /\ [Next]_vars => [Contract!Next]_(Contract!contractVars)
    BY ContractStep
  <1> QED
    BY <1>1, <1>2, InvariantHolds, PTL DEF Spec, ImplementsExecution, Contract!Spec
-----------------------------------------------------------------------------
(* Causal order.                                                           *)

LEMMA OrderStays ==
  ASSUME OrderInv, UNCHANGED <<policy, batch, plan, pool, results>>
  PROVE  OrderInv'
  <1>1. \A k : Slot(k)' = Slot(k)
    BY DEF Slot
  <1>2. Opened' = Opened /\ Collected' = Collected
    BY DEF Opened, Collected
  <1>3. \A k : InEarlierSlots(k)' = InEarlierSlots(k)
    BY <1>1 DEF InEarlierSlots
  <1>4. \A i : Entangled(i)' = Entangled(i)
    BY DEF Entangled
  <1> QED
    BY <1>1, <1>2, <1>3, <1>4 DEF OrderInv, MayFollow

(* Every request that is in no wave yet, or in the plan, is the open       *)
(* pool's or collected.                                                    *)
LEMMA Somewhere ==
  ASSUME DispatchInv, NEW i \in DOMAIN batch \ remaining
  PROVE  i \in Collected \cup Opened \cup Planned
  <1>1. TypeInv /\ PlaceInv
    BY DEF DispatchInv
  <1>2. \/ at[i] = "waiting" \/ at[i] = "done" \/ i \in Executing
    BY <1>1 DEF TypeInv, Executing
  <1> QED
    BY <1>1, <1>2 DEF PlaceInv

(* The members of a wave depend on earlier waves only, unless the cycle    *)
(* guard released them: then every one of them has a parent among them.    *)
LEMMA WaveMayFollow ==
  ASSUME DispatchInv, NEW i \in Wave
  PROVE  MayFollow(i, Collected \cup Opened \cup Planned)
  <1>1. TypeInv /\ Wave \subseteq remaining /\ remaining \subseteq DOMAIN batch
    BY DEF DispatchInv, TypeInv, Wave, ReadyIds
  <1>2. CASE ReadyIds = {}
    <2>1. ASSUME NEW j \in remaining PROVE batch[j].parents \cap remaining # {}
      <3>1. batch[j].parents \subseteq DOMAIN batch
        BY <1>1, DispatchAssumption DEF TypeInv
      <3>2. ~ (batch[j].parents \subseteq DOMAIN batch \ remaining)
        BY <1>2 DEF ReadyIds, Resolved
      <3> QED
        BY <3>1, <3>2
    <2>2. i \in remaining /\ remaining \in SUBSET DOMAIN batch
      BY <1>1
    <2> QED
      BY <2>1, <2>2 DEF MayFollow, Entangled
  <1>3. CASE ReadyIds # {}
    <2>1. batch[i].parents \subseteq DOMAIN batch \ remaining
      BY <1>3 DEF Wave, ReadyIds, Resolved
    <2> QED
      BY <2>1, Somewhere DEF MayFollow
  <1> QED
    BY <1>2, <1>3

LEMMA BuildWaveOrder ==
  ASSUME DispatchInv, OrderInv, BuildWave
  PROVE  OrderInv'
  <1>1. TypeInv /\ PoolsInv
    BY DEF DispatchInv
  <1>2. /\ plan' = plan \o DispatchWave(Wave) /\ remaining' = remaining \ Wave
        /\ policy \in WavePolicies /\ Wave \in SUBSET remaining
        /\ UNCHANGED <<policy, concurrent, batch, pool, results>>
    BY DEF BuildWave, Wave, ReadyIds, poolVars
  <1>3. /\ \A k \in DOMAIN plan : k \in DOMAIN plan' /\ Slot(k)' = Slot(k)
        /\ DOMAIN plan = 1 .. Len(plan) /\ Len(plan) \in Nat
        /\ \A k \in DOMAIN plan' : k \in DOMAIN plan \/ (k \in Int /\ k > Len(plan) /\ Slot(k)' \subseteq Wave)
    BY <1>1, <1>2, PlanGrows
  <1>4. Opened' = Opened /\ Collected' = Collected /\ \A i : Entangled(i)' = Entangled(i)
    BY <1>2 DEF Opened, Collected, Entangled
  <1> DEFINE reach(k) == Collected \cup Opened \cup InEarlierSlots(k)
  <1>5. ASSUME NEW k \in DOMAIN plan PROVE InEarlierSlots(k) \subseteq InEarlierSlots(k)'
    <2>1. \A l \in 1 .. k - 1 : l \in DOMAIN plan
      BY <1>3
    <2> QED
      BY <1>3, <2>1 DEF InEarlierSlots
  <1>6. ASSUME NEW k \in DOMAIN plan', k \notin DOMAIN plan PROVE Planned \subseteq InEarlierSlots(k)'
    <2>1. k \in Int /\ k > Len(plan)
      BY <1>3, <1>6
    <2>2. \A l \in DOMAIN plan : l \in 1 .. k - 1
      BY <1>3, <2>1
    <2> QED
      BY <1>3, <2>2 DEF InEarlierSlots, Planned
  <1>7. ASSUME NEW k \in DOMAIN plan', NEW i \in Slot(k)'
        PROVE  MayFollow(i, Collected' \cup Opened' \cup InEarlierSlots(k)')
    <2>1. CASE k \in DOMAIN plan
      <3>1. MayFollow(i, Collected \cup Opened \cup InEarlierSlots(k))
        BY <1>2, <1>3, <1>7, <2>1 DEF OrderInv
      <3> QED
        BY <1>4, <1>5, <2>1, <3>1 DEF MayFollow
    <2>2. CASE k \notin DOMAIN plan
      <3>1. i \in Wave
        BY <1>3, <1>7, <2>2
      <3>2. MayFollow(i, Collected \cup Opened \cup Planned)
        BY <3>1, WaveMayFollow
      <3> QED
        BY <1>4, <1>6, <2>2, <3>2 DEF MayFollow
    <2> QED
      BY <2>1, <2>2
  <1>8. \A i \in Opened' \cup Collected' : MayFollow(i, Collected')
    BY <1>2, <1>4 DEF OrderInv
  <1>9. \A i, S : MayFollow(i, S) => batch'[i].parents \subseteq S \/ Entangled(i)'
    BY <1>2, <1>4 DEF MayFollow
  <1>10. /\ \A k \in DOMAIN plan' : \A i \in Slot(k)' :
              \/ batch'[i].parents \subseteq Collected' \cup Opened' \cup InEarlierSlots(k)'
              \/ Entangled(i)'
         /\ \A i \in Opened' \cup Collected' : batch'[i].parents \subseteq Collected' \/ Entangled(i)'
    BY <1>7, <1>8, <1>9
  <1> QED
    BY <1>10 DEF OrderInv, MayFollow

LEMMA OpenPoolOrder ==
  ASSUME DispatchInv, OrderInv, OpenPool
  PROVE  OrderInv'
  <1>1. TypeInv /\ PoolsInv
    BY DEF DispatchInv
  <1>2. /\ pool = NoPool /\ plan # <<>> /\ pool' = Head(plan) /\ plan' = Tail(plan)
        /\ UNCHANGED <<policy, batch, results>>
    BY DEF OpenPool
  <1>3. /\ Head(plan) # NoPool /\ Slot(1) = ToSet(Head(plan).members)
        /\ DOMAIN plan = 1 .. Len(plan) /\ Len(plan) \in Nat \ {0}
        /\ DOMAIN (plan') = 1 .. Len(plan) - 1
        /\ \A k \in DOMAIN (plan') : k + 1 \in DOMAIN plan
        /\ \A k \in DOMAIN (plan') : Slot(k)' = Slot(k + 1)
    BY <1>1, <1>2, PlanShrinks
  <1>4. /\ Opened = {} /\ Opened' = Slot(1) /\ Collected' = Collected
        /\ \A i : Entangled(i)' = Entangled(i)
    BY <1>2, <1>3 DEF Opened, Collected, Entangled
  <1>5. ASSUME NEW k \in DOMAIN (plan') PROVE InEarlierSlots(k + 1) \subseteq Slot(1) \cup InEarlierSlots(k)'
    <2> SUFFICES ASSUME NEW l \in 1 .. (k + 1) - 1, NEW i \in Slot(l)
                 PROVE  i \in Slot(1) \cup InEarlierSlots(k)'
      BY DEF InEarlierSlots
    <2>1. CASE l = 1
      BY <2>1
    <2>2. CASE l # 1
      <3>1. PICK n \in 1 .. k - 1 : l = n + 1
        <4>1. l - 1 \in 1 .. k - 1 /\ l = (l - 1) + 1
          BY <1>3, <2>2
        <4> QED
          BY <4>1
      <3>2. n \in DOMAIN (plan') /\ Slot(n)' = Slot(n + 1)
        BY <1>3, <3>1
      <3> QED
        BY <3>1, <3>2 DEF InEarlierSlots
    <2> QED
      BY <2>1, <2>2
  <1>6. InEarlierSlots(1) = {} /\ 1 \in DOMAIN plan
    BY <1>3 DEF InEarlierSlots
  <1>7. ASSUME policy \in WavePolicies, NEW k \in DOMAIN (plan'), NEW i \in Slot(k)'
        PROVE  MayFollow(i, Collected' \cup Opened' \cup InEarlierSlots(k)')
    <2>1. i \in Slot(k + 1) /\ k + 1 \in DOMAIN plan
      BY <1>3, <1>7
    <2>2. MayFollow(i, Collected \cup Opened \cup InEarlierSlots(k + 1))
      BY <1>7, <2>1 DEF OrderInv
    <2> QED
      BY <1>4, <1>5, <2>2 DEF MayFollow
  <1>8. ASSUME policy \in WavePolicies, NEW i \in Opened' \cup Collected'
        PROVE  MayFollow(i, Collected')
    <2>1. CASE i \in Slot(1)
      <3>1. MayFollow(i, Collected \cup Opened \cup InEarlierSlots(1))
        BY <1>6, <1>8, <2>1 DEF OrderInv
      <3> QED
        BY <1>4, <1>6, <3>1 DEF MayFollow
    <2>2. CASE i \in Collected
      BY <1>4, <1>8, <2>2 DEF OrderInv
    <2> QED
      BY <1>4, <1>8, <2>1, <2>2
  <1>9. \A i, S : MayFollow(i, S) => batch'[i].parents \subseteq S \/ Entangled(i)'
    BY <1>2, <1>4 DEF MayFollow
  <1>10. policy \in WavePolicies =>
         /\ \A k \in DOMAIN (plan') : \A i \in Slot(k)' :
              \/ batch'[i].parents \subseteq Collected' \cup Opened' \cup InEarlierSlots(k)'
              \/ Entangled(i)'
         /\ \A i \in Opened' \cup Collected' : batch'[i].parents \subseteq Collected' \/ Entangled(i)'
    BY <1>7, <1>8, <1>9
  <1> QED
    BY <1>2, <1>10 DEF OrderInv, MayFollow

(* Collecting adds to what the others have read, closing a drained pool    *)
(* takes nothing away.                                                     *)
LEMMA DrainOrder ==
  ASSUME OrderInv, UNCHANGED <<policy, batch, plan>>,
         Collected \subseteq Collected', Opened \cup Collected = Opened' \cup Collected'
  PROVE  OrderInv'
  <1>1. \A k : Slot(k)' = Slot(k)
    BY DEF Slot
  <1>2. \A k : InEarlierSlots(k)' = InEarlierSlots(k)
    BY <1>1 DEF InEarlierSlots
  <1>3. \A i : Entangled(i)' = Entangled(i)
    BY DEF Entangled
  <1> QED
    BY <1>1, <1>2, <1>3 DEF OrderInv, MayFollow

LEMMA OrderStep ==
  ASSUME DispatchInv, OrderInv, [Next]_vars
  PROVE  OrderInv'
  <1>1. CASE UNCHANGED <<policy, batch, plan, pool, results>>
    BY <1>1, OrderStays
  <1>2. CASE PlanAll
    BY <1>2 DEF PlanAll, OrderInv
  <1>3. CASE BuildWave
    BY <1>3, BuildWaveOrder
  <1>4. CASE OpenPool
    BY <1>4, OpenPoolOrder
  <1>5. CASE Collect
    <2>1. /\ Head(finished).request \in Opened
          /\ Collected' = Collected \cup {Head(finished).request}
      BY <1>5, CollectInv
    <2>2. UNCHANGED <<policy, batch, plan>> /\ Opened' = Opened
      BY <1>5 DEF Collect, planVars, Opened
    <2> QED
      BY <2>1, <2>2, DrainOrder
  <1>6. CASE ClosePool
    <2>1. /\ Opened \subseteq Collected /\ Opened' = {} /\ Collected' = Collected
          /\ UNCHANGED <<policy, batch, plan>>
      BY <1>6 DEF ClosePool, planVars, Opened, Collected
    <2> QED
      BY <2>1, DrainOrder
  <1>7. CASE WavesBuilt \/ Watch \/ Return \/ Start
    BY <1>1, <1>7 DEF WavesBuilt, Watch, Return, Start, planVars, poolVars
  <1>8. CASE \E i \in Positions : Thread(i)
    BY <1>1, <1>8 DEF Thread, ReadCount, AdvanceCount, Submit, Poll, planVars, poolVars
  <1>9. CASE Returned \/ UNCHANGED vars
    BY <1>1, <1>9 DEF Returned, vars, planVars, poolVars
  <1> QED
    BY <1>2, <1>3, <1>4, <1>5, <1>6, <1>7, <1>8, <1>9 DEF Next, Dispatcher

LEMMA OrderFollows ==
  ASSUME DispatchInv, OrderInv
  PROVE  ParentsFirst
  <1> SUFFICES ASSUME policy \in WavePolicies, NEW i \in DOMAIN batch, at[i] # "waiting"
               PROVE  batch[i].parents \subseteq Collected \/ Entangled(i)
    BY DEF ParentsFirst
  <1>1. at[i] = "done" \/ i \in Executing
    BY DEF DispatchInv, TypeInv, Executing
  <1>2. i \in Opened \cup Collected
    BY <1>1 DEF DispatchInv, PlaceInv
  <1> QED
    BY <1>2 DEF OrderInv, MayFollow

(* The policies built on causal waves start no request before its parents  *)
(* in the batch are collected, except where the parents form a cycle       *)
(* (ParentsFirst).                                                         *)
THEOREM CausalOrderKept == Spec => []ParentsFirst
  <1>1. Init => OrderInv
    <2> SUFFICES ASSUME Init PROVE OrderInv
      OBVIOUS
    <2>1. DOMAIN plan = {} /\ Opened = {} /\ Collected = {}
      BY EmptySeq DEF Init, Opened, Collected
    <2> QED
      BY <2>1 DEF OrderInv
  <1>2. DispatchInv /\ OrderInv /\ [Next]_vars => OrderInv'
    BY OrderStep
  <1>3. DispatchInv /\ OrderInv => ParentsFirst
    BY OrderFollows
  <1> QED
    BY <1>1, <1>2, <1>3, InvariantHolds, PTL DEF Spec
-----------------------------------------------------------------------------
(* Determinism of serial execution.                                        *)

LEMMA OneAtATime ==
  ASSUME DispatchInv, Serial, NEW i \in Opened, NEW j \in Opened
  PROVE  i = j
  <1>1. pool # NoPool /\ i \in ToSet(pool.members) /\ j \in ToSet(pool.members)
    BY DEF Opened
  <1>2. PoolOK(pool)
    BY <1>1 DEF DispatchInv, PoolsInv
  <1> QED
    BY <1>1, <1>2 DEF PoolOK

(* While a request is reading the counter, nobody else is between drawing  *)
(* a mode and being collected: the counter is the number of the results    *)
(* without a planned mode.                                                 *)
LEMMA CounterIsExact ==
  ASSUME DispatchInv, Serial, NEW i \in DOMAIN batch, at[i] = "reading"
  PROVE  calls = UnplannedSoFar
  <1> DEFINE L == {l \in DOMAIN results : Unplanned(l)}
             f == [l \in L |-> results[l].request]
  <1>1. TypeInv /\ PlaceInv /\ CountInv
    BY DEF DispatchInv
  <1>2. \A k \in DOMAIN results : results[k] \in Answers /\ results[k].request \in DOMAIN batch
    <2>1. \A k \in DOMAIN results : results[k] \in Answers
      BY <1>1, LenProperties, ElementOfSeq DEF TypeInv
    <2> QED
      BY <2>1 DEF Answers
  <1>3. i \in Opened /\ Draws(i) /\ Cycle # <<>>
    BY <1>1 DEF PlaceInv, CountInv, Executing, Draws
  <1>4. ASSUME NEW j \in Counted PROVE j \in Collected
    <2>1. j \in DOMAIN batch /\ at[j] \in {"working", "stored", "done"} /\ j # i
      BY <1>4 DEF Counted
    <2>2. j \notin Opened
      BY <1>3, <2>1, OneAtATime
    <2> QED
      BY <1>1, <2>1, <2>2 DEF PlaceInv, Executing
  <1>5. \A l \in L : f[l] \in Counted
    <2> SUFFICES ASSUME NEW l \in L PROVE f[l] \in Counted
      OBVIOUS
    <2>1. f[l] \in Collected /\ f[l] \in DOMAIN batch /\ batch[f[l]].planned = NoMode
      BY <1>2 DEF Collected, Unplanned
    <2>2. at[f[l]] = "done"
      BY <1>1, <2>1 DEF PlaceInv
    <2> QED
      BY <1>3, <2>1, <2>2 DEF Counted, Draws
  <1>6. \A j \in Counted : \E l \in L : f[l] = j
    <2> SUFFICES ASSUME NEW j \in Counted PROVE \E l \in L : f[l] = j
      OBVIOUS
    <2>1. PICK l \in DOMAIN results : results[l].request = j
      BY <1>4 DEF Collected
    <2>2. l \in L
      BY <2>1 DEF Unplanned, Counted, Draws
    <2> QED
      BY <2>1, <2>2
  <1>7. \A k, l \in L : f[k] = f[l] => k = l
    BY <1>1 DEF PlaceInv, DistinctRequests
  <1>8. f \in Bijection(L, Counted)
    <2>1. f \in [L -> Counted]
      BY <1>5
    <2> HIDE DEF f, L
    <2> QED
      BY <1>6, <1>7, <2>1, Fun_IsBij
  <1>9. IsFiniteSet(L)
    <2>1. DOMAIN results = 1 .. Len(results) /\ Len(results) \in Nat
      BY <1>1, LenProperties DEF TypeInv
    <2>2. IsFiniteSet(1 .. Len(results)) /\ L \subseteq 1 .. Len(results)
      BY <2>1, FS_Interval
    <2> QED
      BY <2>2, FS_Subset
  <1>10. Cardinality(L) = Cardinality(Counted)
    <2> HIDE DEF f, L
    <2>1. ExistsBijection(L, Counted)
      BY <1>8 DEF ExistsBijection
    <2> QED
      BY <1>9, <2>1, FS_Bijection
  <1> QED
    BY <1>1, <1>10 DEF CountInv, UnplannedSoFar

LEMMA DrawnStays ==
  ASSUME DrawnInv, SerialIsDeterministic, UNCHANGED <<policy, concurrent, batch, at, mode, results>>
  PROVE  DrawnInv' /\ SerialIsDeterministic'
  <1>1. Serial' = Serial /\ Collected' = Collected
    BY DEF Serial, Collected
  <1>2. \A k : Unplanned(k)' = Unplanned(k)
    BY DEF Unplanned
  <1>3. UnplannedSoFar' = UnplannedSoFar
    BY <1>2 DEF UnplannedSoFar
  <1>4. DrawnInv'
    BY <1>1, <1>3 DEF DrawnInv, Draws
  <1>5. SerialIsDeterministic'
    BY <1>1, <1>2 DEF SerialIsDeterministic
  <1> QED
    BY <1>4, <1>5

(* A thread's step: of the requests that are collected the mode stays.     *)
LEMMA DrawnStep ==
  ASSUME DispatchInv, DrawnInv, SerialIsDeterministic,
         NEW i \in DOMAIN batch, at[i] # "done",
         \A j \in DOMAIN batch : j # i => at'[j] = at[j] /\ mode'[j] = mode[j],
         Serial /\ Draws(i) /\ at'[i] \in {"counting", "working", "stored", "done"}
           => mode'[i] = Cycle[(UnplannedSoFar % Len(Cycle)) + 1],
         UNCHANGED <<policy, concurrent, batch, results>>
  PROVE  DrawnInv' /\ SerialIsDeterministic'
  <1>1. Serial' = Serial /\ Collected' = Collected
    BY DEF Serial, Collected
  <1>2. \A k : Unplanned(k)' = Unplanned(k)
    BY DEF Unplanned
  <1>3. UnplannedSoFar' = UnplannedSoFar
    BY <1>2 DEF UnplannedSoFar
  <1>4. \A j : Draws(j)' = Draws(j)
    BY DEF Draws
  <1>5. DrawnInv'
    <2>1. ASSUME Serial, NEW j \in DOMAIN batch \ Collected, Draws(j),
                 at'[j] \in {"counting", "working", "stored", "done"}
          PROVE  mode'[j] = Cycle[(UnplannedSoFar % Len(Cycle)) + 1]
      BY <2>1 DEF DrawnInv
    <2> QED
      BY <1>1, <1>3, <1>4, <2>1 DEF DrawnInv
  <1>6. ASSUME NEW k \in DOMAIN results PROVE mode'[results[k].request] = mode[results[k].request]
    <2>1. results[k] \in Answers
      BY LenProperties, ElementOfSeq DEF DispatchInv, TypeInv
    <2>2. results[k].request \in DOMAIN batch /\ results[k].request \in Collected
      BY <2>1 DEF Answers, Collected
    <2>3. results[k].request # i
      BY <2>2 DEF DispatchInv, PlaceInv
    <2> QED
      BY <2>2, <2>3
  <1>7. SerialIsDeterministic'
    BY <1>1, <1>2, <1>6 DEF SerialIsDeterministic
  <1> QED
    BY <1>5, <1>7

LEMMA DrawnCollect ==
  ASSUME DispatchInv, DispatchInv', DrawnInv, SerialIsDeterministic, Collect
  PROVE  DrawnInv' /\ SerialIsDeterministic'
  <1> DEFINE h == Head(finished)
             i == h.request
             n == Len(results)
  <1>1. /\ h \in Answers /\ i \in Opened \ Collected /\ Collected' = Collected \cup {i}
    BY CollectInv
  <1>2. /\ results' = Append(results, h)
        /\ UNCHANGED <<policy, concurrent, batch, pool, at, mode>>
    BY DEF Collect, planVars, workVars
  <1>3. TypeInv /\ PlaceInv
    BY DEF DispatchInv
  <1>4. i \in Requests(finished)
    <2>1. Requests(finished) = {i} \cup Requests(Tail(finished))
      BY <1>3, HeadAndTail DEF TypeInv, Collect
    <2> QED
      BY <2>1
  <1> HIDE DEF h
  <1>5. /\ n \in Nat /\ DOMAIN results = 1 .. n /\ DOMAIN (results') = 1 .. n + 1
        /\ \A k \in DOMAIN results : results'[k] = results[k]
        /\ results'[n + 1] = h
    <2> DEFINE t == Append(results, h)
    <2>1. /\ n \in Nat /\ DOMAIN results = 1 .. n /\ DOMAIN t = 1 .. n + 1
          /\ \A k \in DOMAIN results : t[k] = results[k]
          /\ t[n + 1] = h
      BY <1>1, <1>3, Appending DEF TypeInv
    <2>2. results' = t
      BY <1>2
    <2> HIDE DEF t, n
    <2> QED
      BY <2>1, <2>2
  <1> HIDE DEF n
  <1>6. Serial' = Serial /\ Opened' = Opened /\ i \in DOMAIN batch /\ at[i] = "done"
    BY <1>1, <1>2, <1>3, <1>4 DEF Serial, Opened, Answers, PlaceInv
  <1>7. \A k \in DOMAIN results : Unplanned(k)' = Unplanned(k)
    BY <1>2, <1>5 DEF Unplanned
  <1>8. DrawnInv'
    <2> SUFFICES ASSUME Serial, NEW j \in DOMAIN batch, j \notin Collected',
                        at[j] \in {"counting", "working", "stored", "done"}
                 PROVE  FALSE
      BY <1>2, <1>6 DEF DrawnInv
    <2>1. j \in Opened
      BY <1>1, <1>3 DEF PlaceInv, Executing
    <2>2. j = i
      BY <1>1, <2>1, OneAtATime
    <2> QED
      BY <1>1, <2>2
  <1>9. ASSUME Serial, Cycle # <<>>, NEW k \in DOMAIN (results'), Unplanned(k)'
        PROVE  LET before == Cardinality({l \in 1 .. k - 1 : Unplanned(l)'})
               IN  mode[results'[k].request] = Cycle[(before % Len(Cycle)) + 1]
    <2>1. {l \in 1 .. k - 1 : Unplanned(l)'} = {l \in 1 .. k - 1 : Unplanned(l)}
      <3>1. \A l \in 1 .. k - 1 : l \in DOMAIN results
        BY <1>5
      <3> QED
        BY <1>7, <3>1
    <2>2. CASE k \in DOMAIN results
      BY <1>5, <1>7, <1>9, <2>1, <2>2 DEF SerialIsDeterministic
    <2>3. CASE k = n + 1
      <3>1. {l \in 1 .. k - 1 : Unplanned(l)} = {l \in DOMAIN results : Unplanned(l)}
        <4>1. 1 .. k - 1 = DOMAIN results
          BY <1>5, <2>3
        <4> QED
          BY <4>1
      <3>2. Draws(i)
        BY <1>2, <1>5, <1>9, <2>3 DEF Unplanned, Draws
      <3>3. mode[i] = Cycle[(UnplannedSoFar % Len(Cycle)) + 1]
        BY <1>1, <1>6, <1>9, <3>2 DEF DrawnInv
      <3> QED
        BY <1>5, <2>1, <2>3, <3>1, <3>3 DEF UnplannedSoFar
    <2> QED
      BY <1>5, <2>2, <2>3
  <1>10. SerialIsDeterministic'
    BY <1>2, <1>6, <1>9 DEF SerialIsDeterministic
  <1> QED
    BY <1>8, <1>10

LEMMA DrawnNext ==
  ASSUME DispatchInv, DispatchInv', DrawnInv, SerialIsDeterministic, [Next]_vars
  PROVE  DrawnInv' /\ SerialIsDeterministic'
  <1>1. TypeInv /\ PlaceInv /\ CountInv
    BY DEF DispatchInv
  <1>2. CASE UNCHANGED <<policy, concurrent, batch, at, mode, results>>
    BY <1>2, DrawnStays
  <1>3. CASE Collect
    BY <1>3, DrawnCollect
  <1>4. CASE PlanAll \/ BuildWave \/ WavesBuilt \/ OpenPool \/ Watch \/ ClosePool \/ Return
    BY <1>2, <1>4 DEF PlanAll, BuildWave, WavesBuilt, OpenPool, Watch, ClosePool, Return, workVars
  <1>5. CASE Start
    <2> DEFINE i == Head(queue)
    <2>1. PICK v \in {"reading", "working"} :
            at' = [at EXCEPT ![i] = v] /\ (Draws(i) => v = "reading")
      BY <1>5, StartInv
    <2>2. i \in DOMAIN batch /\ at[i] = "waiting"
      <3>1. queue # <<>>
        BY <1>5 DEF Start
      <3> QED
        BY <1>1, <1>5, <3>1, HeadAndTail, StartInv DEF TypeInv
    <2>3. mode' = [mode EXCEPT ![i] = batch[i].planned]
          /\ UNCHANGED <<policy, concurrent, batch, results>>
      BY <1>5 DEF Start
    <2> HIDE DEF i
    <2>4. /\ at'[i] = v
          /\ \A j \in DOMAIN batch : j # i => at'[j] = at[j] /\ mode'[j] = mode[j]
      BY <1>1, <2>1, <2>2, <2>3 DEF TypeInv
    <2> QED
      BY <2>1, <2>2, <2>3, <2>4, DrawnStep
  <1>6. ASSUME NEW i \in DOMAIN batch, ReadCount(i) PROVE DrawnInv' /\ SerialIsDeterministic'
    <2> DEFINE m == Cycle[(calls % Len(Cycle)) + 1]
    <2>1. /\ at[i] = "reading" /\ at' = [at EXCEPT ![i] = "counting"]
          /\ mode' = [mode EXCEPT ![i] = m]
          /\ UNCHANGED <<policy, concurrent, batch, results>>
      BY <1>6 DEF ReadCount
    <2>2. Serial => m = Cycle[(UnplannedSoFar % Len(Cycle)) + 1]
      BY <2>1, CounterIsExact
    <2> HIDE DEF m
    <2>3. /\ mode'[i] = m
          /\ \A j \in DOMAIN batch : j # i => at'[j] = at[j] /\ mode'[j] = mode[j]
      BY <1>1, <2>1 DEF TypeInv
    <2> QED
      BY <2>1, <2>2, <2>3, DrawnStep
  <1>7. ASSUME NEW i \in DOMAIN batch, AdvanceCount(i) \/ Submit(i) \/ Poll(i)
        PROVE  DrawnInv' /\ SerialIsDeterministic'
    <2>1. /\ at[i] \in {"counting", "working", "stored"}
          /\ \E v \in {"working", "stored", "done"} : at' = [at EXCEPT ![i] = v]
          /\ UNCHANGED <<policy, concurrent, batch, mode, results>>
      BY <1>7 DEF AdvanceCount, Submit, Poll
    <2>2. \A j \in DOMAIN batch : j # i => at'[j] = at[j] /\ mode'[j] = mode[j]
      BY <1>1, <2>1 DEF TypeInv
    <2>3. i \notin Collected
      BY <1>1, <2>1 DEF PlaceInv
    <2>4. Serial /\ Draws(i) => mode'[i] = Cycle[(UnplannedSoFar % Len(Cycle)) + 1]
      BY <2>1, <2>3 DEF DrawnInv
    <2> QED
      BY <2>1, <2>2, <2>4, DrawnStep
  <1>8. CASE \E i \in Positions : Thread(i)
    BY <1>6, <1>7, <1>8 DEF Thread
  <1>9. CASE Returned \/ UNCHANGED vars
    BY <1>2, <1>9 DEF Returned, vars, workVars
  <1> QED
    BY <1>3, <1>4, <1>5, <1>8, <1>9 DEF Next, Dispatcher

(* Where requests run one after the other, the k-th request without a      *)
(* planned mode gets the k-th entry of the cycle (SerialIsDeterministic).  *)
THEOREM SerialDrawsInOrder == Spec => []SerialIsDeterministic
  <1>1. Init => DrawnInv /\ SerialIsDeterministic
    <2> SUFFICES ASSUME Init PROVE DrawnInv /\ SerialIsDeterministic
      OBVIOUS
    <2>1. DOMAIN results = {} /\ \A i \in DOMAIN batch : at[i] = "waiting"
      BY EmptySeq DEF Init
    <2> QED
      BY <2>1 DEF DrawnInv, SerialIsDeterministic
  <1>2. DispatchInv /\ DispatchInv' /\ DrawnInv /\ SerialIsDeterministic /\ [Next]_vars
          => DrawnInv' /\ SerialIsDeterministic'
    BY DrawnNext
  <1> QED
    BY <1>1, <1>2, InvariantHolds, PTL DEF Spec
=============================================================================
