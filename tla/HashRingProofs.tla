--------------------------- MODULE HashRingProofs ---------------------------
(***************************************************************************)
(* Proofs about HashRing, for every ring, every placement of any hosts and *)
(* any number of replicas: a key is routed to its nearest hosts, a change  *)
(* of membership moves no replicas but those it must, and, where the plans *)
(* are right, no replica loses a value.                                    *)
(***************************************************************************)
EXTENDS HashRing, FiniteSetTheorems, SequenceTheorems, TLAPS

-----------------------------------------------------------------------------
(* Ranks.                                                                  *)

\* The numbers of RingAssumption.
LEMMA Sizes == RingMax \in Nat /\ N \in Nat /\ N >= 2
BY RingAssumption

\* The first m of a sequence.
Firsts(w, m) == {w[n] : n \in 1 .. m}

Less(S, f, x) == {y \in S : f[y] < f[x]}

\* Numbers of a finite set that are told apart have the ranks 0 .. |S| - 1.
LEMMA Ranks ==
  ASSUME NEW S, IsFiniteSet(S), NEW f,
         \A x \in S : f[x] \in Nat, \A x, y \in S : f[x] = f[y] => x = y
  PROVE  /\ \A x \in S : Cardinality(Less(S, f, x)) \in 0 .. Cardinality(S) - 1
         /\ \A x, y \in S :
              f[x] < f[y] => Cardinality(Less(S, f, x)) < Cardinality(Less(S, f, y))
         /\ \A k \in 0 .. Cardinality(S) - 1 :
              \E x \in S : Cardinality(Less(S, f, x)) = k
<1>1. Cardinality(S) \in Nat
  BY FS_CardinalityType
<1>2. ASSUME NEW A \in SUBSET S, NEW x \in S, x \notin A
      PROVE  Cardinality(A) \in 0 .. Cardinality(S) - 1
  <2>1. IsFiniteSet(A) /\ Cardinality(A) \in Nat
    BY FS_Subset, FS_CardinalityType
  <2>2. Cardinality(A) <= Cardinality(S) /\ (Cardinality(S) = Cardinality(A) => S = A)
    BY FS_Subset
  <2> QED
    BY <1>1, <1>2, <2>1, <2>2
<1>3. ASSUME NEW x \in S
      PROVE  Cardinality(Less(S, f, x)) \in 0 .. Cardinality(S) - 1
  <2>1. f[x] \in Nat
    OBVIOUS
  <2>2. ~(f[x] < f[x])
    BY <2>1
  <2>3. Less(S, f, x) \in SUBSET S /\ x \notin Less(S, f, x)
    BY <2>2 DEF Less
  <2> QED
    BY <1>2, <2>3
<1>4. ASSUME NEW x \in S, NEW y \in S, f[x] < f[y]
      PROVE  Cardinality(Less(S, f, x)) < Cardinality(Less(S, f, y))
  <2>1. f[x] \in Nat /\ f[y] \in Nat
    OBVIOUS
  <2>2. ~(f[x] < f[x])
    BY <2>1
  <2>3. ASSUME NEW z \in S, f[z] < f[x]
        PROVE  f[z] < f[y]
    <3>1. f[z] \in Nat
      OBVIOUS
    <3> QED
      BY <1>4, <2>1, <2>3, <3>1
  <2>4. /\ Less(S, f, x) \in SUBSET Less(S, f, y) /\ Less(S, f, y) \in SUBSET S
        /\ x \in Less(S, f, y) /\ x \notin Less(S, f, x)
    BY <1>4, <2>2, <2>3 DEF Less
  <2>5. IsFiniteSet(Less(S, f, y)) /\ IsFiniteSet(Less(S, f, x))
    BY <2>4, FS_Subset
  <2>6. /\ Cardinality(Less(S, f, x)) <= Cardinality(Less(S, f, y))
        /\ Cardinality(Less(S, f, y)) = Cardinality(Less(S, f, x))
             => Less(S, f, y) = Less(S, f, x)
    BY <2>4, <2>5, FS_Subset
  <2>7. Cardinality(Less(S, f, x)) \in Nat /\ Cardinality(Less(S, f, y)) \in Nat
    BY <2>5, FS_CardinalityType
  <2> QED
    BY <2>4, <2>6, <2>7
<1>5. ASSUME NEW k \in 0 .. Cardinality(S) - 1,
             \A x \in S : Cardinality(Less(S, f, x)) # k
      PROVE  FALSE
  <2> DEFINE rank == [x \in S |-> Cardinality(Less(S, f, x))]
             All == 0 .. Cardinality(S) - 1
             T == All \ {k}
  <2>1. rank \in [S -> T]
    BY <1>3, <1>5
  <2>2. ASSUME NEW x \in S, NEW y \in S, rank[x] = rank[y]
        PROVE  x = y
    <3>1. f[x] \in Nat /\ f[y] \in Nat
      OBVIOUS
    <3>2. rank[x] \in Int /\ rank[y] \in Int
      BY <1>3
    <3>3. /\ f[x] < f[y] => rank[x] < rank[y]
          /\ f[y] < f[x] => rank[y] < rank[x]
      BY <1>4
    <3> HIDE DEF rank
    <3>4. f[x] = f[y]
      BY <2>2, <3>1, <3>2, <3>3
    <3> QED
      BY <3>4
  <2>3. rank \in Injection(S, T)
    BY <2>1, <2>2 DEF Injection, IsInjective
  <2>4. 0 \in Int /\ Cardinality(S) - 1 \in Int
    BY <1>1
  <2>5. IsFiniteSet(All)
    BY <2>4, FS_Interval
  <2>6. Cardinality(All) = Cardinality(S)
    <3>1. Cardinality(All) = IF 0 > Cardinality(S) - 1 THEN 0
                                                       ELSE Cardinality(S) - 1 - 0 + 1
      BY <2>4, FS_Interval
    <3> QED
      BY <1>1, <1>5, <3>1
  <2>7. k \in All
    OBVIOUS
  <2> HIDE DEF rank, All
  <2>8. IsFiniteSet(T) /\ Cardinality(T) = Cardinality(S) - 1
    <3>1. IsFiniteSet(All \ {k})
      BY <2>5, FS_RemoveElement
    <3>2. Cardinality(All \ {k}) = Cardinality(All) - 1
      BY <2>5, <2>7, FS_RemoveElement
    <3> QED
      BY <2>6, <3>1, <3>2
  <2>9. Cardinality(S) <= Cardinality(T)
    BY <2>3, <2>8, FS_Injection
  <2> QED
    BY <1>1, <2>8, <2>9
<1> QED
  BY <1>3, <1>4, <1>5

\* A nonempty finite set of natural numbers has a least and a greatest.
LEMMA Extremes ==
  ASSUME NEW S \in SUBSET Nat, IsFiniteSet(S), S # {}
  PROVE  /\ Min(S) \in S /\ \A y \in S : Min(S) <= y
         /\ \E x \in S : \A y \in S : y <= x
<1> DEFINE f == [x \in S |-> x]
<1>1. \A x \in S : f[x] \in Nat
  OBVIOUS
<1>2. \A x, y \in S : f[x] = f[y] => x = y
  OBVIOUS
<1>3. Cardinality(S) \in Nat /\ Cardinality(S) # 0
  BY FS_CardinalityType, FS_EmptySet
<1>4. \A x, y \in S : x <= y \/ y < x
  OBVIOUS
<1>5. \A x, y \in S : f[x] < f[y] <=> x < y
  OBVIOUS
<1> HIDE DEF f
<1>6. /\ \A x \in S : Cardinality(Less(S, f, x)) \in 0 .. Cardinality(S) - 1
      /\ \A x, y \in S :
           f[x] < f[y] => Cardinality(Less(S, f, x)) < Cardinality(Less(S, f, y))
      /\ \A k \in 0 .. Cardinality(S) - 1 :
           \E x \in S : Cardinality(Less(S, f, x)) = k
  BY <1>1, <1>2, Ranks
<1>7. PICK x \in S : Cardinality(Less(S, f, x)) = 0
  BY <1>3, <1>6
<1>8. PICK z \in S : Cardinality(Less(S, f, z)) = Cardinality(S) - 1
  <2>1. Cardinality(S) - 1 \in 0 .. Cardinality(S) - 1
    BY <1>3
  <2> QED
    BY <1>6, <2>1
<1>9. \A y \in S : x <= y
  <2>1. IsFiniteSet(Less(S, f, x))
    <3>1. Less(S, f, x) \in SUBSET S
      BY DEF Less
    <3> QED
      BY <3>1, FS_Subset
  <2>2. Less(S, f, x) = {}
    BY <1>7, <2>1, FS_EmptySet
  <2>3. \A y \in S : ~(y < x)
    BY <1>5, <2>2 DEF Less
  <2> QED
    BY <1>4, <2>3
<1>10. \A y \in S : y <= z
  <2>1. ASSUME NEW y \in S, z < y
        PROVE  FALSE
    <3>1. Cardinality(S) - 1 < Cardinality(Less(S, f, y))
      BY <1>5, <1>6, <1>8, <2>1
    <3>2. Cardinality(Less(S, f, y)) \in 0 .. Cardinality(S) - 1
      BY <1>6
    <3> QED
      BY <1>3, <3>1, <3>2
  <2> QED
    BY <1>4, <2>1
<1>11. \E a \in S : \A y \in S : a =< y
  BY <1>9
<1>12. Min(S) \in S /\ \A y \in S : Min(S) =< y
  BY <1>11 DEF Min
<1> QED
  BY <1>10, <1>12

\* Ranked lists a finite set in the order of the distances, each member once,
\* and its first m members are those that are no farther than the last of them.
LEMMA RankedOrder ==
  ASSUME NEW S, IsFiniteSet(S), NEW f,
         \A x \in S : f[x] \in Nat, \A x, y \in S : f[x] = f[y] => x = y,
         NEW w, w = Ranked(S, f)
  PROVE  /\ w \in [1 .. Cardinality(S) -> S]
         /\ IsInjective(w)
         /\ \A i, j \in 1 .. Cardinality(S) : i <= j => f[w[i]] <= f[w[j]]
         /\ \A m \in 1 .. Cardinality(S) :
              /\ Firsts(w, m) = {x \in S : f[x] <= f[w[m]]}
              /\ IsFiniteSet(Firsts(w, m))
              /\ Cardinality(Firsts(w, m)) = m
<1> DEFINE c == Cardinality(S)
<1>1. c \in Nat
  BY FS_CardinalityType
<1> HIDE DEF c
<1>2. /\ \A x \in S : Cardinality(Less(S, f, x)) \in 0 .. c - 1
      /\ \A x, y \in S :
           f[x] < f[y] => Cardinality(Less(S, f, x)) < Cardinality(Less(S, f, y))
      /\ \A k \in 0 .. c - 1 : \E x \in S : Cardinality(Less(S, f, x)) = k
  BY Ranks DEF c
<1>3. w = [n \in 1 .. c |-> CHOOSE x \in S : Cardinality(Less(S, f, x)) = n - 1]
  BY DEF Ranked, Less, c
<1>4. ASSUME NEW n \in 1 .. c
      PROVE  w[n] \in S /\ Cardinality(Less(S, f, w[n])) = n - 1
  <2>1. n - 1 \in 0 .. c - 1
    BY <1>1
  <2>2. \E x \in S : Cardinality(Less(S, f, x)) = n - 1
    BY <1>2, <2>1
  <2>3. w[n] = CHOOSE x \in S : Cardinality(Less(S, f, x)) = n - 1
    BY <1>3
  <2> QED
    BY <2>2, <2>3
<1>5. w \in [1 .. c -> S]
  BY <1>3, <1>4
<1>6. ASSUME NEW i \in 1 .. c, NEW j \in 1 .. c
      PROVE  i <= j <=> f[w[i]] <= f[w[j]]
  <2>1. w[i] \in S /\ w[j] \in S
    BY <1>4
  <2>2. f[w[i]] \in Nat /\ f[w[j]] \in Nat
    BY <2>1
  <2>3. f[w[i]] < f[w[j]] => i - 1 < j - 1
    BY <1>2, <1>4, <2>1
  <2>4. f[w[j]] < f[w[i]] => j - 1 < i - 1
    BY <1>2, <1>4, <2>1
  <2>5. f[w[i]] = f[w[j]] => i - 1 = j - 1
    <3>1. f[w[i]] = f[w[j]] => w[i] = w[j]
      BY <2>1
    <3> QED
      BY <1>4, <3>1
  <2> QED
    BY <2>2, <2>3, <2>4, <2>5
<1>7. IsInjective(w)
  <2>1. ASSUME NEW i \in 1 .. c, NEW j \in 1 .. c, w[i] = w[j]
        PROVE  i = j
    <3>1. f[w[i]] \in Nat
      BY <1>4
    <3> QED
      BY <1>6, <2>1, <3>1
  <2> QED
    BY <1>5, <2>1 DEF IsInjective
<1>8. ASSUME NEW m \in 1 .. c
      PROVE  /\ Firsts(w, m) = {x \in S : f[x] <= f[w[m]]}
             /\ IsFiniteSet(Firsts(w, m))
             /\ Cardinality(Firsts(w, m)) = m
  <2> DEFINE A == Less(S, f, w[m])
             B == Firsts(w, m)
  <2>0. B = {w[n] : n \in 1 .. m}
    BY DEF Firsts
  <2>1. w[m] \in S /\ f[w[m]] \in Nat /\ Cardinality(A) = m - 1
    BY <1>4
  <2>2. ASSUME NEW x \in S
        PROVE  \E n \in 1 .. c : x = w[n]
    <3>1. Cardinality(Less(S, f, x)) \in 0 .. c - 1
      BY <1>2
    <3>2. PICK n \in 1 .. c : Cardinality(Less(S, f, x)) = n - 1
      <4>1. /\ Cardinality(Less(S, f, x)) + 1 \in 1 .. c
            /\ Cardinality(Less(S, f, x)) = (Cardinality(Less(S, f, x)) + 1) - 1
        BY <1>1, <3>1
      <4> QED
        BY <4>1
    <3>3. w[n] \in S /\ Cardinality(Less(S, f, w[n])) = n - 1
      BY <1>4
    <3>4. f[x] \in Nat /\ f[w[n]] \in Nat
      BY <3>3
    <3>5. ~(f[x] < f[w[n]]) /\ ~(f[w[n]] < f[x])
      BY <1>2, <3>1, <3>2, <3>3
    <3>6. f[x] = f[w[n]]
      BY <3>4, <3>5
    <3> QED
      BY <3>3, <3>6
  <2>3. B = {x \in S : f[x] <= f[w[m]]}
    <3>1. ASSUME NEW n \in 1 .. m
          PROVE  w[n] \in S /\ f[w[n]] <= f[w[m]]
      <4>1. n \in 1 .. c /\ n <= m
        BY <1>1
      <4> QED
        BY <1>4, <1>6, <4>1
    <3>2. ASSUME NEW x \in S, f[x] <= f[w[m]]
          PROVE  x \in B
      <4>1. PICK n \in 1 .. c : x = w[n]
        BY <2>2
      <4>2. n <= m
        BY <1>6, <3>2, <4>1
      <4>3. n \in 1 .. m
        BY <1>1, <4>2
      <4> QED
        BY <2>0, <4>1, <4>3
    <3> QED
      BY <2>0, <3>1, <3>2
  <2>4. B = A \cup {w[m]}
    <3>1. ASSUME NEW x \in S
          PROVE  f[x] <= f[w[m]] <=> (f[x] < f[w[m]] \/ x = w[m])
      <4>1. f[x] \in Nat
        OBVIOUS
      <4>2. f[x] = f[w[m]] <=> x = w[m]
        BY <2>1
      <4> QED
        BY <2>1, <4>1, <4>2
    <3> QED
      BY <2>1, <2>3, <3>1 DEF Less
  <2>5. IsFiniteSet(A) /\ w[m] \notin A
    <3>1. A \in SUBSET S
      BY DEF Less
    <3>2. ~(f[w[m]] < f[w[m]])
      BY <2>1
    <3> QED
      BY <3>1, <3>2, FS_Subset DEF Less
  <2> HIDE DEF A, B
  <2>6. IsFiniteSet(B) /\ Cardinality(B) = m - 1 + 1
    BY <2>1, <2>4, <2>5, FS_AddElement
  <2>7. Cardinality(B) = m
    BY <2>6
  <2> QED
    BY <2>3, <2>6, <2>7 DEF B
<1> QED
  BY <1>5, <1>6, <1>7, <1>8 DEF c

-----------------------------------------------------------------------------
(* The walk around a ring.                                                 *)

\* The remainders of a lap.
LEMMA Remainders ==
  ASSUME NEW M \in Nat, NEW k \in 0 .. M
  PROVE  /\ \A p \in 0 .. M :
              (p - k - 1) % (M + 1) = IF p > k THEN p - k - 1 ELSE p - k + M
         /\ \A e \in 1 .. M + 1 :
              (k + e) % (M + 1) = IF k + e <= M THEN k + e ELSE k + e - M - 1
OBVIOUS

\* The way is less than a lap, and no two places are as far.
LEMMA WayIs ==
  ASSUME NEW k \in Hash, NEW p \in Hash
  PROVE  /\ Way(k, p) = IF p > k THEN p - k - 1 ELSE p - k + RingMax
         /\ Way(k, p) \in 0 .. RingMax
         /\ \A q \in Hash : Way(k, p) = Way(k, q) => p = q
<1>1. RingMax \in Nat /\ k \in 0 .. RingMax /\ p \in 0 .. RingMax
  BY Sizes DEF Hash
<1>2. \A q \in 0 .. RingMax :
        Way(k, q) = IF q > k THEN q - k - 1 ELSE q - k + RingMax
  BY <1>1, Remainders DEF Way
<1>3. Way(k, p) \in 0 .. RingMax
  BY <1>1, <1>2
<1>4. ASSUME NEW q \in 0 .. RingMax, Way(k, p) = Way(k, q)
      PROVE  p = q
  BY <1>1, <1>2, <1>4
<1> QED
  BY <1>1, <1>2, <1>3, <1>4 DEF Hash

\* The hosts met at places less than d from k.
Reached(map, k, d) == {map[p] : p \in {q \in DOMAIN map : Way(k, q) < d}}

\* Far is the way to the nearest place of a host.
LEMMA FarIs ==
  ASSUME NEW map, DOMAIN map \in SUBSET Hash, NEW k \in Hash, NEW id \in Range(map)
  PROVE  \E p \in DOMAIN map :
           /\ map[p] = id /\ Far(map, k, id) = Way(k, p)
           /\ \A q \in DOMAIN map : map[q] = id => Way(k, p) <= Way(k, q)
<1> DEFINE P == {q \in DOMAIN map : map[q] = id}
           D == {Way(k, p) : p \in P}
<1>1. PICK a \in DOMAIN map : map[a] = id
  BY DEF Range
<1>2. ASSUME NEW p \in DOMAIN map
      PROVE  Way(k, p) \in 0 .. RingMax
  <2>1. p \in Hash
    OBVIOUS
  <2> QED
    BY <2>1, WayIs
<1>3. D \in SUBSET (0 .. RingMax) /\ D # {}
  BY <1>1, <1>2
<1>4. RingMax \in Nat
  BY Sizes
<1>5. IsFiniteSet(0 .. RingMax)
  BY <1>4, FS_Interval
<1> HIDE DEF D
<1>6. D \in SUBSET Nat /\ IsFiniteSet(D)
  <2>1. IsFiniteSet(D)
    BY <1>3, <1>5, FS_Subset
  <2> QED
    BY <1>3, <1>4, <2>1
<1>7. Min(D) \in D /\ \A y \in D : Min(D) <= y
  BY <1>3, <1>6, Extremes
<1>8. Far(map, k, id) = Min(D)
  BY DEF Far, D
<1> QED
  BY <1>7, <1>8 DEF D

\* The walk meets every host of the ring once; its first m hosts are all that
\* are met up to some distance.
LEMMA WalkOrder ==
  ASSUME NEW map, DOMAIN map \in SUBSET Hash, IsFiniteSet(Range(map)),
         NEW k \in Hash, NEW w, w = Walk(map, k)
  PROVE  /\ w \in [1 .. Cardinality(Range(map)) -> Range(map)]
         /\ IsInjective(w)
         /\ \A m \in 1 .. Cardinality(Range(map)) :
              /\ \E d \in 1 .. RingMax + 1 :
                   Firsts(w, m) = Reached(map, k, d)
              /\ IsFiniteSet(Firsts(w, m))
              /\ Cardinality(Firsts(w, m)) = m
<1> DEFINE S == Range(map)
           f == [id \in S |-> Far(map, k, id)]
<1>1. ASSUME NEW id \in S
      PROVE  f[id] \in 0 .. RingMax
  <2>1. PICK p \in DOMAIN map : map[p] = id /\ Far(map, k, id) = Way(k, p)
    BY FarIs
  <2>2. p \in Hash
    OBVIOUS
  <2>3. Way(k, p) \in 0 .. RingMax
    BY <2>2, WayIs
  <2> QED
    BY <2>1, <2>3
<1>2. ASSUME NEW i \in S, NEW j \in S, f[i] = f[j]
      PROVE  i = j
  <2>1. PICK p \in DOMAIN map : map[p] = i /\ Far(map, k, i) = Way(k, p)
    BY FarIs
  <2>2. PICK q \in DOMAIN map : map[q] = j /\ Far(map, k, j) = Way(k, q)
    BY FarIs
  <2>3. p \in Hash /\ q \in Hash /\ Way(k, p) = Way(k, q)
    BY <1>2, <2>1, <2>2
  <2>4. p = q
    BY <2>3, WayIs
  <2> QED
    BY <2>1, <2>2, <2>4
<1>3. RingMax \in Nat
  BY Sizes
<1>4. w = Ranked(S, f)
  BY DEF Walk
<1>5. \A id \in S : f[id] \in Nat
  BY <1>1, <1>3
<1>6. ASSUME NEW D \in 0 .. RingMax
      PROVE  {x \in S : f[x] <= D} = Reached(map, k, D + 1)
  <2>1. ASSUME NEW x \in S, f[x] <= D
        PROVE  x \in Reached(map, k, D + 1)
    <3>1. PICK p \in DOMAIN map : map[p] = x /\ Far(map, k, x) = Way(k, p)
      BY FarIs
    <3>2. Way(k, p) \in 0 .. RingMax /\ Way(k, p) <= D
      BY <1>1, <2>1, <3>1
    <3>3. Way(k, p) < D + 1
      BY <1>3, <3>2
    <3> QED
      BY <3>1, <3>3 DEF Reached
  <2>2. ASSUME NEW q \in DOMAIN map, Way(k, q) < D + 1
        PROVE  map[q] \in S /\ f[map[q]] <= D
    <3>1. map[q] \in S
      BY DEF Range
    <3>2. PICK p \in DOMAIN map :
            Far(map, k, map[q]) = Way(k, p) /\ Way(k, p) <= Way(k, q)
      BY <3>1, FarIs
    <3>3. p \in Hash /\ q \in Hash
      OBVIOUS
    <3>4. Way(k, p) \in 0 .. RingMax /\ Way(k, q) \in 0 .. RingMax
      BY <3>3, WayIs
    <3>5. f[map[q]] = Way(k, p)
      BY <3>1, <3>2
    <3>6. Way(k, p) <= D
      BY <1>3, <2>2, <3>2, <3>4
    <3> QED
      BY <3>1, <3>5, <3>6
  <2> HIDE DEF f
  <2> QED
    BY <2>1, <2>2 DEF Reached
<1> HIDE DEF f, S
<1>7. IsFiniteSet(S)
  BY DEF S
<1>8. /\ w \in [1 .. Cardinality(S) -> S]
      /\ IsInjective(w)
      /\ \A m \in 1 .. Cardinality(S) :
           /\ Firsts(w, m) = {x \in S : f[x] <= f[w[m]]}
           /\ IsFiniteSet(Firsts(w, m))
           /\ Cardinality(Firsts(w, m)) = m
  <2>1. \A x, y \in S : f[x] = f[y] => x = y
    BY <1>2
  <2> QED
    BY <1>4, <1>5, <1>7, <2>1, RankedOrder
<1>9. ASSUME NEW m \in 1 .. Cardinality(S)
      PROVE  \E d \in 1 .. RingMax + 1 : Firsts(w, m) = Reached(map, k, d)
  <2>1. f[w[m]] \in 0 .. RingMax
    BY <1>1, <1>8
  <2>2. Firsts(w, m) = Reached(map, k, f[w[m]] + 1)
    BY <1>6, <1>8, <2>1
  <2>3. f[w[m]] + 1 \in 1 .. RingMax + 1
    BY <1>3, <2>1
  <2> QED
    BY <2>2, <2>3
<1> QED
  BY <1>8, <1>9 DEF S

-----------------------------------------------------------------------------
(* The rings of lists of hosts.                                            *)

\* On the ring of a list a place is that of the first host that stands there.
LEMMA RingIs ==
  ASSUME NEW L \in Seq(Host)
  PROVE  /\ DOMAIN Ring(L) \in SUBSET Hash
         /\ \A p \in DOMAIN Ring(L) :
              /\ Ring(L)[p] \in 1 .. Len(L)
              /\ p \in vnodes[L[Ring(L)[p]]]
              /\ \A j \in 1 .. Len(L) : p \in vnodes[L[j]] => Ring(L)[p] <= j
         /\ \A p \in Hash, j \in 1 .. Len(L) :
              p \in vnodes[L[j]] => p \in DOMAIN Ring(L)
<1>1. /\ DOMAIN Ring(L) = {q \in Hash : Standing(L, q) # {}}
      /\ \A p \in DOMAIN Ring(L) : Ring(L)[p] = Min(Standing(L, p))
  BY DEF Ring
<1>2. DOMAIN L = 1 .. Len(L) /\ Len(L) \in Nat
  OBVIOUS
<1>3. ASSUME NEW p \in DOMAIN Ring(L)
      PROVE  Ring(L)[p] \in Standing(L, p) /\ \A j \in Standing(L, p) : Ring(L)[p] <= j
  <2>1. Standing(L, p) \in SUBSET (1 .. Len(L)) /\ Standing(L, p) # {}
    BY <1>1, <1>2 DEF Standing
  <2>2. IsFiniteSet(Standing(L, p))
    <3>1. IsFiniteSet(1 .. Len(L))
      BY <1>2, FS_Interval
    <3> QED
      BY <2>1, <3>1, FS_Subset
  <2>3. Standing(L, p) \in SUBSET Nat
    BY <2>1
  <2> QED
    BY <1>1, <2>1, <2>2, <2>3, Extremes
<1>4. \A p : Standing(L, p) = {id \in 1 .. Len(L) : p \in vnodes[L[id]]}
  BY <1>2 DEF Standing
<1>5. DOMAIN Ring(L) \in SUBSET Hash
  BY <1>1
<1>6. ASSUME NEW p \in DOMAIN Ring(L)
      PROVE  /\ Ring(L)[p] \in 1 .. Len(L)
             /\ p \in vnodes[L[Ring(L)[p]]]
             /\ \A j \in 1 .. Len(L) : p \in vnodes[L[j]] => Ring(L)[p] <= j
  BY <1>3, <1>4
<1>7. ASSUME NEW p \in Hash, NEW j \in 1 .. Len(L), p \in vnodes[L[j]]
      PROVE  p \in DOMAIN Ring(L)
  BY <1>1, <1>4, <1>7
<1> QED
  BY <1>5, <1>6, <1>7

\* Every host of the list is on its ring.
LEMMA RingRange ==
  ASSUME NEW L \in Seq(Host), IsInjective(L), vnodes \in Vnodes
  PROVE  /\ Range(Ring(L)) = 1 .. Len(L)
         /\ IsFiniteSet(Range(Ring(L)))
         /\ Cardinality(Range(Ring(L))) = Len(L)
<1>1. /\ vnodes \in [Host -> SUBSET Hash]
      /\ \A h \in Host : \E p \in vnodes[h] : \A g \in Host \ {h} : p \notin vnodes[g]
  BY RingAssumption
<1>2. Len(L) \in Nat /\ DOMAIN L = 1 .. Len(L) /\ \A i \in 1 .. Len(L) : L[i] \in Host
  OBVIOUS
<1>3. ASSUME NEW i \in 1 .. Len(L)
      PROVE  i \in Range(Ring(L))
  <2>1. L[i] \in Host
    BY <1>2
  <2>2. PICK p \in vnodes[L[i]] : \A g \in Host \ {L[i]} : p \notin vnodes[g]
    BY <1>1, <2>1
  <2>3. p \in Hash
    BY <1>1, <2>1
  <2>4. p \in DOMAIN Ring(L)
    BY <2>2, <2>3, RingIs
  <2>5. Ring(L)[p] \in 1 .. Len(L) /\ p \in vnodes[L[Ring(L)[p]]]
    BY <2>4, RingIs
  <2>6. L[Ring(L)[p]] = L[i]
    BY <1>2, <2>2, <2>5
  <2>7. Ring(L)[p] = i
    BY <1>2, <2>5, <2>6 DEF IsInjective
  <2> QED
    BY <2>4, <2>7 DEF Range
<1>4. Range(Ring(L)) = 1 .. Len(L)
  <2>1. \A p \in DOMAIN Ring(L) : Ring(L)[p] \in 1 .. Len(L)
    BY RingIs
  <2> QED
    BY <1>3, <2>1 DEF Range
<1>5. IsFiniteSet(1 .. Len(L)) /\ Cardinality(1 .. Len(L)) = Len(L)
  <2>1. /\ IsFiniteSet(1 .. Len(L))
        /\ Cardinality(1 .. Len(L)) = IF 1 > Len(L) THEN 0 ELSE Len(L) - 1 + 1
    BY <1>2, FS_Interval
  <2> QED
    BY <1>2, <2>1
<1> QED
  BY <1>4, <1>5

\* The hosts with a place less than d from k, and the first m hosts of a walk.
Near(L, k, d) == {L[id] : id \in Reached(Ring(L), k, d)}
Nearest(L, k, m) == {L[Walk(Ring(L), k)[n]] : n \in 1 .. m}

\* The walk on the ring of a list.
LEMMA WalkOfList ==
  ASSUME NEW L \in Seq(Host), IsInjective(L), vnodes \in Vnodes, NEW k \in Hash
  PROVE  /\ Walk(Ring(L), k) \in [1 .. Len(L) -> 1 .. Len(L)]
         /\ IsInjective(Walk(Ring(L), k))
         /\ \A m \in 1 .. Len(L) : \E d \in 1 .. RingMax + 1 :
              Firsts(Walk(Ring(L), k), m) = Reached(Ring(L), k, d)
<1>1. /\ Range(Ring(L)) = 1 .. Len(L)
      /\ IsFiniteSet(Range(Ring(L)))
      /\ Cardinality(Range(Ring(L))) = Len(L)
  BY RingRange
<1>2. DOMAIN Ring(L) \in SUBSET Hash
  BY RingIs
<1> DEFINE ring == Ring(L)
           walk == Walk(ring, k)
<1>3. /\ walk \in [1 .. Cardinality(Range(ring)) -> Range(ring)]
      /\ IsInjective(walk)
      /\ \A m \in 1 .. Cardinality(Range(ring)) :
           /\ \E d \in 1 .. RingMax + 1 :
                Firsts(walk, m) = Reached(ring, k, d)
           /\ IsFiniteSet(Firsts(walk, m))
           /\ Cardinality(Firsts(walk, m)) = m
  <2>1. DOMAIN ring \in SUBSET Hash /\ IsFiniteSet(Range(ring))
    BY <1>1, <1>2
  <2>2. walk = Walk(ring, k)
    OBVIOUS
  <2> HIDE DEF ring, walk
  <2> QED
    BY <2>1, <2>2, WalkOrder
<1> QED
  BY <1>1, <1>3

\* The m nearest hosts are m hosts of the list, and all within some distance.
LEMMA NearestIs ==
  ASSUME NEW L \in Seq(Host), IsInjective(L), vnodes \in Vnodes, NEW k \in Hash,
         NEW m \in 1 .. Len(L)
  PROVE  /\ \E d \in 1 .. RingMax + 1 : Nearest(L, k, m) = Near(L, k, d)
         /\ IsFiniteSet(Nearest(L, k, m)) /\ Cardinality(Nearest(L, k, m)) = m
         /\ Nearest(L, k, m) \in SUBSET Host
<1> DEFINE w == Walk(Ring(L), k)
           f == [n \in 1 .. m |-> L[w[n]]]
           T == Nearest(L, k, m)
<1>1. /\ w \in [1 .. Len(L) -> 1 .. Len(L)]
      /\ IsInjective(w)
      /\ \E d \in 1 .. RingMax + 1 : Firsts(w, m) = Reached(Ring(L), k, d)
  BY WalkOfList
<1>2. Len(L) \in Nat /\ DOMAIN L = 1 .. Len(L) /\ \A i \in 1 .. Len(L) : L[i] \in Host
  OBVIOUS
<1>3. m \in Nat /\ \A n \in 1 .. m : n \in 1 .. Len(L)
  BY <1>2
<1>4. \A n \in 1 .. m : w[n] \in 1 .. Len(L)
  BY <1>1, <1>3
<1>5. T = {L[w[n]] : n \in 1 .. m}
  BY DEF Nearest
<1>6. \E d \in 1 .. RingMax + 1 : T = Near(L, k, d)
  <2>1. PICK d \in 1 .. RingMax + 1 : Firsts(w, m) = Reached(Ring(L), k, d)
    BY <1>1
  <2>2. Near(L, k, d) = {L[id] : id \in Firsts(w, m)}
    BY <2>1 DEF Near
  <2> HIDE DEF w
  <2>3. {L[id] : id \in Firsts(w, m)} = {L[w[n]] : n \in 1 .. m}
    BY DEF Firsts
  <2> QED
    BY <1>5, <2>2, <2>3
<1> HIDE DEF w, T
<1>7. f \in [1 .. m -> T] /\ \A x \in T : \E n \in 1 .. m : f[n] = x
  BY <1>5
<1>8. ASSUME NEW i \in 1 .. m, NEW j \in 1 .. m, f[i] = f[j]
      PROVE  i = j
  <2>1. w[i] = w[j]
    BY <1>2, <1>4, <1>8 DEF IsInjective
  <2>2. DOMAIN w = 1 .. Len(L)
    BY <1>1
  <2> QED
    BY <1>1, <1>3, <2>1, <2>2 DEF IsInjective
<1> HIDE DEF f
<1>9. f \in Surjection(1 .. m, T)
  BY <1>7 DEF Surjection
<1>10. f \in Injection(1 .. m, T)
  BY <1>7, <1>8 DEF Injection, IsInjective
<1>11. IsFiniteSet(1 .. m) /\ Cardinality(1 .. m) = m
  <2>1. /\ IsFiniteSet(1 .. m)
        /\ Cardinality(1 .. m) = IF 1 > m THEN 0 ELSE m - 1 + 1
    BY <1>3, FS_Interval
  <2> QED
    BY <1>3, <2>1
<1>12. IsFiniteSet(T) /\ Cardinality(T) = m
  BY <1>9, <1>10, <1>11, FS_Surjection
<1>13. T \in SUBSET Host
  BY <1>2, <1>4, <1>5
<1> QED
  BY <1>6, <1>12, <1>13 DEF T

\* So many hosts within some distance are the nearest ones.
LEMMA NearestUnique ==
  ASSUME NEW L \in Seq(Host), IsInjective(L), vnodes \in Vnodes, NEW k \in Hash,
         NEW m \in 1 .. Len(L), NEW d \in 1 .. RingMax + 1,
         Cardinality(Near(L, k, d)) = m
  PROVE  Near(L, k, d) = Nearest(L, k, m)
<1>1. PICK e \in 1 .. RingMax + 1 : Nearest(L, k, m) = Near(L, k, e)
  BY NearestIs
<1>2. Cardinality(Near(L, k, e)) = m
  BY <1>1, NearestIs
<1>3. ASSUME NEW a \in 1 .. RingMax + 1
      PROVE  IsFiniteSet(Near(L, k, a))
  <2>1. \A p \in DOMAIN Ring(L) : Ring(L)[p] \in 1 .. Len(L)
    BY RingIs
  <2>2. \A i \in 1 .. Len(L) : L[i] \in Host
    OBVIOUS
  <2>3. Near(L, k, a) \in SUBSET Host
    BY <2>1, <2>2 DEF Near, Reached
  <2>4. IsFiniteSet(Host)
    BY RingAssumption
  <2> QED
    BY <2>3, <2>4, FS_Subset
<1>4. ASSUME NEW a \in 1 .. RingMax + 1, NEW b \in 1 .. RingMax + 1, a <= b
      PROVE  Near(L, k, a) \in SUBSET Near(L, k, b)
  <2>1. ASSUME NEW q \in DOMAIN Ring(L), Way(k, q) < a
        PROVE  Way(k, q) < b
    <3>1. q \in Hash
      BY RingIs
    <3>2. Way(k, q) \in Int
      BY <3>1, WayIs
    <3> QED
      BY <1>4, <2>1, <3>2
  <2>2. Reached(Ring(L), k, a) \in SUBSET Reached(Ring(L), k, b)
    BY <2>1 DEF Reached
  <2> QED
    BY <2>2 DEF Near
<1>5. d <= e \/ e <= d
  OBVIOUS
<1>6. Near(L, k, d) \in SUBSET Near(L, k, e) \/ Near(L, k, e) \in SUBSET Near(L, k, d)
  BY <1>4, <1>5
<1>7. IsFiniteSet(Near(L, k, d)) /\ IsFiniteSet(Near(L, k, e))
  BY <1>3
<1>8. Near(L, k, d) = Near(L, k, e)
  BY <1>2, <1>6, <1>7, FS_Subset
<1> QED
  BY <1>1, <1>8

-----------------------------------------------------------------------------
(* The rings of two lists of which one has a host more.                    *)

\* L1 is L2 without the host at the index i.
Without(L1, L2, i) ==
  /\ Len(L1) = Len(L2) - 1
  /\ \A j \in 1 .. Len(L1) : L1[j] = L2[IF j < i THEN j ELSE j + 1]

\* A host that is appended is the one that the list was without.
LEMMA AppendedIs ==
  ASSUME NEW L \in Seq(Host), NEW h \in Host, IsInjective(L),
         \A id \in 1 .. Len(L) : L[id] # h
  PROVE  /\ Append(L, h) \in Seq(Host) /\ IsInjective(Append(L, h))
         /\ Len(Append(L, h)) = Len(L) + 1
         /\ Append(L, h)[Len(L) + 1] = h
         /\ \A id \in 1 .. Len(L) : Append(L, h)[id] = L[id]
         /\ Without(L, Append(L, h), Len(L) + 1)
<1> DEFINE M == Append(L, h)
<1>1. /\ Len(L) \in Nat /\ DOMAIN L = 1 .. Len(L)
      /\ M \in Seq(Host) /\ Len(M) = Len(L) + 1 /\ DOMAIN M = 1 .. Len(L) + 1
  OBVIOUS
<1>2. M[Len(L) + 1] = h /\ \A id \in 1 .. Len(L) : M[id] = L[id]
  OBVIOUS
<1> HIDE DEF M
<1>3. ASSUME NEW i \in 1 .. Len(L) + 1, NEW j \in 1 .. Len(L) + 1, M[i] = M[j]
      PROVE  i = j
  <2>1. i \in 1 .. Len(L) \/ i = Len(L) + 1
    BY <1>1
  <2>2. j \in 1 .. Len(L) \/ j = Len(L) + 1
    BY <1>1
  <2> QED
    BY <1>1, <1>2, <1>3, <2>1, <2>2 DEF IsInjective
<1>4. IsInjective(M)
  BY <1>1, <1>3 DEF IsInjective
<1>5. Without(L, M, Len(L) + 1)
  BY <1>1, <1>2 DEF Without
<1> QED
  BY <1>1, <1>2, <1>4, <1>5 DEF M

\* A list from which a host is removed is without it.
LEMMA RemovedIs ==
  ASSUME NEW L \in Seq(Host), NEW i \in 1 .. Len(L), IsInjective(L)
  PROVE  /\ RemoveAt(L, i) \in Seq(Host) /\ IsInjective(RemoveAt(L, i))
         /\ Len(RemoveAt(L, i)) = Len(L) - 1
         /\ Without(RemoveAt(L, i), L, i)
<1> DEFINE A == SubSeq(L, 1, i - 1)
           B == SubSeq(L, i + 1, Len(L))
           M == A \o B
<1>1. Len(L) \in Nat /\ DOMAIN L = 1 .. Len(L) /\ i \in Nat /\ i >= 1 /\ i <= Len(L)
  OBVIOUS
<1>2. A \in Seq(Host) /\ Len(A) = i - 1 /\ \A j \in 1 .. i - 1 : A[j] = L[j]
  BY <1>1
<1>3. /\ B \in Seq(Host) /\ Len(B) = Len(L) - i
      /\ \A j \in 1 .. Len(L) - i : B[j] = L[i + j]
  <2>1. i + 1 \in Int /\ Len(L) \in Int /\ \A j \in i + 1 .. Len(L) : L[j] \in Host
    BY <1>1
  <2>2. /\ B \in Seq(Host)
        /\ Len(B) = IF i + 1 <= Len(L) THEN Len(L) - (i + 1) + 1 ELSE 0
        /\ \A j \in 1 .. Len(L) - (i + 1) + 1 : B[j] = L[i + 1 + j - 1]
    BY <2>1, SubSeqProperties
  <2> HIDE DEF B
  <2>3. Len(B) = Len(L) - i
    <3>1. Len(B) = IF i + 1 <= Len(L) THEN Len(L) - (i + 1) + 1 ELSE 0
      BY <2>2
    <3>2. Len(L) \in Int /\ i \in Int /\ i <= Len(L)
      BY <1>1
    <3> QED
      BY <3>1, <3>2
  <2>4. ASSUME NEW j \in 1 .. Len(L) - i
        PROVE  B[j] = L[i + j]
    <3>1. j \in 1 .. Len(L) - (i + 1) + 1 /\ i + 1 + j - 1 = i + j
      BY <1>1
    <3> QED
      BY <2>2, <3>1
  <2> QED
    BY <2>2, <2>3, <2>4
<1> HIDE DEF A, B
<1>4. /\ M \in Seq(Host) /\ Len(M) = Len(L) - 1 /\ DOMAIN M = 1 .. Len(L) - 1
      /\ \A j \in 1 .. Len(L) - 1 : M[j] = IF j <= Len(A) THEN A[j] ELSE B[j - Len(A)]
  <2>1. /\ M \in Seq(Host) /\ Len(M) = Len(A) + Len(B)
        /\ \A j \in 1 .. Len(A) + Len(B) : M[j] = IF j <= Len(A) THEN A[j]
                                                               ELSE B[j - Len(A)]
    BY <1>2, <1>3, ConcatProperties
  <2>2. Len(A) + Len(B) = Len(L) - 1
    BY <1>1, <1>2, <1>3
  <2>3. DOMAIN M = 1 .. Len(M)
    BY <2>1, LenProperties
  <2> QED
    BY <2>1, <2>2, <2>3
<1>5. ASSUME NEW j \in 1 .. Len(L) - 1
      PROVE  M[j] = L[IF j < i THEN j ELSE j + 1]
  <2>1. CASE j < i
    <3>1. j \in 1 .. i - 1 /\ j \in 1 .. Len(A)
      BY <1>1, <1>2, <2>1
    <3> HIDE DEF M
    <3>2. M[j] = A[j]
      BY <1>1, <1>2, <1>4, <2>1
    <3> QED
      BY <1>2, <2>1, <3>1, <3>2
  <2>2. CASE ~(j < i)
    <3>1. j - (i - 1) \in 1 .. Len(L) - i /\ i + (j - (i - 1)) = j + 1
      BY <1>1, <2>2
    <3> HIDE DEF M
    <3>2. M[j] = B[j - Len(A)]
      BY <1>1, <1>2, <1>4, <2>2
    <3>3. B[j - (i - 1)] = L[i + (j - (i - 1))]
      BY <1>3, <3>1
    <3> QED
      BY <1>2, <2>2, <3>1, <3>2, <3>3
  <2> QED
    BY <2>1, <2>2
<1>6. RemoveAt(L, i) = M
  BY DEF RemoveAt, A, B
<1> HIDE DEF M
<1>7. ASSUME NEW j \in 1 .. Len(L) - 1, NEW k \in 1 .. Len(L) - 1, M[j] = M[k]
      PROVE  j = k
  <2> DEFINE a == IF j < i THEN j ELSE j + 1
             b == IF k < i THEN k ELSE k + 1
  <2>1. a \in 1 .. Len(L) /\ b \in 1 .. Len(L)
    BY <1>1
  <2>2. L[a] = L[b]
    BY <1>5, <1>7
  <2>3. a = b
    <3> HIDE DEF a, b
    <3> QED
      BY <1>1, <2>1, <2>2 DEF IsInjective
  <2> QED
    BY <1>1, <2>3
<1>8. IsInjective(M)
  BY <1>4, <1>7 DEF IsInjective
<1>9. Without(M, L, i)
  BY <1>4, <1>5 DEF Without
<1> QED
  BY <1>4, <1>6, <1>8, <1>9

\* Places of other hosts stay theirs when a host leaves the ring, and what the
\* smaller ring has is a place of another host.
LEMMA PlacesStay ==
  ASSUME NEW L1 \in Seq(Host), NEW L2 \in Seq(Host), IsInjective(L2),
         NEW i \in 1 .. Len(L2), Without(L1, L2, i)
  PROVE  /\ \A q \in DOMAIN Ring(L2) : L2[Ring(L2)[q]] # L2[i] =>
              q \in DOMAIN Ring(L1) /\ L1[Ring(L1)[q]] = L2[Ring(L2)[q]]
         /\ \A q \in DOMAIN Ring(L1) :
              /\ q \in DOMAIN Ring(L2)
              /\ \E j \in 1 .. Len(L2) :
                   j # i /\ L1[Ring(L1)[q]] = L2[j] /\ q \in vnodes[L2[j]]
<1> DEFINE Up(j) == IF j < i THEN j ELSE j + 1
<1>1. /\ Len(L1) \in Nat /\ Len(L2) \in Nat /\ Len(L1) = Len(L2) - 1
      /\ DOMAIN L2 = 1 .. Len(L2)
  BY DEF Without
<1>2. \A j \in 1 .. Len(L1) : Up(j) \in 1 .. Len(L2) /\ Up(j) # i /\ L1[j] = L2[Up(j)]
  BY <1>1 DEF Without
<1>3. \A j, k \in 1 .. Len(L1) : j <= k <=> Up(j) <= Up(k)
  BY <1>1
<1>4. ASSUME NEW j \in 1 .. Len(L2), j # i
      PROVE  \E n \in 1 .. Len(L1) : Up(n) = j
  <2>1. CASE j < i
    <3>1. j \in 1 .. Len(L1) /\ Up(j) = j
      BY <1>1, <2>1
    <3> QED
      BY <3>1
  <2>2. CASE i < j
    <3>1. j - 1 \in 1 .. Len(L1) /\ Up(j - 1) = j
      BY <1>1, <2>2
    <3> QED
      BY <3>1
  <2> QED
    BY <1>4, <2>1, <2>2
<1> HIDE DEF Up
<1>5. ASSUME NEW q \in DOMAIN Ring(L1)
      PROVE  /\ q \in DOMAIN Ring(L2)
             /\ \E j \in 1 .. Len(L2) :
                  j # i /\ L1[Ring(L1)[q]] = L2[j] /\ q \in vnodes[L2[j]]
  <2>1. /\ Ring(L1)[q] \in 1 .. Len(L1) /\ q \in vnodes[L1[Ring(L1)[q]]]
        /\ q \in Hash
    BY RingIs
  <2>2. /\ Up(Ring(L1)[q]) \in 1 .. Len(L2) /\ Up(Ring(L1)[q]) # i
        /\ L1[Ring(L1)[q]] = L2[Up(Ring(L1)[q])]
    BY <1>2, <2>1
  <2>3. q \in vnodes[L2[Up(Ring(L1)[q])]]
    BY <2>1, <2>2
  <2>4. q \in DOMAIN Ring(L2)
    BY <2>1, <2>2, <2>3, RingIs
  <2> QED
    BY <2>2, <2>3, <2>4
<1>6. ASSUME NEW q \in DOMAIN Ring(L2), L2[Ring(L2)[q]] # L2[i]
      PROVE  q \in DOMAIN Ring(L1) /\ L1[Ring(L1)[q]] = L2[Ring(L2)[q]]
  <2> DEFINE j == Ring(L2)[q]
             n == Ring(L1)[q]
  <2>1. /\ j \in 1 .. Len(L2) /\ q \in vnodes[L2[j]] /\ q \in Hash /\ j # i
        /\ \A k \in 1 .. Len(L2) : q \in vnodes[L2[k]] => j <= k
    BY <1>6, RingIs
  <2> HIDE DEF j
  <2>2. PICK m \in 1 .. Len(L1) : Up(m) = j
    BY <1>4, <2>1
  <2>3. q \in vnodes[L1[m]]
    BY <1>2, <2>1, <2>2
  <2>4. q \in DOMAIN Ring(L1)
    BY <2>1, <2>3, RingIs
  <2>5. n \in 1 .. Len(L1) /\ q \in vnodes[L1[n]] /\ n <= m
    BY <2>3, <2>4, RingIs
  <2> HIDE DEF n
  <2>6. q \in vnodes[L2[Up(n)]] /\ Up(n) \in 1 .. Len(L2)
    BY <1>2, <2>5
  <2>7. Up(m) <= Up(n)
    BY <2>1, <2>2, <2>6
  <2>8. m <= n
    BY <1>3, <2>5, <2>7
  <2>9. m = n
    BY <2>5, <2>8
  <2>10. L1[n] = L2[j]
    BY <1>2, <2>2, <2>9
  <2> QED
    BY <2>4, <2>10 DEF j, n
<1> QED
  BY <1>5, <1>6

\* No two hosts have a place in common.
PlacesApart == \A g, h \in Host : g # h => vnodes[g] \cap vnodes[h] = {}

\* What is met within some distance when a host leaves the ring: the same if it
\* was not met, and all but that host if no places are shared.
LEMMA NearWithout ==
  ASSUME NEW L1 \in Seq(Host), NEW L2 \in Seq(Host), IsInjective(L2),
         NEW i \in 1 .. Len(L2), Without(L1, L2, i), NEW k, NEW d
  PROVE  /\ L2[i] \notin Near(L2, k, d) => Near(L1, k, d) = Near(L2, k, d)
         /\ PlacesApart => Near(L1, k, d) = Near(L2, k, d) \ {L2[i]}
<1>1. ASSUME NEW L, NEW x
      PROVE  x \in Near(L, k, d) <=>
               \E q \in DOMAIN Ring(L) : Way(k, q) < d /\ x = L[Ring(L)[q]]
  BY DEF Near, Reached
<1>2. ASSUME NEW x \in Near(L2, k, d), x # L2[i]
      PROVE  x \in Near(L1, k, d)
  <2>1. PICK q \in DOMAIN Ring(L2) : Way(k, q) < d /\ x = L2[Ring(L2)[q]]
    BY <1>1
  <2>2. q \in DOMAIN Ring(L1) /\ L1[Ring(L1)[q]] = L2[Ring(L2)[q]]
    BY <1>2, <2>1, PlacesStay
  <2> QED
    BY <1>1, <2>1, <2>2
<1>3. ASSUME NEW x \in Near(L1, k, d), x \notin Near(L2, k, d) \ {L2[i]}
      PROVE  L2[i] \in Near(L2, k, d) /\ ~PlacesApart
  <2>1. PICK q \in DOMAIN Ring(L1) : Way(k, q) < d /\ x = L1[Ring(L1)[q]]
    BY <1>1
  <2>2. PICK j \in 1 .. Len(L2) : j # i /\ x = L2[j] /\ q \in vnodes[L2[j]]
    BY <2>1, PlacesStay
  <2>3. q \in DOMAIN Ring(L2)
    BY <2>1, PlacesStay
  <2>4. L2[Ring(L2)[q]] = L2[i]
    <3>1. L2[Ring(L2)[q]] # L2[i] => x = L2[Ring(L2)[q]]
      BY <2>1, <2>3, PlacesStay
    <3>2. L2[Ring(L2)[q]] \in Near(L2, k, d)
      BY <1>1, <2>1, <2>3
    <3> QED
      BY <1>3, <3>1, <3>2
  <2>5. L2[i] \in Near(L2, k, d)
    BY <1>1, <2>1, <2>3, <2>4
  <2>6. q \in vnodes[L2[i]]
    BY <2>3, <2>4, RingIs
  <2>7. L2[j] # L2[i] /\ L2[j] \in Host /\ L2[i] \in Host
    <3>1. DOMAIN L2 = 1 .. Len(L2)
      OBVIOUS
    <3> QED
      BY <2>2, <3>1 DEF IsInjective
  <2>8. ~PlacesApart
    BY <2>2, <2>6, <2>7 DEF PlacesApart
  <2> QED
    BY <2>5, <2>8
<1>4. ASSUME PlacesApart
      PROVE  L2[i] \notin Near(L1, k, d)
  <2>1. ASSUME NEW q \in DOMAIN Ring(L1), L1[Ring(L1)[q]] = L2[i]
        PROVE  FALSE
    <3>1. PICK j \in 1 .. Len(L2) : j # i /\ L2[i] = L2[j]
      BY <2>1, PlacesStay
    <3>2. DOMAIN L2 = 1 .. Len(L2)
      OBVIOUS
    <3> QED
      BY <3>1, <3>2 DEF IsInjective
  <2> QED
    BY <1>1, <2>1
<1> QED
  BY <1>2, <1>3, <1>4

\* The m nearest hosts when a host leaves the ring: the same if it was none of
\* them, and one more but that host if it was and no places are shared.
LEMMA NearestWithout ==
  ASSUME NEW L1 \in Seq(Host), NEW L2 \in Seq(Host), IsInjective(L1), IsInjective(L2),
         NEW i \in 1 .. Len(L2), Without(L1, L2, i), vnodes \in Vnodes,
         NEW k \in Hash, NEW m \in 1 .. Len(L1)
  PROVE  /\ L2[i] \notin Nearest(L2, k, m) => Nearest(L1, k, m) = Nearest(L2, k, m)
         /\ PlacesApart /\ L2[i] \in Nearest(L2, k, m + 1) =>
              Nearest(L1, k, m) = Nearest(L2, k, m + 1) \ {L2[i]}
<1>1. m \in 1 .. Len(L2) /\ m + 1 \in 1 .. Len(L2) /\ m \in Nat
  BY DEF Without
<1>2. ASSUME L2[i] \notin Nearest(L2, k, m)
      PROVE  Nearest(L1, k, m) = Nearest(L2, k, m)
  <2>1. PICK d \in 1 .. RingMax + 1 : Nearest(L2, k, m) = Near(L2, k, d)
    BY <1>1, NearestIs
  <2>2. Near(L1, k, d) = Near(L2, k, d)
    BY <1>2, <2>1, NearWithout
  <2>3. Cardinality(Near(L1, k, d)) = m
    BY <1>1, <2>1, <2>2, NearestIs
  <2>4. Near(L1, k, d) = Nearest(L1, k, m)
    BY <2>3, NearestUnique
  <2> QED
    BY <2>1, <2>2, <2>4
<1>3. ASSUME PlacesApart, L2[i] \in Nearest(L2, k, m + 1)
      PROVE  Nearest(L1, k, m) = Nearest(L2, k, m + 1) \ {L2[i]}
  <2>1. PICK d \in 1 .. RingMax + 1 : Nearest(L2, k, m + 1) = Near(L2, k, d)
    BY <1>1, NearestIs
  <2>2. Near(L1, k, d) = Nearest(L2, k, m + 1) \ {L2[i]}
    BY <1>3, <2>1, NearWithout
  <2>3. /\ IsFiniteSet(Nearest(L2, k, m + 1))
        /\ Cardinality(Nearest(L2, k, m + 1)) = m + 1
    BY <1>1, NearestIs
  <2>4. Cardinality(Nearest(L2, k, m + 1) \ {L2[i]}) = Cardinality(Nearest(L2, k, m + 1)) - 1
    BY <1>3, <2>3, FS_RemoveElement
  <2>5. Cardinality(Near(L1, k, d)) = m
    <3>1. Cardinality(Near(L1, k, d)) = m + 1 - 1
      BY <2>2, <2>3, <2>4
    <3> QED
      BY <1>1, <3>1
  <2>6. Near(L1, k, d) = Nearest(L1, k, m)
    BY <2>5, NearestUnique
  <2> QED
    BY <2>2, <2>6
<1> QED
  BY <1>2, <1>3

\* A host that is emplaced last makes the ring of the longer list.
LEMMA EmplacedIs ==
  ASSUME NEW L \in Seq(Host), NEW h \in Host, vnodes \in Vnodes
  PROVE  Emplace(Ring(L), h, Len(L) + 1) = Ring(Append(L, h))
<1> DEFINE M == Append(L, h)
           map == Emplace(Ring(L), h, Len(L) + 1)
<1>1. /\ Len(L) \in Nat /\ M \in Seq(Host) /\ Len(M) = Len(L) + 1
      /\ M[Len(L) + 1] = h /\ \A id \in 1 .. Len(L) : M[id] = L[id]
  OBVIOUS
<1>2. vnodes[h] \in SUBSET Hash
  BY RingAssumption
<1>3. /\ map = [p \in DOMAIN Ring(L) \cup vnodes[h] |->
                  IF p \in DOMAIN Ring(L) THEN Ring(L)[p] ELSE Len(L) + 1]
      /\ DOMAIN map = DOMAIN Ring(L) \cup vnodes[h]
  BY DEF Emplace
<1> HIDE DEF M, map
<1>4. \A j \in 1 .. Len(M) : j \in 1 .. Len(L) \/ j = Len(L) + 1
  BY <1>1
<1>5. \A j \in 1 .. Len(L) : j \in 1 .. Len(M) /\ j < Len(L) + 1
  BY <1>1
<1>6. Len(L) + 1 \in 1 .. Len(M)
  BY <1>1
<1>7. DOMAIN map = DOMAIN Ring(M)
  <2>1. ASSUME NEW p \in DOMAIN Ring(M)
        PROVE  p \in DOMAIN map
    <3>1. p \in Hash /\ Ring(M)[p] \in 1 .. Len(M) /\ p \in vnodes[M[Ring(M)[p]]]
      BY <1>1, RingIs
    <3>2. CASE Ring(M)[p] \in 1 .. Len(L)
      <4>1. p \in vnodes[L[Ring(M)[p]]]
        BY <1>1, <3>1, <3>2
      <4>2. p \in DOMAIN Ring(L)
        BY <3>1, <3>2, <4>1, RingIs
      <4> QED
        BY <1>3, <4>2
    <3>3. CASE Ring(M)[p] = Len(L) + 1
      BY <1>1, <1>3, <3>1, <3>3
    <3> QED
      BY <1>4, <3>1, <3>2, <3>3
  <2>2. ASSUME NEW p \in DOMAIN Ring(L)
        PROVE  p \in DOMAIN Ring(M)
    <3>1. p \in Hash /\ Ring(L)[p] \in 1 .. Len(L) /\ p \in vnodes[L[Ring(L)[p]]]
      BY RingIs
    <3>2. Ring(L)[p] \in 1 .. Len(M) /\ p \in vnodes[M[Ring(L)[p]]]
      BY <1>1, <1>5, <3>1
    <3> QED
      BY <1>1, <3>1, <3>2, RingIs
  <2>3. ASSUME NEW p \in vnodes[h]
        PROVE  p \in DOMAIN Ring(M)
    BY <1>1, <1>2, <1>6, <2>3, RingIs
  <2> QED
    BY <1>3, <2>1, <2>2, <2>3
<1>8. ASSUME NEW p \in DOMAIN Ring(M)
      PROVE  map[p] = Ring(M)[p]
  <2> DEFINE a == Ring(M)[p]
             b == Ring(L)[p]
  <2>1. /\ p \in Hash /\ a \in 1 .. Len(M) /\ p \in vnodes[M[a]]
        /\ \A j \in 1 .. Len(M) : p \in vnodes[M[j]] => a <= j
    BY <1>1, RingIs
  <2> HIDE DEF a
  <2>2. CASE p \in DOMAIN Ring(L)
    <3>1. /\ b \in 1 .. Len(L) /\ p \in vnodes[L[b]]
          /\ \A j \in 1 .. Len(L) : p \in vnodes[L[j]] => b <= j
      BY <2>2, RingIs
    <3> HIDE DEF b
    <3>2. b \in 1 .. Len(M) /\ p \in vnodes[M[b]]
      BY <1>1, <1>5, <3>1
    <3>3. a <= b
      BY <2>1, <3>2
    <3>4. a \in 1 .. Len(L)
      BY <1>1, <2>1, <3>1, <3>3
    <3>5. p \in vnodes[L[a]]
      BY <1>1, <2>1, <3>4
    <3>6. b <= a
      BY <3>1, <3>4, <3>5
    <3>7. a = b
      BY <3>1, <3>3, <3>4, <3>6
    <3>8. map[p] = b
      BY <1>3, <1>7, <2>2 DEF b
    <3> QED
      BY <3>7, <3>8 DEF a
  <2>3. CASE p \notin DOMAIN Ring(L)
    <3>1. a \notin 1 .. Len(L)
      <4>1. ASSUME a \in 1 .. Len(L)
            PROVE  FALSE
        <5>1. p \in vnodes[L[a]]
          BY <1>1, <2>1, <4>1
        <5> QED
          BY <2>1, <2>3, <4>1, <5>1, RingIs
      <4> QED
        BY <4>1
    <3>2. a = Len(L) + 1
      BY <1>4, <2>1, <3>1
    <3>3. map[p] = Len(L) + 1
      BY <1>3, <1>7, <2>3
    <3> QED
      BY <3>2, <3>3 DEF a
  <2> QED
    BY <2>2, <2>3
<1>9. map = [p \in DOMAIN map |-> map[p]]
  BY <1>3
<1>10. Ring(M) = [p \in DOMAIN Ring(M) |-> Ring(M)[p]]
  BY DEF Ring
<1>11. map = Ring(M)
  BY <1>7, <1>8, <1>9, <1>10
<1> QED
  BY <1>11 DEF map, M

\* Met, which counts steps around the ring, is what is met within a distance.
LEMMA MetIs ==
  ASSUME hostList \in Seq(Host), vnodes \in Vnodes, NEW k \in Hash,
         NEW d \in 1 .. RingMax + 1
  PROVE  Met(k, d) = Near(hostList, k, d)
<1> DEFINE L == hostList
           At(e) == (k + e) % (RingMax + 1)
           First(i, p) == /\ p \in vnodes[L[i]]
                          /\ \A j \in 1 .. i - 1 : p \notin vnodes[L[j]]
<1>1. /\ RingMax \in Nat /\ k \in 0 .. RingMax /\ d \in Int /\ d <= RingMax + 1
      /\ L \in Seq(Host) /\ Len(L) \in Nat /\ DOMAIN L = 1 .. Len(L)
  BY Sizes DEF Hash
<1>2. \A e \in 1 .. RingMax + 1 :
        At(e) = IF k + e <= RingMax THEN k + e ELSE k + e - RingMax - 1
  BY <1>1, Remainders
<1>3. Met(k, d) = {L[i] : i \in {j \in 1 .. Len(L) : \E e \in 1 .. d : First(j, At(e))}}
  BY <1>1 DEF Met
<1> HIDE DEF L, At
<1>4. ASSUME NEW e \in 1 .. d
      PROVE  At(e) \in Hash /\ Way(k, At(e)) < d
  <2>1. e \in 1 .. RingMax + 1 /\ e <= d /\ e \in Int
    BY <1>1
  <2>2. At(e) = IF k + e <= RingMax THEN k + e ELSE k + e - RingMax - 1
    BY <1>2, <2>1
  <2>3. At(e) \in 0 .. RingMax
    BY <1>1, <2>1, <2>2
  <2>4. At(e) \in Hash
    BY <2>3 DEF Hash
  <2>5. Way(k, At(e)) = IF At(e) > k THEN At(e) - k - 1 ELSE At(e) - k + RingMax
    BY <2>4, WayIs
  <2>6. Way(k, At(e)) = e - 1
    BY <1>1, <2>1, <2>2, <2>5
  <2> QED
    BY <1>1, <2>1, <2>4, <2>6
<1>5. ASSUME NEW q \in Hash, Way(k, q) < d
      PROVE  \E e \in 1 .. d : At(e) = q
  <2>1. q \in 0 .. RingMax /\ Way(k, q) \in 0 .. RingMax
    BY WayIs DEF Hash
  <2>2. Way(k, q) = IF q > k THEN q - k - 1 ELSE q - k + RingMax
    BY WayIs
  <2>3. Way(k, q) + 1 \in 1 .. d /\ Way(k, q) + 1 \in 1 .. RingMax + 1
    BY <1>1, <1>5, <2>1
  <2>4. At(Way(k, q) + 1) = IF k + (Way(k, q) + 1) <= RingMax
                            THEN k + (Way(k, q) + 1)
                            ELSE k + (Way(k, q) + 1) - RingMax - 1
    BY <1>2, <2>3
  <2>5. At(Way(k, q) + 1) = q
    BY <1>1, <2>1, <2>2, <2>4
  <2> QED
    BY <2>3, <2>5
<1>6. ASSUME NEW i \in 1 .. Len(L), NEW p \in Hash
      PROVE  First(i, p) <=> p \in DOMAIN Ring(L) /\ Ring(L)[p] = i
  <2>1. ASSUME First(i, p)
        PROVE  p \in DOMAIN Ring(L) /\ Ring(L)[p] = i
    <3>1. p \in DOMAIN Ring(L)
      BY <1>1, <2>1, RingIs
    <3>2. /\ Ring(L)[p] \in 1 .. Len(L) /\ p \in vnodes[L[Ring(L)[p]]]
          /\ Ring(L)[p] <= i
      BY <1>1, <2>1, <3>1, RingIs
    <3>3. Ring(L)[p] \notin 1 .. i - 1
      BY <2>1, <3>2
    <3>4. Ring(L)[p] = i
      BY <1>1, <3>2, <3>3
    <3> QED
      BY <3>1, <3>4
  <2>2. ASSUME p \in DOMAIN Ring(L), Ring(L)[p] = i
        PROVE  First(i, p)
    <3>1. p \in vnodes[L[i]] /\ \A j \in 1 .. Len(L) : p \in vnodes[L[j]] => i <= j
      BY <1>1, <2>2, RingIs
    <3>2. \A j \in 1 .. i - 1 : j \in 1 .. Len(L) /\ ~(i <= j)
      BY <1>1
    <3> QED
      BY <3>1, <3>2
  <2> QED
    BY <2>1, <2>2
<1> HIDE DEF First
<1>7. ASSUME NEW i \in 1 .. Len(L)
      PROVE  (\E e \in 1 .. d : First(i, At(e))) <=> i \in Reached(Ring(L), k, d)
  <2>1. ASSUME NEW e \in 1 .. d, First(i, At(e))
        PROVE  i \in Reached(Ring(L), k, d)
    <3>1. At(e) \in DOMAIN Ring(L) /\ Ring(L)[At(e)] = i /\ Way(k, At(e)) < d
      BY <1>4, <1>6, <2>1
    <3> QED
      BY <3>1 DEF Reached
  <2>2. ASSUME i \in Reached(Ring(L), k, d)
        PROVE  \E e \in 1 .. d : First(i, At(e))
    <3>1. PICK q \in DOMAIN Ring(L) : Way(k, q) < d /\ Ring(L)[q] = i
      BY <2>2 DEF Reached
    <3>2. q \in Hash
      BY <1>1, RingIs
    <3>3. PICK e \in 1 .. d : At(e) = q
      BY <1>5, <3>1, <3>2
    <3>4. First(i, q)
      BY <1>6, <3>1, <3>2
    <3> QED
      BY <3>3, <3>4
  <2> QED
    BY <2>1, <2>2
<1>8. \A i \in Reached(Ring(L), k, d) : i \in 1 .. Len(L)
  <2>1. \A p \in DOMAIN Ring(L) : Ring(L)[p] \in 1 .. Len(L)
    BY <1>1, RingIs
  <2> QED
    BY <2>1 DEF Reached
<1>9. {j \in 1 .. Len(L) : \E e \in 1 .. d : First(j, At(e))} = Reached(Ring(L), k, d)
  BY <1>7, <1>8
<1> QED
  BY <1>3, <1>9 DEF Near, L

-----------------------------------------------------------------------------
(* Plans.                                                                  *)

\* The places whose ranges move when the host at the index i comes or goes, and
\* the move of one: to that host, or from another to the next one.
PlacesMoved(L, i) ==
  {p \in DOMAIN Ring(L) : \E n \in 1 .. N : Walk(Ring(L), p)[n] = i}

MoveOf(L, i, p, comes) ==
  LET walk == Walk(Ring(L), p)
      last == L[walk[N + 1]]
  IN  IF comes THEN Move(Ring(L), p, last, L[i], TRUE)
      ELSE Move(Ring(L), p, L[IF walk[1] = i THEN walk[2] ELSE walk[1]], last, FALSE)

\* Succ has a host more than N where the host moved is among the first N.
LEMMA SuccIs ==
  ASSUME NEW map, NEW p, NEW id, NEW walk, walk = Walk(map, p)
  PROVE  /\ Len(Succ(map, p, id)) > N <=> \E n \in 1 .. N : walk[n] = id
         /\ Len(Succ(map, p, id)) > N =>
              /\ Succ(map, p, id) = [n \in 1 .. N + 1 |-> walk[n]]
              /\ Last(Succ(map, p, id)) = walk[N + 1]
              /\ Succ(map, p, id)[1] = walk[1] /\ Succ(map, p, id)[2] = walk[2]
<1> DEFINE M == IF \E n \in 1 .. N : walk[n] = id THEN N + 1 ELSE N
           s == [n \in 1 .. M |-> walk[n]]
<1>1. N \in Nat /\ N >= 2 /\ M \in Nat
  BY Sizes
<1>2. Succ(map, p, id) = s
  BY DEF Succ
<1>3. Len(s) = M
  BY <1>1
<1>4. CASE \E n \in 1 .. N : walk[n] = id
  <2>1. M = N + 1
    BY <1>4
  <2> HIDE DEF M
  <2>2. /\ s = [n \in 1 .. N + 1 |-> walk[n]] /\ Len(s) = N + 1
        /\ s[N + 1] = walk[N + 1] /\ s[1] = walk[1] /\ s[2] = walk[2]
    BY <1>1, <1>3, <2>1
  <2>3. Last(s) = walk[N + 1]
    BY <2>2 DEF Last
  <2>4. Len(s) > N
    BY <1>1, <2>2
  <2> QED
    BY <1>2, <1>4, <2>2, <2>3, <2>4
<1>5. CASE ~\E n \in 1 .. N : walk[n] = id
  <2>1. M = N
    BY <1>5
  <2>2. ~(Len(s) > N)
    BY <1>1, <1>3, <2>1
  <2> QED
    BY <1>2, <1>5, <2>2
<1> QED
  BY <1>4, <1>5

\* The range of a place ends at a place, and no place is nearer.
LEMMA EndIs ==
  ASSUME NEW map, DOMAIN map \in SUBSET Hash, NEW p \in DOMAIN map
  PROVE  End(map, p) \in DOMAIN map /\ \A r \in DOMAIN map : Way(p, End(map, p)) <= Way(p, r)
<1> DEFINE D == {Way(p, r) : r \in DOMAIN map}
<1>1. ASSUME NEW r \in DOMAIN map
      PROVE  Way(p, r) \in 0 .. RingMax
  <2>1. p \in Hash /\ r \in Hash
    OBVIOUS
  <2> QED
    BY <2>1, WayIs
<1>2. RingMax \in Nat
  BY Sizes
<1>3. IsFiniteSet(0 .. RingMax)
  BY <1>2, FS_Interval
<1>4. D \in SUBSET (0 .. RingMax) /\ D # {}
  BY <1>1
<1> HIDE DEF D
<1>5. IsFiniteSet(D)
  BY <1>3, <1>4, FS_Subset
<1>6. D \in SUBSET Nat
  BY <1>2, <1>4
<1>7. Min(D) \in D /\ \A y \in D : Min(D) <= y
  BY <1>4, <1>5, <1>6, Extremes
<1>8. \E q \in DOMAIN map : \A r \in DOMAIN map : Way(p, q) <= Way(p, r)
  BY <1>7 DEF D
<1> QED
  BY <1>8 DEF End

\* The walk on the ring of a list of more than N hosts begins with N + 1 of them.
LEMMA WalkBegins ==
  ASSUME NEW L \in Seq(Host), IsInjective(L), vnodes \in Vnodes, NEW p \in Hash,
         Len(L) > N, NEW walk, walk = Walk(Ring(L), p)
  PROVE  /\ \A n \in 1 .. N + 1 : walk[n] \in 1 .. Len(L) /\ L[walk[n]] \in Host
         /\ \A m, n \in 1 .. N + 1 : L[walk[m]] = L[walk[n]] => m = n
<1>1. N \in Nat /\ Len(L) \in Nat /\ DOMAIN L = 1 .. Len(L)
  BY Sizes
<1>2. walk \in [1 .. Len(L) -> 1 .. Len(L)] /\ IsInjective(walk)
  BY WalkOfList
<1>3. \A n \in 1 .. N + 1 : n \in 1 .. Len(L)
  BY <1>1
<1>4. \A i \in 1 .. Len(L) : L[i] \in Host
  OBVIOUS
<1>5. \A n \in 1 .. N + 1 : walk[n] \in 1 .. Len(L) /\ L[walk[n]] \in Host
  BY <1>2, <1>3, <1>4
<1>6. ASSUME NEW m \in 1 .. N + 1, NEW n \in 1 .. N + 1, L[walk[m]] = L[walk[n]]
      PROVE  m = n
  <2>1. walk[m] = walk[n]
    BY <1>1, <1>5, <1>6 DEF IsInjective
  <2>2. DOMAIN walk = 1 .. Len(L)
    BY <1>2
  <2> QED
    BY <1>2, <1>3, <2>1, <2>2 DEF IsInjective
<1> QED
  BY <1>5, <1>6

\* The moves of a plan are of ranges and between two hosts.
LEMMA MoveIs ==
  ASSUME NEW L \in Seq(Host), IsInjective(L), vnodes \in Vnodes, Len(L) > N,
         NEW i \in 1 .. Len(L), NEW p \in PlacesMoved(L, i), NEW comes \in BOOLEAN,
         NEW m, m = MoveOf(L, i, p, comes)
  PROVE  /\ m \in [begin : Hash, end : Hash, src : Host, dst : Host, remove : BOOLEAN]
         /\ m.src # m.dst
         /\ m.begin = p /\ m.end = End(Ring(L), p) /\ m.remove = comes
<1> DEFINE walk == Walk(Ring(L), p)
           first == IF walk[1] = i THEN 2 ELSE 1
<1>1. p \in DOMAIN Ring(L) /\ DOMAIN Ring(L) \in SUBSET Hash
  BY RingIs DEF PlacesMoved
<1>2. PICK n \in 1 .. N : walk[n] = i
  BY DEF PlacesMoved
<1>3. End(Ring(L), p) \in Hash
  BY <1>1, EndIs
<1>4. N \in Nat /\ N >= 2 /\ L[i] \in Host
  BY Sizes
<1>5. /\ \A j \in 1 .. N + 1 : walk[j] \in 1 .. Len(L) /\ L[walk[j]] \in Host
      /\ \A j, k \in 1 .. N + 1 : L[walk[j]] = L[walk[k]] => j = k
  <2>1. walk = Walk(Ring(L), p)
    OBVIOUS
  <2> HIDE DEF walk
  <2> QED
    BY <1>1, <2>1, WalkBegins
<1>6. N + 1 \in 1 .. N + 1 /\ n \in 1 .. N + 1 /\ n # N + 1
  BY <1>4
<1>7. first \in 1 .. N + 1 /\ first # N + 1
  BY <1>4
<1>8. m = IF comes THEN Move(Ring(L), p, L[walk[N + 1]], L[i], TRUE)
                   ELSE Move(Ring(L), p, L[walk[first]], L[walk[N + 1]], FALSE)
  BY DEF MoveOf
<1> HIDE DEF walk, first
<1>9. L[walk[N + 1]] # L[i]
  BY <1>2, <1>5, <1>6
<1>10. L[walk[first]] # L[walk[N + 1]]
  BY <1>5, <1>6, <1>7
<1>11. /\ L[walk[N + 1]] \in Host /\ L[walk[first]] \in Host
  BY <1>5, <1>6, <1>7
<1>12. ASSUME NEW e \in Hash, NEW a \in Host, NEW b \in Host, NEW r \in BOOLEAN, a # b,
              m = [begin |-> p, end |-> e, src |-> a, dst |-> b, remove |-> r]
       PROVE  /\ m \in [begin : Hash, end : Hash, src : Host, dst : Host, remove : BOOLEAN]
              /\ m.src # m.dst
              /\ m.begin = p /\ m.end = e /\ m.remove = r
  <2>1. p \in Hash
    BY <1>1
  <2> QED
    BY <1>12, <2>1
<1>13. CASE comes
  <2>1. m = [begin |-> p, end |-> End(Ring(L), p), src |-> L[walk[N + 1]],
             dst |-> L[i], remove |-> TRUE]
    BY <1>8, <1>13 DEF Move
  <2>2. comes = TRUE
    BY <1>13
  <2> QED
    BY <1>3, <1>4, <1>9, <1>11, <1>12, <2>1, <2>2
<1>14. CASE ~comes
  <2>1. m = [begin |-> p, end |-> End(Ring(L), p), src |-> L[walk[first]],
             dst |-> L[walk[N + 1]], remove |-> FALSE]
    BY <1>8, <1>14 DEF Move
  <2>2. comes = FALSE
    BY <1>14
  <2> QED
    BY <1>3, <1>10, <1>11, <1>12, <2>1, <2>2
<1> QED
  BY <1>13, <1>14

\* The plan for a host that comes.
LEMMA AddPlanIs ==
  ASSUME hostList \in Seq(Host), IsInjective(hostList), vnodes \in Vnodes,
         nodeMap = Ring(hostList), Len(hostList) >= N,
         NEW h \in Host, \A id \in 1 .. Len(hostList) : hostList[id] # h
  PROVE  AddPlan(h) =
           {MoveOf(Append(hostList, h), Len(hostList) + 1, p, TRUE) :
              p \in PlacesMoved(Append(hostList, h), Len(hostList) + 1)}
<1> DEFINE L == Append(hostList, h)
           id == Len(hostList) + 1
           src(p) == hostList[Last(Succ(Ring(L), p, id))]
<1>1. Emplace(nodeMap, h, id) = Ring(L)
  BY EmplacedIs
<1>2. AddPlan(h) = {Move(Ring(L), p, src(p), h, TRUE) : p \in Moved(Ring(L), id)}
  BY <1>1 DEF AddPlan
<1>3. /\ L \in Seq(Host) /\ IsInjective(L) /\ Len(L) = id /\ L[id] = h
      /\ \A j \in 1 .. Len(hostList) : L[j] = hostList[j]
  BY AppendedIs
<1>4. Len(hostList) \in Nat /\ N \in Nat
  BY Sizes
<1> HIDE DEF L, id
<1>5. Moved(Ring(L), id) = PlacesMoved(L, id)
  BY SuccIs DEF Moved, PlacesMoved
<1>6. ASSUME NEW p \in PlacesMoved(L, id)
      PROVE  Move(Ring(L), p, src(p), h, TRUE) = MoveOf(L, id, p, TRUE)
  <2> DEFINE walk == Walk(Ring(L), p)
  <2>1. PICK n \in 1 .. N : walk[n] = id
    BY DEF PlacesMoved
  <2>2. p \in Hash
    BY <1>3, RingIs DEF PlacesMoved
  <2>3. Last(Succ(Ring(L), p, id)) = walk[N + 1]
    BY <2>1, SuccIs
  <2>4. MoveOf(L, id, p, TRUE) = Move(Ring(L), p, L[walk[N + 1]], L[id], TRUE)
    BY DEF MoveOf
  <2>5. Len(L) > N
    BY <1>3, <1>4 DEF id
  <2>6. walk = Walk(Ring(L), p)
    OBVIOUS
  <2> HIDE DEF walk
  <2>7. /\ \A j \in 1 .. N + 1 : walk[j] \in 1 .. Len(L)
        /\ \A j, k \in 1 .. N + 1 : L[walk[j]] = L[walk[k]] => j = k
    BY <1>3, <2>2, <2>5, <2>6, WalkBegins
  <2>8. N + 1 \in 1 .. N + 1 /\ n \in 1 .. N + 1 /\ n # N + 1
    BY <1>4
  <2>9. walk[N + 1] \in 1 .. Len(L) /\ walk[N + 1] # id
    BY <2>1, <2>7, <2>8
  <2>10. walk[N + 1] \in 1 .. Len(hostList)
    BY <1>3, <1>4, <2>9 DEF id
  <2>11. src(p) = L[walk[N + 1]]
    BY <1>3, <2>3, <2>10
  <2> QED
    BY <1>3, <2>4, <2>11
<1> HIDE DEF src
<1>7. AddPlan(h) = {MoveOf(L, id, p, TRUE) : p \in PlacesMoved(L, id)}
  BY <1>2, <1>5, <1>6
<1> QED
  BY <1>7 DEF L, id

\* Index finds the host.
LEMMA IndexIs ==
  ASSUME hostList \in Seq(Host), IsInjective(hostList), NEW i \in 1 .. Len(hostList)
  PROVE  Index(hostList[i]) = i
<1>1. DOMAIN hostList = 1 .. Len(hostList)
  OBVIOUS
<1>2. \A j \in DOMAIN hostList : hostList[j] = hostList[i] => j = i
  BY <1>1 DEF IsInjective
<1> QED
  BY <1>1, <1>2 DEF Index

\* The plan for a host that goes.
LEMMA RemovePlanIs ==
  ASSUME hostList \in Seq(Host), IsInjective(hostList), vnodes \in Vnodes,
         nodeMap = Ring(hostList), NEW i \in 1 .. Len(hostList)
  PROVE  RemovePlan(hostList[i]) =
           {MoveOf(hostList, i, p, FALSE) : p \in PlacesMoved(hostList, i)}
<1> DEFINE L == hostList
           From(s) == IF s[1] = i THEN s[2] ELSE s[1]
           MoveBy(s, p) == Move(Ring(L), p, L[From(s)], L[Last(s)], FALSE)
<1>1. RemovePlan(L[i]) = {MoveBy(Succ(Ring(L), p, i), p) : p \in Moved(Ring(L), i)}
  BY IndexIs DEF RemovePlan
<1>2. Moved(Ring(L), i) = PlacesMoved(L, i)
  BY SuccIs DEF Moved, PlacesMoved
<1>3. ASSUME NEW p \in PlacesMoved(L, i)
      PROVE  MoveBy(Succ(Ring(L), p, i), p) = MoveOf(L, i, p, FALSE)
  <2> DEFINE walk == Walk(Ring(L), p)
             s == Succ(Ring(L), p, i)
  <2>1. /\ Last(s) = walk[N + 1] /\ s[1] = walk[1] /\ s[2] = walk[2]
    BY SuccIs DEF PlacesMoved
  <2> HIDE DEF s
  <2>2. L[From(s)] = L[IF walk[1] = i THEN walk[2] ELSE walk[1]]
    BY <2>1
  <2>3. MoveBy(s, p) = MoveOf(L, i, p, FALSE)
    BY <2>1, <2>2 DEF MoveOf
  <2> QED
    BY <2>3 DEF s
<1> HIDE DEF L, MoveBy
<1>4. RemovePlan(L[i]) = {MoveOf(L, i, p, FALSE) : p \in PlacesMoved(L, i)}
  BY <1>1, <1>2, <1>3
<1> QED
  BY <1>4 DEF L

-----------------------------------------------------------------------------
(* The invariant: the ring is that of the list, and what is left of a plan *)
(* belongs to the change under way.                                        *)

RingInv ==
  /\ vnodes \in Vnodes
  /\ hostList \in Seq(Host) /\ IsInjective(hostList)
  /\ nodeMap = Ring(hostList)
  /\ holds \in [Host -> SUBSET Hash]
  /\ shipped \in SUBSET Hash /\ torn \in SUBSET Hash
  /\ change \in [op : {"add", "remove"}, host : Host] \cup {NoChange}
  /\ change.op = "none" => moves = {}
  /\ change.op = "add" =>
       /\ Len(hostList) >= N
       /\ \A id \in 1 .. Len(hostList) : hostList[id] # change.host
       /\ moves \subseteq AddPlan(change.host)
  /\ change.op = "remove" =>
       /\ Len(hostList) > N
       /\ \E id \in 1 .. Len(hostList) : hostList[id] = change.host
       /\ moves \subseteq RemovePlan(change.host)

\* A change is none, of a host that comes, or of one that goes.
LEMMA ChangeIs ==
  ASSUME change \in [op : {"add", "remove"}, host : Host] \cup {NoChange}
  PROVE  /\ change.op \in {"none", "add", "remove"}
         /\ change.op = "none" <=> change = NoChange
         /\ change.op # "none" => change.host \in Host
BY DEF NoChange

\* The longer of the two lists of a change, the index of the host that comes or
\* goes, and the list without it.
Longer == IF change.op = "add" THEN Append(hostList, change.host) ELSE hostList
Moving == IF change.op = "add" THEN Len(hostList) + 1 ELSE Index(change.host)
Shorter == IF change.op = "add" THEN hostList ELSE RemoveAt(hostList, Index(change.host))

\* The lists of a change, and its plan.
LEMMA PlanIs ==
  ASSUME RingInv, change.op # "none"
  PROVE  /\ Longer \in Seq(Host) /\ IsInjective(Longer) /\ Len(Longer) > N
         /\ Shorter \in Seq(Host) /\ IsInjective(Shorter) /\ Len(Shorter) >= N
         /\ Moving \in 1 .. Len(Longer) /\ Longer[Moving] = change.host
         /\ Without(Shorter, Longer, Moving)
         /\ change.op = "add" =>
              AddPlan(change.host) =
                {MoveOf(Longer, Moving, p, TRUE) : p \in PlacesMoved(Longer, Moving)}
         /\ change.op = "remove" =>
              RemovePlan(change.host) =
                {MoveOf(Longer, Moving, p, FALSE) : p \in PlacesMoved(Longer, Moving)}
<1>1. /\ vnodes \in Vnodes
      /\ hostList \in Seq(Host) /\ IsInjective(hostList)
      /\ nodeMap = Ring(hostList)
      /\ Len(hostList) \in Nat /\ N \in Nat
  BY Sizes DEF RingInv
<1>2. change.op \in {"add", "remove"} /\ change.host \in Host
  BY ChangeIs DEF RingInv
<1>3. CASE change.op = "add"
  <2>1. Len(hostList) >= N /\ \A id \in 1 .. Len(hostList) : hostList[id] # change.host
    BY <1>3 DEF RingInv
  <2> DEFINE L == Append(hostList, change.host)
             i == Len(hostList) + 1
  <2>2. /\ L \in Seq(Host) /\ IsInjective(L) /\ Len(L) = i /\ L[i] = change.host
        /\ Without(hostList, L, i)
    BY <1>1, <1>2, <2>1, AppendedIs
  <2>3. AddPlan(change.host) = {MoveOf(L, i, p, TRUE) : p \in PlacesMoved(L, i)}
    BY <1>1, <1>2, <2>1, AddPlanIs
  <2>4. Longer = L /\ Moving = i /\ Shorter = hostList
    BY <1>3 DEF Longer, Moving, Shorter
  <2>5. i \in 1 .. i /\ i > N
    BY <1>1, <2>1
  <2> HIDE DEF L, i
  <2> QED
    BY <1>1, <1>3, <2>1, <2>2, <2>3, <2>4, <2>5
<1>4. CASE change.op = "remove"
  <2>1. Len(hostList) > N /\ \E id \in 1 .. Len(hostList) : hostList[id] = change.host
    BY <1>4 DEF RingInv
  <2>2. PICK i \in 1 .. Len(hostList) : hostList[i] = change.host
    BY <2>1
  <2>3. Index(change.host) = i
    BY <1>1, <2>2, IndexIs
  <2>4. /\ RemoveAt(hostList, i) \in Seq(Host) /\ IsInjective(RemoveAt(hostList, i))
        /\ Len(RemoveAt(hostList, i)) = Len(hostList) - 1
        /\ Without(RemoveAt(hostList, i), hostList, i)
    BY <1>1, RemovedIs
  <2>5. Len(RemoveAt(hostList, i)) >= N
    BY <1>1, <2>1, <2>4
  <2>6. RemovePlan(change.host) = {MoveOf(hostList, i, p, FALSE) : p \in PlacesMoved(hostList, i)}
    BY <1>1, <2>2, RemovePlanIs
  <2>7. Longer = hostList /\ Moving = i /\ Shorter = RemoveAt(hostList, i)
    BY <1>4, <2>3 DEF Longer, Moving, Shorter
  <2> QED
    BY <1>1, <1>4, <2>1, <2>2, <2>4, <2>5, <2>6, <2>7
<1> QED
  BY <1>2, <1>3, <1>4

\* A move that is left is one of the plan, between two hosts.
LEMMA MovesAre ==
  ASSUME RingInv, NEW m \in moves
  PROVE  /\ change.op # "none"
         /\ \E p \in PlacesMoved(Longer, Moving) :
              m = MoveOf(Longer, Moving, p, change.op = "add")
         /\ m \in [begin : Hash, end : Hash, src : Host, dst : Host, remove : BOOLEAN]
         /\ m.src # m.dst
<1>1. change.op \in {"add", "remove"} /\ vnodes \in Vnodes
  BY ChangeIs DEF RingInv
<1>2. /\ Longer \in Seq(Host) /\ IsInjective(Longer) /\ Len(Longer) > N
      /\ Moving \in 1 .. Len(Longer)
  BY <1>1, PlanIs
<1>3. \E p \in PlacesMoved(Longer, Moving) : m = MoveOf(Longer, Moving, p, change.op = "add")
  <2>1. CASE change.op = "add"
    <3>1. m \in {MoveOf(Longer, Moving, p, TRUE) : p \in PlacesMoved(Longer, Moving)}
      BY <1>1, <2>1, PlanIs DEF RingInv
    <3>2. (change.op = "add") = TRUE
      BY <2>1
    <3> QED
      BY <3>1, <3>2
  <2>2. CASE change.op = "remove"
    <3>1. m \in {MoveOf(Longer, Moving, p, FALSE) : p \in PlacesMoved(Longer, Moving)}
      BY <1>1, <2>2, PlanIs DEF RingInv
    <3>2. (change.op = "add") = FALSE
      BY <2>2
    <3> QED
      BY <3>1, <3>2
  <2> QED
    BY <1>1, <2>1, <2>2
<1>4. PICK p \in PlacesMoved(Longer, Moving) :
        m = MoveOf(Longer, Moving, p, change.op = "add")
  BY <1>3
<1>5. (change.op = "add") \in BOOLEAN
  OBVIOUS
<1>6. /\ m \in [begin : Hash, end : Hash, src : Host, dst : Host, remove : BOOLEAN]
      /\ m.src # m.dst
  <2> DEFINE comes == change.op = "add"
  <2>1. comes \in BOOLEAN /\ m = MoveOf(Longer, Moving, p, comes)
    BY <1>4, <1>5
  <2> HIDE DEF comes
  <2> QED
    BY <1>1, <1>2, <2>1, MoveIs
<1> QED
  BY <1>1, <1>3, <1>6

\* Rings and plans depend on the places, the list, the ring and the change only.
LEMMA PlansSame ==
  ASSUME UNCHANGED <<vnodes, hostList, nodeMap, change>>
  PROVE  /\ Ring(hostList)' = Ring(hostList)
         /\ AddPlan(change.host)' = AddPlan(change.host)
         /\ RemovePlan(change.host)' = RemovePlan(change.host)
<1>1. Ring(hostList)' = Ring(hostList)
  BY DEF Ring, Standing
<1>2. AddPlan(change.host)' = AddPlan(change.host)
  BY DEF AddPlan, Emplace
<1>3. RemovePlan(change.host)' = RemovePlan(change.host)
  BY DEF RemovePlan, Index
<1> QED
  BY <1>1, <1>2, <1>3

\* A put, and the moves, leave the list, the ring and the change alone.
LEMMA MovesOnly ==
  ASSUME RingInv, UNCHANGED <<vnodes, hostList, nodeMap, change>>,
         holds' \in [Host -> SUBSET Hash], moves' \subseteq moves,
         shipped' \in SUBSET Hash, torn' \in SUBSET Hash
  PROVE  RingInv'
<1>1. /\ Ring(hostList)' = Ring(hostList)
      /\ AddPlan(change.host)' = AddPlan(change.host)
      /\ RemovePlan(change.host)' = RemovePlan(change.host)
  BY PlansSame
<1>2. /\ (vnodes \in Vnodes)'
      /\ (hostList \in Seq(Host) /\ IsInjective(hostList))'
      /\ (nodeMap = Ring(hostList))'
      /\ (shipped \in SUBSET Hash /\ torn \in SUBSET Hash)'
      /\ (change \in [op : {"add", "remove"}, host : Host] \cup {NoChange})'
  BY <1>1 DEF RingInv
<1>3. (change.op = "none" => moves = {})'
  BY DEF RingInv
<1>4. (change.op = "add" =>
         /\ Len(hostList) >= N
         /\ \A id \in 1 .. Len(hostList) : hostList[id] # change.host
         /\ moves \subseteq AddPlan(change.host))'
  BY <1>1 DEF RingInv
<1>5. (change.op = "remove" =>
         /\ Len(hostList) > N
         /\ \E id \in 1 .. Len(hostList) : hostList[id] = change.host
         /\ moves \subseteq RemovePlan(change.host))'
  BY <1>1 DEF RingInv
<1> QED
  BY <1>2, <1>3, <1>4, <1>5 DEF RingInv

\* The invariant holds initially.
LEMMA RingInvInit == Init => RingInv
<1> SUFFICES ASSUME Init PROVE RingInv
  OBVIOUS
<1>1. hostList \in Seq(Host) /\ IsInjective(hostList)
  BY RingAssumption DEF Init
<1>2. holds \in [Host -> SUBSET Hash] /\ shipped \in SUBSET Hash /\ torn \in SUBSET Hash
  BY DEF Init
<1>3. change = NoChange /\ change.op = "none"
  BY DEF Init, NoChange
<1> QED
  BY <1>1, <1>2, <1>3 DEF Init, RingInv

\* The hashes of the parts of a range are hashes.
LEMMA PartsIn ==
  ASSUME NEW b \in Hash, NEW e \in Hash
  PROVE  /\ UNION ToSet(Parts(b, e)) \in SUBSET Hash
         /\ Last(Parts(b, e)) \in SUBSET Hash
<1>1. RingMax \in Nat /\ b \in 0 .. RingMax /\ e \in 0 .. RingMax /\ 0 \in 0 .. RingMax
  BY Sizes DEF Hash
<1> DEFINE last == (e - 1) % (RingMax + 1)
<1>2. last \in 0 .. RingMax
  <2>1. (e - 0 - 1) % (RingMax + 1) \in 0 .. RingMax
    BY <1>1, Remainders
  <2>2. e - 0 - 1 = e - 1
    BY <1>1
  <2> QED
    BY <2>1, <2>2
<1> HIDE DEF last
<1> DEFINE A == b .. RingMax
           B == 0 .. last
           C == b .. last
<1>3. A \in SUBSET Hash /\ B \in SUBSET Hash /\ C \in SUBSET Hash
  BY <1>1, <1>2 DEF Hash
<1>4. Parts(b, e) = IF b > e THEN <<A, B>> ELSE <<C>>
  BY DEF Parts, last
<1> HIDE DEF A, B, C
<1>5. /\ ToSet(<<A, B>>) = {A, B} /\ Last(<<A, B>>) = B
      /\ ToSet(<<C>>) = {C} /\ Last(<<C>>) = C
  BY DEF ToSet, Last
<1>6. UNION {A, B} = A \cup B /\ UNION {C} = C
  OBVIOUS
<1>7. CASE b > e
  BY <1>3, <1>4, <1>5, <1>6, <1>7
<1>8. CASE ~(b > e)
  BY <1>3, <1>4, <1>5, <1>6, <1>8
<1> QED
  BY <1>7, <1>8

\* Every step keeps it.
LEMMA RingInvStep == RingInv /\ [Next]_vars => RingInv'
<1> SUFFICES ASSUME RingInv, [Next]_vars PROVE RingInv'
  OBVIOUS
<1>1. /\ vnodes \in Vnodes
      /\ hostList \in Seq(Host) /\ IsInjective(hostList)
      /\ nodeMap = Ring(hostList)
      /\ holds \in [Host -> SUBSET Hash]
      /\ shipped \in SUBSET Hash /\ torn \in SUBSET Hash
      /\ Len(hostList) \in Nat /\ DOMAIN hostList = 1 .. Len(hostList)
      /\ N \in Nat /\ N >= 2
  BY Sizes DEF RingInv
<1>2. /\ change.op \in {"none", "add", "remove"}
      /\ change.op = "none" <=> change = NoChange
      /\ change.op # "none" => change.host \in Host
  BY ChangeIs DEF RingInv
<1>3. ASSUME NEW k \in Puts, put(k)
      PROVE  RingInv'
  <2>1. k \in Hash
    BY RingAssumption
  <2>2. holds' \in [Host -> SUBSET Hash]
    BY <1>1, <1>3, <2>1 DEF put
  <2>3. /\ UNCHANGED <<vnodes, hostList, nodeMap, change>> /\ moves' \subseteq moves
        /\ shipped' \in SUBSET Hash
    BY <1>1, <1>3 DEF put
  <2>4. torn' \in SUBSET Hash
    BY <1>1, <1>3, <2>1 DEF put
  <2> QED
    BY <2>2, <2>3, <2>4, MovesOnly
<1>4. ASSUME NEW h \in Host, addServer(h)
      PROVE  RingInv'
  <2>1. /\ Len(hostList) >= N /\ h \notin ToSet(hostList)
        /\ change' = [op |-> "add", host |-> h] /\ moves' = AddPlan(h)
        /\ holds' \in {holds, [holds EXCEPT ![h] = {}]}
        /\ UNCHANGED <<vnodes, hostList, nodeMap, shipped, torn>>
    BY <1>4 DEF addServer
  <2>2. \A id \in 1 .. Len(hostList) : hostList[id] # h
    BY <1>1, <2>1 DEF ToSet
  <2>3. holds' \in [Host -> SUBSET Hash]
    BY <1>1, <2>1
  <2>4. change'.op = "add" /\ change'.host = h
    BY <2>1
  <2>5. change' \in [op : {"add", "remove"}, host : Host]
    BY <2>1
  <2>6. Ring(hostList)' = Ring(hostList)
    BY <2>1 DEF Ring, Standing
  <2>7. AddPlan(change.host)' = AddPlan(h)
    BY <2>1, <2>4 DEF AddPlan, Emplace
  <2> QED
    BY <1>1, <2>1, <2>2, <2>3, <2>4, <2>5, <2>6, <2>7 DEF RingInv
<1>5. ASSUME NEW h \in Host, removeServer(h)
      PROVE  RingInv'
  <2>1. /\ Len(hostList) > N /\ h \in ToSet(hostList)
        /\ change' = [op |-> "remove", host |-> h] /\ moves' = RemovePlan(h)
        /\ UNCHANGED <<vnodes, hostList, nodeMap, holds, shipped, torn>>
    BY <1>5 DEF removeServer
  <2>2. \E id \in 1 .. Len(hostList) : hostList[id] = h
    BY <1>1, <2>1 DEF ToSet
  <2>3. change'.op = "remove" /\ change'.host = h
    BY <2>1
  <2>4. change' \in [op : {"add", "remove"}, host : Host]
    BY <2>1
  <2>5. Ring(hostList)' = Ring(hostList)
    BY <2>1 DEF Ring, Standing
  <2>6. RemovePlan(change.host)' = RemovePlan(h)
    BY <2>1, <2>3 DEF RemovePlan, Index
  <2> QED
    BY <1>1, <2>1, <2>2, <2>3, <2>4, <2>5, <2>6 DEF RingInv
<1>6. ASSUME NEW m \in moves, NEW unsent \in Slips, NEW slip \in Slips,
             moveData(m, unsent, slip)
      PROVE  RingInv'
  <2> DEFINE sent == UNION ToSet(Parts(m.begin, m.end))
             last == Last(Parts(m.begin, m.end))
             got == (holds[m.dst] \ sent) \cup ((holds[m.src] \cap sent) \ unsent)
             one == [holds EXCEPT ![m.dst] = got]
  <2>1. PICK gone \in (IF m.remove THEN {last \ slip, last \cup slip} ELSE {{}}) :
          /\ holds' = [one EXCEPT ![m.src] = one[m.src] \ gone]
          /\ torn' = torn \cup unsent \cup (gone \ sent)
          /\ shipped' = shipped \cup sent
    BY <1>6, Zenon DEF moveData
  <2>2. m.src \in Host /\ m.dst \in Host /\ m.begin \in Hash /\ m.end \in Hash
    BY MovesAre
  <2>3. sent \in SUBSET Hash /\ last \in SUBSET Hash
    BY <2>2, PartsIn
  <2>4. unsent \in SUBSET Hash /\ slip \in SUBSET Hash
    BY RingAssumption
  <2> HIDE DEF sent, last
  <2>5. gone \in SUBSET Hash
    BY <2>1, <2>3, <2>4
  <2>6. shipped' \in SUBSET Hash /\ torn' \in SUBSET Hash
    BY <1>1, <2>1, <2>3, <2>4, <2>5
  <2>7. holds[m.dst] \in SUBSET Hash /\ holds[m.src] \in SUBSET Hash
    BY <1>1, <2>2
  <2>8. got \in SUBSET Hash
    BY <2>7
  <2> HIDE DEF got
  <2>9. one \in [Host -> SUBSET Hash]
    BY <1>1, <2>8
  <2> HIDE DEF one
  <2>10. holds' \in [Host -> SUBSET Hash]
    BY <2>1, <2>2, <2>9
  <2>11. UNCHANGED <<vnodes, hostList, nodeMap, change>> /\ moves' \subseteq moves
    BY <1>6 DEF moveData
  <2> QED
    BY <2>6, <2>10, <2>11, MovesOnly
<1>7. CASE actAddServer
  <2> DEFINE h == change.host
  <2>1. /\ change.op = "add" /\ moves = {}
        /\ hostList' = Append(hostList, h)
        /\ nodeMap' = Emplace(nodeMap, h, Len(hostList'))
        /\ change' = NoChange /\ shipped' = {}
        /\ UNCHANGED <<vnodes, holds, moves, torn>>
    BY <1>7 DEF actAddServer
  <2>2. h \in Host /\ \A id \in 1 .. Len(hostList) : hostList[id] # h
    BY <1>2, <2>1 DEF RingInv
  <2> HIDE DEF h
  <2>3. /\ hostList' \in Seq(Host) /\ IsInjective(hostList')
        /\ Len(hostList') = Len(hostList) + 1
    BY <1>1, <2>1, <2>2, AppendedIs
  <2>4. nodeMap' = Ring(Append(hostList, h))
    BY <1>1, <2>1, <2>2, <2>3, EmplacedIs
  <2>5. Ring(hostList)' = Ring(Append(hostList, h))
    BY <2>1 DEF Ring, Standing
  <2>6. change'.op = "none"
    BY <2>1 DEF NoChange
  <2> QED
    BY <1>1, <2>1, <2>3, <2>4, <2>5, <2>6 DEF RingInv
<1>8. CASE actRemoveServer
  <2>1. /\ change.op = "remove" /\ moves = {}
        /\ hostList' = RemoveAt(hostList, Index(change.host))
        /\ nodeMap' = Ring(hostList')
        /\ change' = NoChange /\ shipped' = {}
        /\ UNCHANGED <<vnodes, holds, moves, torn>>
    BY <1>8 DEF actRemoveServer
  <2>2. PICK i \in 1 .. Len(hostList) : hostList[i] = change.host
    BY <2>1 DEF RingInv
  <2>3. Index(change.host) = i
    BY <1>1, <2>2, IndexIs
  <2>4. hostList' \in Seq(Host) /\ IsInjective(hostList')
    BY <1>1, <2>1, <2>3, RemovedIs
  <2>5. Ring(hostList)' = Ring(hostList')
    BY <2>1 DEF Ring, Standing
  <2>6. change'.op = "none"
    BY <2>1 DEF NoChange
  <2> QED
    BY <1>1, <2>1, <2>4, <2>5, <2>6 DEF RingInv
<1>9. CASE UNCHANGED vars
  <2>1. /\ UNCHANGED <<vnodes, hostList, nodeMap, change>> /\ moves' \subseteq moves
        /\ holds' \in [Host -> SUBSET Hash]
        /\ shipped' \in SUBSET Hash /\ torn' \in SUBSET Hash
    BY <1>1, <1>9 DEF vars
  <2> QED
    BY <2>1, MovesOnly
<1> QED
  BY <1>3, <1>4, <1>5, <1>6, <1>7, <1>8, <1>9 DEF Next

\* The invariant holds in every reachable state.
THEOREM RingInvHolds == Spec => []RingInv
BY RingInvInit, RingInvStep, PTL DEF Spec

-----------------------------------------------------------------------------
(* The first properties.                                                   *)

\* The indices on the ring are those of the hosts of the list, every host is on
\* the ring, and moves are between two hosts, whatever hosts come and go.
THEOREM RingTypeOK == Spec => []TypeOK
<1>1. RingInv => TypeOK
  <2> SUFFICES ASSUME RingInv PROVE TypeOK
    OBVIOUS
  <2>1. /\ vnodes \in Vnodes /\ nodeMap = Ring(hostList)
        /\ hostList \in Seq(Host) /\ IsInjective(hostList)
        /\ holds \in [Host -> SUBSET Hash]
        /\ shipped \subseteq Hash /\ torn \subseteq Hash
    BY DEF RingInv
  <2>2. DOMAIN hostList = 1 .. Len(hostList)
    BY <2>1
  <2>3. DOMAIN nodeMap \in SUBSET Hash /\ Range(nodeMap) = DOMAIN hostList
    BY <2>1, <2>2, RingIs, RingRange
  <2>4. \A m \in moves :
          /\ m \in [begin : Hash, end : Hash, src : Host, dst : Host, remove : BOOLEAN]
          /\ m.src # m.dst
    BY MovesAre
  <2> QED
    BY <2>1, <2>3, <2>4 DEF TypeOK
<1> QED
  BY <1>1, RingInvHolds, PTL

\* The hosts of a list at the indices of a sequence, and at the first N of them.
HostsOf(L, ids) == {L[id] : id \in ToSet(ids)}
FirstHosts(L, ids) == {L[ids[n]] : n \in 1 .. N}

\* The first N indices of the walk are those of the N nearest hosts.
LEMMA Routes ==
  ASSUME NEW L, NEW k, NEW ids, DOMAIN ids = 1 .. N,
         \A n \in 1 .. N : ids[n] = Walk(Ring(L), k)[n]
  PROVE  HostsOf(L, ids) = Nearest(L, k, N) /\ FirstHosts(L, ids) = Nearest(L, k, N)
<1>1. FirstHosts(L, ids) = Nearest(L, k, N)
  BY DEF Nearest, FirstHosts
<1>2. ToSet(ids) = {ids[n] : n \in 1 .. N}
  BY DEF ToSet
<1>3. HostsOf(L, ids) = FirstHosts(L, ids)
  <2>1. ASSUME NEW n \in 1 .. N
        PROVE  L[ids[n]] \in HostsOf(L, ids)
    BY <1>2 DEF HostsOf
  <2>2. ASSUME NEW x \in HostsOf(L, ids)
        PROVE  x \in FirstHosts(L, ids)
    <3>1. PICK id \in ToSet(ids) : x = L[id]
      BY DEF HostsOf
    <3>2. PICK n \in 1 .. N : id = ids[n]
      BY <1>2
    <3> QED
      BY <3>1, <3>2 DEF FirstHosts
  <2> QED
    BY <2>1, <2>2 DEF FirstHosts
<1> QED
  BY <1>1, <1>3

\* The replicas of a hash are the N nearest hosts.
LEMMA ReplicasAre ==
  ASSUME hostList \in Seq(Host), nodeMap = Ring(hostList), Len(hostList) >= N, NEW k
  PROVE  /\ Len(getHosts(k)) = N
         /\ \A n \in 1 .. N : getHosts(k)[n] = Walk(Ring(hostList), k)[n]
         /\ Replicas(k) = Nearest(hostList, k, N)
         /\ FirstHosts(hostList, getHosts(k)) = Nearest(hostList, k, N)
<1> DEFINE ids == getHosts(k)
<1>1. ids = IF Len(hostList) < N THEN << >> ELSE [n \in 1 .. N |-> Walk(nodeMap, k)[n]]
  BY DEF getHosts
<1>2. Replicas(k) = HostsOf(hostList, ids)
  BY DEF Replicas, HostsOf
<1> HIDE DEF ids
<1>3. N \in Nat /\ Len(hostList) \in Nat
  BY Sizes
<1>4. ids = [n \in 1 .. N |-> Walk(nodeMap, k)[n]]
  BY <1>1, <1>3
<1>5. /\ Len(ids) = N /\ DOMAIN ids = 1 .. N
      /\ \A n \in 1 .. N : ids[n] = Walk(Ring(hostList), k)[n]
  BY <1>3, <1>4
<1>6. HostsOf(hostList, ids) = Nearest(hostList, k, N)
  BY <1>5, Routes
<1>7. FirstHosts(hostList, ids) = Nearest(hostList, k, N)
  BY <1>5, Routes
<1> QED
  BY <1>2, <1>5, <1>6, <1>7 DEF ids

\* getHosts returns N hosts, each once, and they are all that are met up to
\* some distance, on every ring, also where hosts share places.
THEOREM RouteIsNearestHolds == Spec => []RouteIsNearest
<1>1. RingInv => RouteIsNearest
  <2> SUFFICES ASSUME RingInv, Len(hostList) >= N, NEW k \in Hash
               PROVE  /\ Len(getHosts(k)) = N /\ IsInjective(getHosts(k))
                      /\ \E d \in 1 .. RingMax + 1 :
                           FirstHosts(hostList, getHosts(k)) = Met(k, d)
    BY DEF RouteIsNearest, FirstHosts
  <2>1. /\ vnodes \in Vnodes /\ nodeMap = Ring(hostList)
        /\ hostList \in Seq(Host) /\ IsInjective(hostList)
    BY DEF RingInv
  <2>2. N \in Nat /\ N >= 2 /\ Len(hostList) \in Nat
    BY <2>1, Sizes
  <2>3. N \in 1 .. Len(hostList)
    BY <2>2
  <2>4. /\ Len(getHosts(k)) = N
        /\ \A n \in 1 .. N : getHosts(k)[n] = Walk(Ring(hostList), k)[n]
        /\ FirstHosts(hostList, getHosts(k)) = Nearest(hostList, k, N)
    BY <2>1, ReplicasAre
  <2>5. IsInjective(getHosts(k))
    <3> DEFINE walk == Walk(Ring(hostList), k)
    <3>1. walk \in [1 .. Len(hostList) -> 1 .. Len(hostList)] /\ IsInjective(walk)
      BY <2>1, WalkOfList
    <3>2. DOMAIN getHosts(k) = 1 .. N
      BY <2>2 DEF getHosts
    <3>3. \A n \in 1 .. N : n \in DOMAIN walk
      BY <2>2, <3>1
    <3> QED
      BY <2>4, <3>1, <3>2, <3>3 DEF IsInjective
  <2>6. PICK d \in 1 .. RingMax + 1 : Nearest(hostList, k, N) = Near(hostList, k, d)
    BY <2>1, <2>3, NearestIs
  <2>7. Met(k, d) = Near(hostList, k, d)
    BY <2>1, MetIs
  <2> QED
    BY <2>4, <2>5, <2>6, <2>7
<1> QED
  BY <1>1, RingInvHolds, PTL

\* A change of membership changes the replicas of no hash that the host which
\* comes or goes is not a replica of, before or after.
THEOREM RingStableHolds == Spec => RingStable
<1>1. RingInv /\ [Next]_vars =>
        [\A k \in Hash :
           Replicas(k)' # Replicas(k) =>
             change.host \in Replicas(k) \cup Replicas(k)']_<<hostList, nodeMap>>
  <2> SUFFICES ASSUME RingInv, Next, <<hostList, nodeMap>>' # <<hostList, nodeMap>>,
                      NEW k \in Hash, Replicas(k)' # Replicas(k)
               PROVE  change.host \in Replicas(k) \cup Replicas(k)'
    BY DEF vars
  <2>1. /\ vnodes \in Vnodes /\ nodeMap = Ring(hostList)
        /\ hostList \in Seq(Host) /\ IsInjective(hostList)
        /\ N \in Nat /\ N >= 2
    BY Sizes DEF RingInv
  <2>2. actAddServer \/ actRemoveServer
    BY DEF Next, put, addServer, removeServer, moveData
  <2>3. change.op # "none"
    BY <2>2 DEF actAddServer, actRemoveServer
  <2>4. /\ Longer \in Seq(Host) /\ IsInjective(Longer) /\ Len(Longer) > N
        /\ Shorter \in Seq(Host) /\ IsInjective(Shorter) /\ Len(Shorter) >= N
        /\ Moving \in 1 .. Len(Longer) /\ Longer[Moving] = change.host
        /\ Without(Shorter, Longer, Moving)
    BY <2>3, PlanIs
  <2>5. N \in 1 .. Len(Shorter)
    BY <2>1, <2>4
  <2>6. change.host \notin Nearest(Longer, k, N) =>
          Nearest(Shorter, k, N) = Nearest(Longer, k, N)
    BY <2>1, <2>4, <2>5, NearestWithout
  <2>7. /\ hostList' \in Seq(Host) /\ nodeMap' = Ring(hostList')
        /\ \/ hostList = Shorter /\ hostList' = Longer
           \/ hostList = Longer /\ hostList' = Shorter
    <3>1. CASE actAddServer
      <4>1. /\ change.op = "add" /\ hostList' = Append(hostList, change.host)
            /\ nodeMap' = Emplace(nodeMap, change.host, Len(hostList'))
        BY <3>1 DEF actAddServer
      <4>2. Longer = hostList' /\ Shorter = hostList /\ Moving = Len(hostList) + 1
        BY <4>1 DEF Longer, Shorter, Moving
      <4>3. Len(hostList') = Len(hostList) + 1
        BY <2>1, <4>1
      <4>4. change.host \in Host
        BY <2>3, ChangeIs DEF RingInv
      <4>5. nodeMap' = Ring(Append(hostList, change.host))
        BY <2>1, <4>1, <4>3, <4>4, EmplacedIs
      <4> QED
        BY <2>4, <4>1, <4>2, <4>5
    <3>2. CASE actRemoveServer
      <4>1. /\ change.op = "remove" /\ hostList' = RemoveAt(hostList, Index(change.host))
            /\ nodeMap' = Ring(hostList')
        BY <3>2 DEF actRemoveServer
      <4>2. Longer = hostList /\ Shorter = hostList'
        BY <4>1 DEF Longer, Shorter
      <4> QED
        BY <2>4, <4>1, <4>2
    <3> QED
      BY <2>2, <3>1, <3>2
  <2>8. Len(hostList) >= N /\ Len(hostList') >= N
    BY <2>1, <2>4, <2>7
  <2>9. Replicas(k) = Nearest(hostList, k, N)
    BY <2>1, <2>8, ReplicasAre
  <2>10. Replicas(k)' = Nearest(hostList', k, N)
    <3> DEFINE ids == IF Len(hostList') < N THEN << >>
                      ELSE [n \in 1 .. N |-> Walk(nodeMap', k)[n]]
    <3>1. Replicas(k)' = HostsOf(hostList', ids)
      BY DEF Replicas, getHosts, HostsOf
    <3>2. ids = IF Len(hostList') < N THEN << >>
                ELSE [n \in 1 .. N |-> Walk(nodeMap', k)[n]]
      OBVIOUS
    <3> HIDE DEF ids
    <3>3. Len(hostList') \in Nat
      BY <2>7
    <3>4. ids = [n \in 1 .. N |-> Walk(nodeMap', k)[n]]
      BY <2>1, <2>8, <3>2, <3>3
    <3>5. /\ DOMAIN ids = 1 .. N
          /\ \A n \in 1 .. N : ids[n] = Walk(Ring(hostList'), k)[n]
      BY <2>7, <3>4
    <3>6. HostsOf(hostList', ids) = Nearest(hostList', k, N)
      BY <3>5, Routes
    <3> QED
      BY <3>1, <3>6
  <2> QED
    BY <2>6, <2>7, <2>9, <2>10
<1> QED
  BY <1>1, RingInvHolds, PTL DEF Spec, RingStable

-----------------------------------------------------------------------------
(* Ranges.                                                                 *)

\* What a move sends.
Sent(m) == UNION ToSet(Parts(m.begin, m.end))

\* p is the place behind k: no place is farther from k clockwise.
Behind(map, k, p) ==
  p \in DOMAIN map /\ \A r \in DOMAIN map : Way(k, r) <= Way(k, p)

\* The parts of a range are its hashes, unless it ends at 0; the last part is one
\* of them.
LEMMA PartsAre ==
  ASSUME NEW b \in Hash, NEW e \in Hash, e # 0
  PROVE  /\ UNION ToSet(Parts(b, e)) =
              IF b > e THEN (b .. RingMax) \cup (0 .. e - 1) ELSE b .. e - 1
         /\ Last(Parts(b, e)) \subseteq UNION ToSet(Parts(b, e))
<1>1. RingMax \in Nat /\ b \in 0 .. RingMax /\ e \in 0 .. RingMax /\ 0 \in 0 .. RingMax
  BY Sizes DEF Hash
<1>2. (e - 1) % (RingMax + 1) = e - 1
  <2>1. (e - 0 - 1) % (RingMax + 1) = IF e > 0 THEN e - 0 - 1 ELSE e - 0 + RingMax
    BY <1>1, Remainders
  <2>2. e - 0 - 1 = e - 1 /\ e > 0
    BY <1>1
  <2> QED
    BY <2>1, <2>2
<1>3. CASE b > e
  <2> DEFINE A == b .. RingMax
             B == 0 .. e - 1
  <2>1. Parts(b, e) = <<A, B>>
    BY <1>2, <1>3 DEF Parts
  <2> HIDE DEF A, B
  <2>2. ToSet(<<A, B>>) = {A, B} /\ Last(<<A, B>>) = B
    BY DEF ToSet, Last
  <2>3. UNION {A, B} = A \cup B
    OBVIOUS
  <2> QED
    BY <1>3, <2>1, <2>2, <2>3 DEF A, B
<1>4. CASE ~(b > e)
  <2> DEFINE A == b .. e - 1
  <2>1. Parts(b, e) = <<A>>
    BY <1>2, <1>4 DEF Parts
  <2> HIDE DEF A
  <2>2. ToSet(<<A>>) = {A} /\ Last(<<A>>) = A
    BY DEF ToSet, Last
  <2>3. UNION {A} = A
    OBVIOUS
  <2> QED
    BY <1>4, <2>1, <2>2, <2>3 DEF A
<1> QED
  BY <1>3, <1>4

\* The range of a place is the hashes that it is behind.
LEMMA RangeIs ==
  ASSUME NEW map, DOMAIN map \in SUBSET Hash, 0 \notin DOMAIN map,
         NEW p \in DOMAIN map, \E r \in DOMAIN map : r # p
  PROVE  UNION ToSet(Parts(p, End(map, p))) = {k \in Hash : Behind(map, k, p)}
<1> DEFINE e == End(map, p)
           S == UNION ToSet(Parts(p, e))
<1>1. e \in DOMAIN map /\ \A r \in DOMAIN map : Way(p, e) <= Way(p, r)
  BY EndIs
<1> HIDE DEF e
<1>2. RingMax \in Nat /\ p \in 0 .. RingMax /\ e \in 0 .. RingMax /\ e # 0
  BY <1>1, Sizes DEF Hash
<1>3. \A k, r \in 0 .. RingMax : Way(k, r) = IF r > k THEN r - k - 1 ELSE r - k + RingMax
  BY WayIs DEF Hash
<1>4. p # e
  <2>1. PICK r \in DOMAIN map : r # p
    OBVIOUS
  <2>2. r \in 0 .. RingMax
    BY DEF Hash
  <2>3. Way(p, p) = RingMax
    BY <1>2, <1>3
  <2>4. Way(p, r) < RingMax
    <3>1. Way(p, r) = IF r > p THEN r - p - 1 ELSE r - p + RingMax
      BY <1>2, <1>3, <2>2
    <3> QED
      BY <1>2, <2>1, <2>2, <3>1
  <2>5. Way(p, e) <= Way(p, r) /\ Way(p, r) \in Int
    <3>1. Way(p, r) = IF r > p THEN r - p - 1 ELSE r - p + RingMax
      BY <1>2, <1>3, <2>2
    <3> QED
      BY <1>1, <1>2, <2>2, <3>1
  <2> QED
    BY <1>2, <2>3, <2>4, <2>5
<1>5. S = IF p > e THEN (p .. RingMax) \cup (0 .. e - 1) ELSE p .. e - 1
  BY <1>1, <1>2, PartsAre
<1> HIDE DEF S
<1>6. ASSUME NEW k \in 0 .. RingMax
      PROVE  k \in S <=> IF p > e THEN p <= k \/ k < e ELSE p <= k /\ k < e
  BY <1>2, <1>5
<1>7. S \in SUBSET (0 .. RingMax)
  BY <1>2, <1>5
<1>8. ASSUME NEW k \in 0 .. RingMax, k \in S, NEW r \in DOMAIN map
      PROVE  Way(k, r) <= Way(k, p)
  <2>1. r \in 0 .. RingMax /\ Way(p, e) <= Way(p, r)
    BY <1>1 DEF Hash
  <2>2. /\ Way(p, e) = IF e > p THEN e - p - 1 ELSE e - p + RingMax
        /\ Way(p, r) = IF r > p THEN r - p - 1 ELSE r - p + RingMax
    BY <1>2, <1>3, <2>1
  <2>3. /\ Way(k, r) = IF r > k THEN r - k - 1 ELSE r - k + RingMax
        /\ Way(k, p) = IF p > k THEN p - k - 1 ELSE p - k + RingMax
    BY <1>2, <1>3, <2>1
  <2>4. CASE p > e
    <3>1. e <= r /\ r <= p
      BY <1>2, <2>1, <2>2, <2>4
    <3>2. p <= k \/ k < e
      BY <1>6, <1>8, <2>4
    <3> QED
      BY <1>2, <2>1, <2>3, <2>4, <3>1, <3>2
  <2>5. CASE ~(p > e)
    <3>1. r <= p \/ e <= r
      BY <1>2, <1>4, <2>1, <2>2, <2>5
    <3>2. p <= k /\ k < e
      BY <1>6, <1>8, <2>5
    <3> QED
      BY <1>2, <2>1, <2>3, <3>1, <3>2
  <2> QED
    BY <2>4, <2>5
<1>9. ASSUME NEW k \in 0 .. RingMax, k \notin S
      PROVE  ~(Way(k, e) <= Way(k, p))
  <2>1. /\ Way(k, e) = IF e > k THEN e - k - 1 ELSE e - k + RingMax
        /\ Way(k, p) = IF p > k THEN p - k - 1 ELSE p - k + RingMax
    BY <1>2, <1>3
  <2>2. IF p > e THEN e <= k /\ k < p ELSE k < p \/ e <= k
    BY <1>2, <1>6, <1>9
  <2> QED
    BY <1>2, <1>4, <2>1, <2>2
<1>10. ASSUME NEW k \in Hash
       PROVE  k \in S <=> Behind(map, k, p)
  <2>1. k \in 0 .. RingMax
    BY DEF Hash
  <2>2. k \in S => Behind(map, k, p)
    BY <1>8, <2>1 DEF Behind
  <2>3. k \notin S => ~Behind(map, k, p)
    BY <1>1, <1>9, <2>1 DEF Behind
  <2> QED
    BY <2>2, <2>3
<1>11. S = {k \in Hash : Behind(map, k, p)}
  BY <1>7, <1>10 DEF Hash
<1> QED
  BY <1>11 DEF S, e

\* There is one place behind a hash.
LEMMA BehindOne ==
  ASSUME NEW map, DOMAIN map \in SUBSET Hash, DOMAIN map # {}, NEW k \in Hash
  PROVE  /\ \E p \in DOMAIN map : Behind(map, k, p)
         /\ \A p, q : Behind(map, k, p) /\ Behind(map, k, q) => p = q
<1> DEFINE D == {Way(k, r) : r \in DOMAIN map}
<1>1. \A r \in DOMAIN map : r \in Hash /\ Way(k, r) \in 0 .. RingMax
  BY WayIs
<1>2. RingMax \in Nat
  BY Sizes
<1>3. IsFiniteSet(0 .. RingMax)
  BY <1>2, FS_Interval
<1>4. D \in SUBSET (0 .. RingMax) /\ D # {}
  BY <1>1
<1> HIDE DEF D
<1>5. IsFiniteSet(D)
  BY <1>3, <1>4, FS_Subset
<1>6. D \in SUBSET Nat
  BY <1>2, <1>4
<1>7. \E x \in D : \A y \in D : y <= x
  BY <1>4, <1>5, <1>6, Extremes
<1>8. \E p \in DOMAIN map : Behind(map, k, p)
  BY <1>7 DEF D, Behind
<1>9. ASSUME NEW p, NEW q, Behind(map, k, p), Behind(map, k, q)
      PROVE  p = q
  <2>1. /\ p \in Hash /\ q \in Hash
        /\ Way(k, p) \in 0 .. RingMax /\ Way(k, q) \in 0 .. RingMax
        /\ Way(k, p) <= Way(k, q) /\ Way(k, q) <= Way(k, p)
    BY <1>1, <1>9 DEF Behind
  <2>2. Way(k, p) = Way(k, q)
    BY <1>2, <2>1
  <2> QED
    BY <2>1, <2>2, WayIs
<1> QED
  BY <1>8, <1>9

\* From a hash and from the place behind it the same places come first.
LEMMA BehindOrder ==
  ASSUME NEW map, DOMAIN map \in SUBSET Hash, NEW k \in Hash, NEW p, Behind(map, k, p),
         NEW q \in DOMAIN map, NEW r \in DOMAIN map
  PROVE  Way(k, q) <= Way(k, r) <=> Way(p, q) <= Way(p, r)
<1>1. RingMax \in Nat /\ \A a \in DOMAIN map : a \in 0 .. RingMax
  BY Sizes DEF Hash
<1>2. /\ p \in 0 .. RingMax /\ q \in 0 .. RingMax /\ r \in 0 .. RingMax
      /\ k \in 0 .. RingMax
      /\ Way(k, q) <= Way(k, p) /\ Way(k, r) <= Way(k, p)
  BY <1>1 DEF Behind, Hash
<1>3. \A a, b \in 0 .. RingMax : Way(a, b) = IF b > a THEN b - a - 1 ELSE b - a + RingMax
  BY WayIs DEF Hash
<1> DEFINE off == IF p > k THEN k - p + RingMax + 1 ELSE k - p
<1>4. ASSUME NEW a \in 0 .. RingMax, Way(k, a) <= Way(k, p)
      PROVE  Way(k, a) = Way(p, a) - off /\ Way(p, a) \in Int
  <2>1. /\ Way(k, a) = IF a > k THEN a - k - 1 ELSE a - k + RingMax
        /\ Way(k, p) = IF p > k THEN p - k - 1 ELSE p - k + RingMax
        /\ Way(p, a) = IF a > p THEN a - p - 1 ELSE a - p + RingMax
    BY <1>2, <1>3
  <2>2. Way(p, a) \in Int
    BY <1>1, <1>2, <2>1
  <2>3. CASE p > k
    <3>1. off = k - p + RingMax + 1
      BY <2>3
    <3>2. k < a /\ a <= p
      BY <1>1, <1>2, <1>4, <2>1, <2>3
    <3> QED
      BY <1>1, <1>2, <2>1, <2>2, <3>1, <3>2
  <2>4. CASE ~(p > k)
    <3>1. off = k - p
      BY <2>4
    <3>2. k < a \/ a <= p
      BY <1>1, <1>2, <1>4, <2>1, <2>4
    <3> QED
      BY <1>1, <1>2, <2>1, <2>2, <2>4, <3>1, <3>2
  <2> QED
    BY <2>3, <2>4
<1>5. off \in Int
  BY <1>1, <1>2
<1> HIDE DEF off
<1>6. /\ Way(k, q) = Way(p, q) - off /\ Way(p, q) \in Int
      /\ Way(k, r) = Way(p, r) - off /\ Way(p, r) \in Int
  BY <1>2, <1>4
<1> QED
  BY <1>5, <1>6

\* So the walks from both are the same.
LEMMA BehindWalk ==
  ASSUME NEW map, DOMAIN map \in SUBSET Hash, NEW k \in Hash, NEW p, Behind(map, k, p)
  PROVE  Walk(map, k) = Walk(map, p)
<1> DEFINE S == Range(map)
           f == [id \in S |-> Far(map, k, id)]
           g == [id \in S |-> Far(map, p, id)]
<1>1. p \in Hash
  BY DEF Behind
<1>2. ASSUME NEW id \in S
      PROVE  \E a \in DOMAIN map : Far(map, k, id) = Way(k, a) /\ Far(map, p, id) = Way(p, a)
  <2>1. PICK a \in DOMAIN map :
          /\ map[a] = id /\ Far(map, k, id) = Way(k, a)
          /\ \A q \in DOMAIN map : map[q] = id => Way(k, a) <= Way(k, q)
    BY FarIs
  <2>2. PICK b \in DOMAIN map :
          /\ map[b] = id /\ Far(map, p, id) = Way(p, b)
          /\ \A q \in DOMAIN map : map[q] = id => Way(p, b) <= Way(p, q)
    BY <1>1, FarIs
  <2>3. Way(k, a) <= Way(k, b) /\ Way(p, b) <= Way(p, a)
    BY <2>1, <2>2
  <2>4. Way(p, a) <= Way(p, b)
    BY <2>3, BehindOrder
  <2>5. a \in Hash /\ b \in Hash
    OBVIOUS
  <2>6. Way(p, a) \in Int /\ Way(p, b) \in Int
    BY <1>1, <2>5, WayIs
  <2>7. Way(p, a) = Way(p, b)
    BY <2>3, <2>4, <2>6
  <2> QED
    BY <2>1, <2>2, <2>7
<1>3. ASSUME NEW i \in S, NEW j \in S
      PROVE  f[j] < f[i] <=> g[j] < g[i]
  <2>1. PICK a \in DOMAIN map : Far(map, k, i) = Way(k, a) /\ Far(map, p, i) = Way(p, a)
    BY <1>2
  <2>2. PICK b \in DOMAIN map : Far(map, k, j) = Way(k, b) /\ Far(map, p, j) = Way(p, b)
    BY <1>2
  <2>3. a \in Hash /\ b \in Hash
    OBVIOUS
  <2>4. /\ Way(k, a) \in Int /\ Way(k, b) \in Int
        /\ Way(p, a) \in Int /\ Way(p, b) \in Int
    BY <1>1, <2>3, WayIs
  <2>5. Way(k, a) <= Way(k, b) <=> Way(p, a) <= Way(p, b)
    BY BehindOrder
  <2>6. /\ f[i] = Way(k, a) /\ f[j] = Way(k, b)
        /\ g[i] = Way(p, a) /\ g[j] = Way(p, b)
    BY <2>1, <2>2
  <2> QED
    BY <2>4, <2>5, <2>6
<1>4. Walk(map, k) = Ranked(S, f) /\ Walk(map, p) = Ranked(S, g)
  BY DEF Walk
<1> HIDE DEF f, g, S
<1>5. \A id \in S : {j \in S : f[j] < f[id]} = {j \in S : g[j] < g[id]}
  BY <1>3
<1> DEFINE F(n) == CHOOSE id \in S : Cardinality({j \in S : f[j] < f[id]}) = n - 1
           G(n) == CHOOSE id \in S : Cardinality({j \in S : g[j] < g[id]}) = n - 1
<1>6. ASSUME NEW n
      PROVE  F(n) = G(n)
  <2>1. \A id \in S : Cardinality({j \in S : f[j] < f[id]}) = n - 1
                         <=> Cardinality({j \in S : g[j] < g[id]}) = n - 1
    BY <1>5
  <2> QED
    BY <2>1
<1>7. /\ Ranked(S, f) = [n \in 1 .. Cardinality(S) |-> F(n)]
      /\ Ranked(S, g) = [n \in 1 .. Cardinality(S) |-> G(n)]
  BY DEF Ranked
<1> HIDE DEF F, G
<1>8. Ranked(S, f) = Ranked(S, g)
  BY <1>6, <1>7
<1> QED
  BY <1>4, <1>8

\* No host stands at 0.
ZeroFree == \A h \in Host : 0 \notin vnodes[h]

\* A move sends the hashes that its place is behind, and removes none but those.
LEMMA SentIs ==
  ASSUME NEW L \in Seq(Host), IsInjective(L), vnodes \in Vnodes, ZeroFree, Len(L) > N,
         NEW i \in 1 .. Len(L), NEW p \in PlacesMoved(L, i), NEW comes \in BOOLEAN,
         NEW m, m = MoveOf(L, i, p, comes)
  PROVE  /\ Sent(m) = {k \in Hash : Behind(Ring(L), k, p)}
         /\ Last(Parts(m.begin, m.end)) \subseteq Sent(m)
<1> DEFINE map == Ring(L)
<1>1. DOMAIN map \in SUBSET Hash /\ p \in DOMAIN map
  BY RingIs DEF PlacesMoved
<1>2. 0 \notin DOMAIN map
  <2>1. ASSUME 0 \in DOMAIN map
        PROVE  FALSE
    <3>1. Ring(L)[0] \in 1 .. Len(L) /\ 0 \in vnodes[L[Ring(L)[0]]]
      BY <2>1, RingIs
    <3>2. L[Ring(L)[0]] \in Host
      BY <3>1
    <3> QED
      BY <3>1, <3>2 DEF ZeroFree
  <2> QED
    BY <2>1
<1>3. \E r \in DOMAIN map : r # p
  <2>1. N \in Nat /\ N >= 2 /\ Len(L) \in Nat
    BY Sizes
  <2>2. 1 \in 1 .. Len(L) /\ 2 \in 1 .. Len(L)
    BY <2>1
  <2>3. 1 \in Range(map) /\ 2 \in Range(map)
    BY <2>2, RingRange
  <2>4. PICK a \in DOMAIN map : map[a] = 1
    BY <2>3 DEF Range
  <2>5. PICK b \in DOMAIN map : map[b] = 2
    BY <2>3 DEF Range
  <2>6. a # b
    BY <2>4, <2>5
  <2> QED
    BY <2>6
<1>4. m.begin = p /\ m.end = End(map, p)
  BY MoveIs
<1> HIDE DEF map
<1>5. UNION ToSet(Parts(p, End(map, p))) = {k \in Hash : Behind(map, k, p)}
  BY <1>1, <1>2, <1>3, RangeIs
<1>6. End(map, p) \in DOMAIN map
  BY <1>1, EndIs
<1>7. p \in Hash /\ End(map, p) \in Hash /\ End(map, p) # 0
  BY <1>1, <1>2, <1>6
<1>8. Last(Parts(p, End(map, p))) \subseteq UNION ToSet(Parts(p, End(map, p)))
  BY <1>7, PartsAre
<1> QED
  BY <1>4, <1>5, <1>8 DEF Sent, map

\* A host is among the first of a walk where its index is.
LEMMA NearestMember ==
  ASSUME NEW L \in Seq(Host), IsInjective(L), vnodes \in Vnodes, Len(L) > N,
         NEW k \in Hash, NEW walk, walk = Walk(Ring(L), k),
         NEW m \in 1 .. N + 1, NEW n \in 1 .. N + 1
  PROVE  /\ Nearest(L, k, m) = {L[walk[j]] : j \in 1 .. m}
         /\ L[walk[n]] \in Nearest(L, k, m) <=> n <= m
<1>1. /\ \A j \in 1 .. N + 1 : walk[j] \in 1 .. Len(L)
      /\ \A j, l \in 1 .. N + 1 : L[walk[j]] = L[walk[l]] => j = l
  BY WalkBegins
<1>2. Nearest(L, k, m) = {L[walk[j]] : j \in 1 .. m}
  BY DEF Nearest
<1>3. N \in Nat
  BY Sizes
<1>4. ASSUME n <= m
      PROVE  L[walk[n]] \in Nearest(L, k, m)
  <2>1. n \in 1 .. m
    BY <1>3, <1>4
  <2> QED
    BY <1>2, <2>1
<1>5. ASSUME L[walk[n]] \in Nearest(L, k, m)
      PROVE  n <= m
  <2>1. PICK j \in 1 .. m : L[walk[n]] = L[walk[j]]
    BY <1>2, <1>5
  <2>2. j \in 1 .. N + 1 /\ j <= m
    BY <1>3
  <2>3. n = j
    BY <1>1, <2>1, <2>2
  <2> QED
    BY <2>2, <2>3
<1> QED
  BY <1>2, <1>4, <1>5

\* The plan has a move for each hash of which the host that comes or goes is one
\* of the nearest.
LEMMA PlanCovers ==
  ASSUME NEW L \in Seq(Host), IsInjective(L), vnodes \in Vnodes, Len(L) > N,
         NEW i \in 1 .. Len(L), NEW k \in Hash, L[i] \in Nearest(L, k, N)
  PROVE  \E p \in PlacesMoved(L, i) : Behind(Ring(L), k, p)
<1> DEFINE walk == Walk(Ring(L), k)
<1>1. N \in Nat /\ N >= 2 /\ Len(L) \in Nat /\ DOMAIN L = 1 .. Len(L)
  BY Sizes
<1>2. DOMAIN Ring(L) \in SUBSET Hash
  BY RingIs
<1>3. DOMAIN Ring(L) # {}
  <2>1. 1 \in Range(Ring(L))
    BY <1>1, RingRange
  <2> QED
    BY <2>1 DEF Range
<1>4. PICK p \in DOMAIN Ring(L) : Behind(Ring(L), k, p)
  BY <1>2, <1>3, BehindOne
<1>5. Walk(Ring(L), p) = walk
  BY <1>2, <1>4, BehindWalk
<1>6. PICK n \in 1 .. N : L[i] = L[walk[n]]
  BY DEF Nearest
<1>7. walk = Walk(Ring(L), k)
  OBVIOUS
<1> HIDE DEF walk
<1>8. n \in 1 .. N + 1
  BY <1>1
<1>9. walk[n] \in 1 .. Len(L)
  BY <1>7, <1>8, WalkBegins
<1>10. walk[n] = i
  BY <1>1, <1>6, <1>9 DEF IsInjective
<1> QED
  BY <1>4, <1>5, <1>10 DEF PlacesMoved

\* For the hashes of a move, the host that comes takes over from the one that
\* is the next after the nearest N; where a host goes, one of them copies to
\* the next.
LEMMA MoveHosts ==
  ASSUME NEW L \in Seq(Host), IsInjective(L), vnodes \in Vnodes, Len(L) > N,
         NEW i \in 1 .. Len(L), NEW p \in PlacesMoved(L, i), NEW comes \in BOOLEAN,
         NEW m, m = MoveOf(L, i, p, comes), NEW k \in Hash, Behind(Ring(L), k, p)
  PROVE  /\ L[i] \in Nearest(L, k, N)
         /\ \E h \in Host :
              /\ h \notin Nearest(L, k, N)
              /\ Nearest(L, k, N + 1) = Nearest(L, k, N) \cup {h}
              /\ comes => m.src = h /\ m.dst = L[i]
              /\ ~comes => m.src \in Nearest(L, k, N) /\ m.dst = h
<1> DEFINE walk == Walk(Ring(L), k)
           first == IF walk[1] = i THEN 2 ELSE 1
<1>1. N \in Nat /\ N >= 2 /\ Len(L) \in Nat
  BY Sizes
<1>2. DOMAIN Ring(L) \in SUBSET Hash
  BY RingIs
<1>3. Walk(Ring(L), p) = walk
  BY <1>2, BehindWalk
<1>4. PICK n \in 1 .. N : walk[n] = i
  BY <1>3 DEF PlacesMoved
<1>5. walk = Walk(Ring(L), k)
  OBVIOUS
<1>6. m = IF comes THEN Move(Ring(L), p, L[walk[N + 1]], L[i], TRUE)
                   ELSE Move(Ring(L), p, L[walk[first]], L[walk[N + 1]], FALSE)
  BY <1>3 DEF MoveOf
<1>7. first \in 1 .. N + 1 /\ first <= N
  BY <1>1
<1> HIDE DEF walk, first
<1>8. /\ N \in 1 .. N + 1 /\ N + 1 \in 1 .. N + 1 /\ ~(N + 1 <= N)
      /\ n \in 1 .. N + 1 /\ n <= N
  BY <1>1
<1>9. \A a, b \in 1 .. N + 1 :
        /\ Nearest(L, k, a) = {L[walk[j]] : j \in 1 .. a}
        /\ L[walk[b]] \in Nearest(L, k, a) <=> b <= a
  BY <1>5, NearestMember
<1>10. L[i] \in Nearest(L, k, N)
  BY <1>4, <1>8, <1>9
<1>11. L[walk[N + 1]] \notin Nearest(L, k, N) /\ L[walk[first]] \in Nearest(L, k, N)
  BY <1>7, <1>8, <1>9
<1>12. Nearest(L, k, N + 1) = Nearest(L, k, N) \cup {L[walk[N + 1]]}
  <2>1. Nearest(L, k, N + 1) = {L[walk[j]] : j \in 1 .. N + 1}
    BY <1>8, <1>9
  <2>2. Nearest(L, k, N) = {L[walk[j]] : j \in 1 .. N}
    BY <1>8, <1>9
  <2>3. 1 .. N + 1 = (1 .. N) \cup {N + 1}
    BY <1>1
  <2> QED
    BY <2>1, <2>2, <2>3
<1>13. L[walk[N + 1]] \in Host
  BY <1>5, <1>8, WalkBegins
<1>14. /\ comes => m.src = L[walk[N + 1]] /\ m.dst = L[i]
       /\ ~comes => m.src = L[walk[first]] /\ m.dst = L[walk[N + 1]]
  BY <1>6 DEF Move
<1> QED
  BY <1>10, <1>11, <1>12, <1>13, <1>14

-----------------------------------------------------------------------------
(* ReplicasKept.  Until the move that has a hash in its range is carried   *)
(* out, the replicas by the list before the change hold its last value;    *)
(* from then on those by the list after it do.                             *)

\* No two hosts have a place in common, and none has the place 0.
PlacesSeparate ==
  \A f \in Vnodes :
    /\ \A g, h \in Host : g # h => f[g] \cap f[h] = {}
    /\ \A h \in Host : 0 \notin f[h]

\* The list after the change, and the list whose replicas hold a hash.
After == IF change.op = "add" THEN Longer
         ELSE IF change.op = "remove" THEN Shorter ELSE hostList
Pending(k) == \E m \in moves : k \in Sent(m)
Holding(k) == IF Pending(k) THEN hostList ELSE After

\* The hashes that are not torn are held by those replicas.
KeptInv ==
  Len(hostList) >= N =>
    \A k \in Hash \ torn : \A h \in Nearest(Holding(k), k, N) : k \in holds[h]

\* The plan moves every hash whose replicas change.
ShippedInv ==
  Len(hostList) >= N =>
    \A k \in Hash : ~Pending(k) /\ k \notin shipped =>
                     Nearest(After, k, N) = Nearest(hostList, k, N)

\* The nearest hosts depend on the places and the list only.
LEMMA KeptNext ==
  ASSUME vnodes' = vnodes
  PROVE  /\ (Len(hostList') >= N =>
                \A k \in Hash \ torn' :
                  \A h \in Nearest(Holding(k)', k, N) : k \in holds'[h])
               => KeptInv'
         /\ (Len(hostList') >= N =>
                \A k \in Hash : ~Pending(k)' /\ k \notin shipped' =>
                                 Nearest(After', k, N) = Nearest(hostList', k, N))
               => ShippedInv'
<1>1. ASSUME NEW k \in Hash
      PROVE  /\ Nearest(Holding(k), k, N)' = Nearest(Holding(k)', k, N)
             /\ Nearest(After, k, N)' = Nearest(After', k, N)
             /\ Nearest(hostList, k, N)' = Nearest(hostList', k, N)
  BY DEF Nearest, Ring, Standing
<1>2. (Len(hostList') >= N =>
         \A k \in Hash \ torn' :
           \A h \in Nearest(Holding(k)', k, N) : k \in holds'[h])
        => KeptInv'
  BY <1>1 DEF KeptInv
<1>3. (Len(hostList') >= N =>
         \A k \in Hash : ~Pending(k)' /\ k \notin shipped' =>
                          Nearest(After', k, N) = Nearest(hostList', k, N))
        => ShippedInv'
  BY <1>1 DEF ShippedInv
<1> QED
  BY <1>2, <1>3

\* What PlacesSeparate says of the places of a state.
LEMMA SeparateIs ==
  ASSUME PlacesSeparate, RingInv
  PROVE  PlacesApart /\ ZeroFree
BY DEF PlacesSeparate, RingInv, PlacesApart, ZeroFree

\* Of two lists that differ by a host, the first hosts of the longer one are
\* also first in the shorter one, but for that host.
LEMMA Overlap ==
  ASSUME RingInv, PlacesApart, change.op # "none", NEW k \in Hash
  PROVE  /\ Nearest(Longer, k, N) \ {change.host} \in SUBSET Nearest(Shorter, k, N)
         /\ change.host \notin Nearest(Longer, k, N) =>
              Nearest(Shorter, k, N) = Nearest(Longer, k, N)
         /\ change.host \in Nearest(Longer, k, N) =>
              Nearest(Shorter, k, N) = Nearest(Longer, k, N + 1) \ {change.host}
<1>1. /\ Longer \in Seq(Host) /\ IsInjective(Longer) /\ Len(Longer) > N
      /\ Shorter \in Seq(Host) /\ IsInjective(Shorter) /\ Len(Shorter) >= N
      /\ Moving \in 1 .. Len(Longer) /\ Longer[Moving] = change.host
      /\ Without(Shorter, Longer, Moving)
  BY PlanIs
<1>2. vnodes \in Vnodes /\ N \in Nat /\ N >= 2
  BY Sizes DEF RingInv
<1>3. Len(Shorter) \in Nat
  BY <1>1
<1>4. N \in 1 .. Len(Shorter)
  BY <1>1, <1>2, <1>3
<1>5. change.host \notin Nearest(Longer, k, N) =>
        Nearest(Shorter, k, N) = Nearest(Longer, k, N)
  BY <1>1, <1>2, <1>4, NearestWithout
<1>6. change.host \in Nearest(Longer, k, N + 1) =>
        Nearest(Shorter, k, N) = Nearest(Longer, k, N + 1) \ {change.host}
  BY <1>1, <1>2, <1>4, NearestWithout
<1>7. Nearest(Longer, k, N) \in SUBSET Nearest(Longer, k, N + 1)
  <2>1. ASSUME NEW h \in Nearest(Longer, k, N)
        PROVE  h \in Nearest(Longer, k, N + 1)
    <3>1. PICK n \in 1 .. N : h = Longer[Walk(Ring(Longer), k)[n]]
      BY DEF Nearest
    <3>2. n \in 1 .. N + 1
      BY <1>2
    <3> QED
      BY <3>1, <3>2 DEF Nearest
  <2> QED
    BY <2>1
<1> QED
  BY <1>5, <1>6, <1>7

\* At least N replicas, or N - 1 while a plan is carried out, hold the last value
\* of a hash that those hold which the invariant names.
LEMMA KeptGives ==
  ASSUME RingInv, PlacesApart, KeptInv
  PROVE  ReplicasKept
<1> DEFINE Holders(k) == {h \in Replicas(k) : k \in holds[h]}
<1> SUFFICES ASSUME Len(hostList) >= N, NEW k \in Hash \ torn
             PROVE  Cardinality(Holders(k)) >= IF change = NoChange THEN N ELSE N - 1
  BY DEF ReplicasKept
<1>1. /\ vnodes \in Vnodes /\ nodeMap = Ring(hostList)
      /\ hostList \in Seq(Host) /\ IsInjective(hostList)
      /\ N \in Nat /\ N >= 2 /\ Len(hostList) \in Nat
  BY Sizes DEF RingInv
<1>2. N \in 1 .. Len(hostList)
  BY <1>1
<1>3. Replicas(k) = Nearest(hostList, k, N)
  BY <1>1, ReplicasAre
<1>4. IsFiniteSet(Replicas(k)) /\ Cardinality(Replicas(k)) = N
  BY <1>1, <1>2, <1>3, NearestIs
<1>5. \A h \in Nearest(Holding(k), k, N) : k \in holds[h]
  BY DEF KeptInv
<1>6. CASE Holding(k) = hostList
  <2>1. Holders(k) = Replicas(k)
    BY <1>3, <1>5, <1>6
  <2>2. Cardinality(Holders(k)) = N
    BY <1>4, <2>1
  <2>3. N >= N /\ N >= N - 1
    BY <1>1
  <2> HIDE DEF Holders
  <2> QED
    BY <2>2, <2>3
<1>7. CASE Holding(k) # hostList
  <2>1. change.op # "none" /\ change # NoChange /\ Holding(k) = After
    BY <1>7 DEF Holding, After, NoChange
  <2>2. \/ After = Longer /\ hostList = Shorter
        \/ After = Shorter /\ hostList = Longer
    BY <2>1, ChangeIs DEF After, Longer, Shorter, RingInv
  <2> DEFINE Least == Nearest(Longer, k, N) \ {change.host}
  <2>3. Least \in SUBSET Nearest(Longer, k, N) /\ Least \in SUBSET Nearest(Shorter, k, N)
    BY <2>1, Overlap
  <2>4. Least \in SUBSET Holders(k)
    BY <1>3, <1>5, <2>1, <2>2, <2>3
  <2>5. /\ Longer \in Seq(Host) /\ IsInjective(Longer) /\ Len(Longer) > N
        /\ Len(Longer) \in Nat
    BY <2>1, PlanIs
  <2>6. N \in 1 .. Len(Longer)
    BY <1>1, <2>5
  <2>7. /\ IsFiniteSet(Nearest(Longer, k, N))
        /\ Cardinality(Nearest(Longer, k, N)) = N
    BY <1>1, <2>5, <2>6, NearestIs
  <2>8. Cardinality(Least) \in Nat /\ Cardinality(Least) >= N - 1
    <3>1. CASE change.host \in Nearest(Longer, k, N)
      <4>1. Cardinality(Least) = Cardinality(Nearest(Longer, k, N)) - 1
        BY <2>7, <3>1, FS_RemoveElement
      <4>2. Cardinality(Least) = N - 1
        BY <2>7, <4>1
      <4> HIDE DEF Least
      <4> QED
        BY <1>1, <4>2
    <3>2. CASE change.host \notin Nearest(Longer, k, N)
      <4>1. Least = Nearest(Longer, k, N)
        BY <3>2
      <4>2. Cardinality(Least) = N
        BY <2>7, <4>1
      <4> HIDE DEF Least
      <4> QED
        BY <1>1, <4>2
    <3> QED
      BY <3>1, <3>2
  <2>9. Holders(k) \in SUBSET Replicas(k)
    OBVIOUS
  <2> HIDE DEF Holders, Least
  <2>10. IsFiniteSet(Holders(k))
    BY <1>4, <2>9, FS_Subset
  <2>11. Cardinality(Holders(k)) \in Nat /\ Cardinality(Least) <= Cardinality(Holders(k))
    BY <2>4, <2>10, FS_Subset, FS_CardinalityType
  <2> QED
    BY <1>1, <2>1, <2>8, <2>11
<1> QED
  BY <1>6, <1>7

\* At first the replicas of each hash hold it, and will.
LEMMA KeptInit == Init => KeptInv /\ ShippedInv
<1> SUFFICES ASSUME Init, Len(hostList) >= N, NEW k \in Hash
             PROVE  /\ \A h \in Nearest(Holding(k), k, N) : k \in holds[h]
                    /\ Nearest(After, k, N) = Nearest(hostList, k, N)
  BY DEF KeptInv, ShippedInv
<1>1. RingInv
  BY RingInvInit
<1>2. /\ vnodes \in Vnodes /\ nodeMap = Ring(hostList)
      /\ hostList \in Seq(Host) /\ IsInjective(hostList)
      /\ N \in Nat /\ N >= 2 /\ Len(hostList) \in Nat
  BY <1>1, Sizes DEF RingInv
<1>3. change.op = "none" /\ moves = {}
  BY DEF Init, NoChange
<1>4. Holding(k) = hostList /\ After = hostList
  BY <1>3 DEF Holding, Pending, After
<1>5. Replicas(k) = Nearest(hostList, k, N)
  BY <1>2, ReplicasAre
<1>6. N \in 1 .. Len(hostList)
  BY <1>2
<1>7. Nearest(hostList, k, N) \in SUBSET Host
  BY <1>2, <1>6, NearestIs
<1>8. holds = [g \in Host |-> {a \in Hash : g \in Replicas(a)}]
  BY DEF Init
<1>9. \A h \in Nearest(hostList, k, N) : k \in holds[h]
  BY <1>5, <1>7, <1>8
<1> QED
  BY <1>4, <1>9

\* A plan sends each hash of which the host that comes or goes is one of the
\* nearest.
LEMMA PlanSends ==
  ASSUME NEW L \in Seq(Host), IsInjective(L), vnodes \in Vnodes, ZeroFree, Len(L) > N,
         NEW i \in 1 .. Len(L), NEW comes \in BOOLEAN,
         NEW k \in Hash, L[i] \in Nearest(L, k, N)
  PROVE  \E p \in PlacesMoved(L, i) : k \in Sent(MoveOf(L, i, p, comes))
<1>1. PICK p \in PlacesMoved(L, i) : Behind(Ring(L), k, p)
  BY PlanCovers
<1> DEFINE m == MoveOf(L, i, p, comes)
<1>2. m = MoveOf(L, i, p, comes)
  OBVIOUS
<1> HIDE DEF m
<1>3. Sent(m) = {a \in Hash : Behind(Ring(L), a, p)}
  BY <1>2, SentIs
<1> QED
  BY <1>1, <1>3 DEF m

\* What a move that is left sends: the hashes behind which its place is.  No
\* other move sends them, and the place tells the hosts of the move.
LEMMA MoveSends ==
  ASSUME RingInv, ZeroFree, NEW m \in moves
  PROVE  \A k \in Sent(m) :
              /\ \A n \in moves : k \in Sent(n) => n = m
              /\ k \in Hash /\ change.host \in Nearest(Longer, k, N)
              /\ \E h \in Host :
                   /\ h \notin Nearest(Longer, k, N)
                   /\ Nearest(Longer, k, N + 1) = Nearest(Longer, k, N) \cup {h}
                   /\ change.op = "add" => m.src = h /\ m.dst = change.host
                   /\ change.op # "add" =>
                        m.src \in Nearest(Longer, k, N) /\ m.dst = h /\ ~m.remove
<1> DEFINE comes == change.op = "add"
<1>1. change.op # "none" /\ vnodes \in Vnodes /\ comes \in BOOLEAN
  BY MovesAre DEF RingInv
<1>2. /\ Longer \in Seq(Host) /\ IsInjective(Longer) /\ Len(Longer) > N
      /\ Moving \in 1 .. Len(Longer) /\ Longer[Moving] = change.host
  BY <1>1, PlanIs
<1>3. \A n \in moves : \E p \in PlacesMoved(Longer, Moving) :
        n = MoveOf(Longer, Moving, p, comes)
  BY MovesAre
<1>4. comes <=> change.op = "add"
  OBVIOUS
<1> HIDE DEF comes
<1>5. ASSUME NEW n \in moves, NEW p \in PlacesMoved(Longer, Moving),
             n = MoveOf(Longer, Moving, p, comes)
      PROVE  Sent(n) = {k \in Hash : Behind(Ring(Longer), k, p)}
  BY <1>1, <1>2, <1>5, SentIs
<1>6. PICK p \in PlacesMoved(Longer, Moving) : m = MoveOf(Longer, Moving, p, comes)
  BY <1>3
<1>7. /\ DOMAIN Ring(Longer) \in SUBSET Hash /\ DOMAIN Ring(Longer) # {}
      /\ m.remove = comes
  BY <1>1, <1>2, <1>6, RingIs, MoveIs DEF PlacesMoved
<1>8. ASSUME NEW k \in Sent(m)
      PROVE  /\ \A n \in moves : k \in Sent(n) => n = m
             /\ k \in Hash /\ change.host \in Nearest(Longer, k, N)
             /\ \E h \in Host :
                  /\ h \notin Nearest(Longer, k, N)
                  /\ Nearest(Longer, k, N + 1) = Nearest(Longer, k, N) \cup {h}
                  /\ comes => m.src = h /\ m.dst = change.host
                  /\ ~comes => m.src \in Nearest(Longer, k, N) /\ m.dst = h
  <2>1. k \in Hash /\ Behind(Ring(Longer), k, p)
    BY <1>5, <1>6
  <2>2. ASSUME NEW n \in moves, k \in Sent(n)
        PROVE  n = m
    <3>1. PICK q \in PlacesMoved(Longer, Moving) : n = MoveOf(Longer, Moving, q, comes)
      BY <1>3
    <3>2. Behind(Ring(Longer), k, q)
      BY <1>5, <2>2, <3>1
    <3>3. p = q
      BY <1>7, <2>1, <3>2, BehindOne
    <3> QED
      BY <1>6, <3>1, <3>3
  <2>3. /\ Longer[Moving] \in Nearest(Longer, k, N)
        /\ \E h \in Host :
             /\ h \notin Nearest(Longer, k, N)
             /\ Nearest(Longer, k, N + 1) = Nearest(Longer, k, N) \cup {h}
             /\ comes => m.src = h /\ m.dst = Longer[Moving]
             /\ ~comes => m.src \in Nearest(Longer, k, N) /\ m.dst = h
    BY <1>1, <1>2, <1>6, <2>1, MoveHosts
  <2> QED
    BY <1>2, <2>1, <2>2, <2>3
<1> QED
  BY <1>4, <1>5, <1>6, <1>7, <1>8

\* What a move does: the copies of the hashes that it sends change at its two
\* hosts only, but for those that it tears.
LEMMA MoveHolds ==
  ASSUME RingInv, NEW m \in moves, NEW unsent, NEW slip, moveData(m, unsent, slip),
         NEW k, k \notin torn', NEW g \in Host
  PROVE  /\ k \notin torn
         /\ k \notin Sent(m) \/ g \notin {m.src, m.dst} \/ (g # m.dst /\ ~m.remove) =>
              (k \in holds'[g] <=> k \in holds[g])
         /\ k \in Sent(m) /\ k \in holds[m.src] => k \in holds'[m.dst]
<1> DEFINE sent == Sent(m)
           last == Last(Parts(m.begin, m.end))
           got == (holds[m.dst] \ sent) \cup ((holds[m.src] \cap sent) \ unsent)
           one == [holds EXCEPT ![m.dst] = got]
<1>1. PICK gone \in (IF m.remove THEN {last \ slip, last \cup slip} ELSE {{}}) :
        /\ holds' = [one EXCEPT ![m.src] = one[m.src] \ gone]
        /\ torn' = torn \cup unsent \cup (gone \ sent)
  BY Zenon DEF moveData, Sent
<1>2. m.src \in Host /\ m.dst \in Host /\ m.src # m.dst /\ m.remove \in BOOLEAN
  BY MovesAre
<1>3. holds \in [Host -> SUBSET Hash]
  BY DEF RingInv
<1>4. k \notin torn /\ k \notin unsent /\ k \notin gone \ sent
  BY <1>1
<1>5. \A a \in Host : one[a] = IF a = m.dst THEN got ELSE holds[a]
  BY <1>2, <1>3
<1>6. DOMAIN one = Host
  BY <1>3
<1>7. ~m.remove => gone = {}
  BY <1>1
<1> HIDE DEF one, last, sent
<1>8. \A a \in Host : holds'[a] = IF a = m.src THEN one[m.src] \ gone ELSE one[a]
  BY <1>1, <1>2, <1>6
<1>9. k \in got <=> IF k \in sent THEN k \in holds[m.src] ELSE k \in holds[m.dst]
  BY <1>4
<1> HIDE DEF got
<1>10. holds'[m.dst] = got
  BY <1>2, <1>5, <1>8
<1>11. holds'[m.src] = holds[m.src] \ gone
  BY <1>2, <1>5, <1>8
<1>12. \A a \in Host : a \notin {m.src, m.dst} => holds'[a] = holds[a]
  BY <1>5, <1>8
<1>13. k \notin sent => k \notin gone
  BY <1>4
<1> QED
  BY <1>2, <1>4, <1>7, <1>9, <1>10, <1>11, <1>12, <1>13 DEF sent

\* When a plan is made, the hashes that none of its moves sends have the same
\* nearest hosts before and after the change.
LEMMA KeptPlan ==
  ASSUME NEW L1 \in Seq(Host), NEW L2 \in Seq(Host), IsInjective(L1), IsInjective(L2),
         NEW i \in 1 .. Len(L2), Without(L1, L2, i), vnodes \in Vnodes, ZeroFree,
         Len(L2) > N, NEW comes \in BOOLEAN, NEW k \in Hash,
         ~\E p \in PlacesMoved(L2, i) : k \in Sent(MoveOf(L2, i, p, comes))
  PROVE  Nearest(L1, k, N) = Nearest(L2, k, N)
<1>1. L2[i] \notin Nearest(L2, k, N)
  BY PlanSends
<1>2. N \in Nat /\ N >= 2 /\ Len(L2) \in Nat /\ Len(L1) = Len(L2) - 1
  BY Sizes DEF Without
<1>3. N \in 1 .. Len(L1)
  BY <1>2
<1> QED
  BY <1>1, <1>3, NearestWithout

\* A put leaves the replicas with a copy, and those of other hashes as they are.
\* A hash that it does not tear is still to be moved, or its replicas stay.
LEMMA KeptPut ==
  ASSUME RingInv, KeptInv, ShippedInv, NEW k \in Hash, put(k)
  PROVE  KeptInv' /\ ShippedInv'
<1>1. /\ vnodes \in Vnodes /\ nodeMap = Ring(hostList)
      /\ hostList \in Seq(Host) /\ IsInjective(hostList)
      /\ holds \in [Host -> SUBSET Hash]
      /\ N \in Nat /\ N >= 2 /\ Len(hostList) \in Nat
  BY Sizes DEF RingInv
<1>2. /\ holds' = [g \in Host |-> IF g \in Replicas(k) THEN holds[g] \cup {k}
                                                       ELSE holds[g] \ {k}]
      /\ torn' = IF k \in shipped THEN torn \cup {k} ELSE torn \ {k}
      /\ UNCHANGED <<vnodes, hostList, nodeMap, change, changes, moves, shipped>>
  BY DEF put
<1>3. After' = After /\ \A a \in Hash : Pending(a)' = Pending(a)
  BY <1>2 DEF After, Longer, Shorter, Index, Pending
<1>4. \A a \in Hash : Holding(a)' = Holding(a)
  BY <1>2, <1>3 DEF Holding
<1>5. ASSUME Len(hostList) >= N, NEW a \in Hash \ torn', NEW h \in Nearest(Holding(a), a, N)
      PROVE  a \in holds'[h]
  <2>1. N \in 1 .. Len(hostList)
    BY <1>1, <1>5
  <2>2. \A L \in {hostList, Longer, Shorter} :
          change.op # "none" => Nearest(L, a, N) \in SUBSET Host
    <3>1. SUFFICES ASSUME change.op # "none"
                   PROVE  \A L \in {hostList, Longer, Shorter} :
                            Nearest(L, a, N) \in SUBSET Host
      OBVIOUS
    <3>2. /\ Longer \in Seq(Host) /\ IsInjective(Longer) /\ Len(Longer) > N
          /\ Shorter \in Seq(Host) /\ IsInjective(Shorter) /\ Len(Shorter) >= N
          /\ Len(Longer) \in Nat /\ Len(Shorter) \in Nat
      BY <3>1, PlanIs
    <3>3. N \in 1 .. Len(Longer) /\ N \in 1 .. Len(Shorter)
      BY <1>1, <3>2
    <3>4. Nearest(hostList, a, N) \in SUBSET Host
      BY <1>1, <2>1, NearestIs
    <3>5. Nearest(Longer, a, N) \in SUBSET Host /\ Nearest(Shorter, a, N) \in SUBSET Host
      BY <1>1, <3>2, <3>3, NearestIs
    <3> QED
      BY <3>4, <3>5
  <2>3. Nearest(hostList, a, N) \in SUBSET Host
    BY <1>1, <2>1, NearestIs
  <2>4. h \in Host
    <3>1. CASE change.op = "none"
      BY <2>3, <3>1 DEF Holding, After
    <3>2. CASE change.op # "none"
      <4>1. Holding(a) \in {hostList, Longer, Shorter}
        BY DEF Holding, After
      <4> QED
        BY <2>2, <3>2, <4>1
    <3> QED
      BY <3>1, <3>2
  <2>5. CASE a = k
    <3>1. k \notin shipped
      BY <1>2, <2>5
    <3>2. Nearest(Holding(k), k, N) = Nearest(hostList, k, N)
      BY <1>5, <3>1 DEF Holding, ShippedInv
    <3>3. Replicas(k) = Nearest(hostList, k, N)
      BY <1>1, <1>5, ReplicasAre
    <3>4. h \in Replicas(k)
      BY <1>5, <2>5, <3>2, <3>3
    <3> QED
      BY <1>2, <2>4, <2>5, <3>4
  <2>6. CASE a # k
    <3>1. a \in Hash \ torn
      BY <1>2, <2>6
    <3>2. a \in holds[h]
      BY <1>5, <3>1 DEF KeptInv
    <3> QED
      BY <1>2, <2>4, <2>6, <3>2
  <2> QED
    BY <2>5, <2>6
<1>6. KeptInv'
  BY <1>2, <1>4, <1>5, KeptNext
<1>7. ShippedInv'
  BY <1>2, <1>3, KeptNext DEF ShippedInv
<1> QED
  BY <1>6, <1>7

\* When a plan is made for a host that comes, all is where it was.
LEMMA KeptAdd ==
  ASSUME RingInv, PlacesApart, ZeroFree, KeptInv, NEW x \in Host, addServer(x)
  PROVE  KeptInv' /\ ShippedInv'
<1> SUFFICES ASSUME Len(hostList') >= N, NEW k \in Hash
             PROVE  /\ k \notin torn' =>
                         \A h \in Nearest(Holding(k)', k, N) : k \in holds'[h]
                    /\ ~Pending(k)' =>
                         Nearest(After', k, N) = Nearest(hostList', k, N)
  BY KeptNext DEF addServer
<1>1. /\ vnodes \in Vnodes /\ nodeMap = Ring(hostList)
      /\ hostList \in Seq(Host) /\ IsInjective(hostList)
      /\ holds \in [Host -> SUBSET Hash]
      /\ N \in Nat /\ N >= 2 /\ Len(hostList) \in Nat
      /\ DOMAIN hostList = 1 .. Len(hostList)
  BY Sizes DEF RingInv
<1>2. /\ change = NoChange /\ Len(hostList) >= N /\ x \notin ToSet(hostList)
      /\ change' = [op |-> "add", host |-> x] /\ moves' = AddPlan(x)
      /\ holds' \in {holds, [holds EXCEPT ![x] = {}]}
      /\ UNCHANGED <<vnodes, hostList, nodeMap, torn>>
  BY DEF addServer
<1>3. \A id \in 1 .. Len(hostList) : hostList[id] # x
  BY <1>1, <1>2 DEF ToSet
<1>4. change.op = "none" /\ moves = {}
  BY <1>2 DEF NoChange, RingInv
<1>5. Holding(k) = hostList
  BY <1>4 DEF Holding, Pending, After
<1> DEFINE L == Append(hostList, x)
           i == Len(hostList) + 1
<1>6. /\ L \in Seq(Host) /\ IsInjective(L) /\ Len(L) = i /\ L[i] = x
      /\ Without(hostList, L, i)
  BY <1>1, <1>3, AppendedIs
<1>7. moves' = {MoveOf(L, i, p, TRUE) : p \in PlacesMoved(L, i)}
  BY <1>1, <1>2, <1>3, AddPlanIs
<1>8. /\ Pending(k)' <=> \E m \in moves' : k \in Sent(m)
      /\ After' = L
      /\ Holding(k)' = IF \E m \in moves' : k \in Sent(m) THEN hostList ELSE L
  BY <1>2 DEF Holding, Pending, After, Longer
<1>9. i \in 1 .. i /\ i > N
  BY <1>1, <1>2
<1> HIDE DEF L, i
<1>10. /\ Nearest(Holding(k)', k, N) = Nearest(hostList, k, N)
       /\ ~Pending(k)' => Nearest(After', k, N) = Nearest(hostList', k, N)
  <2>1. CASE \E m \in moves' : k \in Sent(m)
    BY <1>8, <2>1
  <2>2. CASE ~\E m \in moves' : k \in Sent(m)
    <3>1. ~\E p \in PlacesMoved(L, i) : k \in Sent(MoveOf(L, i, p, TRUE))
      BY <1>7, <2>2
    <3>2. Nearest(hostList, k, N) = Nearest(L, k, N)
      BY <1>1, <1>6, <1>9, <3>1, KeptPlan
    <3> QED
      BY <1>2, <1>8, <2>2, <3>2
  <2> QED
    BY <2>1, <2>2
<1> SUFFICES ASSUME k \notin torn', NEW h \in Nearest(hostList, k, N)
             PROVE  k \in holds'[h]
  BY <1>10
<1>11. k \in holds[h]
  BY <1>2, <1>5 DEF KeptInv
<1>12. h \in Host /\ h # x
  <2>1. N \in 1 .. Len(hostList)
    BY <1>1, <1>2
  <2>2. PICK n \in 1 .. N : h = hostList[Walk(Ring(hostList), k)[n]]
    BY DEF Nearest
  <2>3. Walk(Ring(hostList), k) \in [1 .. Len(hostList) -> 1 .. Len(hostList)]
    BY <1>1, WalkOfList
  <2>4. Walk(Ring(hostList), k)[n] \in 1 .. Len(hostList)
    BY <1>1, <2>1, <2>3
  <2> QED
    BY <1>1, <1>3, <2>2, <2>4
<1> QED
  BY <1>1, <1>2, <1>11, <1>12

\* When a plan is made for a host that goes, all is where it was.
LEMMA KeptRemove ==
  ASSUME RingInv, PlacesApart, ZeroFree, KeptInv, NEW x \in Host, removeServer(x)
  PROVE  KeptInv' /\ ShippedInv'
<1> SUFFICES ASSUME Len(hostList') >= N, NEW k \in Hash
             PROVE  /\ k \notin torn' =>
                         \A h \in Nearest(Holding(k)', k, N) : k \in holds'[h]
                    /\ ~Pending(k)' =>
                         Nearest(After', k, N) = Nearest(hostList', k, N)
  BY KeptNext DEF removeServer
<1>1. /\ vnodes \in Vnodes /\ nodeMap = Ring(hostList)
      /\ hostList \in Seq(Host) /\ IsInjective(hostList)
      /\ N \in Nat /\ N >= 2 /\ Len(hostList) \in Nat
      /\ DOMAIN hostList = 1 .. Len(hostList)
  BY Sizes DEF RingInv
<1>2. /\ change = NoChange /\ Len(hostList) > N /\ x \in ToSet(hostList)
      /\ change' = [op |-> "remove", host |-> x] /\ moves' = RemovePlan(x)
      /\ UNCHANGED <<vnodes, hostList, nodeMap, holds, torn>>
  BY DEF removeServer
<1>3. PICK i \in 1 .. Len(hostList) : hostList[i] = x
  BY <1>1, <1>2 DEF ToSet
<1>4. change.op = "none" /\ moves = {}
  BY <1>2 DEF NoChange, RingInv
<1>5. Holding(k) = hostList
  BY <1>4 DEF Holding, Pending, After
<1> DEFINE L == RemoveAt(hostList, i)
<1>6. L \in Seq(Host) /\ IsInjective(L) /\ Without(L, hostList, i)
  BY <1>1, RemovedIs
<1>7. moves' = {MoveOf(hostList, i, p, FALSE) : p \in PlacesMoved(hostList, i)}
  BY <1>1, <1>2, <1>3, RemovePlanIs
<1>8. Index(x)' = i
  BY <1>1, <1>2, <1>3, IndexIs DEF Index
<1>9. /\ Pending(k)' <=> \E m \in moves' : k \in Sent(m)
      /\ After' = L
      /\ Holding(k)' = IF \E m \in moves' : k \in Sent(m) THEN hostList ELSE L
  <2>1. change'.op = "remove" /\ change'.host = x
    BY <1>2
  <2>2. Index(change.host)' = Index(x)'
    BY <2>1 DEF Index
  <2>3. Shorter' = L
    BY <1>2, <1>8, <2>1, <2>2 DEF Shorter
  <2> QED
    BY <1>2, <2>1, <2>3 DEF Holding, Pending, After
<1> HIDE DEF L
<1>10. /\ Nearest(Holding(k)', k, N) = Nearest(hostList, k, N)
       /\ ~Pending(k)' => Nearest(After', k, N) = Nearest(hostList', k, N)
  <2>1. CASE \E m \in moves' : k \in Sent(m)
    BY <1>9, <2>1
  <2>2. CASE ~\E m \in moves' : k \in Sent(m)
    <3>1. ~\E p \in PlacesMoved(hostList, i) : k \in Sent(MoveOf(hostList, i, p, FALSE))
      BY <1>7, <2>2
    <3>2. Nearest(L, k, N) = Nearest(hostList, k, N)
      BY <1>1, <1>2, <1>6, <3>1, KeptPlan
    <3> QED
      BY <1>2, <1>9, <2>2, <3>2
  <2> QED
    BY <2>1, <2>2
<1> QED
  BY <1>1, <1>2, <1>5, <1>10 DEF KeptInv

\* A move hands the hashes that it sends from the replicas by the list before to
\* those by the list after, and leaves the other hashes where they are, but for
\* those that it tears.
LEMMA KeptMove ==
  ASSUME RingInv, PlacesApart, ZeroFree, KeptInv, NEW m \in moves,
         NEW unsent, NEW slip, moveData(m, unsent, slip)
  PROVE  KeptInv'
<1> SUFFICES ASSUME Len(hostList') >= N, NEW k \in Hash \ torn',
                    NEW h \in Nearest(Holding(k)', k, N)
             PROVE  k \in holds'[h]
  BY KeptNext DEF moveData
<1>1. /\ vnodes \in Vnodes /\ N \in Nat /\ N >= 2
      /\ change.op # "none" /\ change.op \in {"none", "add", "remove"}
      /\ m.src # m.dst
  BY Sizes, ChangeIs, MovesAre DEF RingInv
<1>2. /\ moves' = moves \ {m} /\ Len(hostList) >= N
      /\ UNCHANGED <<vnodes, hostList, nodeMap, change>>
  BY DEF moveData
<1>3. /\ Longer \in Seq(Host) /\ IsInjective(Longer) /\ Len(Longer) > N
      /\ Shorter \in Seq(Host) /\ IsInjective(Shorter) /\ Len(Shorter) >= N
      /\ Len(Longer) \in Nat /\ Len(Shorter) \in Nat
  BY <1>1, PlanIs
<1>4. k \notin torn'
  OBVIOUS
<1>5. After' = After
  BY <1>2 DEF After, Longer, Shorter, Index
<1>6. /\ change.op = "add" => After = Longer /\ hostList = Shorter
      /\ change.op # "add" => After = Shorter /\ hostList = Longer
  BY <1>1 DEF After, Longer, Shorter
<1>7. \A g \in Nearest(Holding(k), k, N) : k \in holds[g]
  <2>1. k \notin torn
    BY <1>1, MovesAre, MoveHolds
  <2> QED
    BY <1>2, <2>1 DEF KeptInv
<1>8. h \in Host
  <2>1. N \in 1 .. Len(Longer) /\ N \in 1 .. Len(Shorter)
    BY <1>1, <1>3
  <2>2. Nearest(Longer, k, N) \in SUBSET Host /\ Nearest(Shorter, k, N) \in SUBSET Host
    BY <1>1, <1>3, <2>1, NearestIs
  <2>3. Holding(k)' \in {Longer, Shorter}
    BY <1>2, <1>5, <1>6 DEF Holding
  <2> QED
    BY <2>2, <2>3
<1>9. CASE k \notin Sent(m)
  <2>1. Pending(k)' = Pending(k)
    BY <1>2, <1>9 DEF Pending
  <2>2. Holding(k)' = Holding(k)
    BY <1>2, <1>5, <2>1 DEF Holding
  <2> QED
    BY <1>4, <1>7, <1>8, <1>9, <2>2, MoveHolds
<1>10. CASE k \in Sent(m)
  <2>1. Holding(k) = hostList
    BY <1>10 DEF Holding, Pending
  <2>2. ~Pending(k)'
    BY <1>2, <1>10, MoveSends DEF Pending
  <2>3. h \in Nearest(After, k, N)
    BY <1>5, <2>2 DEF Holding
  <2> DEFINE T == Nearest(Longer, k, N)
  <2>4. PICK g \in Host :
          /\ g \notin T
          /\ Nearest(Longer, k, N + 1) = T \cup {g}
          /\ change.op = "add" => m.src = g /\ m.dst = change.host
          /\ change.op # "add" => m.src \in T /\ m.dst = g /\ ~m.remove
    BY <1>10, MoveSends
  <2>5. change.host \in T
    BY <1>10, MoveSends
  <2>6. Nearest(Shorter, k, N) = (T \cup {g}) \ {change.host}
    BY <1>1, <2>4, <2>5, Overlap
  <2> HIDE DEF T
  <2>7. CASE change.op = "add"
    <3>1. \A a \in (T \cup {g}) \ {change.host} : k \in holds[a]
      BY <1>6, <1>7, <2>1, <2>6, <2>7
    <3>2. h \in T
      BY <1>6, <2>3, <2>7 DEF T
    <3>3. k \in holds'[m.dst]
      <4>1. k \in holds[m.src]
        BY <2>4, <2>5, <2>7, <3>1
      <4> QED
        BY <1>4, <1>8, <1>10, <4>1, MoveHolds
    <3>4. CASE h = m.dst
      BY <3>3, <3>4
    <3>5. CASE h # m.dst
      <4>1. k \in holds[h]
        BY <2>4, <2>7, <3>1, <3>2, <3>5
      <4>2. h \notin {m.src, m.dst}
        BY <2>4, <2>7, <3>2, <3>5
      <4> QED
        BY <1>4, <1>8, <4>1, <4>2, MoveHolds
    <3> QED
      BY <3>4, <3>5
  <2>8. CASE change.op # "add"
    <3>1. \A a \in T : k \in holds[a]
      BY <1>6, <1>7, <2>1, <2>8 DEF T
    <3>2. h \in T \cup {g}
      BY <1>6, <2>3, <2>6, <2>8
    <3>3. k \in holds'[m.dst]
      BY <1>4, <1>8, <1>10, <2>4, <2>8, <3>1, MoveHolds
    <3>4. CASE h = m.dst
      BY <3>3, <3>4
    <3>5. CASE h # m.dst
      BY <1>4, <1>8, <2>4, <2>8, <3>1, <3>2, <3>5, MoveHolds
    <3> QED
      BY <3>4, <3>5
  <2> QED
    BY <2>7, <2>8
<1> QED
  BY <1>9, <1>10

\* A hash that a move sends is shipped.
LEMMA ShippedMove ==
  ASSUME RingInv, ShippedInv, NEW m \in moves, NEW unsent, NEW slip,
         moveData(m, unsent, slip)
  PROVE  ShippedInv'
<1>1. /\ moves' = moves \ {m} /\ shipped' = shipped \cup Sent(m)
      /\ UNCHANGED <<vnodes, hostList, nodeMap, change>>
  BY DEF moveData, Sent
<1>2. After' = After
  BY <1>1 DEF After, Longer, Shorter, Index
<1>3. ASSUME NEW k \in Hash, ~Pending(k)', k \notin shipped'
      PROVE  ~Pending(k) /\ k \notin shipped
  BY <1>1, <1>3 DEF Pending
<1> QED
  BY <1>1, <1>2, <1>3, KeptNext DEF ShippedInv

\* When the lists change no move is left: the replicas by the new list hold all.
LEMMA KeptAct ==
  ASSUME RingInv, KeptInv, actAddServer \/ actRemoveServer
  PROVE  KeptInv' /\ ShippedInv'
<1> SUFFICES ASSUME Len(hostList') >= N, NEW k \in Hash
             PROVE  /\ k \notin torn' =>
                         \A h \in Nearest(Holding(k)', k, N) : k \in holds'[h]
                    /\ After' = hostList'
  BY KeptNext DEF actAddServer, actRemoveServer
<1>1. /\ change.op \in {"add", "remove"} /\ moves = {} /\ change' = NoChange
      /\ UNCHANGED <<vnodes, holds, moves, torn>>
      /\ hostList' = After
  BY DEF actAddServer, actRemoveServer, After, Longer, Shorter
<1>2. Holding(k) = After
  BY <1>1 DEF Holding, Pending
<1>3. Holding(k)' = After /\ After' = hostList'
  <2>1. After' = hostList'
    BY <1>1 DEF After, NoChange
  <2>2. ~Pending(k)'
    BY <1>1 DEF Pending
  <2> QED
    BY <1>1, <2>1, <2>2 DEF Holding
<1>4. Len(hostList) >= N
  <2>1. Len(hostList) \in Nat /\ N \in Nat
    BY Sizes DEF RingInv
  <2> QED
    BY <1>1, <2>1 DEF RingInv
<1> QED
  BY <1>1, <1>2, <1>3, <1>4 DEF KeptInv

\* Every step keeps it.
LEMMA KeptStep ==
  ASSUME PlacesSeparate
  PROVE  RingInv /\ KeptInv /\ ShippedInv /\ [Next]_vars => KeptInv' /\ ShippedInv'
<1> SUFFICES ASSUME RingInv, KeptInv, ShippedInv, [Next]_vars
             PROVE  KeptInv' /\ ShippedInv'
  OBVIOUS
<1>1. PlacesApart /\ ZeroFree
  BY SeparateIs
<1>2. ASSUME NEW k \in Puts, put(k)
      PROVE  KeptInv' /\ ShippedInv'
  BY <1>2, RingAssumption, KeptPut
<1>3. ASSUME NEW h \in Host, addServer(h)
      PROVE  KeptInv' /\ ShippedInv'
  BY <1>1, <1>3, KeptAdd
<1>4. ASSUME NEW h \in Host, removeServer(h)
      PROVE  KeptInv' /\ ShippedInv'
  BY <1>1, <1>4, KeptRemove
<1>5. ASSUME NEW m \in moves, NEW unsent \in Slips, NEW slip \in Slips,
             moveData(m, unsent, slip)
      PROVE  KeptInv' /\ ShippedInv'
  BY <1>1, <1>5, KeptMove, ShippedMove
<1>6. CASE actAddServer \/ actRemoveServer
  BY <1>6, KeptAct
<1>7. CASE UNCHANGED vars
  <2>1. After' = After /\ \A k \in Hash : Pending(k)' = Pending(k)
    BY <1>7 DEF vars, Pending, After, Longer, Shorter, Index
  <2>2. /\ vnodes' = vnodes /\ holds' = holds /\ hostList' = hostList
        /\ shipped' = shipped /\ torn' = torn
    BY <1>7 DEF vars
  <2>3. \A k \in Hash : Holding(k)' = Holding(k)
    BY <2>1, <2>2 DEF Holding
  <2>4. KeptInv'
    BY <2>2, <2>3, KeptNext DEF KeptInv
  <2>5. ShippedInv'
    BY <2>1, <2>2, KeptNext DEF ShippedInv
  <2> QED
    BY <2>4, <2>5
<1> QED
  BY <1>2, <1>3, <1>4, <1>5, <1>6, <1>7 DEF Next

\* Changes of membership lose no data but what a put or a move tears: every
\* replica of another hash holds its last value, but for one of them while a plan
\* is carried out, for every ring and any number of changes, where no two hosts
\* share a place and none stands at 0.
THEOREM ReplicasKeptHolds ==
  ASSUME PlacesSeparate
  PROVE  Spec => []ReplicasKept
<1>1. Init => KeptInv /\ ShippedInv
  BY KeptInit
<1>2. RingInv /\ KeptInv /\ ShippedInv /\ [Next]_vars => KeptInv' /\ ShippedInv'
  BY KeptStep
<1>3. RingInv /\ KeptInv => ReplicasKept
  BY SeparateIs, KeptGives
<1> QED
  BY <1>1, <1>2, <1>3, RingInvHolds, PTL DEF Spec

=============================================================================
