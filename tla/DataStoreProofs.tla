-------------------------- MODULE DataStoreProofs --------------------------
(***************************************************************************)
(* Proofs about DataStore, for every number of hashes and every size of    *)
(* the blocks: the blocks always tile the hashes, a collect gathers and a  *)
(* remove clears all of its range, and without migrations the newest copy  *)
(* of a key is the value put last and a get answers with it.               *)
(***************************************************************************)
EXTENDS DataStore, FiniteSetTheorems, SequenceTheorems, TLAPS

-----------------------------------------------------------------------------
(* Sorted keys.                                                            *)

Below(S, h) == {x \in S : x < h}

\* The hashes are finite, and so is every set of them.
LEMMA HashFinite ==
  ASSUME NEW S \in SUBSET Hash
  PROVE  IsFiniteSet(S) /\ Cardinality(S) \in Nat /\ S \subseteq Nat
<1>1. HashMax \in Int /\ 0 \in Int
  BY SizeAssumption
<1>2. IsFiniteSet(Hash)
  BY <1>1, FS_Interval DEF Hash
<1>3. IsFiniteSet(S)
  BY <1>2, FS_Subset
<1> QED
  BY <1>1, <1>3, FS_CardinalityType DEF Hash

\* The places of the keys of S are 0 .. |S| - 1, in ascending order.
LEMMA Ranks ==
  ASSUME NEW S \in SUBSET Hash
  PROVE  /\ \A h \in S : Cardinality(Below(S, h)) \in 0 .. Cardinality(S) - 1
         /\ \A g, h \in S : g < h => Cardinality(Below(S, g)) < Cardinality(Below(S, h))
         /\ \A k \in 0 .. Cardinality(S) - 1 :
              \E h \in S : Cardinality(Below(S, h)) = k
<1>1. IsFiniteSet(S) /\ Cardinality(S) \in Nat /\ S \subseteq Nat
  BY HashFinite
<1>2. ASSUME NEW A \in SUBSET S, NEW h \in S, h \notin A
      PROVE  Cardinality(A) \in Nat /\ Cardinality(A) < Cardinality(S)
  <2>1. IsFiniteSet(A) /\ Cardinality(A) \in Nat
    BY <1>1, FS_Subset, FS_CardinalityType
  <2>2. Cardinality(A) <= Cardinality(S) /\ (Cardinality(S) = Cardinality(A) => S = A)
    BY <1>1, FS_Subset
  <2> QED
    BY <1>1, <1>2, <2>1, <2>2
<1>3. ASSUME NEW h \in S
      PROVE  Cardinality(Below(S, h)) \in 0 .. Cardinality(S) - 1
  <2>1. Below(S, h) \in SUBSET S /\ h \notin Below(S, h)
    BY <1>1 DEF Below
  <2>2. /\ Cardinality(Below(S, h)) \in Nat
        /\ Cardinality(Below(S, h)) < Cardinality(S)
    BY <1>2, <2>1
  <2> QED
    BY <1>1, <2>2
<1>4. ASSUME NEW g \in S, NEW h \in S, g < h
      PROVE  Cardinality(Below(S, g)) < Cardinality(Below(S, h))
  <2>1. g \in Int /\ h \in Int /\ ~(g < g) /\ \A x \in S : x < g => x < h
    BY <1>1, <1>4
  <2>2. /\ Below(S, g) \in SUBSET Below(S, h) /\ Below(S, h) \in SUBSET S
        /\ g \in Below(S, h) /\ g \notin Below(S, g)
    BY <1>4, <2>1, Zenon DEF Below
  <2>3. IsFiniteSet(Below(S, h)) /\ IsFiniteSet(Below(S, g))
    BY <1>1, <2>2, FS_Subset
  <2>4. /\ Cardinality(Below(S, g)) <= Cardinality(Below(S, h))
        /\ Cardinality(Below(S, h)) = Cardinality(Below(S, g)) => Below(S, h) = Below(S, g)
    BY <2>2, <2>3, FS_Subset
  <2>5. Cardinality(Below(S, g)) \in Nat /\ Cardinality(Below(S, h)) \in Nat
    BY <2>3, FS_CardinalityType
  <2> QED
    BY <2>2, <2>4, <2>5
<1>5. ASSUME NEW k \in 0 .. Cardinality(S) - 1,
             \A h \in S : Cardinality(Below(S, h)) # k
      PROVE  FALSE
  <2> DEFINE rank == [h \in S |-> Cardinality(Below(S, h))]
             All == 0 .. Cardinality(S) - 1
             T == All \ {k}
  <2>1. rank \in [S -> T]
    BY <1>3, <1>5
  <2>2. \A g, h \in S : rank[g] = rank[h] => g = h
    <3>1. \A g, h \in S : rank[g] \in Int /\ (g < h => rank[g] < rank[h])
      BY <1>3, <1>4
    <3>2. \A g, h \in S : g < h \/ h < g \/ g = h
      BY <1>1
    <3> HIDE DEF rank
    <3> QED
      BY <3>1, <3>2
  <2>3. rank \in Injection(S, T)
    BY <2>1, <2>2 DEF Injection, IsInjective
  <2>4. 0 \in Int /\ Cardinality(S) - 1 \in Int
    BY <1>1
  <2>5. IsFiniteSet(All) /\ Cardinality(All) = Cardinality(S)
    BY <1>1, <2>4, FS_Interval
  <2> HIDE DEF rank, All
  <2>6. IsFiniteSet(T) /\ Cardinality(T) = Cardinality(S) - 1
    <3>1. k \in All
      BY <1>5 DEF All
    <3> QED
      BY <2>5, <3>1, FS_RemoveElement
  <2>7. Cardinality(S) <= Cardinality(T)
    BY <2>3, <2>6, FS_Injection
  <2> QED
    BY <1>1, <2>6, <2>7
<1> QED
  BY <1>3, <1>4, <1>5

\* A full block has keys on both sides of its middle key, and the halves
\* share its records out as the list counts them.
LEMMA Halves ==
  ASSUME NEW f, DOMAIN f \in SUBSET Hash, Cardinality(DOMAIN f) >= 3
  PROVE  /\ Middle(f) \in DOMAIN f
         /\ LowerHalf(f) \cup UpperHalf(f) = DOMAIN f
         /\ Cardinality(LowerHalf(f)) = Cardinality(DOMAIN f) \div 2
         /\ Cardinality(UpperHalf(f)) =
              Cardinality(DOMAIN f) - Cardinality(DOMAIN f) \div 2
         /\ \E h \in DOMAIN f : h < Middle(f)
         /\ \E h \in DOMAIN f : Middle(f) < h
<1> DEFINE S == DOMAIN f
           n == Cardinality(S)
           mid == Middle(f)
<1>1. IsFiniteSet(S) /\ n \in Nat /\ S \subseteq Nat
  BY HashFinite
<1>2. \A h : Rank(f, h) = Cardinality(Below(S, h))
  BY DEF Rank, Below
<1>3. n \div 2 \in 1 .. n - 2
  BY <1>1
<1>4. \E h \in S : Rank(f, h) = n \div 2
  BY <1>1, <1>2, <1>3, Ranks
<1>5. mid \in S /\ Rank(f, mid) = n \div 2
  BY <1>4 DEF Middle
<1>6. LowerHalf(f) = Below(S, mid)
  BY DEF LowerHalf, Below
<1>7. Cardinality(LowerHalf(f)) = n \div 2
  BY <1>2, <1>5, <1>6
<1>8. UpperHalf(f) = S \ LowerHalf(f) /\ LowerHalf(f) \subseteq S
  BY <1>1, <1>5 DEF UpperHalf, LowerHalf
<1>9. Cardinality(UpperHalf(f)) = n - n \div 2
  <2>1. S \cap LowerHalf(f) = LowerHalf(f)
    BY <1>8
  <2>2. Cardinality(S \ LowerHalf(f)) = n - Cardinality(S \cap LowerHalf(f))
    BY <1>1, FS_Difference
  <2> QED
    BY <1>7, <1>8, <2>1, <2>2
<1>10. \E h \in S : h < mid
  <2>1. LowerHalf(f) # {}
    BY <1>3, <1>7, FS_EmptySet
  <2> QED
    BY <2>1 DEF LowerHalf
<1>11. \E h \in S : mid < h
  <2>1. PICK h \in S : Cardinality(Below(S, h)) = n - 1
    BY <1>1, <1>3, Ranks
  <2>2. h # mid /\ ~(h < mid)
    BY <1>1, <1>2, <1>3, <1>5, <2>1, Ranks
  <2> QED
    BY <1>1, <1>5, <2>2
<1> QED
  BY <1>5, <1>7, <1>8, <1>9, <1>10, <1>11

\* Sorted lists the keys of a set, all of them and nothing else.
LEMMA SortedKeys ==
  ASSUME NEW S \in SUBSET Hash
  PROVE  /\ Sorted(S) \in Seq(Hash)
         /\ S = {Sorted(S)[k] : k \in DOMAIN Sorted(S)}
<1> DEFINE n == Cardinality(S)
           At(k) == CHOOSE h \in S : Cardinality(Below(S, h)) = k - 1
<1>1. n \in Nat /\ S \subseteq Nat
  BY HashFinite
<1>2. Sorted(S) = [k \in 1 .. n |-> At(k)]
  BY DEF Sorted, Below
<1>3. ASSUME NEW k \in 1 .. n
      PROVE  At(k) \in S
  <2>1. k - 1 \in 0 .. n - 1
    BY <1>1
  <2>2. \E h \in S : Cardinality(Below(S, h)) = k - 1
    BY <2>1, Ranks
  <2> QED
    BY <2>2
<1>4. ASSUME NEW h \in S
      PROVE  \E k \in 1 .. n : At(k) = h
  <2> DEFINE k == Cardinality(Below(S, h)) + 1
  <2>1. k \in 1 .. n /\ Cardinality(Below(S, h)) = k - 1
    BY <1>1, Ranks
  <2>2. At(k) \in S /\ Cardinality(Below(S, At(k))) = k - 1
    BY <2>1
  <2>3. ~(h < At(k)) /\ ~(At(k) < h)
    BY <2>1, <2>2, Ranks
  <2> QED
    BY <1>1, <2>1, <2>2, <2>3
<1>5. Sorted(S) \in [1 .. n -> Hash]
  BY <1>2, <1>3
<1>6. Sorted(S) \in Seq(Hash)
  BY <1>1, <1>5, SeqDef
<1>7. DOMAIN Sorted(S) = 1 .. n /\ \A k \in 1 .. n : Sorted(S)[k] = At(k)
  BY <1>2
<1> HIDE DEF At
<1> QED
  BY <1>3, <1>4, <1>6, <1>7
-----------------------------------------------------------------------------
(* The block list.                                                         *)

BlockEntry == [begin : Hash, end : Hash, cnt : 0 .. BlockMax]

\* The records of block n.
Held(n) == files[Span(hl[n])]

\* BlocksTile, and what it takes to stay true: only the first list can have
\* a block of a single hash, so no two blocks share a file.
Tiles ==
  /\ hl \in Seq(BlockEntry)
  /\ \A n \in DOMAIN hl : /\ hl[n].begin <= hl[n].end
                          /\ Len(hl) > 1 => hl[n].begin < hl[n].end
  /\ BlocksTile

\* Two blocks have two files.
LEMMA SpansDiffer ==
  ASSUME Tiles, NEW n \in DOMAIN hl, NEW k \in DOMAIN hl, n # k
  PROVE  Span(hl[n]) # Span(hl[k])
<1>1. DOMAIN hl = 1 .. Len(hl) /\ Len(hl) \in Nat
  BY LenProperties DEF Tiles
<1>2. Len(hl) > 1
  BY <1>1
<1>3. hl[n] \in BlockEntry /\ hl[k] \in BlockEntry
  BY <1>1, ElementOfSeq DEF Tiles
<1>4. /\ hl[n].begin \in Int /\ hl[n].end \in Int
      /\ hl[k].begin \in Int /\ hl[k].end \in Int
  BY <1>3, SizeAssumption DEF BlockEntry, Hash
<1>5. hl[n].begin < hl[n].end /\ hl[k].begin < hl[k].end
  BY <1>2 DEF Tiles
<1>6. hl[n].end <= hl[k].begin \/ hl[k].end <= hl[n].begin
  BY DEF Tiles, BlocksTile
<1>7. ~(hl[n].begin = hl[k].begin /\ hl[n].end = hl[k].end)
  BY <1>4, <1>5, <1>6
<1> QED
  BY <1>7 DEF Span

\* Writing other records to the file of block i leaves the tiling as it is
\* and touches no other block.
LEMMA Rewrite ==
  ASSUME Tiles, i \in 1 .. Len(hl), NEW f,
         DOMAIN f \subseteq Interval(Block),
         Cardinality(DOMAIN f) \in 0 .. BlockMax,
         files' = Over(files, [s \in {Span(Block)} |-> f]),
         hl' = [hl EXCEPT ![i].cnt = Cardinality(DOMAIN f)]
  PROVE  /\ Tiles' /\ Len(hl') = Len(hl)
         /\ \A n \in DOMAIN hl :
              /\ Span(hl[n])' = Span(hl[n])
              /\ Held(n)' = IF n = i THEN f ELSE Held(n)
<1>1. DOMAIN hl = 1 .. Len(hl) /\ Len(hl) \in Nat /\ i \in DOMAIN hl
  BY LenProperties DEF Tiles
<1> DEFINE e == [Block EXCEPT !.cnt = Cardinality(DOMAIN f)]
<1>2. Block \in BlockEntry
  BY <1>1, ElementOfSeq DEF Tiles, Block
<1>3. e \in BlockEntry /\ e.begin = Block.begin /\ e.end = Block.end
      /\ e.cnt = Cardinality(DOMAIN f)
  BY <1>2 DEF BlockEntry
<1>4. hl' = [hl EXCEPT ![i] = e]
  BY <1>1 DEF Block
<1> HIDE DEF e
<1>5. /\ hl' \in Seq(BlockEntry) /\ Len(hl') = Len(hl)
      /\ \A n \in 1 .. Len(hl) : hl'[n] = IF n = i THEN e ELSE hl[n]
  <2> DEFINE new == [hl EXCEPT ![i] = e]
  <2>1. hl \in Seq(BlockEntry)
    BY DEF Tiles
  <2>2. new \in Seq(BlockEntry)
    BY <1>3, <2>1, ExceptSeq
  <2>3. Len(new) = Len(hl)
    BY <1>3, <2>1, ExceptSeq
  <2>4. \A n \in 1 .. Len(hl) : new[n] = IF n = i THEN e ELSE hl[n]
    BY <1>3, <2>1, ExceptSeq
  <2> QED
    BY <1>4, <2>2, <2>3, <2>4
<1>6. DOMAIN hl' = 1 .. Len(hl)
  BY <1>5, LenProperties
<1>7. \A n \in DOMAIN hl : /\ hl'[n].begin = hl[n].begin
                          /\ hl'[n].end = hl[n].end
  BY <1>1, <1>3, <1>5 DEF Block
<1>8. \A n \in DOMAIN hl : Span(hl[n])' = Span(hl[n])
  BY <1>7 DEF Span
<1>9. DOMAIN files = {Span(hl[n]) : n \in DOMAIN hl}
  BY DEF Tiles, BlocksTile
<1>10. /\ DOMAIN files' = DOMAIN files \cup {Span(Block)}
       /\ \A s \in DOMAIN files : files'[s] = IF s = Span(Block) THEN f ELSE files[s]
  BY DEF Over
<1>11. \A n \in DOMAIN hl : Held(n)' = IF n = i THEN f ELSE Held(n)
  <2> SUFFICES ASSUME NEW n \in DOMAIN hl
               PROVE  Held(n)' = IF n = i THEN f ELSE Held(n)
    OBVIOUS
  <2>1. Held(n)' = files'[Span(hl[n])] /\ Span(hl[n]) \in DOMAIN files
    BY <1>8, <1>9 DEF Held
  <2>2. n # i => Span(hl[n]) # Span(Block)
    BY <1>1, SpansDiffer DEF Block
  <2>3. n = i => Span(hl[n]) = Span(Block)
    BY DEF Block
  <2> QED
    BY <1>10, <2>1, <2>2, <2>3 DEF Held
<1>12. BlocksTile'
  <2>1. \A h \in Hash : \E n \in DOMAIN hl' : Covers(hl'[n], h)
    BY <1>1, <1>6, <1>7 DEF Tiles, BlocksTile, Covers
  <2>2. \A n, k \in DOMAIN hl' :
          n # k => hl'[n].end <= hl'[k].begin \/ hl'[k].end <= hl'[n].begin
    BY <1>1, <1>6, <1>7 DEF Tiles, BlocksTile
  <2>3. DOMAIN files' = {Span(hl'[n]) : n \in DOMAIN hl'}
    <3>1. Span(Block) \in DOMAIN files
      BY <1>1, <1>9 DEF Block
    <3>2. DOMAIN files' = {Span(hl[n]) : n \in DOMAIN hl}
      BY <1>9, <1>10, <3>1
    <3>3. DOMAIN hl' = DOMAIN hl
      BY <1>1, <1>6
    <3>4. \A n \in DOMAIN hl : Span(hl'[n]) = Span(hl[n])
      BY <1>8
    <3>5. \A s : s \in {Span(hl[n]) : n \in DOMAIN hl}
               <=> s \in {Span(hl'[n]) : n \in DOMAIN hl'}
      BY <3>3, <3>4
    <3> QED
      BY <3>2, <3>5
  <2>4. ASSUME NEW n \in DOMAIN hl'
        PROVE  /\ DOMAIN files'[Span(hl'[n])] \subseteq Interval(hl'[n])
               /\ hl'[n].cnt = Cardinality(DOMAIN files'[Span(hl'[n])])
    <3>1. n \in DOMAIN hl /\ Interval(hl'[n]) = Interval(hl[n])
      BY <1>1, <1>6, <1>7 DEF Interval
    <3>2. CASE n = i
      <4>1. files'[Span(hl'[n])] = f /\ hl'[n] = e /\ Interval(hl[n]) = Interval(Block)
        BY <1>1, <1>5, <1>11, <3>1, <3>2 DEF Held, Block
      <4> QED
        BY <1>3, <3>1, <4>1
    <3>3. CASE n # i
      <4>1. files'[Span(hl'[n])] = files[Span(hl[n])] /\ hl'[n] = hl[n]
        BY <1>1, <1>5, <1>11, <3>1, <3>3 DEF Held
      <4> QED
        BY <3>1, <4>1 DEF Tiles, BlocksTile
    <3> QED
      BY <3>2, <3>3
  <2> QED
    BY <2>1, <2>2, <2>3, <2>4 DEF BlocksTile
<1>13. Tiles'
  BY <1>1, <1>5, <1>6, <1>7, <1>12 DEF Tiles
<1> QED
  BY <1>5, <1>8, <1>11, <1>13

\* Block i is cut at mid: the lower half keeps its place, the upper half is a
\* new block.
SplitInto(mid, n, lower, upper) ==
  /\ Block.begin < mid /\ mid < Block.end
  /\ DOMAIN lower \subseteq Hash /\ DOMAIN upper \subseteq Hash
  /\ \A h \in DOMAIN lower : Block.begin <= h /\ h <= mid
  /\ \A h \in DOMAIN upper : mid <= h /\ h <= Block.end
  /\ Cardinality(DOMAIN lower) = n \div 2 /\ n \div 2 \in 0 .. BlockMax
  /\ Cardinality(DOMAIN upper) = n - n \div 2 /\ n - n \div 2 \in 0 .. BlockMax
  /\ files' = Over(Without(files, {Span(Block)}),
                   [s \in {<<Block.begin, mid>>, <<mid, Block.end>>} |->
                      IF s[2] = mid THEN lower ELSE upper])
  /\ hl' = Append([hl EXCEPT ![i] = [begin |-> Block.begin, end |-> mid,
                                     cnt |-> n \div 2]],
                  [begin |-> mid, end |-> Block.end, cnt |-> n - n \div 2])

\* Splitting block i at a key strictly inside it gives its lower half its
\* place, its upper half the next one, and touches no other block.
LEMMA Split ==
  ASSUME Tiles, i \in 1 .. Len(hl), NEW mid \in Hash, NEW n \in Nat,
         NEW lower, NEW upper, SplitInto(mid, n, lower, upper)
  PROVE  /\ Tiles' /\ Len(hl') = Len(hl) + 1
         /\ \A k \in DOMAIN hl \ {i} :
              Span(hl[k])' = Span(hl[k]) /\ Held(k)' = Held(k)
         /\ files'[Span(hl'[i])] = lower
         /\ files'[Span(hl'[Len(hl) + 1])] = upper
         /\ Span(hl'[i]) = <<Block.begin, mid>>
         /\ Span(hl'[Len(hl) + 1]) = <<mid, Block.end>>
<1> USE DEF SplitInto
<1>1. DOMAIN hl = 1 .. Len(hl) /\ Len(hl) \in Nat /\ i \in DOMAIN hl
  BY LenProperties DEF Tiles
<1> DEFINE low == [begin |-> Block.begin, end |-> mid, cnt |-> n \div 2]
           high == [begin |-> mid, end |-> Block.end, cnt |-> n - n \div 2]
           last == Len(hl) + 1
           mine == [hl EXCEPT ![i] = low]
           lspan == <<Block.begin, mid>>
           uspan == <<mid, Block.end>>
<1>2. /\ Block \in BlockEntry /\ Block.begin \in Int /\ Block.end \in Int
      /\ mid \in Int /\ Hash \subseteq Int
      /\ \A k \in DOMAIN hl : hl[k].begin \in Int /\ hl[k].end \in Int
  <2>1. \A k \in DOMAIN hl : hl[k] \in BlockEntry
    BY <1>1, ElementOfSeq DEF Tiles
  <2> QED
    BY <1>1, <2>1, SizeAssumption DEF BlockEntry, Hash, Block
<1>3. low \in BlockEntry /\ high \in BlockEntry
  BY <1>2 DEF BlockEntry
<1>4. /\ low.begin = Block.begin /\ low.end = mid /\ low.cnt = n \div 2
      /\ high.begin = mid /\ high.end = Block.end /\ high.cnt = n - n \div 2
  OBVIOUS
<1> HIDE DEF low, high
<1>5. /\ mine \in Seq(BlockEntry) /\ Len(mine) = Len(hl)
      /\ \A k \in 1 .. Len(hl) : mine[k] = IF k = i THEN low ELSE hl[k]
  BY <1>1, <1>3, ExceptSeq DEF Tiles
<1>6. hl' = Append(mine, high)
  BY DEF low, high
<1> HIDE DEF mine
<1>7. /\ hl' \in Seq(BlockEntry) /\ Len(hl') = last
      /\ hl'[i] = low /\ hl'[last] = high
      /\ \A k \in DOMAIN hl \ {i} : hl'[k] = hl[k]
  <2>1. mine \in Seq(BlockEntry) /\ high \in BlockEntry
    BY <1>3, <1>5
  <2>2. Append(mine, high) \in Seq(BlockEntry)
    BY <2>1, AppendProperties
  <2>3. Len(Append(mine, high)) = Len(mine) + 1
    BY <2>1, AppendProperties
  <2>4. \A k \in 1 .. Len(mine) : Append(mine, high)[k] = mine[k]
    BY <2>1, AppendProperties
  <2>5. Append(mine, high)[Len(mine) + 1] = high
    BY <2>1, AppendProperties
  <2> QED
    BY <1>1, <1>5, <1>6, <2>2, <2>3, <2>4, <2>5
<1>8. DOMAIN hl' = DOMAIN hl \cup {last} /\ last \notin DOMAIN hl
  BY <1>1, <1>7, LenProperties
<1>9. Span(low) = lspan /\ Span(high) = uspan
  BY <1>4 DEF Span
<1>10. lspan # uspan
  BY <1>2
<1>11. /\ DOMAIN files' = (DOMAIN files \ {Span(Block)}) \cup {lspan, uspan}
       /\ files'[lspan] = lower /\ files'[uspan] = upper
       /\ \A s \in DOMAIN files \ {Span(Block), lspan, uspan} : files'[s] = files[s]
  <2> DEFINE halves == [s \in {lspan, uspan} |-> IF s[2] = mid THEN lower ELSE upper]
             rest == Without(files, {Span(Block)})
  <2>1. DOMAIN halves = {lspan, uspan} /\ halves[lspan] = lower /\ halves[uspan] = upper
    BY <1>2, <1>10
  <2>2. /\ DOMAIN rest = DOMAIN files \ {Span(Block)}
        /\ \A s \in DOMAIN rest : rest[s] = files[s]
    BY DEF Without
  <2>3. files' = Over(rest, halves)
    OBVIOUS
  <2> HIDE DEF halves, rest
  <2> QED
    BY <2>1, <2>2, <2>3 DEF Over
<1>12. DOMAIN files = {Span(hl[k]) : k \in DOMAIN hl}
  BY DEF Tiles, BlocksTile
<1>13. ASSUME NEW k \in DOMAIN hl \ {i}
       PROVE  /\ Span(hl[k]) \in DOMAIN files \ {Span(Block), lspan, uspan}
              /\ hl[k].end <= Block.begin \/ Block.end <= hl[k].begin
              /\ hl[k].begin < hl[k].end
  <2>1. Span(hl[k]) # Span(Block)
    BY <1>1, SpansDiffer DEF Block
  <2>2. hl[k].end <= Block.begin \/ Block.end <= hl[k].begin
    BY <1>1 DEF Tiles, BlocksTile, Block
  <2>3. hl[k].begin < hl[k].end
    BY <1>1 DEF Tiles
  <2>4. /\ hl[k].begin \in Int /\ hl[k].end \in Int
        /\ Block.begin \in Int /\ Block.end \in Int /\ mid \in Int
    BY <1>2
  <2>5. ~(hl[k].begin = Block.begin /\ hl[k].end = mid)
    BY <2>2, <2>4
  <2>6. ~(hl[k].begin = mid /\ hl[k].end = Block.end)
    BY <2>2, <2>4
  <2> QED
    BY <1>12, <2>1, <2>2, <2>3, <2>5, <2>6 DEF Span
<1>14. /\ \A k \in DOMAIN hl \ {i} : Held(k)' = Held(k)
       /\ files'[Span(hl'[i])] = lower /\ files'[Span(hl'[last])] = upper
  BY <1>7, <1>9, <1>11, <1>13 DEF Held
<1>15. ASSUME NEW k \in DOMAIN hl'
       PROVE  \/ k = i /\ hl'[k] = low
              \/ k = last /\ hl'[k] = high
              \/ k \in DOMAIN hl \ {i} /\ hl'[k] = hl[k]
  BY <1>7, <1>8
<1>16. \A k \in DOMAIN hl' : hl'[k].begin < hl'[k].end
  BY <1>4, <1>13, <1>15
<1>17. \A h \in Hash : \E k \in DOMAIN hl' : Covers(hl'[k], h)
  <2> SUFFICES ASSUME NEW h \in Hash
               PROVE  \E k \in DOMAIN hl' : Covers(hl'[k], h)
    OBVIOUS
  <2>1. PICK k \in DOMAIN hl : Covers(hl[k], h)
    BY DEF Tiles, BlocksTile
  <2>2. CASE k # i
    BY <1>7, <1>8, <2>1, <2>2
  <2>3. CASE k = i
    <3>1. Block.begin <= h /\ h <= Block.end
      BY <2>1, <2>3 DEF Covers, Block
    <3>2. h <= mid => Covers(low, h)
      BY <1>4, <3>1 DEF Covers
    <3>3. mid <= h => Covers(high, h)
      BY <1>4, <3>1 DEF Covers
    <3>4. h <= mid \/ mid <= h
      BY <1>2
    <3> QED
      BY <1>1, <1>7, <1>8, <3>2, <3>3, <3>4
  <2> QED
    BY <2>2, <2>3
<1>18. ASSUME NEW k \in DOMAIN hl', NEW j \in DOMAIN hl', k # j
       PROVE  hl'[k].end <= hl'[j].begin \/ hl'[j].end <= hl'[k].begin
  <2>1. Block.begin < mid /\ mid < Block.end
    OBVIOUS
  <2>2. /\ low.begin = Block.begin /\ low.end = mid
        /\ high.begin = mid /\ high.end = Block.end
    BY <1>4
  <2> HIDE DEF SplitInto
  <2>3. CASE k \in DOMAIN hl \ {i} /\ j \in DOMAIN hl \ {i}
    <3>1. hl[k].end <= hl[j].begin \/ hl[j].end <= hl[k].begin
      BY <1>18, <2>3 DEF Tiles, BlocksTile
    <3> QED
      BY <1>7, <2>3, <3>1
  <2>4. CASE k \in DOMAIN hl \ {i} /\ j \in {i, last}
    <3>1. hl'[k] = hl[k] /\ hl'[j] \in {low, high}
      BY <1>7, <2>4
    <3>2. hl[k].end <= Block.begin \/ Block.end <= hl[k].begin
      BY <1>13, <2>4
    <3>3. /\ hl[k].begin \in Int /\ hl[k].end \in Int
          /\ Block.begin \in Int /\ Block.end \in Int /\ mid \in Int
      BY <1>2, <2>4
    <3>4. CASE hl'[j] = low
      BY <2>1, <2>2, <3>1, <3>2, <3>3, <3>4
    <3>5. CASE hl'[j] = high
      BY <2>1, <2>2, <3>1, <3>2, <3>3, <3>5
    <3> QED
      BY <3>1, <3>4, <3>5
  <2>5. CASE j \in DOMAIN hl \ {i} /\ k \in {i, last}
    <3>1. hl'[j] = hl[j] /\ hl'[k] \in {low, high}
      BY <1>7, <2>5
    <3>2. hl[j].end <= Block.begin \/ Block.end <= hl[j].begin
      BY <1>13, <2>5
    <3>3. /\ hl[j].begin \in Int /\ hl[j].end \in Int
          /\ Block.begin \in Int /\ Block.end \in Int /\ mid \in Int
      BY <1>2, <2>5
    <3>4. CASE hl'[k] = low
      BY <2>1, <2>2, <3>1, <3>2, <3>3, <3>4
    <3>5. CASE hl'[k] = high
      BY <2>1, <2>2, <3>1, <3>2, <3>3, <3>5
    <3> QED
      BY <3>1, <3>4, <3>5
  <2>6. CASE k \in {i, last} /\ j \in {i, last}
    BY <1>2, <1>7, <1>18, <2>1, <2>2, <2>6
  <2> QED
    BY <1>8, <2>3, <2>4, <2>5, <2>6
<1>19. DOMAIN files' = {Span(hl'[k]) : k \in DOMAIN hl'}
  <2>1. ASSUME NEW k \in DOMAIN hl'
        PROVE  Span(hl'[k]) \in DOMAIN files'
    BY <1>9, <1>11, <1>13, <1>15
  <2>2. ASSUME NEW s \in DOMAIN files'
        PROVE  \E k \in DOMAIN hl' : Span(hl'[k]) = s
    <3>1. CASE s \in {lspan, uspan}
      BY <1>1, <1>7, <1>8, <1>9, <3>1
    <3>2. CASE s \notin {lspan, uspan}
      <4>1. s \in DOMAIN files /\ s # Span(Block)
        BY <1>11, <3>2
      <4>2. PICK k \in DOMAIN hl : Span(hl[k]) = s
        BY <1>12, <4>1
      <4>3. k # i
        BY <4>1, <4>2 DEF Block
      <4> QED
        BY <1>7, <1>8, <4>2, <4>3
    <3> QED
      BY <3>1, <3>2
  <2> QED
    BY <2>1, <2>2
<1>20. ASSUME NEW k \in DOMAIN hl'
       PROVE  /\ DOMAIN files'[Span(hl'[k])] \subseteq Interval(hl'[k])
              /\ hl'[k].cnt = Cardinality(DOMAIN files'[Span(hl'[k])])
  <2>1. CASE k = i
    <3>1. hl'[k] = low /\ files'[Span(hl'[k])] = lower
      BY <1>7, <1>9, <1>11, <2>1
    <3>2. DOMAIN lower \subseteq Interval(low)
      BY <1>4 DEF Interval
    <3> QED
      BY <1>4, <3>1, <3>2
  <2>2. CASE k = last
    <3>1. hl'[k] = high /\ files'[Span(hl'[k])] = upper
      BY <1>7, <1>9, <1>11, <2>2
    <3>2. DOMAIN upper \subseteq Interval(high)
      BY <1>4 DEF Interval
    <3> QED
      BY <1>4, <3>1, <3>2
  <2>3. CASE k \in DOMAIN hl \ {i}
    <3>1. hl'[k] = hl[k] /\ files'[Span(hl'[k])] = files[Span(hl[k])]
      BY <1>7, <1>11, <1>13, <2>3
    <3> QED
      BY <2>3, <3>1 DEF Tiles, BlocksTile
  <2> QED
    BY <1>8, <2>1, <2>2, <2>3
<1>21. BlocksTile'
  BY <1>17, <1>18, <1>19, <1>20 DEF BlocksTile
<1>22. \A k \in DOMAIN hl' : hl'[k].begin <= hl'[k].end
  <2> SUFFICES ASSUME NEW k \in DOMAIN hl' PROVE hl'[k].begin <= hl'[k].end
    OBVIOUS
  <2>1. hl'[k].begin \in Int /\ hl'[k].end \in Int
    BY <1>2, <1>4, <1>15
  <2> QED
    BY <1>16, <2>1
<1>23. Tiles'
  BY <1>7, <1>16, <1>21, <1>22 DEF Tiles
<1> QED
  BY <1>7, <1>9, <1>14, <1>23

\* What a copy of a key is.
LEMMA CopyOf ==
  ASSUME NEW g, NEW c
  PROVE  c \in Copies(g) <=>
           \E k \in DOMAIN hl : g \in DOMAIN Held(k) /\ c = Held(k)[g]
  BY DEF Copies, Held

\* Storing a record keeps the tiling, writes it into block i in place of the
\* one that was there, and loses no other record.
LEMMA StoreEffect ==
  ASSUME Tiles, i \in 1 .. Len(hl), NEW h \in Hash, Covers(Block, h),
         NEW content, Store(h, content)
  PROVE  /\ Tiles' /\ Len(hl') \in {Len(hl), Len(hl) + 1}
         /\ \A g \in Hash \ {h} : Copies(g)' = Copies(g)
         /\ Copies(h)' \subseteq Copies(h) \cup {content}
         /\ content \in Copies(h)'
<1> DEFINE f == Over(File, [x \in {h} |-> content])
           n == Cardinality(DOMAIN f)
           mid == Middle(f)
<1>1. DOMAIN hl = 1 .. Len(hl) /\ Len(hl) \in Nat /\ i \in DOMAIN hl
  BY LenProperties DEF Tiles
<1>2. /\ Block \in BlockEntry /\ Block.begin \in Int /\ Block.end \in Int
      /\ Hash \subseteq Int
  <2>1. Block \in BlockEntry
    BY <1>1, ElementOfSeq DEF Tiles, Block
  <2> QED
    BY <2>1, SizeAssumption DEF BlockEntry, Hash
<1>3. /\ DOMAIN File \subseteq Interval(Block)
      /\ Cardinality(DOMAIN File) = Block.cnt
      /\ File = Held(i)
  BY <1>1 DEF Tiles, BlocksTile, File, Block, Held
<1>4. /\ DOMAIN f = DOMAIN File \cup {h} /\ f[h] = content
      /\ \A g \in DOMAIN File \ {h} : f[g] = File[g]
  BY DEF Over
<1>5. h \in Interval(Block) /\ Interval(Block) \subseteq Hash
  BY DEF Covers, Interval
<1>6. DOMAIN f \subseteq Interval(Block) /\ DOMAIN f \in SUBSET Hash
  BY <1>3, <1>4, <1>5
<1>7. n \in 0 .. BlockMax + 1
  <2>1. IsFiniteSet(DOMAIN File)
    BY <1>3, <1>5, HashFinite
  <2>2. n = Block.cnt \/ n = Block.cnt + 1
    BY <1>3, <1>4, <2>1, FS_AddElement
  <2>3. Block.cnt \in 0 .. BlockMax
    BY <1>2 DEF BlockEntry
  <2> QED
    BY <2>2, <2>3, SizeAssumption
<1>8. /\ n <= BlockMax =>
           /\ files' = Over(files, [s \in {Span(Block)} |-> f])
           /\ hl' = [hl EXCEPT ![i].cnt = n]
      /\ ~(n <= BlockMax) =>
           /\ files' = Over(Without(files, {Span(Block)}),
                            [s \in {<<Block.begin, mid>>, <<mid, Block.end>>} |->
                               [x \in IF s[2] = mid THEN LowerHalf(f)
                                                    ELSE UpperHalf(f) |-> f[x]]])
           /\ hl' = Append([hl EXCEPT ![i] = [begin |-> Block.begin, end |-> mid,
                                              cnt |-> n \div 2]],
                           [begin |-> mid, end |-> Block.end, cnt |-> n - n \div 2])
  BY DEF Store
<1> HIDE DEF f
<1>9. CASE n <= BlockMax
  <2>1. n \in 0 .. BlockMax
    BY <1>7, <1>9
  <2>2. /\ Tiles' /\ Len(hl') = Len(hl)
        /\ \A k \in DOMAIN hl : Held(k)' = IF k = i THEN f ELSE Held(k)
    BY <1>6, <1>8, <1>9, <2>1, Rewrite
  <2>3. DOMAIN hl' = DOMAIN hl
    BY <1>1, <2>2, LenProperties DEF Tiles
  <2>4. \A g, c : c \in Copies(g)' <=>
          \E k \in DOMAIN hl' : g \in DOMAIN Held(k)' /\ c = Held(k)'[g]
    BY DEF Copies, Held
  <2>5. ASSUME NEW g \in Hash \ {h}
        PROVE  Copies(g)' = Copies(g)
    <3>1. \A k \in DOMAIN hl :
            /\ g \in DOMAIN Held(k)' <=> g \in DOMAIN Held(k)
            /\ g \in DOMAIN Held(k) => Held(k)'[g] = Held(k)[g]
      BY <1>3, <1>4, <2>2
    <3>2. \A c : c \in Copies(g)' <=> c \in Copies(g)
      BY <2>3, <2>4, <3>1, CopyOf
    <3> QED
      BY <3>2
  <2>6. ASSUME NEW c \in Copies(h)'
        PROVE  c \in Copies(h) \cup {content}
    BY <1>3, <1>4, <2>2, <2>3, <2>4, CopyOf
  <2>7. content \in Copies(h)'
    BY <1>1, <1>4, <2>2, <2>3, <2>4
  <2> QED
    BY <2>2, <2>5, <2>6, <2>7
<1>10. CASE ~(n <= BlockMax)
  <2> DEFINE lower == [x \in LowerHalf(f) |-> f[x]]
             upper == [x \in UpperHalf(f) |-> f[x]]
  <2>1. /\ n >= 3 /\ n \in Nat
        /\ n \div 2 \in 0 .. BlockMax /\ n - n \div 2 \in 0 .. BlockMax
    BY <1>7, <1>10, SizeAssumption
  <2>2. /\ mid \in DOMAIN f
        /\ LowerHalf(f) \cup UpperHalf(f) = DOMAIN f
        /\ Cardinality(LowerHalf(f)) = n \div 2
        /\ Cardinality(UpperHalf(f)) = n - n \div 2
        /\ \E x \in DOMAIN f : x < mid
        /\ \E x \in DOMAIN f : mid < x
    BY <1>6, <2>1, Halves
  <2>3. \A x \in DOMAIN f : Block.begin <= x /\ x <= Block.end /\ x \in Int
    BY <1>2, <1>5, <1>6 DEF Interval
  <2>4. mid \in Hash /\ Block.begin < mid /\ mid < Block.end
    BY <1>2, <1>6, <2>2, <2>3
  <2>5. /\ DOMAIN lower = LowerHalf(f) /\ DOMAIN upper = UpperHalf(f)
        /\ \A x \in DOMAIN lower : lower[x] = f[x]
        /\ \A x \in DOMAIN upper : upper[x] = f[x]
    OBVIOUS
  <2>6. [s \in {<<Block.begin, mid>>, <<mid, Block.end>>} |->
           [x \in IF s[2] = mid THEN LowerHalf(f) ELSE UpperHalf(f) |-> f[x]]]
        = [s \in {<<Block.begin, mid>>, <<mid, Block.end>>} |->
             IF s[2] = mid THEN lower ELSE upper]
    OBVIOUS
  <2>7. /\ \A x \in LowerHalf(f) : x \in Hash /\ Block.begin <= x /\ x <= mid
        /\ \A x \in UpperHalf(f) : x \in Hash /\ mid <= x /\ x <= Block.end
    <3>1. /\ LowerHalf(f) \subseteq DOMAIN f /\ \A x \in LowerHalf(f) : x < mid
          /\ UpperHalf(f) \subseteq DOMAIN f /\ \A x \in UpperHalf(f) : x >= mid
      BY DEF LowerHalf, UpperHalf
    <3>2. mid \in Int
      BY <1>2, <2>4
    <3> HIDE DEF mid
    <3> QED
      BY <1>6, <2>3, <3>1, <3>2
  <2> HIDE DEF lower, upper, mid, n
  <2>8. /\ DOMAIN lower \subseteq Hash /\ DOMAIN upper \subseteq Hash
        /\ \A x \in DOMAIN lower : Block.begin <= x /\ x <= mid
        /\ \A x \in DOMAIN upper : mid <= x /\ x <= Block.end
        /\ Cardinality(DOMAIN lower) = n \div 2
        /\ Cardinality(DOMAIN upper) = n - n \div 2
    BY <2>2, <2>5, <2>7
  <2>9. /\ files' = Over(Without(files, {Span(Block)}),
                         [s \in {<<Block.begin, mid>>, <<mid, Block.end>>} |->
                            IF s[2] = mid THEN lower ELSE upper])
        /\ hl' = Append([hl EXCEPT ![i] = [begin |-> Block.begin, end |-> mid,
                                           cnt |-> n \div 2]],
                        [begin |-> mid, end |-> Block.end, cnt |-> n - n \div 2])
    BY <1>8, <1>10, <2>6
  <2>10. /\ Tiles' /\ Len(hl') = Len(hl) + 1
         /\ \A k \in DOMAIN hl \ {i} : Held(k)' = Held(k)
         /\ files'[Span(hl'[i])] = lower
         /\ files'[Span(hl'[Len(hl) + 1])] = upper
    <3>1. SplitInto(mid, n, lower, upper)
      BY <2>1, <2>4, <2>8, <2>9 DEF SplitInto
    <3> QED
      BY <2>1, <2>4, <3>1, Split
  <2>11. DOMAIN hl' = DOMAIN hl \cup {Len(hl) + 1}
    BY <1>1, <2>10, LenProperties DEF Tiles
  <2>12. \A g, c : c \in Copies(g)' <=>
           \E k \in DOMAIN hl' : /\ g \in DOMAIN files'[Span(hl'[k])]
                                /\ c = files'[Span(hl'[k])][g]
    BY DEF Copies
  <2>13. \A k \in DOMAIN hl \ {i} : files'[Span(hl'[k])] = Held(k)
    BY <2>10 DEF Held
  <2>14. \A g \in DOMAIN f : \E k \in DOMAIN hl' :
           /\ g \in DOMAIN files'[Span(hl'[k])]
           /\ files'[Span(hl'[k])][g] = f[g]
    BY <1>1, <2>2, <2>5, <2>10, <2>11
  <2>15. ASSUME NEW g, NEW c \in Copies(g)'
         PROVE  \/ g \in DOMAIN f /\ c = f[g]
                \/ \E k \in DOMAIN hl \ {i} : g \in DOMAIN Held(k) /\ c = Held(k)[g]
    BY <2>2, <2>5, <2>10, <2>11, <2>12, <2>13, <2>15
  <2>16. ASSUME NEW g \in Hash \ {h}
         PROVE  Copies(g)' = Copies(g)
    <3>1. ASSUME NEW c \in Copies(g)'
          PROVE  c \in Copies(g)
      BY <1>1, <1>3, <1>4, <2>15, CopyOf
    <3>2. ASSUME NEW c \in Copies(g)
          PROVE  c \in Copies(g)'
      <4>1. PICK k \in DOMAIN hl : g \in DOMAIN Held(k) /\ c = Held(k)[g]
        BY CopyOf
      <4>2. CASE k = i
        <5>1. g \in DOMAIN f /\ f[g] = c
          BY <1>3, <1>4, <4>1, <4>2
        <5> QED
          BY <2>12, <2>14, <5>1
      <4>3. CASE k # i
        BY <2>11, <2>12, <2>13, <4>1, <4>3
      <4> QED
        BY <4>2, <4>3
    <3> QED
      BY <3>1, <3>2
  <2>17. ASSUME NEW c \in Copies(h)'
         PROVE  c \in Copies(h) \cup {content}
    BY <1>4, <2>15, CopyOf
  <2>18. content \in Copies(h)'
    BY <1>4, <2>12, <2>14
  <2> QED
    BY <2>10, <2>16, <2>17, <2>18
<1> QED
  BY <1>9, <1>10

-----------------------------------------------------------------------------
(* The invariant, for every kind of request.                               *)

PutRequest == [op : {"put"}, key : Hash, value : 1 .. MaxJobs]
GetRequest == [op : {"get"}, key : Hash]
CollectRequest == [op : {"collect"}, id : MoveId, begin : Hash, end : Hash]
ReceiveRequest == [op : {"receive"}, keys : Seq(Hash), value : 1 .. MaxJobs]
RemoveRequest == [op : {"remove"}, id : MoveId]
Usual == PutRequest \cup GetRequest \cup CollectRequest \cup ReceiveRequest
Request == Usual \cup RemoveRequest
RemoveJob == [op : {"remove"}, id : MoveId, begin : Hash, end : Hash]
Job == Usual \cup RemoveJob \cup {Start}

\* The kinds of values, besides those of the block list.
Types ==
  /\ running \in BOOLEAN
  /\ pushed \in 0 .. MaxJobs /\ clock \in Nat
  /\ que \in Seq(Request) /\ job \in Job
  /\ moves \in [MoveId -> [begin : Hash, end : Hash, remove : BOOLEAN]]
  /\ i \in Nat /\ sz \in 0 .. Len(hl)
  /\ found \in BOOLEAN /\ stamp \in Int
  /\ list \in Seq(Hash) /\ flags \subseteq Slot
  /\ owed \in [MoveId -> Nat]
  /\ latest \in [Hash -> 0 .. MaxJobs]
  /\ wanted \in [MoveId -> SUBSET Hash]

\* While the loop of a request that stores nothing runs, it runs over the
\* whole list.
Whole == ~Idle /\ job.op \in {"get", "collect", "remove"} => sz = Len(hl)

\* A migration whose range is recorded as empty may be asked for again, and
\* then its record changes; a migration with hashes keeps its record.
Kept(m) == wanted[m] # {} \/ Interval(moves[m]) = {}
Recorded ==
  /\ \A n \in DOMAIN que : que[n].op \in {"collect", "remove"} => Kept(que[n].id)
  /\ job.op = "collect" => Kept(job.id)
  /\ \A m \in MoveId : owed[m] > 0 => Kept(m)
  /\ job.op = "remove" => wanted[job.id] # {} \/ Interval(job) = {}

\* What a collect has gathered and a remove has cleared so far: the blocks
\* the loop has passed, all of them when it is over.
Scanned ==
  ~failed => \A n \in DOMAIN hl : Idle \/ n < i =>
    /\ job.op = "collect" =>
         DOMAIN Held(n) \cap Interval(job) \subseteq {list[k] : k \in DOMAIN list}
    /\ job.op = "remove" /\ (Idle => moves[job.id].remove) =>
         DOMAIN Held(n) \cap Interval(job) = {}

Inv == Types /\ Tiles /\ Whole /\ Recorded /\ Scanned

\* What the block list and the files are made of.
LEMMA TilesTyped ==
  ASSUME Tiles
  PROVE  /\ hl \in Seq([begin : Hash, end : Hash, cnt : 0 .. BlockMax])
         /\ \A s \in DOMAIN files : s \in Spans /\ DOMAIN files[s] \subseteq Hash
<1>1. hl \in Seq(BlockEntry)
  BY DEF Tiles
<1>2. ASSUME NEW s \in DOMAIN files
      PROVE  s \in Spans /\ DOMAIN files[s] \subseteq Hash
  <2>1. PICK n \in DOMAIN hl : s = Span(hl[n])
    BY DEF Tiles, BlocksTile
  <2>2. hl[n] \in BlockEntry
    BY <1>1, LenProperties, ElementOfSeq
  <2>3. DOMAIN files[s] \subseteq Interval(hl[n])
    BY <2>1 DEF Tiles, BlocksTile
  <2> QED
    BY <2>1, <2>2, <2>3 DEF BlockEntry, Span, Spans, Interval
<1> QED
  BY <1>1, <1>2 DEF BlockEntry

\* The block the loop looks at is one of the list.
LEMMA AtBlock ==
  ASSUME Types, Tiles, NEW op, Loop(op)
  PROVE  /\ i \in 1 .. Len(hl) /\ i \in DOMAIN hl /\ ~Idle /\ job.op = op
         /\ Block \in BlockEntry /\ File = Held(i)
         /\ DOMAIN File \in SUBSET Hash /\ DOMAIN File \subseteq Interval(Block)
<1>1. /\ i \in 1 .. Len(hl) /\ DOMAIN hl = 1 .. Len(hl) /\ Len(hl) \in Nat
      /\ ~Idle /\ job.op = op
  BY LenProperties DEF Types, Tiles, Loop, Idle
<1>2. Block \in BlockEntry
  BY <1>1, ElementOfSeq DEF Tiles, Block
<1>3. File = Held(i) /\ DOMAIN File \subseteq Interval(Block)
  BY <1>1 DEF File, Held, Block, Tiles, BlocksTile
<1> QED
  BY <1>1, <1>2, <1>3 DEF Interval

\* Which request is at hand says which fields it has.
LEMMA JobKinds ==
  ASSUME Types
  PROVE  /\ job.op = "put" => job \in PutRequest
         /\ job.op = "get" => job \in GetRequest
         /\ job.op = "collect" => job \in CollectRequest
         /\ job.op = "receive" => job \in ReceiveRequest
         /\ job.op = "remove" => job \in RemoveJob
<1>1. job \in Usual \cup RemoveJob \cup {Start}
  BY DEF Types, Job
<1>2. CASE job \in Usual
  BY <1>2 DEF Usual, PutRequest, GetRequest, CollectRequest, ReceiveRequest
<1>3. CASE job \in RemoveJob
  BY <1>3 DEF RemoveJob
<1>4. CASE job = Start
  BY <1>4 DEF Start
<1> QED
  BY <1>1, <1>2, <1>3, <1>4

\* What a remove does to block i: the records that stay are those that no
\* flag marks, and none of them is in the range.
LEMMA RemoveEffect ==
  ASSUME Types, Tiles, RemoveBlock
  PROVE  /\ Tiles' /\ Len(hl') = Len(hl) /\ flags' \subseteq Slot
         /\ \A n \in DOMAIN hl : n # i => Held(n)' = Held(n)
         /\ DOMAIN files'[Span(hl'[i])] \cap Interval(job) = {}
<1> DEFINE dropped == {h \in DOMAIN File : Rank(File, h) \in flags'}
           f == Without(File, dropped)
<1>1. /\ i \in 1 .. Len(hl) /\ i \in DOMAIN hl
      /\ Block \in BlockEntry /\ File = Held(i)
      /\ DOMAIN File \in SUBSET Hash /\ DOMAIN File \subseteq Interval(Block)
  <2>1. Loop("remove")
    BY DEF RemoveBlock
  <2> QED
    BY <2>1, AtBlock
<1>2. IsFiniteSet(DOMAIN File) /\ Cardinality(DOMAIN File) \in Nat
  BY <1>1, HashFinite
<1>3. Cardinality(DOMAIN File) = Block.cnt /\ Block.cnt \in 0 .. BlockMax
  BY <1>1 DEF Tiles, BlocksTile, BlockEntry, File, Block
<1>4. DOMAIN f = DOMAIN File \ dropped
  BY DEF Without
<1>5. /\ flags' = flags \cup {Rank(File, h) : h \in DOMAIN File \cap Interval(job)}
      /\ files' = Over(files, [s \in {Span(Block)} |-> f])
      /\ hl' = [hl EXCEPT ![i].cnt = @ - Cardinality(dropped)]
  BY DEF RemoveBlock
<1>6. flags' \subseteq Slot
  <2>1. \A h \in DOMAIN File : Rank(File, h) \in 0 .. Cardinality(DOMAIN File) - 1
    BY <1>1, Ranks DEF Rank, Below
  <2>2. \A h \in DOMAIN File : Rank(File, h) \in Slot
    BY <1>3, <2>1, SizeAssumption DEF Slot
  <2> QED
    BY <1>5, <2>2 DEF Types
<1>7. DOMAIN f \cap Interval(job) = {}
  BY <1>4, <1>5
<1>8. /\ Cardinality(DOMAIN f) \in 0 .. BlockMax
      /\ Cardinality(DOMAIN f) = Block.cnt - Cardinality(dropped)
  <2>1. dropped \in SUBSET DOMAIN File
    OBVIOUS
  <2> HIDE DEF dropped
  <2>2. DOMAIN File \cap dropped = dropped
    BY <2>1
  <2>3. /\ Cardinality(dropped) \in Nat
        /\ Cardinality(dropped) <= Cardinality(DOMAIN File)
    BY <1>2, <2>1, FS_Subset, FS_CardinalityType
  <2>4. Cardinality(DOMAIN File \ dropped)
          = Cardinality(DOMAIN File) - Cardinality(DOMAIN File \cap dropped)
    BY <1>2, FS_Difference
  <2> HIDE DEF f
  <2>5. Cardinality(DOMAIN f) = Cardinality(DOMAIN File) - Cardinality(dropped)
    BY <1>4, <2>2, <2>4
  <2> QED
    BY <1>2, <1>3, <2>3, <2>5, SizeAssumption
<1>9. hl' = [hl EXCEPT ![i].cnt = Cardinality(DOMAIN f)]
  BY <1>1, <1>5, <1>8 DEF Block
<1>10. DOMAIN f \subseteq Interval(Block)
  BY <1>1, <1>4
<1> HIDE DEF f
<1>11. /\ Tiles' /\ Len(hl') = Len(hl)
       /\ \A n \in DOMAIN hl :
            /\ Span(hl[n])' = Span(hl[n])
            /\ Held(n)' = IF n = i THEN f ELSE Held(n)
  BY <1>1, <1>5, <1>8, <1>9, <1>10, Rewrite
<1>12. files'[Span(hl'[i])] = f
  BY <1>1, <1>11 DEF Held
<1> QED
  BY <1>6, <1>7, <1>11, <1>12

\* Most actions leave the block list alone.
LEMMA ListKept ==
  ASSUME [Next]_vars
  PROVE  \/ hl' = hl /\ files' = files
         \/ PutBlock \/ ReceiveBlock \/ RemoveBlock
<1>1. CASE UNCHANGED vars
  BY <1>1 DEF vars, disk
<1>2. ASSUME NEW h \in Hash, put(h) \/ get(h) PROVE hl' = hl /\ files' = files
  BY <1>2 DEF put, get, Push, disk
<1>3. ASSUME NEW m \in MoveId, NEW b \in Hash, NEW e \in Hash,
             NEW r \in BOOLEAN, getMoveData(m, b, e, r)
      PROVE  hl' = hl /\ files' = files
  BY <1>3 DEF getMoveData, Push, disk
<1>4. ASSUME NEW S \in Arriving, recvMoveData(S) PROVE hl' = hl /\ files' = files
  BY <1>4 DEF recvMoveData, Push, disk
<1>5. ASSUME NEW m \in MoveId, moveDataReturn(m) PROVE hl' = hl /\ files' = files
  BY <1>5 DEF moveDataReturn, disk
<1>6. CASE Pop
  BY <1>6 DEF Pop, disk
<1>7. CASE GetBlock \/ CollectBlock \/ NextReceived \/ Finish
  BY <1>7 DEF GetBlock, CollectBlock, NextReceived, Finish, disk
<1>8. ASSUME NEW op \in Kinds, Skip(op) \/ OpenFails(op)
      PROVE  hl' = hl /\ files' = files
  BY <1>8 DEF Skip, OpenFails, disk
<1> QED
  BY <1>1, <1>2, <1>3, <1>4, <1>5, <1>6, <1>7, <1>8 DEF Next, DataThread

\* A put or a received record is stored in block i.
LEMMA StoreStep ==
  ASSUME Types, Tiles, PutBlock \/ ReceiveBlock
  PROVE  /\ Tiles' /\ Len(hl') \in {Len(hl), Len(hl) + 1}
         /\ latest' \in [Hash -> 0 .. MaxJobs]
<1>1. ASSUME NEW h \in Hash, NEW content, content.value \in 0 .. MaxJobs,
             NEW op, Loop(op), Covers(Block, h), Store(h, content)
      PROVE  /\ Tiles' /\ Len(hl') \in {Len(hl), Len(hl) + 1}
             /\ latest' \in [Hash -> 0 .. MaxJobs]
  <2>1. i \in 1 .. Len(hl)
    BY <1>1, AtBlock
  <2>2. Tiles' /\ Len(hl') \in {Len(hl), Len(hl) + 1}
    BY <1>1, <2>1, StoreEffect
  <2>3. latest' = [latest EXCEPT ![h] = content.value]
    BY <1>1 DEF Store
  <2> QED
    BY <1>1, <2>2, <2>3 DEF Types
<1>2. CASE PutBlock
  <2>1. Loop("put") /\ Covers(Block, job.key)
        /\ Store(job.key, [value |-> job.value, timestamp |-> stamp])
    BY <1>2 DEF PutBlock
  <2>2. job \in PutRequest
    BY <2>1, JobKinds DEF Loop
  <2> QED
    BY <1>1, <2>1, <2>2 DEF PutRequest
<1>3. CASE ReceiveBlock
  <2>1. Loop("receive") /\ list # << >> /\ Covers(Block, Head(list))
        /\ Store(Head(list), [value |-> job.value, timestamp |-> stamp])
    BY <1>3 DEF ReceiveBlock
  <2>2. job \in ReceiveRequest
    BY <2>1, JobKinds DEF Loop
  <2>3. Head(list) \in Hash
    BY <2>1, HeadTailProperties DEF Types
  <2> QED
    BY <1>1, <2>1, <2>2, <2>3 DEF ReceiveRequest
<1> QED
  BY <1>2, <1>3

\* Blocks are only cut in two, and the halves take the place of the whole.
LEMMA TilesStep ==
  ASSUME Types, Tiles, [Next]_vars
  PROVE  Tiles'
<1>1. CASE hl' = hl /\ files' = files
  BY <1>1 DEF Tiles, BlocksTile
<1> QED
  BY <1>1, ListKept, StoreStep, RemoveEffect

\* The parts of a range are one or two ranges of hashes.
LEMMA PartsTyped ==
  ASSUME NEW b \in Hash, NEW e \in Hash
  PROVE  /\ Parts(b, e) \in Seq([begin : Hash, end : Hash])
         /\ Len(Parts(b, e)) \in {1, 2}
         /\ DOMAIN Parts(b, e) = 1 .. Len(Parts(b, e))
<1> DEFINE last == (e - 1) % (HashMax + 1)
<1>1. last \in Hash /\ 0 \in Hash /\ HashMax \in Hash
  BY SizeAssumption DEF Hash
<1> HIDE DEF last
<1>2. CASE b > e
  <2>1. Parts(b, e) = <<[begin |-> b, end |-> HashMax], [begin |-> 0, end |-> last]>>
    BY <1>2 DEF Parts, last
  <2> QED
    BY <1>1, <2>1
<1>3. CASE ~(b > e)
  <2>1. Parts(b, e) = <<[begin |-> b, end |-> last]>>
    BY <1>3 DEF Parts, last
  <2> QED
    BY <1>1, <2>1
<1> QED
  BY <1>2, <1>3

\* Queueing requests.
LEMMA PushTypes ==
  ASSUME Types, NEW jobs \in Seq(Request), Push(jobs)
  PROVE  /\ que' \in Seq(Request)
         /\ \A n \in DOMAIN que' : \/ n \in DOMAIN que /\ que'[n] = que[n]
                                  \/ \E k \in 1 .. Len(jobs) : que'[n] = jobs[k]
         /\ pushed' \in 0 .. MaxJobs
         /\ UNCHANGED <<running, disk, clock, local, out, traffic>>
<1>1. /\ que' = que \o jobs /\ pushed' = pushed + 1 /\ pushed < MaxJobs
      /\ UNCHANGED <<running, disk, clock, local, out, traffic>>
  BY DEF Push
<1>2. /\ que' \in Seq(Request) /\ Len(que') = Len(que) + Len(jobs)
      /\ \A k \in 1 .. Len(que) + Len(jobs) :
           que'[k] = IF k <= Len(que) THEN que[k] ELSE jobs[k - Len(que)]
  BY <1>1, ConcatProperties DEF Types
<1>3. /\ Len(que) \in Nat /\ Len(jobs) \in Nat
      /\ DOMAIN que = 1 .. Len(que) /\ DOMAIN que' = 1 .. Len(que')
  BY <1>2, LenProperties DEF Types
<1>4. ASSUME NEW n \in DOMAIN que'
      PROVE  \/ n \in DOMAIN que /\ que'[n] = que[n]
             \/ \E k \in 1 .. Len(jobs) : que'[n] = jobs[k]
  <2>1. CASE n <= Len(que)
    BY <1>2, <1>3, <2>1
  <2>2. CASE ~(n <= Len(que))
    <3>1. n - Len(que) \in 1 .. Len(jobs) /\ que'[n] = jobs[n - Len(que)]
      BY <1>2, <1>3, <2>2
    <3> QED
      BY <3>1
  <2> QED
    BY <2>1, <2>2
<1>5. pushed' \in 0 .. MaxJobs
  BY <1>1, SizeAssumption DEF Types
<1> QED
  BY <1>1, <1>2, <1>4, <1>5

\* What getMoveData queues and records.
LEMMA MoveRequested ==
  ASSUME Types, NEW m \in MoveId, NEW b \in Hash, NEW e \in Hash,
         NEW r \in BOOLEAN, getMoveData(m, b, e, r)
  PROVE  /\ que' \in Seq(Request) /\ pushed' \in 0 .. MaxJobs
         /\ \A n \in DOMAIN que' :
              (n \in DOMAIN que /\ que'[n] = que[n]) \/ que'[n].id = m
         /\ moves' \in [MoveId -> [begin : Hash, end : Hash, remove : BOOLEAN]]
         /\ wanted' \in [MoveId -> SUBSET Hash]
         /\ wanted[m] = {} /\ Interval(moves'[m]) \subseteq wanted'[m]
         /\ \A k \in MoveId \ {m} : moves'[k] = moves[k] /\ wanted'[k] = wanted[k]
         /\ UNCHANGED <<running, disk, clock, local, out, owed, traffic>>
<1> DEFINE parts == Parts(b, e)
           last == parts[Len(parts)]
           jobs == [n \in DOMAIN parts |->
                      [op |-> "collect", id |-> m, begin |-> parts[n].begin,
                       end |-> parts[n].end]]
           record == [begin |-> last.begin, end |-> last.end, remove |-> r]
           asked == UNION {Interval(parts[n]) : n \in DOMAIN parts}
<1>1. /\ DOMAIN parts = 1 .. Len(parts) /\ Len(parts) \in {1, 2}
      /\ \A n \in DOMAIN parts : parts[n] \in [begin : Hash, end : Hash]
  BY PartsTyped, ElementOfSeq
<1>2. /\ wanted[m] = {} /\ Push(jobs) /\ owed' = owed
      /\ moves' = [moves EXCEPT ![m] = record]
      /\ wanted' = [wanted EXCEPT ![m] = asked]
  BY DEF getMoveData
<1> HIDE DEF parts
<1>3. jobs \in [1 .. Len(parts) -> CollectRequest]
  BY <1>1 DEF CollectRequest
<1>4. jobs \in Seq(Request) /\ Len(jobs) = Len(parts)
  <2>1. CollectRequest \subseteq Request
    BY DEF Request, Usual
  <2>2. jobs \in [1 .. Len(parts) -> Request]
    BY <1>3, <2>1
  <2>3. Len(parts) \in Nat
    BY <1>1
  <2>4. jobs \in Seq(Request)
    BY <2>2, <2>3, SeqDef
  <2>5. DOMAIN jobs = 1 .. Len(parts) /\ DOMAIN jobs = 1 .. Len(jobs) /\ Len(jobs) \in Nat
    BY <1>1, <2>4, LenProperties
  <2> QED
    BY <2>3, <2>4, <2>5
<1>5. \A n \in 1 .. Len(jobs) : jobs[n].id = m
  BY <1>1, <1>4
<1> HIDE DEF jobs
<1>6. /\ que' \in Seq(Request) /\ pushed' \in 0 .. MaxJobs
      /\ UNCHANGED <<running, disk, clock, local, out, traffic>>
  BY <1>2, <1>4, PushTypes
<1>7. \A n \in DOMAIN que' :
        (n \in DOMAIN que /\ que'[n] = que[n]) \/ que'[n].id = m
  BY <1>2, <1>4, <1>5, PushTypes
<1>8. last \in [begin : Hash, end : Hash] /\ Len(parts) \in DOMAIN parts
  BY <1>1
<1>9. record \in [begin : Hash, end : Hash, remove : BOOLEAN]
  BY <1>8
<1>10. asked \in SUBSET Hash /\ Interval(record) \subseteq asked
  <2>1. Interval(record) = Interval(last)
    BY DEF Interval
  <2>2. Interval(last) \subseteq asked
    BY <1>8
  <2>3. \A n \in DOMAIN parts : Interval(parts[n]) \subseteq Hash
    BY DEF Interval
  <2> QED
    BY <2>1, <2>2, <2>3
<1> HIDE DEF record, asked
<1>11. /\ moves' \in [MoveId -> [begin : Hash, end : Hash, remove : BOOLEAN]]
       /\ wanted' \in [MoveId -> SUBSET Hash]
       /\ moves'[m] = record /\ wanted'[m] = asked
       /\ \A k \in MoveId \ {m} : moves'[k] = moves[k] /\ wanted'[k] = wanted[k]
  BY <1>2, <1>9, <1>10 DEF Types
<1> QED
  BY <1>2, <1>6, <1>7, <1>10, <1>11

\* The stored and the queued, the walk over the list and what it found.
LEMMA TypesStep ==
  ASSUME Types, Tiles, [Next]_vars
  PROVE  Types'
<1> USE SizeAssumption
<1>1. CASE UNCHANGED vars
  BY <1>1 DEF vars, input, disk, local, Types
<1>2. ASSUME NEW h \in Hash, put(h) \/ get(h)
      PROVE  Types'
  <2>1. pushed < MaxJobs => pushed + 1 \in 1 .. MaxJobs
    BY DEF Types
  <2>2. pushed < MaxJobs =>
          <<[op |-> "put", key |-> h, value |-> pushed + 1]>> \in Seq(Request)
    <3>1. pushed < MaxJobs =>
            [op |-> "put", key |-> h, value |-> pushed + 1] \in Request
      BY <2>1 DEF Request, Usual, PutRequest
    <3> QED
      BY <3>1
  <2>3. <<[op |-> "get", key |-> h]>> \in Seq(Request)
    <3>1. [op |-> "get", key |-> h] \in Request
      BY DEF Request, Usual, GetRequest
    <3> QED
      BY <3>1
  <2>4. que' \in Seq(Request) /\ pushed' \in 0 .. MaxJobs
        /\ UNCHANGED <<running, disk, clock, local, out, traffic>>
    <3>1. CASE put(h)
      <4>1. pushed < MaxJobs /\ Push(<<[op |-> "put", key |-> h, value |-> pushed + 1]>>)
        BY <3>1 DEF put, Push
      <4> QED
        BY <2>2, <4>1, PushTypes
    <3>2. CASE get(h)
      <4>1. Push(<<[op |-> "get", key |-> h]>>)
        BY <3>2 DEF get
      <4> QED
        BY <2>3, <4>1, PushTypes
    <3> QED
      BY <1>2, <3>1, <3>2
  <2>5. UNCHANGED <<moves, wanted, owed>>
    BY <1>2 DEF put, get
  <2> QED
    BY <2>4, <2>5 DEF Types, disk, local
<1>3. ASSUME NEW m \in MoveId, NEW b \in Hash, NEW e \in Hash,
             NEW r \in BOOLEAN, getMoveData(m, b, e, r)
      PROVE  Types'
  <2>1. /\ que' \in Seq(Request) /\ pushed' \in 0 .. MaxJobs
        /\ moves' \in [MoveId -> [begin : Hash, end : Hash, remove : BOOLEAN]]
        /\ wanted' \in [MoveId -> SUBSET Hash]
        /\ UNCHANGED <<running, disk, clock, local, owed>>
    BY <1>3, MoveRequested
  <2> QED
    BY <2>1 DEF Types, disk, local
<1>4. ASSUME NEW S \in Arriving, recvMoveData(S)
      PROVE  Types'
  <2> DEFINE q == [op |-> "receive", keys |-> Sorted(S), value |-> pushed + 1]
  <2>1. Sorted(S) \in Seq(Hash)
    BY SortedKeys
  <2>2. Push(<<q>>) /\ UNCHANGED <<moves, wanted, owed>>
    BY <1>4 DEF recvMoveData
  <2>3. pushed + 1 \in 1 .. MaxJobs
    BY <2>2 DEF Types, Push
  <2>4. q \in Request
    BY <2>1, <2>3 DEF Request, Usual, ReceiveRequest
  <2> HIDE DEF q
  <2>5. <<q>> \in Seq(Request)
    BY <2>4
  <2>6. /\ que' \in Seq(Request) /\ pushed' \in 0 .. MaxJobs
        /\ UNCHANGED <<running, disk, clock, local, out, traffic>>
    BY <2>2, <2>5, PushTypes
  <2> QED
    BY <2>2, <2>6 DEF Types, disk, local
<1>5. ASSUME NEW m \in MoveId, moveDataReturn(m)
      PROVE  Types'
  <2>1. [op |-> "remove", id |-> m] \in Request
    BY DEF Request, RemoveRequest
  <2>2. que' = Append(que, [op |-> "remove", id |-> m])
    BY <1>5 DEF moveDataReturn
  <2>3. que' \in Seq(Request)
    BY <2>1, <2>2, AppendProperties DEF Types
  <2>4. owed' \in [MoveId -> Nat]
    BY <1>5 DEF Types, moveDataReturn
  <2>5. UNCHANGED <<running, pushed, moves, wanted, disk, clock, local>>
    BY <1>5 DEF moveDataReturn
  <2> QED
    BY <2>3, <2>4, <2>5 DEF Types, disk, local
<1>6. CASE Pop
  <2> DEFINE q == Head(que)
  <2>1. que # << >> /\ q \in Request /\ que' \in Seq(Request)
    <3>1. que # << >> /\ que' = Tail(que) /\ que \in Seq(Request)
      BY <1>6 DEF Pop, Types
    <3> QED
      BY <3>1, HeadTailProperties
  <2>2. /\ clock' = clock + 1 /\ sz' = Len(hl) /\ found' = FALSE
        /\ UNCHANGED <<running, pushed, moves, wanted, hl, files, latest, owed>>
    BY <1>6 DEF Pop, disk
  <2>3. /\ q.op = "receive" => stamp' \in GarbageStamps /\ list' = q.keys
        /\ q.op # "receive" => stamp' = clock' /\ list' = << >>
    BY <1>6 DEF Pop
  <2>4. /\ q.op = "remove" =>
             /\ job' = [op |-> "remove", id |-> q.id,
                       begin |-> moves[q.id].begin, end |-> moves[q.id].end]
             /\ flags' \in GarbageFlags /\ i' \in {0, 1}
        /\ q.op # "remove" => job' = q /\ flags' = {} /\ i' = 1
    BY <1>6 DEF Pop
  <2> HIDE DEF q
  <2>5. clock' \in Nat /\ found' \in BOOLEAN /\ sz' \in 0 .. Len(hl')
    <3>1. Len(hl) \in Nat
      BY LenProperties DEF Tiles
    <3>2. clock' \in Nat
      BY <2>2 DEF Types
    <3>3. sz' \in 0 .. Len(hl')
      BY <2>2, <3>1
    <3> QED
      BY <2>2, <3>2, <3>3
  <2>6. job' \in Job /\ (q.op = "receive" => q.keys \in Seq(Hash))
    <3>1. CASE q \in RemoveRequest
      <4>1. q.op = "remove" /\ q.id \in MoveId
        BY <3>1 DEF RemoveRequest
      <4> QED
        BY <2>4, <4>1 DEF Types, Job, RemoveJob
    <3>2. CASE q \in Usual
      <4>1. q.op # "remove" /\ (q.op = "receive" => q.keys \in Seq(Hash))
        BY <3>2 DEF Usual, PutRequest, GetRequest, CollectRequest, ReceiveRequest
      <4> QED
        BY <2>4, <3>2, <4>1 DEF Job
    <3> QED
      BY <2>1, <3>1, <3>2 DEF Request
  <2>7. stamp' \in Int
    <3>1. CASE q.op = "receive"
      BY <2>3, <3>1, SizeAssumption, Zenon
    <3>2. CASE q.op # "receive"
      BY <2>3, <2>5, <3>2
    <3> QED
      BY <3>1, <3>2
  <2>8. list' \in Seq(Hash)
    <3>1. << >> \in Seq(Hash)
      OBVIOUS
    <3> QED
      BY <2>3, <2>6, <3>1
  <2>9. flags' \subseteq Slot /\ i' \in Nat
    BY <2>4
  <2> QED
    BY <2>1, <2>2, <2>5, <2>6, <2>7, <2>8, <2>9 DEF Types
<1>7. CASE PutBlock \/ ReceiveBlock
  <2>1. /\ Len(hl') \in {Len(hl), Len(hl) + 1}
        /\ latest' \in [Hash -> 0 .. MaxJobs]
    BY <1>7, StoreStep
  <2>2. i' \in {i + 1, sz + 1}
        /\ UNCHANGED <<running, input, clock, job, sz, found, list, stamp, flags, owed>>
    BY <1>7 DEF PutBlock, ReceiveBlock, Advance, Break
  <2>3. Len(hl) \in Nat
    BY LenProperties DEF Tiles
  <2> QED
    BY <2>1, <2>2, <2>3 DEF Types, input
<1>8. CASE GetBlock
  <2>1. found' \in BOOLEAN
    BY <1>8 DEF GetBlock, Types
  <2>2. i' = i + 1
        /\ UNCHANGED <<running, input, disk, clock, job, sz, list, stamp, flags, owed>>
    BY <1>8 DEF GetBlock, Advance
  <2> QED
    BY <2>1, <2>2 DEF Types, input, disk
<1>9. CASE CollectBlock
  <2>1. /\ Loop("collect")
        /\ list' = list \o Sorted(DOMAIN File \cap Interval(job)) /\ i' = i + 1
        /\ UNCHANGED <<running, input, disk, clock, job, sz, found, stamp, flags, owed>>
    BY <1>9 DEF CollectBlock, Advance
  <2>2. DOMAIN File \cap Interval(job) \in SUBSET Hash
    BY DEF Interval
  <2>3. list' \in Seq(Hash)
    BY <2>1, <2>2, SortedKeys, ConcatProperties DEF Types
  <2> QED
    BY <2>1, <2>3 DEF Types, input, disk
<1>10. CASE RemoveBlock
  <2>1. Len(hl') = Len(hl) /\ flags' \subseteq Slot
    BY <1>10, RemoveEffect
  <2>2. i' = i + 1
        /\ UNCHANGED <<running, input, latest, clock, job, sz, found, list, stamp, owed>>
    BY <1>10 DEF RemoveBlock, Advance
  <2> QED
    BY <2>1, <2>2 DEF Types, input
<1>11. CASE NextReceived
  <2>1. list' \in Seq(Hash)
    BY <1>11, HeadTailProperties DEF NextReceived, Types
  <2>2. Len(hl) \in Nat
    BY LenProperties DEF Tiles
  <2>3. i' = 1 /\ sz' = Len(hl)
        /\ UNCHANGED <<running, input, disk, clock, job, found, stamp, flags, owed>>
    BY <1>11 DEF NextReceived
  <2> QED
    BY <2>1, <2>2, <2>3 DEF Types, input, disk
<1>12. CASE Finish
  <2>1. owed' \in [MoveId -> Nat]
    <3>1. CASE job.op = "collect"
      <4>1. job.id \in MoveId
        BY <3>1, JobKinds DEF CollectRequest
      <4>2. owed' = [owed EXCEPT ![job.id] = @ + 1]
        BY <1>12, <3>1 DEF Finish
      <4> QED
        BY <4>1, <4>2 DEF Types
    <3>2. CASE job.op # "collect"
      BY <1>12, <3>2 DEF Finish, Types
    <3> QED
      BY <3>1, <3>2
  <2>2. latest' \in [Hash -> 0 .. MaxJobs]
    BY <1>12 DEF Finish, Types
  <2>3. i' = 0
        /\ UNCHANGED <<running, input, hl, clock, job, sz, found, list, stamp, flags>>
    BY <1>12 DEF Finish
  <2> QED
    BY <2>1, <2>2, <2>3 DEF Types, input
<1>13. ASSUME NEW op \in Kinds, Skip(op)
       PROVE  Types'
  <2>1. i' = i + 1
        /\ UNCHANGED <<running, input, disk, clock, job, sz, found, list, stamp, flags, owed>>
    BY <1>13 DEF Skip, Advance
  <2> QED
    BY <2>1 DEF Types, input, disk
<1>14. ASSUME NEW op \in Kinds, OpenFails(op)
       PROVE  Types'
  <2>1. /\ i' \in {0, sz + 1} /\ running' = (op # "receive")
        /\ found' = (op = "get" \/ found)
        /\ UNCHANGED <<input, disk, clock, job, sz, list, stamp, flags, owed>>
    BY <1>14 DEF OpenFails, Break
  <2>2. running' \in BOOLEAN /\ found' \in BOOLEAN
    BY <2>1 DEF Types
  <2> QED
    BY <2>1, <2>2 DEF Types, input, disk
<1> QED
  BY <1>1, <1>2, <1>3, <1>4, <1>5, <1>6, <1>7, <1>8, <1>9, <1>10, <1>11, <1>12,
     <1>13, <1>14 DEF Next, DataThread

\* The list does not grow under a walk that stores nothing.
LEMMA WholeStep ==
  ASSUME Types, Tiles, Whole, [Next]_vars
  PROVE  Whole'
<1>1. CASE UNCHANGED <<local, hl>>
  BY <1>1 DEF Whole, Idle, local
<1>2. CASE UNCHANGED vars
  BY <1>1, <1>2 DEF vars, disk
<1>3. ASSUME NEW h \in Hash, put(h) \/ get(h) PROVE Whole'
  BY <1>1, <1>3 DEF put, get, Push, disk
<1>4. ASSUME NEW m \in MoveId, NEW b \in Hash, NEW e \in Hash,
             NEW r \in BOOLEAN, getMoveData(m, b, e, r)
      PROVE  Whole'
  BY <1>1, <1>4 DEF getMoveData, Push, disk
<1>5. ASSUME NEW S \in Arriving, recvMoveData(S) PROVE Whole'
  BY <1>1, <1>5 DEF recvMoveData, Push, disk
<1>6. ASSUME NEW m \in MoveId, moveDataReturn(m) PROVE Whole'
  BY <1>1, <1>6 DEF moveDataReturn, disk
<1>7. CASE Pop
  BY <1>7 DEF Pop, Whole, disk
<1>8. CASE PutBlock \/ ReceiveBlock
  <2>1. job' = job /\ job.op \in {"put", "receive"}
    BY <1>8 DEF PutBlock, ReceiveBlock, Loop
  <2> QED
    BY <2>1 DEF Whole
<1>9. CASE GetBlock \/ CollectBlock
  <2>1. UNCHANGED <<hl, job, sz>> /\ ~Idle
    BY <1>9 DEF GetBlock, CollectBlock, Loop, Idle, disk
  <2> QED
    BY <2>1 DEF Whole
<1>10. CASE RemoveBlock
  <2>1. Len(hl') = Len(hl) /\ UNCHANGED <<job, sz>> /\ ~Idle
    BY <1>10, RemoveEffect DEF RemoveBlock, Loop, Idle
  <2> QED
    BY <2>1 DEF Whole
<1>11. CASE NextReceived
  BY <1>11 DEF NextReceived, Whole
<1>12. CASE Finish
  BY <1>12 DEF Finish, Whole, Idle
<1>13. ASSUME NEW op \in Kinds, Skip(op) \/ OpenFails(op)
       PROVE  Whole'
  <2>1. UNCHANGED <<hl, job, sz>> /\ ~Idle
    BY <1>13 DEF Skip, OpenFails, Loop, Idle, disk
  <2> QED
    BY <2>1 DEF Whole
<1> QED
  BY <1>2, <1>3, <1>4, <1>5, <1>6, <1>7, <1>8, <1>9, <1>10, <1>11, <1>12, <1>13
     DEF Next, DataThread

\* The record of a migration with hashes stays while it is under way.
LEMMA RecordedStep ==
  ASSUME Types, Recorded, [Next]_vars
  PROVE  Recorded'
<1>1. CASE UNCHANGED <<input, job, owed>>
  BY <1>1 DEF Recorded, Kept, Interval, input
<1>2. CASE UNCHANGED vars
  BY <1>1, <1>2 DEF vars, local
<1>3. ASSUME NEW q \in Request, q.op \notin {"collect", "remove"}, Push(<<q>>),
             UNCHANGED <<moves, wanted, owed>>
      PROVE  Recorded'
  <2> DEFINE jobs == <<q>>
  <2>1. jobs \in Seq(Request) /\ 1 .. Len(jobs) = {1} /\ jobs[1] = q /\ Push(jobs)
    BY <1>3
  <2> HIDE DEF jobs
  <2>2. \A n \in DOMAIN que' : (n \in DOMAIN que /\ que'[n] = que[n]) \/ que'[n] = q
    BY <2>1, PushTypes
  <2>3. job' = job
    BY <1>3 DEF Push, local
  <2> QED
    BY <1>3, <2>2, <2>3 DEF Recorded, Kept, Interval
<1>4. ASSUME NEW h \in Hash, put(h)
      PROVE  Recorded'
  <2> DEFINE q == [op |-> "put", key |-> h, value |-> pushed + 1]
  <2>1. Push(<<q>>) /\ UNCHANGED <<moves, wanted, owed>> /\ pushed < MaxJobs
    BY <1>4 DEF put, Push
  <2>2. q \in Request /\ q.op = "put"
    BY <2>1, SizeAssumption DEF Types, Request, Usual, PutRequest
  <2> QED
    BY <1>3, <2>1, <2>2
<1>5. ASSUME NEW h \in Hash, get(h)
      PROVE  Recorded'
  <2> DEFINE q == [op |-> "get", key |-> h]
  <2>1. Push(<<q>>) /\ UNCHANGED <<moves, wanted, owed>>
    BY <1>5 DEF get
  <2>2. q \in Request /\ q.op = "get"
    BY DEF Request, Usual, GetRequest
  <2> QED
    BY <1>3, <2>1, <2>2
<1>6. ASSUME NEW S \in Arriving, recvMoveData(S)
      PROVE  Recorded'
  <2> DEFINE q == [op |-> "receive", keys |-> Sorted(S), value |-> pushed + 1]
  <2>1. Push(<<q>>) /\ UNCHANGED <<moves, wanted, owed>> /\ pushed < MaxJobs
    BY <1>6 DEF recvMoveData, Push
  <2>2. Sorted(S) \in Seq(Hash)
    BY SizeAssumption, SortedKeys
  <2>3. q \in Request /\ q.op = "receive"
    BY <2>1, <2>2, SizeAssumption DEF Types, Request, Usual, ReceiveRequest
  <2> QED
    BY <1>3, <2>1, <2>3
<1>7. ASSUME NEW m \in MoveId, NEW b \in Hash, NEW e \in Hash,
             NEW r \in BOOLEAN, getMoveData(m, b, e, r)
      PROVE  Recorded'
  <2>1. /\ \A n \in DOMAIN que' :
              (n \in DOMAIN que /\ que'[n] = que[n]) \/ que'[n].id = m
        /\ wanted[m] = {} /\ Interval(moves'[m]) \subseteq wanted'[m]
        /\ \A k \in MoveId \ {m} : moves'[k] = moves[k] /\ wanted'[k] = wanted[k]
        /\ job' = job /\ owed' = owed
    BY <1>7, MoveRequested DEF local
  <2>2. Kept(m)'
    BY <2>1 DEF Kept, Interval
  <2>3. \A k \in MoveId \ {m} : Kept(k) => Kept(k)'
    BY <2>1 DEF Kept, Interval
  <2>4. \A n \in DOMAIN que : que[n].op \in {"collect", "remove"} => que[n].id \in MoveId
    <3> SUFFICES ASSUME NEW n \in DOMAIN que, que[n].op \in {"collect", "remove"}
                 PROVE  que[n].id \in MoveId
      OBVIOUS
    <3>1. que[n] \in Request
      BY LenProperties, ElementOfSeq DEF Types
    <3> QED
      BY <3>1 DEF Request, Usual, PutRequest, GetRequest, CollectRequest,
                  ReceiveRequest, RemoveRequest
  <2>5. job.op = "collect" => job.id \in MoveId
    BY JobKinds DEF CollectRequest
  <2>6. job.op = "remove" => job.id \in MoveId
    BY JobKinds DEF RemoveJob
  <2>7. ASSUME NEW n \in DOMAIN que', que'[n].op \in {"collect", "remove"},
               NEW k, k = que'[n].id
        PROVE  Kept(k)'
    <3>1. CASE k = m
      BY <2>2, <3>1
    <3>2. CASE k # m
      <4>1. n \in DOMAIN que /\ que'[n] = que[n]
        BY <2>1, <2>7, <3>2
      <4> QED
        BY <2>3, <2>4, <2>7, <3>2, <4>1 DEF Recorded
    <3> QED
      BY <3>1, <3>2
  <2>8. ASSUME NEW k, job'.op = "collect", k = job'.id
        PROVE  Kept(k)'
    BY <2>1, <2>2, <2>3, <2>5, <2>8 DEF Recorded
  <2>9. \A k \in MoveId : owed'[k] > 0 => Kept(k)'
    BY <2>1, <2>2, <2>3 DEF Recorded
  <2>10. job'.op = "remove" => wanted'[job'.id] # {} \/ Interval(job') = {}
    BY <2>1, <2>6 DEF Recorded
  <2> QED
    BY <2>7, <2>8, <2>9, <2>10 DEF Recorded, Kept
<1>8. ASSUME NEW m \in MoveId, moveDataReturn(m)
      PROVE  Recorded'
  <2> DEFINE q == [op |-> "remove", id |-> m]
  <2>1. /\ que' = Append(que, q) /\ owed[m] > 0
        /\ owed' = [owed EXCEPT ![m] = @ - 1]
        /\ UNCHANGED <<moves, wanted, job>>
    BY <1>8 DEF moveDataReturn, local
  <2>2. q \in Request /\ q.id = m
    BY DEF Request, RemoveRequest
  <2> HIDE DEF q
  <2>3. \A n \in DOMAIN que' : (n \in DOMAIN que /\ que'[n] = que[n]) \/ que'[n] = q
    <3>1. que' \in Seq(Request) /\ Len(que') = Len(que) + 1
      BY <2>1, <2>2, AppendProperties DEF Types
    <3>2. \A n \in 1 .. Len(que) : que'[n] = que[n]
      BY <2>1, <2>2, AppendProperties DEF Types
    <3>3. que'[Len(que) + 1] = q
      BY <2>1, <2>2, AppendProperties DEF Types
    <3>4. /\ DOMAIN que = 1 .. Len(que) /\ Len(que) \in Nat
          /\ DOMAIN que' = 1 .. Len(que) + 1
      BY <3>1, LenProperties DEF Types
    <3> QED
      BY <3>2, <3>3, <3>4
  <2>4. Kept(m)
    BY <2>1 DEF Recorded
  <2>5. \A k \in MoveId : owed'[k] > 0 => owed[k] > 0
    BY <2>1 DEF Types
  <2> QED
    BY <2>1, <2>2, <2>3, <2>4, <2>5 DEF Recorded, Kept, Interval
<1>9. CASE Pop
  <2> DEFINE q == Head(que)
  <2>1. /\ que # << >> /\ que' = Tail(que)
        /\ UNCHANGED <<moves, wanted, owed>>
    BY <1>9 DEF Pop
  <2>2. /\ q.op = "remove" =>
             job' = [op |-> "remove", id |-> q.id,
                     begin |-> moves[q.id].begin, end |-> moves[q.id].end]
        /\ q.op # "remove" => job' = q
    BY <1>9 DEF Pop
  <2>3. /\ \A n \in DOMAIN que' : n + 1 \in DOMAIN que /\ que'[n] = que[n + 1]
        /\ 1 \in DOMAIN que /\ q = que[1]
    <3>1. /\ que' \in Seq(Request) /\ Len(que') = Len(que) - 1
          /\ \A n \in 1 .. Len(que') : que'[n] = que[n + 1]
      BY <2>1, HeadTailProperties DEF Types
    <3>2. /\ DOMAIN que = 1 .. Len(que) /\ Len(que) \in Nat
          /\ DOMAIN que' = 1 .. Len(que')
      BY <3>1, LenProperties DEF Types
    <3>3. Len(que) >= 1
      BY <2>1, EmptySeq DEF Types
    <3> QED
      BY <3>1, <3>2, <3>3
  <2> HIDE DEF q
  <2>4. q.op \in {"collect", "remove"} => Kept(q.id)
    BY <2>3 DEF Recorded
  <2>5. \A n \in DOMAIN que' :
          que'[n].op \in {"collect", "remove"} => Kept(que'[n].id)
    BY <2>3 DEF Recorded
  <2>6. job'.op = "collect" => Kept(job'.id)
    BY <2>2, <2>4
  <2>7. job'.op = "remove" => wanted[job'.id] # {} \/ Interval(job') = {}
    <3>1. CASE q.op = "remove"
      BY <2>2, <2>4, <3>1 DEF Kept, Interval
    <3>2. CASE q.op # "remove"
      BY <2>2, <3>2
    <3> QED
      BY <3>1, <3>2
  <2> QED
    BY <2>1, <2>5, <2>6, <2>7 DEF Recorded, Kept, Interval
<1>10. CASE Finish
  <2>1. UNCHANGED <<que, moves, wanted, job>>
    BY <1>10 DEF Finish, input
  <2>2. \A m \in MoveId : owed'[m] > 0 => Kept(m)
    <3>1. CASE job.op = "collect"
      <4>1. owed' = [owed EXCEPT ![job.id] = @ + 1] /\ Kept(job.id)
        BY <1>10, <3>1 DEF Finish, Recorded
      <4>2. \A m \in MoveId : m # job.id => owed'[m] = owed[m]
        BY <4>1 DEF Types
      <4> QED
        BY <4>1, <4>2 DEF Recorded
    <3>2. CASE job.op # "collect"
      BY <1>10, <3>2 DEF Finish, Recorded
    <3> QED
      BY <3>1, <3>2
  <2> QED
    BY <2>1, <2>2 DEF Recorded, Kept, Interval
<1>11. CASE PutBlock \/ GetBlock \/ CollectBlock \/ ReceiveBlock \/ RemoveBlock \/ NextReceived
  BY <1>1, <1>11
     DEF PutBlock, GetBlock, CollectBlock, ReceiveBlock, RemoveBlock, NextReceived
<1>12. ASSUME NEW op \in Kinds, Skip(op) \/ OpenFails(op)
       PROVE  Recorded'
  BY <1>1, <1>12 DEF Skip, OpenFails
<1> QED
  BY <1>2, <1>4, <1>5, <1>6, <1>7, <1>8, <1>9, <1>10, <1>11, <1>12 DEF Next, DataThread

\* A block that does not meet a range has no hash of it.
LEMMA NoMeeting ==
  ASSUME NEW b \in BlockEntry, NEW p, p.begin \in Hash, p.end \in Hash,
         ~Meets(b, p.begin, p.end)
  PROVE  Interval(b) \cap Interval(p) = {}
<1>1. b.begin \in Int /\ b.end \in Int /\ p.begin \in Int /\ p.end \in Int
      /\ Hash \subseteq Int
  BY SizeAssumption DEF BlockEntry, Hash
<1> SUFFICES ASSUME NEW h \in Hash, b.begin <= h, h <= b.end, p.begin <= h, h <= p.end
             PROVE  FALSE
  BY DEF Interval
<1> QED
  BY <1>1 DEF Meets

\* Nothing is scanned by a request of another kind.
LEMMA OtherKinds ==
  ASSUME job'.op \notin {"collect", "remove"}
  PROVE  Scanned'
  BY DEF Scanned

\* Behind the walk of a collect nothing of its range is missing, behind
\* that of a remove nothing is left, unless a file failed.
LEMMA ScannedStep ==
  ASSUME Types, Tiles, Whole, Recorded, Scanned, [Next]_vars
  PROVE  Scanned'
<1>1. CASE UNCHANGED <<moves, hl, files, i, job, list, failed>>
  BY <1>1 DEF Scanned, Held, Idle
<1>2. CASE UNCHANGED vars
  BY <1>1, <1>2 DEF vars, input, disk, local, traffic
<1>3. ASSUME NEW h \in Hash, put(h) \/ get(h) PROVE Scanned'
  BY <1>1, <1>3 DEF put, get, Push, disk, local, traffic
<1>4. ASSUME NEW m \in MoveId, NEW b \in Hash, NEW e \in Hash,
             NEW r \in BOOLEAN, getMoveData(m, b, e, r)
      PROVE  Scanned'
  <2>1. /\ UNCHANGED <<hl, files, i, job, list, failed>> /\ wanted[m] = {}
        /\ \A k \in MoveId \ {m} : moves'[k] = moves[k]
    BY <1>4, MoveRequested DEF disk, local, traffic
  <2>2. CASE job.op = "remove"
    <3>1. job.id \in MoveId
      BY <2>2, JobKinds DEF RemoveJob
    <3>2. CASE job.id = m
      <4>1. Interval(job) = {}
        BY <2>1, <2>2, <3>2 DEF Recorded
      <4> QED
        BY <2>1, <2>2, <4>1 DEF Scanned
    <3>3. CASE job.id # m
      BY <2>1, <2>2, <3>1, <3>3 DEF Scanned, Held, Idle
    <3> QED
      BY <3>2, <3>3
  <2>3. CASE job.op # "remove"
    BY <2>1, <2>3 DEF Scanned, Held, Idle
  <2> QED
    BY <2>2, <2>3
<1>5. ASSUME NEW S \in Arriving, recvMoveData(S) PROVE Scanned'
  BY <1>1, <1>5 DEF recvMoveData, Push, disk, local, traffic
<1>6. ASSUME NEW m \in MoveId, moveDataReturn(m) PROVE Scanned'
  BY <1>1, <1>6 DEF moveDataReturn, disk, local, traffic
<1>7. CASE Pop
  <2>1. DOMAIN hl = 1 .. Len(hl) /\ hl' = hl /\ moves' = moves
    BY <1>7, LenProperties DEF Tiles, Pop, disk
  <2>2. CASE i' = 1
    BY <2>1, <2>2 DEF Scanned, Idle
  <2>3. CASE i' # 1
    <3>1. job'.op = "remove" /\ ~moves[job'.id].remove /\ Idle'
      BY <1>7, <2>3 DEF Pop, Idle
    <3> QED
      BY <2>1, <3>1 DEF Scanned
  <2> QED
    BY <2>2, <2>3
<1>8. CASE PutBlock \/ GetBlock \/ ReceiveBlock \/ NextReceived
  <2>1. job' = job /\ job.op \in {"put", "get", "receive"}
    BY <1>8 DEF PutBlock, GetBlock, ReceiveBlock, NextReceived, Loop
  <2> QED
    BY <2>1, OtherKinds
<1>9. CASE CollectBlock
  <2> DEFINE here == DOMAIN File \cap Interval(job)
  <2>1. /\ i \in DOMAIN hl /\ ~Idle /\ job.op = "collect" /\ File = Held(i)
        /\ DOMAIN hl = 1 .. Len(hl)
    BY <1>9, AtBlock, LenProperties DEF CollectBlock, Tiles
  <2>2. list' = list \o Sorted(here) /\ i' = i + 1
        /\ UNCHANGED <<hl, files, job, failed>>
    BY <1>9 DEF CollectBlock, Advance, disk
  <2>3. Sorted(here) \in Seq(Hash) /\ here = {Sorted(here)[k] : k \in DOMAIN Sorted(here)}
    <3>1. here \in SUBSET Hash
      BY DEF Interval
    <3> HIDE DEF here
    <3> QED
      BY <3>1, SortedKeys
  <2> HIDE DEF here
  <2>4. {list'[k] : k \in DOMAIN list'} = {list[k] : k \in DOMAIN list} \cup here
    <3>1. /\ Len(list') = Len(list) + Len(Sorted(here)) /\ list' \in Seq(Hash)
          /\ \A k \in 1 .. Len(list) + Len(Sorted(here)) :
               list'[k] = IF k <= Len(list) THEN list[k]
                                           ELSE Sorted(here)[k - Len(list)]
      BY <2>2, <2>3, ConcatProperties DEF Types
    <3>2. /\ DOMAIN list = 1 .. Len(list) /\ Len(list) \in Nat
          /\ DOMAIN Sorted(here) = 1 .. Len(Sorted(here)) /\ Len(Sorted(here)) \in Nat
          /\ DOMAIN list' = 1 .. Len(list')
      BY <2>3, <3>1, LenProperties DEF Types
    <3>3. \A k \in DOMAIN list : k \in DOMAIN list' /\ list'[k] = list[k]
      BY <3>1, <3>2
    <3>4. ASSUME NEW k \in DOMAIN Sorted(here)
          PROVE  k + Len(list) \in DOMAIN list' /\ list'[k + Len(list)] = Sorted(here)[k]
      BY <3>1, <3>2
    <3>5. ASSUME NEW k \in DOMAIN list'
          PROVE  \/ k \in DOMAIN list /\ list'[k] = list[k]
                 \/ /\ k - Len(list) \in DOMAIN Sorted(here)
                    /\ list'[k] = Sorted(here)[k - Len(list)]
      BY <3>1, <3>2
    <3>6. \A h \in here : \E k \in DOMAIN list' : list'[k] = h
      BY <2>3, <3>4
    <3> QED
      BY <2>3, <3>3, <3>5, <3>6
  <2>5. ASSUME ~failed, NEW n \in DOMAIN hl, n < i + 1
        PROVE  DOMAIN Held(n) \cap Interval(job) \subseteq {list'[k] : k \in DOMAIN list'}
    <3>1. CASE n = i
      BY <2>1, <2>4, <3>1 DEF here
    <3>2. CASE n < i
      BY <2>1, <2>4, <2>5, <3>2 DEF Scanned
    <3> QED
      BY <2>1, <2>5, <3>1, <3>2
  <2> QED
    BY <2>1, <2>2, <2>5 DEF Scanned, Held, Idle
<1>10. CASE RemoveBlock
  <2>1. /\ i \in DOMAIN hl /\ ~Idle /\ job.op = "remove"
        /\ DOMAIN hl = 1 .. Len(hl) /\ Len(hl) \in Nat
    BY <1>10, AtBlock, LenProperties DEF RemoveBlock, Tiles
  <2>2. i' = i + 1 /\ UNCHANGED <<job, failed>>
    BY <1>10 DEF RemoveBlock, Advance
  <2>3. /\ Tiles' /\ Len(hl') = Len(hl)
        /\ \A n \in DOMAIN hl : n # i => Held(n)' = Held(n)
        /\ DOMAIN files'[Span(hl'[i])] \cap Interval(job) = {}
    BY <1>10, RemoveEffect
  <2>4. DOMAIN hl' = DOMAIN hl
    BY <2>1, <2>3, LenProperties DEF Tiles
  <2>5. ASSUME ~failed, NEW n \in DOMAIN hl, n < i + 1
        PROVE  DOMAIN Held(n)' \cap Interval(job) = {}
    <3>1. CASE n = i
      BY <2>3, <3>1 DEF Held
    <3>2. CASE n < i
      BY <2>1, <2>3, <2>5, <3>2 DEF Scanned
    <3> QED
      BY <2>1, <2>5, <3>1, <3>2
  <2> QED
    BY <2>1, <2>2, <2>4, <2>5 DEF Scanned, Idle
<1>11. CASE Finish
  <2>1. /\ ~Idle /\ i' = 0
        /\ UNCHANGED <<moves, hl, files, job, list, failed>>
    BY <1>11 DEF Finish, input, traffic
  <2>2. CASE job.op \in {"collect", "remove"}
    <3>1. i > sz /\ sz = Len(hl)
      BY <1>11, <2>1, <2>2 DEF Finish, Whole
    <3>2. \A n \in DOMAIN hl : n < i
      BY <3>1, LenProperties DEF Tiles, Types
    <3> QED
      BY <2>1, <3>2 DEF Scanned, Held, Idle
  <2>3. CASE job.op \notin {"collect", "remove"}
    BY <2>1, <2>3, OtherKinds
  <2> QED
    BY <2>2, <2>3
<1>12. ASSUME NEW op \in Kinds, Skip(op)
       PROVE  Scanned'
  <2>1. /\ i \in DOMAIN hl /\ ~Idle /\ job.op = op /\ Block \in BlockEntry
        /\ DOMAIN Held(i) \subseteq Interval(Block)
        /\ DOMAIN hl = 1 .. Len(hl)
    BY <1>12, AtBlock, LenProperties DEF Skip, Tiles
  <2>2. i' = i + 1 /\ UNCHANGED <<hl, files, job, list, failed>>
    BY <1>12 DEF Skip, Advance, disk, traffic
  <2>3. CASE op \in {"collect", "remove"}
    <3>1. ~Meets(Block, job.begin, job.end)
      BY <1>12, <2>3 DEF Skip
    <3>2. job.begin \in Hash /\ job.end \in Hash
      BY <2>1, <2>3, JobKinds DEF CollectRequest, RemoveJob
    <3>3. DOMAIN Held(i) \cap Interval(job) = {}
      BY <2>1, <3>1, <3>2, NoMeeting
    <3>4. \A n \in DOMAIN hl : n < i + 1 => n < i \/ n = i
      BY <2>1
    <3> QED
      BY <2>1, <2>2, <3>3, <3>4 DEF Scanned, Held, Idle
  <2>4. CASE op \notin {"collect", "remove"}
    BY <2>1, <2>2, <2>4, OtherKinds
  <2> QED
    BY <2>3, <2>4
<1>13. ASSUME NEW op \in Kinds, OpenFails(op)
       PROVE  Scanned'
  BY <1>13 DEF OpenFails, Scanned
<1> QED
  BY <1>2, <1>3, <1>4, <1>5, <1>6, <1>7, <1>8, <1>9, <1>10, <1>11, <1>12, <1>13
     DEF Next, DataThread

\* At first one empty block holds all hashes.
LEMMA InitTiles ==
  ASSUME Init
  PROVE  Tiles
<1> DEFINE b == [begin |-> 0, end |-> HashMax, cnt |-> 0]
<1>1. hl = <<b>> /\ files = [s \in {<<0, HashMax>>} |-> << >>]
  BY DEF Init
<1>2. b \in BlockEntry /\ b.begin = 0 /\ b.end = HashMax /\ b.cnt = 0
  BY SizeAssumption DEF BlockEntry, Hash
<1> HIDE DEF b
<1>3. hl \in Seq(BlockEntry) /\ DOMAIN hl = {1} /\ Len(hl) = 1 /\ hl[1] = b
  BY <1>1, <1>2
<1>4. Span(hl[1]) = <<0, HashMax>>
  BY <1>2, <1>3 DEF Span
<1>5. DOMAIN files = {Span(hl[1])} /\ DOMAIN files[Span(hl[1])] = {}
  BY <1>1, <1>4
<1>6. \A h \in Hash : Covers(hl[1], h)
  BY <1>2, <1>3, SizeAssumption DEF Covers, Hash
<1>7. BlocksTile
  BY <1>2, <1>3, <1>5, <1>6, FS_EmptySet DEF BlocksTile
<1> QED
  BY <1>2, <1>3, <1>7, SizeAssumption DEF Tiles

\* One block for all hashes, an empty queue, a walk that is over.
LEMMA InitInv ==
  ASSUME Init
  PROVE  Inv
<1>1. Tiles
  BY InitTiles
<1>2. Types
  <2>1. << >> \in Seq(Request) /\ << >> \in Seq(Hash)
    OBVIOUS
  <2>2. NoMove \in [begin : Hash, end : Hash, remove : BOOLEAN]
    BY SizeAssumption DEF NoMove, Hash
  <2>3. Len(hl) \in Nat
    BY <1>1, LenProperties DEF Tiles
  <2>4. /\ moves \in [MoveId -> [begin : Hash, end : Hash, remove : BOOLEAN]]
        /\ owed \in [MoveId -> Nat] /\ latest \in [Hash -> 0 .. MaxJobs]
        /\ wanted \in [MoveId -> SUBSET Hash]
    BY <2>2, SizeAssumption DEF Init
  <2>5. job \in Job /\ running \in BOOLEAN /\ found \in BOOLEAN
    BY DEF Init, Job
  <2>6. pushed \in 0 .. MaxJobs /\ sz \in 0 .. Len(hl) /\ flags \subseteq Slot
    BY <2>3, SizeAssumption DEF Init
  <2> QED
    BY <2>1, <2>4, <2>5, <2>6 DEF Types, Init
<1>3. Whole /\ Recorded /\ Scanned
  <2>1. job.op = "start" /\ que = << >> /\ i = 0 /\ \A m \in MoveId : owed[m] = 0
    BY DEF Init, Start
  <2> QED
    BY <2>1 DEF Whole, Recorded, Scanned, Idle
<1> QED
  BY <1>1, <1>2, <1>3 DEF Inv

\* No step of the data thread or of a handler breaks a part of it.
LEMMA StepInv ==
  ASSUME Inv, [Next]_vars
  PROVE  Inv'
BY TilesStep, TypesStep, WholeStep, RecordedStep, ScannedStep DEF Inv

\* The invariant holds throughout.
THEOREM StoreInvariant == Spec => []Inv
<1>1. Init => Inv
  BY InitInv
<1>2. Inv /\ [Next]_vars => Inv'
  BY StepInv
<1> QED
  BY <1>1, <1>2, PTL DEF Spec

\* The state is made of the values that the C++ types allow, with no block
\* counting more records than it may hold.
THEOREM TypeCorrect == Spec => []TypeOK
<1>1. Inv => TypeOK
  BY TilesTyped DEF Inv, Types, TypeOK
<1> QED
  BY <1>1, StoreInvariant, PTL

\* Through splits, removals and files that fail, the blocks cover every hash,
\* overlap only where they were cut, and count their records exactly.
THEOREM BlocksTileCorrect == Spec => []BlocksTile
<1>1. Inv => BlocksTile
  BY DEF Inv, Tiles
<1> QED
  BY <1>1, StoreInvariant, PTL

\* A collect gathers all of its range and a remove clears all of it, unless a
\* block file does not open.
THEOREM RangeCompleteCorrect == Spec => []RangeComplete
<1>1. Inv => RangeComplete
  BY DEF Inv, Scanned, RangeComplete, Held
<1> QED
  BY <1>1, StoreInvariant, PTL

-----------------------------------------------------------------------------
(* Puts and gets without migrations.                                       *)

\* The requests are puts and gets, and no migration waits for an answer.
Plain ==
  /\ que \in Seq(PutRequest \cup GetRequest)
  /\ job \in PutRequest \cup GetRequest \cup {Start}
  /\ \A m \in MoveId : owed[m] = 0

\* The time stamps of the copies are times that run() has read.
Stamped ==
  /\ stamp = clock
  /\ \A h \in Hash : \A c \in Copies(h) : c.timestamp \in Int /\ c.timestamp <= clock

\* Value v was stored under h last: it is in a copy, at the newest time.
HasNewest(h, v) ==
  /\ v = 0 <=> Copies(h) = {}
  /\ \E t \in Int :
       /\ \A c \in Copies(h) : c.timestamp <= t /\ (c.timestamp = t => c.value = v)
       /\ Copies(h) # {} => \E c \in Copies(h) : c.timestamp = t
Newest == \A h \in Hash : HasNewest(h, latest[h])

\* While a put runs, the copies that are not older are those it has stored.
PutStored ==
  ~Idle /\ job.op = "put" =>
    \A c \in Copies(job.key) :
      c.timestamp < stamp \/ (c.timestamp = stamp /\ c.value = job.value)

FreshInv == Plain /\ Stamped /\ Newest /\ PutStored

\* The steps that are left without migrations.
LEMMA PlainCases ==
  ASSUME Jobs \subseteq {"put", "get"}, Types, Plain, [Next]_vars
  PROVE  \/ /\ UNCHANGED <<running, disk, clock, local, out, owed, traffic>>
            /\ \/ que' = que
               \/ \E q \in PutRequest \cup GetRequest : que' = que \o <<q>>
         \/ Pop \/ PutBlock \/ GetBlock \/ Finish
         \/ \E op \in {"put", "get"} : Skip(op) \/ OpenFails(op)
<1>1. job.op \notin {"collect", "receive", "remove"}
  BY DEF Plain, PutRequest, GetRequest, Start
<1>2. CASE UNCHANGED vars
  BY <1>2 DEF vars, input
<1>3. ASSUME NEW h \in Hash, put(h)
      PROVE  /\ UNCHANGED <<running, disk, clock, local, out, owed, traffic>>
             /\ \E q \in PutRequest \cup GetRequest : que' = que \o <<q>>
  <2> DEFINE q == [op |-> "put", key |-> h, value |-> pushed + 1]
  <2>1. /\ que' = que \o <<q>> /\ pushed < MaxJobs
        /\ UNCHANGED <<running, disk, clock, local, out, owed, traffic>>
    BY <1>3 DEF put, Push
  <2>2. q \in PutRequest
    BY <2>1, SizeAssumption DEF Types, PutRequest
  <2> QED
    BY <2>1, <2>2
<1>4. ASSUME NEW h \in Hash, get(h)
      PROVE  /\ UNCHANGED <<running, disk, clock, local, out, owed, traffic>>
             /\ \E q \in PutRequest \cup GetRequest : que' = que \o <<q>>
  <2> DEFINE q == [op |-> "get", key |-> h]
  <2>1. /\ que' = que \o <<q>>
        /\ UNCHANGED <<running, disk, clock, local, out, owed, traffic>>
    BY <1>4 DEF get, Push
  <2>2. q \in GetRequest
    BY DEF GetRequest
  <2> QED
    BY <2>1, <2>2
<1>5. ASSUME NEW m \in MoveId, NEW b \in Hash, NEW e \in Hash,
             NEW r \in BOOLEAN, getMoveData(m, b, e, r)
      PROVE  FALSE
  BY <1>5 DEF getMoveData
<1>6. ASSUME NEW S \in Arriving, recvMoveData(S) PROVE FALSE
  BY <1>6 DEF recvMoveData
<1>7. ASSUME NEW m \in MoveId, moveDataReturn(m) PROVE FALSE
  BY <1>7 DEF moveDataReturn, Plain
<1>8. CASE CollectBlock \/ ReceiveBlock \/ RemoveBlock \/ NextReceived
  BY <1>1, <1>8 DEF CollectBlock, ReceiveBlock, RemoveBlock, NextReceived, Loop
<1>9. ASSUME NEW op \in Kinds, Skip(op) \/ OpenFails(op)
      PROVE  op \in {"put", "get"}
  BY <1>1, <1>9 DEF Skip, OpenFails, Loop, Kinds
<1> QED
  BY <1>2, <1>3, <1>4, <1>5, <1>6, <1>7, <1>8, <1>9 DEF Next, DataThread

\* Puts and gets queue puts and gets only.
LEMMA PlainStep ==
  ASSUME Jobs \subseteq {"put", "get"}, Types, Plain, [Next]_vars
  PROVE  Plain'
<1> DEFINE Simple == PutRequest \cup GetRequest
<1>1. que \in Seq(Simple)
  BY DEF Plain
<1> HIDE DEF Simple
<1>2. CASE UNCHANGED <<que, job, owed>>
  BY <1>2 DEF Plain
<1>3. ASSUME NEW q \in Simple, que' = que \o <<q>>, UNCHANGED <<job, owed>>
      PROVE  Plain'
  <2>1. <<q>> \in Seq(Simple)
    BY <1>3
  <2>2. que' \in Seq(Simple)
    BY <1>1, <1>3, <2>1, ConcatProperties
  <2> QED
    BY <1>3, <2>2 DEF Plain, Simple
<1>4. CASE Pop
  <2>1. /\ que # << >> /\ que' = Tail(que) /\ owed' = owed
        /\ Head(que).op # "remove" => job' = Head(que)
    BY <1>4 DEF Pop
  <2>2. Head(que) \in Simple /\ que' \in Seq(Simple)
    BY <1>1, <2>1, HeadTailProperties
  <2>3. Head(que).op # "remove"
    BY <2>2 DEF Simple, PutRequest, GetRequest
  <2> QED
    BY <2>1, <2>2, <2>3 DEF Plain, Simple
<1>5. CASE PutBlock \/ GetBlock
  BY <1>2, <1>5 DEF PutBlock, GetBlock, input
<1>6. CASE Finish
  <2>1. job.op # "collect"
    BY DEF Plain, PutRequest, GetRequest, Start
  <2> QED
    BY <1>2, <1>6, <2>1 DEF Finish, input
<1>7. ASSUME NEW op \in {"put", "get"}, Skip(op) \/ OpenFails(op)
      PROVE  Plain'
  BY <1>2, <1>7 DEF Skip, OpenFails, input
<1>8. CASE /\ UNCHANGED <<running, disk, clock, local, out, owed, traffic>>
           /\ \/ que' = que
              \/ \E q \in PutRequest \cup GetRequest : que' = que \o <<q>>
  BY <1>2, <1>3, <1>8 DEF local, Simple
<1> QED
  BY <1>4, <1>5, <1>6, <1>7, <1>8, PlainCases

\* Storing what a put carries makes it the newest copy of its key.
LEMMA PutFresh ==
  ASSUME Types, Tiles, FreshInv, PutBlock
  PROVE  Stamped' /\ Newest' /\ PutStored'
<1>1. /\ Loop("put") /\ Covers(Block, job.key)
      /\ Store(job.key, [value |-> job.value, timestamp |-> stamp])
      /\ UNCHANGED <<job, stamp, clock>>
  BY DEF PutBlock
<1>2. i \in 1 .. Len(hl) /\ ~Idle /\ job.op = "put"
  BY <1>1, AtBlock
<1>3. job.key \in Hash /\ job.value \in 1 .. MaxJobs /\ stamp \in Int
  BY <1>2, JobKinds DEF PutRequest, Types
<1>4. PICK h \in Hash, v \in 1 .. MaxJobs, t \in Int :
        h = job.key /\ v = job.value /\ t = stamp
  BY <1>3
<1>5. PICK content : content = [value |-> v, timestamp |-> t]
  OBVIOUS
<1>6. /\ content.value = v /\ content.timestamp = t
      /\ Covers(Block, h) /\ Store(h, content)
  BY <1>1, <1>4, <1>5
<1>7. /\ \A g \in Hash \ {h} : Copies(g)' = Copies(g)
      /\ Copies(h)' \subseteq Copies(h) \cup {content}
      /\ content \in Copies(h)'
  BY <1>2, <1>6, StoreEffect
<1>8. latest'[h] = v /\ \A g \in Hash \ {h} : latest'[g] = latest[g]
  BY <1>6 DEF Store, Types
<1>9. \A c \in Copies(h) : c.timestamp < t \/ (c.timestamp = t /\ c.value = v)
  BY <1>2, <1>4 DEF FreshInv, PutStored
<1>10. Stamped'
  <2>1. ASSUME NEW g \in Hash, NEW c \in Copies(g)'
        PROVE  c.timestamp \in Int /\ c.timestamp <= clock
    <3>1. CASE c \in Copies(g)
      BY <3>1 DEF FreshInv, Stamped
    <3>2. CASE c \notin Copies(g)
      <4>1. c = content
        BY <1>7, <2>1, <3>2
      <4> QED
        BY <1>3, <1>4, <1>6, <4>1 DEF FreshInv, Stamped
    <3> QED
      BY <3>1, <3>2
  <2> QED
    BY <1>1, <2>1 DEF FreshInv, Stamped
<1>11. \A c \in Copies(h)' : c.timestamp <= t /\ (c.timestamp = t => c.value = v)
  <2> SUFFICES ASSUME NEW c \in Copies(h)'
               PROVE  c.timestamp <= t /\ (c.timestamp = t => c.value = v)
    OBVIOUS
  <2>1. CASE c = content
    BY <1>6, <2>1
  <2>2. CASE c # content
    <3>1. c \in Copies(h) /\ c.timestamp \in Int
      BY <1>7, <2>2 DEF FreshInv, Stamped
    <3> QED
      BY <1>9, <3>1
  <2> QED
    BY <2>1, <2>2
<1>12. Newest'
  <2>1. ASSUME NEW g \in Hash
        PROVE  HasNewest(g, latest[g])'
    <3>1. CASE g = h
      <4>1. Copies(h)' # {} /\ latest'[h] = v /\ v # 0
        BY <1>7, <1>8
      <4>2. \E c \in Copies(h)' : c.timestamp = t
        BY <1>6, <1>7
      <4> QED
        BY <1>11, <3>1, <4>1, <4>2 DEF HasNewest
    <3>2. CASE g # h
      <4>1. Copies(g)' = Copies(g) /\ latest'[g] = latest[g]
        BY <1>7, <1>8, <3>2
      <4> QED
        BY <4>1 DEF FreshInv, Newest, HasNewest
    <3> QED
      BY <3>1, <3>2
  <2> QED
    BY <2>1 DEF Newest
<1>13. PutStored'
  <2>1. ASSUME NEW c \in Copies(h)'
        PROVE  c.timestamp < t \/ (c.timestamp = t /\ c.value = v)
    BY <1>6, <1>7, <1>9, <2>1
  <2>2. Copies(job.key)' = Copies(h)'
    BY <1>1, <1>4 DEF Copies
  <2> QED
    BY <1>1, <1>4, <2>1, <2>2 DEF PutStored
<1> QED
  BY <1>10, <1>12, <1>13

\* A put is newer than all before it, and a cut keeps every newest copy.
LEMMA FreshStep ==
  ASSUME Jobs \subseteq {"put", "get"}, Types, Tiles, FreshInv, [Next]_vars
  PROVE  FreshInv'
<1>1. Plain'
  BY PlainStep DEF FreshInv
<1>2. ASSUME UNCHANGED <<hl, files, latest>>
      PROVE  (\A h : Copies(h)' = Copies(h)) /\ Newest'
  <2>1. \A h : Copies(h)' = Copies(h)
    BY <1>2 DEF Copies
  <2>2. ASSUME NEW h \in Hash
        PROVE  HasNewest(h, latest[h])'
    <3>1. HasNewest(h, latest[h])
      BY DEF FreshInv, Newest
    <3> QED
      BY <1>2, <2>1, <3>1 DEF HasNewest
  <2> QED
    BY <2>1, <2>2 DEF Newest
<1>3. CASE UNCHANGED <<hl, files, latest, clock, stamp, job>> /\ (Idle' \/ ~Idle)
  <2>1. Stamped'
    BY <1>2, <1>3 DEF FreshInv, Stamped
  <2>2. Copies(job.key)' = Copies(job.key)
    BY <1>3 DEF Copies
  <2>3. PutStored'
    BY <1>3, <2>2 DEF FreshInv, PutStored
  <2> QED
    BY <1>1, <1>2, <1>3, <2>1, <2>3 DEF FreshInv
<1>4. CASE Pop
  <2>1. Head(que) \in PutRequest \cup GetRequest
    <3>1. que # << >>
      BY <1>4 DEF Pop
    <3> QED
      BY <3>1, HeadTailProperties DEF FreshInv, Plain
  <2>2. Head(que).op \notin {"receive", "remove"}
    BY <2>1 DEF PutRequest, GetRequest
  <2>3. /\ UNCHANGED <<hl, files, latest>> /\ clock' = clock + 1 /\ stamp' = clock'
        /\ job' = Head(que)
    BY <1>4, <2>2 DEF Pop, disk
  <2>4. clock \in Int
    BY DEF Types
  <2>5. Stamped'
    BY <1>2, <2>3, <2>4 DEF FreshInv, Stamped
  <2>6. ASSUME NEW h \in Hash, NEW c \in Copies(h)'
        PROVE  c.timestamp < stamp'
    <3>1. c.timestamp \in Int /\ c.timestamp <= clock
      BY <1>2, <2>3, <2>6 DEF FreshInv, Stamped
    <3> QED
      BY <2>3, <2>4, <3>1
  <2>7. PutStored'
    <3> SUFFICES ASSUME job'.op = "put", NEW c \in Copies(job.key)'
                 PROVE  c.timestamp < stamp'
      BY DEF PutStored
    <3>1. job'.key \in Hash
      BY <2>1, <2>3 DEF PutRequest, GetRequest
    <3>2. PICK h \in Hash : h = job'.key
      BY <3>1
    <3>3. c \in Copies(h)'
      BY <3>2 DEF Copies
    <3> QED
      BY <2>6, <3>3
  <2> QED
    BY <1>1, <1>2, <2>3, <2>5, <2>7 DEF FreshInv
<1>5. CASE PutBlock
  BY <1>1, <1>5, PutFresh DEF FreshInv
<1>6. CASE Finish
  <2>1. job.op # "remove"
    BY DEF FreshInv, Plain, PutRequest, GetRequest, Start
  <2> QED
    BY <1>3, <1>6, <2>1 DEF Finish, Idle
<1>7. CASE GetBlock
  BY <1>3, <1>7 DEF GetBlock, Loop, Idle, disk
<1>8. ASSUME NEW op \in {"put", "get"}, Skip(op) \/ OpenFails(op)
      PROVE  FreshInv'
  BY <1>3, <1>8 DEF Skip, OpenFails, Loop, Idle, disk
<1>9. CASE UNCHANGED <<running, disk, clock, local, out, owed, traffic>>
  BY <1>3, <1>9 DEF disk, local, Idle
<1> QED
  BY <1>4, <1>5, <1>6, <1>7, <1>8, <1>9, PlainCases DEF FreshInv

\* Nothing was put, and nothing is stored.
LEMMA InitFresh ==
  ASSUME Init
  PROVE  FreshInv
<1>1. DOMAIN hl = {1} /\ Span(hl[1]) = <<0, HashMax>>
  BY DEF Init, Span
<1>2. DOMAIN files[<<0, HashMax>>] = {}
  BY DEF Init
<1>3. \A h : Copies(h) = {}
  BY <1>1, <1>2 DEF Copies
<1>4. Plain
  <2>1. << >> \in Seq(PutRequest \cup GetRequest)
    OBVIOUS
  <2> QED
    BY <2>1 DEF Init, Plain
<1>5. Newest
  <2>1. \A h \in Hash : latest[h] = 0
    BY DEF Init
  <2>2. ASSUME NEW h \in Hash
        PROVE  HasNewest(h, latest[h])
    BY <1>3, <2>1 DEF HasNewest
  <2> QED
    BY <2>2 DEF Newest
<1> QED
  BY <1>3, <1>4, <1>5 DEF FreshInv, Stamped, PutStored, Init, Idle

\* Without migrations, whatever files fail to open and however the blocks are
\* split, the newest copy of a key is the value put last.
THEOREM NewestIsLatestCorrect ==
  ASSUME Jobs \subseteq {"put", "get"}
  PROVE  Spec => []NewestIsLatest
<1>1. Init => FreshInv
  BY InitFresh
<1>2. Inv /\ FreshInv /\ [Next]_vars => FreshInv'
  BY FreshStep DEF Inv
<1>3. FreshInv => NewestIsLatest
  <2> SUFFICES ASSUME FreshInv, NEW h \in Hash
               PROVE  /\ latest[h] = 0 <=> Copies(h) = {}
                      /\ \A c \in Copies(h) :
                           (\A d \in Copies(h) : d.timestamp <= c.timestamp)
                             => c.value = latest[h]
    BY DEF NewestIsLatest
  <2>1. HasNewest(h, latest[h])
    BY DEF FreshInv, Newest
  <2>2. PICK t \in Int :
          /\ \A c \in Copies(h) : c.timestamp <= t /\ (c.timestamp = t => c.value = latest[h])
          /\ Copies(h) # {} => \E c \in Copies(h) : c.timestamp = t
    BY <2>1 DEF HasNewest
  <2>3. \A c \in Copies(h) : c.timestamp \in Int
    BY DEF FreshInv, Stamped
  <2>4. ASSUME NEW c \in Copies(h), \A d \in Copies(h) : d.timestamp <= c.timestamp
        PROVE  c.value = latest[h]
    <3>1. PICK d \in Copies(h) : d.timestamp = t
      BY <2>2
    <3>2. t <= c.timestamp /\ c.timestamp <= t /\ c.timestamp \in Int
      BY <2>2, <2>3, <2>4, <3>1
    <3>3. c.timestamp = t
      BY <3>2
    <3> QED
      BY <2>2, <3>3
  <2> QED
    BY <2>1, <2>4 DEF HasNewest
<1> QED
  BY <1>1, <1>2, <1>3, StoreInvariant, PTL DEF Spec

IsSequence(s) == \E S : s \in Seq(S)

\* Block n has a copy of the key that the get asks for.
HasKey(n) == job.key \in DOMAIN Held(n)

\* The answers of a get so far: one for each block with its key that the loop
\* has passed, and what they amount to when it is over.
Answered ==
  job.op = "get" =>
    /\ IsSequence(out)
    /\ ~Idle =>
         /\ found <=> Len(out) > 0
         /\ Len(out) > 0 => \E n \in DOMAIN hl : n < i /\ HasKey(n)
         /\ Len(out) > 1 => \E n, k \in DOMAIN hl :
                              n # k /\ n < i /\ k < i /\ HasKey(n) /\ HasKey(k)
         /\ \A n \in DOMAIN hl : n < i /\ HasKey(n) =>
              \E k \in DOMAIN out : /\ out[k].value = Held(n)[job.key].value
                                  /\ out[k].status = 0
    /\ Idle => GetAnswers

\* Appending to a sequence of anything.
LEMMA AppendAny ==
  ASSUME NEW s, IsSequence(s), NEW e
  PROVE  /\ IsSequence(Append(s, e)) /\ Len(s) \in Nat
         /\ Len(Append(s, e)) = Len(s) + 1
         /\ DOMAIN s = 1 .. Len(s) /\ DOMAIN Append(s, e) = 1 .. Len(s) + 1
         /\ \A k \in 1 .. Len(s) : Append(s, e)[k] = s[k]
         /\ Append(s, e)[Len(s) + 1] = e
<1>1. PICK S : s \in Seq(S)
  BY DEF IsSequence
<1>2. PICK T : T = S \cup {e}
  OBVIOUS
<1>3. S \subseteq T /\ e \in T
  BY <1>2
<1>4. s \in Seq(T)
  BY <1>1, <1>3, SeqMonotonic
<1>5. Append(s, e) \in Seq(T)
  BY <1>3, <1>4, AppendProperties
<1>6. Len(Append(s, e)) = Len(s) + 1
  BY <1>3, <1>4, AppendProperties
<1>7. \A k \in 1 .. Len(s) : Append(s, e)[k] = s[k]
  BY <1>3, <1>4, AppendProperties
<1>8. Append(s, e)[Len(s) + 1] = e
  BY <1>3, <1>4, AppendProperties
<1>9. DOMAIN s = 1 .. Len(s) /\ Len(s) \in Nat
  BY <1>4, LenProperties
<1>10. DOMAIN Append(s, e) = 1 .. Len(s) + 1
  BY <1>5, <1>6, LenProperties
<1>11. IsSequence(Append(s, e))
  BY <1>5 DEF IsSequence
<1> QED
  BY <1>6, <1>7, <1>8, <1>9, <1>10, <1>11

\* A key that two blocks have is one that blocks were cut at.
LEMMA TwoAreCut ==
  ASSUME Tiles, NEW h \in Hash, NEW n \in DOMAIN hl, NEW k \in DOMAIN hl, n # k,
         h \in DOMAIN Held(n), h \in DOMAIN Held(k)
  PROVE  Cut(h)
<1> DEFINE S == {j \in DOMAIN hl : Covers(hl[j], h)}
<1>1. DOMAIN hl = 1 .. Len(hl) /\ Len(hl) \in Int /\ 1 \in Int
  BY LenProperties DEF Tiles
<1>2. IsFiniteSet(DOMAIN hl)
  BY <1>1, FS_Interval
<1>3. IsFiniteSet(S)
  BY <1>2, FS_Subset
<1>4. n \in S /\ k \in S
  BY DEF Tiles, BlocksTile, Held, Interval, Covers
<1>5. Cardinality(S) \in Nat /\ S # {} /\ ~(\E x : S = {x})
  BY <1>3, <1>4, FS_CardinalityType
<1> HIDE DEF S
<1>6. Cardinality(S) # 0 /\ Cardinality(S) # 1
  BY <1>3, <1>5, FS_EmptySet, FS_Singleton
<1>7. Cardinality(S) > 1
  BY <1>5, <1>6
<1> QED
  BY <1>7 DEF Cut, S

\* The end of a get: its answers are those that GetAnswers asks for.
LEMMA GetEnds ==
  ASSUME Types, Tiles, Whole, FreshInv, Answered, Finish, job.op = "get"
  PROVE  Answered'
<1>1. /\ ~Idle /\ i > sz /\ sz = Len(hl)
      /\ UNCHANGED <<hl, files, latest, job, found>> /\ Idle'
      /\ out' = IF found THEN out ELSE Append(out, Reply(1, job.key, Nothing))
  BY DEF Finish, Whole, Idle
<1>2. /\ IsSequence(out) /\ (found <=> Len(out) > 0) /\ Len(out) \in Nat
      /\ Len(out) > 1 => \E n, k \in DOMAIN hl :
                           n # k /\ HasKey(n) /\ HasKey(k)
      /\ Len(out) > 0 => \E n \in DOMAIN hl : HasKey(n)
  BY <1>1, AppendAny DEF Answered
<1>3. \A n \in DOMAIN hl : HasKey(n) =>
        \E k \in DOMAIN out : /\ out[k].value = Held(n)[job.key].value
                            /\ out[k].status = 0
  <2>1. \A n \in DOMAIN hl : n < i
    BY <1>1, LenProperties DEF Tiles, Types
  <2> QED
    BY <1>1, <2>1 DEF Answered
<1>4. PICK h \in Hash : h = job.key
  BY JobKinds DEF GetRequest
<1>5. HasNewest(h, latest[h])
  BY DEF FreshInv, Newest
<1>6. CASE found
  <2>1. PICK n \in DOMAIN hl : HasKey(n)
    BY <1>2, <1>6
  <2>2. Copies(h) # {}
    BY <1>4, <2>1, CopyOf DEF HasKey
  <2>3. PICK c \in Copies(h) : c.value = latest[h]
    BY <1>5, <2>2 DEF HasNewest
  <2>4. PICK k \in DOMAIN hl : h \in DOMAIN Held(k) /\ c = Held(k)[h]
    BY <2>3, CopyOf
  <2>5. \E j \in DOMAIN out : out[j].value = latest[h] /\ out[j].status = 0
    BY <1>3, <1>4, <2>3, <2>4 DEF HasKey
  <2>6. latest[h] # 0
    BY <1>5, <2>2 DEF HasNewest
  <2>7. Len(out) > 1 => Cut(h)
    BY <1>2, <1>4, TwoAreCut DEF HasKey
  <2>8. out' = out
    BY <1>1, <1>6
  <2>9. GetAnswers'
    BY <1>1, <1>4, <2>5, <2>6, <2>7, <2>8 DEF GetAnswers, Cut
  <2> QED
    BY <1>1, <1>2, <2>8, <2>9 DEF Answered
<1>7. CASE ~found
  <2> DEFINE r == Reply(1, job.key, Nothing)
  <2>1. Len(out) = 0 /\ out' = Append(out, r)
    BY <1>1, <1>2, <1>7
  <2> HIDE DEF r
  <2>2. /\ IsSequence(out') /\ Len(out') = 1 /\ DOMAIN out' = 1 .. 1
        /\ out'[1] = r /\ DOMAIN out = 1 .. 0
    <3>1. /\ IsSequence(out') /\ Len(out') = Len(out) + 1
          /\ DOMAIN out' = 1 .. Len(out) + 1 /\ DOMAIN out = 1 .. Len(out)
          /\ out'[Len(out) + 1] = r
      BY <1>2, <2>1, AppendAny
    <3>2. Len(out) + 1 = 1
      BY <2>1
    <3> QED
      BY <2>1, <3>1, <3>2
  <2>3. Copies(h) = {}
    BY <1>3, <1>4, <2>2, CopyOf DEF HasKey
  <2>4. latest[h] = 0
    BY <1>5, <2>3 DEF HasNewest
  <2>5. r.value = 0 /\ r.status = 1
    BY DEF r, Reply, Nothing
  <2>6. GetAnswers'
    BY <1>1, <1>4, <2>2, <2>4, <2>5 DEF GetAnswers
  <2> QED
    BY <1>1, <2>2, <2>6 DEF Answered
<1> QED
  BY <1>6, <1>7

\* One block of a get.
LEMMA GetGoesOn ==
  ASSUME Types, Tiles, Answered, GetBlock \/ Skip("get")
  PROVE  Answered'
<1>1. /\ Loop("get") /\ UNCHANGED <<hl, files, job>> /\ i' = i + 1
  BY DEF GetBlock, Skip, Advance, disk
<1>2. /\ i \in DOMAIN hl /\ i \in Nat /\ ~Idle /\ ~Idle' /\ job.op = "get" /\ File = Held(i)
      /\ DOMAIN hl \subseteq Nat /\ DOMAIN File \subseteq Interval(Block)
  BY <1>1, AtBlock, LenProperties DEF Tiles, Idle
<1>3. \A n : HasKey(n)' <=> HasKey(n)
  BY <1>1 DEF HasKey, Held
<1>4. \A n : Held(n)' = Held(n)
  BY <1>1 DEF Held
<1>5. \A n \in DOMAIN hl : n < i + 1 <=> n < i \/ n = i
  BY <1>2
<1>6. /\ IsSequence(out) /\ (found <=> Len(out) > 0) /\ Len(out) \in Nat
      /\ DOMAIN out = 1 .. Len(out)
  BY <1>2, AppendAny DEF Answered
<1>7. CASE HasKey(i)
  <2> DEFINE r == Reply(0, job.key, File[job.key])
  <2>1. job.key \in DOMAIN File
    BY <1>2, <1>7 DEF HasKey
  <2>2. GetBlock
    BY <1>2, <2>1 DEF Skip, Covers, Interval
  <2>3. out' = Append(out, r) /\ found' = TRUE
    BY <2>1, <2>2 DEF GetBlock
  <2>4. r.value = Held(i)[job.key].value /\ r.status = 0
    BY <1>2 DEF Reply
  <2> HIDE DEF r
  <2>5. /\ IsSequence(out') /\ Len(out') = Len(out) + 1
        /\ DOMAIN out' = 1 .. Len(out) + 1
        /\ \A k \in 1 .. Len(out) : out'[k] = out[k]
        /\ out'[Len(out) + 1] = r
    BY <1>6, <2>3, AppendAny
  <2>6. Len(out') > 1 => \E n \in DOMAIN hl : n < i /\ HasKey(n)
    BY <1>2, <1>6, <2>5 DEF Answered
  <2>7. Len(out') > 1 => \E n, k \in DOMAIN hl :
                           n # k /\ n < i + 1 /\ k < i + 1 /\ HasKey(n) /\ HasKey(k)
    BY <1>2, <1>5, <1>7, <2>6
  <2>8. ASSUME NEW n \in DOMAIN hl, n < i + 1, HasKey(n)
        PROVE  \E k \in DOMAIN out' : /\ out'[k].value = Held(n)[job.key].value
                                     /\ out'[k].status = 0
    <3>1. CASE n = i
      BY <1>6, <2>4, <2>5, <3>1
    <3>2. CASE n < i
      <4>1. PICK k \in DOMAIN out : /\ out[k].value = Held(n)[job.key].value
                                   /\ out[k].status = 0
        BY <1>2, <2>8, <3>2 DEF Answered
      <4> QED
        BY <1>6, <2>5, <4>1
    <3> QED
      BY <1>5, <2>8, <3>1, <3>2
  <2>9. found' <=> Len(out') > 0
    BY <1>6, <2>3, <2>5
  <2>10. \E n \in DOMAIN hl : n < i + 1 /\ HasKey(n)
    BY <1>2, <1>5, <1>7
  <2> QED
    BY <1>1, <1>2, <1>3, <1>4, <2>5, <2>7, <2>8, <2>9, <2>10 DEF Answered
<1>8. CASE ~HasKey(i)
  <2>1. job.key \notin DOMAIN File
    BY <1>2, <1>8 DEF HasKey
  <2>2. out' = out /\ found' = found
    BY <2>1 DEF GetBlock, Skip
  <2>3. \A n \in DOMAIN hl : HasKey(n) => (n < i + 1 <=> n < i)
    BY <1>5, <1>8
  <2> QED
    BY <1>1, <1>2, <1>3, <1>4, <2>2, <2>3 DEF Answered
<1> QED
  BY <1>7, <1>8

\* A get has an answer from every block behind it that holds its key.
LEMMA AnsweredStep ==
  ASSUME Jobs \subseteq {"put", "get"}, ~FilesMayFail,
         Types, Tiles, Whole, FreshInv, Answered, [Next]_vars
  PROVE  Answered'
<1>1. CASE job'.op # "get"
  BY <1>1 DEF Answered
<1>2. CASE UNCHANGED <<running, disk, clock, local, out, owed, traffic>>
  <2>1. UNCHANGED <<hl, files, latest, job, i, found, out>>
    BY <1>2 DEF disk, local
  <2> QED
    BY <2>1 DEF Answered, HasKey, Held, GetAnswers, Cut, Idle
<1>3. CASE Pop
  <2>1. out' = << >> \/ Head(que).op = "remove"
    BY <1>3 DEF Pop
  <2>2. Head(que).op # "remove" /\ Head(que).op # "receive"
    <3>1. que # << >>
      BY <1>3 DEF Pop
    <3>2. Head(que) \in PutRequest \cup GetRequest
      BY <3>1, HeadTailProperties DEF FreshInv, Plain
    <3> QED
      BY <3>2 DEF PutRequest, GetRequest
  <2>3. out' = << >> /\ i' = 1 /\ found' = FALSE /\ hl' = hl
    BY <1>3, <2>1, <2>2 DEF Pop, disk
  <2>4. DOMAIN hl' = 1 .. Len(hl)
    BY <2>3, LenProperties DEF Tiles
  <2>5. IsSequence(out') /\ Len(out') = 0
    <3>1. << >> \in Seq({})
      OBVIOUS
    <3> QED
      BY <2>3, <3>1 DEF IsSequence
  <2> QED
    BY <2>3, <2>4, <2>5 DEF Answered, Idle
<1>4. CASE PutBlock
  BY <1>1, <1>4 DEF PutBlock, Loop
<1>5. CASE GetBlock
  BY <1>5, GetGoesOn
<1>6. CASE Finish
  BY <1>1, <1>6, GetEnds DEF Finish
<1>7. ASSUME NEW op \in {"put", "get"}, Skip(op) \/ OpenFails(op)
      PROVE  Answered'
  <2>1. Skip(op)
    BY <1>7 DEF OpenFails
  <2>2. CASE op = "get"
    BY <2>1, <2>2, GetGoesOn
  <2>3. CASE op = "put"
    BY <1>1, <2>1, <2>3 DEF Skip, Loop
  <2> QED
    BY <2>2, <2>3
<1> QED
  BY <1>2, <1>3, <1>4, <1>5, <1>6, <1>7, PlainCases DEF FreshInv

\* Without migrations, and while block files open, a get is answered: once for
\* each copy of its key, with the value put last among the answers, and more
\* than once only if its key is one that blocks were cut at.
THEOREM GetAnswersCorrect ==
  ASSUME Jobs \subseteq {"put", "get"}, ~FilesMayFail
  PROVE  Spec => []GetAnswers
<1>1. Init => FreshInv /\ Answered
  <2>1. Init => job.op = "start"
    BY DEF Init, Start
  <2> QED
    BY <2>1, InitFresh DEF Answered
<1>2. Inv /\ FreshInv /\ [Next]_vars => FreshInv'
  BY FreshStep DEF Inv
<1>3. Inv /\ FreshInv /\ Answered /\ [Next]_vars => Answered'
  BY AnsweredStep DEF Inv
<1>4. Answered => GetAnswers
  BY DEF Answered, GetAnswers
<1> QED
  BY <1>1, <1>2, <1>3, <1>4, StoreInvariant, PTL DEF Spec

=============================================================================
