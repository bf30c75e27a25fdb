-------------------------- MODULE HashCacheProofs ---------------------------
(***************************************************************************)
(* Proofs about HashCache, for every number of pages, nodes, keys, files   *)
(* and runs of the program: no page is lost, the hash map is exact, what   *)
(* is evicted is in its file, and the cache is a map, until sound ends.    *)
(***************************************************************************)
EXTENDS HashCache, FiniteSetTheorems, SequenceTheorems, TLAPS

-----------------------------------------------------------------------------
(* The list.  next and prev are functions nx and pv here.                  *)

Link == Page \cup {head, tail, Nil}
NextFns == [Page \cup {head} -> Page \cup {tail, Nil}]
PrevFns == [Page \cup {tail} -> Page \cup {head, Nil}]

Closed(nx, S) == head \in S /\ \A x \in S \ {tail, Nil} : nx[x] \in S
Reach(nx) == {x \in Link : \A S \in SUBSET Link : Closed(nx, S) => x \in S}

\* The list ends at tail, and is the same backwards.
Linked(nx, pv) ==
  /\ tail \in Reach(nx) /\ Nil \notin Reach(nx)
  /\ \A x \in Reach(nx) \ {tail} : pv[nx[x]] = x

\* The ends of the list and Nil are three, and no pages.
LEMMA Ends ==
  /\ head \notin Page /\ tail \notin Page /\ Nil \notin Page
  /\ head # tail /\ head # Nil /\ tail # Nil
BY HashCacheAssumption

\* What is reached is closed, and is in all that is closed.
LEMMA ReachIs ==
  ASSUME NEW nx \in NextFns
  PROVE  /\ Reach(nx) \in SUBSET Link /\ Closed(nx, Reach(nx))
         /\ \A S \in SUBSET Link : Closed(nx, S) => Reach(nx) \subseteq S
<1>1. \A x \in Link \ {tail, Nil} : nx[x] \in Link
  BY DEF NextFns, Link
<1>2. head \in Link
  BY DEF Link
<1>3. ASSUME NEW x \in Reach(nx) \ {tail, Nil}
      PROVE  nx[x] \in Reach(nx)
  <2>1. ASSUME NEW S \in SUBSET Link, Closed(nx, S)
        PROVE  nx[x] \in S
    BY <1>3, <2>1 DEF Reach, Closed
  <2> QED
    BY <1>1, <1>3, <2>1 DEF Reach
<1>4. head \in Reach(nx)
  BY <1>2 DEF Reach, Closed
<1> QED
  BY <1>3, <1>4 DEF Reach, Closed

\* Every page of the list has a page or head before it in the list.
LEMMA Before ==
  ASSUME NEW nx \in NextFns, NEW pv \in PrevFns, Linked(nx, pv)
  PROVE  \A x \in Reach(nx) \ {head} :
           /\ x \in Page \cup {tail} /\ pv[x] \in Reach(nx) \ {tail}
           /\ pv[x] \in Page \cup {head} /\ nx[pv[x]] = x
<1> DEFINE L == Reach(nx)
<1>1. L \in SUBSET Link /\ Closed(nx, L)
  BY ReachIs
<1>2. Nil \notin L
  BY DEF Linked
<1> SUFFICES ASSUME NEW x \in L \ {head}
             PROVE  /\ x \in Page \cup {tail} /\ pv[x] \in L \ {tail}
                    /\ pv[x] \in Page \cup {head} /\ nx[pv[x]] = x
  OBVIOUS
<1>3. x \in Page \cup {tail}
  BY <1>1, <1>2 DEF Link
<1>4. \E y \in L \ {tail} : nx[y] = x
  <2>1. ASSUME \A y \in L \ {tail} : nx[y] # x
        PROVE  FALSE
    <3>1. L \ {x} \in SUBSET Link /\ Closed(nx, L \ {x})
      BY <1>1, <1>2, <2>1 DEF Closed
    <3>2. L \subseteq L \ {x}
      BY <3>1, ReachIs
    <3> QED
      BY <3>2
  <2> QED
    BY <2>1
<1>5. PICK y \in L \ {tail} : nx[y] = x
  BY <1>4
<1>6. pv[x] = y
  BY <1>5 DEF Linked
<1>7. y \in Page \cup {head}
  BY <1>1, <1>2, <1>5 DEF Link
<1> QED
  BY <1>3, <1>5, <1>6, <1>7

Detached(nx, pv, p) == [nx EXCEPT ![pv[p]] = nx[p]]
DetachedBack(nx, pv, p) == [pv EXCEPT ![nx[p]] = pv[p]]
Attached(nx, p) == [nx EXCEPT ![p] = nx[head], ![head] = p]
AttachedBack(nx, pv, p) == [pv EXCEPT ![p] = head, ![nx[head]] = p]

\* A page that is detached leaves the list, which stays linked.
LEMMA DetachList ==
  ASSUME NEW nx \in NextFns, NEW pv \in PrevFns, Linked(nx, pv), NEW p \in Page \cap Reach(nx)
  PROVE  /\ Detached(nx, pv, p) \in NextFns /\ DetachedBack(nx, pv, p) \in PrevFns
         /\ Reach(Detached(nx, pv, p)) = Reach(nx) \ {p}
         /\ Linked(Detached(nx, pv, p), DetachedBack(nx, pv, p))
<1> DEFINE L == Reach(nx)
           a == pv[p]
           b == nx[p]
           n2 == Detached(nx, pv, p)
           p2 == DetachedBack(nx, pv, p)
<1>1. L \in SUBSET Link /\ Closed(nx, L) /\ tail \in L /\ Nil \notin L
  BY ReachIs DEF Linked
<1>2. p # head /\ p # tail /\ p # Nil /\ head # tail /\ head # Nil /\ tail # Nil
  BY Ends
<1>3. \A x \in L \ {head} :
        /\ x \in Page \cup {tail} /\ pv[x] \in L \ {tail}
        /\ pv[x] \in Page \cup {head} /\ nx[pv[x]] = x
  BY Before
<1>4. a \in L \ {tail} /\ a \in Page \cup {head} /\ nx[a] = p
  BY <1>2, <1>3
<1>5. \A x \in L \ {tail} : nx[x] \in L /\ pv[nx[x]] = x
  BY <1>1 DEF Closed, Linked
<1>6. b \in L /\ pv[b] = p /\ b \in Page \cup {tail}
  <2>1. b \in L /\ pv[b] = p
    BY <1>2, <1>5
  <2>2. b \in Page \cup {tail, Nil}
    BY DEF NextFns
  <2> QED
    BY <1>1, <2>1, <2>2
<1>7. b # p /\ a # p
  <2>1. ASSUME nx[p] = p
        PROVE  FALSE
    <3>0. pv[p] = p
      BY <1>2, <1>5, <2>1
    <3>1. \A x \in L \ {tail} : nx[x] = p => x = p
      BY <1>5, <3>0
    <3>2. L \ {p} \in SUBSET Link /\ Closed(nx, L \ {p})
      BY <1>1, <1>2, <1>5, <3>1 DEF Closed
    <3>3. L \subseteq L \ {p}
      BY <3>2, ReachIs
    <3> QED
      BY <3>3
  <2> QED
    BY <1>4, <2>1
<1>8. n2 \in NextFns /\ \A x \in Page \cup {head} : n2[x] = IF x = a THEN b ELSE nx[x]
  BY <1>4, <1>6 DEF Detached, NextFns
<1>9. p2 \in PrevFns /\ \A x \in Page \cup {tail} : p2[x] = IF x = b THEN a ELSE pv[x]
  BY <1>4, <1>6 DEF DetachedBack, PrevFns
<1> HIDE DEF n2, p2, a, b
<1>10. \A x \in L \ {tail} : x \in Page \cup {head}
  BY <1>1 DEF Link
<1>11. L \ {p} \in SUBSET Link /\ Closed(n2, L \ {p})
  <2>1. ASSUME NEW x \in (L \ {p}) \ {tail, Nil}
        PROVE  n2[x] \in L \ {p}
    <3>1. CASE x = a
      BY <1>4, <1>6, <1>7, <1>8, <3>1
    <3>2. CASE x # a
      <4>1. n2[x] = nx[x] /\ nx[x] \in L /\ pv[nx[x]] = x
        BY <1>5, <1>8, <1>10, <2>1, <3>2
      <4>2. nx[x] # p
        BY <3>2, <4>1 DEF a
      <4> QED
        BY <4>1, <4>2
    <3> QED
      BY <3>1, <3>2
  <2>2. head \in L \ {p}
    BY <1>1, <1>2 DEF Closed
  <2> QED
    BY <1>1, <2>1, <2>2 DEF Closed
<1>12. Reach(n2) \subseteq L \ {p}
  BY <1>8, <1>11, ReachIs
<1>13. L \ {p} \subseteq Reach(n2)
  <2> DEFINE R == Reach(n2)
             T == IF a \in R THEN R \cup {p} ELSE R
  <2>1. R \in SUBSET Link /\ Closed(n2, R)
    BY <1>8, ReachIs
  <2>2. R \subseteq L /\ p \notin R
    BY <1>12
  <2>3. head \in T /\ T \in SUBSET Link
    BY <2>1 DEF Closed, Link
  <2>4. ASSUME NEW x \in T \ {tail, Nil}
        PROVE  nx[x] \in T
    <3>1. CASE x = p
      <4>1. a \in R /\ a \notin {tail, Nil}
        BY <1>1, <1>4, <2>2, <2>4, <3>1
      <4>2. n2[a] = b /\ n2[a] \in R
        BY <1>4, <1>8, <2>1, <4>1 DEF Closed
      <4> QED
        BY <3>1, <4>2 DEF b
    <3>2. CASE x # p /\ x = a
      BY <1>4, <2>4, <3>2
    <3>3. CASE x # p /\ x # a
      <4>1. x \in R /\ n2[x] \in R
        BY <2>1, <2>4, <3>3 DEF Closed
      <4>2. n2[x] = nx[x]
        BY <1>8, <1>10, <2>2, <2>4, <3>3, <4>1
      <4> QED
        BY <4>1, <4>2
    <3> QED
      BY <3>1, <3>2, <3>3
  <2>5. Closed(nx, T)
    BY <2>3, <2>4 DEF Closed
  <2>6. L \subseteq T
    BY <2>3, <2>5, ReachIs
  <2> QED
    BY <2>6
<1>14. Reach(n2) = L \ {p}
  BY <1>12, <1>13
<1>15. Linked(n2, p2)
  <2>1. tail \in L \ {p} /\ Nil \notin L \ {p}
    BY <1>1, <1>2
  <2>2. ASSUME NEW x \in (L \ {p}) \ {tail}
        PROVE  p2[n2[x]] = x
    <3>1. CASE x = a
      BY <1>6, <1>8, <1>9, <1>10, <2>2, <3>1
    <3>2. CASE x # a
      <4>1. n2[x] = nx[x] /\ nx[x] \in L /\ pv[nx[x]] = x
        BY <1>5, <1>8, <1>10, <2>2, <3>2
      <4>2. nx[x] # b
        BY <1>6, <2>2, <4>1
      <4>3. nx[x] \in Page \cup {tail}
        BY <1>1, <1>10, <2>2, <4>1 DEF NextFns
      <4> QED
        BY <1>9, <4>1, <4>2, <4>3
    <3> QED
      BY <3>1, <3>2
  <2> QED
    BY <1>14, <2>1, <2>2 DEF Linked
<1> QED
  BY <1>8, <1>9, <1>14, <1>15 DEF n2, p2

\* A page that is attached joins the list, which stays linked.
LEMMA AttachList ==
  ASSUME NEW nx \in NextFns, NEW pv \in PrevFns, Linked(nx, pv), NEW p \in Page \ Reach(nx)
  PROVE  /\ Attached(nx, p) \in NextFns /\ AttachedBack(nx, pv, p) \in PrevFns
         /\ Reach(Attached(nx, p)) = Reach(nx) \cup {p}
         /\ Linked(Attached(nx, p), AttachedBack(nx, pv, p))
<1> DEFINE L == Reach(nx)
           a == nx[head]
           n2 == Attached(nx, p)
           p2 == AttachedBack(nx, pv, p)
<1>1. L \in SUBSET Link /\ Closed(nx, L) /\ tail \in L /\ Nil \notin L /\ head \in L
  BY ReachIs DEF Linked, Closed
<1>2. p # head /\ p # tail /\ p # Nil /\ head # tail /\ head # Nil /\ tail # Nil
  BY Ends
<1>3. \A x \in L \ {tail} : nx[x] \in L /\ pv[nx[x]] = x
  BY <1>1 DEF Closed, Linked
<1>4. \A x \in L \ {tail} : x \in Page \cup {head} /\ nx[x] \in Page \cup {tail}
  BY <1>1, <1>3 DEF Link, NextFns
<1>5. a \in L /\ a \in Page \cup {tail} /\ pv[a] = head /\ a # p
  BY <1>1, <1>2, <1>3, <1>4
<1>6. /\ n2 \in NextFns
      /\ \A x \in Page \cup {head} :
           n2[x] = IF x = head THEN p ELSE IF x = p THEN a ELSE nx[x]
  BY <1>2, <1>5 DEF Attached, NextFns
<1>7. /\ p2 \in PrevFns
      /\ \A x \in Page \cup {tail} :
           p2[x] = IF x = a THEN p ELSE IF x = p THEN head ELSE pv[x]
  BY <1>2, <1>5 DEF AttachedBack, PrevFns
<1> HIDE DEF n2, p2, a
<1>8. L \cup {p} \in SUBSET Link /\ Closed(n2, L \cup {p})
  BY <1>1, <1>2, <1>3, <1>4, <1>5, <1>6 DEF Closed, Link
<1>9. Reach(n2) \subseteq L \cup {p}
  BY <1>6, <1>8, ReachIs
<1>10. L \cup {p} \subseteq Reach(n2)
  <2> DEFINE R == Reach(n2)
             T == R \cap L
  <2>1. R \in SUBSET Link /\ Closed(n2, R)
    BY <1>6, ReachIs
  <2>2. p \in R /\ a \in R
    <3>1. head \in R /\ n2[head] = p
      BY <1>6, <2>1 DEF Closed
    <3>2. p \in R /\ n2[p] = a
      BY <1>2, <1>6, <2>1, <3>1 DEF Closed
    <3> QED
      BY <1>2, <2>1, <3>2 DEF Closed
  <2>3. Closed(nx, T) /\ T \in SUBSET Link
    <3>1. head \in T
      BY <1>1, <2>1 DEF Closed
    <3>2. ASSUME NEW x \in T \ {tail, Nil}
          PROVE  nx[x] \in T
      <4>1. CASE x = head
        BY <1>5, <2>2, <4>1 DEF a
      <4>2. CASE x # head
        BY <1>3, <1>4, <1>6, <2>1, <3>2, <4>2 DEF Closed
      <4> QED
        BY <4>1, <4>2
    <3> QED
      BY <1>1, <3>1, <3>2 DEF Closed
  <2>4. L \subseteq T
    BY <2>3, ReachIs
  <2> QED
    BY <2>2, <2>4
<1>11. Reach(n2) = L \cup {p}
  BY <1>9, <1>10
<1>12. Linked(n2, p2)
  <2>1. ASSUME NEW x \in (L \cup {p}) \ {tail}
        PROVE  p2[n2[x]] = x
    <3>1. CASE x = head
      BY <1>5, <1>6, <1>7, <1>2, <3>1
    <3>2. CASE x = p
      BY <1>2, <1>5, <1>6, <1>7, <3>2
    <3>3. CASE x # head /\ x # p
      <4>1. x \in Page \cup {head} /\ nx[x] \in L /\ pv[nx[x]] = x /\ nx[x] \in Page \cup {tail}
        BY <1>3, <1>4, <2>1, <3>3
      <4>2. n2[x] = nx[x] /\ nx[x] # a /\ nx[x] # p
        BY <1>5, <1>6, <3>3, <4>1
      <4> QED
        BY <1>7, <4>1, <4>2
    <3> QED
      BY <3>1, <3>2, <3>3
  <2> QED
    BY <1>1, <1>2, <1>11, <2>1 DEF Linked
<1> QED
  BY <1>6, <1>7, <1>11, <1>12 DEF n2, p2

\* The last page of a list that has all the pages.
LEMMA LastOfList ==
  ASSUME NEW nx \in NextFns, NEW pv \in PrevFns, Linked(nx, pv), Page \subseteq Reach(nx)
  PROVE  pv[tail] \in Page
<1>1. tail \in Reach(nx) \ {head} /\ head # tail
  BY Ends DEF Linked
<1>2. pv[tail] \in Page \cup {head} /\ nx[pv[tail]] = tail
  BY <1>1, Before
<1>3. ASSUME pv[tail] = head
      PROVE  FALSE
  <2>1. Closed(nx, {head, tail}) /\ {head, tail} \in SUBSET Link
    BY <1>2, <1>3 DEF Closed, Link
  <2>2. Reach(nx) \subseteq {head, tail}
    BY <2>1, ReachIs
  <2>3. Page # {}
    BY HashCacheAssumption
  <2> QED
    BY <2>2, <2>3, Ends
<1> QED
  BY <1>2, <1>3

-----------------------------------------------------------------------------
(* States of the cache, and the operators on the list.                     *)

Reading == {"key", "number", "stopped"}
KeyMaps == [Key -> 0 .. MaxFile]
KeyFiles == [map : KeyMaps, reads : Reading]

State ==
  [data : [Page -> Contents], file : [Page -> 0 .. MaxFile], dirty : [Page -> BOOLEAN],
   next : NextFns, prev : PrevFns, free : Seq(Page),
   hash_map : [Key -> (Page \X Slot) \cup {Nil}],
   key_file_map : KeyMaps, new_file_index : 0 .. MaxFile,
   put_page : Page \cup {Nil}, put_page_existed : BOOLEAN, data_index : 0 .. PAGE_SIZE,
   files : [File -> Contents \cup {Nil}], key_file : KeyFiles]

\* The same pages, maps and files.
SameData(s, t) ==
  /\ t.data = s.data /\ t.file = s.file /\ t.dirty = s.dirty
  /\ t.hash_map = s.hash_map /\ t.key_file_map = s.key_file_map
  /\ t.new_file_index = s.new_file_index /\ t.put_page = s.put_page
  /\ t.put_page_existed = s.put_page_existed /\ t.data_index = s.data_index
  /\ t.files = s.files /\ t.key_file = s.key_file

SameList(s, t) == t.next = s.next /\ t.prev = s.prev

ListOK(s) == Linked(s.next, s.prev)

\* Listed is what is reached by next.
LEMMA ListedIs ==
  ASSUME NEW s
  PROVE  Listed(s) = Reach(s.next)
BY DEF Listed, Reach, Closed, Link

\* A page that is detached leaves the list.
LEMMA DetachIs ==
  ASSUME NEW s \in State, ListOK(s), NEW p \in Page \cap Listed(s), NEW t, t = detach(s, p)
  PROVE  /\ t \in State /\ SameData(s, t) /\ t.free = s.free
         /\ Listed(t) = Listed(s) \ {p} /\ ListOK(t)
<1>1. s.next \in NextFns /\ s.prev \in PrevFns /\ Linked(s.next, s.prev)
  BY DEF State, ListOK
<1>2. p \in Page \cap Reach(s.next)
  BY ListedIs
<1> DEFINE nx == Detached(s.next, s.prev, p)
           pv == DetachedBack(s.next, s.prev, p)
<1>3. /\ nx \in NextFns /\ pv \in PrevFns
      /\ Reach(nx) = Reach(s.next) \ {p} /\ Linked(nx, pv)
  BY <1>1, <1>2, DetachList
<1>4. t = [s EXCEPT !.next = nx, !.prev = pv]
  BY DEF detach, Detached, DetachedBack
<1> HIDE DEF nx, pv
<1>5. t \in State /\ t.next = nx /\ t.prev = pv /\ SameData(s, t) /\ t.free = s.free
  BY <1>3, <1>4 DEF State, SameData
<1> QED
  BY <1>3, <1>5, ListedIs DEF ListOK

\* A page that is attached joins it.
LEMMA AttachIs ==
  ASSUME NEW s \in State, ListOK(s), NEW p \in Page \ Listed(s), NEW t, t = attach(s, p)
  PROVE  /\ t \in State /\ SameData(s, t) /\ t.free = s.free
         /\ Listed(t) = Listed(s) \cup {p} /\ ListOK(t)
<1>1. s.next \in NextFns /\ s.prev \in PrevFns /\ Linked(s.next, s.prev)
  BY DEF State, ListOK
<1>2. p \in Page \ Reach(s.next)
  BY ListedIs
<1> DEFINE nx == Attached(s.next, p)
           pv == AttachedBack(s.next, s.prev, p)
<1>3. /\ nx \in NextFns /\ pv \in PrevFns
      /\ Reach(nx) = Reach(s.next) \cup {p} /\ Linked(nx, pv)
  BY <1>1, <1>2, AttachList
<1>4. t = [s EXCEPT !.next = nx, !.prev = pv]
  BY DEF attach, Attached, AttachedBack, State
<1> HIDE DEF nx, pv
<1>5. t \in State /\ t.next = nx /\ t.prev = pv /\ SameData(s, t) /\ t.free = s.free
  BY <1>3, <1>4 DEF State, SameData
<1> QED
  BY <1>3, <1>5, ListedIs DEF ListOK

\* A page of the list that goes to the front stays in it.
LEMMA ToFrontIs ==
  ASSUME NEW s \in State, ListOK(s), NEW p \in Page \cap Listed(s), NEW t, t = ToFront(s, p)
  PROVE  /\ t \in State /\ SameData(s, t) /\ t.free = s.free
         /\ Listed(t) = Listed(s) /\ ListOK(t)
<1> DEFINE u == detach(s, p)
<1>1. /\ u \in State /\ SameData(s, u) /\ u.free = s.free
      /\ Listed(u) = Listed(s) \ {p} /\ ListOK(u)
  BY DetachIs
<1>2. t = attach(u, p)
  BY DEF ToFront
<1> HIDE DEF u
<1>3. /\ t \in State /\ SameData(u, t) /\ t.free = u.free
      /\ Listed(t) = Listed(u) \cup {p} /\ ListOK(t)
  BY <1>1, <1>2, AttachIs
<1> QED
  BY <1>1, <1>3 DEF SameData

-----------------------------------------------------------------------------
(* What pages and files hold, when L are the pages in the list.            *)

\* The nodes of a page are filled from the first one on, each with a key of its
\* own.
Shape(d) ==
  /\ d \in Contents /\ d[1].key # Empty
  /\ \A i, j \in Slot : i < j /\ d[j].key # Empty => d[i].key # Empty
  /\ \A i, j \in Slot : d[i].key = d[j].key /\ d[i].key # Empty => i = j

\* The contents of a file, in memory if a page of the list has it.
Holders(s, L, f) == {p \in L : s.file[p] = f}
Content(s, L, f) ==
  IF Holders(s, L, f) = {} THEN s.files[f] ELSE s.data[CHOOSE p \in Holders(s, L, f) : TRUE]

\* The hash map has the keys of the pages of the list.
Exact(s, L) ==
  \A k \in Key :
    IF s.hash_map[k] = Nil THEN \A p \in L : k \notin KeysOf(s.data[p])
    ELSE s.hash_map[k][1] \in L /\ Node(s, k).key = k

\* No two pages have a file or a key in common.
Apart(s, L) ==
  \A p, q \in L :
    s.file[p] = s.file[q] \/ KeysOf(s.data[p]) \cap KeysOf(s.data[q]) # {} => p = q

\* Files have numbers up to the index.
Numbered(s, L) ==
  /\ \A p \in L : s.file[p] \in 1 .. s.new_file_index
  /\ \A f \in File : f > s.new_file_index => s.files[f] = Nil

\* A page that is not dirty is in its file, or in no use.
Clean(s, L) ==
  \A p \in Page : IF p \in L THEN s.dirty[p] \/ s.files[s.file[p]] = s.data[p] ELSE ~s.dirty[p]

Shaped(s, L) ==
  /\ \A p \in L : Shape(s.data[p])
  /\ \A f \in File : s.files[f] # Nil => Shape(s.files[f])

\* A map from keys to files leads to files that have the key, and has all the
\* keys of a file or none.
MapOK(map, s, L) ==
  \A k \in Key : map[k] # 0 =>
    /\ map[k] <= s.new_file_index
    /\ Content(s, L, map[k]) # Nil /\ k \in KeysOf(Content(s, L, map[k]))
    /\ \A l \in KeysOf(Content(s, L, map[k])) : map[l] = map[k]

\* The keys of a page of the list are mapped to its file, unless it is the put
\* page.
Mapped(s, L) ==
  \A p \in L : \A k \in KeysOf(s.data[p]) :
    \/ s.key_file_map[k] = s.file[p]
    \/ s.key_file_map[k] = 0 /\ s.put_page_existed /\ p = s.put_page

DataOK(s, L) ==
  /\ Exact(s, L) /\ Apart(s, L) /\ Numbered(s, L) /\ Clean(s, L) /\ Shaped(s, L)
  /\ MapOK(s.key_file_map, s, L) /\ MapOK(s.key_file.map, s, L) /\ Mapped(s, L)
  /\ \A k \in Key : s.key_file.map[k] \in {0, s.key_file_map[k]}

\* The keys of p are mapped to its file.
KeysMapped(s, p) == \A k \in KeysOf(s.data[p]) : s.key_file_map[k] = s.file[p]

\* The put page has not been saved yet.
Unmapped(s) ==
  s.dirty[s.put_page] /\ \A k \in KeysOf(s.data[s.put_page]) : s.key_file_map[k] = 0

\* The put page, while it exists, has data_index nodes; until it is full, none
\* of its keys is mapped and it is dirty, or save_cache has mapped them all.
PutOK(s, L) ==
  s.put_page_existed =>
    /\ s.put_page \in L /\ s.data_index > 0
    /\ \A i \in Slot : i > s.data_index <=> s.data[s.put_page][i].key = Empty
    /\ s.data_index < PAGE_SIZE => Unmapped(s) \/ KeysMapped(s, s.put_page)

\* The file that a key is in.
FileOf(s, L, k) ==
  {f \in File : s.key_file_map[k] = f \/ \E p \in L : s.file[p] = f /\ k \in KeysOf(s.data[p])}

\* The numbers of HashCacheAssumption.
LEMMA Bounds ==
  /\ PAGE_SIZE \in Nat /\ PAGE_SIZE >= 1 /\ 1 \in Slot /\ MaxFile \in Nat
  /\ \A i \in Slot : i \in Nat /\ i >= 1 /\ i <= PAGE_SIZE
  /\ Empty \notin Key /\ Nil \notin Contents /\ Nil \notin Page \X Slot
BY HashCacheAssumption DEF Slot

\* The keys of a page.
LEMMA KeysIn ==
  ASSUME NEW d \in Contents
  PROVE  /\ KeysOf(d) \in SUBSET Key
         /\ \A k : k \in KeysOf(d) <=> k # Empty /\ \E i \in Slot : d[i].key = k
         /\ \A i \in Slot : d[i].key \in Key \cup {Empty} /\ d[i].value \in Value \cup {Empty}
BY DEF KeysOf, Contents

\* A page in the list is the contents of its file; a file that no page has is
\* its own.
LEMMA ContentIs ==
  ASSUME NEW s, NEW L, Apart(s, L)
  PROVE  /\ \A p \in L : Content(s, L, s.file[p]) = s.data[p]
         /\ \A f : (\A p \in L : s.file[p] # f) => Content(s, L, f) = s.files[f]
<1>1. ASSUME NEW p \in L
      PROVE  Content(s, L, s.file[p]) = s.data[p]
  <2> DEFINE q == CHOOSE x \in Holders(s, L, s.file[p]) : TRUE
  <2>1. p \in Holders(s, L, s.file[p])
    BY DEF Holders
  <2>2. q \in Holders(s, L, s.file[p])
    BY <2>1
  <2>3. q \in L /\ s.file[q] = s.file[p]
    BY <2>2 DEF Holders
  <2>4. q = p
    BY <2>3 DEF Apart
  <2> QED
    BY <2>1, <2>4 DEF Content
<1>2. ASSUME NEW f, \A p \in L : s.file[p] # f
      PROVE  Content(s, L, f) = s.files[f]
  BY <1>2 DEF Content, Holders
<1> QED
  BY <1>1, <1>2

\* What a file holds is a page or nothing.
LEMMA ContentType ==
  ASSUME NEW s \in State, NEW L \in SUBSET Page, NEW f
  PROVE  f \in File => Content(s, L, f) \in Contents \cup {Nil}
<1>1. CASE Holders(s, L, f) = {}
  BY <1>1 DEF Content, State
<1>2. CASE Holders(s, L, f) # {}
  <2>1. (CHOOSE p \in Holders(s, L, f) : TRUE) \in Holders(s, L, f)
    BY <1>2
  <2>2. (CHOOSE p \in Holders(s, L, f) : TRUE) \in Page
    BY <2>1 DEF Holders
  <2> QED
    BY <1>2, <2>2 DEF Content, State
<1> QED
  BY <1>1, <1>2

\* The value that is found for a key: that in memory, that in its file, or none.
LEMMA ValueIs ==
  ASSUME NEW s \in State, NEW L \in SUBSET Page, DataOK(s, L), NEW k \in Key
  PROVE  /\ FileOf(s, L, k) = {} => ValueOf(s, k) = Empty
         /\ \A f \in FileOf(s, L, k) :
              /\ Content(s, L, f) \in Contents /\ k \in KeysOf(Content(s, L, f))
              /\ \A i \in Slot : Content(s, L, f)[i].key = k =>
                   ValueOf(s, k) = Content(s, L, f)[i].value
<1> DEFINE num == s.key_file_map[k]
<1>1. /\ s.data \in [Page -> Contents] /\ s.files \in [File -> Contents \cup {Nil}]
      /\ s.key_file_map \in [Key -> 0 .. MaxFile] /\ s.file \in [Page -> 0 .. MaxFile]
      /\ s.hash_map \in [Key -> (Page \X Slot) \cup {Nil}]
  BY DEF State, KeyMaps
<1>2. num \in 0 .. MaxFile /\ MaxFile \in Nat
  BY <1>1, Bounds
<1>3. Apart(s, L) /\ Exact(s, L) /\ Shaped(s, L) /\ MapOK(s.key_file_map, s, L) /\ Numbered(s, L)
  BY DEF DataOK
<1>4. k # Empty
  BY Bounds
<1>5. ASSUME NEW p \in L, NEW i \in Slot, s.data[p][i].key = k
      PROVE  ValueOf(s, k) = s.data[p][i].value /\ s.hash_map[k] # Nil
  <2>1. s.data[p] \in Contents /\ k \in KeysOf(s.data[p])
    BY <1>1, <1>4, <1>5, KeysIn
  <2>2. s.hash_map[k] # Nil /\ s.hash_map[k][1] \in L /\ Node(s, k).key = k
    BY <1>3, <2>1 DEF Exact
  <2>3. PICK q \in Page, j \in Slot : s.hash_map[k] = <<q, j>>
    BY <1>1, <2>2
  <2>4. q \in L /\ s.data[q][j].key = k /\ Node(s, k) = s.data[q][j]
    BY <2>2, <2>3 DEF Node
  <2>5. k \in KeysOf(s.data[q])
    BY <1>1, <1>4, <2>4, KeysIn
  <2>6. p = q
    BY <1>3, <2>1, <2>4, <2>5 DEF Apart
  <2>7. i = j
    BY <1>3, <1>4, <1>5, <2>4, <2>6 DEF Shaped, Shape
  <2> QED
    BY <2>2, <2>4, <2>6, <2>7 DEF ValueOf
<1>6. CASE \E p \in L : k \in KeysOf(s.data[p])
  <2>1. PICK p \in L : k \in KeysOf(s.data[p])
    BY <1>6
  <2>2. s.file[p] \in File
    BY <1>1, <1>2, <1>3, <2>1 DEF Numbered, File, State
  <2>3. num = s.file[p] \/ num = 0
    BY <2>1 DEF DataOK, Mapped
  <2>4. ASSUME NEW f \in FileOf(s, L, k)
        PROVE  f = s.file[p]
    BY <1>3, <2>1, <2>3, <2>4 DEF FileOf, Apart, File
  <2>5. FileOf(s, L, k) # {}
    BY <2>1, <2>2 DEF FileOf
  <2>6. Content(s, L, s.file[p]) = s.data[p]
    BY <1>3, <2>1, ContentIs
  <2>7. s.data[p] \in Contents
    BY <1>1, <2>1
  <2> QED
    BY <1>5, <2>1, <2>4, <2>5, <2>6, <2>7
<1>7. CASE ~\E p \in L : k \in KeysOf(s.data[p])
  <2>1. s.hash_map[k] = Nil
    <3>1. ASSUME s.hash_map[k] # Nil
          PROVE  FALSE
      <4>1. s.hash_map[k][1] \in L /\ Node(s, k).key = k
        BY <1>3, <3>1 DEF Exact
      <4>2. PICK q \in Page, j \in Slot : s.hash_map[k] = <<q, j>>
        BY <1>1, <3>1
      <4>3. q \in L /\ s.data[q][j].key = k
        BY <4>1, <4>2 DEF Node
      <4>4. k \in KeysOf(s.data[q])
        BY <1>1, <1>4, <4>3, KeysIn
      <4> QED
        BY <1>7, <4>3, <4>4
    <3> QED
      BY <3>1
  <2>2. FileOf(s, L, k) = {num} \cap File
    BY <1>7 DEF FileOf
  <2>3. CASE num = 0
    BY <2>1, <2>2, <2>3 DEF ValueOf, File
  <2>4. CASE num # 0
    <3>1. num \in File
      BY <1>2, <2>4 DEF File
    <3>2. Content(s, L, num) # Nil /\ k \in KeysOf(Content(s, L, num))
      BY <1>3, <2>4 DEF MapOK
    <3>3. \A p \in L : s.file[p] # num
      BY <1>3, <1>7, <3>2, ContentIs
    <3>4. Content(s, L, num) = s.files[num]
      BY <1>3, <3>3, ContentIs
    <3>5. s.files[num] \in Contents /\ Shape(s.files[num])
      BY <1>1, <1>3, <3>1, <3>2, <3>4 DEF Shaped
    <3> DEFINE d == s.files[num]
               From == {i \in Slot : d[i].key = k}
    <3>6. d \in Contents /\ d # Nil /\ k \in KeysOf(d) /\ Shape(d)
      BY <3>2, <3>4, <3>5
    <3>7. ValueOf(s, k) = IF d = Nil \/ From = {} THEN Empty ELSE d[CHOOSE i \in From : TRUE].value
      <4>1. ValueOf(s, k) =
              IF s.hash_map[k] # Nil THEN Node(s, k).value
              ELSE IF num = 0 \/ d = Nil \/ From = {} THEN Empty
              ELSE d[CHOOSE i \in From : TRUE].value
        BY DEF ValueOf
      <4> HIDE DEF num, d, From
      <4> QED
        BY <2>1, <2>4, <4>1
    <3> HIDE DEF d
    <3>8. ASSUME NEW i \in Slot, d[i].key = k
          PROVE  ValueOf(s, k) = d[i].value
      <4>1. i \in From /\ From # {}
        BY <3>8
      <4>2. \A j \in From : j = i
        BY <1>4, <3>6, <3>8 DEF Shape
      <4>3. (CHOOSE j \in From : TRUE) = i
        BY <4>1, <4>2
      <4> QED
        BY <3>6, <3>7, <4>1, <4>3
    <3> QED
      BY <2>2, <3>1, <3>4, <3>6, <3>8 DEF d
  <2> QED
    BY <2>3, <2>4
<1> QED
  BY <1>6, <1>7

\* The value of a key depends on its file and on the node it has there only.
LEMMA SameValue ==
  ASSUME NEW s \in State, NEW L \in SUBSET Page, DataOK(s, L),
         NEW t \in State, NEW M \in SUBSET Page, DataOK(t, M), NEW k \in Key,
         FileOf(t, M, k) = FileOf(s, L, k),
         \A f \in FileOf(s, L, k) : \A i \in Slot :
           Content(s, L, f)[i].key = k => Content(t, M, f)[i] = Content(s, L, f)[i]
  PROVE  ValueOf(t, k) = ValueOf(s, k)
<1>1. CASE FileOf(s, L, k) = {}
  BY <1>1, ValueIs
<1>2. CASE FileOf(s, L, k) # {}
  <2>1. PICK f \in FileOf(s, L, k) : TRUE
    BY <1>2
  <2> DEFINE d == Content(s, L, f)
             e == Content(t, M, f)
  <2>2. /\ d \in Contents /\ k \in KeysOf(d)
        /\ \A i \in Slot : d[i].key = k => ValueOf(s, k) = d[i].value
    BY <2>1, ValueIs
  <2>3. \A i \in Slot : e[i].key = k => ValueOf(t, k) = e[i].value
    BY <2>1, ValueIs
  <2>4. \A i \in Slot : d[i].key = k => e[i] = d[i]
    BY <2>1
  <2> HIDE DEF d, e
  <2>5. PICK i \in Slot : d[i].key = k
    BY <2>2, KeysIn
  <2> QED
    BY <2>2, <2>3, <2>4, <2>5
<1> QED
  BY <1>1, <1>2

\* Every file has the same contents, and every key is in the same file.
SameFiles(s, L, t, M) ==
  /\ \A f \in File : Content(t, M, f) = Content(s, L, f)
  /\ \A k \in Key : FileOf(t, M, k) = FileOf(s, L, k)

\* What is said of the pages and files does not depend on the list.
LEMMA SameDataOK ==
  ASSUME NEW s, NEW t, SameData(s, t), NEW L
  PROVE  /\ DataOK(s, L) => DataOK(t, L)
         /\ PutOK(s, L) => PutOK(t, L)
         /\ SameFiles(s, L, t, L)
<1>1. /\ t.data = s.data /\ t.file = s.file /\ t.dirty = s.dirty
      /\ t.hash_map = s.hash_map /\ t.key_file_map = s.key_file_map
      /\ t.new_file_index = s.new_file_index /\ t.put_page = s.put_page
      /\ t.put_page_existed = s.put_page_existed /\ t.data_index = s.data_index
      /\ t.files = s.files /\ t.key_file = s.key_file
  BY DEF SameData
<1>2. \A f : Content(t, L, f) = Content(s, L, f)
  BY <1>1 DEF Content, Holders
<1>3. \A k : Node(t, k) = Node(s, k)
  BY <1>1 DEF Node
<1>4. SameFiles(s, L, t, L)
  BY <1>1, <1>2 DEF SameFiles, FileOf
<1>5. Exact(s, L) => Exact(t, L)
  BY <1>1, <1>3 DEF Exact
<1>6. ASSUME NEW map
      PROVE  MapOK(map, s, L) => MapOK(map, t, L)
  BY <1>1, <1>2 DEF MapOK
<1>7. Mapped(s, L) => Mapped(t, L)
  BY <1>1 DEF Mapped
<1>8. /\ Apart(s, L) => Apart(t, L)
      /\ Numbered(s, L) => Numbered(t, L)
      /\ Clean(s, L) => Clean(t, L)
      /\ Shaped(s, L) => Shaped(t, L)
  BY <1>1 DEF Apart, Numbered, Clean, Shaped
<1>9. PutOK(s, L) => PutOK(t, L)
  BY <1>1 DEF PutOK, Unmapped, KeysMapped
<1>10. DataOK(s, L) => DataOK(t, L)
  <2> SUFFICES ASSUME DataOK(s, L)
               PROVE  DataOK(t, L)
    OBVIOUS
  <2>1. MapOK(t.key_file_map, t, L) /\ MapOK(t.key_file.map, t, L)
    BY <1>1, <1>6 DEF DataOK
  <2> QED
    BY <1>1, <1>5, <1>7, <1>8, <2>1 DEF DataOK
<1> QED
  BY <1>4, <1>9, <1>10

\* The file of a key is kept through two steps if each keeps it.
LEMMA SameFilesTwice ==
  ASSUME NEW s, NEW L, NEW t, NEW M, NEW u, NEW N,
         SameFiles(s, L, t, M), SameFiles(t, M, u, N)
  PROVE  SameFiles(s, L, u, N)
BY DEF SameFiles

\* The files a map leads to may change if their keys do not.
LEMMA MapKept ==
  ASSUME NEW s, NEW L, NEW t, NEW M, NEW map \in KeyMaps, MapOK(map, s, L),
         s.new_file_index \in Nat, t.new_file_index \in Nat, s.new_file_index <= t.new_file_index,
         \A k \in Key : map[k] # 0 =>
           /\ Content(t, M, map[k]) # Nil
           /\ KeysOf(Content(t, M, map[k])) = KeysOf(Content(s, L, map[k]))
  PROVE  MapOK(map, t, M)
<1> SUFFICES ASSUME NEW k \in Key, map[k] # 0
             PROVE  /\ map[k] <= t.new_file_index
                    /\ Content(t, M, map[k]) # Nil /\ k \in KeysOf(Content(t, M, map[k]))
                    /\ \A l \in KeysOf(Content(t, M, map[k])) : map[l] = map[k]
  BY DEF MapOK
<1>1. /\ map[k] <= s.new_file_index /\ k \in KeysOf(Content(s, L, map[k]))
      /\ \A l \in KeysOf(Content(s, L, map[k])) : map[l] = map[k]
  BY DEF MapOK
<1>2. map[k] <= t.new_file_index
  <2>1. map[k] \in Nat
    BY Bounds DEF KeyMaps
  <2> QED
    BY <1>1, <2>1
<1> QED
  BY <1>1, <1>2

\* What is read of the lines of a page: all its keys or none.
LEMMA LinesRead ==
  ASSUME NEW r \in KeyFiles, NEW d, Shape(d), NEW num \in 0 .. MaxFile
  PROVE  /\ ReadLines(r, d, num) \in KeyFiles
         /\ \/ ReadLines(r, d, num).map = r.map
            \/ ReadLines(r, d, num).map = [k \in Key |-> IF k \in KeysOf(d) THEN num ELSE r.map[k]]
<1>1. r.map \in KeyMaps /\ r.reads \in Reading
  BY DEF KeyFiles
<1>2. CASE r.reads = "stopped"
  BY <1>2 DEF ReadLines
<1>3. CASE r.reads # "stopped"
  <2> DEFINE odd == IF r.reads = "number" THEN 1 ELSE 0
             Alone(i) == Cardinality({j \in 1 .. i - 1 : d[j].key = Empty}) + odd
             fails == {i \in Slot : d[i].key # Empty /\ Alone(i) % 2 = 1}
             before == {j \in Slot : \A n \in fails : j < n}
             read == {d[i].key : i \in before}
             goes == IF fails # {} THEN "stopped"
                     ELSE IF Alone(PAGE_SIZE + 1) % 2 = 1 THEN "number" ELSE "key"
             map == [k \in Key |-> IF k \in read THEN num ELSE r.map[k]]
  <2>1. ReadLines(r, d, num) = [map |-> map, reads |-> goes]
    BY <1>3 DEF ReadLines
  <2>2. ASSUME NEW i \in Slot, d[i].key # Empty
        PROVE  Alone(i) = odd
    <3>1. \A j \in 1 .. i - 1 : j \in Slot /\ j < i
      BY Bounds DEF Slot
    <3>2. {j \in 1 .. i - 1 : d[j].key = Empty} = {}
      BY <2>2, <3>1 DEF Shape
    <3>3. Cardinality({j \in 1 .. i - 1 : d[j].key = Empty}) = 0
      BY <3>2, FS_EmptySet, Zenon
    <3>4. odd \in Nat
      OBVIOUS
    <3> HIDE DEF odd
    <3> QED
      BY <3>3, <3>4
  <2> HIDE DEF Alone
  <2>3. map \in KeyMaps /\ goes \in Reading
    BY <1>1 DEF KeyMaps, Reading
  <2>4. CASE r.reads = "number"
    <3>1. 1 \in fails
      BY <2>2, <2>4, Bounds DEF Shape
    <3>2. before = {}
      BY <3>1, Bounds
    <3>3. map = r.map
      BY <1>1, <3>2 DEF KeyMaps
    <3> QED
      BY <2>1, <2>3, <3>3 DEF KeyFiles
  <2>5. CASE r.reads # "number"
    <3>1. fails = {}
      BY <2>2, <2>5
    <3>2. before = Slot
      BY <3>1
    <3>3. \A k \in Key : k \in read <=> k \in KeysOf(d)
      BY <3>2, Bounds DEF KeysOf
    <3>4. map = [k \in Key |-> IF k \in KeysOf(d) THEN num ELSE r.map[k]]
      BY <3>3
    <3> QED
      BY <2>1, <2>3, <3>4 DEF KeyFiles
  <2> QED
    BY <2>4, <2>5
<1> QED
  BY <1>2, <1>3

\* A map may get the keys of a page that are not in it.
LEMMA MapPushed ==
  ASSUME NEW s \in State, NEW L \in SUBSET Page, Apart(s, L), Numbered(s, L),
         NEW p \in L, NEW map \in KeyMaps, MapOK(map, s, L),
         \A l \in KeysOf(s.data[p]) : map[l] \in {0, s.file[p]},
         NEW new, new = [k \in Key |-> IF k \in KeysOf(s.data[p]) THEN s.file[p] ELSE map[k]]
  PROVE  new \in KeyMaps /\ MapOK(new, s, L)
<1> DEFINE d == s.data[p]
           num == s.file[p]
<1>1. d \in Contents /\ KeysOf(d) \in SUBSET Key /\ num \in 0 .. MaxFile
  BY KeysIn DEF State
<1>2. num \in 1 .. s.new_file_index /\ s.new_file_index \in 0 .. MaxFile
  BY DEF Numbered, State
<1>3. num # 0 /\ num <= s.new_file_index
  BY <1>2
<1>4. Content(s, L, num) = d /\ d # Nil
  BY <1>1, ContentIs, Bounds
<1>5. \A k \in KeysOf(d) : map[k] \in {0, num}
  OBVIOUS
<1>6. \A k \in Key : new[k] = IF k \in KeysOf(d) THEN num ELSE map[k]
  OBVIOUS
<1>7. new \in KeyMaps
  BY <1>1 DEF KeyMaps
<1> HIDE DEF d, num
<1>8. ASSUME NEW k \in Key, new[k] # 0
      PROVE  /\ new[k] <= s.new_file_index
             /\ Content(s, L, new[k]) # Nil /\ k \in KeysOf(Content(s, L, new[k]))
             /\ \A l \in KeysOf(Content(s, L, new[k])) : new[l] = new[k]
  <2>1. CASE k \in KeysOf(d)
    BY <1>1, <1>3, <1>4, <1>6, <2>1
  <2>2. CASE k \notin KeysOf(d)
    <3> DEFINE f == map[k]
    <3>1. new[k] = f /\ f # 0
      BY <1>6, <1>8, <2>2
    <3>2. /\ f <= s.new_file_index /\ Content(s, L, f) # Nil /\ k \in KeysOf(Content(s, L, f))
          /\ \A l \in KeysOf(Content(s, L, f)) : map[l] = f
      BY <3>1 DEF MapOK
    <3>3. f # num
      BY <1>4, <2>2, <3>2
    <3> HIDE DEF f
    <3>4. ASSUME NEW l \in KeysOf(Content(s, L, f))
          PROVE  new[l] = f
      <4>1. map[l] = f /\ l \notin KeysOf(d)
        BY <1>5, <3>1, <3>2, <3>3, <3>4
      <4>2. l \in Key
        <5>1. f \in 0 .. MaxFile
          BY DEF f, KeyMaps
        <5>2. f \in File
          BY <3>1, <5>1, Bounds DEF File
        <5>3. Content(s, L, f) \in Contents
          BY <3>2, <5>2, ContentType
        <5> QED
          BY <3>4, <5>3, KeysIn
      <4> QED
        BY <1>6, <4>1, <4>2
    <3> QED
      BY <3>1, <3>2, <3>4
  <2> QED
    BY <2>1, <2>2
<1> QED
  BY <1>7, <1>8 DEF MapOK

\* t is s but for the map of files.
ButMaps(s, t) ==
  /\ t.data = s.data /\ t.file = s.file /\ t.dirty = s.dirty /\ t.files = s.files
  /\ t.next = s.next /\ t.prev = s.prev /\ t.free = s.free /\ t.hash_map = s.hash_map
  /\ t.new_file_index = s.new_file_index /\ t.put_page = s.put_page
  /\ t.put_page_existed = s.put_page_existed /\ t.data_index = s.data_index

\* The map t.key_file_map has what that of s has.
MapGrows(s, t) == \A k \in Key : s.key_file_map[k] # 0 => t.key_file_map[k] = s.key_file_map[k]

AllMapped(s, L) == \A p \in L : KeysMapped(s, p)

\* push_key_to_keymap maps the keys of the put page, so that all keys are mapped.
LEMMA PushIs ==
  ASSUME NEW s \in State, NEW L \in SUBSET Page, DataOK(s, L), s.put_page \in L \cup {Nil},
         NEW t, t = push_key_to_keymap(s)
  PROVE  /\ t \in State /\ DataOK(t, L) /\ SameFiles(s, L, t, L) /\ ButMaps(s, t)
         /\ MapGrows(s, t) /\ AllMapped(t, L)
<1>1. CASE s.put_page = Nil
  <2>1. t = s /\ s.put_page \notin L
    BY <1>1, Ends DEF push_key_to_keymap
  <2>2. AllMapped(t, L)
    BY <1>1, <2>1 DEF DataOK, Mapped, AllMapped, KeysMapped
  <2> QED
    BY <2>1, <2>2 DEF SameFiles, ButMaps, MapGrows
<1>2. CASE s.put_page # Nil
  <2> DEFINE p == s.put_page
             d == s.data[p]
             num == s.file[p]
             m == [k \in Key |-> IF k \in KeysOf(d) THEN num ELSE s.key_file_map[k]]
             kf == ReadLines(s.key_file, d, num)
  <2>1. p \in L /\ p \in Page
    BY <1>2
  <2>2. d \in Contents /\ num \in 0 .. MaxFile /\ s.key_file_map \in KeyMaps /\ s.key_file \in KeyFiles
    BY <2>1 DEF State
  <2>3. t = [s EXCEPT !.key_file_map = m, !.key_file = kf]
    BY <1>2 DEF push_key_to_keymap
  <2>4. /\ Apart(s, L) /\ Numbered(s, L) /\ Mapped(s, L) /\ Shape(d)
        /\ MapOK(s.key_file_map, s, L) /\ MapOK(s.key_file.map, s, L)
        /\ \A k \in Key : s.key_file.map[k] \in {0, s.key_file_map[k]}
    BY <2>1 DEF DataOK, Shaped
  <2>5. KeysOf(d) \in SUBSET Key
    BY <2>2, KeysIn
  <2>6. \A k \in KeysOf(d) : s.key_file_map[k] \in {0, num}
    BY <2>1, <2>4 DEF Mapped
  <2>7. m \in KeyMaps /\ MapOK(m, s, L)
    BY <2>1, <2>2, <2>4, <2>6, MapPushed
  <2>8. kf \in KeyFiles /\ MapOK(kf.map, s, L) /\ \A k \in Key : kf.map[k] \in {0, m[k]}
    <3>1. /\ kf \in KeyFiles
          /\ \/ kf.map = s.key_file.map
             \/ kf.map = [k \in Key |-> IF k \in KeysOf(d) THEN num ELSE s.key_file.map[k]]
      BY <2>2, <2>4, LinesRead
    <3> HIDE DEF kf
    <3>2. CASE kf.map = s.key_file.map
      BY <2>4, <2>6, <3>1, <3>2
    <3>3. CASE kf.map = [k \in Key |-> IF k \in KeysOf(d) THEN num ELSE s.key_file.map[k]]
      <4>1. s.key_file.map \in KeyMaps
        BY <2>2 DEF KeyFiles
      <4>2. \A k \in KeysOf(d) : s.key_file.map[k] \in {0, num}
        BY <2>4, <2>5, <2>6
      <4>3. MapOK(kf.map, s, L)
        BY <2>1, <2>4, <3>3, <4>1, <4>2, MapPushed
      <4> QED
        BY <2>4, <3>1, <3>3, <4>3
    <3> QED
      BY <3>1, <3>2, <3>3
  <2> HIDE DEF kf, m
  <2>9. t \in State /\ ButMaps(s, t) /\ t.key_file_map = m /\ t.key_file = kf
    <3>1. t \in State
      BY <2>3, <2>7, <2>8 DEF State
    <3>2. t.key_file_map = m /\ t.key_file = kf
      BY <2>3 DEF State
    <3>3. ButMaps(s, t)
      BY <2>3 DEF ButMaps
    <3> QED
      BY <3>1, <3>2, <3>3
  <2>10. \A k \in Key : m[k] = IF k \in KeysOf(d) THEN num ELSE s.key_file_map[k]
    BY DEF m
  <2>11. MapGrows(s, t)
    BY <2>6, <2>9, <2>10 DEF MapGrows
  <2>12. KeysMapped(t, p)
    BY <2>5, <2>9, <2>10 DEF KeysMapped, ButMaps
  <2>13. SameFiles(s, L, t, L)
    <3>1. \A f : Content(t, L, f) = Content(s, L, f)
      BY <2>9 DEF ButMaps, Content, Holders
    <3>2. ASSUME NEW k \in Key
          PROVE  FileOf(t, L, k) = FileOf(s, L, k)
      <4>1. CASE k \in KeysOf(d)
        BY <2>1, <2>6, <2>9, <2>10, <4>1 DEF FileOf, ButMaps, File
      <4>2. CASE k \notin KeysOf(d)
        BY <2>9, <2>10, <4>2 DEF FileOf, ButMaps
      <4> QED
        BY <4>1, <4>2
    <3> QED
      BY <3>1, <3>2 DEF SameFiles
  <2>14. DataOK(t, L)
    <3>1. \A f : Content(t, L, f) = Content(s, L, f)
      BY <2>9 DEF ButMaps, Content, Holders
    <3>2. MapOK(t.key_file_map, t, L) /\ MapOK(t.key_file.map, t, L)
      BY <2>7, <2>8, <2>9, <3>1 DEF MapOK, ButMaps
    <3>3. Mapped(t, L)
      <4> SUFFICES ASSUME NEW q \in L, NEW k \in KeysOf(t.data[q])
                   PROVE  \/ t.key_file_map[k] = t.file[q]
                          \/ t.key_file_map[k] = 0 /\ t.put_page_existed /\ q = t.put_page
        BY DEF Mapped
      <4>1. t.data = s.data /\ t.file = s.file /\ t.put_page = p
            /\ t.put_page_existed = s.put_page_existed
        BY <2>9 DEF ButMaps
      <4>2. k \in Key
        BY <4>1, KeysIn DEF State
      <4>3. CASE k \in KeysOf(d)
        BY <2>1, <2>4, <2>9, <2>10, <4>1, <4>2, <4>3 DEF Apart
      <4>4. CASE k \notin KeysOf(d)
        BY <2>4, <2>9, <2>10, <4>1, <4>2, <4>4 DEF Mapped
      <4> QED
        BY <4>3, <4>4
    <3>4. \A k : Node(t, k) = Node(s, k)
      BY <2>9 DEF Node, ButMaps
    <3>5. Exact(t, L)
      BY <2>9, <3>4 DEF DataOK, Exact, ButMaps
    <3>6. Apart(t, L) /\ Numbered(t, L) /\ Clean(t, L) /\ Shaped(t, L)
      BY <2>9 DEF DataOK, Apart, Numbered, Clean, Shaped, ButMaps
    <3> QED
      BY <2>8, <2>9, <3>2, <3>3, <3>5, <3>6 DEF DataOK
  <2>15. AllMapped(t, L)
    <3>1. ASSUME NEW q \in L, q # p
          PROVE  KeysMapped(t, q)
      BY <2>9, <2>14, <3>1 DEF DataOK, Mapped, KeysMapped, ButMaps
    <3> QED
      BY <2>12, <3>1 DEF AllMapped
  <2> QED
    BY <2>9, <2>11, <2>13, <2>14, <2>15
<1> QED
  BY <1>1, <1>2

\* A put page whose keys are mapped may end.
LEMMA PutGone ==
  ASSUME NEW s \in State, NEW L \in SUBSET Page, DataOK(s, L), AllMapped(s, L),
         NEW t, t = [s EXCEPT !.put_page_existed = FALSE]
  PROVE  t \in State /\ DataOK(t, L) /\ SameFiles(s, L, t, L) /\ AllMapped(t, L) /\ PutOK(t, L)
<1>1. /\ t \in State /\ t.put_page_existed = FALSE
      /\ t.data = s.data /\ t.file = s.file /\ t.dirty = s.dirty
      /\ t.hash_map = s.hash_map /\ t.key_file_map = s.key_file_map
      /\ t.new_file_index = s.new_file_index
      /\ t.files = s.files /\ t.key_file = s.key_file
  BY DEF State
<1>2. \A f : Content(t, L, f) = Content(s, L, f)
  BY <1>1 DEF Content, Holders
<1>3. SameFiles(s, L, t, L)
  BY <1>1, <1>2 DEF SameFiles, FileOf
<1>4. AllMapped(t, L)
  BY <1>1 DEF AllMapped, KeysMapped
<1>5. Mapped(t, L)
  BY <1>4 DEF Mapped, AllMapped, KeysMapped
<1>6. MapOK(t.key_file_map, t, L) /\ MapOK(t.key_file.map, t, L)
  <2>1. ASSUME NEW map, MapOK(map, s, L)
        PROVE  MapOK(map, t, L)
    BY <1>1, <1>2, <2>1 DEF MapOK
  <2> QED
    BY <1>1, <2>1 DEF DataOK
<1>7. Exact(t, L)
  BY <1>1 DEF DataOK, Exact, Node
<1>8. Apart(t, L) /\ Numbered(t, L) /\ Clean(t, L) /\ Shaped(t, L)
  BY <1>1 DEF DataOK, Apart, Numbered, Clean, Shaped
<1>9. DataOK(t, L)
  BY <1>1, <1>5, <1>6, <1>7, <1>8 DEF DataOK
<1> QED
  BY <1>1, <1>3, <1>4, <1>9 DEF PutOK

\* A page leaves memory: it is in its file then, and its keys in no hash map.
LEMMA DropIs ==
  ASSUME NEW s \in State, NEW L \in SUBSET Page, DataOK(s, L), NEW p \in L, KeysMapped(s, p),
         s.put_page_existed => p # s.put_page, PutOK(s, L),
         NEW t, t = erase_page_of_cache(IF s.dirty[p] THEN save_page_to_file(s, p) ELSE s, p)
  PROVE  /\ t \in State /\ DataOK(t, L \ {p}) /\ SameFiles(s, L, t, L \ {p}) /\ PutOK(t, L \ {p})
         /\ AllMapped(s, L) => AllMapped(t, L \ {p})
         /\ t.next = s.next /\ t.prev = s.prev /\ t.free = s.free
         /\ t.put_page = s.put_page /\ t.new_file_index = s.new_file_index
         /\ t.put_page_existed = s.put_page_existed /\ t.key_file_map = s.key_file_map
         /\ \A k \in Key : s.hash_map[k] = Nil => t.hash_map[k] = Nil
<1> DEFINE M == L \ {p}
           d == s.data[p]
           num == s.file[p]
           hm == [k \in Key |-> IF k \in KeysOf(d) THEN Nil ELSE s.hash_map[k]]
           fs == [s.files EXCEPT ![num] = d]
           dt == [s.dirty EXCEPT ![p] = FALSE]
<1>1. /\ s.data \in [Page -> Contents] /\ s.files \in [File -> Contents \cup {Nil}]
      /\ s.dirty \in [Page -> BOOLEAN] /\ s.file \in [Page -> 0 .. MaxFile]
      /\ s.hash_map \in [Key -> (Page \X Slot) \cup {Nil}] /\ s.new_file_index \in 0 .. MaxFile
  BY DEF State
<1>2. /\ Exact(s, L) /\ Apart(s, L) /\ Numbered(s, L) /\ Clean(s, L) /\ Shaped(s, L)
      /\ MapOK(s.key_file_map, s, L) /\ MapOK(s.key_file.map, s, L) /\ Mapped(s, L)
      /\ \A k \in Key : s.key_file.map[k] \in {0, s.key_file_map[k]}
  BY DEF DataOK
<1>3. p \in Page /\ d \in Contents /\ Shape(d) /\ KeysOf(d) \in SUBSET Key
  BY <1>1, <1>2, KeysIn DEF Shaped
<1>4. num \in File /\ num <= s.new_file_index /\ num # 0
  BY <1>1, <1>2, Bounds DEF Numbered, File
<1>5. t = [s EXCEPT !.files = fs, !.dirty = dt, !.hash_map = hm]
  <2>1. CASE s.dirty[p]
    BY <2>1 DEF erase_page_of_cache, save_page_to_file, State
  <2>2. CASE ~s.dirty[p]
    <3>1. s.files[num] = d
      BY <1>2, <1>3, <2>2 DEF Clean
    <3>2. fs = s.files /\ dt = s.dirty
      BY <1>1, <1>3, <1>4, <2>2, <3>1
    <3>3. t = [s EXCEPT !.hash_map = hm]
      BY <2>2 DEF erase_page_of_cache, State
    <3> QED
      BY <3>2, <3>3 DEF State
  <2> QED
    BY <2>1, <2>2
<1>6. /\ fs \in [File -> Contents \cup {Nil}] /\ dt \in [Page -> BOOLEAN]
      /\ hm \in [Key -> (Page \X Slot) \cup {Nil}]
      /\ \A f \in File : fs[f] = IF f = num THEN d ELSE s.files[f]
      /\ \A q \in Page : dt[q] = IF q = p THEN FALSE ELSE s.dirty[q]
      /\ \A k \in Key : hm[k] = IF k \in KeysOf(d) THEN Nil ELSE s.hash_map[k]
  BY <1>1, <1>3, <1>4
<1> HIDE DEF fs, dt, hm
<1>7. /\ t \in State /\ t.files = fs /\ t.dirty = dt /\ t.hash_map = hm
      /\ t.data = s.data /\ t.file = s.file
      /\ t.next = s.next /\ t.prev = s.prev /\ t.free = s.free
      /\ t.put_page = s.put_page /\ t.new_file_index = s.new_file_index
      /\ t.put_page_existed = s.put_page_existed /\ t.key_file_map = s.key_file_map
      /\ t.key_file = s.key_file /\ t.data_index = s.data_index
  <2>1. /\ fs \in [File -> Contents \cup {Nil}] /\ dt \in [Page -> BOOLEAN]
        /\ hm \in [Key -> (Page \X Slot) \cup {Nil}]
    BY <1>6
  <2>2. t \in State
    BY <1>5, <2>1 DEF State
  <2>3. /\ t.files = fs /\ t.dirty = dt /\ t.hash_map = hm
        /\ t.data = s.data /\ t.file = s.file
        /\ t.next = s.next /\ t.prev = s.prev /\ t.free = s.free
    BY <1>5 DEF State
  <2>4. /\ t.put_page = s.put_page /\ t.new_file_index = s.new_file_index
        /\ t.put_page_existed = s.put_page_existed /\ t.key_file_map = s.key_file_map
        /\ t.key_file = s.key_file /\ t.data_index = s.data_index
    BY <1>5 DEF State
  <2> QED
    BY <2>2, <2>3, <2>4
<1>8. Apart(t, M)
  BY <1>2, <1>7 DEF Apart
<1>9. ASSUME NEW f \in File
      PROVE  Content(t, M, f) = Content(s, L, f)
  <2>1. CASE f = num
    <3>1. \A q \in M : t.file[q] # num
      BY <1>2, <1>7 DEF Apart
    <3>2. Content(t, M, num) = d
      BY <1>4, <1>6, <1>7, <1>8, <3>1, ContentIs
    <3> QED
      BY <1>2, <2>1, <3>2, ContentIs
  <2>2. CASE f # num /\ \E q \in M : s.file[q] = f
    BY <1>2, <1>7, <1>8, <2>2, ContentIs
  <2>3. CASE f # num /\ \A q \in M : s.file[q] # f
    <3>1. \A q \in L : s.file[q] # f
      BY <2>3
    <3>2. Content(s, L, f) = s.files[f] /\ Content(t, M, f) = t.files[f]
      BY <1>2, <1>7, <1>8, <2>3, <3>1, ContentIs
    <3> QED
      BY <1>6, <1>7, <2>3, <3>2
  <2> QED
    BY <2>1, <2>2, <2>3
<1>10. SameFiles(s, L, t, M)
  <2>1. ASSUME NEW k \in Key
        PROVE  FileOf(t, M, k) = FileOf(s, L, k)
    <3>1. \A f \in File : s.file[p] = f /\ k \in KeysOf(s.data[p]) => s.key_file_map[k] = f
      BY DEF KeysMapped
    <3> QED
      BY <1>7, <3>1 DEF FileOf
  <2> QED
    BY <1>9, <2>1 DEF SameFiles
<1>11. Exact(t, M)
  <2> SUFFICES ASSUME NEW k \in Key
               PROVE  IF t.hash_map[k] = Nil THEN \A q \in M : k \notin KeysOf(t.data[q])
                      ELSE t.hash_map[k][1] \in M /\ Node(t, k).key = k
    BY DEF Exact
  <2>1. CASE k \in KeysOf(d)
    BY <1>2, <1>6, <1>7, <2>1 DEF Apart
  <2>2. CASE k \notin KeysOf(d)
    <3>1. t.hash_map[k] = s.hash_map[k] /\ Node(t, k) = Node(s, k)
      BY <1>6, <1>7, <2>2 DEF Node
    <3>2. CASE s.hash_map[k] = Nil
      BY <1>2, <1>7, <3>1, <3>2 DEF Exact
    <3>3. CASE s.hash_map[k] # Nil
      <4>1. s.hash_map[k][1] \in L /\ Node(s, k).key = k
        BY <1>2, <3>3 DEF Exact
      <4>2. PICK q \in Page, j \in Slot : s.hash_map[k] = <<q, j>>
        BY <1>1, <3>3
      <4>3. s.data[q][j].key = k /\ s.hash_map[k][1] = q
        BY <4>1, <4>2 DEF Node
      <4>4. q # p
        BY <1>1, <2>2, <4>3, KeysIn, Bounds
      <4> QED
        BY <3>1, <3>3, <4>1, <4>3, <4>4
    <3> QED
      BY <3>2, <3>3
  <2> QED
    BY <2>1, <2>2
<1>12. Numbered(t, M)
  <2>1. \A q \in M : t.file[q] \in 1 .. t.new_file_index
    BY <1>2, <1>7 DEF Numbered
  <2>2. ASSUME NEW f \in File, f > s.new_file_index
        PROVE  fs[f] = Nil
    <3>1. f # num
      BY <1>1, <1>4, <2>2, Bounds DEF File
    <3> QED
      BY <1>2, <1>6, <2>2, <3>1 DEF Numbered
  <2> QED
    BY <1>7, <2>1, <2>2 DEF Numbered
<1>13. Clean(t, M)
  <2>1. \A q \in M : s.file[q] # num
    BY <1>2 DEF Apart
  <2>2. \A q \in M : s.file[q] \in File
    BY <1>1, <1>2, Bounds DEF Numbered, File
  <2>3. ASSUME NEW q \in M
        PROVE  t.dirty[q] \/ t.files[t.file[q]] = t.data[q]
    <3>1. s.dirty[q] \/ s.files[s.file[q]] = s.data[q]
      BY <1>2 DEF Clean
    <3>2. dt[q] = s.dirty[q] /\ fs[s.file[q]] = s.files[s.file[q]]
      BY <1>6, <2>1, <2>2
    <3> QED
      BY <1>7, <3>1, <3>2
  <2>4. ASSUME NEW q \in Page \ M
        PROVE  ~t.dirty[q]
    BY <1>2, <1>6, <1>7 DEF Clean
  <2> QED
    BY <2>3, <2>4 DEF Clean
<1>14. Shaped(t, M)
  <2>1. \A q \in M : Shape(t.data[q])
    BY <1>2, <1>7 DEF Shaped
  <2>2. \A f \in File : t.files[f] # Nil => Shape(t.files[f])
    BY <1>2, <1>3, <1>6, <1>7 DEF Shaped
  <2> QED
    BY <2>1, <2>2 DEF Shaped
<1>15. MapOK(t.key_file_map, t, M) /\ MapOK(t.key_file.map, t, M)
  <2>1. s.key_file_map \in KeyMaps /\ s.key_file.map \in KeyMaps
    BY DEF State, KeyFiles
  <2>2. ASSUME NEW map \in KeyMaps, MapOK(map, s, L)
        PROVE  MapOK(map, t, M)
    <3>1. \A k \in Key : map[k] # 0 => map[k] \in File
      BY Bounds DEF KeyMaps, File
    <3> QED
      BY <1>7, <1>9, <2>2, <3>1 DEF MapOK
  <2> QED
    BY <1>2, <1>7, <2>1, <2>2
<1>16. Mapped(t, M)
  BY <1>2, <1>7 DEF Mapped
<1>17. DataOK(t, M)
  BY <1>2, <1>7, <1>8, <1>11, <1>12, <1>13, <1>14, <1>15, <1>16 DEF DataOK
<1>18. PutOK(t, M)
  <2> SUFFICES ASSUME s.put_page_existed
               PROVE  PutOK(t, M)
    BY <1>7 DEF PutOK
  <2>1. /\ s.put_page \in L /\ s.data_index > 0
        /\ \A i \in Slot : i > s.data_index <=> s.data[s.put_page][i].key = Empty
        /\ s.data_index < PAGE_SIZE => Unmapped(s) \/ KeysMapped(s, s.put_page)
    BY DEF PutOK
  <2>2. s.put_page # p /\ s.put_page \in M /\ dt[s.put_page] = s.dirty[s.put_page]
    BY <1>6, <2>1
  <2>4. /\ t.data[t.put_page] = s.data[s.put_page] /\ t.put_page \in M
        /\ t.put_page = s.put_page /\ t.file = s.file
        /\ t.data_index = s.data_index /\ t.key_file_map = s.key_file_map
    BY <1>7, <2>2
  <2>9. t.dirty[t.put_page] = s.dirty[s.put_page]
    BY <1>7, <2>2, <2>4
  <2>3. Unmapped(s) => Unmapped(t)
    BY <2>4, <2>9, Zenon DEF Unmapped
  <2>5. KeysMapped(s, s.put_page) => KeysMapped(t, t.put_page)
    BY <2>4 DEF KeysMapped
  <2>6. t.put_page \in M /\ t.data_index > 0
    BY <2>1, <2>4
  <2>7. \A i \in Slot : i > t.data_index <=> t.data[t.put_page][i].key = Empty
    BY <2>1, <2>4
  <2>8. t.data_index < PAGE_SIZE => Unmapped(t) \/ KeysMapped(t, t.put_page)
    BY <2>1, <2>3, <2>4, <2>5
  <2> QED
    BY <2>6, <2>7, <2>8 DEF PutOK
<1>19. AllMapped(s, L) => AllMapped(t, M)
  BY <1>7 DEF AllMapped, KeysMapped
<1> QED
  BY <1>6, <1>7, <1>10, <1>17, <1>18, <1>19

-----------------------------------------------------------------------------
(* The whole state, between two calls and inside one.                      *)

Pages(s) == Listed(s) \cap Page
Free(s) == Range(s.free)

\* The list and the data are right, and S are the free pages, each once.
Good(s, S) ==
  /\ s \in State /\ ListOK(s) /\ DataOK(s, Pages(s)) /\ PutOK(s, Pages(s))
  /\ IsInjective(s.free) /\ Free(s) = S

\* As the cache is between two calls.
Whole(s) == Good(s, Page \ Listed(s)) /\ s.put_page \in Pages(s) \cup {Nil}

\* p has left the list, and is found in its file under all its keys.
Evicted(s, t, p) ==
  /\ Good(t, Page \ Listed(s)) /\ t.free = s.free
  /\ Listed(t) = Listed(s) \ {p} /\ SameFiles(s, Pages(s), t, Pages(t))
  /\ MapGrows(s, t) /\ (AllMapped(s, Pages(s)) => AllMapped(t, Pages(t)))
  /\ t.put_page = s.put_page /\ t.new_file_index = s.new_file_index
  /\ \A k \in Key : s.hash_map[k] = Nil => t.hash_map[k] = Nil

\* A page that is evicted is in its file, under all its keys.
LEMMA EvictIs ==
  ASSUME NEW s, Whole(s), NEW p \in Pages(s), NEW t, t = Evict(s, p)
  PROVE  Evicted(s, t, p)
<1> DEFINE L == Pages(s)
           u == IF p = s.put_page
                THEN push_key_to_keymap([s EXCEPT !.put_page_existed = FALSE]) ELSE s
           v == erase_page_of_cache(IF u.dirty[p] THEN save_page_to_file(u, p) ELSE u, p)
<1>1. /\ s \in State /\ ListOK(s) /\ DataOK(s, L) /\ PutOK(s, L) /\ L \in SUBSET Page
      /\ s.put_page \in L \cup {Nil} /\ p \in L /\ p \in Page /\ p \in Listed(s)
      /\ IsInjective(s.free) /\ Free(s) = Page \ Listed(s)
  BY DEF Whole, Good, Pages
<1>2. t = detach(v, p)
  BY DEF Evict
<1>3. /\ u \in State /\ DataOK(u, L) /\ SameFiles(s, L, u, L) /\ PutOK(u, L)
      /\ MapGrows(s, u) /\ KeysMapped(u, p) /\ (AllMapped(s, L) => AllMapped(u, L))
      /\ (u.put_page_existed => p # u.put_page)
      /\ u.next = s.next /\ u.prev = s.prev /\ u.free = s.free /\ u.put_page = s.put_page
      /\ u.new_file_index = s.new_file_index /\ u.hash_map = s.hash_map
  <2>1. CASE p = s.put_page
    <3> DEFINE w == push_key_to_keymap(s)
    <3>1. /\ w \in State /\ DataOK(w, L) /\ SameFiles(s, L, w, L) /\ ButMaps(s, w)
          /\ MapGrows(s, w) /\ AllMapped(w, L)
      BY <1>1, PushIs
    <3>2. u = [w EXCEPT !.put_page_existed = FALSE]
      BY <1>1, <2>1, Ends DEF push_key_to_keymap, State
    <3> HIDE DEF w, u
    <3>3. u \in State /\ DataOK(u, L) /\ SameFiles(w, L, u, L) /\ AllMapped(u, L) /\ PutOK(u, L)
      BY <1>1, <3>1, <3>2, PutGone
    <3>4. SameFiles(s, L, u, L)
      BY <3>1, <3>3, SameFilesTwice
    <3>5. /\ u.put_page_existed = FALSE /\ u.key_file_map = w.key_file_map
          /\ u.next = w.next /\ u.prev = w.prev /\ u.free = w.free /\ u.put_page = w.put_page
          /\ u.new_file_index = w.new_file_index /\ u.hash_map = w.hash_map
      BY <3>1, <3>2 DEF State
    <3>6. MapGrows(s, u) /\ KeysMapped(u, p)
      BY <1>1, <3>1, <3>3, <3>5 DEF MapGrows, AllMapped
    <3> QED
      BY <3>1, <3>3, <3>4, <3>5, <3>6 DEF ButMaps
  <2>2. CASE p # s.put_page
    <3>1. u = s
      BY <2>2
    <3> HIDE DEF u
    <3>2. KeysMapped(s, p)
      BY <1>1, <2>2 DEF DataOK, Mapped, KeysMapped
    <3>3. SameFiles(s, L, s, L) /\ MapGrows(s, s)
      BY DEF SameFiles, MapGrows
    <3> QED
      BY <1>1, <2>2, <3>1, <3>2, <3>3
  <2> QED
    BY <2>1, <2>2
<1> HIDE DEF u
<1>4. /\ v \in State /\ DataOK(v, L \ {p}) /\ SameFiles(u, L, v, L \ {p}) /\ PutOK(v, L \ {p})
      /\ AllMapped(u, L) => AllMapped(v, L \ {p})
      /\ v.next = u.next /\ v.prev = u.prev /\ v.free = u.free
      /\ v.put_page = u.put_page /\ v.new_file_index = u.new_file_index
      /\ v.put_page_existed = u.put_page_existed /\ v.key_file_map = u.key_file_map
      /\ \A k \in Key : u.hash_map[k] = Nil => v.hash_map[k] = Nil
  BY <1>1, <1>3, DropIs
<1> HIDE DEF v
<1>5. Listed(v) = Listed(s) /\ ListOK(v)
  BY <1>1, <1>3, <1>4, ListedIs DEF ListOK
<1>6. /\ t \in State /\ SameData(v, t) /\ t.free = v.free
      /\ Listed(t) = Listed(v) \ {p} /\ ListOK(t)
  BY <1>1, <1>2, <1>4, <1>5, DetachIs
<1>7. Pages(t) = L \ {p}
  BY <1>5, <1>6 DEF Pages
<1> HIDE DEF L
<1>8. DataOK(t, L \ {p}) /\ PutOK(t, L \ {p}) /\ SameFiles(v, L \ {p}, t, L \ {p})
  BY <1>4, <1>6, SameDataOK
<1>9. SameFiles(s, L, t, L \ {p})
  BY <1>3, <1>4, <1>8, SameFilesTwice
<1>10. AllMapped(s, L) => AllMapped(t, L \ {p})
  BY <1>3, <1>4, <1>6 DEF SameData, AllMapped, KeysMapped
<1>11. MapGrows(s, t)
  BY <1>3, <1>4, <1>6 DEF SameData, MapGrows
<1>12. Good(t, Page \ Listed(s))
  BY <1>1, <1>3, <1>4, <1>6, <1>7, <1>8 DEF Good, Free
<1>13. \A k \in Key : s.hash_map[k] = Nil => t.hash_map[k] = Nil
  BY <1>3, <1>4, <1>6 DEF SameData
<1>14. t.put_page = s.put_page /\ t.new_file_index = s.new_file_index
  BY <1>3, <1>4, <1>6 DEF SameData
<1> QED
  BY <1>3, <1>4, <1>5, <1>6, <1>7, <1>9, <1>10, <1>11, <1>12, <1>13, <1>14 DEF L, Evicted

\* The last of a sequence without repetitions is not in its front.
LEMMA FrontIs ==
  ASSUME NEW S, NEW f \in Seq(S), f # << >>, IsInjective(f)
  PROVE  /\ Last(f) \in S /\ Front(f) \in Seq(S) /\ IsInjective(Front(f))
         /\ Range(Front(f)) = Range(f) \ {Last(f)}
<1> DEFINE l == Len(f)
           g == Front(f)
<1>1. l \in Nat \ {0} /\ DOMAIN f = 1 .. l /\ \A n \in 1 .. l : f[n] \in S
  BY EmptySeq, LenProperties
<1>2. g \in Seq(S) /\ DOMAIN g = 1 .. l - 1 /\ \A n \in 1 .. l - 1 : g[n] = f[n]
  BY <1>1 DEF Front
<1>3. Last(f) = f[l] /\ f[l] \in S
  BY <1>1 DEF Last
<1>4. \A m, n \in 1 .. l : f[m] = f[n] => m = n
  BY <1>1 DEF IsInjective
<1> HIDE DEF l, g
<1>5. IsInjective(g)
  BY <1>1, <1>2, <1>4 DEF IsInjective
<1>6. ASSUME NEW x
      PROVE  (\E n \in 1 .. l - 1 : g[n] = x) <=> (\E n \in 1 .. l : f[n] = x) /\ x # f[l]
  BY <1>1, <1>2, <1>4
<1>7. {g[n] : n \in 1 .. l - 1} = {f[n] : n \in 1 .. l} \ {f[l]}
  BY <1>6
<1> QED
  BY <1>1, <1>2, <1>3, <1>5, <1>7 DEF g, Range

\* get_new_page gives a page that is neither free nor in the list.
LEMMA NewPageIs ==
  ASSUME NEW s, Whole(s), NEW p, p = NewPage(s), NEW t, t = get_new_page(s)
  PROVE  /\ p \in Page \ Listed(t) /\ Good(t, Page \ (Listed(t) \cup {p}))
         /\ Listed(t) \cup {p} = Listed(s) \cup {p}
         /\ SameFiles(s, Pages(s), t, Pages(t))
         /\ MapGrows(s, t) /\ (AllMapped(s, Pages(s)) => AllMapped(t, Pages(t)))
         /\ t.put_page = s.put_page /\ t.new_file_index = s.new_file_index
         /\ \A k \in Key : s.hash_map[k] = Nil => t.hash_map[k] = Nil
<1>1. /\ s \in State /\ ListOK(s) /\ DataOK(s, Pages(s)) /\ PutOK(s, Pages(s))
      /\ IsInjective(s.free) /\ Free(s) = Page \ Listed(s) /\ s.free \in Seq(Page)
      /\ s.next \in NextFns /\ s.prev \in PrevFns
  BY DEF Whole, Good, State
<1>2. CASE s.free = << >>
  <2>1. Free(s) = {}
    BY <1>2 DEF Free, Range
  <2>2. Page \subseteq Listed(s)
    BY <1>1, <2>1
  <2>3. t = Evict(s, p)
    BY <1>2 DEF get_new_page
  <2>4. p \in Page
    BY <1>1, <1>2, <2>2, ListedIs, LastOfList DEF ListOK, NewPage
  <2>5. p \in Pages(s)
    BY <2>2, <2>4 DEF Pages
  <2>6. Evicted(s, t, p)
    BY <2>3, <2>5, EvictIs
  <2>7. Page \ (Listed(t) \cup {p}) = Page \ Listed(s)
    BY <2>2, <2>6 DEF Evicted
  <2> QED
    BY <2>2, <2>4, <2>6, <2>7 DEF Evicted
<1>3. CASE s.free # << >>
  <2>1. p = Last(s.free) /\ t = [s EXCEPT !.free = Front(s.free)]
    BY <1>3 DEF NewPage, get_new_page
  <2>2. /\ p \in Page /\ Front(s.free) \in Seq(Page) /\ IsInjective(Front(s.free))
        /\ Range(Front(s.free)) = Free(s) \ {p}
    BY <1>1, <1>3, <2>1, FrontIs DEF Free
  <2>3. p \in Free(s)
    BY <1>1, <1>3, <2>1, EmptySeq, LenProperties DEF Free, Range, Last
  <2>4. /\ t \in State /\ SameData(s, t) /\ t.next = s.next /\ t.prev = s.prev
        /\ t.free = Front(s.free)
    BY <1>1, <2>1, <2>2 DEF State, SameData
  <2>5. Listed(t) = Listed(s) /\ Pages(t) = Pages(s) /\ ListOK(t)
    BY <1>1, <2>4, ListedIs DEF ListOK, Pages
  <2>6. DataOK(t, Pages(t)) /\ PutOK(t, Pages(t)) /\ SameFiles(s, Pages(s), t, Pages(t))
    BY <1>1, <2>4, <2>5, SameDataOK
  <2>7. Free(t) = Page \ (Listed(t) \cup {p})
    BY <1>1, <2>2, <2>4, <2>5 DEF Free
  <2>8. Good(t, Page \ (Listed(t) \cup {p}))
    BY <2>2, <2>4, <2>5, <2>6, <2>7 DEF Good
  <2>9. MapGrows(s, t) /\ (AllMapped(s, Pages(s)) => AllMapped(t, Pages(t)))
    BY <2>4, <2>5 DEF MapGrows, SameData, AllMapped, KeysMapped
  <2>10. p \notin Listed(t)
    BY <1>1, <2>3, <2>5
  <2> QED
    BY <2>2, <2>4, <2>5, <2>6, <2>8, <2>9, <2>10 DEF SameData
<1> QED
  BY <1>2, <1>3

\* The same list, free pages and put page.
SameLinks(s, t) ==
  t.next = s.next /\ t.prev = s.prev /\ t.free = s.free /\ t.put_page = s.put_page

\* A file that a key is mapped to is loaded into a page that is not in use.
LEMMA LoadIs ==
  ASSUME NEW s \in State, NEW L \in SUBSET Page, DataOK(s, L), PutOK(s, L), NEW p \in Page \ L,
         NEW k \in Key, s.key_file_map[k] # 0, s.hash_map[k] = Nil,
         NEW t, t = load_file_to_page(s, s.key_file_map[k], p)
  PROVE  /\ t \in State /\ DataOK(t, L \cup {p}) /\ SameFiles(s, L, t, L \cup {p})
         /\ PutOK(t, L \cup {p}) /\ t.hash_map[k] # Nil
         /\ SameLinks(s, t)
<1> DEFINE M == L \cup {p}
           g == s.key_file_map[k]
           d == s.files[g]
           At(l) == <<p, CHOOSE i \in Slot : d[i].key = l>>
           hm == [l \in Key |-> IF l \in KeysOf(d) THEN At(l) ELSE s.hash_map[l]]
           dt == [s.data EXCEPT ![p] = d]
           fl == [s.file EXCEPT ![p] = g]
<1>1. /\ s.data \in [Page -> Contents] /\ s.files \in [File -> Contents \cup {Nil}]
      /\ s.dirty \in [Page -> BOOLEAN] /\ s.file \in [Page -> 0 .. MaxFile]
      /\ s.hash_map \in [Key -> (Page \X Slot) \cup {Nil}] /\ s.new_file_index \in 0 .. MaxFile
      /\ s.key_file_map \in KeyMaps /\ s.key_file.map \in KeyMaps
  BY DEF State, KeyFiles
<1>2. /\ Exact(s, L) /\ Apart(s, L) /\ Numbered(s, L) /\ Clean(s, L) /\ Shaped(s, L)
      /\ MapOK(s.key_file_map, s, L) /\ MapOK(s.key_file.map, s, L) /\ Mapped(s, L)
      /\ \A l \in Key : s.key_file.map[l] \in {0, s.key_file_map[l]}
  BY DEF DataOK
<1>3. g \in File /\ g # 0 /\ g <= s.new_file_index
  <2>1. g \in 0 .. MaxFile
    BY <1>1 DEF KeyMaps
  <2> QED
    BY <1>2, <2>1, Bounds DEF MapOK, File
<1>4. /\ Content(s, L, g) # Nil /\ k \in KeysOf(Content(s, L, g))
      /\ \A l \in KeysOf(Content(s, L, g)) : s.key_file_map[l] = g
  BY <1>2, <1>3 DEF MapOK
<1>5. \A q \in L : s.file[q] # g
  <2>1. \A q \in L : k \notin KeysOf(s.data[q])
    BY <1>2 DEF Exact
  <2> QED
    BY <1>2, <1>4, <2>1, ContentIs
<1>6. Content(s, L, g) = d
  BY <1>2, <1>5, ContentIs
<1>7. /\ d \in Contents /\ d # Nil /\ Shape(d) /\ k \in KeysOf(d) /\ KeysOf(d) \in SUBSET Key
      /\ \A l \in KeysOf(d) : s.key_file_map[l] = g
  <2>1. d # Nil /\ d \in Contents
    BY <1>1, <1>3, <1>4, <1>6
  <2> QED
    BY <1>2, <1>3, <1>4, <1>6, <2>1, KeysIn DEF Shaped
<1>8. t = [s EXCEPT !.file = fl, !.data = dt, !.hash_map = hm]
  BY <1>7 DEF load_file_to_page
<1>9. \A l \in KeysOf(d) : \E i \in Slot : At(l) = <<p, i>> /\ d[i].key = l
  <2> SUFFICES ASSUME NEW l \in KeysOf(d)
               PROVE  \E i \in Slot : At(l) = <<p, i>> /\ d[i].key = l
    OBVIOUS
  <2>1. \E i \in Slot : d[i].key = l
    BY <1>7, KeysIn
  <2> DEFINE j == CHOOSE i \in Slot : d[i].key = l
  <2>2. j \in Slot /\ d[j].key = l
    BY <2>1
  <2> QED
    BY <2>2
<1> HIDE DEF At, d, g
<1>10. /\ fl \in [Page -> 0 .. MaxFile] /\ dt \in [Page -> Contents]
       /\ hm \in [Key -> (Page \X Slot) \cup {Nil}]
  <2>1. \A l \in KeysOf(d) : At(l) \in Page \X Slot
    BY <1>9
  <2>2. g \in 0 .. MaxFile
    BY <1>3, Bounds DEF File
  <2> QED
    BY <1>1, <1>7, <2>1, <2>2
<1>11. /\ \A q \in Page : fl[q] = IF q = p THEN g ELSE s.file[q]
       /\ \A q \in Page : dt[q] = IF q = p THEN d ELSE s.data[q]
       /\ \A l \in Key : hm[l] = IF l \in KeysOf(d) THEN At(l) ELSE s.hash_map[l]
  BY <1>1
<1> HIDE DEF fl, dt, hm
<1>12. /\ t \in State /\ t.file = fl /\ t.data = dt /\ t.hash_map = hm
       /\ t.files = s.files /\ t.dirty = s.dirty
       /\ t.next = s.next /\ t.prev = s.prev /\ t.free = s.free
       /\ t.put_page = s.put_page /\ t.new_file_index = s.new_file_index
       /\ t.put_page_existed = s.put_page_existed /\ t.key_file_map = s.key_file_map
       /\ t.key_file = s.key_file /\ t.data_index = s.data_index
  <2>1. t \in State
    BY <1>8, <1>10, ZenonT(40) DEF State
  <2>2. /\ t.file = fl /\ t.data = dt /\ t.hash_map = hm
        /\ t.files = s.files /\ t.dirty = s.dirty
        /\ t.next = s.next /\ t.prev = s.prev /\ t.free = s.free
    BY <1>8 DEF State
  <2>3. /\ t.put_page = s.put_page /\ t.new_file_index = s.new_file_index
        /\ t.put_page_existed = s.put_page_existed /\ t.key_file_map = s.key_file_map
        /\ t.key_file = s.key_file /\ t.data_index = s.data_index
    BY <1>8 DEF State
  <2> QED
    BY <2>1, <2>2, <2>3
<1>13. /\ t.file[p] = g /\ t.data[p] = d
       /\ \A q \in L : q # p /\ t.file[q] = s.file[q] /\ t.data[q] = s.data[q]
  BY <1>11, <1>12
<1>14. \A q \in L : KeysOf(s.data[q]) \cap KeysOf(d) = {}
  <2> SUFFICES ASSUME NEW q \in L, NEW l \in KeysOf(s.data[q]), l \in KeysOf(d)
               PROVE  FALSE
    OBVIOUS
  <2>1. s.key_file_map[l] = g
    BY <1>7
  <2>2. s.key_file_map[l] = s.file[q] \/ s.key_file_map[l] = 0
    BY <1>2 DEF Mapped
  <2> QED
    BY <1>3, <1>5, <2>1, <2>2
<1>15. Apart(t, M)
  BY <1>2, <1>5, <1>13, <1>14 DEF Apart
<1>16. ASSUME NEW f \in File
       PROVE  Content(t, M, f) = Content(s, L, f)
  <2>1. CASE f = g
    BY <1>6, <1>13, <1>15, <2>1, ContentIs
  <2>2. CASE f # g /\ \E q \in L : s.file[q] = f
    BY <1>2, <1>13, <1>15, <2>2, ContentIs
  <2>3. CASE f # g /\ \A q \in L : s.file[q] # f
    <3>1. \A q \in M : t.file[q] # f
      BY <1>13, <2>3
    <3>2. Content(s, L, f) = s.files[f] /\ Content(t, M, f) = t.files[f]
      BY <1>2, <1>15, <2>3, <3>1, ContentIs
    <3> QED
      BY <1>12, <3>2
  <2> QED
    BY <2>1, <2>2, <2>3
<1>17. SameFiles(s, L, t, M)
  <2>1. ASSUME NEW l \in Key
        PROVE  FileOf(t, M, l) = FileOf(s, L, l)
    <3>1. l \in KeysOf(t.data[p]) => s.key_file_map[l] = t.file[p]
      BY <1>7, <1>13
    <3> QED
      BY <1>12, <1>13, <3>1 DEF FileOf
  <2> QED
    BY <1>16, <2>1 DEF SameFiles
<1>18. Exact(t, M)
  <2> SUFFICES ASSUME NEW l \in Key
               PROVE  IF t.hash_map[l] = Nil THEN \A q \in M : l \notin KeysOf(t.data[q])
                      ELSE t.hash_map[l][1] \in M /\ Node(t, l).key = l
    BY DEF Exact
  <2>1. CASE l \in KeysOf(d)
    <3>1. PICK i \in Slot : t.hash_map[l] = <<p, i>> /\ d[i].key = l
      BY <1>9, <1>11, <1>12, <2>1
    <3>2. t.hash_map[l] # Nil /\ t.hash_map[l][1] = p
      BY <3>1, Bounds
    <3>3. Node(t, l) = d[i]
      BY <1>13, <3>1 DEF Node
    <3> QED
      BY <3>1, <3>2, <3>3
  <2>2. CASE l \notin KeysOf(d)
    <3>1. t.hash_map[l] = s.hash_map[l]
      BY <1>11, <1>12, <2>2
    <3>2. CASE s.hash_map[l] = Nil
      BY <1>2, <1>13, <2>2, <3>1, <3>2 DEF Exact
    <3>3. CASE s.hash_map[l] # Nil
      <4>1. s.hash_map[l][1] \in L /\ Node(s, l).key = l
        BY <1>2, <3>3 DEF Exact
      <4>2. Node(t, l) = Node(s, l)
        BY <1>13, <3>1, <4>1 DEF Node
      <4> QED
        BY <3>1, <3>3, <4>1, <4>2
    <3> QED
      BY <3>2, <3>3
  <2> QED
    BY <2>1, <2>2
<1>19. Numbered(t, M)
  <2>1. g \in 1 .. s.new_file_index
    BY <1>1, <1>3, Bounds DEF File
  <2> QED
    BY <1>2, <1>12, <1>13, <2>1 DEF Numbered
<1>20. Clean(t, M)
  <2>1. ASSUME NEW q \in M
        PROVE  t.dirty[q] \/ t.files[t.file[q]] = t.data[q]
    BY <1>2, <1>12, <1>13 DEF Clean, d
  <2>2. ASSUME NEW q \in Page \ M
        PROVE  ~t.dirty[q]
    BY <1>2, <1>12 DEF Clean
  <2> QED
    BY <2>1, <2>2 DEF Clean
<1>21. Shaped(t, M)
  BY <1>2, <1>7, <1>12, <1>13 DEF Shaped
<1>22. MapOK(t.key_file_map, t, M) /\ MapOK(t.key_file.map, t, M)
  <2>1. ASSUME NEW map \in KeyMaps, MapOK(map, s, L)
        PROVE  MapOK(map, t, M)
    <3>1. \A l \in Key : map[l] # 0 => map[l] \in File
      BY Bounds DEF KeyMaps, File
    <3> QED
      BY <1>12, <1>16, <2>1, <3>1 DEF MapOK
  <2> QED
    BY <1>1, <1>2, <1>12, <2>1
<1>23. Mapped(t, M)
  BY <1>2, <1>7, <1>12, <1>13 DEF Mapped
<1>24. DataOK(t, M)
  BY <1>2, <1>12, <1>15, <1>18, <1>19, <1>20, <1>21, <1>22, <1>23 DEF DataOK
<1>25. PutOK(t, M)
  <2> SUFFICES ASSUME s.put_page_existed
               PROVE  PutOK(t, M)
    BY <1>12 DEF PutOK
  <2>1. s.put_page \in L
    BY DEF PutOK
  <2>2. t.data[t.put_page] = s.data[s.put_page] /\ t.put_page \in M
    BY <1>12, <1>13, <2>1
  <2>3. t.dirty[t.put_page] <=> s.dirty[s.put_page]
    BY <1>12
  <2>4. t.data_index = s.data_index /\ t.key_file_map = s.key_file_map
    BY <1>12
  <2>5. t.put_page = s.put_page /\ t.file[s.put_page] = s.file[s.put_page]
    BY <1>12, <1>13, <2>1
  <2>6. Unmapped(s) => Unmapped(t)
    BY <2>2, <2>3, <2>4, Zenon DEF Unmapped
  <2>7. KeysMapped(s, s.put_page) => KeysMapped(t, t.put_page)
    BY <2>2, <2>4, <2>5 DEF KeysMapped
  <2> QED
    BY <2>2, <2>4, <2>6, <2>7, ZenonT(20) DEF PutOK
<1>26. t.hash_map[k] # Nil
  <2>1. PICK i \in Slot : t.hash_map[k] = <<p, i>>
    BY <1>7, <1>9, <1>11, <1>12
  <2> QED
    BY <2>1, Bounds
<1> QED
  BY <1>12, <1>17, <1>24, <1>25, <1>26 DEF SameLinks

\* A page of the list goes to the front.
LEMMA FrontOfWhole ==
  ASSUME NEW s, Whole(s), NEW p \in Pages(s), NEW t, t = ToFront(s, p)
  PROVE  Whole(t) /\ SameData(s, t) /\ Pages(t) = Pages(s) /\ SameFiles(s, Pages(s), t, Pages(t))
<1>1. /\ s \in State /\ ListOK(s) /\ p \in Page \cap Listed(s)
      /\ DataOK(s, Pages(s)) /\ PutOK(s, Pages(s))
      /\ IsInjective(s.free) /\ Free(s) = Page \ Listed(s)
  BY DEF Whole, Good, Pages
<1>2. /\ t \in State /\ SameData(s, t) /\ t.free = s.free
      /\ Listed(t) = Listed(s) /\ ListOK(t)
  BY <1>1, ToFrontIs
<1>3. Pages(t) = Pages(s)
  BY <1>2 DEF Pages
<1>4. DataOK(t, Pages(s)) /\ PutOK(t, Pages(s)) /\ SameFiles(s, Pages(s), t, Pages(s))
  BY <1>1, <1>2, SameDataOK
<1>5. Whole(t)
  BY <1>1, <1>2, <1>3, <1>4 DEF Whole, Good, Free, SameData
<1> QED
  BY <1>2, <1>3, <1>4, <1>5

\* search brings the page of a key to the front, and finds every key that has a
\* file.
LEMMA SearchIs ==
  ASSUME NEW s, Whole(s), NEW k \in Key, NEW t, t = search(s, k)
  PROVE  /\ Whole(t) /\ SameFiles(s, Pages(s), t, Pages(t))
         /\ t.hash_map[k] = Nil => t.key_file_map[k] = 0
<1>1. /\ s \in State /\ DataOK(s, Pages(s)) /\ Exact(s, Pages(s))
  BY DEF Whole, Good, DataOK
<1>2. CASE s.hash_map[k] # Nil
  <2>1. s.hash_map[k][1] \in Pages(s) /\ t = ToFront(s, s.hash_map[k][1])
    BY <1>1, <1>2 DEF Exact, search
  <2>2. Whole(t) /\ SameFiles(s, Pages(s), t, Pages(t)) /\ SameData(s, t)
    BY <2>1, FrontOfWhole
  <2> QED
    BY <1>2, <2>2 DEF SameData
<1>3. CASE s.hash_map[k] = Nil /\ s.key_file_map[k] = 0
  <2>1. t = s
    BY <1>3 DEF search
  <2> QED
    BY <1>3, <2>1 DEF SameFiles
<1>4. CASE s.hash_map[k] = Nil /\ s.key_file_map[k] # 0
  <2> DEFINE p == NewPage(s)
             u == get_new_page(s)
             v == load_file_to_page(u, s.key_file_map[k], p)
  <2>1. /\ p \in Page \ Listed(u) /\ Good(u, Page \ (Listed(u) \cup {p}))
        /\ Listed(u) \cup {p} = Listed(s) \cup {p}
        /\ SameFiles(s, Pages(s), u, Pages(u))
        /\ MapGrows(s, u) /\ u.put_page = s.put_page
        /\ \A l \in Key : s.hash_map[l] = Nil => u.hash_map[l] = Nil
    BY NewPageIs
  <2>2. t = IF v.hash_map[k] # Nil THEN attach(v, p) ELSE v
    BY <1>4 DEF search, SearchFile
  <2> HIDE DEF p, u
  <2>3. /\ u \in State /\ DataOK(u, Pages(u)) /\ PutOK(u, Pages(u)) /\ ListOK(u)
        /\ IsInjective(u.free) /\ Free(u) = Page \ (Listed(u) \cup {p})
    BY <2>1 DEF Good
  <2>4. u.key_file_map[k] = s.key_file_map[k] /\ u.key_file_map[k] # 0 /\ u.hash_map[k] = Nil
    BY <1>4, <2>1 DEF MapGrows
  <2>5. v = load_file_to_page(u, u.key_file_map[k], p)
    BY <2>4
  <2> HIDE DEF v
  <2>6. p \in Page \ Pages(u) /\ Pages(u) \in SUBSET Page
    BY <2>1 DEF Pages
  <2> DEFINE M == Pages(u) \cup {p}
  <2>7. /\ v \in State /\ DataOK(v, M) /\ SameFiles(u, Pages(u), v, M)
        /\ PutOK(v, M) /\ v.hash_map[k] # Nil
        /\ v.next = u.next /\ v.prev = u.prev /\ v.free = u.free /\ v.put_page = u.put_page
    <3>1. /\ v \in State /\ DataOK(v, M) /\ SameFiles(u, Pages(u), v, M)
          /\ PutOK(v, M) /\ v.hash_map[k] # Nil /\ SameLinks(u, v)
      BY <2>3, <2>4, <2>5, <2>6, LoadIs
    <3> QED
      BY <3>1 DEF SameLinks
  <2>8. ListOK(v) /\ Listed(v) = Listed(u) /\ p \in Page \ Listed(v) /\ t = attach(v, p)
    BY <2>1, <2>2, <2>3, <2>7, ListedIs DEF ListOK
  <2>9. /\ t \in State /\ SameData(v, t) /\ t.free = v.free
        /\ Listed(t) = Listed(v) \cup {p} /\ ListOK(t)
    BY <2>7, <2>8, AttachIs
  <2>10. Pages(t) = M /\ Listed(t) = Listed(s) \cup {p}
    BY <2>1, <2>8, <2>9 DEF Pages
  <2> HIDE DEF M
  <2>11. DataOK(t, M) /\ PutOK(t, M) /\ SameFiles(v, M, t, M)
    BY <2>7, <2>9, SameDataOK
  <2>12. SameFiles(s, Pages(s), t, M)
    BY <2>1, <2>7, <2>11, SameFilesTwice
  <2>13. Free(t) = Page \ Listed(t) /\ IsInjective(t.free)
    BY <2>1, <2>3, <2>7, <2>8, <2>9 DEF Free
  <2>14. t.put_page \in Pages(t) \cup {Nil}
    BY <2>1, <2>7, <2>9, <2>10 DEF Whole, SameData, Pages
  <2>15. Whole(t)
    BY <2>9, <2>10, <2>11, <2>13, <2>14 DEF Whole, Good
  <2> QED
    BY <2>7, <2>9, <2>10, <2>12, <2>15 DEF SameData
<1> QED
  BY <1>2, <1>3, <1>4

\* What keeps the files keeps the values.
LEMMA SameFilesValue ==
  ASSUME NEW s \in State, NEW L \in SUBSET Page, DataOK(s, L),
         NEW t \in State, NEW M \in SUBSET Page, DataOK(t, M), SameFiles(s, L, t, M), NEW k \in Key
  PROVE  ValueOf(t, k) = ValueOf(s, k)
<1>1. FileOf(t, M, k) = FileOf(s, L, k)
  BY DEF SameFiles
<1>2. \A f \in FileOf(s, L, k) : Content(t, M, f) = Content(s, L, f)
  BY DEF SameFiles, FileOf
<1> QED
  BY <1>1, <1>2, SameValue

\* A page with another value in a node.
LEMMA NewValue ==
  ASSUME NEW d \in Contents, Shape(d), NEW i \in Slot, NEW v \in Value,
         NEW e, e = [d EXCEPT ![i].value = v]
  PROVE  /\ e \in Contents /\ Shape(e) /\ KeysOf(e) = KeysOf(d) /\ e[i].value = v
         /\ \A j \in Slot : e[j].key = d[j].key /\ (j # i => e[j] = d[j])
<1> DEFINE n == [d[i] EXCEPT !.value = v]
<1>1. d[i] \in [key : Key \cup {Empty}, value : Value \cup {Empty}]
  BY DEF Contents
<1>2. /\ n \in [key : Key \cup {Empty}, value : Value \cup {Empty}]
      /\ n.key = d[i].key /\ n.value = v
  BY <1>1
<1>3. e = [d EXCEPT ![i] = n]
  OBVIOUS
<1> HIDE DEF n
<1>4. e \in Contents /\ \A j \in Slot : e[j] = IF j = i THEN n ELSE d[j]
  BY <1>2, <1>3 DEF Contents
<1>5. \A j \in Slot : e[j].key = d[j].key /\ (j # i => e[j] = d[j])
  BY <1>2, <1>4
<1>6. Shape(e)
  BY <1>4, <1>5, Bounds DEF Shape
<1>7. KeysOf(e) = KeysOf(d)
  BY <1>5 DEF KeysOf
<1> QED
  BY <1>2, <1>4, <1>5, <1>6, <1>7

\* put of a key that is in memory changes its value and no other.
LEMMA OverwriteIs ==
  ASSUME NEW s, Whole(s), NEW k \in Key, NEW v \in Value, s.hash_map[k] # Nil,
         NEW t, t = Overwrite(s, k, v)
  PROVE  Whole(t) /\ \A l \in Key : ValueOf(t, l) = IF l = k THEN v ELSE ValueOf(s, l)
<1> DEFINE L == Pages(s)
<1>1. /\ s \in State /\ ListOK(s) /\ DataOK(s, L) /\ PutOK(s, L) /\ L \in SUBSET Page
      /\ s.put_page \in L \cup {Nil}
      /\ IsInjective(s.free) /\ Free(s) = Page \ Listed(s)
  BY DEF Whole, Good, Pages
<1>2. /\ s.data \in [Page -> Contents] /\ s.files \in [File -> Contents \cup {Nil}]
      /\ s.dirty \in [Page -> BOOLEAN] /\ s.file \in [Page -> 0 .. MaxFile]
      /\ s.hash_map \in [Key -> (Page \X Slot) \cup {Nil}] /\ s.new_file_index \in 0 .. MaxFile
      /\ s.key_file_map \in KeyMaps /\ s.key_file.map \in KeyMaps
  BY <1>1 DEF State, KeyFiles
<1>3. /\ Exact(s, L) /\ Apart(s, L) /\ Numbered(s, L) /\ Clean(s, L) /\ Shaped(s, L)
      /\ MapOK(s.key_file_map, s, L) /\ MapOK(s.key_file.map, s, L) /\ Mapped(s, L)
      /\ \A l \in Key : s.key_file.map[l] \in {0, s.key_file_map[l]}
  BY <1>1 DEF DataOK
<1>4. PICK p \in Page, i \in Slot : s.hash_map[k] = <<p, i>>
  BY <1>2
<1> DEFINE d == s.data[p]
           e == [d EXCEPT ![i].value = v]
<1>5. p \in L /\ d[i].key = k /\ Node(s, k) = d[i]
  <2>1. s.hash_map[k][1] \in L /\ Node(s, k).key = k
    BY <1>3 DEF Exact
  <2>2. s.hash_map[k][1] = p /\ s.hash_map[k][2] = i
    BY <1>4
  <2> QED
    BY <2>1, <2>2 DEF Node
<1>6. CASE d[i].value = v
  <2>1. t = s
    BY <1>5, <1>6 DEF Overwrite
  <2>2. ValueOf(s, k) = v
    BY <1>5, <1>6 DEF ValueOf
  <2> QED
    BY <2>1, <2>2
<1>7. CASE d[i].value # v
  <2> DEFINE dt == [s.data EXCEPT ![p] = e]
             di == [s.dirty EXCEPT ![p] = TRUE]
  <2>1. t = [s EXCEPT !.data = dt, !.dirty = di]
    <3>1. t = [s EXCEPT !.data[p][i].value = v, !.dirty[p] = TRUE]
      BY <1>4, <1>5, <1>7 DEF Overwrite
    <3> QED
      BY <1>1, <3>1 DEF State
  <2>2. d \in Contents /\ Shape(d)
    BY <1>2, <1>3, <1>5 DEF Shaped
  <2> HIDE DEF d
  <2>3. /\ e \in Contents /\ Shape(e) /\ KeysOf(e) = KeysOf(d) /\ e[i].value = v
        /\ \A j \in Slot : e[j].key = d[j].key /\ (j # i => e[j] = d[j])
    <3>1. e \in Contents /\ Shape(e) /\ KeysOf(e) = KeysOf(d)
      BY <2>2, NewValue
    <3>2. e[i].value = v
      <4>1. d[i] \in [key : Key \cup {Empty}, value : Value \cup {Empty}]
        BY <2>2 DEF Contents
      <4> QED
        BY <2>2, <4>1 DEF e, Contents
    <3>3. \A j \in Slot : e[j].key = d[j].key /\ (j # i => e[j] = d[j])
      BY <2>2, NewValue
    <3> QED
      BY <3>1, <3>2, <3>3
  <2> HIDE DEF e
  <2>4. /\ dt \in [Page -> Contents] /\ di \in [Page -> BOOLEAN]
        /\ \A q \in Page : dt[q] = IF q = p THEN e ELSE s.data[q]
        /\ \A q \in Page : di[q] = IF q = p THEN TRUE ELSE s.dirty[q]
    BY <1>2, <2>3
  <2> HIDE DEF dt, di
  <2>5. /\ t \in State /\ t.data = dt /\ t.dirty = di /\ t.file = s.file /\ t.files = s.files
        /\ t.hash_map = s.hash_map /\ t.next = s.next /\ t.prev = s.prev /\ t.free = s.free
        /\ t.put_page = s.put_page /\ t.new_file_index = s.new_file_index
        /\ t.put_page_existed = s.put_page_existed /\ t.key_file_map = s.key_file_map
        /\ t.key_file = s.key_file /\ t.data_index = s.data_index
    BY <1>1, <2>1, <2>4, ZenonT(40) DEF State
  <2>6. \A q \in L : /\ t.data[q] = IF q = p THEN e ELSE s.data[q]
                    /\ t.dirty[q] = IF q = p THEN TRUE ELSE s.dirty[q]
    BY <1>1, <2>4, <2>5
  <2>7. \A q \in L : /\ KeysOf(t.data[q]) = KeysOf(s.data[q])
                     /\ \A j \in Slot : t.data[q][j].key = s.data[q][j].key
    BY <2>3, <2>6 DEF d
  <2>8. Apart(t, L)
    <3>1. \A q \in L : t.file[q] = s.file[q] /\ KeysOf(t.data[q]) = KeysOf(s.data[q])
      BY <2>5, <2>7
    <3> QED
      BY <1>3, <3>1 DEF Apart
  <2>9. ASSUME NEW f \in File
        PROVE  IF f = s.file[p] THEN Content(t, L, f) = e /\ Content(s, L, f) = d
               ELSE Content(t, L, f) = Content(s, L, f)
    <3>1. CASE \E q \in L : s.file[q] = f
      <4>1. PICK q \in L : s.file[q] = f
        BY <3>1
      <4>2. Content(s, L, f) = s.data[q] /\ Content(t, L, f) = t.data[q]
        BY <1>3, <2>5, <2>8, <4>1, ContentIs
      <4>3. f = s.file[p] <=> q = p
        BY <1>3, <1>5, <4>1 DEF Apart
      <4> QED
        BY <2>6, <4>2, <4>3 DEF d
    <3>2. CASE \A q \in L : s.file[q] # f
      BY <1>3, <1>5, <2>5, <2>8, <3>2, ContentIs
    <3> QED
      BY <3>1, <3>2
  <2>10. \A f \in File : /\ KeysOf(Content(t, L, f)) = KeysOf(Content(s, L, f))
                         /\ Content(s, L, f) # Nil => Content(t, L, f) # Nil
    BY <2>3, <2>9, Bounds
  <2>11. MapOK(t.key_file_map, t, L) /\ MapOK(t.key_file.map, t, L)
    <3>1. ASSUME NEW map \in KeyMaps, MapOK(map, s, L)
          PROVE  MapOK(map, t, L)
      <4>1. \A l \in Key : map[l] # 0 => map[l] \in File /\ Content(s, L, map[l]) # Nil
        BY <3>1, Bounds DEF KeyMaps, File, MapOK
      <4>2. s.new_file_index \in Nat /\ t.new_file_index \in Nat
            /\ s.new_file_index <= t.new_file_index
        BY <1>2, <2>5, Bounds
      <4> QED
        BY <2>10, <3>1, <4>1, <4>2, MapKept
    <3> QED
      BY <1>2, <1>3, <2>5, <3>1
  <2>12. Exact(t, L)
    <3> SUFFICES ASSUME NEW l \in Key
                 PROVE  IF t.hash_map[l] = Nil THEN \A q \in L : l \notin KeysOf(t.data[q])
                        ELSE t.hash_map[l][1] \in L /\ Node(t, l).key = l
      BY DEF Exact
    <3>1. CASE s.hash_map[l] = Nil
      BY <1>3, <2>5, <2>7, <3>1 DEF Exact
    <3>2. CASE s.hash_map[l] # Nil
      <4>1. s.hash_map[l][1] \in L /\ Node(s, l).key = l
        BY <1>3, <3>2 DEF Exact
      <4>2. PICK q \in Page, j \in Slot : s.hash_map[l] = <<q, j>>
        BY <1>2, <3>2
      <4>3. s.data[q][j].key = l /\ Node(t, l) = t.data[q][j]
        BY <2>5, <4>1, <4>2 DEF Node
      <4>4. t.data[q][j].key = s.data[q][j].key
        BY <2>7, <4>1, <4>2
      <4> QED
        BY <2>5, <3>2, <4>1, <4>3, <4>4
    <3> QED
      BY <3>1, <3>2
  <2>13. Numbered(t, L)
    BY <1>3, <2>5 DEF Numbered
  <2>14. Clean(t, L)
    <3>1. ASSUME NEW q \in L
          PROVE  t.dirty[q] \/ t.files[t.file[q]] = t.data[q]
      <4>1. CASE q = p
        BY <2>6, <4>1
      <4>2. CASE q # p
        <5>1. s.dirty[q] \/ s.files[s.file[q]] = s.data[q]
          BY <1>1, <1>3 DEF Clean
        <5>2. t.dirty[q] = s.dirty[q] /\ t.data[q] = s.data[q]
          BY <2>6, <4>2
        <5> QED
          BY <2>5, <5>1, <5>2
      <4> QED
        BY <4>1, <4>2
    <3>2. ASSUME NEW q \in Page \ L
          PROVE  ~t.dirty[q]
      BY <1>3, <1>5, <2>4, <2>5 DEF Clean
    <3> QED
      BY <3>1, <3>2 DEF Clean
  <2>15. Shaped(t, L)
    BY <1>3, <2>3, <2>6, <2>5, ZenonT(40) DEF Shaped
  <2>16. Mapped(t, L)
    BY <1>3, <2>5, <2>7 DEF Mapped
  <2>17. DataOK(t, L)
    BY <1>3, <2>5, <2>8, <2>11, <2>12, <2>13, <2>14, <2>15, <2>16 DEF DataOK
  <2>18. PutOK(t, L)
    <3> SUFFICES ASSUME s.put_page_existed
                 PROVE  PutOK(t, L)
      BY <2>5 DEF PutOK
    <3> DEFINE x == s.put_page
    <3>1. /\ x \in L /\ s.data_index > 0
          /\ \A j \in Slot : j > s.data_index <=> s.data[x][j].key = Empty
          /\ s.data_index < PAGE_SIZE => Unmapped(s) \/ KeysMapped(s, x)
      BY <1>1 DEF PutOK
    <3>2. s.dirty[x] => t.dirty[x]
      BY <2>6, <3>1
    <3>3. \A j \in Slot : t.data[x][j].key = s.data[x][j].key
      BY <2>7, <3>1
    <3>4. KeysOf(t.data[x]) = KeysOf(s.data[x])
      BY <2>7, <3>1
    <3>5. /\ t.put_page = x /\ t.data_index = s.data_index /\ t.key_file_map = s.key_file_map
          /\ t.file = s.file
      BY <2>5
    <3>6. Unmapped(s) => Unmapped(t)
      BY <3>2, <3>4, <3>5 DEF Unmapped
    <3>7. KeysMapped(s, x) => KeysMapped(t, x)
      BY <3>4, <3>5 DEF KeysMapped
    <3> HIDE DEF x
    <3> QED
      BY <3>1, <3>3, <3>5, <3>6, <3>7 DEF PutOK
  <2>19. Listed(t) = Listed(s) /\ ListOK(t) /\ Pages(t) = L
    BY <1>1, <2>5, ListedIs DEF ListOK, Pages
  <2>20. Whole(t)
    BY <1>1, <2>5, <2>17, <2>18, <2>19 DEF Whole, Good, Free
  <2>21. ValueOf(t, k) = v
    <3>1. Node(t, k) = e[i]
      BY <1>4, <2>4, <2>5 DEF Node
    <3> QED
      BY <2>3, <2>5, <3>1 DEF ValueOf
  <2>22. ASSUME NEW l \in Key, l # k
         PROVE  ValueOf(t, l) = ValueOf(s, l)
    <3>1. FileOf(t, L, l) = FileOf(s, L, l)
      BY <2>5, <2>7 DEF FileOf
    <3>2. ASSUME NEW f \in FileOf(s, L, l), NEW j \in Slot, Content(s, L, f)[j].key = l
          PROVE  Content(t, L, f)[j] = Content(s, L, f)[j]
      <4>1. f \in File
        BY DEF FileOf
      <4> QED
        BY <1>5, <2>3, <2>9, <2>22, <3>2, <4>1 DEF d
    <3> QED
      BY <1>1, <2>5, <2>17, <3>1, <3>2, SameValue
  <2> QED
    BY <2>20, <2>21, <2>22
<1> QED
  BY <1>6, <1>7

\* A page with a node that was unused filled.
LEMMA NewNode ==
  ASSUME NEW d \in Contents, NEW i \in Slot, NEW k \in Key, NEW v \in Value, k \notin KeysOf(d),
         \A j \in Slot : j >= i <=> d[j].key = Empty,
         \A j, m \in Slot : d[j].key = d[m].key /\ d[j].key # Empty => j = m,
         NEW e \in Contents, e[i].key = k, \A j \in Slot : j # i => e[j] = d[j]
  PROVE  /\ Shape(e) /\ KeysOf(e) = KeysOf(d) \cup {k}
         /\ \A j \in Slot : j > i <=> e[j].key = Empty
<1>3. \A j \in Slot : e[j].key = IF j = i THEN k ELSE d[j].key
  OBVIOUS
<1>4. \A j \in Slot : j > i <=> e[j].key = Empty
  BY <1>3, Bounds
<1>5. d[i].key = Empty /\ \A j \in Slot : d[j].key # k
  BY Bounds, KeysIn
<1>6. KeysOf(e) = KeysOf(d) \cup {k}
  <2>1. ASSUME NEW l
        PROVE  l \in KeysOf(e) <=> l \in KeysOf(d) \cup {k}
    <3>1. l \in KeysOf(e) <=> l # Empty /\ \E j \in Slot : e[j].key = l
      BY KeysIn
    <3>2. l \in KeysOf(d) <=> l # Empty /\ \E j \in Slot : d[j].key = l
      BY KeysIn
    <3>3. k # Empty
      BY Bounds
    <3>4. CASE l = k
      BY <1>3, <3>1, <3>3, <3>4
    <3>5. CASE l # k
      BY <1>3, <1>5, <3>1, <3>2, <3>5
    <3> QED
      BY <3>4, <3>5
  <2> QED
    BY <2>1
<1>7. Shape(e)
  <2>1. e[1].key # Empty
    BY <1>4, Bounds
  <2>2. \A j, m \in Slot : j < m /\ e[m].key # Empty => e[j].key # Empty
    BY <1>4, Bounds
  <2>3. \A j, m \in Slot : e[j].key = e[m].key /\ e[j].key # Empty => j = m
    BY <1>3, <1>5
  <2> QED
    BY <2>1, <2>2, <2>3 DEF Shape
<1> QED
  BY <1>4, <1>6, <1>7

\* The page p may be the put page of the file g, with the nodes d, of which i is
\* the next.
Fillable(s, L, p, g, d, i) ==
  /\ \A j \in Slot : j >= i <=> d[j].key = Empty
  /\ IF p \in L THEN d = s.data[p] /\ g = s.file[p] ELSE i = 1 /\ g > s.new_file_index
  /\ \A l \in KeysOf(d) : s.key_file_map[l] = 0
  /\ \A q \in L \ {p} : KeysMapped(s, q)

\* In t it is, and has one node more.
Filled(s, t, p, g, d, i, k, v) ==
  /\ t.data = [s.data EXCEPT ![p] = [d EXCEPT ![i] = [key |-> k, value |-> v]]]
  /\ t.file = [s.file EXCEPT ![p] = g] /\ t.dirty = [s.dirty EXCEPT ![p] = TRUE]
  /\ t.hash_map = [s.hash_map EXCEPT ![k] = <<p, i>>]
  /\ t.new_file_index = IF g > s.new_file_index THEN g ELSE s.new_file_index
  /\ t.key_file_map = s.key_file_map /\ t.key_file = s.key_file /\ t.files = s.files
  /\ t.put_page = p /\ t.put_page_existed = TRUE /\ t.data_index = i

\* A new key gets the next node of the put page.
LEMMA AppendData ==
  ASSUME NEW s \in State, NEW L \in SUBSET Page, DataOK(s, L), NEW p \in Page,
         NEW k \in Key, FileOf(s, L, k) = {}, NEW v \in Value,
         NEW i \in Slot, NEW d \in Contents, NEW g \in File, Fillable(s, L, p, g, d, i),
         NEW t \in State, Filled(s, t, p, g, d, i, k, v)
  PROVE  /\ DataOK(t, L \cup {p}) /\ PutOK(t, L \cup {p})
         /\ \A l \in Key : ValueOf(t, l) = IF l = k THEN v ELSE ValueOf(s, l)
<1> DEFINE M == L \cup {p}
           e == [d EXCEPT ![i] = [key |-> k, value |-> v]]
<1>1. /\ s.data \in [Page -> Contents] /\ s.files \in [File -> Contents \cup {Nil}]
      /\ s.dirty \in [Page -> BOOLEAN] /\ s.file \in [Page -> 0 .. MaxFile]
      /\ s.hash_map \in [Key -> (Page \X Slot) \cup {Nil}] /\ s.new_file_index \in 0 .. MaxFile
      /\ s.key_file_map \in KeyMaps /\ s.key_file.map \in KeyMaps
  BY DEF State, KeyFiles
<1>2. /\ Exact(s, L) /\ Apart(s, L) /\ Numbered(s, L) /\ Clean(s, L) /\ Shaped(s, L)
      /\ MapOK(s.key_file_map, s, L) /\ MapOK(s.key_file.map, s, L)
      /\ \A l \in Key : s.key_file.map[l] \in {0, s.key_file_map[l]}
  BY DEF DataOK
<1>3. /\ \A j \in Slot : j >= i <=> d[j].key = Empty
      /\ \A l \in KeysOf(d) : s.key_file_map[l] = 0
      /\ \A q \in L \ {p} : KeysMapped(s, q)
      /\ p \in L => d = s.data[p] /\ g = s.file[p]
      /\ p \notin L => i = 1 /\ g > s.new_file_index
  BY DEF Fillable
<1>4. /\ t.key_file_map = s.key_file_map /\ t.key_file = s.key_file /\ t.files = s.files
      /\ t.put_page = p /\ t.put_page_existed = TRUE /\ t.data_index = i
  BY DEF Filled
<1>5. s.key_file_map[k] = 0 /\ \A q \in L : k \notin KeysOf(s.data[q])
  <2>1. s.key_file_map[k] \in 0 .. MaxFile /\ \A q \in L : s.file[q] \in File
    BY <1>1, <1>2, Bounds DEF KeyMaps, Numbered, File
  <2> QED
    BY <2>1, Bounds DEF FileOf, File
<1>6. KeysOf(d) \in SUBSET Key /\ k \notin KeysOf(d)
      /\ \A j, m \in Slot : d[j].key = d[m].key /\ d[j].key # Empty => j = m
  <2>1. CASE p \in L
    BY <1>3, <1>2, <1>5, <2>1, KeysIn DEF Shaped, Shape
  <2>2. CASE p \notin L
    <3>1. \A j \in Slot : d[j].key = Empty
      BY <1>3, <2>2, Bounds
    <3>2. KeysOf(d) = {}
      BY <3>1 DEF KeysOf
    <3> QED
      BY <3>1, <3>2
  <2> QED
    BY <2>1, <2>2
<1>7. /\ e \in Contents /\ e[i] = [key |-> k, value |-> v]
      /\ \A j \in Slot : j # i => e[j] = d[j]
  <2>1. [key |-> k, value |-> v] \in [key : Key \cup {Empty}, value : Value \cup {Empty}]
    OBVIOUS
  <2> QED
    BY <2>1 DEF Contents
<1> HIDE DEF e
<1>8. /\ e \in Contents /\ Shape(e) /\ KeysOf(e) = KeysOf(d) \cup {k}
      /\ \A j \in Slot : j > i <=> e[j].key = Empty
  <2>1. e[i].key = k
    BY <1>7
  <2> QED
    BY <1>3, <1>6, <1>7, <2>1, NewNode
<1>9. /\ \A q \in Page : t.data[q] = IF q = p THEN e ELSE s.data[q]
      /\ \A q \in Page : t.file[q] = IF q = p THEN g ELSE s.file[q]
      /\ \A l \in Key : t.hash_map[l] = IF l = k THEN <<p, i>> ELSE s.hash_map[l]
      /\ t.dirty[p] = TRUE /\ \A q \in Page \ {p} : t.dirty[q] = s.dirty[q]
  BY <1>1 DEF e, Filled
<1>10. /\ t.data[p] = e /\ t.file[p] = g
       /\ \A q \in L \ {p} : t.data[q] = s.data[q] /\ t.file[q] = s.file[q] /\ t.dirty[q] = s.dirty[q]
  BY <1>9
<1>11. \A q \in L \ {p} : s.file[q] # g
  <2>1. CASE p \in L
    BY <1>3, <1>2, <2>1 DEF Apart
  <2>2. CASE p \notin L
    BY <1>3, <1>1, <1>2, <2>2, Bounds DEF Numbered, File
  <2> QED
    BY <2>1, <2>2
<1>12. \A q \in L \ {p} : KeysOf(s.data[q]) \cap KeysOf(e) = {}
  <2> SUFFICES ASSUME NEW q \in L \ {p}, NEW l \in KeysOf(s.data[q]), l \in KeysOf(e)
               PROVE  FALSE
    OBVIOUS
  <2>1. l \in KeysOf(d)
    BY <1>5, <1>8
  <2>2. s.file[q] \in 1 .. s.new_file_index
    BY <1>2 DEF Numbered
  <2>3. s.file[q] = 0
    BY <1>3, <2>1 DEF KeysMapped
  <2> QED
    BY <1>1, <2>2, <2>3
<1>13. Apart(t, M)
  <2>1. ASSUME NEW q \in M, NEW r \in M,
               t.file[q] = t.file[r] \/ KeysOf(t.data[q]) \cap KeysOf(t.data[r]) # {}
        PROVE  q = r
    <3>1. CASE q = p \/ r = p
      BY <1>10, <1>11, <1>12, <2>1, <3>1
    <3>2. CASE q # p /\ r # p
      BY <1>2, <1>10, <2>1, <3>2 DEF Apart
    <3> QED
      BY <3>1, <3>2
  <2> QED
    BY <2>1 DEF Apart
<1>14. \A q \in M : Content(t, M, t.file[q]) = t.data[q]
  BY <1>13, ContentIs
<1>15. Content(t, M, g) = e
  BY <1>10, <1>14
<1>16. p \in L => Content(s, L, g) = d
  BY <1>3, <1>2, ContentIs
<1>17. ASSUME NEW f \in File, f # g
       PROVE  Content(t, M, f) = Content(s, L, f)
  <2>1. CASE \E q \in L \ {p} : s.file[q] = f
    <3>1. PICK q \in L \ {p} : s.file[q] = f
      BY <2>1
    <3>2. Content(s, L, f) = s.data[q]
      BY <1>2, <3>1, ContentIs
    <3>3. Content(t, M, f) = t.data[q]
      BY <1>10, <1>14, <3>1
    <3> QED
      BY <1>10, <3>1, <3>2, <3>3
  <2>2. CASE \A q \in L \ {p} : s.file[q] # f
    <3>1. \A q \in M : t.file[q] # f
      BY <1>10, <1>17, <2>2
    <3>2. \A q \in L : s.file[q] # f
      BY <1>3, <1>17, <2>2
    <3>3. Content(s, L, f) = s.files[f]
      BY <1>2, <3>2, ContentIs
    <3>4. Content(t, M, f) = t.files[f]
      BY <1>13, <3>1, ContentIs
    <3> QED
      BY <1>4, <3>3, <3>4
  <2> QED
    BY <2>1, <2>2
<1>18. s.new_file_index \in Nat /\ t.new_file_index \in Nat
       /\ s.new_file_index <= t.new_file_index /\ g <= t.new_file_index
  BY <1>1, Bounds DEF File, Filled
<1>19. ASSUME NEW map \in KeyMaps, MapOK(map, s, L),
              \A l \in Key : map[l] \in {0, s.key_file_map[l]}
       PROVE  MapOK(map, t, M)
  <2>1. ASSUME NEW l \in Key, map[l] # 0
        PROVE  /\ Content(t, M, map[l]) # Nil
               /\ KeysOf(Content(t, M, map[l])) = KeysOf(Content(s, L, map[l]))
    <3>1. /\ map[l] \in File /\ map[l] <= s.new_file_index
          /\ Content(s, L, map[l]) # Nil /\ l \in KeysOf(Content(s, L, map[l]))
      BY <1>19, <2>1, Bounds DEF KeyMaps, File, MapOK
    <3>2. s.key_file_map[l] # 0
      BY <1>19, <2>1
    <3>3. map[l] # g
      <4>1. CASE p \in L
        BY <1>3, <1>16, <3>1, <3>2, <4>1
      <4>2. CASE p \notin L
        BY <1>3, <1>18, <3>1, <4>2 DEF File
      <4> QED
        BY <4>1, <4>2
    <3> QED
      BY <1>17, <3>1, <3>3
  <2> QED
    <3>1. MapOK(map, s, L)
      BY <1>19
    <3> HIDE DEF M
    <3> QED
      BY <1>18, <2>1, <3>1, MapKept
<1>20. MapOK(t.key_file_map, t, M) /\ MapOK(t.key_file.map, t, M)
  BY <1>1, <1>2, <1>4, <1>19
<1>21. Exact(t, M)
  <2> SUFFICES ASSUME NEW l \in Key
               PROVE  IF t.hash_map[l] = Nil THEN \A q \in M : l \notin KeysOf(t.data[q])
                      ELSE t.hash_map[l][1] \in M /\ Node(t, l).key = l
    BY DEF Exact
  <2>1. CASE l = k
    <3>1. t.hash_map[l] = <<p, i>> /\ t.hash_map[l] # Nil
      BY <1>9, <2>1, Bounds
    <3>2. Node(t, l) = e[i]
      <4>1. t.hash_map[l][1] = p /\ t.hash_map[l][2] = i
        BY <3>1
      <4> QED
        BY <1>10, <4>1 DEF Node
    <3> QED
      BY <1>7, <2>1, <3>1, <3>2
  <2>2. CASE l # k /\ s.hash_map[l] = Nil
    <3>1. \A q \in L : l \notin KeysOf(s.data[q])
      BY <1>2, <2>2 DEF Exact
    <3>2. l \notin KeysOf(e)
      <4>1. CASE p \in L
        BY <1>3, <1>8, <2>2, <3>1, <4>1
      <4>2. CASE p \notin L
        <5>1. \A j \in Slot : d[j].key = Empty
          BY <1>3, <4>2, Bounds
        <5> QED
          BY <1>8, <2>2, <5>1 DEF KeysOf
      <4> QED
        BY <4>1, <4>2
    <3> QED
      BY <1>9, <1>10, <2>2, <3>1, <3>2
  <2>3. CASE l # k /\ s.hash_map[l] # Nil
    <3>1. s.hash_map[l][1] \in L /\ Node(s, l).key = l
      BY <1>2, <2>3 DEF Exact
    <3>2. PICK q \in Page, j \in Slot : s.hash_map[l] = <<q, j>>
      BY <1>1, <2>3
    <3>3. q \in L /\ s.data[q][j].key = l /\ t.hash_map[l] = <<q, j>> /\ Node(t, l) = t.data[q][j]
      BY <1>9, <2>3, <3>1, <3>2 DEF Node
    <3>4. t.data[q][j].key = l
      <4>1. CASE q = p
        <5>1. d[j].key = l /\ j # i
          BY <1>3, <3>3, <4>1, Bounds
        <5> QED
          BY <1>7, <1>10, <4>1, <5>1
      <4>2. CASE q # p
        BY <1>10, <3>3, <4>2
      <4> QED
        BY <4>1, <4>2
    <3>5. t.hash_map[l] # Nil /\ t.hash_map[l][1] = q
      BY <3>3, Bounds
    <3> QED
      BY <3>3, <3>4, <3>5
  <2> QED
    BY <2>1, <2>2, <2>3
<1>22. Numbered(t, M)
  <2>1. \A q \in M : t.file[q] \in 1 .. t.new_file_index
    <3>1. \A q \in L \ {p} : s.file[q] \in 1 .. s.new_file_index
      BY <1>2 DEF Numbered
    <3>2. g \in 1 .. t.new_file_index
      BY <1>18 DEF File
    <3> QED
      BY <1>10, <1>18, <3>1, <3>2
  <2>2. ASSUME NEW f \in File, f > t.new_file_index
        PROVE  t.files[f] = Nil
    <3>1. f > s.new_file_index
      BY <1>18, <2>2 DEF File
    <3> QED
      BY <1>2, <1>4, <3>1 DEF Numbered
  <2> QED
    BY <2>1, <2>2 DEF Numbered
<1>23. Clean(t, M)
  <2>1. ASSUME NEW q \in L \ {p}
        PROVE  t.dirty[q] \/ t.files[t.file[q]] = t.data[q]
    <3>1. s.dirty[q] \/ s.files[s.file[q]] = s.data[q]
      BY <1>2 DEF Clean
    <3> QED
      BY <1>10, <1>4, <3>1
  <2>2. ASSUME NEW q \in Page \ M
        PROVE  ~t.dirty[q]
    BY <1>2, <1>9 DEF Clean
  <2> QED
    BY <1>9, <2>1, <2>2 DEF Clean
<1>24. Shaped(t, M)
  BY <1>2, <1>8, <1>10, <1>4 DEF Shaped
<1>25. Mapped(t, M)
  <2>1. ASSUME NEW q \in M, NEW l \in KeysOf(t.data[q])
        PROVE  \/ t.key_file_map[l] = t.file[q]
               \/ t.key_file_map[l] = 0 /\ t.put_page_existed /\ q = t.put_page
    <3>1. CASE q = p
      BY <1>3, <1>4, <1>5, <1>8, <1>10, <2>1, <3>1
    <3>2. CASE q # p
      BY <1>3, <1>4, <1>10, <2>1, <3>2 DEF KeysMapped
    <3> QED
      BY <3>1, <3>2
  <2> QED
    BY <2>1 DEF Mapped
<1>26. DataOK(t, M)
  BY <1>2, <1>4, <1>13, <1>20, <1>21, <1>22, <1>23, <1>24, <1>25 DEF DataOK
<1>27. PutOK(t, M)
  <2>1. \A l \in KeysOf(e) : s.key_file_map[l] = 0
    BY <1>3, <1>5, <1>8
  <2>2. i > 0 /\ p \in M
    BY Bounds
  <2> HIDE DEF M
  <2>3. /\ t.put_page = p /\ t.data[p] = e /\ t.data_index = i
        /\ t.key_file_map = s.key_file_map
    BY <1>4, <1>9, <1>10
  <2>4. \A j \in Slot : j > i <=> e[j].key = Empty
    BY <1>8
  <2>5. t.dirty[t.put_page]
    BY <1>9, <2>3
  <2> QED
    BY <2>1, <2>2, <2>3, <2>4, <2>5 DEF PutOK, Unmapped
<1>28. ValueOf(t, k) = v
  <2>1. t.hash_map[k] = <<p, i>> /\ t.hash_map[k] # Nil
    BY <1>9, Bounds
  <2>2. Node(t, k) = e[i]
    <3>1. t.hash_map[k][1] = p /\ t.hash_map[k][2] = i
      BY <2>1
    <3> QED
      BY <1>10, <3>1 DEF Node
  <2>3. ValueOf(t, k) = Node(t, k).value
    BY <2>1 DEF ValueOf
  <2> QED
    BY <1>7, <2>2, <2>3
<1>29. ASSUME NEW l \in Key, l # k
       PROVE  ValueOf(t, l) = ValueOf(s, l)
  <2>1. FileOf(t, M, l) = FileOf(s, L, l)
    <3>1. CASE p \in L
      <4>1. l \in KeysOf(t.data[p]) <=> l \in KeysOf(s.data[p])
        BY <1>3, <1>8, <1>10, <1>29, <3>1
      <4>2. t.file[p] = s.file[p]
        BY <1>3, <1>10, <3>1
      <4> QED
        BY <1>4, <1>10, <3>1, <4>1, <4>2 DEF FileOf
    <3>2. CASE p \notin L
      <4>1. \A j \in Slot : d[j].key = Empty
        BY <1>3, <3>2, Bounds
      <4>2. l \notin KeysOf(d)
        BY <4>1 DEF KeysOf
      <4>3. l \notin KeysOf(t.data[p])
        BY <1>8, <1>10, <1>29, <4>2
      <4> QED
        BY <1>4, <1>10, <3>2, <4>3 DEF FileOf
    <3> QED
      BY <3>1, <3>2
  <2>2. ASSUME NEW f \in FileOf(s, L, l), NEW j \in Slot, Content(s, L, f)[j].key = l
        PROVE  Content(t, M, f)[j] = Content(s, L, f)[j]
    <3>1. f \in File
      BY DEF FileOf
    <3>2. CASE f # g
      BY <1>17, <3>1, <3>2
    <3>3. CASE f = g /\ p \in L
      <4>1. d[j].key = l /\ j # i
        BY <1>3, <1>16, <2>2, <3>3, Bounds
      <4> QED
        BY <1>7, <1>15, <1>16, <3>3, <4>1
    <3>4. CASE f = g /\ p \notin L
      <4>1. \A q \in L : s.file[q] # g
        BY <1>11, <3>4
      <4>2. s.key_file_map[l] = g
        BY <3>4, <4>1 DEF FileOf
      <4>3. g <= s.new_file_index
        <5>1. g # 0
          BY DEF File
        <5> QED
          BY <1>2, <4>2, <5>1 DEF MapOK
      <4> QED
        BY <1>3, <1>18, <3>4, <4>3 DEF File
    <3> QED
      BY <3>2, <3>3, <3>4
  <2> QED
    <3> HIDE DEF M
    <3>1. M \in SUBSET Page
      BY DEF M
    <3> QED
      BY <1>26, <2>1, <2>2, <3>1, SameValue
<1> QED
  BY <1>26, <1>27, <1>28, <1>29

\* A key that search does not find has no file.
LEMMA NoFile ==
  ASSUME NEW s, NEW L, DataOK(s, L), NEW k \in Key, s.hash_map[k] = Nil, s.key_file_map[k] = 0
  PROVE  FileOf(s, L, k) = {}
<1>1. \A p \in L : k \notin KeysOf(s.data[p])
  BY DEF DataOK, Exact
<1>2. 0 \notin File
  BY DEF File
<1> QED
  BY <1>1, <1>2 DEF FileOf

\* u is r with one node more in the put page.
NodeAdded(r, u, k, v) ==
  LET p == r.put_page
      i == r.data_index + 1
  IN  /\ u.data = [r.data EXCEPT ![p] = [r.data[p] EXCEPT ![i] = [key |-> k, value |-> v]]]
      /\ u.hash_map = [r.hash_map EXCEPT ![k] = <<p, i>>] /\ u.data_index = i
      /\ u.file = r.file /\ u.dirty = r.dirty /\ u.files = r.files
      /\ u.next = r.next /\ u.prev = r.prev /\ u.free = r.free
      /\ u.put_page = r.put_page /\ u.new_file_index = r.new_file_index
      /\ u.put_page_existed = r.put_page_existed
      /\ u.key_file_map = r.key_file_map /\ u.key_file = r.key_file

\* AppendNode adds a node, and moves the put page to the front.
LEMMA AppendSteps ==
  ASSUME NEW r \in State, r.put_page \in Page, r.data_index + 1 \in Slot,
         NEW k \in Key, NEW v \in Value, NEW t, t = AppendNode(r, k, v)
  PROVE  \E u \in State : NodeAdded(r, u, k, v) /\ t = ToFront(u, r.put_page)
<1> DEFINE p == r.put_page
           i == r.data_index + 1
           n == [key |-> k, value |-> v]
           e == [r.data[p] EXCEPT ![i] = n]
           dt == [r.data EXCEPT ![p] = e]
           hm == [r.hash_map EXCEPT ![k] = <<p, i>>]
           u == [r EXCEPT !.data = dt, !.hash_map = hm, !.data_index = i]
<1>1. /\ r.data \in [Page -> Contents] /\ r.hash_map \in [Key -> (Page \X Slot) \cup {Nil}]
      /\ r.data[p] \in Contents /\ p \in Page /\ i \in Slot
  BY DEF State
<1>2. t = ToFront(u, p)
  <2>1. u = [r EXCEPT !.data[p][i] = n, !.hash_map[k] = <<p, i>>, !.data_index = i]
    BY DEF State
  <2> QED
    BY <2>1 DEF AppendNode
<1>3. n \in [key : Key \cup {Empty}, value : Value \cup {Empty}]
  OBVIOUS
<1> HIDE DEF n
<1>4. e \in Contents
  BY <1>1, <1>3 DEF Contents
<1> HIDE DEF e
<1>5. dt \in [Page -> Contents]
  BY <1>1, <1>4
<1>6. hm \in [Key -> (Page \X Slot) \cup {Nil}]
  BY <1>1
<1>7. i \in 0 .. PAGE_SIZE
  BY <1>1 DEF Slot
<1> HIDE DEF dt, hm, i, p
<1>8. u \in State
  BY <1>5, <1>6, <1>7 DEF State
<1>9. /\ u.data = dt /\ u.hash_map = hm /\ u.data_index = i
      /\ u.file = r.file /\ u.dirty = r.dirty /\ u.files = r.files
      /\ u.next = r.next /\ u.prev = r.prev /\ u.free = r.free
      /\ u.put_page = r.put_page /\ u.new_file_index = r.new_file_index
      /\ u.put_page_existed = r.put_page_existed
      /\ u.key_file_map = r.key_file_map /\ u.key_file = r.key_file
  BY DEF State
<1> HIDE DEF u
<1>10. NodeAdded(r, u, k, v)
  BY <1>9 DEF NodeAdded, dt, hm, e, n, i, p
<1> QED
  BY <1>2, <1>8, <1>10 DEF p

\* A put page that is filled and in the list makes the state whole.
LEMMA FilledIs ==
  ASSUME NEW s \in State, NEW L \in SUBSET Page, DataOK(s, L), NEW p \in Page,
         NEW k \in Key, FileOf(s, L, k) = {}, NEW v \in Value,
         NEW i \in Slot, NEW d \in Contents, NEW g \in File, Fillable(s, L, p, g, d, i),
         NEW u \in State, Filled(s, u, p, g, d, i, k, v),
         ListOK(u), IsInjective(u.free), Free(u) = Page \ Listed(u), Pages(u) = L \cup {p},
         NEW t, t = ToFront(u, p)
  PROVE  Whole(t) /\ \A l \in Key : ValueOf(t, l) = IF l = k THEN v ELSE ValueOf(s, l)
<1>1. /\ DataOK(u, L \cup {p}) /\ PutOK(u, L \cup {p})
      /\ \A l \in Key : ValueOf(u, l) = IF l = k THEN v ELSE ValueOf(s, l)
  BY AppendData
<1>2. u.put_page = p
  BY DEF Filled
<1>3. Whole(u) /\ p \in Pages(u)
  BY <1>1, <1>2 DEF Whole, Good
<1>4. Whole(t) /\ Pages(t) = Pages(u) /\ SameFiles(u, Pages(u), t, Pages(t))
  BY <1>3, FrontOfWhole
<1>5. /\ DataOK(u, Pages(u)) /\ t \in State /\ DataOK(t, Pages(t))
      /\ Pages(t) \in SUBSET Page /\ Pages(u) \in SUBSET Page
  BY <1>1, <1>4 DEF Whole, Good, Pages
<1>6. \A l \in Key : ValueOf(t, l) = ValueOf(u, l)
  BY <1>4, <1>5, SameFilesValue
<1> QED
  BY <1>1, <1>4, <1>6

\* put of a new key while the put page has room, and has not been saved.
LEMMA AppendIs ==
  ASSUME NEW s, Whole(s), NEW k \in Key, NEW v \in Value,
         s.hash_map[k] = Nil, s.key_file_map[k] = 0, ~FullOrGone(s),
         ~SavedHalfFull(s), NEW t, t = AppendNode(s, k, v)
  PROVE  Whole(t) /\ \A l \in Key : ValueOf(t, l) = IF l = k THEN v ELSE ValueOf(s, l)
<1> DEFINE L == Pages(s)
           p == s.put_page
           i == s.data_index + 1
           d == s.data[p]
           g == s.file[p]
<1>1. /\ s \in State /\ ListOK(s) /\ DataOK(s, L) /\ PutOK(s, L) /\ L \in SUBSET Page
      /\ IsInjective(s.free) /\ Free(s) = Page \ Listed(s)
  BY DEF Whole, Good, Pages
<1>2. /\ s.data \in [Page -> Contents] /\ s.file \in [Page -> 0 .. MaxFile]
      /\ s.dirty \in [Page -> BOOLEAN] /\ s.data_index \in 0 .. PAGE_SIZE
      /\ s.new_file_index \in 0 .. MaxFile
  BY <1>1 DEF State
<1>3. s.put_page_existed /\ s.data_index < PAGE_SIZE
  BY <1>2, Bounds DEF FullOrGone
<1>4. i \in Slot /\ \A j \in Slot : j >= i <=> j > s.data_index
  BY <1>2, <1>3, Bounds DEF Slot
<1>5. /\ p \in L /\ s.dirty[p]
      /\ \A j \in Slot : j > s.data_index <=> d[j].key = Empty
      /\ \A l \in KeysOf(d) : s.key_file_map[l] = 0
  <2>1. /\ p \in L /\ (Unmapped(s) \/ KeysMapped(s, p))
        /\ \A j \in Slot : j > s.data_index <=> d[j].key = Empty
    BY <1>1, <1>3 DEF PutOK
  <2>2. ~KeysMapped(s, p)
    <3>1. Shape(d) /\ s.file[p] \in 1 .. s.new_file_index
      BY <1>1, <2>1 DEF DataOK, Shaped, Numbered
    <3>2. d[1].key \in KeysOf(d)
      BY <3>1, Bounds DEF Shape, KeysOf
    <3>3. s.key_file_map[d[1].key] = 0 /\ s.file[p] # 0
      BY <3>1 DEF SavedHalfFull
    <3> QED
      BY <3>2, <3>3 DEF KeysMapped
  <2> QED
    BY <2>1, <2>2 DEF Unmapped
<1>6. p \in Page /\ d \in Contents
  BY <1>1, <1>2, <1>5
<1>7. g \in File /\ g <= s.new_file_index
  BY <1>1, <1>2, <1>5, <1>6, Bounds DEF DataOK, Numbered, File
<1>8. \A q \in L \ {p} : KeysMapped(s, q)
  BY <1>1 DEF DataOK, Mapped, KeysMapped
<1>9. Fillable(s, L, p, g, d, i)
  BY <1>4, <1>5, <1>8 DEF Fillable
<1>10. PICK u \in State : NodeAdded(s, u, k, v) /\ t = ToFront(u, p)
  BY <1>1, <1>4, <1>6, AppendSteps
<1>11. FileOf(s, L, k) = {}
  BY <1>1, NoFile
<1>12. Filled(s, u, p, g, d, i, k, v)
  <2>1. s.dirty = [s.dirty EXCEPT ![p] = TRUE] /\ s.file = [s.file EXCEPT ![p] = g]
    BY <1>2, <1>5, <1>6
  <2>2. ~(g > s.new_file_index)
    BY <1>2, <1>7, Bounds DEF File
  <2> QED
    BY <1>3, <1>10, <2>1, <2>2 DEF NodeAdded, Filled
<1>13. ListOK(u) /\ Listed(u) = Listed(s) /\ Free(u) = Free(s) /\ IsInjective(u.free)
  BY <1>1, <1>10, ListedIs DEF NodeAdded, ListOK, Free
<1>14. Pages(u) = L \cup {p}
  BY <1>5, <1>13 DEF Pages
<1> HIDE DEF L, p, i, d, g
<1> QED
  BY <1>1, <1>4, <1>6, <1>7, <1>9, <1>10, <1>11, <1>12, <1>13, <1>14, FilledIs

\* The keys of a put page may be mapped.
LEMMA PushWhole ==
  ASSUME NEW s, Whole(s), NEW t, t = push_key_to_keymap(s)
  PROVE  /\ Whole(t) /\ AllMapped(t, Pages(t)) /\ SameFiles(s, Pages(s), t, Pages(t))
         /\ t.new_file_index = s.new_file_index
<1> DEFINE L == Pages(s)
<1>1. /\ s \in State /\ ListOK(s) /\ DataOK(s, L) /\ PutOK(s, L) /\ L \in SUBSET Page
      /\ s.put_page \in L \cup {Nil} /\ IsInjective(s.free) /\ Free(s) = Page \ Listed(s)
  BY DEF Whole, Good, Pages
<1>2. /\ t \in State /\ DataOK(t, L) /\ SameFiles(s, L, t, L) /\ ButMaps(s, t) /\ AllMapped(t, L)
  BY <1>1, PushIs
<1>3. ListOK(t) /\ Listed(t) = Listed(s) /\ Free(t) = Free(s) /\ IsInjective(t.free)
  BY <1>1, <1>2, ListedIs DEF ButMaps, ListOK, Free
<1>4. Pages(t) = L
  BY <1>3 DEF Pages
<1>5. PutOK(t, L)
  <2> SUFFICES ASSUME s.put_page_existed
               PROVE  PutOK(t, L)
    BY <1>2 DEF PutOK, ButMaps
  <2>1. /\ s.put_page \in L /\ s.data_index > 0
        /\ \A i \in Slot : i > s.data_index <=> s.data[s.put_page][i].key = Empty
    BY <1>1 DEF PutOK
  <2>2. KeysMapped(t, s.put_page)
    BY <1>2, <2>1 DEF AllMapped
  <2>3. t.put_page = s.put_page /\ t.data_index = s.data_index /\ t.data = s.data
    BY <1>2 DEF ButMaps
  <2> HIDE DEF L
  <2> QED
    BY <2>1, <2>2, <2>3 DEF PutOK
<1>6. t.put_page \in L \cup {Nil} /\ t.new_file_index = s.new_file_index
  BY <1>1, <1>2 DEF ButMaps
<1>7. Whole(t)
  BY <1>1, <1>2, <1>3, <1>4, <1>5, <1>6 DEF Whole, Good
<1> QED
  BY <1>2, <1>4, <1>6, <1>7

\* put of a new key that starts a put page.
LEMMA NextPutPageIs ==
  ASSUME NEW s, Whole(s), NEW k \in Key, NEW v \in Value,
         s.hash_map[k] = Nil, s.key_file_map[k] = 0, FullOrGone(s), s.new_file_index < MaxFile,
         NEW t, t = AppendNode(NextPutPage(s), k, v)
  PROVE  Whole(t) /\ \A l \in Key : ValueOf(t, l) = IF l = k THEN v ELSE ValueOf(s, l)
<1> DEFINE s1 == push_key_to_keymap(s)
           p == NewPage(s1)
           s2 == get_new_page(s1)
           g == s2.new_file_index + 1
           s3 == [s2 EXCEPT !.put_page = p, !.put_page_existed = TRUE, !.data_index = 0,
                            !.new_file_index = g, !.file[p] = g,
                            !.dirty[p] = TRUE, !.data[p] = Blank]
           r == NextPutPage(s)
           L == Pages(s2)
<1>1. /\ Whole(s1) /\ AllMapped(s1, Pages(s1)) /\ SameFiles(s, Pages(s), s1, Pages(s1))
      /\ s1.new_file_index = s.new_file_index
  BY PushWhole
<1> HIDE DEF s1
<1>2. /\ p \in Page \ Listed(s2) /\ Good(s2, Page \ (Listed(s2) \cup {p}))
      /\ SameFiles(s1, Pages(s1), s2, L)
      /\ AllMapped(s2, L) /\ s2.new_file_index = s1.new_file_index
  BY <1>1, NewPageIs
<1>3. r = attach(s3, p)
  BY DEF NextPutPage, s1
<1> HIDE DEF p, s2, r
<1>4. /\ s2 \in State /\ ListOK(s2) /\ DataOK(s2, L) /\ L \in SUBSET Page
      /\ IsInjective(s2.free) /\ Free(s2) = Page \ (Listed(s2) \cup {p})
  BY <1>2 DEF Good, Pages
<1>5. g \in File /\ g > s2.new_file_index /\ g \in 0 .. MaxFile
  <2>1. s2.new_file_index \in 0 .. MaxFile /\ s2.new_file_index < MaxFile
    BY <1>1, <1>2, <1>4 DEF State
  <2> QED
    BY <2>1, Bounds DEF File
<1>6. Blank \in Contents /\ KeysOf(Blank) = {} /\ \A j \in Slot : Blank[j].key = Empty /\ j >= 1
  BY Bounds DEF Blank, NoNode, Contents, KeysOf
<1> HIDE DEF g
<1>7. /\ s3 \in State /\ s3.put_page = p /\ s3.put_page_existed = TRUE /\ s3.data_index = 0
      /\ s3.new_file_index = g /\ s3.file = [s2.file EXCEPT ![p] = g]
      /\ s3.dirty = [s2.dirty EXCEPT ![p] = TRUE] /\ s3.data = [s2.data EXCEPT ![p] = Blank]
      /\ s3.next = s2.next /\ s3.prev = s2.prev /\ s3.free = s2.free
      /\ s3.hash_map = s2.hash_map /\ s3.key_file_map = s2.key_file_map
      /\ s3.key_file = s2.key_file /\ s3.files = s2.files
  <2> DEFINE fl == [s2.file EXCEPT ![p] = g]
             di == [s2.dirty EXCEPT ![p] = TRUE]
             dt == [s2.data EXCEPT ![p] = Blank]
  <2>1. s3 = [s2 EXCEPT !.put_page = p, !.put_page_existed = TRUE, !.data_index = 0,
                        !.new_file_index = g, !.file = fl, !.dirty = di, !.data = dt]
    BY <1>4 DEF State
  <2>2. fl \in [Page -> 0 .. MaxFile] /\ di \in [Page -> BOOLEAN] /\ dt \in [Page -> Contents]
    BY <1>2, <1>4, <1>5, <1>6 DEF State
  <2>3. 0 \in 0 .. PAGE_SIZE
    BY Bounds
  <2> HIDE DEF fl, di, dt, s3
  <2>4. /\ s3 \in State /\ s3.put_page = p /\ s3.put_page_existed = TRUE /\ s3.data_index = 0
        /\ s3.new_file_index = g /\ s3.file = fl /\ s3.dirty = di /\ s3.data = dt
        /\ s3.next = s2.next /\ s3.prev = s2.prev /\ s3.free = s2.free
        /\ s3.hash_map = s2.hash_map /\ s3.key_file_map = s2.key_file_map
        /\ s3.key_file = s2.key_file /\ s3.files = s2.files
    <3>1. s3 \in State
      BY <1>2, <1>4, <1>5, <2>1, <2>2, <2>3, ZenonT(40) DEF State
    <3>2. /\ s3.put_page = p /\ s3.put_page_existed = TRUE /\ s3.data_index = 0
          /\ s3.new_file_index = g /\ s3.file = fl /\ s3.dirty = di /\ s3.data = dt
      BY <1>4, <2>1 DEF State
    <3> QED
      BY <2>1, <3>1, <3>2
  <2> QED
    BY <2>4 DEF fl, di, dt
<1> HIDE DEF s3
<1>8. ListOK(s3) /\ Listed(s3) = Listed(s2)
  BY <1>4, <1>7, ListedIs DEF ListOK
<1>9. /\ r \in State /\ SameData(s3, r) /\ r.free = s3.free
      /\ Listed(r) = Listed(s3) \cup {p} /\ ListOK(r)
  BY <1>2, <1>3, <1>7, <1>8, AttachIs
<1>10. r.put_page = p /\ r.data_index = 0 /\ r.data_index + 1 = 1 /\ p \in Page /\ 1 \in Slot
  BY <1>2, <1>7, <1>9, Bounds DEF SameData
<1>11. PICK u \in State : NodeAdded(r, u, k, v) /\ t = ToFront(u, p)
  <2>1. r.put_page \in Page /\ r.data_index + 1 \in Slot /\ t = AppendNode(r, k, v)
    BY <1>10 DEF r
  <2> QED
    BY <1>9, <1>10, <2>1, AppendSteps
<1>12. Filled(s2, u, p, g, Blank, 1, k, v)
  <2> DEFINE n == [key |-> k, value |-> v]
  <2>1. u.data = [r.data EXCEPT ![p] = [r.data[p] EXCEPT ![1] = n]]
    BY <1>10, <1>11 DEF NodeAdded
  <2>2. r.data = [s2.data EXCEPT ![p] = Blank] /\ s2.data \in [Page -> Contents]
    BY <1>4, <1>7, <1>9 DEF SameData, State
  <2> HIDE DEF n
  <2>3. u.data = [s2.data EXCEPT ![p] = [Blank EXCEPT ![1] = n]]
    BY <1>10, <2>1, <2>2
  <2>4. u.hash_map = [s2.hash_map EXCEPT ![k] = <<p, 1>>] /\ u.data_index = 1
    BY <1>7, <1>9, <1>10, <1>11 DEF NodeAdded, SameData
  <2>5. /\ u.file = [s2.file EXCEPT ![p] = g] /\ u.dirty = [s2.dirty EXCEPT ![p] = TRUE]
        /\ u.new_file_index = g /\ u.key_file_map = s2.key_file_map
        /\ u.key_file = s2.key_file /\ u.files = s2.files
        /\ u.put_page = p /\ u.put_page_existed = TRUE
    BY <1>7, <1>9, <1>11 DEF NodeAdded, SameData
  <2> QED
    BY <1>5, <2>3, <2>4, <2>5 DEF Filled, n
<1>13. Fillable(s2, L, p, g, Blank, 1)
  BY <1>2, <1>5, <1>6 DEF Fillable, AllMapped, Pages
<1>14. /\ ListOK(u) /\ Listed(u) = Listed(s2) \cup {p} /\ IsInjective(u.free)
       /\ Free(u) = Page \ Listed(u)
  <2>1. u.next = r.next /\ u.prev = r.prev /\ u.free = s2.free
    BY <1>7, <1>9, <1>11 DEF NodeAdded
  <2>2. ListOK(u) /\ Listed(u) = Listed(s2) \cup {p}
    BY <1>8, <1>9, <2>1, ListedIs DEF ListOK
  <2> QED
    BY <1>4, <2>1, <2>2 DEF Free
<1>15. Pages(u) = L \cup {p}
  BY <1>2, <1>14 DEF Pages
<1>16. SameFiles(s, Pages(s), s2, L)
  BY <1>1, <1>2, SameFilesTwice
<1>17. s \in State /\ DataOK(s, Pages(s)) /\ Pages(s) \in SUBSET Page
  BY DEF Whole, Good, Pages
<1>18. FileOf(s2, L, k) = {}
  <2>1. FileOf(s, Pages(s), k) = {}
    BY <1>17, NoFile
  <2> QED
    BY <1>16, <2>1 DEF SameFiles
<1> HIDE DEF L
<1>19. \A l \in Key : ValueOf(s2, l) = ValueOf(s, l)
  BY <1>4, <1>16, <1>17, SameFilesValue
<1>20. Whole(t) /\ \A l \in Key : ValueOf(t, l) = IF l = k THEN v ELSE ValueOf(s2, l)
  BY <1>4, <1>5, <1>6, <1>10, <1>11, <1>12, <1>13, <1>14, <1>15, <1>18, FilledIs
<1> QED
  BY <1>19, <1>20

\* What save_cache does before it maps the keys of the put page.
SavedPages(s) ==
  LET Dirty   == {p \in Listed(s) \cap Page : s.dirty[p]}
      From(f) == {p \in Dirty : s.file[p] = f}
  IN  [s EXCEPT !.dirty = [p \in Page |-> @[p] /\ p \notin Dirty],
                !.files = [f \in File |-> IF From(f) = {} THEN @[f]
                                          ELSE s.data[CHOOSE p \in From(f) : TRUE]]]

\* All pages are in their files then.
LEMMA SavedPagesIs ==
  ASSUME NEW s \in State, DataOK(s, Pages(s)), NEW u, u = SavedPages(s)
  PROVE  /\ u \in State /\ DataOK(u, Pages(s)) /\ SameFiles(s, Pages(s), u, Pages(s))
         /\ \A f \in File : u.files[f] = Content(s, Pages(s), f)
         /\ u.data = s.data /\ u.file = s.file /\ u.hash_map = s.hash_map
         /\ u.next = s.next /\ u.prev = s.prev /\ u.free = s.free
         /\ u.put_page = s.put_page /\ u.put_page_existed = s.put_page_existed
         /\ u.data_index = s.data_index /\ u.new_file_index = s.new_file_index
<1> DEFINE L == Pages(s)
           Dirty == {p \in L : s.dirty[p]}
           From(f) == {p \in Dirty : s.file[p] = f}
           di == [p \in Page |-> s.dirty[p] /\ p \notin Dirty]
           fs == [f \in File |-> IF From(f) = {} THEN s.files[f]
                                 ELSE s.data[CHOOSE p \in From(f) : TRUE]]
<1>1. /\ s.data \in [Page -> Contents] /\ s.files \in [File -> Contents \cup {Nil}]
      /\ s.dirty \in [Page -> BOOLEAN] /\ s.file \in [Page -> 0 .. MaxFile]
      /\ L \in SUBSET Page
  BY DEF State, Pages
<1>2. /\ Exact(s, L) /\ Apart(s, L) /\ Numbered(s, L) /\ Clean(s, L) /\ Shaped(s, L)
      /\ MapOK(s.key_file_map, s, L) /\ MapOK(s.key_file.map, s, L) /\ Mapped(s, L)
      /\ \A k \in Key : s.key_file.map[k] \in {0, s.key_file_map[k]}
  BY DEF DataOK
<1>3. u = [s EXCEPT !.dirty = di, !.files = fs]
  BY DEF SavedPages, Pages, State
<1>4. \A p \in Page : di[p] = FALSE
  <2>1. ASSUME NEW p \in Page
        PROVE  ~(s.dirty[p] /\ p \notin Dirty)
    BY <1>2 DEF Clean
  <2> QED
    BY <2>1
<1>5. ASSUME NEW f \in File
      PROVE  fs[f] = Content(s, L, f)
  <2>1. CASE From(f) = {}
    <3>1. fs[f] = s.files[f]
      BY <2>1
    <3>2. CASE \E p \in L : s.file[p] = f
      <4>1. PICK p \in L : s.file[p] = f
        BY <3>2
      <4>2. ~s.dirty[p]
        BY <2>1, <4>1
      <4>3. s.files[f] = s.data[p]
        BY <1>1, <1>2, <4>1, <4>2 DEF Clean
      <4> QED
        BY <1>2, <3>1, <4>1, <4>3, ContentIs
    <3>3. CASE \A p \in L : s.file[p] # f
      BY <1>2, <3>1, <3>3, ContentIs
    <3> QED
      BY <3>2, <3>3
  <2>2. CASE From(f) # {}
    <3> DEFINE p == CHOOSE x \in From(f) : TRUE
    <3>1. p \in From(f) /\ fs[f] = s.data[p]
      BY <2>2
    <3>2. p \in L /\ s.file[p] = f
      BY <3>1
    <3> HIDE DEF p
    <3> QED
      BY <1>2, <3>1, <3>2, ContentIs
  <2> QED
    BY <2>1, <2>2
<1>6. di \in [Page -> BOOLEAN]
  OBVIOUS
<1>7. fs \in [File -> Contents \cup {Nil}]
  <2>1. \A f \in File : fs[f] \in Contents \cup {Nil}
    BY <1>1, <1>5, ContentType
  <2>2. fs = [f \in File |-> fs[f]]
    OBVIOUS
  <2> HIDE DEF fs
  <2> QED
    BY <2>1, <2>2
<1> HIDE DEF di, fs, Dirty, From
<1>8. /\ u \in State /\ u.dirty = di /\ u.files = fs
      /\ u.data = s.data /\ u.file = s.file /\ u.hash_map = s.hash_map
      /\ u.next = s.next /\ u.prev = s.prev /\ u.free = s.free
      /\ u.put_page = s.put_page /\ u.put_page_existed = s.put_page_existed
      /\ u.data_index = s.data_index /\ u.new_file_index = s.new_file_index
      /\ u.key_file_map = s.key_file_map /\ u.key_file = s.key_file
  <2>1. u \in State
    BY <1>3, <1>6, <1>7 DEF State
  <2>2. /\ u.dirty = di /\ u.files = fs
        /\ u.data = s.data /\ u.file = s.file /\ u.hash_map = s.hash_map
        /\ u.next = s.next /\ u.prev = s.prev /\ u.free = s.free
    BY <1>3 DEF State
  <2>3. /\ u.put_page = s.put_page /\ u.put_page_existed = s.put_page_existed
        /\ u.data_index = s.data_index /\ u.new_file_index = s.new_file_index
        /\ u.key_file_map = s.key_file_map /\ u.key_file = s.key_file
    BY <1>3 DEF State
  <2> QED
    BY <2>1, <2>2, <2>3
<1> HIDE DEF L
<1>9. Apart(u, L)
  BY <1>2, <1>8 DEF Apart
<1>10. ASSUME NEW f \in File
       PROVE  Content(u, L, f) = Content(s, L, f)
  <2>1. CASE \E p \in L : s.file[p] = f
    <3>1. PICK p \in L : s.file[p] = f
      BY <2>1
    <3> QED
      BY <1>2, <1>8, <1>9, <3>1, ContentIs
  <2>2. CASE \A p \in L : s.file[p] # f
    BY <1>5, <1>8, <1>9, <2>2, ContentIs
  <2> QED
    BY <2>1, <2>2
<1>11. SameFiles(s, L, u, L)
  BY <1>8, <1>10 DEF SameFiles, FileOf
<1>12. MapOK(u.key_file_map, u, L) /\ MapOK(u.key_file.map, u, L)
  <2>1. ASSUME NEW map \in KeyMaps, MapOK(map, s, L)
        PROVE  MapOK(map, u, L)
    <3>1. \A k \in Key : map[k] # 0 => map[k] \in File
      BY Bounds DEF KeyMaps, File
    <3> QED
      BY <1>8, <1>10, <2>1, <3>1 DEF MapOK
  <2>2. s.key_file_map \in KeyMaps /\ s.key_file.map \in KeyMaps
    BY DEF State, KeyFiles
  <2> QED
    BY <1>2, <1>8, <2>1, <2>2
<1>13. Exact(u, L)
  <2>1. u.hash_map = s.hash_map /\ u.data = s.data
    BY <1>8
  <2>2. \A k \in Key : Node(u, k) = Node(s, k)
    BY <2>1 DEF Node
  <2>3. Exact(s, L)
    BY <1>2
  <2> QED
    BY <2>1, <2>2, <2>3 DEF Exact
<1>14. Numbered(u, L)
  <2>1. ASSUME NEW f \in File, f > s.new_file_index
        PROVE  fs[f] = Nil
    <3>1. \A p \in L : s.file[p] # f
      <4>1. \A p \in L : s.file[p] \in 1 .. s.new_file_index
        BY <1>2 DEF Numbered
      <4>2. s.new_file_index \in 0 .. MaxFile
        BY DEF State
      <4> QED
        BY <2>1, <4>1, <4>2, Bounds DEF File
    <3>2. Content(s, L, f) = s.files[f]
      BY <1>2, <3>1, ContentIs
    <3> QED
      BY <1>2, <1>5, <2>1, <3>2 DEF Numbered
  <2>2. \A p \in L : u.file[p] \in 1 .. u.new_file_index
    BY <1>2, <1>8 DEF Numbered
  <2> QED
    BY <1>8, <2>1, <2>2 DEF Numbered
<1>15. Clean(u, L)
  <2>1. ASSUME NEW p \in L
        PROVE  u.files[u.file[p]] = u.data[p]
    <3>1. s.file[p] \in File
      BY <1>1, <1>2, Bounds DEF Numbered, File
    <3> QED
      BY <1>2, <1>5, <1>8, <3>1, ContentIs
  <2>2. \A p \in Page : ~u.dirty[p]
    BY <1>4, <1>8
  <2> QED
    BY <2>1, <2>2 DEF Clean
<1>16. Shaped(u, L)
  <2>1. \A p \in L : Shape(u.data[p])
    BY <1>2, <1>8 DEF Shaped
  <2>2. ASSUME NEW f \in File, u.files[f] # Nil
        PROVE  Shape(u.files[f])
    <3>1. u.files[f] = Content(s, L, f)
      BY <1>5, <1>8
    <3>2. CASE \E p \in L : s.file[p] = f
      BY <1>2, <3>1, <3>2, ContentIs DEF Shaped
    <3>3. CASE \A p \in L : s.file[p] # f
      <4>1. Content(s, L, f) = s.files[f]
        BY <1>2, <3>3, ContentIs
      <4> QED
        BY <1>2, <2>2, <3>1, <4>1 DEF Shaped
    <3> QED
      BY <3>2, <3>3
  <2> QED
    BY <2>1, <2>2 DEF Shaped
<1>17. Mapped(u, L)
  BY <1>2, <1>8 DEF Mapped
<1>18. DataOK(u, L)
  BY <1>2, <1>8, <1>9, <1>12, <1>13, <1>14, <1>15, <1>16, <1>17 DEF DataOK
<1>19. \A f \in File : u.files[f] = Content(s, L, f)
  BY <1>5, <1>8
<1> QED
  BY <1>8, <1>11, <1>18, <1>19 DEF L

\* save_cache, at any time.
LEMMA SavedIs ==
  ASSUME NEW s, Whole(s), NEW t, t = Saved(s)
  PROVE  Whole(t) /\ SameFiles(s, Pages(s), t, Pages(t))
<1> DEFINE L == Pages(s)
           u == SavedPages(s)
<1>1. /\ s \in State /\ ListOK(s) /\ DataOK(s, L) /\ PutOK(s, L) /\ L \in SUBSET Page
      /\ s.put_page \in L \cup {Nil} /\ IsInjective(s.free) /\ Free(s) = Page \ Listed(s)
  BY DEF Whole, Good, Pages
<1>2. t = push_key_to_keymap(u)
  BY DEF Saved, SavedPages
<1> HIDE DEF u
<1>3. /\ u \in State /\ DataOK(u, L) /\ SameFiles(s, L, u, L)
      /\ u.data = s.data /\ u.next = s.next /\ u.prev = s.prev /\ u.free = s.free
      /\ u.put_page = s.put_page /\ u.put_page_existed = s.put_page_existed
      /\ u.data_index = s.data_index
  BY <1>1, SavedPagesIs DEF u
<1>4. /\ t \in State /\ DataOK(t, L) /\ SameFiles(u, L, t, L) /\ ButMaps(u, t)
      /\ AllMapped(t, L)
  BY <1>1, <1>2, <1>3, PushIs
<1>5. /\ t.data = s.data /\ t.next = s.next /\ t.prev = s.prev /\ t.free = s.free
      /\ t.put_page = s.put_page /\ t.put_page_existed = s.put_page_existed
      /\ t.data_index = s.data_index
  BY <1>3, <1>4 DEF ButMaps
<1>6. ListOK(t) /\ Listed(t) = Listed(s) /\ Free(t) = Free(s) /\ Pages(t) = L
  BY <1>1, <1>5, ListedIs DEF ListOK, Free, Pages
<1>7. PutOK(t, L)
  <2> SUFFICES ASSUME s.put_page_existed
               PROVE  PutOK(t, L)
    BY <1>5 DEF PutOK
  <2>1. /\ s.put_page \in L /\ s.data_index > 0
        /\ \A i \in Slot : i > s.data_index <=> s.data[s.put_page][i].key = Empty
    BY <1>1 DEF PutOK
  <2>2. KeysMapped(t, s.put_page)
    BY <1>4, <2>1 DEF AllMapped
  <2> HIDE DEF L
  <2> QED
    BY <1>5, <2>1, <2>2 DEF PutOK
<1>8. Whole(t)
  BY <1>1, <1>4, <1>5, <1>6, <1>7 DEF Whole, Good
<1> QED
  BY <1>3, <1>4, <1>6, <1>8, SameFilesTwice

\* The free pages of a new object: each page once.
LEMMA PageSeq ==
  /\ SetToSeq(Page) \in Seq(Page) /\ IsInjective(SetToSeq(Page))
  /\ Range(SetToSeq(Page)) = Page
<1> DEFINE n == Cardinality(Page)
           f == SetToSeq(Page)
<1>1. IsFiniteSet(Page)
  BY HashCacheAssumption
<1>2. n \in Nat /\ ExistsBijection(1 .. n, Page)
  BY <1>1, FS_CardinalityType
<1>3. \E g \in [1 .. n -> Page] : IsInjective(g)
  BY <1>2 DEF ExistsBijection, Bijection, Injection, IsInjective
<1>4. f \in [1 .. n -> Page] /\ IsInjective(f)
  BY <1>3 DEF SetToSeq
<1> HIDE DEF f
<1>5. f \in Injection(1 .. n, Page)
  BY <1>4 DEF Injection
<1>6. Cardinality(1 .. n) = Cardinality(Page)
  BY <1>2, FS_Interval
<1>7. f \in Surjection(1 .. n, Page)
  BY <1>1, <1>5, <1>6, FS_Injection
<1>8. Range(f) = Page
  <2>1. \A p \in Page : \E i \in 1 .. n : f[i] = p
    BY <1>7 DEF Surjection
  <2> QED
    BY <1>4, <2>1 DEF Range
<1>9. f \in Seq(Page)
  BY <1>2, <1>4, SeqDef
<1> QED
  BY <1>4, <1>8, <1>9 DEF f

\* The object of a new run has what its files have.
LEMMA ConstructedIs ==
  ASSUME NEW files \in [File -> Contents \cup {Nil}], NEW kf \in KeyFiles,
         NEW index \in 0 .. MaxFile,
         \A f \in File : files[f] # Nil => Shape(files[f]),
         \A f \in File : f > index => files[f] = Nil,
         \A k \in Key : kf.map[k] # 0 =>
           /\ kf.map[k] <= index /\ files[kf.map[k]] # Nil
           /\ k \in KeysOf(files[kf.map[k]])
           /\ \A l \in KeysOf(files[kf.map[k]]) : kf.map[l] = kf.map[k],
         NEW c, c = Constructed(files, kf, index)
  PROVE  /\ Whole(c) /\ \A f : Content(c, Pages(c), f) = files[f]
         /\ \A k \in Key : FileOf(c, Pages(c), k) = {kf.map[k]} \cap File
<1>1. /\ c.data = [p \in Page |-> Blank] /\ c.file = [p \in Page |-> 0]
      /\ c.dirty = [p \in Page |-> FALSE]
      /\ c.next = [x \in Page \cup {head} |-> IF x = head THEN tail ELSE Nil]
      /\ c.prev = [x \in Page \cup {tail} |-> IF x = tail THEN head ELSE Nil]
      /\ c.free = SetToSeq(Page) /\ c.hash_map = [k \in Key |-> Nil]
      /\ c.key_file_map = kf.map /\ c.new_file_index = index
      /\ c.put_page = Nil /\ c.put_page_existed = FALSE /\ c.data_index = 0
      /\ c.files = files /\ c.key_file = kf
  BY DEF Constructed
<1>2. c.next \in NextFns /\ c.prev \in PrevFns
  BY <1>1 DEF NextFns, PrevFns
<1>3. kf.map \in KeyMaps
  BY DEF KeyFiles
<1>4. c \in State
  <2>1. [p \in Page |-> Blank] \in [Page -> Contents]
    BY DEF Blank, NoNode, Contents
  <2>2. [p \in Page |-> 0] \in [Page -> 0 .. MaxFile] /\ 0 \in 0 .. PAGE_SIZE
    BY Bounds
  <2>3. /\ [p \in Page |-> FALSE] \in [Page -> BOOLEAN]
        /\ [k \in Key |-> Nil] \in [Key -> (Page \X Slot) \cup {Nil}]
    OBVIOUS
  <2>4. c = [data |-> c.data, file |-> c.file, dirty |-> c.dirty, next |-> c.next,
             prev |-> c.prev, free |-> c.free, hash_map |-> c.hash_map,
             key_file_map |-> c.key_file_map, new_file_index |-> c.new_file_index,
             put_page |-> c.put_page, put_page_existed |-> c.put_page_existed,
             data_index |-> c.data_index, files |-> c.files, key_file |-> c.key_file]
    BY DEF Constructed
  <2>5. /\ c.data \in [Page -> Contents] /\ c.file \in [Page -> 0 .. MaxFile]
        /\ c.dirty \in [Page -> BOOLEAN] /\ c.free \in Seq(Page)
        /\ c.hash_map \in [Key -> (Page \X Slot) \cup {Nil}]
        /\ c.key_file_map \in KeyMaps /\ c.new_file_index \in 0 .. MaxFile
        /\ c.put_page \in Page \cup {Nil} /\ c.put_page_existed \in BOOLEAN
        /\ c.data_index \in 0 .. PAGE_SIZE
        /\ c.files \in [File -> Contents \cup {Nil}] /\ c.key_file \in KeyFiles
    BY <1>1, <1>3, <2>1, <2>2, <2>3, PageSeq
  <2> QED
    BY <1>2, <2>4, <2>5 DEF State
<1>5. Reach(c.next) = {head, tail}
  <2>1. Closed(c.next, {head, tail}) /\ {head, tail} \in SUBSET Link
    BY <1>1, Ends DEF Closed, Link
  <2>2. Reach(c.next) \subseteq {head, tail} /\ Closed(c.next, Reach(c.next))
    BY <1>2, <2>1, ReachIs
  <2>3. head \in Reach(c.next) /\ c.next[head] \in Reach(c.next)
    BY <2>2, Ends DEF Closed
  <2>4. c.next[head] = tail
    BY <1>1
  <2>5. {head, tail} \subseteq Reach(c.next)
    BY <2>3, <2>4
  <2> QED
    BY <2>2, <2>5
<1>6. ListOK(c) /\ Listed(c) = {head, tail} /\ Pages(c) = {}
  <2>1. c.prev[c.next[head]] = head
    BY <1>1
  <2>2. Linked(c.next, c.prev)
    BY <1>5, <2>1, Ends DEF Linked
  <2>3. Listed(c) = {head, tail}
    BY <1>5, ListedIs
  <2> QED
    BY <2>2, <2>3, Ends DEF ListOK, Pages
<1>7. \A f : Content(c, {}, f) = files[f]
  BY <1>1 DEF Content, Holders
<1>8. \A k \in Key : FileOf(c, {}, k) = {kf.map[k]} \cap File
  BY <1>1 DEF FileOf
<1>9. MapOK(kf.map, c, {})
  BY <1>1, <1>7 DEF MapOK
<1>10. DataOK(c, {})
  <2>1. Exact(c, {}) /\ Apart(c, {}) /\ Mapped(c, {})
    BY <1>1 DEF Exact, Apart, Mapped
  <2>2. Numbered(c, {}) /\ Clean(c, {}) /\ Shaped(c, {})
    BY <1>1 DEF Numbered, Clean, Shaped
  <2> QED
    BY <1>1, <1>9, <2>1, <2>2 DEF DataOK
<1>11. PutOK(c, {})
  BY <1>1 DEF PutOK
<1>12. IsInjective(c.free) /\ Free(c) = Page \ Listed(c)
  BY <1>1, <1>6, Ends, PageSeq DEF Free
<1>13. Whole(c)
  BY <1>1, <1>4, <1>6, <1>10, <1>11, <1>12 DEF Whole, Good
<1> QED
  BY <1>6, <1>7, <1>8, <1>13

\* A restart changes no value, but may lose some.
LEMMA RestartIs ==
  ASSUME NEW s, Whole(s), NEW t, t = Saved(s),
         NEW c, c = Constructed(t.files, t.key_file, t.new_file_index)
  PROVE  Whole(c) /\ \A k \in Key : ValueOf(c, k) \in {Empty, ValueOf(s, k)}
<1> DEFINE L == Pages(s)
           u == SavedPages(s)
<1>1. /\ s \in State /\ DataOK(s, L) /\ L \in SUBSET Page /\ s.put_page \in L \cup {Nil}
  BY DEF Whole, Good, Pages
<1>2. t = push_key_to_keymap(u)
  BY DEF Saved, SavedPages
<1> HIDE DEF u
<1>3. /\ u \in State /\ DataOK(u, L) /\ SameFiles(s, L, u, L) /\ u.put_page = s.put_page
      /\ \A f \in File : u.files[f] = Content(s, L, f)
  BY <1>1, SavedPagesIs DEF u
<1>4. t \in State /\ DataOK(t, L) /\ SameFiles(u, L, t, L) /\ t.files = u.files
  BY <1>1, <1>2, <1>3, PushIs DEF ButMaps
<1>5. \A f \in File : t.files[f] = Content(t, L, f)
  BY <1>3, <1>4 DEF SameFiles
<1>6. /\ t.files \in [File -> Contents \cup {Nil}] /\ t.key_file \in KeyFiles
      /\ t.new_file_index \in 0 .. MaxFile /\ t.key_file.map \in KeyMaps
  BY <1>4 DEF State, KeyFiles
<1>7. \A f \in File : (t.files[f] # Nil => Shape(t.files[f]))
                      /\ (f > t.new_file_index => t.files[f] = Nil)
  BY <1>4 DEF DataOK, Shaped, Numbered
<1>8. ASSUME NEW k \in Key, t.key_file.map[k] # 0
      PROVE  /\ t.key_file.map[k] <= t.new_file_index /\ t.files[t.key_file.map[k]] # Nil
             /\ k \in KeysOf(t.files[t.key_file.map[k]])
             /\ \A l \in KeysOf(t.files[t.key_file.map[k]]) : t.key_file.map[l] = t.key_file.map[k]
  <2>1. t.key_file.map[k] \in File
    BY <1>6, <1>8, Bounds DEF KeyMaps, File
  <2>2. MapOK(t.key_file.map, t, L)
    BY <1>4 DEF DataOK
  <2> QED
    BY <1>5, <1>8, <2>1, <2>2 DEF MapOK
<1>9. /\ Whole(c) /\ \A f : Content(c, Pages(c), f) = t.files[f]
      /\ \A k \in Key : FileOf(c, Pages(c), k) = {t.key_file.map[k]} \cap File
  BY <1>6, <1>7, <1>8, ConstructedIs
<1>10. c \in State /\ DataOK(c, Pages(c)) /\ Pages(c) \in SUBSET Page
  BY <1>9 DEF Whole, Good, Pages
<1>11. ASSUME NEW k \in Key
       PROVE  ValueOf(c, k) \in {Empty, ValueOf(s, k)}
  <2> DEFINE M == Pages(c)
             f == t.key_file.map[k]
  <2>1. ValueOf(t, k) = ValueOf(s, k)
    <3>1. SameFiles(s, L, t, L)
      BY <1>3, <1>4, SameFilesTwice
    <3> QED
      BY <1>1, <1>4, <3>1, SameFilesValue
  <2> HIDE DEF M
  <2>2. CASE FileOf(c, M, k) = {}
    BY <1>10, <2>2, ValueIs DEF M
  <2>3. CASE FileOf(c, M, k) # {}
    <3>1. f \in File /\ f \in FileOf(c, M, k)
      BY <1>9, <2>3 DEF M
    <3>2. f = t.key_file_map[k]
      <4>1. t.key_file.map[k] \in {0, t.key_file_map[k]}
        BY <1>4 DEF DataOK
      <4> QED
        BY <3>1, <4>1 DEF File
    <3> HIDE DEF f
    <3>3. f \in FileOf(t, L, k)
      BY <3>1, <3>2 DEF FileOf
    <3> DEFINE d == Content(t, L, f)
    <3>4. Content(c, M, f) = d
      BY <1>5, <1>9, <3>1 DEF M
    <3>5. /\ d \in Contents /\ k \in KeysOf(d)
          /\ \A i \in Slot : d[i].key = k => ValueOf(t, k) = d[i].value
      BY <1>1, <1>4, <3>3, ValueIs
    <3>6. \A i \in Slot : d[i].key = k => ValueOf(c, k) = d[i].value
      BY <1>10, <3>1, <3>4, ValueIs DEF M
    <3> HIDE DEF d
    <3>7. PICK i \in Slot : d[i].key = k
      BY <3>5, KeysIn
    <3> QED
      BY <2>1, <3>5, <3>6, <3>7
  <2> QED
    BY <2>2, <2>3
<1> QED
  BY <1>9, <1>11


-----------------------------------------------------------------------------
(* The invariant, and what it says.                                        *)

CacheWhole == Whole(cache) /\ answer \in Value \cup {Empty}

CacheInv ==
  sound \in BOOLEAN /\ session \in 1 .. MaxSession /\ (sound => CacheWhole)

\* What a call finds is a value.
LEMMA ValueType ==
  ASSUME NEW s, Whole(s), NEW k \in Key
  PROVE  ValueOf(s, k) \in Value \cup {Empty}
<1> DEFINE L == Pages(s)
<1>1. s \in State /\ L \in SUBSET Page /\ DataOK(s, L)
  BY DEF Whole, Good, Pages
<1>2. CASE FileOf(s, L, k) = {}
  BY <1>1, <1>2, ValueIs
<1>3. CASE FileOf(s, L, k) # {}
  <2>1. PICK f \in FileOf(s, L, k) : TRUE
    BY <1>3
  <2> DEFINE d == Content(s, L, f)
  <2>2. /\ d \in Contents /\ k \in KeysOf(d)
        /\ \A i \in Slot : d[i].key = k => ValueOf(s, k) = d[i].value
    BY <1>1, <2>1, ValueIs
  <2> HIDE DEF d
  <2>3. PICK i \in Slot : d[i].key = k
    BY <2>2, KeysIn
  <2> QED
    BY <2>2, <2>3, KeysIn
<1> QED
  BY <1>2, <1>3

\* What get answers after the search.
LEMMA AnswerIs ==
  ASSUME NEW s, Whole(s), NEW k \in Key, s.hash_map[k] = Nil => s.key_file_map[k] = 0
  PROVE  ValueOf(s, k) = IF s.hash_map[k] = Nil THEN Empty ELSE Node(s, k).value
BY DEF ValueOf

\* A search changes no value.
LEMMA SearchKeeps ==
  ASSUME NEW s, Whole(s), NEW k \in Key, NEW t, t = search(s, k)
  PROVE  /\ Whole(t) /\ \A l \in Key : ValueOf(t, l) = ValueOf(s, l)
         /\ t.hash_map[k] = Nil => t.key_file_map[k] = 0
<1>1. /\ Whole(t) /\ SameFiles(s, Pages(s), t, Pages(t))
      /\ t.hash_map[k] = Nil => t.key_file_map[k] = 0
  BY SearchIs
<1>2. /\ s \in State /\ DataOK(s, Pages(s)) /\ Pages(s) \in SUBSET Page
      /\ t \in State /\ DataOK(t, Pages(t)) /\ Pages(t) \in SUBSET Page
  BY <1>1 DEF Whole, Good, Pages
<1> QED
  BY <1>1, <1>2, SameFilesValue

\* get changes no value, and answers with that of its key.
LEMMA GetIs ==
  ASSUME CacheWhole, NEW k \in Key, get(k)
  PROVE  /\ CacheWhole' /\ \A l \in Key : ValueOf(cache', l) = ValueOf(cache, l)
         /\ answer' = ValueOf(cache, k) /\ session' = session
<1> DEFINE t == search(cache, k)
<1>1. /\ Whole(t) /\ \A l \in Key : ValueOf(t, l) = ValueOf(cache, l)
      /\ t.hash_map[k] = Nil => t.key_file_map[k] = 0
  BY SearchKeeps DEF CacheWhole
<1>2. /\ cache' = t /\ session' = session
      /\ answer' = IF t.hash_map[k] = Nil THEN Empty ELSE Node(t, k).value
  BY DEF get
<1> HIDE DEF t
<1>3. answer' = ValueOf(t, k) /\ answer' \in Value \cup {Empty}
  BY <1>1, <1>2, AnswerIs, ValueType
<1>4. Whole(cache')
  BY <1>1, <1>2
<1> QED
  BY <1>1, <1>2, <1>3, <1>4 DEF CacheWhole

\* put changes the value of its key, unless sound ends.
LEMMA PutIs ==
  ASSUME CacheWhole, NEW k \in Key, NEW v \in Value, put(k, v), sound'
  PROVE  /\ CacheWhole' /\ answer' = answer /\ session' = session
         /\ \A l \in Key : ValueOf(cache', l) = IF l = k THEN v ELSE ValueOf(cache, l)
<1> DEFINE t == search(cache, k)
<1>1. /\ Whole(t) /\ \A l \in Key : ValueOf(t, l) = ValueOf(cache, l)
      /\ t.hash_map[k] = Nil => t.key_file_map[k] = 0
  BY SearchKeeps DEF CacheWhole
<1>2. \/ t.hash_map[k] # Nil /\ cache' = Overwrite(t, k, v)
      \/ /\ t.hash_map[k] = Nil /\ ~FullOrGone(t) /\ cache' = AppendNode(t, k, v)
         /\ ~SavedHalfFull(t)
      \/ /\ t.hash_map[k] = Nil /\ FullOrGone(t) /\ t.new_file_index < MaxFile
         /\ cache' = AppendNode(NextPutPage(t), k, v)
  BY DEF put
<1>3. answer' = answer /\ session' = session
  BY DEF put
<1> HIDE DEF t
<1>4. Whole(cache') /\ \A l \in Key : ValueOf(cache', l) = IF l = k THEN v ELSE ValueOf(t, l)
  <2>1. CASE t.hash_map[k] # Nil
    BY <1>1, <1>2, <2>1, OverwriteIs
  <2>2. CASE t.hash_map[k] = Nil /\ ~FullOrGone(t)
    BY <1>1, <1>2, <2>2, AppendIs
  <2>3. CASE t.hash_map[k] = Nil /\ FullOrGone(t)
    BY <1>1, <1>2, <2>3, NextPutPageIs
  <2> QED
    BY <2>1, <2>2, <2>3
<1> QED
  BY <1>1, <1>3, <1>4 DEF CacheWhole

\* save_cache changes no value.
LEMMA SaveIs ==
  ASSUME CacheWhole, save_cache
  PROVE  /\ CacheWhole' /\ answer' = answer /\ session' = session
         /\ \A k \in Key : ValueOf(cache', k) = ValueOf(cache, k)
<1>1. cache' = Saved(cache) /\ answer' = answer /\ session' = session
  BY DEF save_cache
<1>2. Whole(cache') /\ SameFiles(cache, Pages(cache), cache', Pages(cache'))
  BY <1>1, SavedIs DEF CacheWhole
<1>3. /\ cache \in State /\ DataOK(cache, Pages(cache)) /\ Pages(cache) \in SUBSET Page
      /\ cache' \in State /\ DataOK(cache', Pages(cache')) /\ Pages(cache') \in SUBSET Page
  BY <1>2 DEF CacheWhole, Whole, Good, Pages
<1>4. \A k \in Key : ValueOf(cache', k) = ValueOf(cache, k)
  BY <1>2, <1>3, SameFilesValue
<1> QED
  BY <1>1, <1>2, <1>4 DEF CacheWhole

\* A new run of the program finds the values that it finds as they were.
LEMMA RestartKeeps ==
  ASSUME CacheWhole, Restart
  PROVE  /\ CacheWhole' /\ answer' = answer /\ session' = session + 1
         /\ \A k \in Key : ValueOf(cache', k) \in {Empty, ValueOf(cache, k)}
<1> DEFINE t == Saved(cache)
<1>1. /\ cache' = Constructed(t.files, t.key_file, t.new_file_index)
      /\ session < MaxSession /\ session' = session + 1 /\ answer' = answer
  BY DEF Restart
<1>2. Whole(cache') /\ \A k \in Key : ValueOf(cache', k) \in {Empty, ValueOf(cache, k)}
  BY <1>1, RestartIs DEF CacheWhole
<1> QED
  BY <1>1, <1>2 DEF CacheWhole

\* What ends stays ended, and counts stay in their ranges.
LEMMA SoundEnds ==
  ASSUME sound \in BOOLEAN, session \in 1 .. MaxSession, [Next]_vars
  PROVE  sound' \in BOOLEAN /\ session' \in 1 .. MaxSession /\ (sound' => sound)
<1>1. ASSUME NEW k \in Key, get(k)
      PROVE  sound' \in BOOLEAN /\ (sound' => sound) /\ session' = session
  <2> DEFINE b == InBounds(Accessed(cache, k))
  <2>1. sound' = (sound /\ b) /\ session' = session
    BY <1>1 DEF get
  <2> HIDE DEF b
  <2> QED
    BY <2>1
<1>2. ASSUME NEW k \in Key, NEW v \in Value, put(k, v)
      PROVE  sound' \in BOOLEAN /\ (sound' => sound) /\ session' = session
  <2> DEFINE s == search(cache, k)
             a == InBounds(Accessed(cache, k))
             b == SavedHalfFull(s)
             c == InBounds(Erased(push_key_to_keymap(s)))
  <2>1. /\ sound' = (sound /\ a) \/ sound' = (sound /\ a /\ ~b) \/ sound' = (sound /\ a /\ c)
        /\ session' = session
    BY <1>2 DEF put
  <2> HIDE DEF a, b, c
  <2> QED
    BY <2>1
<1>3. CASE save_cache
  BY <1>3 DEF save_cache
<1>4. CASE Restart
  BY <1>4, HashCacheAssumption DEF Restart
<1>5. CASE UNCHANGED vars
  BY <1>5 DEF vars
<1> QED
  BY <1>1, <1>2, <1>3, <1>4, <1>5 DEF Next

\* At the start there is nothing in the cache and no file.
LEMMA InitIs ==
  ASSUME Init
  PROVE  CacheInv /\ sound /\ \A k \in Key : ValueOf(cache, k) = Empty
<1> DEFINE files == [f \in File |-> Nil]
<1>1. cache = Constructed(files, NoKeyFile, 0) /\ answer = Empty /\ session = 1 /\ sound = TRUE
  BY DEF Init
<1>2. /\ files \in [File -> Contents \cup {Nil}] /\ NoKeyFile \in KeyFiles /\ 0 \in 0 .. MaxFile
      /\ \A k \in Key : NoKeyFile.map[k] = 0
  BY Bounds DEF NoKeyFile, KeyFiles, KeyMaps, Reading
<1>3. \A f \in File : files[f] = Nil
  OBVIOUS
<1> HIDE DEF files
<1>4. /\ Whole(cache)
      /\ \A k \in Key : FileOf(cache, Pages(cache), k) = {NoKeyFile.map[k]} \cap File
  BY <1>1, <1>2, <1>3, ConstructedIs
<1>5. \A k \in Key : FileOf(cache, Pages(cache), k) = {}
  BY <1>2, <1>4 DEF File
<1>6. cache \in State /\ DataOK(cache, Pages(cache)) /\ Pages(cache) \in SUBSET Page
  BY <1>4 DEF Whole, Good, Pages
<1>7. \A k \in Key : ValueOf(cache, k) = Empty
  BY <1>5, <1>6, ValueIs
<1>8. session \in 1 .. MaxSession
  BY <1>1, HashCacheAssumption
<1> QED
  BY <1>1, <1>4, <1>7, <1>8 DEF CacheInv, CacheWhole

\* Every step keeps the invariant.
LEMMA StepKeeps ==
  ASSUME CacheInv, [Next]_vars
  PROVE  CacheInv'
<1>1. sound' \in BOOLEAN /\ session' \in 1 .. MaxSession /\ (sound' => sound)
  BY SoundEnds DEF CacheInv
<1> SUFFICES ASSUME sound'
             PROVE  CacheWhole'
  BY <1>1 DEF CacheInv
<1>2. CacheWhole
  BY <1>1 DEF CacheInv
<1>3. ASSUME NEW k \in Key, get(k) PROVE CacheWhole'
  BY <1>2, <1>3, GetIs
<1>4. ASSUME NEW k \in Key, NEW v \in Value, put(k, v) PROVE CacheWhole'
  BY <1>2, <1>4, PutIs
<1>5. CASE save_cache
  BY <1>2, <1>5, SaveIs
<1>6. CASE Restart
  BY <1>2, <1>6, RestartKeeps
<1>7. CASE UNCHANGED vars
  BY <1>2, <1>7 DEF vars, CacheWhole
<1> QED
  BY <1>3, <1>4, <1>5, <1>6, <1>7 DEF Next

\* The invariant holds always.
THEOREM CacheIsWhole == Spec => []CacheInv
<1>1. Init => CacheInv
  BY InitIs
<1>2. CacheInv /\ [Next]_vars => CacheInv'
  BY StepKeeps
<1> QED
  BY <1>1, <1>2, PTL DEF Spec

\* TypeOK: as long as sound, the state is of the types of the C++ members, and
\* the put page is in the list while it exists.
THEOREM TypeCorrect == Spec => []TypeOK
<1>1. CacheInv => TypeOK
  <2> SUFFICES ASSUME CacheInv, sound
               PROVE  TypeOK
    BY DEF TypeOK, CacheInv
  <2>1. cache \in State /\ PutOK(cache, Pages(cache))
    BY DEF CacheInv, CacheWhole, Whole, Good
  <2>2. cache.put_page_existed => cache.put_page \in Listed(cache) /\ cache.data_index > 0
    BY <2>1 DEF PutOK, Pages
  <2> QED
    BY <2>1, <2>2 DEF CacheInv, CacheWhole, TypeOK, State, KeyMaps, NextFns, PrevFns
<1> QED
  BY <1>1, CacheIsWhole, PTL

\* PagesKept: with save_cache at any time, get_new_page, attach and detach lose no
\* page before put adds a node to a page that was saved half full, or a file
\* number is out of the bounds of file_accessed.
THEOREM PagesKeptHolds == Spec => []PagesKept
<1>1. CacheInv => PagesKept
  <2> SUFFICES ASSUME CacheInv, sound
               PROVE  PagesKept
    BY DEF PagesKept
  <2>1. Linked(cache.next, cache.prev) /\ Free(cache) = Page \ Listed(cache)
    BY DEF CacheInv, CacheWhole, Whole, Good, ListOK
  <2>2. Listed(cache) = Reach(cache.next)
    BY ListedIs
  <2> QED
    BY <2>1, <2>2 DEF Linked, Free, Range, PagesKept
<1> QED
  BY <1>1, CacheIsWhole, PTL

\* HashMapExact: hash_map has the keys in memory, each at its node, as long as
\* sound.
THEOREM HashMapExactHolds == Spec => []HashMapExact
<1>1. CacheInv => HashMapExact
  <2> SUFFICES ASSUME CacheInv, sound
               PROVE  HashMapExact
    BY DEF HashMapExact
  <2>1. Exact(cache, Pages(cache)) /\ Apart(cache, Pages(cache))
    BY DEF CacheInv, CacheWhole, Whole, Good, DataOK
  <2> QED
    BY <2>1 DEF Exact, Apart, Pages, HashMapExact
<1> QED
  BY <1>1, CacheIsWhole, PTL

\* CleanIsSaved: to evict a page whose dirty_ is not set loses nothing, until put
\* adds a node to a page that save_cache has saved half full.
THEOREM CleanIsSavedHolds == Spec => []CleanIsSaved
<1>1. CacheInv => CleanIsSaved
  <2> SUFFICES ASSUME CacheInv, sound
               PROVE  CleanIsSaved
    BY DEF CleanIsSaved
  <2>1. Clean(cache, Pages(cache))
    BY DEF CacheInv, CacheWhole, Whole, Good, DataOK
  <2> QED
    BY <2>1 DEF Clean, Pages, CleanIsSaved
<1> QED
  BY <1>1, CacheIsWhole, PTL

\* KeepsMap: as long as sound, get and put of the cache, with all that they evict
\* and load, are get and put of a map, and save_cache changes nothing of it; only
\* a new run of the program may have lost keys.
THEOREM ImplementsMap == Spec => KeepsMap
<1> DEFINE stored == [k \in Key |-> ValueOf(cache, k)]
<1>1. Init => Map!Init
  <2> SUFFICES ASSUME Init
               PROVE  Map!Init
    OBVIOUS
  <2>1. stored = [k \in Key |-> Empty]
    BY InitIs
  <2> QED
    BY <2>1 DEF Init, Map!Init
<1>2. CacheInv /\ [Next]_vars => [sound' => Map!Next]_Map!vars
  <2> SUFFICES ASSUME CacheInv, [Next]_vars, sound'
               PROVE  [Map!Next]_Map!vars
    OBVIOUS
  <2>0. CacheWhole
    BY SoundEnds DEF CacheInv
  <2>1. ASSUME NEW k \in Key, get(k)
        PROVE  Map!Get(k)
    <3>1. /\ \A l \in Key : ValueOf(cache', l) = ValueOf(cache, l)
          /\ answer' = ValueOf(cache, k) /\ session' = session
      BY <2>0, <2>1, GetIs
    <3> QED
      BY <3>1 DEF Map!Get
  <2>2. ASSUME NEW k \in Key, NEW v \in Value, put(k, v)
        PROVE  Map!Put(k, v)
    <3>1. /\ \A l \in Key : ValueOf(cache', l) = IF l = k THEN v ELSE ValueOf(cache, l)
          /\ answer' = answer /\ session' = session
      BY <2>0, <2>2, PutIs
    <3>2. stored' = [stored EXCEPT ![k] = v]
      BY <3>1
    <3> QED
      BY <3>1, <3>2 DEF Map!Put
  <2>3. CASE save_cache
    <3>1. /\ answer' = answer /\ session' = session
          /\ \A k \in Key : ValueOf(cache', k) = ValueOf(cache, k)
      BY <2>0, <2>3, SaveIs
    <3> QED
      BY <3>1 DEF Map!vars
  <2>4. CASE Restart
    <3>1. /\ answer' = answer /\ session' = session + 1
          /\ \A k \in Key : ValueOf(cache', k) \in {Empty, ValueOf(cache, k)}
      BY <2>0, <2>4, RestartKeeps
    <3> DEFINE lost == {k \in Key : ValueOf(cache', k) = Empty}
    <3>2. \A k \in Key : ValueOf(cache', k) = IF k \in lost THEN Empty ELSE ValueOf(cache, k)
      BY <3>1
    <3>3. lost \in SUBSET Key
      OBVIOUS
    <3> HIDE DEF lost
    <3>4. [k \in Key |-> ValueOf(cache', k)]
            = [k \in Key |-> IF k \in lost THEN Empty ELSE stored[k]]
      BY <3>2
    <3>5. \E gone \in SUBSET Key : [k \in Key |-> ValueOf(cache', k)]
            = [k \in Key |-> IF k \in gone THEN Empty ELSE stored[k]]
      BY <3>3, <3>4
    <3> QED
      BY <3>1, <3>5 DEF Map!Restart, Map!Next
  <2>5. CASE UNCHANGED vars
    BY <2>5 DEF vars, Map!vars
  <2> QED
    BY <2>1, <2>2, <2>3, <2>4, <2>5 DEF Next, Map!Next
<1> QED
  BY <1>1, <1>2, CacheIsWhole, PTL DEF Spec, KeepsMap
=============================================================================
