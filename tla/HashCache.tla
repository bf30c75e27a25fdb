----------------------------- MODULE HashCache ------------------------------
(***************************************************************************)
(* HashCache: a cache of pages in memory over numbered files of one page   *)
(* each.  put fills the put page, and starts the next when it is full or   *)
(* has been evicted; a page that is needed and not in memory takes a free  *)
(* page or evicts the last one of a doubly linked list, which every use    *)
(* moves to the front.                                                     *)
(*                                                                         *)
(* There is one thread, so that a call of get or put is one action.  The   *)
(* variable cache is the state of the object with the files on the disk;   *)
(* the member functions are operators from such a state to the next.       *)
(*                                                                         *)
(* save_cache may be called at any time, as its declaration says.  A page  *)
(* that it saves half full gets more nodes, which nothing saves; and from  *)
(* the file DISK_SIZE on file_accessed has no entry for the numbers of     *)
(* files.  sound is the history of this: it is true until a put adds a     *)
(* node to a page that save_cache has saved, or an entry is written that   *)
(* file_accessed does not have.  The properties are about the time before. *)
(*                                                                         *)
(* Keys and values are not empty, have no blanks, and no key is a number.  *)
(* The entries of the empty key in the two hash maps are left out: nothing *)
(* looks them up.                                                          *)
(***************************************************************************)
EXTENDS Integers, FiniteSets, Sequences, SequencesExt

CONSTANTS
  Key, Value,
  Empty,        \* the empty string: an unused node of a page, no answer
  Page,         \* the pages of the cache: entries_
  PAGE_SIZE,    \* nodes in a page
  head, tail,   \* the two ends of the list
  Nil,          \* no page, no node, no file, a pointer that was never set
  DISK_SIZE,    \* entries of file_accessed, the first for the number 0
  MaxFile,      \* bound: files created
  MaxSession    \* bound: runs of the program

VARIABLES
  cache,    \* the object and its files
  answer,   \* what the last get returned
  session,  \* which run of the program this is
  sound     \* history: no node was lost, no entry out of bounds was written

vars == <<cache, answer, session, sound>>

Slot == 1 .. PAGE_SIZE
File == 1 .. MaxFile
NoNode == [key |-> Empty, value |-> Empty]
Blank == [i \in Slot |-> NoNode]
KeysOf(data) == {data[i].key : i \in Slot} \ {Empty}

Contents == [Slot -> [key : Key \cup {Empty}, value : Value \cup {Empty}]]

ASSUME HashCacheAssumption ==
  /\ PAGE_SIZE \in Nat \ {0} /\ DISK_SIZE \in Nat /\ MaxFile \in Nat /\ MaxSession \in Nat \ {0}
  /\ IsFiniteSet(Page) /\ Page # {} /\ {head, tail, Nil} \cap Page = {}
  /\ head # tail /\ Nil \notin {head, tail} /\ Nil \notin Contents \cup (Page \X Slot)
  /\ Empty \notin Key \cup Value

-----------------------------------------------------------------------------
(* Files.  A file of a page is the page.  The file of the key map is kept  *)
(* as what load_key_file_map makes of it: the map that it has read so far, *)
(* and whether it reads a key next, or the number of one, or stopped.  The *)
(* line of an unused node has the number of the file only, which is read   *)
(* as a key, and the first token of the next line is taken for its number. *)
(* If that is a number, nothing is lost; if it is a key, the reading fails *)
(* and ends there.                                                         *)

NoKeyFile == [map |-> [k \in Key |-> 0], reads |-> "key"]

\* The lines of a page: a key fails after an odd number of numbers that were
\* read without one.
ReadLines(r, data, num) ==
  LET Alone(i) == Cardinality({j \in 1 .. i - 1 : data[j].key = Empty})
                    + IF r.reads = "number" THEN 1 ELSE 0
      fails   == {i \in Slot : data[i].key # Empty /\ Alone(i) % 2 = 1}
      read    == {data[i].key : i \in {j \in Slot : \A n \in fails : j < n}}
  IN  IF r.reads = "stopped" THEN r
      ELSE [map   |-> [k \in Key |-> IF k \in read THEN num ELSE r.map[k]],
            reads |-> IF fails # {} THEN "stopped"
                      ELSE IF Alone(PAGE_SIZE + 1) % 2 = 1 THEN "number" ELSE "key"]

push_key_to_keymap(s) ==
  IF s.put_page = Nil THEN s
  ELSE LET data == s.data[s.put_page]
           num  == s.file[s.put_page]
       IN  [s EXCEPT
              !.key_file_map = [k \in Key |-> IF k \in KeysOf(data) THEN num ELSE @[k]],
              !.key_file = ReadLines(@, data, num)]

save_page_to_file(s, p) ==
  [s EXCEPT !.dirty[p] = FALSE, !.files[s.file[p]] = s.data[p]]

\* The page p gets the contents of the file num, if there is such a file;
\* else it goes back to the free pages.
load_file_to_page(s, num, p) ==
  IF s.files[num] = Nil
  THEN [s EXCEPT !.free = Append(@, p)]
  ELSE [s EXCEPT
          !.file[p] = num,
          !.data[p] = s.files[num],
          !.hash_map = [k \in Key |->
             IF k \in KeysOf(s.files[num])
             THEN <<p, CHOOSE i \in Slot : s.files[num][i].key = k>> ELSE @[k]]]

-----------------------------------------------------------------------------
(* The list of pages, and the page that is taken from its end.             *)

detach(s, p) == [s EXCEPT !.next[s.prev[p]] = s.next[p],
                          !.prev[s.next[p]] = s.prev[p]]
attach(s, p) == [s EXCEPT !.prev[p] = head, !.next[p] = s.next[head],
                          !.prev[s.next[head]] = p, !.next[head] = p]

\* What is reached from head by next: the pages in the list and its ends.
Listed(s) ==
  LET All == Page \cup {head, tail, Nil}
      Closed(S) == head \in S /\ \A x \in S \ {tail, Nil} : s.next[x] \in S
  IN  {x \in All : \A S \in SUBSET All : Closed(S) => x \in S}

\* Mutant of ToFront: the page is not taken from its old place.
ToFrontTwice(s, p) == attach(s, p)

ToFront(s, p) == attach(detach(s, p), p)

\* Mutant of erase_page_of_cache: the first node stays in the hash map.
erase_page_but_first(s, p) ==
  [s EXCEPT !.hash_map = [k \in Key |->
     IF k \in KeysOf(s.data[p]) \ {s.data[p][1].key} THEN Nil ELSE @[k]]]

erase_page_of_cache(s, p) ==
  [s EXCEPT !.hash_map = [k \in Key |->
     IF k \in KeysOf(s.data[p]) THEN Nil ELSE @[k]]]

\* Mutant of Evict: the page that leaves the cache is not saved.
EvictUnsaved(s, p) == detach(erase_page_of_cache(s, p), p)

\* An evicted put page leaves its keys in the map of files and stays the
\* put_page, so that this happens again to what the page holds next.
Evict(s, p) ==
  LET s1 == IF p = s.put_page
            THEN push_key_to_keymap([s EXCEPT !.put_page_existed = FALSE]) ELSE s
      s2 == IF s1.dirty[p] THEN save_page_to_file(s1, p) ELSE s1
  IN  detach(erase_page_of_cache(s2, p), p)

NewPage(s) == IF s.free = << >> THEN s.prev[tail] ELSE Last(s.free)

get_new_page(s) ==
  IF s.free = << >> THEN Evict(s, NewPage(s)) ELSE [s EXCEPT !.free = Front(@)]

\* A page that was loaded and does not have the key is neither in the list
\* nor free from then on.
SearchFile(s, k) ==
  LET p == NewPage(s)
      t == load_file_to_page(get_new_page(s), s.key_file_map[k], p)
  IN  IF t.hash_map[k] # Nil THEN attach(t, p) ELSE t

search(s, k) ==
  IF s.hash_map[k] # Nil THEN ToFront(s, s.hash_map[k][1])
  ELSE IF s.key_file_map[k] # 0 THEN SearchFile(s, k) ELSE s

\* The numbers at which file_accessed is written: the file that get_new_page
\* erases, and the one that search loads.
Erased(s) == IF s.free = << >> THEN {s.file[NewPage(s)]} ELSE {}
Accessed(s, k) ==
  IF s.hash_map[k] # Nil \/ s.key_file_map[k] = 0 THEN {}
  ELSE Erased(s) \cup {f \in {s.key_file_map[k]} : get_new_page(s).files[f] # Nil}
InBounds(files) == \A f \in files : f < DISK_SIZE

Node(s, k) == s.data[s.hash_map[k][1]][s.hash_map[k][2]]

-----------------------------------------------------------------------------
(* The object of a new run of the program, over the files of the last.     *)

Constructed(files, key_file, index) ==
  [data |-> [p \in Page |-> Blank], file |-> [p \in Page |-> 0],
   dirty |-> [p \in Page |-> FALSE],
   next |-> [x \in Page \cup {head} |-> IF x = head THEN tail ELSE Nil],
   prev |-> [x \in Page \cup {tail} |-> IF x = tail THEN head ELSE Nil],
   free |-> SetToSeq(Page), hash_map |-> [k \in Key |-> Nil],
   key_file_map |-> key_file.map, new_file_index |-> index,
   put_page |-> Nil, put_page_existed |-> FALSE, data_index |-> 0,
   files |-> files, key_file |-> key_file]

Init ==
  /\ cache = Constructed([f \in File |-> Nil], NoKeyFile, 0)
  /\ answer = Empty
  /\ session = 1
  /\ sound = TRUE

get(k) ==
  LET s == search(cache, k) IN
    /\ cache' = s
    /\ answer' = IF s.hash_map[k] = Nil THEN Empty ELSE Node(s, k).value
    /\ sound' = (sound /\ InBounds(Accessed(cache, k)))
    /\ UNCHANGED session

\* Mutant of Overwrite: the page is not marked.
OverwriteClean(s, k, v) == [s EXCEPT !.data[s.hash_map[k][1]][s.hash_map[k][2]].value = v]

Overwrite(s, k, v) ==
  IF Node(s, k).value = v THEN s
  ELSE [s EXCEPT !.data[s.hash_map[k][1]][s.hash_map[k][2]].value = v,
                 !.dirty[s.hash_map[k][1]] = TRUE]

\* Mutant of FullOrGone: a full page takes one node more.
OverFullOrGone(s) == s.data_index > PAGE_SIZE \/ ~s.put_page_existed

FullOrGone(s) == s.data_index = PAGE_SIZE \/ ~s.put_page_existed

NextPutPage(s) ==
  LET s1 == push_key_to_keymap(s)
      p  == NewPage(s1)
      s2 == get_new_page(s1)
      s3 == [s2 EXCEPT !.put_page = p, !.put_page_existed = TRUE, !.data_index = 0,
                       !.new_file_index = @ + 1, !.file[p] = s2.new_file_index + 1,
                       !.dirty[p] = TRUE, !.data[p] = Blank]
  IN  attach(s3, p)

\* The page is marked only when it is new.
AppendNode(s, k, v) ==
  LET i == s.data_index + 1
      p == s.put_page
  IN  ToFront([s EXCEPT !.data[p][i] = [key |-> k, value |-> v],
                        !.hash_map[k] = <<p, i>>, !.data_index = i], p)

\* save_cache has saved the put page and mapped its keys since it was started.
SavedHalfFull(s) == s.key_file_map[s.data[s.put_page][1].key] # 0

put(k, v) ==
  LET s  == search(cache, k)
      ok == sound /\ InBounds(Accessed(cache, k))
  IN
    /\ \/ /\ s.hash_map[k] # Nil
          /\ cache' = Overwrite(s, k, v) /\ sound' = ok
       \/ /\ s.hash_map[k] = Nil /\ ~FullOrGone(s)
          /\ cache' = AppendNode(s, k, v) /\ sound' = (ok /\ ~SavedHalfFull(s))
       \/ /\ s.hash_map[k] = Nil /\ FullOrGone(s)
          /\ s.new_file_index < MaxFile
          /\ cache' = AppendNode(NextPutPage(s), k, v)
          /\ sound' = (ok /\ InBounds(Erased(push_key_to_keymap(s))))
    /\ UNCHANGED <<answer, session>>

\* The pages of the list that are dirty, no two of one file, the index, and
\* the keys of the put page.
Saved(s) ==
  LET Dirty   == {p \in Listed(s) \cap Page : s.dirty[p]}
      From(f) == {p \in Dirty : s.file[p] = f}
  IN  push_key_to_keymap(
        [s EXCEPT !.dirty = [p \in Page |-> @[p] /\ p \notin Dirty],
                  !.files = [f \in File |-> IF From(f) = {} THEN @[f]
                                            ELSE s.data[CHOOSE p \in From(f) : TRUE]]])

save_cache ==
  /\ cache' = Saved(cache)
  /\ UNCHANGED <<answer, session, sound>>

\* The destructor saves the cache; then the program runs again.
Restart ==
  /\ session < MaxSession /\ session' = session + 1
  /\ LET s == Saved(cache)
     IN  cache' = Constructed(s.files, s.key_file, s.new_file_index)
  /\ UNCHANGED <<answer, sound>>

Next ==
  \/ \E k \in Key : get(k) \/ \E v \in Value : put(k, v)
  \/ save_cache
  \/ Restart

Spec == Init /\ [][Next]_vars

-----------------------------------------------------------------------------
(* Properties.                                                             *)

\* The state is made of the values that the C++ types allow, and the put page
\* is a page as long as it exists.
TypeOK ==
  /\ sound \in BOOLEAN /\ session \in 1 .. MaxSession
  /\ sound =>
       /\ answer \in Value \cup {Empty}
       /\ cache.data \in [Page -> Contents]
       /\ cache.file \in [Page -> 0 .. MaxFile] /\ cache.dirty \in [Page -> BOOLEAN]
       /\ cache.next \in [Page \cup {head} -> Page \cup {tail, Nil}]
       /\ cache.prev \in [Page \cup {tail} -> Page \cup {head, Nil}]
       /\ cache.hash_map \in [Key -> (Page \X Slot) \cup {Nil}]
       /\ cache.key_file_map \in [Key -> 0 .. MaxFile]
       /\ cache.new_file_index \in 0 .. MaxFile /\ cache.data_index \in 0 .. PAGE_SIZE
       /\ cache.put_page \in Page \cup {Nil}
       /\ cache.put_page_existed => cache.put_page \in Listed(cache) /\ cache.data_index > 0

\* Every page is free or in the list, not both, and the list is the same in
\* both directions: no page is lost to the cache, whatever calls were made, as
\* long as no put has added to a page that save_cache had saved half full and
\* no file number has reached DISK_SIZE.
PagesKept == sound =>
  /\ {cache.free[n] : n \in DOMAIN cache.free} = Page \ Listed(cache)
  /\ tail \in Listed(cache)
  /\ \A x \in Listed(cache) \ {tail} : cache.prev[cache.next[x]] = x

\* The hash map has exactly the keys of the pages of the list, each with the
\* node that holds it, and no file is in memory twice; as long as sound.
HashMapExact == sound =>
  /\ \A k \in Key : LET at == cache.hash_map[k] IN
       IF at = Nil THEN \A p \in Listed(cache) \cap Page : k \notin KeysOf(cache.data[p])
       ELSE at[1] \in Listed(cache) /\ Node(cache, k).key = k
  /\ \A p, q \in Listed(cache) \cap Page : cache.file[p] = cache.file[q] => p = q

\* A page that is not marked as dirty is in its file as it is in memory: to
\* evict it without saving it loses nothing.  This ends with the first node
\* that is put on a page that save_cache has saved, and with nothing else but
\* a write behind file_accessed.
CleanIsSaved == sound =>
  \A p \in Listed(cache) \cap Page :
    ~cache.dirty[p] => cache.files[cache.file[p]] = cache.data[p]

\* The value that the next get of k finds, in memory or in a file.
ValueOf(s, k) ==
  LET file == s.files[s.key_file_map[k]]
      From == {i \in Slot : file[i].key = k}
  IN  IF s.hash_map[k] # Nil THEN Node(s, k).value
      ELSE IF s.key_file_map[k] = 0 \/ file = Nil \/ From = {} THEN Empty
      ELSE file[CHOOSE i \in From : TRUE].value

\* HashCache implements a map, as long as sound: whatever pages are saved,
\* evicted and loaded again, no call but put changes the value of a key, put
\* changes that of its key only, and get answers with it; a restart may lose
\* keys.
Map == INSTANCE KeyMap WITH stored <- [k \in Key |-> ValueOf(cache, k)]
KeepsMap == Map!Init /\ [][sound' => Map!Next]_Map!vars
=============================================================================
