----------------------------- MODULE DataStore -----------------------------
(***************************************************************************)
(* One replica's block store: class Data, the thread that owns it (run)    *)
(* and the handlers that queue work for it.                                *)
(*                                                                         *)
(* Records live in block files, one per entry of the list hl.  A block     *)
(* holds the hashes begin .. end; when it would hold more than BlockMax    *)
(* records it is split at its middle key, which both halves then cover.    *)
(* The data thread takes one request at a time and walks the whole list    *)
(* for it: one action here is one turn of that loop, at the block number   *)
(* i, 0 between requests.  Every put carries a value of its own: the       *)
(* number of the request.                                                  *)
(***************************************************************************)
EXTENDS Integers, FiniteSets, Sequences

CONSTANTS
  HashMax,       \* the largest hash; the code's is 2^32 - 1
  BlockMax,      \* records per block; the code's is 20
  MoveId,        \* the ids of migrations
  Jobs,          \* the kinds of request that arrive
  Arriving,      \* the key sets that migrations bring in
  MaxJobs,       \* bound: requests queued
  MaxQue,        \* bound: length of the queue
  FilesMayFail,  \* whether opening a block file may fail
  GarbageFlags,  \* what the flags of an uninitialised tmp[] may be
  GarbageStamps  \* what an uninitialised time_stamp may be

Hash == 0 .. HashMax

\* A file is a finite function from hashes to what is stored under them:
\* its lines are sorted and no hash has two.
Content == [value : Nat, timestamp : Int]
Spans == Hash \X Hash
Slot == 0 .. BlockMax

ASSUME SizeAssumption ==
  /\ HashMax \in Nat /\ BlockMax \in Nat \ {0, 1}
  /\ MaxJobs \in Nat /\ MaxQue \in Nat
  /\ FilesMayFail \in BOOLEAN
  /\ GarbageFlags \subseteq SUBSET Slot /\ GarbageFlags # {}
  /\ GarbageStamps \subseteq Int /\ GarbageStamps # {}
  /\ Arriving \subseteq SUBSET Hash

VARIABLES
  running,  \* whether run() is still in its loop
  que,      \* the requests queued
  pushed,   \* the number of requests ever queued
  moves,    \* mbe, men and mre: the range and the removal of each migration
  hl,       \* the list of blocks
  files,    \* the block files that exist: a function from Spans
  clock,    \* the last time that run() read
  job,      \* the request at hand, or the last one when i = 0
  i,        \* the block the loop looks at next, 0 between requests
  sz,       \* the length of the list when the loop began
  found,    \* get: whether a reply was sent
  list,     \* collect: the keys gathered; receive: the keys still to store
  stamp,    \* V.time_stamp
  flags,    \* remove: the slots of tmp[] whose flag is set
  out,      \* the messages sent for job
  owed,     \* owed[m]: DataMove messages of m that the target has to answer
  \* History, never read by the code:
  failed,   \* whether a block file did not open for job
  latest,   \* latest[h]: the value last stored under h, 0 for none
  wanted,   \* wanted[m]: the hashes that m was asked to take away
  taken,    \* taken[m]: the records that m has sent to its target
  gone      \* gone[m]: the records that m has removed

input == <<que, pushed, moves, wanted>>
traffic == <<failed, taken, gone>>
local == <<job, i, sz, found, list, stamp, flags>>
disk == <<hl, files, latest>>
vars == <<running, input, disk, clock, local, out, owed, traffic>>

Idle == i = 0

\* f with the entries of g put over its own.
Over(f, g) == [x \in DOMAIN f \cup DOMAIN g |->
                 IF x \in DOMAIN g THEN g[x] ELSE f[x]]
Without(f, S) == [x \in DOMAIN f \ S |-> f[x]]

\* The place of h among the sorted keys of f.
Rank(f, h) == Cardinality({x \in DOMAIN f : x < h})
\* Mutants of Middle and UpperHalf: off by one, the middle key dropped.
MiddleHigh(f) ==
  CHOOSE h \in DOMAIN f : Rank(f, h) = Cardinality(DOMAIN f) \div 2 + 1
UpperHalfStrict(f) ==
  LET n == Cardinality(DOMAIN f) \div 2
  IN  {h \in DOMAIN f : Rank(f, h) > n}

\* The key at which a block with the records f is cut.
Middle(f) == CHOOSE h \in DOMAIN f : Rank(f, h) = Cardinality(DOMAIN f) \div 2

\* What a split leaves in the block and what it moves to the new one.
LowerHalf(f) == {h \in DOMAIN f : h < Middle(f)}
UpperHalf(f) == {h \in DOMAIN f : h >= Middle(f)}

Span(b) == <<b.begin, b.end>>
Covers(b, h) == b.begin <= h /\ h <= b.end

\* Mutant of Meets: a block that ends beyond the range is not met.
MeetsInside(b, begin, end) ==
  \/ b.begin <= begin /\ begin <= b.end
  \/ b.begin >= begin /\ end >= b.end

\* The test of collect and remove: the block meets begin .. end.
Meets(b, begin, end) ==
  \/ b.begin <= begin /\ begin <= b.end
  \/ b.begin >= begin /\ end >= b.end
  \/ b.begin >= begin /\ end >= b.begin

NoMove == [begin |-> 0, end |-> 0, remove |-> FALSE]
Start == [op |-> "start"]

Init ==
  /\ running = TRUE
  /\ que = << >> /\ pushed = 0
  /\ moves = [m \in MoveId |-> NoMove]
  /\ hl = <<[begin |-> 0, end |-> HashMax, cnt |-> 0]>>
  /\ files = [s \in {<<0, HashMax>>} |-> << >>]
  /\ clock = 0
  /\ job = Start /\ i = 0 /\ sz = 0
  /\ found = FALSE /\ list = << >> /\ stamp = 0 /\ flags = {}
  /\ out = << >>
  /\ owed = [m \in MoveId |-> 0]
  /\ failed = FALSE
  /\ latest = [h \in Hash |-> 0]
  /\ wanted = [m \in MoveId |-> {}]
  /\ taken = [m \in MoveId |-> {}]
  /\ gone = [m \in MoveId |-> {}]

-----------------------------------------------------------------------------
(* Handler threads queue requests.                                         *)

Push(jobs) ==
  /\ pushed < MaxJobs /\ Len(que) < MaxQue
  /\ que' = que \o jobs
  /\ pushed' = pushed + 1
  /\ UNCHANGED <<running, disk, clock, local, out, traffic>>

put(h) ==
  /\ "put" \in Jobs
  /\ Push(<<[op |-> "put", key |-> h, value |-> pushed + 1]>>)
  /\ UNCHANGED <<moves, wanted, owed>>

get(h) ==
  /\ "get" \in Jobs
  /\ Push(<<[op |-> "get", key |-> h]>>)
  /\ UNCHANGED <<moves, wanted, owed>>

\* The parts of begin .. end - 1, the second one when the range wraps: each
\* is recorded under the same id and queued.  Unsigned end - 1 wraps too.
Parts(begin, end) ==
  LET last == (end - 1) % (HashMax + 1)
  IN  IF begin > end
      THEN <<[begin |-> begin, end |-> HashMax], [begin |-> 0, end |-> last]>>
      ELSE <<[begin |-> begin, end |-> last]>>

Interval(p) == {h \in Hash : p.begin <= h /\ h <= p.end}

getMoveData(m, begin, end, remove) ==
  LET parts == Parts(begin, end)
      last == parts[Len(parts)]
  IN  /\ "move" \in Jobs
      /\ wanted[m] = {}
      /\ Push([n \in DOMAIN parts |->
                [op |-> "collect", id |-> m, begin |-> parts[n].begin,
                 end |-> parts[n].end]])
      /\ moves' = [moves EXCEPT ![m] = [begin |-> last.begin,
                                        end |-> last.end, remove |-> remove]]
      /\ wanted' = [wanted EXCEPT ![m] =
                      UNION {Interval(parts[n]) : n \in DOMAIN parts}]
      /\ UNCHANGED owed

\* Keys in ascending order, as a file or a message lists them.
Sorted(S) == [n \in 1 .. Cardinality(S) |->
                CHOOSE h \in S : Cardinality({x \in S : x < h}) = n - 1]

recvMoveData(S) ==
  /\ "receive" \in Jobs
  /\ Push(<<[op |-> "receive", keys |-> Sorted(S), value |-> pushed + 1]>>)
  /\ UNCHANGED <<moves, wanted, owed>>

\* The target of migration m answered one DataMove.
moveDataReturn(m) ==
  /\ owed[m] > 0
  /\ owed' = [owed EXCEPT ![m] = @ - 1]
  /\ que' = Append(que, [op |-> "remove", id |-> m])
  /\ UNCHANGED <<running, pushed, moves, wanted, disk, clock, local, out,
                 traffic>>

-----------------------------------------------------------------------------
(* The data thread.                                                        *)

Reply(status, h, content) ==
  [op |-> "ret", status |-> status, key |-> h, value |-> content.value,
   timestamp |-> content.timestamp]
Nothing == [value |-> 0, timestamp |-> 0]

\* run() takes the next request.  A remove looks its range up now, and ends
\* at once when the migration only copies.
Pop ==
  LET q == Head(que)
  IN  /\ running /\ Idle /\ que # << >>
      /\ que' = Tail(que)
      /\ clock' = clock + 1
      /\ sz' = Len(hl)
      /\ found' = FALSE /\ failed' = FALSE
      /\ stamp' \in IF q.op = "receive" THEN GarbageStamps ELSE {clock'}
      /\ list' = IF q.op = "receive" THEN q.keys ELSE << >>
      /\ IF q.op = "remove"
         THEN /\ job' = [op |-> "remove", id |-> q.id,
                         begin |-> moves[q.id].begin, end |-> moves[q.id].end]
              /\ flags' \in GarbageFlags
              /\ i' = IF moves[q.id].remove THEN 1 ELSE 0
              /\ out' = IF moves[q.id].remove
                        THEN << >> ELSE <<[op |-> "moveret", id |-> q.id]>>
         ELSE job' = q /\ flags' = {} /\ i' = 1 /\ out' = << >>
      /\ UNCHANGED <<running, pushed, moves, wanted, disk, owed, taken, gone>>

Loop(op) == running /\ i \in 1 .. sz /\ job.op = op

\* The block the loop looks at, and what its file holds.
Block == hl[i]
File == files[Span(Block)]

\* Mutant of Advance: the loop does not move on.
Stay == i' = i

\* The loop passes over a block, or goes on, or is left.
Advance == i' = i + 1
Break == i' = sz + 1

Skip(op) ==
  /\ Loop(op)
  /\ CASE op \in {"put", "get"} -> ~Covers(Block, job.key)
       [] op = "receive" -> list # << >> /\ ~Covers(Block, Head(list))
       [] OTHER -> ~Meets(Block, job.begin, job.end)
  /\ Advance
  /\ UNCHANGED <<running, input, disk, clock, job, sz, found, list, stamp,
                 flags, out, owed, traffic>>

\* The records stored under the hashes of S in the current block.
Records(S) == {<<h, File[h]>> : h \in DOMAIN File \cap S}

\* Mutant of Store: the block is split never.
StoreNoSplit(h, content) ==
  LET f == Over(File, [x \in {h} |-> content])
  IN  /\ latest' = [latest EXCEPT ![h] = content.value]
      /\ files' = Over(files, [s \in {Span(Block)} |-> f])
      /\ hl' = [hl EXCEPT ![i].cnt = Cardinality(DOMAIN f)]

\* Store h in the current block: the file is rewritten, or the block split
\* into a lower half that keeps its place and an upper half at the end.
Store(h, content) ==
  LET f == Over(File, [x \in {h} |-> content])
      n == Cardinality(DOMAIN f)
      mid == Middle(f)
  IN  /\ latest' = [latest EXCEPT ![h] = content.value]
      /\ IF n <= BlockMax
         THEN /\ files' = Over(files, [s \in {Span(Block)} |-> f])
              /\ hl' = [hl EXCEPT ![i].cnt = n]
         ELSE /\ files' =
                   Over(Without(files, {Span(Block)}),
                        [s \in {<<Block.begin, mid>>, <<mid, Block.end>>} |->
                           LET half == IF s[2] = mid THEN LowerHalf(f)
                                                     ELSE UpperHalf(f)
                           IN  [x \in half |-> f[x]]])
              /\ hl' = Append([hl EXCEPT ![i] = [begin |-> Block.begin,
                                                 end |-> mid,
                                                 cnt |-> n \div 2]],
                              [begin |-> mid, end |-> Block.end,
                               cnt |-> n - n \div 2])

\* Nothing but a split lets the loop of a put run on.
PutBlock ==
  /\ Loop("put")
  /\ Covers(Block, job.key)
  /\ Store(job.key, [value |-> job.value, timestamp |-> stamp])
  /\ out' = Append(out, Reply(0, job.key, Nothing))
  /\ IF Len(hl') = Len(hl) THEN Break ELSE Advance
  /\ UNCHANGED <<running, input, clock, job, sz, found, list, stamp, flags,
                 owed, traffic>>

\* Mutant of GetBlock: the first block that covers the key settles the get.
GetBlockFirst ==
  /\ Loop("get")
  /\ Covers(Block, job.key)
  /\ IF job.key \in DOMAIN File
     THEN out' = Append(out, Reply(0, job.key, File[job.key])) /\ found' = TRUE
     ELSE UNCHANGED <<out, found>>
  /\ Break
  /\ UNCHANGED <<running, input, disk, clock, job, sz, list, stamp, flags,
                 owed, traffic>>

\* A get answers for every block that has the key.
GetBlock ==
  /\ Loop("get")
  /\ Covers(Block, job.key)
  /\ IF job.key \in DOMAIN File
     THEN out' = Append(out, Reply(0, job.key, File[job.key])) /\ found' = TRUE
     ELSE UNCHANGED <<out, found>>
  /\ Advance
  /\ UNCHANGED <<running, input, disk, clock, job, sz, list, stamp, flags,
                 owed, traffic>>

CollectBlock ==
  /\ Loop("collect")
  /\ Meets(Block, job.begin, job.end)
  /\ list' = list \o Sorted(DOMAIN File \cap Interval(job))
  /\ taken' = [taken EXCEPT ![job.id] = @ \cup Records(Interval(job))]
  /\ Advance
  /\ UNCHANGED <<running, input, disk, clock, job, sz, found, stamp, flags,
                 out, owed, failed, gone>>

\* A received record is stored in every block that covers its key, with
\* whatever time_stamp the local variable V holds.
ReceiveBlock ==
  /\ Loop("receive")
  /\ list # << >>
  /\ Covers(Block, Head(list))
  /\ Store(Head(list), [value |-> job.value, timestamp |-> stamp])
  /\ Advance
  /\ UNCHANGED <<running, input, clock, job, sz, found, list, stamp, flags,
                 out, owed, traffic>>

\* The flags mark slots of tmp[] and nothing clears them between blocks.
RemoveBlock ==
  /\ Loop("remove")
  /\ Meets(Block, job.begin, job.end)
  /\ flags' = flags \cup
                {Rank(File, h) : h \in DOMAIN File \cap Interval(job)}
  /\ LET dropped == {h \in DOMAIN File : Rank(File, h) \in flags'}
     IN  /\ files' = Over(files, [s \in {Span(Block)} |-> Without(File, dropped)])
         /\ hl' = [hl EXCEPT ![i].cnt = @ - Cardinality(dropped)]
         /\ gone' = [gone EXCEPT ![job.id] = @ \cup Records(dropped)]
  /\ Advance
  /\ UNCHANGED <<running, input, latest, clock, job, sz, found, list, stamp,
                 out, owed, failed, taken>>

\* The file of the block does not open.  A put or get answers with failure
\* and a migration goes on with what it has; but a receive answers with
\* success, and the break meant for its loop ends run() as well.
OpenFails(op) ==
  /\ FilesMayFail
  /\ Loop(op)
  /\ IF op \in {"put", "get"} THEN Covers(Block, job.key)
     ELSE IF op = "receive" THEN list # << >> /\ Covers(Block, Head(list))
     ELSE Meets(Block, job.begin, job.end)
  /\ out' = CASE op \in {"put", "get"} ->
                   Append(out, Reply(1, job.key, Nothing))
              [] op = "receive" ->
                   Append(out, [op |-> "datamoveret", status |-> 0])
              [] OTHER -> out
  /\ found' = (op = "get" \/ found)
  /\ running' = (op # "receive") /\ failed' = TRUE
  /\ IF op = "receive" THEN i' = 0 ELSE Break
  /\ UNCHANGED <<input, disk, clock, job, sz, list, stamp, flags, owed,
                 taken, gone>>

\* A received record done, the next one begins at the first block.
NextReceived ==
  /\ running /\ i > sz /\ job.op = "receive" /\ list # << >>
  /\ list' = Tail(list)
  /\ i' = 1 /\ sz' = Len(hl)
  /\ UNCHANGED <<running, input, disk, clock, job, found, stamp, flags, out,
                 owed, traffic>>

\* The end of the loop, or of the list of a receive: what is sent then
\* depends on the request.
Finish ==
  /\ running /\ ~Idle
  /\ IF job.op = "receive" THEN list = << >> ELSE i > sz
  /\ i' = 0
  /\ out' = CASE job.op = "get" /\ ~found ->
                   Append(out, Reply(1, job.key, Nothing))
              [] job.op = "collect" ->
                   Append(out, [op |-> "datamove", id |-> job.id, keys |-> list])
              [] job.op = "receive" ->
                   Append(out, [op |-> "datamoveret", status |-> 0])
              [] job.op = "remove" ->
                   Append(out, [op |-> "moveret", id |-> job.id])
              [] OTHER -> out
  /\ owed' = IF job.op = "collect" THEN [owed EXCEPT ![job.id] = @ + 1]
                                   ELSE owed
  /\ latest' = IF job.op = "remove"
               THEN [h \in Hash |-> IF h \in Interval(job) THEN 0 ELSE latest[h]]
               ELSE latest
  /\ UNCHANGED <<running, input, hl, files, clock, job, sz, found, list,
                 stamp, flags, traffic>>

Kinds == {"put", "get", "collect", "receive", "remove"}

DataThread ==
  \/ Pop \/ PutBlock \/ GetBlock \/ CollectBlock \/ ReceiveBlock \/ RemoveBlock
  \/ NextReceived \/ Finish
  \/ \E op \in Kinds : Skip(op) \/ OpenFails(op)

Next ==
  \/ \E h \in Hash : put(h) \/ get(h)
  \/ \E m \in MoveId, b, e \in Hash, r \in BOOLEAN : getMoveData(m, b, e, r)
  \/ \E S \in Arriving : recvMoveData(S)
  \/ \E m \in MoveId : moveDataReturn(m)
  \/ DataThread

Spec == Init /\ [][Next]_vars

\* The data thread is a thread of its own: while it can take a step it does.
FairSpec == Spec /\ WF_vars(DataThread)

-----------------------------------------------------------------------------
(* Properties.                                                             *)

\* The state is made of the values that the C++ types allow.
TypeOK ==
  /\ running \in BOOLEAN
  /\ pushed \in 0 .. MaxJobs /\ clock \in Nat
  /\ moves \in [MoveId -> [begin : Hash, end : Hash, remove : BOOLEAN]]
  /\ hl \in Seq([begin : Hash, end : Hash, cnt : 0 .. BlockMax])
  /\ \A s \in DOMAIN files : s \in Spans /\ DOMAIN files[s] \subseteq Hash
  /\ i \in Nat /\ sz \in 0 .. Len(hl)
  /\ found \in BOOLEAN /\ stamp \in Int
  /\ list \in Seq(Hash) /\ flags \subseteq Slot
  /\ owed \in [MoveId -> Nat]
  /\ latest \in [Hash -> 0 .. MaxJobs]
  /\ wanted \in [MoveId -> SUBSET Hash]

\* The blocks cover every hash and share nothing but the key they were cut
\* at; the files are those of the blocks, each with as many records as the
\* list says, all of them hashes of the block.
BlocksTile ==
  /\ \A h \in Hash : \E n \in DOMAIN hl : Covers(hl[n], h)
  /\ \A n, k \in DOMAIN hl :
       n # k => hl[n].end <= hl[k].begin \/ hl[k].end <= hl[n].begin
  /\ DOMAIN files = {Span(hl[n]) : n \in DOMAIN hl}
  /\ \A n \in DOMAIN hl :
       /\ DOMAIN files[Span(hl[n])] \subseteq Interval(hl[n])
       /\ hl[n].cnt = Cardinality(DOMAIN files[Span(hl[n])])

Copies(h) == {files[Span(hl[n])][h] :
                n \in {k \in DOMAIN hl : h \in DOMAIN files[Span(hl[k])]}}
Cut(h) == Cardinality({n \in DOMAIN hl : Covers(hl[n], h)}) > 1

\* Without migrations, the newest copy of a hash holds the value that was
\* put last, and a hash that was put has a copy.
NewestIsLatest ==
  Idle => \A h \in Hash :
    /\ latest[h] = 0 <=> Copies(h) = {}
    /\ \A c \in Copies(h) :
         (\A d \in Copies(h) : d.timestamp <= c.timestamp) => c.value = latest[h]

\* Without migrations, a get is answered, more than once only if its hash is
\* one that blocks were cut at, and one of the answers is the value put last.
GetAnswers ==
  Idle /\ job.op = "get" =>
    /\ Len(out) > 1 => Cut(job.key)
    /\ \E n \in DOMAIN out : /\ out[n].value = latest[job.key]
                             /\ out[n].status = 0 <=> latest[job.key] # 0

\* A collect gathers every record of its range, and a remove leaves none,
\* unless a block file does not open for it.
RangeComplete ==
  ~failed => \A n \in DOMAIN hl :
    LET here == DOMAIN files[Span(hl[n])] \cap Interval(job)
    IN  /\ Idle /\ job.op = "collect" => here \subseteq {list[k] : k \in DOMAIN list}
        /\ Idle /\ job.op = "remove" /\ moves[job.id].remove => here = {}

\* Every request that is queued is worked off, whatever files fail; unless
\* one fails for a receive, which ends run().
Drains == <>[]((que = << >> /\ Idle) \/ ~running)

\* report.md:39: a migration touches only the data it moves.  Flags
\* that are left over from a block drop others too: this does not hold.
RemoveExact ==
  \A m \in MoveId : \A r \in gone[m] : r[1] \in wanted[m]

-----------------------------------------------------------------------------
(* Formulas that the code does not satisfy; README.md gives the instances. *)

\* report.md:17: a get returns the value that was put before.
ReadsLatest ==
  Idle /\ job.op = "get" =>
    \A n \in DOMAIN out : out[n].value = latest[job.key]

\* report.md:101, data migration is correct: what a migration removes at the
\* source, it has sent to the target before.
OnlyTakenRemoved ==
  \A m \in MoveId : \A r \in gone[m] : r[1] \in wanted[m] => r \in taken[m]

\* The same for what it sent: when every part of the migration has been
\* answered and worked off, the source no longer holds it.
TakenIsGone ==
  \A m \in MoveId :
    /\ Idle /\ moves[m].remove /\ owed[m] = 0
    /\ \A n \in DOMAIN que : que[n].op \in {"collect", "remove"} => que[n].id # m
    => \A r \in taken[m] : r[2] \notin Copies(r[1])

\* data.cpp:70: the answer to a DataMove says that all its values are pushed.
AckMeansStored ==
  Idle /\ job.op = "receive" /\ (\E n \in DOMAIN out : out[n].status = 0)
    => list = << >>
=============================================================================
