# A verification of THKVS

THKVS (`src/`) is a replicated key-value store: hosts on a consistent-hashing
ring, N = 3 replicas of every key, quorums of W = R = 2 for puts and gets, and
hosts that join and leave while the records move. This directory holds TLA+
models of its parts, the instances on which TLC checks them, and proofs, checked
by TLAPS, of theorems about all of them.

## The system

One process per host. Its threads and what they share:

| part | code | state | operations | shared with |
|---|---|---|---|---|
| Worker threads | `src/worker.cpp` | `jobQue`, `resQue`, `jobIdMap`, `jobId`, `testCnt` | insertPut, insertGet, insertPutResult, insertGetResult, run | main (the queue, `testCnt`, `testCond`), Driver (calls), handler threads (results) |
| Driver, put and get | `src/driver.cpp` | `entries`, `opid`, `enableFlag` | put, get, putReturn, getReturn, putFinish, getFinish | worker threads, handler threads; `mu` and `condEntries` |
| Driver, ring and membership | `src/driver.cpp` | `hostList`, `nodeMap`, `moveCnt`, `serverCnt`, `enableCnt` | getHosts, addServer, removeServer, moveData, setEnableFlag, their act- and -Return halves | the console's thread, handler threads; three condition variables |
| Data thread | `src/data.cpp` | `que`, `hl` (the list of blocks), the block files, `mbe`, `men`, `mre` | run, and the methods that queue work for it | handler threads (the queue and the maps) |
| Handler threads | `src/msg_handler.cpp` | none | run, one branch per kind of message; send- helpers | all of the above, by direct calls |
| Network | `src/network/` | `sendQue`, `recvQue`, connections | one TCP connection per message: the send thread writes, the io thread reads | handler threads, the send thread, the io thread |
| main | `main.cpp` | none of its own | start the threads; the benchmark; the console | Worker, Driver |
| MsgQueue | `src/network/msg_queue.hpp` | a queue, a mutex, a condition variable | push, pop | every pair of threads above |
| HashCache | `src/hash_cache.cpp` | pages, the LRU list, `hash_map`, `key_file_map`, numbered files | get, put, save_cache, restart | nothing: an earlier storage engine outside the build |
| CRC, message records, Btree | `src/` | | hashing, serialisation; an engine that was not finished | |

A put or get runs through most of them. A client inserts a call into `jobQue`; a
worker thread hands it to `Driver`, which registers an entry and queues one
request per host of the key; a handler thread of each of those hosts queues the
request for its data thread, which answers with a message; a handler thread of
the first host counts the replies in the entry, and on the one that decides the
operation it erases the entry and inserts a result into `jobQue`.

What makes it hard: a call spans two critical sections and then many messages,
which one connection each delivers in any order or not at all; results may
overtake the note of the call they belong to; the data thread rewrites and
splits blocks while it walks their list; migrations interleave with puts; a
change of membership is a conversation of all hosts that pauses calls by a flag
other threads have read before; condition variables are notified without the
mutex of their waiters; answers carry ids that nobody compares; messages are
dropped for their size or for a host that is down, and nobody is told.

What makes each part correct:

* put and get: one result per operation, backed by a quorum of hosts, but for
  those that were counted twice; quorums meet; every operation is decided; a
  paused host is (nearly) quiet.
* data thread: blocks cover all hashes once; a get finds the last put; a
  migration takes its range, all of it and nothing else; all requests are served.
* ring and membership: a key is routed to the N nearest hosts; a change moves
  only what it must; the data keep N replicas; no step of a change begins before
  the one before it is done; a change ends.
* network: a message is handled at most once; what fits and has a host to go to
  arrives; no queue leaves an element to threads that all sleep.
* worker and main: every call has one result, which names its job; the benchmark
  ends.
* cache: no page is lost, none is in memory twice, and evictions change no value.

`PROJECT.json` lists every component with its status, and every hazard at the
line where it bites.

## The modules

### Driver.tla (with OpPromise.tla, MCDriver.tla)

The replicated put and get. Hosts, worker threads, keys and the replicas of each
key are constants; `Home` says on which host a thread runs, so that every host
may coordinate. Variables carry the names of the code.

* `PutEnter`, `GetEnter`: the flag test of `Driver::put` and `get`. The code
  reads the flag under the mutex and tests it after; the call then takes the
  mutex *again* to take an id and register the entry (`PutSend`, `GetSend`), so
  the two halves are two actions. What follows is only the queueing of messages,
  part of the second half. A call that finds the flag set changes nothing here
  (its result is in Worker.tla).
* `DataPut`, `DataGet`, `DataRefuse`: the put and get branches of `Data::run` at
  a replica. The timestamp is the time at which the *replica* processes the put.
  A key has one block, or two when blocks were cut at it (`Block`), and each of
  them may answer: a get hears of every block that has the key (`data.cpp:462`
  leaves the inner loop only), a put stores and answers again after a split
  (`data.cpp:412`, no break), and a block file that does not open ends the loop
  with a refusal, after a success of the other block or before. The replies of
  one host are told apart by a `Voice`, host and block, which the coordinator
  does not see: it counts both. `DataRefuse` is a call that nothing serves: a get
  of a key without record, or the first block not opening.
* `Cut`: a put of some other key splits the block at this one. Its record is in
  the upper part then, and the lower covers the key as well.
* `PutReturn`, `GetReturn`: a reply counted, with the two thresholds and the
  newest value kept, and the result handed over by the reply that decides. A
  reply whose entry is gone changes nothing.
* `ActSetEnableFlag`: a handler thread waits for the table to be empty and sets
  the flag.
* `DropRequest`, `DropReply`: a connection that cannot be made loses its message.

Messages in flight are sets: every message has its own connection and many
many handler threads take them, so any order is possible. The variables `answer`,
`heard`, `finished` and `after` are history: what each block of a replica
answered, whose replies were counted, which results were handed over, and which
puts had been acknowledged when an operation began. `Now` is `gettimeofday`; a
host in `SetBack` may see it run back.

`OpPromise` is what a caller is promised: an operation is opened once, each block
serves it at most once and each host refuses it at most once, and it ends at most
once, successful when as many blocks served it as a quorum has hosts, failed when
too many hosts refused. That a success has a quorum of *hosts* behind it is not
what the code does. `PromiseSpec` in Driver.tla is the refinement.

### DataStore.tla (with MCDataStore.tla)

One replica in full: `Data::run` and the handlers that queue work for it. One
action is one turn of the loop over the block list, at the block `i`, so that
requests which walk the list while it grows are followed block by block.
`PutBlock` and `ReceiveBlock` store a record and split a full block (`Store`);
`GetBlock` answers from a block, `CollectBlock` and `RemoveBlock` are the two
halves of a migration, `Skip` passes a block that is not met, `OpenFails` is the
error path of each, `Finish` what is sent at the end of the loop. The handlers
are `put`, `get`, `getMoveData` (which splits a range that wraps into two
parts), `recvMoveData` and `moveDataReturn`.

Two reads of uninitialised memory are choices: the flags of `tmp[]` in a remove
(`GarbageFlags`) and the timestamp of received records (`GarbageStamps`). A file
is a function from hashes to records: its lines are sorted and have no
duplicates. Hashes are small numbers; unsigned wrap-around is modulo
`HashMax + 1`. The clock of `getTime` counts microseconds and each request opens
a file, so no two requests share a time.

### HashRing.tla (with MCHashRing.tla)

Consistent hashing and membership. `nodeMap` maps hashes to indices of
`hostList`, as in the code, with the rule that the first host keeps a hash on
which two collide (`Emplace`); a ring that is built anew has at each hash the
least index of the hosts that stand there (`Ring`). `Walk` is the iterator that
all three loops of the code use, which skip the hosts they have met: the indices
on the ring, ranked by how far clockwise the first virtual node of each is
(`Far`). `getHosts` takes its first N, `Succ` its first N, or N + 1 with the host
that comes or goes among them. A host without a virtual node of its own could be
missing from the ring, and the loop that looks for N hosts would not end; so
`RingAssumption` gives each host one, and lets no configuration name a host twice. `AddPlan` and `RemovePlan` are the moves
that `addServer` and `removeServer` order. A change of membership is the plan,
then its moves in any order (`moveData`), then the change of the list on all
hosts at once (`actAddServer`, `actRemoveServer`): hosts refuse calls meanwhile.
Where the virtual nodes stand is arbitrary: the CRC of a name. `holds` says which
hosts have the last value of a hash.

A put of any hash in `Puts` comes at any time, also while a plan is carried out.
A move sends the records of its range and removes the last part of it at the
source, and does neither exactly: a file that does not open keeps its records
from being sent or removed, the flags left over in `tmp[]` remove records outside
the range (`store_exact`), and a put between the two halves of a move is removed
unsent. `Slips` are the sets of hashes to which that happens in a move. `torn` is
history: the hashes that a move did not send, or removed though it should not, and
those that were put after the move of their range and before the change of the
lists (`shipped`). A put outside a plan mends its hash.

### Worker.tla (with MCWorker.tla)

The worker threads between main's benchmark and Driver. `Take` pops a call or a
result; a call is refused (`Refuse`) or passes the flag (`Enter`) and opens an
operation (`Send`), and afterwards its job is noted under the driver id (`Note`);
a result looks its job up and erases the note (`Result`), counts `testCnt` down,
and notifies main (`Notify`). Driver is reduced to what is seen from here: an
open operation finishes at some time (`Finish`). main inserts the calls of a
stage, sets `testCnt`, and waits; the test of the wait's predicate and the sleep
are two steps, since the workers hold no lock when they notify.

### Membership.tla (with MCMembership.tla)

The conversation behind a change of membership. `con` is the console's thread of
the primary: the command (`op`), its step (the moves of a plan, a pause of all
hosts, the change of the lists, the end of the pause) and where in the step it
is. Each step sets a counter (`moveCnt`, `enableCnt`, `serverCnt`), sends
messages and waits for the counter to be zero; the command `set` is a pause or
its end by itself.

* `addServer`, `removeServer`, `setEnableFlag` begin a command. A host is added
  when it has been started with a configuration that names it, which is part of
  `addServer`.
* `Plan` sends one move per range, or never ends (`PlanOrSpin`) when there are
  too few hosts for the walk. Which ranges is in HashRing; the source answers a
  range that wraps twice, as DataStore shows, so a plan may have one such range.
* `CountHosts` and `SendFlags` are the two halves of `setEnableFlag`: it holds
  no lock between the count and the messages. `SendLists` holds it.
* `Look`, `Sleep`, `Pass` are the wait. The counters are atomic and change
  without the mutex, so a notification can fall between the look and the sleep
  (`missed`). `Return` is the answer that counts down and notifies (`Wake`).
* `handleSetFlag` and `actSetEnableFlag` are one handler in two steps: a thread
  of the pool (`Handlers`, as `main` computes it) takes the message and waits for
  the table of operations to be empty.
* `actAddServer`, `actRemoveServer`, `handleMove` are the other messages; `Enter`,
  `Register` and `Finish` the calls of a client, one at a time per host.
* `LoseMessage`, `LoseAnswer` and `LoseMove`: to a host of `Failing` there may be
  no connection, and then `write_message` drops the message; it may go down with
  a message it has taken or before it answers; the records of a range may not fit
  a message. Nobody sends anything again. `LoseReplies` is the same for the
  replies of an operation, which then stays in the table for ever. `lost` says
  which counter a loss was of. What removes a dead node (`report.md:61`) is a
  removal like any other: it sends moves, setflag messages and lists to the dead
  host too, and waits for its answers.

Of answers only the number of each kind is kept: the code looks at nothing else.

### MsgQueue.tla, Network.tla (with Channel.tla, MCNetwork.tla)

`MsgQueue` is the blocking queue as a monitor: a critical section of `push` or
`pop` is one action, and what happens between two sections is seen, namely a
push that has not notified yet (`notifying`), a thread that is awake in `pop`
(`popping`) and one that sleeps (`asleep`). Sleepers may wake for no reason.

`Network` uses it for `sendQue` and for the `recvQue` of each host. `send`
queues a message; the send thread pops it (`get_writable_msg`) and makes a
connection, or drops the message (`ConnectFails`). `Write` hands it to the
socket. Its buffers are local variables of `write_message`, which returns: a
message that the socket does not take at once may change under way (`intact`).
At the receiver `handle_header` drops a body of more than `MAX_BODY_SIZE` bytes,
`handle_body` queues the message, and `handle_garbled` is what becomes of bytes
that were not sent: some other message, or an exception of the archive with
which `io_service::run` ends for good (`io`). `recv` is a handler thread.

`Channel` is what the other modules take the network for: a message is on its
way until it is handled, once, or lost, and only some may be lost. `PromiseSpec`
is the refinement, with the messages that are large or go to a host that is down
as the lossy ones. Driver and Membership are built on that promise.

### HashCache.tla (with KeyMap.tla, MCHashCache.tla)

An LRU cache of pages over numbered files. It has one thread, so that a call is
one action, and its state is one record that the member functions map to the
next: `search`, `get_new_page`, `Evict`, `ToFront`, `load_file_to_page`,
`push_key_to_keymap` and `save_page_to_file` carry the names of the code.
`key_file` is kept as what `load_key_file_map` makes of it (`ReadLines`): lines of
unused nodes have no key and are read as something else. `Restart` is the
destructor followed by the constructor of the next run. Keys and values are words
that are no numbers. `KeyMap` is the promise: a map whose values only `put`
changes, which a restart may shrink (an append of the index that stops reading
at a line without a key); `KeepsMap` is the refinement.

`save_cache` may be called at any time, as its declaration says
(`hash_cache.h:54`), and the promise is not kept then: a put page that was saved
before it is full gets more nodes, which nothing saves. Nor is it kept from file
number `DISK_SIZE` (200) on, where `file_accessed` is written out of its bounds
(`hash_cache.cpp:152` and `:202`). The variable `sound` is history: it becomes
FALSE at the first put that adds a node to such a page (`SavedHalfFull`) and at
the first write out of bounds (`InBounds`). The properties are about the time up
to then; what happens after is in the table of formulas below.

## The runs

A cfg is named after its module and run. Constants are the smallest with which
the case in question happens.

| run | checks | instance |
|---|---|---|
| driver_quorum | `FinishedOnce`, `AckedReadable`, `NotOlderThanAcked` | 3 operations of one thread on one key, 3 replicas, clocks 1..2 that need not agree |
| driver_faults | `TypeOK`, `CountingInv`, `HonestResult`, `LeakBounded`, `PromiseSpec`, `OpFinishes` | 2 threads, 2 operations, the coordinator paused and resumed; 2 replicas, one with failing files whose blocks may be cut at the key, and one that may be out of reach; W = 2, R = 1 |
| driver_fresh | `FreshRead`, violated | 3 operations, two values, one shared clock 1..3 |
| store_putget | `TypeOK`, `NewestIsLatest`, `GetAnswers` | 6 puts and gets on 5 hashes, blocks of 2 records |
| store_moves | `RangeComplete`, `BlocksTile`, `Drains` | 3 requests, puts and migrations out or in, on 4 hashes; the flags of `tmp[]` all clear or all set at first; any file may fail to open |
| store_exact | `RemoveExact`, violated | puts and a migration, `tmp[]` all clear at first |
| ring_ring | `TypeOK`, `RouteIsNearest`, `ReplicasKept`, `RingStable` | 4 hosts, N = 2, all placements of one or two virtual nodes each on hashes 1..5, 2 changes; hash 2 is put at any time, and moves may keep it from being sent, or remove it, or not |
| worker_jobs | `TypeOK`, `OneResultEach`, `NamesNoOther`, `NotesAreUsed`, `AllAnswered`, `MissesNoResult` | 2 threads, one call before the first stage and two stages of one call, a flag that is set and cleared |
| member_change | `TypeOK`, `FewWait`, `ListsTold`, `MovesAwaited`, `ListsChangePaused`, `ChangeEnds` | the primary and one more host, in or out; 2 commands of any kind; plans of one range, which may wrap; the other host has a client and may be down, one thing of what is sent to or by it is lost; 2 handler threads |
| member_agree | `AllHostsAgree`, violated | the same, one removal, nothing lost |
| net_path | `TypeOK`, `NoLostWakeup`, `PromiseSpec`, `SmallArrive` | small, long and oversize messages to a host with 2 handler threads, and one to a host that is down |
| cache_map | `TypeOK`, `PagesKept`, `HashMapExact`, `CleanIsSaved`, `KeepsMap` | 4 keys, 2 values, 2 pages of 2 nodes, 3 files of which the last has no entry in `file_accessed`, 3 runs of the program |

What they show:

* **driver_quorum.** With two quorums of two among three replicas and one key,
  three operations are what the properties speak of: a put that is acknowledged,
  a get that begins after it, and another put that interferes. A get never fails
  after an acknowledged put, and never returns a record older than that put was
  at a replica that served it; no blocks are cut here, so that each host answers
  once (`Twice`, `Uncut`). `AtMost4InFlight` bounds the messages in flight: an
  operation starts with three and a quorum leaves one of the one before, so that
  the request or reply that an acknowledged put did not wait for meets all of the
  operation that follows. `MaxClock` bounds the clock. No second result is handed
  over.
* **driver_faults.** Two operations of two threads with refusals, lost messages,
  late replies and pauses, and with a replica that answers twice: two successes, or
  a success and a refusal. With W = 2 of two replicas one refusal decides a put
  and its other reply is late, with R = 1 so is one success of a get, and only two
  refusals fail it: either threshold is at its limit, and one host alone fills a
  write quorum. Replies are counted right (`CountingInv`), no entry outlives N of
  them (`TypeOK`); a success has a quorum of hosts behind it, less those counted
  twice, and a failure so many refusing hosts that no quorum is left
  (`HonestResult`); Driver implements OpPromise; an operation ends unless a message
  of its own was lost. On a host that has set its flag, no more operations run or begin than it
  has worker threads (`LeakBounded`): those whose call read the flag before.
* **store_putget, store_moves.** The bounds admit two splits, of a block and of
  one of its halves, gets of the key a block was cut at, ranges that wrap and
  that end in the middle of a block, and migrations into blocks that split under
  them. The newest copy of a hash is the last value put, a get answers with it,
  a collect gathers its range and a remove leaves nothing of it unless a file
  failed; whatever files fail, the blocks tile the hashes and the queue drains,
  but for a failed receive, which ends `run`.
* **ring_ring.** Every placement and every pair of changes: a key is routed to
  its nearest hosts, and all but one of its replicas have its last value during
  a plan and all of them after it, if it is not `torn`; a host that comes or goes
  changes the replicas of none but its own hashes. One hash that is put and slips is
  enough: moves and puts concern each hash by itself. A list of three hosts is where a plan has a
  choice; indices shift on a removal and a host may come back.
* **worker_jobs.** Each call has one result, refused or not. A result names its
  job or none, but for that of operation 0, which may name a refused call: both
  have driver id 0. The benchmark ends, or sleeps with `testCnt` at zero or below:
  it misses a notification at most, never a result.
* **member_change.** A pause begins when the moves are done, lists change during
  the pause, and service resumes when they have changed, but for one range for
  each that was answered twice (`MovesAwaited`) and one host for each removal so
  far (`ListsTold`, `ListsChangePaused`): the two places where the code counts
  one answer too few. A handler thread waits for one round at most, and one more
  for each stray message (`Strays`): a host that joins the primary's list between
  the count and the messages of a pause is told and not counted, which takes an
  answer left over by a removal, and happens once for each command that is no
  removal. It takes three hosts and three commands (remove a, add a, add b), more
  than this instance has: it was the proof of `FewWait` that asked for it. A
  command ends, but for the ways in `Stuck`: a walk without end; a notification
  that comes before the sleep; a counter below zero; a message or an answer lost
  that the counter of the step counts on, as for a host that is down; a pause or
  its end after a removal, for a host that left between the count and the
  messages; and a pause while the table of a host is never empty, for lost replies
  or for want of a handler thread that takes them. Without any one of them
  `ChangeEnds` does not hold; for the last it takes `Cores = 12`, with one handler
  thread. The premise is that clients do not call for ever: a table with
  overlapping calls may never be seen empty. Two commands are what an answer left
  over from one needs to meet another; a list of one host and N = 1 is where the
  walk has no end; one removal and one loss (`MaxRemove`, `MaxLost`) are each met
  by everything else.
* **net_path.** The network keeps the promise of Channel; a small message to a
  host that is up is handled, whatever becomes of the others, unless a long one
  that came in pieces has ended the io thread of that host. Two handler threads
  are the least with which a notification can go to the wrong one.
* **cache_map.** Three files and two pages make every page leave and come back,
  the put page too. As long as `sound`, no page is lost to the list and the free
  pages, the hash map is exact, clean pages are saved, and no call but `put`
  changes a value, with `save_cache` called at any time: a saved put page may be
  read, overwritten, evicted and loaded again, but not added to. `DISK_SIZE` is
  at its limit with the third file. Four
  keys fill two pages, so that a put page may be full, half full or evicted. A
  half full page leaves a line without a key in `key_file.dat`, and it takes a
  third run of the program for lines after that one to be read, and lost.

Deadlock is not checked: the calls of an instance are bounded, and when they are
used up the model stops, as an idle host does.

### Bounds

`MaxOp` operations per coordinator, `MaxClock` the last time, `AtMost4InFlight`
messages (a constraint), `MaxJobs` requests queued and `MaxQue` the length of the
queue, `MaxChange` changes of membership or commands, `MaxRange` ranges of a
plan, `MaxRemove` removals and `MaxLost` kinds of losses of a change, `MaxFile`
files and `MaxSession` runs of the cache, `Warm`, `Records` and `Stages` of the
benchmark. None is in the code; all are guards or constraints by these names. The
constraint `Sound` of cache_map stops at states that are not `sound`, of which no
property says anything. Symmetry is that of the replicas in driver_quorum and of keys and
values in cache_map; it is used in no run with a liveness property.

### Fairness

* Driver: a call that passed the flag goes on, and each request and each reply in
  flight is handled. Threads run, and every queue is first in, first out. That a
  reply is handled takes a handler thread that does not wait in a setflag handler;
  with 14 cores there is one (`FewWait`), with 12 there need not be (`PoolLive`,
  below). Nothing makes a client call, a host be paused or resumed, a block be cut,
  or an unreachable host answer.
* DataStore: the data thread takes a step when it can.
* Worker: main and each worker thread take a step when they can, and an open
  operation finishes, which is what `OpFinishes` shows when all hosts answer.
* Membership: the console's thread, the handlers jointly, a thread whose wait is
  over and the answers take their steps; the messages of an instance are finitely
  many, so that no fairness among hosts is needed. A call that passed the flag is
  registered and decided, which is what `OpFinishes` shows, unless its replies are
  lost or no thread is free to take them. Nothing makes a command be given, or a
  client call or stop: that clients do not call for ever is a premise of
  `ChangeEnds`.
* Network: the send thread, the io thread for each of its connections, the
  handler threads and a push that has still to notify take their steps. Handler
  threads are taken to come back to `pop`: one that waits in a setflag handler
  does so only when the table is empty.
* HashCache and OpPromise, Channel, KeyMap: safety only.

### Where the code does something else than is said of it

Three runs are there to show it; `PROJECT.json` quotes the lines.

* **driver_fresh.** A request of an older put that is delayed is stamped when it
  is processed, beats a newer value, and a get returns the older one.
* **store_exact.** `tmp[j].flag` is set for the records of one block and never
  cleared, so a remove drops records of the next block outside its range.
* **member_agree.** `removeServer` tells every host and waits for all but one:
  service resumes while a host still has the old list.

More were met with the same models. To see them, put the constants below into
the named cfg and check the formula:

| formula | start from | change | what happens |
|---|---|---|---|
| `PausedIsQuiet` | MCDriver_faults | | a call that read the flag before it was set runs during the pause |
| `ReadsLatest` | MCDataStore_putget | `MaxJobs = 8` | a get of a key that blocks were cut at answers from both, the old value too |
| `NotOlderThanAcked` without `Uncut` | MCDriver_quorum | `Cutting = {n1}`, no `SYMMETRY` | the two replies of one host, the old record among them, are a read quorum that no other replica is in |
| `AckedReadable` without `Twice(p) = {}` | MCDriver_quorum | `Cutting = {n1}`, `Unreachable = {n2, n3}`, no `SYMMETRY` | one host answers a put twice, and the two hosts that have no record yet refuse the get |
| `NotOlderThanAcked` | MCDriver_quorum | `SetBack = {n1, n2, n3}` | a later put takes an earlier time and the get prefers another record |
| `OnlyTakenRemoved` | MCDataStore_exact | `MaxJobs = 3`, `MaxQue = 2` | a put between the collect and the remove of a migration is dropped |
| `TakenIsGone` | MCDataStore_exact | `HashMax = 3`, `MaxJobs = 3`, `MaxQue = 2` | a range that wraps: the second part overwrites `mbe` and `men`, and the first is never removed |
| `AckMeansStored` | MCDataStore_moves | `Jobs = {"receive"}`, `MaxJobs = 1` | a block that does not open is answered with success, and `run` ends |
| `ReplicasKept` without `\ torn` | MCHashRing_ring | `Vnodes <- OneEach`, `MaxChange = 1`, `Slips = {{}}` | calls are refused only after the moves (`driver.cpp:307`): a put during them reaches the old replicas only, and the new one keeps the old value |
| the same | MCHashRing_ring | `Vnodes <- OneEach`, `MaxChange = 1`, `Puts = {}` | a move that removes records outside its range, or does not send all of it, takes a replica from a hash |
| `ReplicasKept` | MCHashRing_ring | `Vnodes <- Colliding`, `Config <- FourHosts`, `MaxChange = 1` | after a removal the ring is built anew and a virtual node appears that the plan did not know |
| `ReplicasKept` | MCHashRing_ring | `Vnodes <- AtZero`, `RingMax = 4`, `MaxChange = 1` | a range that ends at hash 0 wraps to the whole ring |
| `NamesItsJob` | MCWorker_jobs | `Warm = 0`, `Records = 2`, `Stages = 1`, `Flagging = FALSE` | a result that comes before its note is reported for job 0 |
| `BenchEnds` | MCWorker_jobs | `Thread = {t1}`, `Warm = 0`, `Stages = 1`, `Flagging = FALSE` | `testCnt` changes and `testCond` is notified without `testMu` (`worker.cpp:61`): the last notification falls between main's test and its sleep |
| `StageMeasured` | MCWorker_jobs | `Stages = 1`, `Flagging = FALSE` | results of the calls before the stage count for it |
| `DisagreeNotForLong` | MCMembership_change | | a host is removed and added again: the late message of the removal reaches it after its new start, it takes itself off its own list, and hosts disagree for good |
| `PoolLive` | MCMembership_change | `Cores = 12` | with one handler thread, a setflag message takes it, and the reply of an open operation that it waits for is never handled |
| `CleanIsSaved`, `PagesKept`, `HashMapExact` without `sound =>` | MCHashCache_map | no `CONSTRAINT` | `save_cache` (`hash_cache.h:54`: it can be called periodically) in the middle of a put page marks it clean; the nodes put into it afterwards are not in its file when it is evicted, a search of one loads the file in vain, and the page is neither free nor in the list |

## The proofs

`DriverProofs.tla`, for every number of hosts, threads, keys, values, operations
and every N, R and W with R and W in 1..N:

* `TypeCorrect`: `Spec => []TypeOK`.
* `CountingCorrect`: `Spec => []CountingInv`, the inductive invariant.
* `FinishedOnceCorrect` and `HonestResultCorrect` follow from it.

The assumptions are those of Driver.tla. `QuorumAssumption` (N, R and W as in
`driver.h`, every key on N hosts, finitely many hosts), `ThreadAssumption`
(finitely many threads, each of one host), `BoundAssumption` and
`NothingAssumption` (`NoEntry` and the like are no ordinary values). TLC
evaluates them in every run of MCDriver.

The argument. `FinishedOnce` and `HonestResult` speak of results and of what the
blocks of the replicas answered; an action sees only the counters of the entry and one reply.
`CountingInv` closes the gap, per operation and per message:

* an id not yet handed out has no entry, no answers and no result (`Registered`);
* a request in flight stands for a host of which no block has answered yet, a
  reply for an answer given and not counted yet, and there is one reply for each
  voice, host and block (`Messages`);
* an entry is undecided, its counters are the numbers of replies heard and of
  those that served, and it has handed over nothing; of the two blocks of a host
  one at most refuses (`Counted`);
* a result has the quorum behind it among the voices heard (`Justified`).

A reply therefore adds one *new* voice to `heard`, the counters move with the
cardinalities (`OneMore`), and as the entry was undecided before the reply, it is
that reply's status that decides (`CountCounting`). One lemma per kind of step
(`SendCounting`, `DataCounting`, `ReturnCounting`) gives `CountingStep`. From voices
to hosts it is a matter of counting: as many voices served as hosts did, and one
more for each host that was counted twice; and as many refused as hosts did
(`VoicesOf`). So a failure is backed by hosts as it should be, and a success by as
many as the code can vouch for.

`DriverPromiseProofs.tla`, from the same assumptions:

* `PromiseKept`: `Spec => PromiseSpec`, Driver implements OpPromise.
* `LeakIsBounded`: `Spec => []LeakBounded`.

The refinement goes step by step. The promise sees four things of an operation
(`Seen`): what it needs, its phase, who served and who refused it. A step of
Driver concerns one operation, or none, and one lemma for each step of the
promise (`PromiseOpen`, `PromiseServe`, ...) says what that operation must look
like before and after. What `CountingInv` lacks for it is `Remembered`: an
operation that was opened has an entry or a result, so that no id is opened
twice. `LeakBounded` compares two finite sets, the operations and passed calls of
a paused host and its threads: a registered call leaves the one part for the
other, and no call passes a flag that is set.

In the same module, for quorums that are large enough and blocks cut anywhere:

* `AckedReadableCorrect`: `Cardinality(Failing) + R <= W` gives
  `Spec => []AckedReadable`. With R = W = 2 that is: no host has failing files.
  The property is about puts that no host was counted twice for.
* `NotOlderThanAckedCorrect`: `R + W > N + Cardinality(SetBack)` gives
  `Spec => []NotOlderThanAcked`. With N = 3 and R = W = 2 that is: no clock runs
  back. The property is about keys that no host has cut its blocks at.

Both premises are in the properties, and the code ensures neither; the table above
shows what happens without. Both are arguments about the past: a host that served
the put has kept a record ever since, and one at least as new where its clock does
not run back and its blocks are not cut; and the quorums of the put and the get
share such a host. `ReadInv` adds to `CountingInv` what carries this from the put to
the result of the get: records are not from the future (`StoredInPast`), the second
block of a host answers after a cut only (`SecondAfterCut`), a host that served a
put keeps a record (`PutsKept`), only hosts of the key are asked (`AskedAtHosts`),
the puts a get began after have ended (`AfterAcked`), what such hosts answer to it
is no refusal and no older (`ServedAgain`), a reply carries the time of its record
(`RepliesTimed`), and the entry or result holds the newest of those heard
(`NewestHeard`). Clocks of hosts need not agree: only records of one host are ever
compared.

`DataStoreProofs.tla`, for every number of hashes and requests and every block
size of two or more:

* `StoreInvariant`: `Spec => []Inv`, the inductive invariant; with it
  `TypeCorrect`, `BlocksTileCorrect` and `RangeCompleteCorrect`.
* `NewestIsLatestCorrect` and `GetAnswersCorrect`, for instances in which only
  puts and gets arrive, the second also for files that open. These are the
  conditions under which the properties are meant: a migration stamps records
  with a time it has not read, and a failing file hides its records.

`Inv` says, besides types, that blocks tile the hashes (`Tiles`), that the list
does not grow under a walk that stores nothing (`Whole`), that a migration keeps
the range recorded under its id (`Recorded`), and what the walk has gathered or
cleared so far (`Scanned`). `BlocksTile` is not inductive: neighbours share the
hash they were cut at, so that two blocks of a single hash would share a file.
`Tiles` adds that only an undivided list can have a block of a single hash: a
block is cut when it has more than `BlockMax` records, so three at least, at a key
that is neither its first nor its last. That this is so of the key in the middle
is `Ranks`: the ranks of the keys of a finite set are 0 up to
its size, by the pigeonhole fact that a finite set has no one-to-one map into a
smaller one, so without induction. `Recorded` holds only of migrations with
hashes: one whose range is empty may be asked for again under its id, and then
its record changes. `Halves`, `Rewrite`, `Split`, `StoreEffect` and `RemoveEffect`
say what a step does to the list and the files; the parts of `Inv` rest on them.

Without migrations a put is newer than all before it, and blocks that share a
hash may both hold it; `FreshInv` says that the newest copies of a hash are of the
value put last (`Newest`), that no copy is newer than the clock (`Stamped`), and
which copies a put that is under way has replaced (`PutStored`). `Answered` is the
walk of a get: an answer for each block behind it that holds the key, and two of
them only where a cut was made.

`WorkerProofs.tla`, for all threads, calls, stages and pauses: `WorkerCorrect`
(`Spec => []WorkerInv`), and from it `TypeCorrect`, `OneResultEachCorrect`,
`NamesNoOtherCorrect` and `NotesAreUsedCorrect`. A call is in one place at a time:
in the queue, with a thread, open, refused or done (`Apart`, and `OneResultEach`,
which counts). `Paced` says how many were inserted, `Ids` that ids are those given
out; `Honest` that a note or a result names the job of its operation, or is that
of id 0 after a refusal; `NotedOnce` that an operation is noted by one thread, once.

`MembershipProofs.tla`, for all hosts, lists, plans and commands, and any number
of handler threads: `MembershipCorrect` (`Spec => []MembershipInv`), and from it
`TypeCorrect`, `ListsToldCorrect`, `MovesAwaitedCorrect`, `FewWaitCorrect` and the
action property `ListsPausedCorrect`. The console goes on when a counter is zero;
that a step is done by then means that counters bound what they count. So
`MovesAddUp`, `ListsAddUp` and `FlagsAddUp` say that the messages, the handlers
that wait and the answers of a kind are no more than its counter, but for the
answers nobody counted on: the second of a range that wraps (`wraps`), one of each
removal (`removals`), and those of hosts that were told and not counted (`Room`,
which is at most `Strays`: an `add` that is still on its way to the primary,
`Late`, and a command that has yet to tell it, `Untold`, have not used theirs up).
What is lost is counted on and never comes, so the bounds hold all the more; a
pause of which a message or an answer was lost (`Gone`) is one that the console
never gets out of before the first removal, which is why a host that was not told
to pause changes no list. `OldFew` separates the messages of the round the console
waits for from those of earlier ones. `Paused` says that until the first removal
hosts whose lists change have their flag set.

`NetworkProofs.tla`, for all queues, threads, messages and hosts:

* `QueuesLoseNoWakeup`: `QueuesSpec => []NoLostWakeup`, the queues by themselves.
* `NetworkUsesQueues`: `Spec => QueuesSpec`, every step of Network is one of its
  queues or leaves them alone; hence `NoWakeupIsLost`: `Spec => []NoLostWakeup`.
* `ChannelKept`: `Spec => PromiseSpec`, Network implements Channel; and
  `TypeCorrect`.

It rests on `ConsumerAssumption` (finitely many threads) and `NetworkAssumption`.
As long as one thread sleeps there are as many threads awake in `pop`, or
notifications to come, as elements. A push adds one element and one
notification; a pop takes one element and one thread that is awake; a
notification wakes a sleeper or finds none, and then nothing is claimed; a thread
goes to sleep only when the queue is empty. Cardinalities of the sets of threads
are what the lemma `Counts` is for. That Network uses its queues properly needs
`InTransit`: what is on its way is an element that a queue takes.

For the refinement `NetInv` adds `Placed`: a message is in one place at a time,
in one queue once, with the send thread, or in one connection, and then neither
handled nor lost. Each step then moves it to the next place (a stutter of
Channel), or is the one at which it is handled or lost; only a message that is
long, oversize or for a host that is down is ever lost.

`HashRingProofs.tla`, for every number of hosts and hashes, every placement of the
virtual nodes, every N of two or more and any number of changes:

* `RingInvHolds`: `Spec => []RingInv`, the inductive invariant; with it
  `RingTypeOK`, `RouteIsNearestHolds` and the action property `RingStableHolds`,
  also where hosts share places.
* `ReplicasKeptHolds`: `Spec => []ReplicasKept`, if no two hosts share a place and
  none stands at hash 0 (`PlacesSeparate`). Both are needed: the table above has a
  run without each in which a replica is lost. For names and a CRC of 32 bits they
  are the normal case. Calls come and moves slip as they like; what that costs is
  in the property, which leaves out the hashes that are `torn`.

`RingInv` says that the ring which `emplace` has extended host by host is the one
built from the list, and that the moves left are of the plan of the change under
way. All else is geometry. The walk is a ranking by distance, so its first m
hosts are those with a place less than some d away (`WalkOrder`, by `Ranks`, the
pigeonhole fact of DataStoreProofs, so without induction), and such sets (`Near`)
are nested. Of two lists that differ by one host the ring of the longer is that
of the shorter but for this host's places, though all indices behind it shift
(`Without`, `PlacesStay`); so either the N nearest of a hash are the same for both
lists, which is `RingStable`, or that host is among them, and without it the next
host is (`NearestWithout`).

`ReplicasKept` needs to know who holds a hash while some moves of a plan are done
and others are not. `KeptInv`: until the move with the hash in its range is
carried out, the N nearest by the list before; from then on the N nearest by the
list after, if the hash is not torn. `ShippedInv` is for the puts that come in the
middle of this: a hash of which no move is left and that was not moved either has
the same N nearest by both lists, so that a put that reaches those by the list
before reaches those after. TLC finds both to hold on the instance of ring_ring. The range of a
place is the hashes it is the next place behind (`RangeIs`, `Behind`), which is
where hash 0 matters; each hash is in one range (`BehindOne`) and has the walk of its place
(`BehindWalk`), so the plan sends all hashes whose replicas change (`PlanSends`),
each once (`MoveSends`), and a move hands over just the one copy in which the two
sets of hosts differ (`KeptMove`). Both sets share N - 1 hosts (`Overlap`), hence
the N - 1 copies of `ReplicasKept` during a plan.

`HashCacheProofs.tla`, for every number of pages, nodes, keys, files and runs of
the program, every size of `file_accessed` and `save_cache` at any time, up to the
first node that is put on a page that was saved half full, or the first write out
of bounds (`sound`; the table above shows what happens then):

* `CacheIsWhole`: `Spec => []CacheInv`, the inductive invariant; with it
  `TypeCorrect`, `PagesKeptHolds`, `HashMapExactHolds` and `CleanIsSavedHolds`.
* `ImplementsMap`: `Spec => KeepsMap`, HashCache implements KeyMap. That an
  eviction or a load changes no value is the part of it that counts.

The list is what is reached from `head`, the least set closed under `next`. To
detach or attach a page takes a set that is closed before the step to one that
is closed after it, and back, so that `DetachList` and `AttachList` need no
induction along the list. That no page is in memory and free at once (`Whole`)
then follows the pages from place to place, and a page of the list is the last
one when none is free (`LastOfList`), so that there is always one to evict.

The value of a key is in memory, in a file, in both or nowhere, and
`key_file_map` need not know it yet. `CacheInv` says what keeps these apart. Pages
of the list have different files and different keys (`Apart`); a file has the
contents of the page in memory that has its number, and else its own (`Content`),
and to that each map leads, for all keys of a file or for none (`MapOK`); all
keys of a page are mapped but those of the put page (`Mapped`), whose keys are
mapped all or none: as long as none is the page is dirty, and once they are it gets
no node more without the end of `sound` (`PutOK`, `SavedHalfFull`). The last is what
`FullOrGone` is about: the keys of a put page are mapped as it is evicted, and it
is filled no further. The nodes of a page are filled from the first one on
(`Shape`), hence the lines of a page in `key_file.dat` are read all or not at all
(`LinesRead`), and a restart loses all keys of a file or none. TLC checked each
part of `CacheInv` on the instance of cache_map and on smaller ones with a single
page or a single node. Steps that change neither the contents of files nor the
file of a key (`SameFiles`) change no value (`SameFilesValue`): a search, an
eviction, a load and a save are such steps.

Only model-checked so far:

* Liveness: `OpFinishes`, `Drains`,
  `AllAnswered`, `MissesNoResult`, `ChangeEnds` and `SmallArrive` are out of the
  prover's reach.

## What is not modelled

* The restart of a host of Driver: it deletes its files and counts operations
  from 0; the code keeps no state for it, and replies to its former self are not
  told apart. Planned as a variant of Driver.
* Serialisation: copies of fields. The header and its limit are in Network.
* A connection that breaks after it was made: the code prints the error, and the
  message is lost as if no connection had been made.
* What a get finds in the memory of an entry that it has erased: `getReturn` copies
  the value one line after the erase (`driver.cpp:178`). Driver takes it to be still
  there; no property of a passing run is about the value, only about the time it
  was stored.
* The CRC: a table lookup. Keys are modelled by their hashes and virtual nodes by
  arbitrary places.
* Reads of `hostList` and `nodeMap` by a call that overlaps their change: a data
  race of C++ containers. The models bound when lists change and which calls are
  under way, not what a torn read returns.
* Btree: it was not finished. The branch of `put` that would insert and split is
  commented out, and `get`, `collect` and `remove` have no body; there is no
  behaviour to be faithful to. It is not in the build.
* What becomes of the memory behind `file_accessed`, once HashCache has written
  there: the run is not `sound` from then on. Its entries themselves are written and
  never read.
* More than two blocks that cover one key, which takes a block whose two ends are
  the same hash: DataStore shows that there are none.
* The console's `display` and `test`, and the start of the program: no property
  depends on them.

## Plan

1. **Migration and reads composed**: DataStore's timestamps of received records
   against Driver's choice of the newest, and what `torn` hashes are read as.
2. **Restart** of a host in Driver.
