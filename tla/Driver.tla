------------------------------- MODULE Driver -------------------------------
(***************************************************************************)
(* The replicated put and get of THKVS: the operation table of the         *)
(* coordinating host (class Driver), the requests it sends to the N hosts  *)
(* of a key, the data thread of each of those hosts, and the replies.      *)
(*                                                                         *)
(* Any host coordinates the calls of its own worker threads.  A call       *)
(* tests enableFlag, releases the mutex, then takes the mutex again to     *)
(* register an entry under a fresh operation id: the two halves are two    *)
(* actions.  After that the call only queues one request per host of the   *)
(* key.  Replies reach the coordinator in any order, one TCP connection    *)
(* per message and many handler threads on each side: messages in flight   *)
(* are sets.                                                               *)
(*                                                                         *)
(* A host keeps its records in blocks, and a key that blocks were cut at   *)
(* is covered by two of them (DataStore.tla says how, and that it is never *)
(* more).  Each block may answer a call: a host that is asked once may     *)
(* reply twice, and the coordinator counts both.                           *)
(*                                                                         *)
(* Here the list of hosts does not change, no records are moved between    *)
(* hosts, and no host restarts.                                            *)
(***************************************************************************)
EXTENDS Integers, FiniteSets, Sequences

CONSTANTS
  Node,         \* the hosts
  Thread,       \* the worker threads of all hosts
  Home,         \* Home[t]: the host whose worker thread t is
  Key,          \* keys, as the CRC hashes under which records are stored
  Hosts,        \* Hosts[k]: the hosts that getHosts returns for k
  Value,        \* the values clients put
  N, R, W,      \* replicas, read quorum and write quorum
  MaxOp,        \* bound: operations registered by one coordinator
  MaxClock,     \* bound: the last value of a host's clock
  Pausable,     \* the hosts that somebody sends setflag messages to
  Unreachable,  \* the hosts that connections may fail to reach
  Failing,      \* the hosts where opening a block file may fail
  Cutting,      \* the hosts whose blocks may be cut at a key
  SetBack,      \* the hosts whose clock may be set back
  SharedClock,  \* whether the clocks of the hosts always agree
  NoValue, NoEntry, NoRecord, NoCall  \* values outside the other sets

Call == [kind : {"put"}, key : Key, value : Value]
          \cup [kind : {"get"}, key : Key, value : {NoValue}]

\* The blocks of a host that may cover a key, the second after a cut only;
\* what answers a call is a block of a host.
Block == 1 .. 2
Voice == Node \X Block

\* SyncEntry: the counters, and the newest value reported so far
Entry == [tot : Nat, suc : Nat, timestamp : Int, value : Value \cup {NoValue}]

Record == [value : Value, timestamp : Nat \ {0}]

\* opid numbers the operations of one coordinator.
Op == {Home[t] : t \in Thread} \X (0 .. MaxOp - 1)

Request == [op : Op, dst : Node]

\* The voice tells the two replies of one host apart; the code ignores it.
Reply == [op : Op, voice : Voice, status : {0, 1}, timestamp : Int,
          value : Value \cup {NoValue}]

Result == [status : {0, 1}, timestamp : Int, value : Value \cup {NoValue}]

ASSUME QuorumAssumption ==
  /\ N \in Nat /\ R \in 1 .. N /\ W \in 1 .. N
  /\ IsFiniteSet(Node)
  /\ Hosts \in [Key -> SUBSET Node]
  /\ \A k \in Key : Cardinality(Hosts[k]) = N

ASSUME ThreadAssumption ==
  /\ IsFiniteSet(Thread)
  /\ Home \in [Thread -> Node]
  /\ Pausable \subseteq Node
  /\ Unreachable \subseteq Node
  /\ Failing \subseteq Node
  /\ Cutting \subseteq Node
  /\ SetBack \subseteq Node

ASSUME BoundAssumption ==
  /\ MaxOp \in Nat
  /\ MaxClock \in Nat \ {0}
  /\ SharedClock \in BOOLEAN

ASSUME NothingAssumption ==
  /\ NoValue \notin Value
  /\ NoEntry \notin Entry
  /\ NoRecord \notin Record
  /\ NoCall \notin Call

VARIABLES
  enableFlag,   \* enableFlag[c]: TRUE when c refuses calls
  pc,           \* pc[t]: the call of t that passed the flag test, or NoCall
  opid,         \* opid[c]: the next operation id of c
  entries,      \* entries[o]: the table entry of o, NoEntry outside the table
  call,         \* call[o]: what the messages of o carry
  reqs,         \* requests on their way to a data thread
  rets,         \* replies on their way to the coordinator
  store,        \* store[n][k][b]: the record of k in block b of n
  clock,        \* clock[n]: the last time that n read
  \* History, never read by the code:
  answer,       \* answer[o][v]: 0 none yet, -1 refused, t served at time t
  heard,        \* heard[o]: the voices whose replies o's entry counted
  finished,     \* finished[o]: the results o handed to the workers
  after         \* after[o]: the puts of o's key acknowledged before o began

net == <<reqs, rets>>
disk == <<store, clock>>
vars == <<enableFlag, pc, opid, entries, call, net, disk,
          answer, heard, finished, after>>

Kind(o) == IF call[o] = NoCall THEN "none" ELSE call[o].kind
Quorum(o) == IF Kind(o) = "put" THEN W ELSE R
Live(c) == {o \in Op : o[1] = c /\ entries[o] # NoEntry}

\* Who answered o, and what they said: voices, and the hosts they belong to.
Served(o) == {v \in Voice : answer[o][v] > 0}
ServedBy(o) == {n \in Node : \E b \in Block : answer[o][<<n, b>>] > 0}
RefusedBy(o) == {n \in Node : \E b \in Block : answer[o][<<n, b>>] < 0}

Succeeded(o) == \E i \in DOMAIN finished[o] : finished[o][i].status = 0
Failed(o) == \E i \in DOMAIN finished[o] : finished[o][i].status = 1

Acked(k) == {o \in Op : Kind(o) = "put" /\ call[o].key = k /\ Succeeded(o)}

Init ==
  /\ enableFlag = [c \in Node |-> FALSE]
  /\ pc = [t \in Thread |-> NoCall]
  /\ opid = [c \in Node |-> 0]
  /\ entries = [o \in Op |-> NoEntry]
  /\ call = [o \in Op |-> NoCall]
  /\ reqs = {} /\ rets = {}
  /\ store = [n \in Node |-> [k \in Key |-> [b \in Block |-> NoRecord]]]
  /\ clock = [n \in Node |-> 1]
  /\ answer = [o \in Op |-> [v \in Voice |-> 0]]
  /\ heard = [o \in Op |-> {}]
  /\ finished = [o \in Op |-> << >>]
  /\ after = [o \in Op |-> {}]

-----------------------------------------------------------------------------
(* Worker threads: Driver::put and Driver::get.                            *)

\* The flag is read under the mutex and tested after it is released.  A
\* call that finds it set is refused and changes nothing here.
Enter(t, c) ==
  /\ pc[t] = NoCall
  /\ ~enableFlag[Home[t]]
  /\ pc' = [pc EXCEPT ![t] = c]
  /\ UNCHANGED <<enableFlag, opid, entries, call, net, disk,
                 answer, heard, finished, after>>

PutEnter(t) ==
  \E k \in Key, v \in Value : Enter(t, [kind |-> "put", key |-> k, value |-> v])

GetEnter(t) ==
  \E k \in Key : Enter(t, [kind |-> "get", key |-> k, value |-> NoValue])

NewEntry == [tot |-> 0, suc |-> 0, timestamp |-> -1, value |-> NoValue]

\* Mutant of Send: the operation id is read but never advanced.
SendSameId(t) ==
  LET c == Home[t]
      o == <<c, opid[c]>>
  IN  /\ pc[t] # NoCall
      /\ opid[c] < MaxOp
      /\ entries' = [entries EXCEPT ![o] = NewEntry]
      /\ call' = [call EXCEPT ![o] = pc[t]]
      /\ reqs' = reqs \cup {[op |-> o, dst |-> n] : n \in Hosts[pc[t].key]}
      /\ pc' = [pc EXCEPT ![t] = NoCall]
      /\ after' = [after EXCEPT ![o] = Acked(pc[t].key)]
      /\ UNCHANGED <<enableFlag, opid, rets, disk, answer, heard, finished>>

\* The second critical section takes an id and registers the entry; the
\* requests that follow are only queued, so one step does both.
Send(t) ==
  LET c == Home[t]
      o == <<c, opid[c]>>
  IN  /\ pc[t] # NoCall
      /\ opid[c] < MaxOp
      /\ opid' = [opid EXCEPT ![c] = @ + 1]
      /\ entries' = [entries EXCEPT ![o] = NewEntry]
      /\ call' = [call EXCEPT ![o] = pc[t]]
      /\ reqs' = reqs \cup {[op |-> o, dst |-> n] : n \in Hosts[pc[t].key]}
      /\ pc' = [pc EXCEPT ![t] = NoCall]
      /\ after' = [after EXCEPT ![o] = Acked(pc[t].key)]
      /\ UNCHANGED <<enableFlag, rets, disk, answer, heard, finished>>

PutSend(t) == pc[t] # NoCall /\ pc[t].kind = "put" /\ Send(t)
GetSend(t) == pc[t] # NoCall /\ pc[t].kind = "get" /\ Send(t)

\* Mutant of ActSetEnableFlag: the flag is set without waiting.
ActSetEnableFlagAtOnce(c, flag) ==
  /\ enableFlag' = [enableFlag EXCEPT ![c] = flag]
  /\ UNCHANGED <<pc, opid, entries, call, net, disk,
                 answer, heard, finished, after>>

\* A handler thread waits for the table to empty before it sets the flag.
ActSetEnableFlag(c, flag) ==
  /\ Live(c) = {}
  /\ enableFlag' = [enableFlag EXCEPT ![c] = flag]
  /\ UNCHANGED <<pc, opid, entries, call, net, disk,
                 answer, heard, finished, after>>

-----------------------------------------------------------------------------
(* The data thread of a replica: the put and get branches of Data::run.    *)

\* The host takes q off its queue, and its blocks answer: stamp[b] is 0 if
\* block b says nothing, -1 if it refuses, else the time of its record.
Said(q, b, stamp, value) ==
  [op |-> q.op, voice |-> <<q.dst, b>>, status |-> IF stamp > 0 THEN 0 ELSE 1,
   timestamp |-> stamp, value |-> value]

Answer(q, stamp, value) ==
  /\ q \in reqs
  /\ reqs' = reqs \ {q}
  /\ rets' = rets \cup {Said(q, b, stamp[b], value[b]) :
                         b \in {c \in Block : stamp[c] # 0}}
  /\ answer' = [answer EXCEPT ![q.op] =
                  [v \in Voice |-> IF v[1] = q.dst THEN stamp[v[2]] ELSE @[v]]]

\* What the clock of n may show: it runs back only where it is set back.
Now(n) == {t \in (IF n \in SetBack THEN 1 ELSE clock[n]) .. MaxClock :
             SharedClock => \A m \in Node : clock[m] <= t}

Holding(n, k) == {b \in Block : store[n][k][b] # NoRecord}
Covering(n, k) == IF store[n][k][2] = NoRecord THEN {1} ELSE Block

\* The block that does not open, if there is one, is the last that is visited.
Stops(n, F) == F = {} \/ (n \in Failing /\ \E b \in Block : F = {b})

Stamp(b, S, F, t) == IF b \in S THEN t ELSE IF b \in F THEN -1 ELSE 0

\* Mutant of DataPut: a host answers without storing anything.
DataPutForgets(q) ==
  /\ Kind(q.op) = "put"
  /\ \E t \in Now(q.dst) :
       /\ clock' = [clock EXCEPT ![q.dst] = t]
       /\ Answer(q, [b \in Block |-> IF b = 1 THEN t ELSE 0], [b \in Block |-> NoValue])
  /\ UNCHANGED <<enableFlag, pc, opid, entries, call, store, heard, finished, after>>

\* The put overwrites the record, whatever its timestamp was, with the time
\* at which the data thread took the request, in the blocks S.  It goes on to
\* the second block that covers the key only if it split the first, to which
\* the key was new.
DataPut(q) ==
  LET n == q.dst
      k == call[q.op].key
  IN  /\ Kind(q.op) = "put"
      /\ \E t \in Now(n), S \in SUBSET Covering(n, k), F \in SUBSET Covering(n, k) :
           /\ S # {} /\ S \cap F = {} /\ Stops(n, F)
           /\ S \cup F = Block => S \ Holding(n, k) # {}
           /\ clock' = [clock EXCEPT ![n] = t]
           /\ store' = [store EXCEPT ![n][k] =
                [b \in Block |-> IF b \in S
                                 THEN [value |-> call[q.op].value, timestamp |-> t]
                                 ELSE @[b]]]
           /\ Answer(q, [b \in Block |-> Stamp(b, S, F, t)], [b \in Block |-> NoValue])
      /\ UNCHANGED <<enableFlag, pc, opid, entries, call, heard, finished, after>>

\* Every block that has the key answers, until one does not open.
DataGet(q) ==
  LET n == q.dst
      k == call[q.op].key
      r == store[n][k]
  IN  /\ Kind(q.op) = "get"
      /\ \E S \in SUBSET Holding(n, k), F \in SUBSET Covering(n, k) :
           /\ S # {} /\ S \cap F = {} /\ Stops(n, F)
           /\ F = {} => S = Holding(n, k)
           /\ Answer(q, [b \in Block |-> Stamp(b, S, F, r[b].timestamp)],
                        [b \in Block |-> IF b \in S THEN r[b].value ELSE NoValue])
      /\ UNCHANGED <<enableFlag, pc, opid, entries, call, disk,
                     heard, finished, after>>

\* No block has the key, or the first that is visited does not open, or the
\* second, after one that does not have it.
DataRefuse(q) ==
  LET n == q.dst
      k == call[q.op].key
  IN  /\ n \in Failing \/ (Kind(q.op) = "get" /\ Holding(n, k) = {})
      /\ \E b \in Covering(n, k) :
           Answer(q, [c \in Block |-> IF c = b THEN -1 ELSE 0], [c \in Block |-> NoValue])
      /\ UNCHANGED <<enableFlag, pc, opid, entries, call, disk,
                     heard, finished, after>>

Data(q) == DataPut(q) \/ DataGet(q) \/ DataRefuse(q)

\* The block of k at n is cut at k, by a put of another key that it has no
\* room for, or after the put that added k: its record goes to the upper part.
Cut(n, k) ==
  /\ Holding(n, k) = {1}
  /\ store' = [store EXCEPT ![n][k] = [b \in Block |-> IF b = 2 THEN @[1] ELSE NoRecord]]
  /\ UNCHANGED <<enableFlag, pc, opid, entries, call, net, clock,
                 answer, heard, finished, after>>

-----------------------------------------------------------------------------
(* Handler threads: Driver::putReturn and Driver::getReturn.               *)

Tally(e, status) ==
  [e EXCEPT !.tot = @ + 1, !.suc = @ + (1 - status)]

\* Mutants of Decided: every reply counts as a success; only success ends an
\* operation.
DecidedByTotal(e, quorum) == e.tot >= quorum
DecidedBySuccess(e, quorum) == e.suc >= quorum

\* Enough successes, or too many failures for enough ever to come.
Decided(e, quorum) == e.suc >= quorum \/ e.tot - e.suc > N - quorum

\* Mutant of Newest: the last success wins.
NewestIsLast(e, r) ==
  IF r.status = 0
  THEN [e EXCEPT !.timestamp = r.timestamp, !.value = r.value]
  ELSE e

\* A get keeps the value with the largest timestamp among the successes.
Newest(e, r) ==
  IF r.status = 0 /\ r.timestamp > e.timestamp
  THEN [e EXCEPT !.timestamp = r.timestamp, !.value = r.value]
  ELSE e

\* The reply of an operation that is no longer in the table.
Late(r) ==
  /\ entries[r.op] = NoEntry
  /\ UNCHANGED <<entries, heard, finished>>

\* Mutant of Count: a decided entry stays in the table.
CountKeeps(r, e, quorum) ==
  /\ entries[r.op] # NoEntry
  /\ heard' = [heard EXCEPT ![r.op] = @ \cup {r.voice}]
  /\ entries' = [entries EXCEPT ![r.op] = e]
  /\ \/ ~Decided(e, quorum) /\ UNCHANGED finished
     \/ /\ Decided(e, quorum)
        /\ finished' = [finished EXCEPT ![r.op] =
             Append(@, [status |-> r.status, timestamp |-> e.timestamp,
                        value |-> e.value])]

\* The reply brings the entry to e: the entry is kept until e is decided,
\* then erased and the result handed over with the status of this reply.  The
\* value is read after the erase, and taken to be still there.
Count(r, e, quorum) ==
  /\ entries[r.op] # NoEntry
  /\ heard' = [heard EXCEPT ![r.op] = @ \cup {r.voice}]
  /\ \/ /\ ~Decided(e, quorum)
        /\ entries' = [entries EXCEPT ![r.op] = e]
        /\ UNCHANGED finished
     \/ /\ Decided(e, quorum)
        /\ entries' = [entries EXCEPT ![r.op] = NoEntry]
        /\ finished' = [finished EXCEPT ![r.op] =
             Append(@, [status |-> r.status, timestamp |-> e.timestamp,
                        value |-> e.value])]

Receive(r) ==
  /\ r \in rets
  /\ rets' = rets \ {r}
  /\ UNCHANGED <<enableFlag, pc, opid, call, reqs, disk, answer, after>>

PutReturn(r) ==
  /\ Receive(r)
  /\ Kind(r.op) = "put"
  /\ \/ Late(r)
     \/ Count(r, Tally(entries[r.op], r.status), W)

GetReturn(r) ==
  /\ Receive(r)
  /\ Kind(r.op) = "get"
  /\ \/ Late(r)
     \/ Count(r, Newest(Tally(entries[r.op], r.status), r), R)

Return(r) == PutReturn(r) \/ GetReturn(r)

-----------------------------------------------------------------------------
(* The network: a connection that cannot be made loses its message.        *)

DropRequest(q) ==
  /\ q \in reqs
  /\ {q.op[1], q.dst} \cap Unreachable # {}
  /\ reqs' = reqs \ {q}
  /\ UNCHANGED <<enableFlag, pc, opid, entries, call, rets, disk,
                 answer, heard, finished, after>>

DropReply(r) ==
  /\ r \in rets
  /\ {r.op[1], r.voice[1]} \cap Unreachable # {}
  /\ rets' = rets \ {r}
  /\ UNCHANGED <<enableFlag, pc, opid, entries, call, reqs, disk,
                 answer, heard, finished, after>>

-----------------------------------------------------------------------------
Next ==
  \/ \E t \in Thread : PutEnter(t) \/ GetEnter(t) \/ PutSend(t) \/ GetSend(t)
  \/ \E c \in Pausable, flag \in BOOLEAN : ActSetEnableFlag(c, flag)
  \/ \E q \in reqs : Data(q) \/ DropRequest(q)
  \/ \E n \in Cutting, k \in Key : Cut(n, k)
  \/ \E r \in rets : Return(r) \/ DropReply(r)

Spec == Init /\ [][Next]_vars

\* Threads run, and every queue is first in, first out: what is queued is
\* handled, as long as a handler thread of the coordinator is free (PoolLive
\* of Membership.tla is about that).  Nothing makes a client call again, a
\* connection succeed, or a block split.
Fairness ==
  /\ \A t \in Thread : WF_vars(PutSend(t) \/ GetSend(t))
  /\ \A o \in Op, n \in Node :
       WF_vars(\E q \in reqs : q.op = o /\ q.dst = n /\ Data(q))
  /\ \A o \in Op, v \in Voice :
       WF_vars(\E r \in rets : r.op = o /\ r.voice = v /\ Return(r))

FairSpec == Spec /\ Fairness

-----------------------------------------------------------------------------
(* Properties.                                                             *)

\* The state is made of the values that the C++ types and the protocol allow.
Typed ==
  /\ enableFlag \in [Node -> BOOLEAN]
  /\ pc \in [Thread -> Call \cup {NoCall}]
  /\ opid \in [Node -> 0 .. MaxOp]
  /\ entries \in [Op -> Entry \cup {NoEntry}]
  /\ call \in [Op -> Call \cup {NoCall}]
  /\ reqs \subseteq Request
  /\ rets \subseteq Reply
  /\ store \in [Node -> [Key -> [Block -> Record \cup {NoRecord}]]]
  /\ clock \in [Node -> Nat \ {0}]
  /\ answer \in [Op -> [Voice -> Int]]
  /\ heard \in [Op -> SUBSET Voice]
  /\ finished \in [Op -> Seq(Result)]
  /\ after \in [Op -> SUBSET Op]

\* An entry in the table has counted fewer replies than there are replicas,
\* also when hosts reply twice: any N replies decide it.
TypeOK ==
  /\ Typed
  /\ \A o \in Op : entries[o] # NoEntry =>
       entries[o].suc <= entries[o].tot /\ entries[o].tot < N

\* putReturn and getReturn hand over at most one result per operation,
\* however many replies arrive after the quorum was reached.
FinishedOnce == \A o \in Op : Len(finished[o]) <= 1

\* The successes counted for o, the refusals, and the hosts counted twice.
HeardServed(o) == {v \in heard[o] : answer[o][v] > 0}
HeardRefused(o) == {v \in heard[o] : answer[o][v] < 0}
Twice(o) == {n \in Node : \A b \in Block : <<n, b>> \in HeardServed(o)}

\* What putFinish and getFinish report is what the replicas did.  A success
\* is backed by a quorum of hosts, less one for each host that was counted
\* twice; a failure by so many hosts that no quorum of others is left.
HonestResult ==
  \A o \in Op :
    /\ Succeeded(o) => Cardinality(ServedBy(o)) + Cardinality(Twice(o)) >= Quorum(o)
    /\ Failed(o) => Cardinality(RefusedBy(o)) > N - Quorum(o)

\* A get never fails that began after a put of its key was acknowledged, by
\* hosts that were counted once each: the replicas that have no record yet
\* are too few to refuse it.
AckedReadable ==
  \A o \in Op : Kind(o) = "get" /\ (\E p \in after[o] : Twice(p) = {}) => ~Failed(o)

\* The blocks of no host were cut at k so far.
Uncut(k) == \A n \in Node : store[n][k][2] = NoRecord

\* The quorums of getReturn and putReturn meet, for a key that no blocks were
\* cut at: a get that began after a put of its key was acknowledged returns a
\* record no older than that put was at one of the replicas that served it.
NotOlderThanAcked ==
  \A o \in Op : Kind(o) = "get" /\ Uncut(call[o].key) =>
    \A i \in DOMAIN finished[o] : finished[o][i].status = 0 =>
      \A p \in after[o] : \E v \in heard[p] :
        answer[p][v] > 0 /\ finished[o][i].timestamp >= answer[p][v]

\* While a host refuses calls, the operations that still run or still will
\* begin on it are at most one for each of its worker threads: those that
\* read the flag before it was set.
LeakBounded ==
  \A c \in Node : enableFlag[c] =>
    LET threads == {t \in Thread : Home[t] = c}
    IN  Cardinality(Live(c)) + Cardinality({t \in threads : pc[t] # NoCall})
          <= Cardinality(threads)

\* The inductive invariant behind FinishedOnce and HonestResult.  Ids that
\* were not handed out are untouched; a request stands for answers not yet
\* given and a reply for one not yet counted; a host refuses once at most;
\* the counters of an entry are the replies it heard; a result is backed by
\* the replies that were heard.
Registered(o) ==
  /\ call[o] = NoCall <=> o[2] >= opid[o[1]]
  /\ call[o] = NoCall =>
       /\ entries[o] = NoEntry /\ heard[o] = {} /\ finished[o] = << >>
       /\ \A v \in Voice : answer[o][v] = 0

Counted(o) ==
  /\ \A v \in heard[o] : answer[o][v] # 0
  /\ \A v, w \in Voice : v[1] = w[1] /\ answer[o][v] < 0 /\ answer[o][w] < 0 => v = w
  /\ entries[o] # NoEntry =>
       /\ finished[o] = << >>
       /\ entries[o].tot = Cardinality(heard[o])
       /\ entries[o].suc = Cardinality(HeardServed(o))
       /\ ~Decided(entries[o], Quorum(o))

Justified(o) ==
  /\ Len(finished[o]) <= 1
  /\ Succeeded(o) => Cardinality(HeardServed(o)) >= Quorum(o)
  /\ Failed(o) => Cardinality(HeardRefused(o)) > N - Quorum(o)

RequestsUnanswered ==
  \A q \in reqs :
    call[q.op] # NoCall /\ \A b \in Block : answer[q.op][<<q.dst, b>>] = 0

RepliesUncounted ==
  \A r \in rets :
    /\ call[r.op] # NoCall
    /\ r.voice \notin heard[r.op]
    /\ r.status = 0 => answer[r.op][r.voice] > 0
    /\ r.status = 1 => answer[r.op][r.voice] < 0

OneReplyEach ==
  \A r1, r2 \in rets : r1.op = r2.op /\ r1.voice = r2.voice => r1 = r2

Messages == RequestsUnanswered /\ RepliesUncounted /\ OneReplyEach

CountingInv ==
  /\ Typed
  /\ Messages
  /\ \A o \in Op : Registered(o) /\ Counted(o) /\ Justified(o)

\* Every operation in the table is decided in the end, unless a message of
\* it was lost: nothing is left of it in the network, and some host of its key
\* was not heard.
OpFinishes ==
  \A o \in Op :
    entries[o] # NoEntry ~>
      \/ finished[o] # << >>
      \/ /\ \A m \in reqs \cup rets : m.op # o
         /\ \E k \in Key : call[o] # NoCall /\ call[o].key = k
                          /\ {v[1] : v \in heard[o]} # Hosts[k]

\* report.md:53 of timestamps: reading takes the newest data.  A
\* get returns no value that was overwritten, before the get began, by a
\* put that itself began after the overwritten one was acknowledged.  A
\* request that is late takes a late timestamp, so this does not hold.
FreshRead ==
  \A o \in Op : Kind(o) = "get" =>
    \A i \in DOMAIN finished[o] : finished[o][i].status = 0 =>
      \E p \in Op :
        /\ Kind(p) = "put"
        /\ call[p].key = call[o].key
        /\ call[p].value = finished[o][i].value
        /\ \A q \in after[o] : p \notin after[q]

-----------------------------------------------------------------------------
(* A formula that the code does not satisfy; README.md gives the instance. *)

\* report.md:63 of the flag: while it is set, no service runs.
PausedIsQuiet == \A c \in Node : enableFlag[c] => Live(c) = {}

-----------------------------------------------------------------------------
(* The promise that each operation keeps to its caller.                    *)

Promise ==
  INSTANCE OpPromise WITH
    quorum <- [o \in Op |-> IF call[o] = NoCall THEN 0 ELSE Quorum(o)],
    phase <- [o \in Op |-> IF Succeeded(o) THEN "succeeded"
                           ELSE IF Failed(o) THEN "failed"
                           ELSE IF entries[o] # NoEntry THEN "open"
                           ELSE "unused"],
    served <- [o \in Op |-> Served(o)],
    refused <- [o \in Op |-> RefusedBy(o)]

PromiseSpec == Promise!Spec
=============================================================================
