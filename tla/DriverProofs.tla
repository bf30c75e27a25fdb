---------------------------- MODULE DriverProofs ----------------------------
(***************************************************************************)
(* Proofs about Driver, for every set of hosts, threads, keys and values,  *)
(* every N, R and W, any losses and any failing files.                     *)
(***************************************************************************)
EXTENDS Driver, FiniteSetTheorems, FunctionTheorems, TLAPS

\* What a block holds is a record or nothing.
LEMMA StoredRecord ==
  ASSUME Typed, NEW n \in Node, NEW k \in Key, NEW b \in Block, store[n][k][b] # NoRecord
  PROVE  /\ store[n][k][b] \in Record
         /\ store[n][k][b].timestamp \in Nat \ {0} /\ store[n][k][b].value \in Value
<1>1. store \in [Node -> [Key -> [Block -> Record \cup {NoRecord}]]]
  BY DEF Typed
<1>2. store[n][k][b] \in Record
  BY <1>1
<1>. QED
  BY <1>2 DEF Record

\* The key of a call that is a put or a get, and the value of a put.
LEMMA CallKey ==
  ASSUME Typed, NEW o \in Op, Kind(o) \in {"put", "get"}
  PROVE  /\ call[o] # NoCall /\ call[o] \in Call /\ call[o].key \in Key
         /\ Kind(o) = "put" => call[o].value \in Value
<1>1. call[o] \in Call \cup {NoCall} /\ call[o] # NoCall
  <2>1. call \in [Op -> Call \cup {NoCall}]
    BY DEF Typed
  <2>2. call[o] # NoCall
    BY DEF Kind
  <2>. QED
    BY <2>1, <2>2
<1>2. call[o].key \in Key
  BY <1>1 DEF Call
<1>3. Kind(o) = "put" => call[o].value \in Value
  BY <1>1 DEF Kind, Call
<1>. QED
  BY <1>1, <1>2, <1>3

\* What one block says: nothing, a refusal, or a time.
LEMMA StampIs ==
  ASSUME NEW b \in Block, NEW S, NEW F, NEW t \in Nat \ {0}, S \cap F = {}
  PROVE  /\ Stamp(b, S, F, t) \in Int
         /\ Stamp(b, S, F, t) > 0 <=> b \in S
         /\ Stamp(b, S, F, t) < 0 <=> b \in F
         /\ b \in S => Stamp(b, S, F, t) = t
BY DEF Stamp

\* The same where only the blocks of S have a time.
LEMMA SilentIs ==
  ASSUME NEW b \in Block, NEW S, NEW F, NEW t, b \notin S
  PROVE  /\ Stamp(b, S, F, t) \in Int /\ ~(Stamp(b, S, F, t) > 0)
         /\ Stamp(b, S, F, t) < 0 <=> b \in F
BY DEF Stamp

\* What the blocks of a host may say together: something, and one refusal.
Said1(stamp) ==
  /\ stamp \in [Block -> Int]
  /\ \E b \in Block : stamp[b] # 0
  /\ \A b, c \in Block : stamp[b] < 0 /\ stamp[c] < 0 => b = c

\* Every time that a clock shows is a time.
LEMMA NowIs ==
  ASSUME Typed, NEW n \in Node, NEW t \in Now(n)
  PROVE  t \in Nat \ {0} /\ (n \notin SetBack => clock[n] <= t)
<1>1. clock[n] \in Nat \ {0}
  BY DEF Typed
<1>. QED
  BY <1>1, BoundAssumption DEF Now

\* A put that is served: the blocks S store it at time t, and say so.
PutEffect(q, t, S, F) ==
  /\ S # {} /\ S \cap F = {} /\ Stops(q.dst, F)
  /\ S \cup F \subseteq Covering(q.dst, call[q.op].key)
  /\ clock' = [clock EXCEPT ![q.dst] = t]
  /\ store' = [store EXCEPT ![q.dst][call[q.op].key] =
       [b \in Block |-> IF b \in S
                        THEN [value |-> call[q.op].value, timestamp |-> t]
                        ELSE @[b]]]
  /\ Answer(q, [b \in Block |-> Stamp(b, S, F, t)], [b \in Block |-> NoValue])

\* DataPut has that effect.
LEMMA PutIs ==
  ASSUME NEW q \in reqs, DataPut(q)
  PROVE  \E t \in Now(q.dst), S, F \in SUBSET Block : PutEffect(q, t, S, F)
<1>1. Covering(q.dst, call[q.op].key) \subseteq Block
  BY DEF Covering, Block
<1>. QED
  BY <1>1, Zenon DEF DataPut, PutEffect

\* A get that is served: the blocks S answer with what they hold.
LEMMA GetIs ==
  ASSUME NEW q \in reqs, DataGet(q)
  PROVE  \E S, F \in SUBSET Block :
           /\ S # {} /\ S \cap F = {} /\ Stops(q.dst, F)
           /\ S \subseteq Holding(q.dst, call[q.op].key)
           /\ S \cup F \subseteq Covering(q.dst, call[q.op].key)
           /\ Answer(q,
                [b \in Block |-> Stamp(b, S, F, store[q.dst][call[q.op].key][b].timestamp)],
                [b \in Block |-> IF b \in S
                                 THEN store[q.dst][call[q.op].key][b].value ELSE NoValue])
<1>1. /\ Covering(q.dst, call[q.op].key) \subseteq Block
      /\ Holding(q.dst, call[q.op].key) \subseteq Covering(q.dst, call[q.op].key)
  BY DEF Covering, Holding, Block
<1>. QED
  BY <1>1, Zenon DEF DataGet

\* One block at most does not open.
LEMMA StopsIs ==
  ASSUME NEW n, NEW F, Stops(n, F), NEW b \in F, NEW c \in F
  PROVE  b = c /\ n \in Failing
BY DEF Stops

\* Whatever a data thread does, it sends what its blocks say.
LEMMA DataIs ==
  ASSUME Typed, NEW q \in reqs, Data(q)
  PROVE  /\ UNCHANGED <<enableFlag, pc, opid, entries, call, heard, finished, after>>
         /\ \E stamp, value : /\ Said1(stamp)
                              /\ value \in [Block -> Value \cup {NoValue}]
                              /\ Answer(q, stamp, value)
<1>0. q \in Request /\ q.op \in Op /\ q.dst \in Node
  BY DEF Typed, Request
<1>1. UNCHANGED <<enableFlag, pc, opid, entries, call, heard, finished, after>>
  BY DEF Data, DataPut, DataGet, DataRefuse
<1>2. CASE DataPut(q)
  <2>0. PICK t \in Now(q.dst), S, F \in SUBSET Block : PutEffect(q, t, S, F)
    BY <1>2, PutIs
  <2>1. /\ S # {} /\ S \cap F = {} /\ Stops(q.dst, F)
        /\ Answer(q, [b \in Block |-> Stamp(b, S, F, t)], [b \in Block |-> NoValue])
    BY <2>0, Zenon DEF PutEffect
  <2> DEFINE stamp == [b \in Block |-> Stamp(b, S, F, t)]
             value == [b \in Block |-> NoValue]
  <2>2. t \in Nat \ {0}
    BY <1>0, <2>1, NowIs
  <2>3. \A b \in Block : /\ stamp[b] \in Int /\ (stamp[b] > 0 <=> b \in S)
                         /\ (stamp[b] < 0 <=> b \in F)
    BY <2>1, <2>2, StampIs
  <2>4. Said1(stamp)
    <3>1. PICK b \in Block : b \in S
      BY <2>1
    <3>2. stamp[b] # 0
      BY <2>3, <3>1
    <3>3. \A c, d \in Block : stamp[c] < 0 /\ stamp[d] < 0 => c = d
      BY <2>1, <2>3, StopsIs
    <3>4. stamp \in [Block -> Int]
      BY <2>3
    <3> HIDE DEF stamp
    <3>. QED
      BY <3>2, <3>3, <3>4 DEF Said1
  <2>5. value \in [Block -> Value \cup {NoValue}]
    OBVIOUS
  <2>. QED
    BY <1>1, <2>1, <2>4, <2>5
<1>3. CASE DataGet(q)
  <2>0. call[q.op].key \in Key
    BY <1>0, <1>3, CallKey DEF DataGet
  <2> DEFINE r == store[q.dst][call[q.op].key]
  <2>1. PICK S, F \in SUBSET Block :
          /\ S # {} /\ S \cap F = {} /\ Stops(q.dst, F)
          /\ S \subseteq Holding(q.dst, call[q.op].key)
          /\ Answer(q, [b \in Block |-> Stamp(b, S, F, r[b].timestamp)],
                       [b \in Block |-> IF b \in S THEN r[b].value ELSE NoValue])
    BY <1>3, GetIs
  <2> DEFINE stamp == [b \in Block |-> Stamp(b, S, F, r[b].timestamp)]
             value == [b \in Block |-> IF b \in S THEN r[b].value ELSE NoValue]
  <2>2. \A b \in S : r[b].timestamp \in Nat \ {0} /\ r[b].value \in Value
    BY <1>0, <2>0, <2>1, StoredRecord DEF Holding
  <2>3. ASSUME NEW b \in Block
        PROVE  /\ stamp[b] \in Int /\ (stamp[b] > 0 <=> b \in S)
               /\ (stamp[b] < 0 <=> b \in F)
    <3>1. stamp[b] = Stamp(b, S, F, r[b].timestamp)
      OBVIOUS
    <3>2. CASE b \in S
      <4>1. r[b].timestamp \in Nat \ {0} /\ S \cap F = {}
        BY <2>1, <2>2, <3>2
      <4> DEFINE x == r[b].timestamp
                 y == stamp[b]
      <4>2. y = Stamp(b, S, F, x) /\ x \in Nat \ {0}
        BY <3>1, <4>1
      <4> HIDE DEF x, y
      <4>3. y \in Int /\ (y > 0 <=> b \in S) /\ (y < 0 <=> b \in F)
        BY <3>2, <4>1, <4>2, StampIs
      <4>. QED
        BY <4>3 DEF y
    <3>3. CASE b \notin S
      BY <3>1, <3>3, SilentIs
    <3>. QED
      BY <3>2, <3>3
  <2>4. Said1(stamp)
    <3>1. PICK b \in Block : b \in S
      BY <2>1
    <3>2. stamp[b] # 0
      BY <2>3, <3>1
    <3>3. \A c, d \in Block : stamp[c] < 0 /\ stamp[d] < 0 => c = d
      BY <2>1, <2>3, StopsIs
    <3>4. stamp \in [Block -> Int]
      BY <2>3
    <3> HIDE DEF stamp
    <3>. QED
      BY <3>2, <3>3, <3>4 DEF Said1
  <2>5. value \in [Block -> Value \cup {NoValue}]
    BY <2>2
  <2>. QED
    BY <1>1, <2>1, <2>4, <2>5
<1>4. CASE DataRefuse(q)
  <2>1. Covering(q.dst, call[q.op].key) \subseteq Block
    BY DEF Covering, Block
  <2>2. PICK b \in Block :
          Answer(q, [c \in Block |-> IF c = b THEN -1 ELSE 0], [c \in Block |-> NoValue])
    BY <1>4, <2>1 DEF DataRefuse
  <2>3. Said1([c \in Block |-> IF c = b THEN -1 ELSE 0])
    BY DEF Said1
  <2>4. [c \in Block |-> NoValue] \in [Block -> Value \cup {NoValue}]
    OBVIOUS
  <2>. QED
    BY <1>1, <2>2, <2>3, <2>4
<1>. QED
  BY <1>2, <1>3, <1>4 DEF Data

\* An answer: who says what, and that nothing else changes.
LEMMA AnswerIs ==
  ASSUME Typed, NEW q \in reqs, NEW stamp, Said1(stamp), NEW value,
         value \in [Block -> Value \cup {NoValue}], Answer(q, stamp, value)
  PROVE  /\ q.op \in Op /\ q.dst \in Node
         /\ reqs' \subseteq Request /\ rets' \subseteq Reply
         /\ answer' \in [Op -> [Voice -> Int]]
         /\ \A b \in Block : answer'[q.op][<<q.dst, b>>] = stamp[b]
         /\ \A o \in Op, v \in Voice :
              o # q.op \/ v[1] # q.dst => answer'[o][v] = answer[o][v]
         /\ \A o \in Op : o # q.op => answer'[o] = answer[o]
<1>0. q \in Request /\ q.op \in Op /\ q.dst \in Node
  BY DEF Typed, Request
<1>1. \A v \in Voice : v = <<v[1], v[2]>> /\ v[1] \in Node /\ v[2] \in Block
  BY DEF Voice
<1>2. stamp \in [Block -> Int]
  BY DEF Said1
<1>3. answer \in [Op -> [Voice -> Int]]
  BY DEF Typed
<1> DEFINE new == [v \in Voice |-> IF v[1] = q.dst THEN stamp[v[2]] ELSE answer[q.op][v]]
<1>4. answer' = [answer EXCEPT ![q.op] = new]
  BY <1>0, <1>3 DEF Answer
<1>5. new \in [Voice -> Int]
  BY <1>0, <1>1, <1>2, <1>3
<1>6. \A b \in Block : <<q.dst, b>> \in Voice /\ new[<<q.dst, b>>] = stamp[b]
  BY <1>0 DEF Voice
<1>7. \A v \in Voice : v[1] # q.dst => new[v] = answer[q.op][v]
  OBVIOUS
<1> HIDE DEF new
<1>8. /\ answer'[q.op] = new /\ \A o \in Op : o # q.op => answer'[o] = answer[o]
      /\ answer' \in [Op -> [Voice -> Int]]
  BY <1>0, <1>3, <1>4, <1>5
<1>9. \A b \in Block : Said(q, b, stamp[b], value[b]) \in Reply
  BY <1>0, <1>2, <1>6 DEF Said, Reply
<1>10. rets' \subseteq Reply /\ reqs' \subseteq Request
  BY <1>9 DEF Answer, Typed
<1>. QED
  BY <1>0, <1>6, <1>7, <1>8, <1>10

\* Tally counts one more reply, and one more success if it is one.
LEMMA TallyFields ==
  ASSUME NEW e \in Entry, NEW s \in {0, 1}
  PROVE  /\ Tally(e, s) \in Entry
         /\ Tally(e, s).tot = e.tot + 1
         /\ Tally(e, s).suc = e.suc + (1 - s)
<1>1. Tally(e, s).tot = e.tot + 1
  BY DEF Tally, Entry
<1>2. Tally(e, s).suc = e.suc + (1 - s)
  BY DEF Tally, Entry
<1>3. Tally(e, s) \in [tot : {Tally(e, s).tot}, suc : {Tally(e, s).suc},
                       timestamp : Int, value : Value \cup {NoValue}]
  BY Zenon DEF Tally, Entry
<1>4. e.tot + 1 \in Nat /\ e.suc + (1 - s) \in Nat
  BY DEF Entry
<1>. QED
  BY <1>1, <1>2, <1>3, <1>4 DEF Entry

\* Newest leaves the counters alone.
LEMMA NewestFields ==
  ASSUME NEW e \in Entry, NEW r \in Reply
  PROVE  /\ Newest(e, r) \in Entry
         /\ Newest(e, r).tot = e.tot
         /\ Newest(e, r).suc = e.suc
  BY DEF Newest, Entry, Reply

\* A registered call is made under an id of the table and asks hosts.
LEMMA SendTypes ==
  ASSUME Typed, NEW t \in Thread, pc[t] # NoCall, opid[Home[t]] < MaxOp
  PROVE  /\ <<Home[t], opid[Home[t]]>> \in Op
         /\ pc[t] \in Call
         /\ pc[t].key \in Key
         /\ Hosts[pc[t].key] \subseteq Node
  BY ThreadAssumption, QuorumAssumption, BoundAssumption, SMT
     DEF Typed, Call, Op

\* Every reachable state is made of the values the types allow.
LEMMA TypeStep == Typed /\ [Next]_vars => Typed'
<1> USE NothingAssumption
<1> SUFFICES ASSUME Typed, [Next]_vars PROVE Typed'
  OBVIOUS
<1>1. ASSUME NEW t \in Thread, NEW x \in Call, Enter(t, x) PROVE Typed'
  BY <1>1 DEF Typed, Enter, net, disk
<1>2. ASSUME NEW t \in Thread, PutEnter(t) PROVE Typed'
  BY <1>1, <1>2 DEF PutEnter, Call
<1>3. ASSUME NEW t \in Thread, GetEnter(t) PROVE Typed'
  BY <1>1, <1>3 DEF GetEnter, Call
<1>4. ASSUME NEW t \in Thread, Send(t) PROVE Typed'
  <2> DEFINE o == <<Home[t], opid[Home[t]]>>
  <2>1. /\ o \in Op /\ pc[t] \in Call
        /\ Hosts[pc[t].key] \subseteq Node
    BY <1>4, SendTypes DEF Send
  <2>2. NewEntry \in Entry
    BY DEF NewEntry, Entry
  <2>3. reqs' \subseteq Request
    <3>1. \A n \in Hosts[pc[t].key] : [op |-> o, dst |-> n] \in Request
      BY <2>1 DEF Request
    <3>2. reqs' = reqs \cup {[op |-> o, dst |-> n] : n \in Hosts[pc[t].key]}
      BY <1>4 DEF Send
    <3>. QED
      BY <3>1, <3>2 DEF Typed
  <2>4. opid' \in [Node -> 0 .. MaxOp]
    <3>1. Home[t] \in Node /\ opid[Home[t]] \in 0 .. MaxOp
      BY ThreadAssumption DEF Typed
    <3>2. opid[Home[t]] < MaxOp
      BY <1>4 DEF Send
    <3>3. opid[Home[t]] + 1 \in 0 .. MaxOp
      BY <3>1, <3>2, BoundAssumption
    <3>. QED
      BY <1>4, <3>1, <3>3 DEF Send, Typed
  <2>5. Acked(pc[t].key) \subseteq Op
    BY DEF Acked
  <2>. QED
    BY <1>4, <2>1, <2>2, <2>3, <2>4, <2>5 DEF Send, Typed, disk
<1>5. ASSUME NEW d \in Pausable, NEW flag \in BOOLEAN,
             ActSetEnableFlag(d, flag) PROVE Typed'
  BY <1>5 DEF Typed, ActSetEnableFlag, net, disk
<1>6. ASSUME NEW q \in reqs, Data(q) PROVE Typed'
  <2>0. q \in Request /\ q.op \in Op /\ q.dst \in Node
    BY DEF Typed, Request
  <2>1. PICK stamp, value : /\ Said1(stamp)
                            /\ value \in [Block -> Value \cup {NoValue}]
                            /\ Answer(q, stamp, value)
    BY <1>6, DataIs
  <2>2. /\ reqs' \subseteq Request /\ rets' \subseteq Reply
        /\ answer' \in [Op -> [Voice -> Int]]
    BY <2>1, AnswerIs
  <2>3. UNCHANGED <<enableFlag, pc, opid, entries, call, heard, finished, after>>
    BY <1>6, DataIs
  <2>4. /\ store' \in [Node -> [Key -> [Block -> Record \cup {NoRecord}]]]
        /\ clock' \in [Node -> Nat \ {0}]
    <3>1. CASE DataPut(q)
      <4>1. call[q.op].key \in Key /\ call[q.op].value \in Value
        BY <2>0, <3>1, CallKey DEF DataPut
      <4>0. PICK t \in Now(q.dst), S, F \in SUBSET Block : PutEffect(q, t, S, F)
        BY <3>1, PutIs
      <4>2. /\ clock' = [clock EXCEPT ![q.dst] = t]
            /\ store' = [store EXCEPT ![q.dst][call[q.op].key] =
                 [b \in Block |-> IF b \in S
                                  THEN [value |-> call[q.op].value, timestamp |-> t]
                                  ELSE @[b]]]
        BY <4>0, Zenon DEF PutEffect
      <4>3. t \in Nat \ {0}
        BY <2>0, <4>2, NowIs
      <4>4. [value |-> call[q.op].value, timestamp |-> t] \in Record
        BY <4>1, <4>3 DEF Record
      <4>5. clock' \in [Node -> Nat \ {0}]
        BY <2>0, <4>2, <4>3 DEF Typed
      <4> DEFINE k == call[q.op].key
                 rec == [value |-> call[q.op].value, timestamp |-> t]
                 new == [b \in Block |-> IF b \in S THEN rec ELSE store[q.dst][k][b]]
      <4>6. store' \in [Node -> [Key -> [Block -> Record \cup {NoRecord}]]]
        <5>1. store \in [Node -> [Key -> [Block -> Record \cup {NoRecord}]]]
          BY <2>0 DEF Typed
        <5>2. store[q.dst][k] \in [Block -> Record \cup {NoRecord}]
          BY <2>0, <4>1, <5>1
        <5>3. new \in [Block -> Record \cup {NoRecord}]
          BY <4>4, <5>2
        <5>4. store' = [store EXCEPT ![q.dst][k] = new]
          BY <4>2
        <5> HIDE DEF new, k, rec
        <5>. QED
          BY <5>1, <5>3, <5>4
      <4>. QED
        BY <4>5, <4>6
    <3>2. CASE DataGet(q) \/ DataRefuse(q)
      BY <3>2 DEF DataGet, DataRefuse, disk, Typed
    <3>. QED
      BY <1>6, <3>1, <3>2 DEF Data
  <2>. QED
    BY <2>2, <2>3, <2>4 DEF Typed
<1>7. ASSUME NEW r \in rets, Return(r) PROVE Typed'
  <2>0. r \in Reply /\ r.op \in Op /\ r.voice \in Voice /\ r.status \in {0, 1}
    BY DEF Typed, Reply
  <2>1. Receive(r)
    BY <1>7 DEF Return, PutReturn, GetReturn
  <2>2. ASSUME NEW e \in Entry, NEW k, Count(r, e, k)
        PROVE  /\ entries' \in [Op -> Entry \cup {NoEntry}]
               /\ heard' \in [Op -> SUBSET Voice]
               /\ finished' \in [Op -> Seq(Result)]
    <3> DEFINE res == [status |-> r.status, timestamp |-> e.timestamp,
                       value |-> e.value]
    <3>1. res \in Result
      BY <2>0 DEF Result, Entry
    <3>2. Append(finished[r.op], res) \in Seq(Result)
      BY <2>0, <3>1 DEF Typed
    <3>3. heard' \in [Op -> SUBSET Voice]
      BY <2>0, <2>2 DEF Count, Typed
    <3>4. CASE ~Decided(e, k)
      <4>1. entries' = [entries EXCEPT ![r.op] = e] /\ finished' = finished
        BY <2>2, <3>4 DEF Count
      <4>. QED
        BY <2>0, <3>3, <4>1 DEF Typed
    <3>5. CASE Decided(e, k)
      <4>1. entries' = [entries EXCEPT ![r.op] = NoEntry]
        BY <2>2, <3>5 DEF Count
      <4>2. finished' = [finished EXCEPT ![r.op] = Append(@, res)]
        BY <2>2, <3>5 DEF Count
      <4>. QED
        BY <2>0, <3>2, <3>3, <4>1, <4>2 DEF Typed
    <3>. QED
      BY <3>4, <3>5
  <2>3. entries[r.op] # NoEntry =>
          /\ Tally(entries[r.op], r.status) \in Entry
          /\ Newest(Tally(entries[r.op], r.status), r) \in Entry
    BY <2>0, TallyFields, NewestFields DEF Typed
  <2>4. /\ entries' \in [Op -> Entry \cup {NoEntry}]
        /\ heard' \in [Op -> SUBSET Voice]
        /\ finished' \in [Op -> Seq(Result)]
    <3>1. CASE Late(r)
      BY <3>1 DEF Late, Typed
    <3>2. CASE Count(r, Tally(entries[r.op], r.status), W)
      BY <2>2, <2>3, <3>2 DEF Count
    <3>3. CASE Count(r, Newest(Tally(entries[r.op], r.status), r), R)
      BY <2>2, <2>3, <3>3 DEF Count
    <3>. QED
      BY <1>7, <3>1, <3>2, <3>3 DEF Return, PutReturn, GetReturn
  <2>. QED
    BY <2>1, <2>4 DEF Receive, Typed, disk
<1>8. ASSUME NEW q \in reqs, DropRequest(q) PROVE Typed'
  BY <1>8 DEF Typed, DropRequest, disk
<1>9. ASSUME NEW r \in rets, DropReply(r) PROVE Typed'
  BY <1>9 DEF Typed, DropReply, disk
<1>10. ASSUME NEW n \in Cutting, NEW k \in Key, Cut(n, k) PROVE Typed'
  <2>1. n \in Node
    BY ThreadAssumption
  <2>2. store' \in [Node -> [Key -> [Block -> Record \cup {NoRecord}]]]
    BY <1>10, <2>1 DEF Cut, Typed, Block
  <2>. QED
    BY <1>10, <2>2 DEF Typed, Cut, net
<1>11. CASE UNCHANGED vars
  BY <1>11 DEF Typed, vars, net, disk
<1>. QED
  BY <1>2, <1>3, <1>4, <1>5, <1>6, <1>7, <1>8, <1>9, <1>10, <1>11
     DEF Next, PutSend, GetSend

\* The initial state has the types.
LEMMA TypeInit == Init => Typed
<1> SUFFICES ASSUME Init PROVE Typed
  OBVIOUS
<1>1. 0 \in 0 .. MaxOp
  BY BoundAssumption
<1>2. << >> \in Seq(Result)
  OBVIOUS
<1>. QED
  BY <1>1, <1>2 DEF Init, Typed

-----------------------------------------------------------------------------
(* Counting: the inductive invariant CountingInv.                          *)

OpInv(o) == Registered(o) /\ Counted(o) /\ Justified(o)

\* An operation that a step leaves alone keeps its part of the invariant.
LEMMA Undisturbed ==
  ASSUME NEW o \in Op, OpInv(o),
         call'[o] = call[o], entries'[o] = entries[o],
         heard'[o] = heard[o], finished'[o] = finished[o],
         answer'[o] = answer[o],
         o[2] >= opid'[o[1]] <=> o[2] >= opid[o[1]]
  PROVE  OpInv(o)'
<1>1. Registered(o)'
  BY DEF OpInv, Registered
<1>2. HeardServed(o)' = HeardServed(o) /\ HeardRefused(o)' = HeardRefused(o)
  BY DEF HeardServed, HeardRefused
<1>3. Quorum(o)' = Quorum(o)
  BY DEF Quorum, Kind
<1>4. Counted(o)'
  BY <1>2, <1>3 DEF OpInv, Counted, Decided
<1>5. Succeeded(o)' = Succeeded(o) /\ Failed(o)' = Failed(o)
  BY DEF Succeeded, Failed
<1>6. Justified(o)'
  BY <1>2, <1>3, <1>5 DEF OpInv, Justified
<1>. QED
  BY <1>1, <1>4, <1>6 DEF OpInv

\* Quorums lie between one and N.
LEMMA QuorumRange == \A o : Quorum(o) \in 1 .. N /\ N \in Nat
  BY QuorumAssumption DEF Quorum

\* Every set of hosts is finite, and every set of voices.
LEMMA HostSets ==
  /\ \A S : S \subseteq Node => IsFiniteSet(S) /\ Cardinality(S) \in Nat
  /\ \A S : S \subseteq Voice => IsFiniteSet(S) /\ Cardinality(S) \in Nat
<1>1. IsFiniteSet(Voice)
  <2>1. IsFiniteSet(Block)
    <3>1. 1 \in Int /\ 2 \in Int
      OBVIOUS
    <3>. QED
      BY <3>1, FS_Interval, Zenon DEF Block
  <2>. QED
    BY <2>1, QuorumAssumption, FS_Product DEF Voice
<1>. QED
  BY <1>1, QuorumAssumption, FS_Subset, FS_CardinalityType

\* An operation that is registered starts with no answers and no counts.
LEMMA SendCounting ==
  ASSUME CountingInv, NEW t \in Thread, Send(t)
  PROVE  Messages' /\ \A o \in Op : OpInv(o)'
<1> DEFINE c == Home[t]
<1> USE NothingAssumption
<1>0. Typed /\ Messages /\ \A o \in Op : OpInv(o)
  BY DEF CountingInv, OpInv
<1>new. PICK new \in Op : new = <<c, opid[c]>>
  BY <1>0, SendTypes DEF Send
<1>1. /\ new[1] = c /\ new[2] = opid[c] /\ pc[t] \in Call /\ pc[t] # NoCall
      /\ Hosts[pc[t].key] \subseteq Node
      /\ c \in Node /\ opid[c] \in Nat
  BY <1>0, <1>new, SendTypes, ThreadAssumption, BoundAssumption
     DEF Send, Typed
<1>2. /\ opid' = [opid EXCEPT ![c] = opid[c] + 1]
      /\ entries' = [entries EXCEPT ![new] = NewEntry]
      /\ call' = [call EXCEPT ![new] = pc[t]]
      /\ reqs' = reqs \cup {[op |-> new, dst |-> n] : n \in Hosts[pc[t].key]}
      /\ UNCHANGED <<rets, answer, heard, finished>>
  BY <1>new DEF Send
<1>3. /\ call[new] = NoCall /\ entries[new] = NoEntry
      /\ heard[new] = {} /\ finished[new] = << >>
      /\ \A v \in Voice : answer[new][v] = 0
  <2>1. Registered(new) /\ new[2] >= opid[new[1]]
    BY <1>0, <1>1 DEF OpInv
  <2>. QED
    BY <2>1 DEF Registered
<1>4. OpInv(new)'
  <2>1. call'[new] = pc[t] /\ entries'[new] = NewEntry
    BY <1>0, <1>1, <1>2 DEF Typed
  <2>2. Registered(new)'
    <3>1. opid'[c] = opid[c] + 1
      BY <1>0, <1>1, <1>2 DEF Typed
    <3>2. new[1] = c /\ new[2] = opid[c] /\ ~(opid[c] >= opid[c] + 1)
      BY <1>1
    <3>. QED
      BY <1>1, <2>1, <3>1, <3>2 DEF Registered
  <2>3. HeardServed(new)' = {}
    BY <1>2, <1>3 DEF HeardServed
  <2>4. ~Decided(NewEntry, Quorum(new)')
    <3>1. Quorum(new)' \in 1 .. N /\ N \in Nat
      BY QuorumAssumption DEF Quorum
    <3>2. NewEntry.tot = 0 /\ NewEntry.suc = 0
      BY DEF NewEntry
    <3>. QED
      BY <3>1, <3>2 DEF Decided
  <2>5. heard'[new] = {} /\ finished'[new] = << >>
    BY <1>2, <1>3
  <2>6. NewEntry.tot = 0 /\ NewEntry.suc = 0 /\ Cardinality({}) = 0
    BY FS_EmptySet DEF NewEntry
  <2>7. Counted(new)'
    <3>1. \A v \in Voice : ~(answer'[new][v] < 0)
      BY <1>2, <1>3
    <3>. QED
      BY <2>1, <2>3, <2>4, <2>5, <2>6, <3>1 DEF Counted, Decided
  <2>8. Justified(new)'
    BY <2>5 DEF Justified, Succeeded, Failed
  <2>. QED
    BY <2>2, <2>7, <2>8 DEF OpInv
<1>5. ASSUME NEW o \in Op, o # new PROVE OpInv(o)'
  <2>1. call'[o] = call[o] /\ entries'[o] = entries[o]
    BY <1>0, <1>1, <1>2, <1>5 DEF Typed
  <2>2. o[2] >= opid'[o[1]] <=> o[2] >= opid[o[1]]
    <3>1. o = <<o[1], o[2]>> /\ o[1] \in Node /\ o[2] \in Nat
      BY ThreadAssumption, BoundAssumption DEF Op
    <3>2. CASE o[1] = c
      <4>1. o[2] # opid[c]
        BY <1>5, <1>new, <3>1, <3>2
      <4>2. opid'[c] = opid[c] + 1
        BY <1>0, <1>1, <1>2 DEF Typed
      <4>. QED
        BY <1>1, <3>1, <3>2, <4>1, <4>2
    <3>3. CASE o[1] # c
      BY <1>0, <1>1, <1>2, <3>1, <3>3 DEF Typed
    <3>. QED
      BY <3>2, <3>3
  <2>. QED
    BY <1>0, <1>2, <2>1, <2>2, Undisturbed
<1>6. Messages'
  <2>1. ASSUME NEW o \in Op, call[o] # NoCall PROVE call'[o] # NoCall
    BY <1>0, <1>1, <1>2, <2>1 DEF Typed
  <2>2. call'[new] # NoCall
    BY <1>0, <1>1, <1>2 DEF Typed
  <2>3. ASSUME NEW q \in reqs'
        PROVE  call'[q.op] # NoCall /\ \A b \in Block : answer'[q.op][<<q.dst, b>>] = 0
    <3>1. CASE q \in reqs
      BY <1>0, <1>2, <2>1, <3>1
         DEF Messages, RequestsUnanswered, RepliesUncounted, OneReplyEach, Typed, Request
    <3>2. CASE q \notin reqs
      <4>1. PICK n \in Hosts[pc[t].key] : q = [op |-> new, dst |-> n]
        BY <1>2, <2>3, <3>2
      <4>. QED
        BY <1>1, <1>2, <1>3, <2>2, <4>1 DEF Voice
    <3>. QED
      BY <3>1, <3>2
  <2>4. ASSUME NEW r \in rets PROVE r.op \in Op /\ call'[r.op] # NoCall
    BY <1>0, <2>1, <2>4
       DEF Messages, RequestsUnanswered, RepliesUncounted, OneReplyEach, Typed, Reply
  <2>. QED
    BY <1>0, <1>2, <2>3, <2>4
       DEF Messages, RequestsUnanswered, RepliesUncounted, OneReplyEach
<1>. QED
  BY <1>4, <1>5, <1>6

\* A request that is processed becomes replies that nobody counted yet.
LEMMA DataCounting ==
  ASSUME CountingInv, NEW q \in reqs, Data(q)
  PROVE  Messages' /\ \A o \in Op : OpInv(o)'
<1>0. Typed /\ Messages /\ \A o \in Op : OpInv(o)
  BY DEF CountingInv, OpInv
<1>1. PICK stamp, value : /\ Said1(stamp)
                          /\ value \in [Block -> Value \cup {NoValue}]
                          /\ Answer(q, stamp, value)
  BY <1>0, DataIs
<1>2. UNCHANGED <<opid, entries, call, heard, finished>>
  BY <1>0, DataIs
<1>3. /\ q.op \in Op /\ q.dst \in Node
      /\ \A b \in Block : answer'[q.op][<<q.dst, b>>] = stamp[b]
      /\ \A o \in Op, v \in Voice :
           o # q.op \/ v[1] # q.dst => answer'[o][v] = answer[o][v]
      /\ \A o \in Op : o # q.op => answer'[o] = answer[o]
  BY <1>0, <1>1, AnswerIs
<1>4. /\ reqs' = reqs \ {q}
      /\ rets' = rets \cup {Said(q, b, stamp[b], value[b]) :
                             b \in {c \in Block : stamp[c] # 0}}
  BY <1>1 DEF Answer
<1>5. /\ call[q.op] # NoCall
      /\ \A b \in Block : answer[q.op][<<q.dst, b>>] = 0
  BY <1>0 DEF Messages, RequestsUnanswered
<1>6. \A v \in Voice : v = <<v[1], v[2]>> /\ v[1] \in Node /\ v[2] \in Block
  BY DEF Voice
\* No voice of the host was heard before.
<1>7. \A v \in heard[q.op] : v \in Voice /\ v[1] # q.dst
  <2>1. heard[q.op] \subseteq Voice
    BY <1>0, <1>3 DEF Typed
  <2>2. \A v \in heard[q.op] : answer[q.op][v] # 0
    BY <1>0, <1>3 DEF OpInv, Counted
  <2>. QED
    BY <1>5, <1>6, <2>1, <2>2
<1>8. ASSUME NEW o \in Op, o # q.op PROVE OpInv(o)'
  BY <1>0, <1>2, <1>3, <1>8, Undisturbed
<1>9. OpInv(q.op)'
  <2> DEFINE o == q.op
  <2>1. \A v \in heard[o] : answer'[o][v] = answer[o][v]
    BY <1>3, <1>7
  <2>2. HeardServed(o)' = HeardServed(o) /\ HeardRefused(o)' = HeardRefused(o)
    BY <1>2, <2>1 DEF HeardServed, HeardRefused
  <2>3. Quorum(o)' = Quorum(o)
    BY <1>2 DEF Quorum, Kind
  <2>4. Registered(o)'
    BY <1>0, <1>2, <1>3, <1>5 DEF OpInv, Registered
  <2>5. \A v, w \in Voice :
          v[1] = w[1] /\ answer'[o][v] < 0 /\ answer'[o][w] < 0 => v = w
    <3> SUFFICES ASSUME NEW v \in Voice, NEW w \in Voice, v[1] = w[1],
                        answer'[o][v] < 0, answer'[o][w] < 0
                 PROVE  v = w
      OBVIOUS
    <3>1. CASE v[1] = q.dst
      <4>1. stamp[v[2]] < 0 /\ stamp[w[2]] < 0
        <5>1. \A b \in Block : answer'[o][<<q.dst, b>>] = stamp[b]
          BY <1>3
        <5>2. v = <<q.dst, v[2]>> /\ w = <<q.dst, w[2]>> /\ v[2] \in Block /\ w[2] \in Block
          BY <1>6, <3>1
        <5>. QED
          BY <5>1, <5>2
      <4>2. v[2] = w[2]
        BY <1>1, <1>6, <4>1 DEF Said1
      <4>. QED
        BY <1>6, <4>2
    <3>2. CASE v[1] # q.dst
      BY <1>0, <1>3, <3>2 DEF OpInv, Counted
    <3>. QED
      BY <3>1, <3>2
  <2>6. Counted(o)'
    BY <1>0, <1>2, <1>3, <2>1, <2>2, <2>3, <2>5 DEF OpInv, Counted, Decided
  <2>7. Succeeded(o)' = Succeeded(o) /\ Failed(o)' = Failed(o)
    BY <1>2 DEF Succeeded, Failed
  <2>8. Justified(o)'
    BY <1>0, <1>2, <1>3, <2>2, <2>3, <2>7 DEF OpInv, Justified
  <2>. QED
    BY <2>4, <2>6, <2>8 DEF OpInv
<1>10. RequestsUnanswered'
  <2> SUFFICES ASSUME NEW p \in reqs', NEW b \in Block
               PROVE  call'[p.op] # NoCall /\ answer'[p.op][<<p.dst, b>>] = 0
    <3>1. 1 \in Block
      BY DEF Block
    <3>. QED
      BY <3>1, Zenon DEF RequestsUnanswered
  <2>1. p \in reqs /\ p # q /\ p \in Request /\ q \in Request
    BY <1>0, <1>4 DEF Typed
  <2>2. p.op # q.op \/ p.dst # q.dst
    BY <2>1 DEF Request
  <2>3. p.op \in Op /\ <<p.dst, b>> \in Voice /\ <<p.dst, b>>[1] = p.dst
    BY <2>1 DEF Request, Voice
  <2>4. answer'[p.op][<<p.dst, b>>] = answer[p.op][<<p.dst, b>>]
    BY <1>3, <2>2, <2>3
  <2>. QED
    BY <1>0, <1>2, <2>1, <2>4 DEF Messages, RequestsUnanswered
\* The replies under way are of other voices than the new ones.
<1>11. ASSUME NEW r \in rets
       PROVE  /\ r.op # q.op \/ r.voice[1] # q.dst
              /\ call'[r.op] # NoCall /\ r.voice \notin heard'[r.op]
              /\ answer'[r.op][r.voice] = answer[r.op][r.voice]
  <2>1. r.op \in Op /\ r.voice \in Voice /\ r.status \in {0, 1}
    BY <1>0 DEF Typed, Reply
  <2>2. answer[r.op][r.voice] # 0
    <3>1. /\ r.status = 0 => answer[r.op][r.voice] > 0
          /\ r.status = 1 => answer[r.op][r.voice] < 0
          /\ answer[r.op][r.voice] \in Int
      BY <1>0, <2>1 DEF Messages, RepliesUncounted, Typed
    <3>. QED
      BY <2>1, <3>1
  <2>3. r.op # q.op \/ r.voice[1] # q.dst
    BY <1>5, <1>6, <2>1, <2>2
  <2>. QED
    BY <1>0, <1>2, <1>3, <2>1, <2>3 DEF Messages, RepliesUncounted
<1>12. ASSUME NEW r \in rets', r \notin rets
       PROVE  \E b \in Block : /\ r = Said(q, b, stamp[b], value[b]) /\ stamp[b] # 0
                               /\ r.op = q.op /\ r.voice = <<q.dst, b>>
                               /\ r.status = IF stamp[b] > 0 THEN 0 ELSE 1
                               /\ stamp[b] \in Int
  BY <1>1, <1>4, <1>12 DEF Said, Said1
<1>13. RepliesUncounted'
  <2> SUFFICES ASSUME NEW r \in rets'
               PROVE  /\ call'[r.op] # NoCall /\ r.voice \notin heard'[r.op]
                      /\ r.status = 0 => answer'[r.op][r.voice] > 0
                      /\ r.status = 1 => answer'[r.op][r.voice] < 0
    BY DEF RepliesUncounted
  <2>1. CASE r \in rets
    BY <1>0, <1>11, <2>1 DEF Messages, RepliesUncounted
  <2>2. CASE r \notin rets
    <3>1. PICK b \in Block : /\ stamp[b] # 0 /\ stamp[b] \in Int
                            /\ r.op = q.op /\ r.voice = <<q.dst, b>>
                            /\ r.status = IF stamp[b] > 0 THEN 0 ELSE 1
      BY <1>12, <2>2
    <3>2. answer'[r.op][r.voice] = stamp[b]
      BY <1>3, <3>1
    <3>3. r.voice \notin heard'[r.op]
      BY <1>2, <1>7, <3>1
    <3>. QED
      BY <1>2, <1>5, <3>1, <3>2, <3>3
  <2>. QED
    BY <2>1, <2>2
<1>14. OneReplyEach'
  <2> SUFFICES ASSUME NEW r1 \in rets', NEW r2 \in rets',
                      r1.op = r2.op, r1.voice = r2.voice
               PROVE  r1 = r2
    BY DEF OneReplyEach
  <2>1. CASE r1 \in rets /\ r2 \in rets
    BY <1>0, <2>1 DEF Messages, OneReplyEach
  <2>2. CASE r1 \notin rets /\ r2 \notin rets
    <3>1. PICK b \in Block : r1 = Said(q, b, stamp[b], value[b]) /\ r1.voice = <<q.dst, b>>
      BY <1>12, <2>2
    <3>2. PICK c \in Block : r2 = Said(q, c, stamp[c], value[c]) /\ r2.voice = <<q.dst, c>>
      BY <1>12, <2>2
    <3>3. b = c
      BY <3>1, <3>2
    <3>. QED
      BY <3>1, <3>2, <3>3
  <2>3. CASE r1 \in rets /\ r2 \notin rets
    <3>1. r2.op = q.op /\ r2.voice[1] = q.dst
      BY <1>12, <2>3
    <3>. QED
      BY <1>11, <2>3, <3>1
  <2>4. CASE r1 \notin rets /\ r2 \in rets
    <3>1. r1.op = q.op /\ r1.voice[1] = q.dst
      BY <1>12, <2>4
    <3>. QED
      BY <1>11, <2>4, <3>1
  <2>. QED
    BY <2>1, <2>2, <2>3, <2>4
<1>. QED
  BY <1>8, <1>9, <1>10, <1>13, <1>14 DEF Messages

\* One more reply: the sets that the counters measure grow by its sender.
LEMMA OneMore ==
  ASSUME NEW S, IsFiniteSet(S), NEW n, n \notin S
  PROVE  Cardinality(S \cup {n}) = Cardinality(S) + 1
  BY FS_AddElement

\* The reply r of an operation in the table, counted into the entry e.
LEMMA CountCounting ==
  ASSUME CountingInv, NEW r \in rets, Receive(r), NEW e \in Entry,
         Count(r, e, Quorum(r.op)),
         e.tot = entries[r.op].tot + 1,
         e.suc = entries[r.op].suc + (1 - r.status)
  PROVE  OpInv(r.op)'
<1> DEFINE o == r.op
           res == [status |-> r.status, timestamp |-> e.timestamp,
                   value |-> e.value]
<1>0. Typed /\ Messages /\ OpInv(o)
  BY DEF CountingInv, OpInv, Typed, Reply
<1>1. o \in Op /\ r.voice \in Voice /\ r.status \in {0, 1} /\ o' = o
  BY <1>0 DEF Typed, Reply
<1>2. /\ call' = call /\ opid' = opid /\ answer' = answer
      /\ heard' = [heard EXCEPT ![o] = @ \cup {r.voice}]
      /\ entries[o] # NoEntry
  BY DEF Receive, Count
<1>3. /\ call[o] # NoCall /\ r.voice \notin heard[o]
      /\ r.status = 0 => answer[o][r.voice] > 0
      /\ r.status = 1 => answer[o][r.voice] < 0
      /\ answer[o][r.voice] \in Int
  BY <1>0, <1>1
     DEF Messages, RequestsUnanswered, RepliesUncounted, OneReplyEach, Typed
<1>4. /\ entries[o].tot = Cardinality(heard[o])
      /\ entries[o].suc = Cardinality(HeardServed(o))
      /\ finished[o] = << >>
      /\ ~Decided(entries[o], Quorum(o))
      /\ \A n \in heard[o] : answer[o][n] # 0
      /\ \A v, w \in Voice :
           v[1] = w[1] /\ answer[o][v] < 0 /\ answer[o][w] < 0 => v = w
  BY <1>0, <1>2 DEF OpInv, Counted
<1>5. heard'[o] = heard[o] \cup {r.voice} /\ heard[o] \subseteq Voice
  BY <1>0, <1>1, <1>2 DEF Typed
<1>6. /\ IsFiniteSet(heard[o]) /\ IsFiniteSet(HeardServed(o))
      /\ IsFiniteSet(HeardRefused(o)) /\ Cardinality(heard[o]) \in Nat
      /\ Cardinality(HeardServed(o)) \in Nat
      /\ Cardinality(HeardRefused(o)) \in Nat
  BY <1>5, HostSets DEF HeardServed, HeardRefused
<1>7. Cardinality(heard'[o]) = Cardinality(heard[o]) + 1
  BY <1>3, <1>5, <1>6, OneMore
<1>8. e.tot = Cardinality(heard'[o])
  BY <1>4, <1>7
<1>9. e.suc = Cardinality(HeardServed(o)')
  <2>1. CASE r.status = 0
    <3>1. HeardServed(o)' = HeardServed(o) \cup {r.voice}
      BY <1>2, <1>3, <1>5, <2>1 DEF HeardServed
    <3>2. r.voice \notin HeardServed(o)
      BY <1>3 DEF HeardServed
    <3>. QED
      BY <1>4, <1>6, <2>1, <3>1, <3>2, OneMore
  <2>2. CASE r.status = 1
    <3>1. HeardServed(o)' = HeardServed(o)
      BY <1>2, <1>3, <1>5, <2>2 DEF HeardServed
    <3>. QED
      BY <1>4, <1>6, <2>2, <3>1
  <2>. QED
    BY <1>1, <2>1, <2>2
\* What was heard was served or refused, never both.
<1>10. Cardinality(HeardRefused(o)') = e.tot - e.suc
  <2>1. HeardRefused(o)' = heard'[o] \ HeardServed(o)'
    <3>1. \A n \in heard'[o] : answer'[o][n] \in Int /\ answer'[o][n] # 0
      BY <1>0, <1>1, <1>2, <1>3, <1>4, <1>5 DEF Typed
    <3>. QED
      BY <3>1 DEF HeardRefused, HeardServed
  <2>2. HeardServed(o)' \subseteq heard'[o] /\ IsFiniteSet(heard'[o])
    BY <1>1, <1>5, HostSets DEF HeardServed
  <2>3. Cardinality(heard'[o] \ HeardServed(o)') =
          Cardinality(heard'[o]) - Cardinality(heard'[o] \cap HeardServed(o)')
    BY <2>2, FS_Difference
  <2>4. heard'[o] \cap HeardServed(o)' = HeardServed(o)'
    BY <2>2
  <2>. QED
    BY <1>8, <1>9, <2>1, <2>3, <2>4
<1>11. Quorum(o)' = Quorum(o) /\ Quorum(o) \in 1 .. N /\ N \in Nat
  BY <1>2, QuorumRange DEF Quorum, Kind
<1>12. \A n \in heard'[o] : answer'[o][n] # 0
  BY <1>1, <1>2, <1>3, <1>4, <1>5
<1>13. CASE ~Decided(e, Quorum(o))
  <2>1. entries'[o] = e /\ finished'[o] = << >>
    BY <1>0, <1>1, <1>4, <1>13 DEF Count, Typed
  <2>2. Counted(o)'
    BY <1>2, <1>4, <1>8, <1>9, <1>11, <1>12, <1>13, <2>1 DEF Counted, Decided
  <2>3. Registered(o)'
    BY <1>0, <1>2, <1>3 DEF OpInv, Registered
  <2>4. Justified(o)'
    BY <2>1 DEF Justified, Succeeded, Failed
  <2>. QED
    BY <2>2, <2>3, <2>4 DEF OpInv
<1>14. CASE Decided(e, Quorum(o))
  <2>1. entries'[o] = NoEntry /\ finished'[o] = <<res>>
    BY <1>0, <1>1, <1>4, <1>14 DEF Count, Typed
  <2>2. Counted(o)'
    BY <1>2, <1>4, <1>12, <2>1 DEF Counted
  <2>3. Registered(o)'
    BY <1>0, <1>2, <1>3 DEF OpInv, Registered
  <2>4. Len(finished'[o]) = 1 /\ DOMAIN finished'[o] = {1}
        /\ finished'[o][1].status = r.status
    BY <2>1
  <2>5. entries[o].tot \in Int /\ entries[o].suc \in Int
    BY <1>4, <1>6
  \* The status of the last reply says which disjunct of Decided it made true.
  <2>6. r.status = 0 => e.suc >= Quorum(o)
    BY <1>4, <1>11, <1>14, <2>5 DEF Decided
  <2>7. r.status = 1 => e.tot - e.suc > N - Quorum(o)
    BY <1>4, <1>11, <1>14, <2>5 DEF Decided
  <2>8. Justified(o)'
    BY <1>9, <1>10, <1>11, <2>4, <2>6, <2>7 DEF Justified, Succeeded, Failed
  <2>. QED
    BY <2>2, <2>3, <2>8 DEF OpInv
<1>. QED
  BY <1>13, <1>14

\* A reply adds one host to those heard and one to the counter, and may decide.
LEMMA ReturnCounting ==
  ASSUME CountingInv, NEW r \in rets, Return(r)
  PROVE  Messages' /\ \A o \in Op : OpInv(o)'
<1>0. Typed /\ Messages /\ \A o \in Op : OpInv(o)
  BY DEF CountingInv, OpInv
<1>1. r \in Reply /\ r.op \in Op /\ r.voice \in Voice /\ r.status \in {0, 1}
  BY <1>0 DEF Typed, Reply
<1>2. Receive(r)
  BY DEF Return, PutReturn, GetReturn
<1>3. /\ rets' = rets \ {r}
      /\ UNCHANGED <<opid, call, reqs, answer>>
  BY <1>2 DEF Receive
<1>4. ASSUME NEW o \in Op, o # r.op \/ Late(r)
      PROVE  /\ heard'[o] = heard[o] /\ entries'[o] = entries[o]
             /\ finished'[o] = finished[o]
  <2>1. CASE Late(r)
    BY <2>1 DEF Late
  <2>2. ASSUME NEW e, NEW k, Count(r, e, k), o # r.op
        PROVE  /\ heard'[o] = heard[o] /\ entries'[o] = entries[o]
               /\ finished'[o] = finished[o]
    BY <1>0, <1>1, <2>2 DEF Count, Typed
  <2>. QED
    BY <1>4, <2>1, <2>2 DEF Return, PutReturn, GetReturn
<1>5. ASSUME NEW o \in Op, o # r.op \/ Late(r) PROVE OpInv(o)'
  BY <1>0, <1>3, <1>4, <1>5, Undisturbed
<1>6. CASE Late(r)
  <2>1. \A o \in Op : heard'[o] = heard[o]
    BY <1>4, <1>6
  <2>2. RequestsUnanswered' /\ OneReplyEach'
    BY <1>0, <1>3 DEF Messages, RequestsUnanswered, OneReplyEach
  <2>3. RepliesUncounted'
    BY <1>0, <1>3, <2>1
       DEF Messages, RepliesUncounted, Typed, Reply
  <2>. QED
    BY <1>5, <1>6, <2>2, <2>3 DEF Messages
<1>7. CASE ~Late(r)
  <2>1. PICK e : /\ Count(r, e, Quorum(r.op)) /\ e \in Entry
                 /\ e.tot = entries[r.op].tot + 1
                 /\ e.suc = entries[r.op].suc + (1 - r.status)
    <3> DEFINE d == Tally(entries[r.op], r.status)
    <3>1. CASE PutReturn(r)
      <4>1. Count(r, d, Quorum(r.op)) /\ entries[r.op] \in Entry
        BY <1>0, <1>1, <1>7, <3>1 DEF PutReturn, Count, Quorum, Typed
      <4>. QED
        BY <1>1, <4>1, TallyFields
    <3>2. CASE GetReturn(r)
      <4>1. Count(r, Newest(d, r), Quorum(r.op)) /\ entries[r.op] \in Entry
        BY <1>0, <1>1, <1>7, <3>2 DEF GetReturn, Count, Quorum, Typed
      <4>2. /\ d \in Entry /\ d.tot = entries[r.op].tot + 1
            /\ d.suc = entries[r.op].suc + (1 - r.status)
        BY <1>1, <4>1, TallyFields
      <4>3. /\ Newest(d, r) \in Entry /\ Newest(d, r).tot = d.tot
            /\ Newest(d, r).suc = d.suc
        BY <1>1, <4>2, NewestFields
      <4>. QED
        BY <4>1, <4>2, <4>3
    <3>. QED
      BY <3>1, <3>2 DEF Return
  <2>2. OpInv(r.op)'
    BY <1>2, <2>1, CountCounting
  <2>3. heard'[r.op] = heard[r.op] \cup {r.voice}
    BY <1>0, <1>1, <2>1 DEF Count, Typed
  <2>4. RequestsUnanswered' /\ OneReplyEach'
    BY <1>0, <1>3 DEF Messages, RequestsUnanswered, OneReplyEach
  <2>5. ASSUME NEW s \in rets' PROVE s.voice \notin heard'[s.op]
    <3>1. s \in rets /\ s # r /\ s.op \in Op /\ s.voice \notin heard[s.op]
      BY <1>0, <1>3, <2>5 DEF Typed, Reply, Messages, RepliesUncounted
    <3>2. CASE s.op = r.op
      <4>1. s.voice # r.voice
        BY <1>0, <3>1, <3>2 DEF Messages, OneReplyEach
      <4>. QED
        BY <2>3, <3>1, <3>2, <4>1
    <3>3. CASE s.op # r.op
      BY <1>4, <3>1, <3>3
    <3>. QED
      BY <3>2, <3>3
  <2>6. RepliesUncounted'
    BY <1>0, <1>3, <2>5 DEF Messages, RepliesUncounted
  <2>. QED
    BY <1>5, <2>2, <2>4, <2>6 DEF Messages
<1>. QED
  BY <1>6, <1>7

\* Every step preserves the invariant.
LEMMA CountingStep == CountingInv /\ [Next]_vars => CountingInv'
<1> SUFFICES ASSUME CountingInv, [Next]_vars
             PROVE  Messages' /\ \A o \in Op : OpInv(o)'
  BY TypeStep DEF CountingInv, OpInv
<1>0. Typed /\ Messages /\ \A o \in Op : OpInv(o)
  BY DEF CountingInv, OpInv
<1>1. ASSUME UNCHANGED <<call, opid, entries, heard, finished, answer>>,
             reqs' \subseteq reqs, rets' \subseteq rets
      PROVE  Messages' /\ \A o \in Op : OpInv(o)'
  <2>1. Messages'
    BY <1>0, <1>1
       DEF Messages, RequestsUnanswered, RepliesUncounted, OneReplyEach
  <2>. QED
    BY <1>0, <1>1, <2>1, Undisturbed
<1>2. ASSUME NEW t \in Thread, PutEnter(t) \/ GetEnter(t)
      PROVE  Messages' /\ \A o \in Op : OpInv(o)'
  BY <1>1, <1>2 DEF PutEnter, GetEnter, Enter, net
<1>3. ASSUME NEW t \in Thread, PutSend(t) \/ GetSend(t)
      PROVE  Messages' /\ \A o \in Op : OpInv(o)'
  BY <1>3, SendCounting DEF PutSend, GetSend
<1>4. ASSUME NEW d \in Pausable, NEW flag \in BOOLEAN, ActSetEnableFlag(d, flag)
      PROVE  Messages' /\ \A o \in Op : OpInv(o)'
  BY <1>1, <1>4 DEF ActSetEnableFlag, net
<1>5. ASSUME NEW q \in reqs, DropRequest(q)
      PROVE  Messages' /\ \A o \in Op : OpInv(o)'
  BY <1>1, <1>5 DEF DropRequest
<1>6. ASSUME NEW r \in rets, DropReply(r)
      PROVE  Messages' /\ \A o \in Op : OpInv(o)'
  BY <1>1, <1>6 DEF DropReply
<1>7. ASSUME NEW n \in Cutting, NEW k \in Key, Cut(n, k)
      PROVE  Messages' /\ \A o \in Op : OpInv(o)'
  BY <1>1, <1>7 DEF Cut, net
<1>8. CASE UNCHANGED vars
  BY <1>1, <1>8 DEF vars, net
<1>. QED
  BY <1>2, <1>3, <1>4, <1>5, <1>6, <1>7, <1>8, DataCounting, ReturnCounting DEF Next

\* Nothing is registered, in flight or counted at first.
LEMMA CountingInit == Init => CountingInv
<1> SUFFICES ASSUME Init PROVE CountingInv
  OBVIOUS
<1>1. Typed
  BY TypeInit
<1>2. Messages
  BY DEF Init, Messages, RequestsUnanswered, RepliesUncounted, OneReplyEach
<1>3. ASSUME NEW o \in Op
      PROVE  Registered(o) /\ Counted(o) /\ Justified(o)
  <2>1. o[1] \in Node /\ o[2] \in Nat
    BY ThreadAssumption, BoundAssumption DEF Op
  <2>2. /\ opid[o[1]] = 0 /\ call[o] = NoCall /\ entries[o] = NoEntry
        /\ heard[o] = {} /\ finished[o] = << >>
        /\ \A v \in Voice : answer[o][v] = 0
    BY <2>1 DEF Init
  <2>3. Registered(o)
    BY <2>1, <2>2 DEF Registered
  <2>4. Counted(o)
    BY <2>2 DEF Counted
  <2>5. Justified(o)
    BY <2>2 DEF Justified, Succeeded, Failed
  <2>. QED
    BY <2>3, <2>4, <2>5
<1>. QED
  BY <1>1, <1>2, <1>3 DEF CountingInv

\* CountingInv holds of every reachable state of Driver.
THEOREM CountingCorrect == Spec => []CountingInv
  BY CountingInit, CountingStep, PTL DEF Spec

-----------------------------------------------------------------------------
(* What the invariant gives.                                               *)

\* No operation ever hands over a second result.
THEOREM FinishedOnceCorrect == Spec => []FinishedOnce
<1>1. CountingInv => FinishedOnce
  BY DEF CountingInv, Justified, FinishedOnce
<1>. QED
  BY <1>1, CountingCorrect, PTL

\* The entry of an operation in the table has not been decided.
LEMMA CountingTypes == CountingInv => TypeOK
<1> SUFFICES ASSUME CountingInv, NEW o \in Op, entries[o] # NoEntry
             PROVE  entries[o].suc <= entries[o].tot /\ entries[o].tot < N
  BY DEF TypeOK, CountingInv
<1>1. heard[o] \subseteq Voice
  BY DEF CountingInv, Typed
<1>2. /\ HeardServed(o) \subseteq heard[o] /\ IsFiniteSet(heard[o])
      /\ Cardinality(heard[o]) \in Nat /\ Cardinality(HeardServed(o)) \in Nat
  BY <1>1, HostSets DEF HeardServed
<1>3. Cardinality(HeardServed(o)) <= Cardinality(heard[o])
  BY <1>2, FS_Subset
<1>4. /\ entries[o].tot = Cardinality(heard[o])
      /\ entries[o].suc = Cardinality(HeardServed(o))
      /\ ~Decided(entries[o], Quorum(o))
  BY DEF CountingInv, Counted
<1>. QED
  BY <1>2, <1>3, <1>4, QuorumRange DEF Decided

\* Every reachable state of Driver is typed, and no entry in its table has
\* counted as many replies as there are replicas, whatever the constants.
THEOREM TypeCorrect == Spec => []TypeOK
  BY CountingTypes, CountingCorrect, PTL

\* The voices of V are as many as their hosts, and those of which V has both.
LEMMA VoicesOf ==
  ASSUME NEW V, V \subseteq Voice
  PROVE  Cardinality(V) = Cardinality({n \in Node : \E b \in Block : <<n, b>> \in V})
                            + Cardinality({n \in Node : \A b \in Block : <<n, b>> \in V})
<1> DEFINE A(b) == {n \in Node : <<n, b>> \in V}
           P(b) == {<<n, b>> : n \in A(b)}
<1>1. /\ {n \in Node : \E b \in Block : <<n, b>> \in V} = A(1) \cup A(2)
      /\ {n \in Node : \A b \in Block : <<n, b>> \in V} = A(1) \cap A(2)
  BY DEF Block
<1>2. \A b \in Block : IsFiniteSet(A(b)) /\ Cardinality(A(b)) \in Nat
  BY HostSets
<1>3. \A b \in Block : IsFiniteSet(P(b)) /\ Cardinality(P(b)) = Cardinality(A(b))
  <2> SUFFICES ASSUME NEW b \in Block
               PROVE  IsFiniteSet(P(b)) /\ Cardinality(P(b)) = Cardinality(A(b))
    OBVIOUS
  <2> DEFINE f == [n \in A(b) |-> <<n, b>>]
  <2>1. f \in Bijection(A(b), P(b))
    <3>1. f \in [A(b) -> P(b)] /\ \A m, n \in A(b) : f[m] = f[n] => m = n
      OBVIOUS
    <3>2. \A v \in P(b) : \E n \in A(b) : f[n] = v
      OBVIOUS
    <3>. QED
      BY <3>1, <3>2, Fun_IsBij, Zenon
  <2>. QED
    BY <1>2, <2>1, FS_Bijection DEF ExistsBijection
<1>4. V = P(1) \cup P(2) /\ P(1) \cap P(2) = {}
  <2>1. \A v \in V : v = <<v[1], v[2]>> /\ v[1] \in Node /\ (v[2] = 1 \/ v[2] = 2)
    BY DEF Voice, Block
  <2>2. P(1) \subseteq V /\ P(2) \subseteq V
    OBVIOUS
  <2>3. \A v \in V : v \in P(1) \/ v \in P(2)
    BY <2>1
  <2>4. P(1) \cap P(2) = {}
    <3>1. \A m, n : <<m, 1>> # <<n, 2>>
      OBVIOUS
    <3> HIDE DEF A
    <3>. QED
      BY <3>1, Zenon
  <2>. QED
    BY <2>2, <2>3, <2>4
<1>5. 1 \in Block /\ 2 \in Block
  BY DEF Block
<1> HIDE DEF A, P
<1>6. Cardinality(V) = Cardinality(P(1)) + Cardinality(P(2)) - Cardinality(P(1) \cap P(2))
  BY <1>3, <1>4, <1>5, FS_Union
<1>7. Cardinality(P(1) \cap P(2)) = 0
  BY <1>4, FS_EmptySet
<1>8. Cardinality(A(1) \cup A(2)) =
        Cardinality(A(1)) + Cardinality(A(2)) - Cardinality(A(1) \cap A(2))
  BY <1>2, <1>5, FS_Union
<1>9. Cardinality(A(1) \cap A(2)) \in Nat
  BY <1>2, <1>5, FS_Intersection, FS_CardinalityType
<1>10. /\ Cardinality(A(1)) \in Nat /\ Cardinality(A(2)) \in Nat
       /\ Cardinality(P(1)) = Cardinality(A(1)) /\ Cardinality(P(2)) = Cardinality(A(2))
  BY <1>2, <1>3, <1>5
<1>11. Cardinality(V) = Cardinality(A(1) \cup A(2)) + Cardinality(A(1) \cap A(2))
  BY <1>6, <1>7, <1>8, <1>9, <1>10
<1>. QED
  BY <1>1, <1>11, Zenon

\* The quorum behind a result is in the invariant: a success is as many hosts
\* as were heard to serve it, and those of them that were heard twice; no host
\* refuses twice.
LEMMA CountingHonest == CountingInv => HonestResult
<1> SUFFICES ASSUME CountingInv, NEW o \in Op
             PROVE  /\ Succeeded(o) =>
                         Cardinality(ServedBy(o)) + Cardinality(Twice(o)) >= Quorum(o)
                    /\ Failed(o) => Cardinality(RefusedBy(o)) > N - Quorum(o)
  BY DEF HonestResult
<1> DEFINE HostsOf(V) == {n \in Node : \E b \in Block : <<n, b>> \in V}
           Both(V) == {n \in Node : \A b \in Block : <<n, b>> \in V}
<1>1. heard[o] \subseteq Voice
  BY DEF CountingInv, Typed
<1>2. HeardServed(o) \subseteq Voice /\ HeardRefused(o) \subseteq Voice
  BY <1>1 DEF HeardServed, HeardRefused
<1>3. /\ HostsOf(HeardServed(o)) \subseteq ServedBy(o)
      /\ HostsOf(HeardRefused(o)) \subseteq RefusedBy(o)
      /\ Both(HeardServed(o)) = Twice(o)
      /\ ServedBy(o) \subseteq Node /\ RefusedBy(o) \subseteq Node
  BY DEF HeardServed, HeardRefused, ServedBy, RefusedBy, Twice
<1>4. Both(HeardRefused(o)) = {}
  <2> SUFFICES ASSUME NEW n \in Node, <<n, 1>> \in HeardRefused(o), <<n, 2>> \in HeardRefused(o)
               PROVE  FALSE
    BY DEF Block
  <2>1. \A v, w \in Voice : v[1] = w[1] /\ answer[o][v] < 0 /\ answer[o][w] < 0 => v = w
    BY DEF CountingInv, Counted
  <2>2. /\ <<n, 1>> \in Voice /\ <<n, 2>> \in Voice
        /\ answer[o][<<n, 1>>] < 0 /\ answer[o][<<n, 2>>] < 0
    BY <1>2 DEF HeardRefused
  <2>3. <<n, 1>>[1] = <<n, 2>>[1] /\ <<n, 1>> # <<n, 2>>
    OBVIOUS
  <2>. QED
    BY <2>1, <2>2, <2>3
<1>5. /\ Cardinality(HeardServed(o)) = Cardinality(HostsOf(HeardServed(o))) + Cardinality(Twice(o))
      /\ Cardinality(HeardRefused(o)) = Cardinality(HostsOf(HeardRefused(o))) + Cardinality({})
  BY <1>2, <1>3, <1>4, VoicesOf
<1> HIDE DEF HostsOf, Both
<1>6. /\ Cardinality(HostsOf(HeardServed(o))) <= Cardinality(ServedBy(o))
      /\ Cardinality(HostsOf(HeardRefused(o))) <= Cardinality(RefusedBy(o))
  BY <1>3, HostSets, FS_Subset
<1>7. /\ Cardinality(HostsOf(HeardServed(o))) \in Nat
      /\ Cardinality(HostsOf(HeardRefused(o))) \in Nat
      /\ Cardinality(ServedBy(o)) \in Nat /\ Cardinality(RefusedBy(o)) \in Nat
      /\ Cardinality(Twice(o)) \in Nat /\ Cardinality({}) = 0
  <2>1. /\ HostsOf(HeardServed(o)) \subseteq Node /\ HostsOf(HeardRefused(o)) \subseteq Node
        /\ Twice(o) \subseteq Node
    BY <1>3 DEF Twice
  <2>. QED
    BY <1>3, <2>1, HostSets, FS_EmptySet
<1>. QED
  BY <1>5, <1>6, <1>7, QuorumRange DEF CountingInv, Justified

\* A result is what the replicas did: see HonestResult.
THEOREM HonestResultCorrect == Spec => []HonestResult
  BY CountingHonest, CountingCorrect, PTL
=============================================================================
