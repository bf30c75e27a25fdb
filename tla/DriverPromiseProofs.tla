------------------------- MODULE DriverPromiseProofs -------------------------
(***************************************************************************)
(* Driver implements OpPromise; a paused host leaks no more operations     *)
(* than it has worker threads; and, for quorums that are large enough,     *)
(* what a get may count on after a put of its key was acknowledged: proofs *)
(* for every value of the constants.                                       *)
(***************************************************************************)
EXTENDS DriverProofs

\* A voice is a host and a block of it.
LEMMA VoiceParts ==
  /\ \A v \in Voice : v = <<v[1], v[2]>> /\ v[1] \in Node /\ v[2] \in Block
  /\ \A n \in Node, b \in Block :
       <<n, b>> \in Voice /\ <<n, b>>[1] = n /\ <<n, b>>[2] = b
  /\ 1 \in Block /\ 2 \in Block
  /\ \A n \in Node : /\ <<n, 1>> \in Voice /\ <<n, 1>>[1] = n
                      /\ <<n, 2>> \in Voice /\ <<n, 2>>[1] = n
<1>1. 1 \in Block /\ 2 \in Block
  BY DEF Block
<1>. QED
  BY <1>1 DEF Voice

-----------------------------------------------------------------------------
(* The promise: what each operation looks like to its caller.              *)

Needed(o) == IF call[o] = NoCall THEN 0 ELSE Quorum(o)

Phase(o) == IF Succeeded(o) THEN "succeeded"
            ELSE IF Failed(o) THEN "failed"
            ELSE IF entries[o] # NoEntry THEN "open"
            ELSE "unused"

\* An operation that was registered is in the table until it has a result.
Remembered ==
  \A o \in Op : call[o] # NoCall => entries[o] # NoEntry \/ finished[o] # << >>

PromiseInv == CountingInv /\ Remembered

\* A result succeeded or failed: an operation without either has none.
LEMMA ResultStatus ==
  ASSUME Typed, NEW o \in Op, finished[o] # << >>
  PROVE  Succeeded(o) \/ Failed(o)
<1>1. finished[o] \in Seq(Result)
  BY DEF Typed
<1>2. 1 \in DOMAIN finished[o] /\ finished[o][1] \in Result
  BY <1>1
<1>. QED
  BY <1>2 DEF Succeeded, Failed, Result

\* What a step leaves of an operation that it does not touch.
LEMMA SamePhase ==
  ASSUME NEW o \in Op, finished'[o] = finished[o],
         entries'[o] = NoEntry <=> entries[o] = NoEntry
  PROVE  /\ Succeeded(o)' = Succeeded(o) /\ Failed(o)' = Failed(o)
         /\ Phase(o)' = Phase(o)
<1>1. Succeeded(o)' = Succeeded(o) /\ Failed(o)' = Failed(o)
  BY DEF Succeeded, Failed
<1>. QED
  BY <1>1 DEF Phase

\* What the promise sees of operation o, and that a step leaves it alone.
Seen(o) == <<Needed(o), Phase(o), Served(o), RefusedBy(o)>>

\* The answers of an operation that stay as they are.
LEMMA SameAnswers ==
  ASSUME NEW o \in Op, answer'[o] = answer[o]
  PROVE  Served(o)' = Served(o) /\ RefusedBy(o)' = RefusedBy(o)
BY DEF Served, RefusedBy

\* An operation of which nothing changes but who was heard, and counters.
LEMMA SameSeen ==
  ASSUME NEW o \in Op, answer'[o] = answer[o], call'[o] = call[o],
         finished'[o] = finished[o], entries'[o] = NoEntry <=> entries[o] = NoEntry
  PROVE  Seen(o)' = Seen(o)
<1>1. Needed(o)' = Needed(o)
  BY DEF Needed, Quorum, Kind
<1>. QED
  BY <1>1, SamePhase, SameAnswers DEF Seen

\* Steps that leave all operations alone are stuttering steps of the promise.
LEMMA PromiseStutter ==
  ASSUME \A o \in Op : Seen(o)' = Seen(o)
  PROVE  UNCHANGED Promise!vars
<1>1. \A o \in Op : /\ Needed(o)' = Needed(o) /\ Phase(o)' = Phase(o)
                    /\ Served(o)' = Served(o) /\ RefusedBy(o)' = RefusedBy(o)
  BY DEF Seen
<1>. QED
  BY <1>1 DEF Promise!vars, Needed, Phase

\* A step of the promise from what changes for its one operation: it is opened.
LEMMA PromiseOpen ==
  ASSUME NEW o \in Op, \A p \in Op \ {o} : Seen(p)' = Seen(p),
         Phase(o) = "unused", Phase(o)' = "open", Needed(o)' \in {R, W},
         Served(o)' = Served(o), RefusedBy(o)' = RefusedBy(o)
  PROVE  Promise!Open(o)
<1>1. \A p \in Op \ {o} : /\ Needed(p)' = Needed(p) /\ Phase(p)' = Phase(p)
                          /\ Served(p)' = Served(p) /\ RefusedBy(p)' = RefusedBy(p)
  BY DEF Seen
<1>. QED
  BY <1>1 DEF Promise!Open, Needed, Phase

\* Neither the host n nor a block of it has answered the operation.
Silent(o, n) ==
  n \notin RefusedBy(o) /\ \A b \in Block : <<n, b>> \notin Served(o)

\* Blocks of a host that had not answered serve the operation.
LEMMA PromiseServe ==
  ASSUME NEW o \in Op, NEW n \in Node, NEW S \in SUBSET Block, S # {},
         \A p \in Op \ {o} : Seen(p)' = Seen(p),
         Phase(o) # "unused", Silent(o, n),
         Phase(o)' = Phase(o), Needed(o)' = Needed(o),
         Served(o)' = Served(o) \cup ({n} \X S), RefusedBy(o)' = RefusedBy(o)
  PROVE  Promise!Serve(o, n, S)
<1>1. \A p \in Op \ {o} : /\ Needed(p)' = Needed(p) /\ Phase(p)' = Phase(p)
                          /\ Served(p)' = Served(p) /\ RefusedBy(p)' = RefusedBy(p)
  BY DEF Seen
<1>. QED
  BY <1>1 DEF Promise!Serve, Promise!Unanswered, Needed, Phase, Silent

\* A host that had not answered refuses it, some of its blocks apart.
LEMMA PromiseRefuse ==
  ASSUME NEW o \in Op, NEW n \in Node, NEW S \in SUBSET Block, S # Block,
         \A p \in Op \ {o} : Seen(p)' = Seen(p),
         Phase(o) # "unused", Silent(o, n),
         Phase(o)' = Phase(o), Needed(o)' = Needed(o),
         Served(o)' = Served(o) \cup ({n} \X S), RefusedBy(o)' = RefusedBy(o) \cup {n}
  PROVE  Promise!Refuse(o, n, S)
<1>1. \A p \in Op \ {o} : /\ Needed(p)' = Needed(p) /\ Phase(p)' = Phase(p)
                          /\ Served(p)' = Served(p) /\ RefusedBy(p)' = RefusedBy(p)
  BY DEF Seen
<1>. QED
  BY <1>1 DEF Promise!Refuse, Promise!Unanswered, Needed, Phase, Silent

\* OpPromise counts as Driver does.
LEMMA SameCardinality == \A S : Promise!Cardinality(S) = Cardinality(S)
BY DEF Promise!Cardinality, Cardinality

\* A success needs a quorum that served.
LEMMA PromiseSucceed ==
  ASSUME NEW o \in Op, \A p \in Op \ {o} : Seen(p)' = Seen(p),
         Phase(o) = "open", Phase(o)' = "succeeded", Needed(o)' = Needed(o),
         Served(o)' = Served(o), RefusedBy(o)' = RefusedBy(o),
         Cardinality(Served(o)) >= Needed(o)
  PROVE  Promise!Succeed(o)
<1>1. \A p \in Op \ {o} : /\ Needed(p)' = Needed(p) /\ Phase(p)' = Phase(p)
                          /\ Served(p)' = Served(p) /\ RefusedBy(p)' = RefusedBy(p)
  BY DEF Seen
<1>. QED
  BY <1>1, SameCardinality DEF Promise!Succeed, Needed, Phase

\* A failure needs refusals that leave no quorum.
LEMMA PromiseFail ==
  ASSUME NEW o \in Op, \A p \in Op \ {o} : Seen(p)' = Seen(p),
         Phase(o) = "open", Phase(o)' = "failed", Needed(o)' = Needed(o),
         Served(o)' = Served(o), RefusedBy(o)' = RefusedBy(o),
         Cardinality(RefusedBy(o)) > N - Needed(o)
  PROVE  Promise!Fail(o)
<1>1. \A p \in Op \ {o} : /\ Needed(p)' = Needed(p) /\ Phase(p)' = Phase(p)
                          /\ Served(p)' = Served(p) /\ RefusedBy(p)' = RefusedBy(p)
  BY DEF Seen
<1>. QED
  BY <1>1, SameCardinality DEF Promise!Fail, Needed, Phase

-----------------------------------------------------------------------------
(* What the steps of Driver do to the operations.                          *)

\* A call is registered under an id that nothing has happened to.
LEMMA SendEffect ==
  ASSUME CountingInv, NEW t \in Thread, Send(t)
  PROVE  \E new \in Op :
           /\ new = <<Home[t], opid[Home[t]]>> /\ pc[t] \in Call /\ pc[t] # NoCall
           /\ Hosts[pc[t].key] \subseteq Node
           /\ call[new] = NoCall /\ entries[new] = NoEntry
           /\ heard[new] = {} /\ finished[new] = << >>
           /\ \A v \in Voice : answer[new][v] = 0
           /\ call'[new] = pc[t] /\ entries'[new] = NewEntry
           /\ after'[new] = Acked(pc[t].key)
           /\ NewEntry \in Entry /\ NewEntry # NoEntry
           /\ \A o \in Op \ {new} : /\ call'[o] = call[o]
                                   /\ entries'[o] = entries[o]
                                   /\ after'[o] = after[o]
<1> USE NothingAssumption
<1>0. Typed /\ \A o \in Op : Registered(o)
  BY DEF CountingInv
<1>1. PICK new \in Op : new = <<Home[t], opid[Home[t]]>>
  BY <1>0, SendTypes DEF Send
<1>2. /\ pc[t] \in Call /\ pc[t] # NoCall /\ Hosts[pc[t].key] \subseteq Node
      /\ new[1] = Home[t] /\ new[2] = opid[Home[t]] /\ opid[Home[t]] \in Nat
  BY <1>0, <1>1, SendTypes, ThreadAssumption, BoundAssumption DEF Send, Typed
<1>3. /\ call[new] = NoCall /\ entries[new] = NoEntry
      /\ heard[new] = {} /\ finished[new] = << >>
      /\ \A v \in Voice : answer[new][v] = 0
  BY <1>0, <1>2 DEF Registered
<1>4. /\ call' = [call EXCEPT ![new] = pc[t]]
      /\ entries' = [entries EXCEPT ![new] = NewEntry]
      /\ after' = [after EXCEPT ![new] = Acked(pc[t].key)]
  BY <1>1 DEF Send
<1>5. /\ call'[new] = pc[t] /\ entries'[new] = NewEntry
      /\ after'[new] = Acked(pc[t].key)
      /\ \A o \in Op \ {new} : /\ call'[o] = call[o] /\ entries'[o] = entries[o]
                              /\ after'[o] = after[o]
  BY <1>0, <1>4 DEF Typed
<1>6. NewEntry \in Entry
  BY DEF NewEntry, Entry
<1>. QED
  BY <1>1, <1>2, <1>3, <1>5, <1>6

\* An answer is the first of its host, and its blocks serve or refuse.
LEMMA DataEffect ==
  ASSUME CountingInv, NEW q \in reqs, Data(q)
  PROVE  /\ q.op \in Op /\ q.dst \in Node /\ call[q.op] # NoCall
         /\ \A b \in Block : answer[q.op][<<q.dst, b>>] = 0
         /\ UNCHANGED <<enableFlag, pc, call, entries, finished, heard, after>>
         /\ \A o \in Op : o # q.op => answer'[o] = answer[o]
         /\ \A o \in Op, v \in Voice :
              o # q.op \/ v[1] # q.dst => answer'[o][v] = answer[o][v]
         /\ Said1([b \in Block |-> answer'[q.op][<<q.dst, b>>]])
         /\ reqs' = reqs \ {q}
         /\ \A r \in rets' : r \in rets \/ r.timestamp = answer'[r.op][r.voice]
<1>0. Typed /\ RequestsUnanswered
  BY DEF CountingInv, Messages
<1>1. PICK stamp, value : /\ Said1(stamp)
                          /\ value \in [Block -> Value \cup {NoValue}]
                          /\ Answer(q, stamp, value)
  BY <1>0, DataIs
<1>2. /\ q.op \in Op /\ q.dst \in Node
      /\ \A b \in Block : answer'[q.op][<<q.dst, b>>] = stamp[b]
      /\ \A o \in Op, v \in Voice :
           o # q.op \/ v[1] # q.dst => answer'[o][v] = answer[o][v]
      /\ \A o \in Op : o # q.op => answer'[o] = answer[o]
  BY <1>0, <1>1, AnswerIs
<1>3. call[q.op] # NoCall /\ \A b \in Block : answer[q.op][<<q.dst, b>>] = 0
  BY <1>0 DEF RequestsUnanswered
<1>4. stamp = [b \in Block |-> answer'[q.op][<<q.dst, b>>]]
  BY <1>1, <1>2 DEF Said1
<1>5. /\ reqs' = reqs \ {q}
      /\ rets' = rets \cup {Said(q, b, stamp[b], value[b]) :
                             b \in {c \in Block : stamp[c] # 0}}
  BY <1>1 DEF Answer
<1>6. ASSUME NEW r \in rets', r \notin rets PROVE r.timestamp = answer'[r.op][r.voice]
  <2>1. PICK b \in Block : r = Said(q, b, stamp[b], value[b])
    BY <1>5, <1>6
  <2>2. r.op = q.op /\ r.voice = <<q.dst, b>> /\ r.timestamp = stamp[b]
    BY <2>1 DEF Said
  <2>. QED
    BY <1>2, <2>2
<1>7. UNCHANGED <<enableFlag, pc, call, entries, finished, heard, after>>
  BY <1>0, DataIs
<1>. QED
  BY <1>1, <1>2, <1>3, <1>4, <1>5, <1>6, <1>7

\* A reply of an operation that is in the table is counted, and changes no
\* other operation; any other reply changes none.
LEMMA ReturnEffect ==
  ASSUME CountingInv, NEW r \in rets, Return(r)
  PROVE  /\ r \in Reply /\ r.op \in Op /\ r.voice \in Voice
         /\ UNCHANGED <<call, answer, after>>
         /\ \A o \in Op \ {r.op} : /\ entries'[o] = entries[o]
                                  /\ heard'[o] = heard[o]
                                  /\ finished'[o] = finished[o]
         /\ \/ UNCHANGED <<entries, heard, finished>>
            \/ /\ entries[r.op] # NoEntry /\ finished[r.op] = << >>
               /\ heard'[r.op] = heard[r.op] \cup {r.voice}
               /\ \/ entries'[r.op] # NoEntry /\ finished'[r.op] = << >>
                  \/ /\ entries'[r.op] = NoEntry
                     /\ Len(finished'[r.op]) = 1
                     /\ finished'[r.op][1].status = r.status
<1> USE NothingAssumption
<1>0. Typed /\ \A o \in Op : Counted(o)
  BY DEF CountingInv
<1>1. r \in Reply /\ r.op \in Op /\ r.voice \in Voice /\ r.status \in {0, 1}
  BY <1>0 DEF Typed, Reply
<1>2. UNCHANGED <<call, answer, after>>
  BY DEF Return, PutReturn, GetReturn, Receive
<1>3. CASE Late(r)
  BY <1>1, <1>2, <1>3 DEF Late
<1>4. ASSUME NEW e \in Entry, NEW k, Count(r, e, k)
      PROVE  /\ \A o \in Op \ {r.op} : /\ entries'[o] = entries[o]
                                      /\ heard'[o] = heard[o]
                                      /\ finished'[o] = finished[o]
             /\ entries[r.op] # NoEntry /\ finished[r.op] = << >>
             /\ heard'[r.op] = heard[r.op] \cup {r.voice}
             /\ \/ entries'[r.op] # NoEntry /\ finished'[r.op] = << >>
                \/ /\ entries'[r.op] = NoEntry
                   /\ Len(finished'[r.op]) = 1
                   /\ finished'[r.op][1].status = r.status
  <2>1. entries[r.op] # NoEntry /\ finished[r.op] = << >>
    BY <1>0, <1>1, <1>4 DEF Count, Counted
  <2>2. heard' = [heard EXCEPT ![r.op] = @ \cup {r.voice}]
    BY <1>4 DEF Count
  <2>3. CASE entries' = [entries EXCEPT ![r.op] = e] /\ finished' = finished
    BY <1>0, <1>1, <2>1, <2>2, <2>3 DEF Typed
  <2>4. CASE ~(entries' = [entries EXCEPT ![r.op] = e] /\ finished' = finished)
    <3> DEFINE res == [status |-> r.status, timestamp |-> e.timestamp,
                       value |-> e.value]
    <3>1. /\ entries' = [entries EXCEPT ![r.op] = NoEntry]
          /\ finished' = [finished EXCEPT ![r.op] = Append(@, res)]
      BY <1>4, <2>4 DEF Count
    <3>2. finished'[r.op] = <<res>>
      BY <1>0, <1>1, <2>1, <3>1 DEF Typed
    <3>. QED
      BY <1>0, <1>1, <2>1, <2>2, <3>1, <3>2 DEF Typed
  <2>. QED
    BY <2>3, <2>4
<1>5. CASE ~Late(r)
  <2> DEFINE d == Tally(entries[r.op], r.status)
  <2>1. entries[r.op] \in Entry
    BY <1>0, <1>1, <1>5 DEF Return, PutReturn, GetReturn, Count, Typed
  <2>2. d \in Entry /\ Newest(d, r) \in Entry
    BY <1>1, <2>1, TallyFields, NewestFields
  <2>3. Count(r, d, W) \/ Count(r, Newest(d, r), R)
    BY <1>5 DEF Return, PutReturn, GetReturn
  <2>. QED
    BY <1>1, <1>2, <1>4, <2>2, <2>3
<1>. QED
  BY <1>3, <1>5

-----------------------------------------------------------------------------
(* The refinement, step by step.                                           *)

\* A registered operation is opened by the promise.
LEMMA SendPromise ==
  ASSUME PromiseInv, CountingInv', NEW t \in Thread, Send(t)
  PROVE  Remembered' /\ \E o \in Op : Promise!Open(o)
<1>1. PICK new \in Op :
        /\ pc[t] \in Call /\ pc[t] # NoCall
        /\ call[new] = NoCall /\ entries[new] = NoEntry /\ finished[new] = << >>
        /\ call'[new] = pc[t] /\ entries'[new] = NewEntry /\ NewEntry # NoEntry
        /\ \A o \in Op \ {new} : call'[o] = call[o] /\ entries'[o] = entries[o]
  BY SendEffect DEF PromiseInv
<1>2. UNCHANGED <<answer, finished>>
  BY DEF Send
<1>3. Remembered'
  BY <1>1, <1>2 DEF PromiseInv, Remembered
<1>4. \A p \in Op \ {new} : Seen(p)' = Seen(p)
  BY <1>1, <1>2, SameSeen
<1>5. Phase(new) = "unused" /\ Phase(new)' = "open"
  BY <1>1, <1>2 DEF Phase, Succeeded, Failed
<1>6. Needed(new)' \in {R, W}
  BY <1>1 DEF Needed, Quorum
<1>7. Served(new)' = Served(new) /\ RefusedBy(new)' = RefusedBy(new)
  BY <1>2, SameAnswers
<1>. QED
  BY <1>3, <1>4, <1>5, <1>6, <1>7, PromiseOpen

\* A replica that processes a request serves or refuses.
LEMMA DataPromise ==
  ASSUME PromiseInv, NEW q \in reqs, Data(q)
  PROVE  /\ Remembered'
         /\ \E o \in Op, n \in Node, S \in SUBSET Block :
              Promise!Serve(o, n, S) \/ Promise!Refuse(o, n, S)
<1> DEFINE o == q.op
           n == q.dst
           said(b) == answer'[o][<<n, b>>]
           S == {b \in Block : said(b) > 0}
<1>0. Typed
  BY DEF PromiseInv, CountingInv
<1>1. /\ o \in Op /\ n \in Node /\ call[o] # NoCall
      /\ \A b \in Block : answer[o][<<n, b>>] = 0
      /\ UNCHANGED <<call, entries, finished>>
      /\ \A p \in Op : p # o => answer'[p] = answer[p]
      /\ \A v \in Voice : v[1] # n => answer'[o][v] = answer[o][v]
      /\ Said1([b \in Block |-> said(b)])
  BY DataEffect DEF PromiseInv
<1>2. /\ \A b \in Block : said(b) \in Int
      /\ \E b \in Block : said(b) # 0
  BY <1>1 DEF Said1
<1>3. Remembered'
  BY <1>1 DEF PromiseInv, Remembered
<1>4. \A p \in Op \ {o} : Seen(p)' = Seen(p)
  BY <1>1, SameSeen
<1>5. Phase(o)' = Phase(o) /\ Needed(o)' = Needed(o)
  BY <1>1 DEF Phase, Needed, Succeeded, Failed, Quorum, Kind
<1>6. Phase(o) # "unused"
  BY <1>0, <1>1, ResultStatus DEF PromiseInv, Remembered, Phase
<1>7. Silent(o, n)
  <2>1. \A b \in Block : ~(answer[o][<<n, b>>] > 0) /\ ~(answer[o][<<n, b>>] < 0)
    BY <1>1
  <2>. QED
    BY <2>1, Zenon DEF Served, RefusedBy, Silent
<1>8. Served(o)' = Served(o) \cup ({n} \X S)
  <2>1. ASSUME NEW v \in Voice
        PROVE  v \in Served(o)' <=> v \in Served(o) \cup ({n} \X S)
    <3>1. v = <<v[1], v[2]>> /\ v[1] \in Node /\ v[2] \in Block
      BY VoiceParts
    <3>2. CASE v[1] = n
      <4>1. v \notin Served(o)
        BY <1>1, <3>1, <3>2 DEF Served
      <4>2. v \in Served(o)' <=> said(v[2]) > 0
        BY <3>1, <3>2 DEF Served
      <4>3. v \in {n} \X S <=> v[2] \in S
        BY <3>1, <3>2
      <4>. QED
        BY <3>1, <4>1, <4>2, <4>3
    <3>3. CASE v[1] # n
      <4>1. answer'[o][v] = answer[o][v] /\ v \notin {n} \X S
        BY <1>1, <3>1, <3>3
      <4>. QED
        BY <4>1 DEF Served
    <3>. QED
      BY <3>2, <3>3
  <2>2. {n} \X S \subseteq Voice
    BY <1>1 DEF Voice
  <2>3. Served(o)' \subseteq Voice /\ Served(o) \subseteq Voice
    BY DEF Served
  <2>. QED
    BY <2>1, <2>2, <2>3
<1>9. RefusedBy(o)' = RefusedBy(o) \cup {m \in {n} : \E b \in Block : said(b) < 0}
  <2>1. ASSUME NEW m \in Node, m # n
        PROVE  \A b \in Block : answer'[o][<<m, b>>] = answer[o][<<m, b>>]
    BY <1>1, <2>1, VoiceParts
  <2>2. n \notin RefusedBy(o)
    BY <1>7 DEF Silent
  <2>. QED
    BY <1>1, <2>1, <2>2 DEF RefusedBy
<1>10. CASE \A b \in Block : ~(said(b) < 0)
  <2>1. S # {}
    BY <1>2, <1>10
  <2>2. RefusedBy(o)' = RefusedBy(o)
    BY <1>9, <1>10
  <2>3. Promise!Serve(o, n, S)
    <3> HIDE DEF S
    <3>. QED
      BY <1>1, <1>4, <1>5, <1>6, <1>7, <1>8, <2>1, <2>2, PromiseServe DEF S
  <2>. QED
    BY <1>1, <1>3, <2>3
<1>11. CASE \E b \in Block : said(b) < 0
  <2>1. S # Block
    BY <1>2, <1>11
  <2>2. RefusedBy(o)' = RefusedBy(o) \cup {n}
    BY <1>9, <1>11
  <2>3. Promise!Refuse(o, n, S)
    BY <1>1, <1>4, <1>5, <1>6, <1>7, <1>8, <2>1, <2>2, PromiseRefuse
  <2>. QED
    BY <1>1, <1>3, <2>3
<1>. QED
  BY <1>10, <1>11

\* The reply that decides ends its operation as the replicas answered it,
\* which is what CountingInv says of the state it leads to.
LEMMA ReturnPromise ==
  ASSUME PromiseInv, CountingInv', NEW r \in rets, Return(r)
  PROVE  /\ Remembered'
         /\ \/ UNCHANGED Promise!vars
            \/ \E o \in Op : Promise!Succeed(o) \/ Promise!Fail(o)
<1> DEFINE o == r.op
<1>0. Typed /\ Remembered /\ CountingInv
  BY DEF PromiseInv, CountingInv
<1>1. /\ o \in Op /\ UNCHANGED <<call, answer>> /\ r.status \in {0, 1}
      /\ \A p \in Op \ {o} : entries'[p] = entries[p] /\ finished'[p] = finished[p]
  BY <1>0, ReturnEffect DEF Reply
<1>2. \A p \in Op \ {o} : Seen(p)' = Seen(p)
  BY <1>1, SameSeen
<1>3. Served(o)' = Served(o) /\ RefusedBy(o)' = RefusedBy(o) /\ Needed(o)' = Needed(o)
  BY <1>1 DEF Served, RefusedBy, Needed, Quorum, Kind
<1>4. CASE finished'[o] = finished[o]
           /\ (entries'[o] = NoEntry <=> entries[o] = NoEntry)
  <2>1. Seen(o)' = Seen(o)
    BY <1>1, <1>4, SameSeen
  <2>2. Remembered'
    BY <1>0, <1>1, <1>4 DEF Remembered
  <2>. QED
    BY <1>2, <2>1, <2>2, PromiseStutter
<1>5. CASE ~(finished'[o] = finished[o]
             /\ (entries'[o] = NoEntry <=> entries[o] = NoEntry))
  <2>1. /\ entries[o] # NoEntry /\ finished[o] = << >> /\ entries'[o] = NoEntry
        /\ Len(finished'[o]) = 1 /\ finished'[o][1].status = r.status
    BY <1>0, <1>5, ReturnEffect
  <2>2. finished'[o] \in Seq(Result)
    BY <1>1 DEF CountingInv, Typed
  <2>3. DOMAIN finished'[o] = {1} /\ finished'[o] # << >>
    BY <2>1, <2>2
  <2>4. Remembered'
    BY <1>0, <1>1, <2>3 DEF Remembered
  <2>5. Phase(o) = "open"
    BY <2>1 DEF Phase, Succeeded, Failed
  <2>6. call[o] # NoCall
    BY <1>0, <1>1, <2>1 DEF CountingInv, Registered
  <2>7. Needed(o) = Quorum(o) /\ Quorum(o)' = Quorum(o)
    BY <1>1, <2>6 DEF Needed, Quorum, Kind
  <2>8. HonestResult'
    BY CountingHonest, PTL
  <2>9. CASE r.status = 0
    <3>1. Succeeded(o)'
      BY <2>1, <2>3, <2>9 DEF Succeeded
    <3>2. Phase(o)' = "succeeded"
      BY <3>1 DEF Phase
    <3>3. Cardinality(Served(o)) >= Needed(o)
      <4>1. Cardinality(HeardServed(o)') >= Quorum(o)
        BY <1>1, <2>7, <3>1 DEF CountingInv, Justified
      <4>2. HeardServed(o)' \subseteq Served(o)'
        BY <1>1 DEF HeardServed, Served, CountingInv, Typed
      <4>3. /\ Served(o) \subseteq Voice /\ IsFiniteSet(Served(o))
            /\ Cardinality(Served(o)) \in Nat
        BY HostSets DEF Served
      <4>4. /\ Cardinality(HeardServed(o)') <= Cardinality(Served(o))
            /\ Cardinality(HeardServed(o)') \in Nat
        BY <1>3, <4>2, <4>3, FS_Subset, FS_CardinalityType
      <4>. QED
        BY <2>7, <4>1, <4>3, <4>4, QuorumRange
    <3>. QED
      BY <1>1, <1>2, <1>3, <2>4, <2>5, <3>2, <3>3, PromiseSucceed
  <2>10. CASE r.status = 1
    <3>1. Failed(o)' /\ ~Succeeded(o)'
      BY <2>1, <2>3, <2>10 DEF Succeeded, Failed
    <3>2. Phase(o)' = "failed"
      BY <3>1 DEF Phase
    <3>3. Cardinality(RefusedBy(o)) > N - Needed(o)
      BY <1>1, <1>3, <2>7, <2>8, <3>1 DEF HonestResult
    <3>. QED
      BY <1>1, <1>2, <1>3, <2>4, <2>5, <3>2, <3>3, PromiseFail
  <2>. QED
    BY <1>1, <2>9, <2>10
<1>. QED
  BY <1>4, <1>5

\* Every step of Driver is one of the promise, or a stutter.
LEMMA PromiseStep ==
  PromiseInv /\ [Next]_vars => PromiseInv' /\ [Promise!Next]_(Promise!vars)
<1> SUFFICES ASSUME PromiseInv, [Next]_vars
             PROVE  Remembered' /\ [Promise!Next]_(Promise!vars)
  BY CountingStep DEF PromiseInv
<1>0. CountingInv'
  BY CountingStep DEF PromiseInv
<1>1. ASSUME UNCHANGED <<call, entries, finished, answer>>
      PROVE  Remembered' /\ UNCHANGED Promise!vars
  <2>1. Remembered'
    BY <1>1 DEF PromiseInv, Remembered
  <2>. QED
    BY <1>1, <2>1, SameSeen, PromiseStutter
<1>2. ASSUME NEW t \in Thread, PutEnter(t) \/ GetEnter(t)
      PROVE  Remembered' /\ [Promise!Next]_(Promise!vars)
  BY <1>1, <1>2 DEF PutEnter, GetEnter, Enter
<1>3. ASSUME NEW t \in Thread, PutSend(t) \/ GetSend(t)
      PROVE  Remembered' /\ [Promise!Next]_(Promise!vars)
  BY <1>0, <1>3, SendPromise DEF PutSend, GetSend, Promise!Next
<1>4. ASSUME NEW d \in Pausable, NEW flag \in BOOLEAN, ActSetEnableFlag(d, flag)
      PROVE  Remembered' /\ [Promise!Next]_(Promise!vars)
  BY <1>1, <1>4 DEF ActSetEnableFlag
<1>5. ASSUME NEW q \in reqs, Data(q)
      PROVE  Remembered' /\ [Promise!Next]_(Promise!vars)
  BY <1>5, DataPromise DEF Promise!Next
<1>6. ASSUME NEW q \in reqs, DropRequest(q)
      PROVE  Remembered' /\ [Promise!Next]_(Promise!vars)
  BY <1>1, <1>6 DEF DropRequest
<1>7. ASSUME NEW r \in rets, Return(r)
      PROVE  Remembered' /\ [Promise!Next]_(Promise!vars)
  BY <1>0, <1>7, ReturnPromise DEF Promise!Next
<1>8. ASSUME NEW r \in rets, DropReply(r)
      PROVE  Remembered' /\ [Promise!Next]_(Promise!vars)
  BY <1>1, <1>8 DEF DropReply
<1>9. ASSUME NEW n \in Cutting, NEW k \in Key, Cut(n, k)
      PROVE  Remembered' /\ [Promise!Next]_(Promise!vars)
  BY <1>1, <1>9 DEF Cut
<1>10. CASE UNCHANGED vars
  BY <1>1, <1>10 DEF vars
<1>. QED
  BY <1>2, <1>3, <1>4, <1>5, <1>6, <1>7, <1>8, <1>9, <1>10 DEF Next

\* Driver implements OpPromise: every operation is opened once, answered by
\* each host at one time at most, and ends at most once, as its quorum says.
THEOREM PromiseKept == Spec => PromiseSpec
<1>1. Init => PromiseInv /\ Promise!Init
  <2> SUFFICES ASSUME Init PROVE PromiseInv /\ Promise!Init
    OBVIOUS
  <2>1. CountingInv
    BY CountingInit
  <2>2. Remembered
    BY DEF Init, Remembered
  <2>3. \A o \in Op : /\ call[o] = NoCall /\ entries[o] = NoEntry
                       /\ ~Succeeded(o) /\ ~Failed(o)
                       /\ Served(o) = {} /\ RefusedBy(o) = {}
    <3>1. \A o \in Op, v \in Voice : ~(answer[o][v] > 0) /\ ~(answer[o][v] < 0)
      BY DEF Init
    <3>2. \A o \in Op : Served(o) = {} /\ RefusedBy(o) = {}
      BY <3>1, VoiceParts, Zenon DEF Served, RefusedBy
    <3>. QED
      BY <3>2 DEF Init, Succeeded, Failed
  <2>4. Promise!Init
    BY <2>3 DEF Promise!Init
  <2>. QED
    BY <2>1, <2>2, <2>4 DEF PromiseInv
<1>. QED
  BY <1>1, PromiseStep, PTL DEF Spec, PromiseSpec, Promise!Spec

-----------------------------------------------------------------------------
(* What still runs on a host that refuses calls.                           *)

ThreadsOf(c) == {t \in Thread : Home[t] = c}
Passed(c) == {t \in ThreadsOf(c) : pc[t] # NoCall}

\* The operations and passed calls of a host, of which there are finitely many.
LEMMA LeakSets ==
  ASSUME NEW c
  PROVE  /\ IsFiniteSet(Op)
         /\ IsFiniteSet(Live(c)) /\ Cardinality(Live(c)) \in Nat
         /\ IsFiniteSet(Passed(c)) /\ Cardinality(Passed(c)) \in Nat
         /\ IsFiniteSet(ThreadsOf(c)) /\ Cardinality(ThreadsOf(c)) \in Nat
         /\ Cardinality(Passed(c)) <= Cardinality(ThreadsOf(c))
<1>1. IsFiniteSet({Home[t] : t \in Thread})
  <2>1. {Home[t] : t \in Thread} \subseteq Node
    BY ThreadAssumption
  <2>. QED
    BY <2>1, QuorumAssumption, FS_Subset
<1>2. IsFiniteSet(0 .. MaxOp - 1)
  BY BoundAssumption, FS_Interval
<1>3. IsFiniteSet(Op)
  BY <1>1, <1>2, FS_Product DEF Op
<1>4. Live(c) \subseteq Op /\ Passed(c) \subseteq ThreadsOf(c)
      /\ ThreadsOf(c) \subseteq Thread
  BY DEF Live, Passed, ThreadsOf
<1>. QED
  BY <1>3, <1>4, ThreadAssumption, FS_Subset, FS_CardinalityType

\* Neither more operations nor more passed calls, and no flag newly set.
LEMMA LeakShrinks ==
  ASSUME LeakBounded, NEW c \in Node, enableFlag'[c] => enableFlag[c],
         Live(c)' \subseteq Live(c), Passed(c)' \subseteq Passed(c)
  PROVE  enableFlag'[c] =>
           Cardinality(Live(c)') + Cardinality(Passed(c)') <= Cardinality(ThreadsOf(c))
<1>1. /\ Cardinality(Live(c)') <= Cardinality(Live(c)) /\ Cardinality(Live(c)') \in Nat
      /\ Cardinality(Passed(c)') <= Cardinality(Passed(c)) /\ Cardinality(Passed(c)') \in Nat
  BY LeakSets, FS_Subset, FS_CardinalityType
<1>2. enableFlag[c] =>
        Cardinality(Live(c)) + Cardinality(Passed(c)) <= Cardinality(ThreadsOf(c))
  BY DEF LeakBounded, ThreadsOf, Passed
<1>. QED
  BY <1>1, <1>2, LeakSets

\* While the flag is set, an operation begins only for a call that had passed.
LEMMA LeakStep == CountingInv /\ LeakBounded /\ [Next]_vars => LeakBounded'
<1> SUFFICES ASSUME CountingInv, LeakBounded, [Next]_vars, NEW c \in Node
             PROVE  enableFlag'[c] =>
                      Cardinality(Live(c)') + Cardinality(Passed(c)')
                        <= Cardinality(ThreadsOf(c))
  BY DEF LeakBounded, ThreadsOf, Passed
<1> DEFINE Bound == enableFlag'[c] =>
                      Cardinality(Live(c)') + Cardinality(Passed(c)')
                        <= Cardinality(ThreadsOf(c))
<1>0. Typed
  BY DEF CountingInv
<1>1. ASSUME enableFlag' = enableFlag, pc' = pc,
             \A o \in Op : entries[o] = NoEntry => entries'[o] = NoEntry
      PROVE  Bound
  BY <1>1, LeakShrinks DEF Live, Passed
<1>2. ASSUME NEW t \in Thread, NEW x, Enter(t, x) PROVE Bound
  <2>1. CASE Home[t] = c
    BY <1>2, <2>1 DEF Enter
  <2>2. CASE Home[t] # c
    <3>1. Passed(c)' = Passed(c)
      BY <1>0, <1>2, <2>2 DEF Enter, Passed, ThreadsOf, Typed
    <3>2. Live(c)' = Live(c) /\ enableFlag' = enableFlag
      BY <1>2 DEF Enter, Live
    <3>. QED
      BY <3>1, <3>2, LeakShrinks
  <2>. QED
    BY <2>1, <2>2
\* The call moves from the passed ones to the table.
<1>3. ASSUME NEW t \in Thread, Send(t) PROVE Bound
  <2>1. PICK new \in Op :
          /\ new = <<Home[t], opid[Home[t]]>>
          /\ entries[new] = NoEntry /\ entries'[new] # NoEntry /\ pc[t] # NoCall
          /\ \A o \in Op \ {new} : entries'[o] = entries[o]
    BY <1>3, SendEffect
  <2>2. pc' = [pc EXCEPT ![t] = NoCall] /\ enableFlag' = enableFlag
    BY <1>3 DEF Send
  <2>3. CASE Home[t] = c
    <3>1. Live(c)' = Live(c) \cup {new} /\ new \notin Live(c)
      BY <2>1, <2>3 DEF Live
    <3>2. Passed(c)' = Passed(c) \ {t} /\ t \in Passed(c)
      BY <1>0, <2>1, <2>2, <2>3 DEF Passed, ThreadsOf, Typed
    <3>3. Cardinality(Live(c)') = Cardinality(Live(c)) + 1
      BY <3>1, LeakSets, FS_AddElement
    <3>4. Cardinality(Passed(c)') = Cardinality(Passed(c)) - 1
      BY <3>2, LeakSets, FS_RemoveElement
    <3>5. enableFlag[c] =>
            Cardinality(Live(c)) + Cardinality(Passed(c)) <= Cardinality(ThreadsOf(c))
      BY DEF LeakBounded, ThreadsOf, Passed
    <3>. QED
      BY <2>2, <3>3, <3>4, <3>5, LeakSets
  <2>4. CASE Home[t] # c
    <3>1. Live(c)' = Live(c)
      BY <2>1, <2>4 DEF Live
    <3>2. Passed(c)' = Passed(c)
      BY <1>0, <2>2, <2>4 DEF Passed, ThreadsOf, Typed
    <3>. QED
      BY <2>2, <3>1, <3>2, LeakShrinks
  <2>. QED
    BY <2>3, <2>4
\* The flag is set when nothing is left, but for the calls that passed it.
<1>4. ASSUME NEW d \in Pausable, NEW flag \in BOOLEAN, ActSetEnableFlag(d, flag)
      PROVE  Bound
  <2>1. Live(c)' = Live(c) /\ Passed(c)' = Passed(c)
    BY <1>4 DEF ActSetEnableFlag, Live, Passed
  <2>2. CASE c = d
    <3>1. Cardinality(Live(c)') = 0
      BY <1>4, <2>1, <2>2, FS_EmptySet DEF ActSetEnableFlag
    <3>. QED
      BY <2>1, <3>1, LeakSets
  <2>3. CASE c # d
    <3>1. enableFlag'[c] = enableFlag[c]
      BY <1>0, <1>4, <2>3 DEF ActSetEnableFlag, Typed
    <3>. QED
      BY <2>1, <3>1, LeakShrinks
  <2>. QED
    BY <2>2, <2>3
<1>5. ASSUME NEW q \in reqs, Data(q) \/ DropRequest(q) PROVE Bound
  BY <1>1, <1>5, DataEffect DEF DropRequest
<1>6. ASSUME NEW r \in rets, Return(r) PROVE Bound
  <2>1. enableFlag' = enableFlag /\ pc' = pc
    BY <1>6 DEF Return, PutReturn, GetReturn, Receive
  <2>2. \A o \in Op : entries[o] = NoEntry => entries'[o] = NoEntry
    BY <1>6, ReturnEffect
  <2>. QED
    BY <1>1, <2>1, <2>2
<1>7. ASSUME NEW r \in rets, DropReply(r) PROVE Bound
  BY <1>1, <1>7 DEF DropReply
<1>8. ASSUME NEW n \in Cutting, NEW k \in Key, Cut(n, k) PROVE Bound
  BY <1>1, <1>8 DEF Cut
<1>9. CASE UNCHANGED vars
  BY <1>1, <1>9 DEF vars
<1>. QED
  BY <1>2, <1>3, <1>4, <1>5, <1>6, <1>7, <1>8, <1>9
     DEF Next, PutEnter, GetEnter, PutSend, GetSend

\* On a host that refuses calls no more operations run, or are still to be
\* registered by calls that passed the flag, than it has worker threads.
THEOREM LeakIsBounded == Spec => []LeakBounded
<1>1. Init => LeakBounded
  BY DEF Init, LeakBounded
<1>. QED
  BY <1>1, CountingInit, CountingStep, LeakStep, PTL DEF Spec

-----------------------------------------------------------------------------
(* Reading what was acknowledged: the records of the replicas, and what    *)
(* answers and entries know of them.                                       *)

\* No record is from the future of its host, where the clock is not set back.
StoredInPast ==
  \A n \in Node \ SetBack, k \in Key, b \in Block :
    store[n][k][b] # NoRecord => store[n][k][b].timestamp <= clock[n]

\* The blocks of n were not cut at the key of o.
UncutAt(n, o) == store[n][call[o].key][2] = NoRecord

\* The second block of a key answers after a cut only.
SecondAfterCut ==
  \A o \in Op : call[o] # NoCall =>
    \A n \in Node : UncutAt(n, o) => answer[o][<<n, 2>>] = 0

\* A host that served a put has a record of the key; no older than that put,
\* where the blocks were not cut and the clock is not set back.
PutsKept ==
  \A p \in Op : Kind(p) = "put" =>
    \A v \in Served(p) :
      /\ Holding(v[1], call[p].key) # {}
      /\ v[1] \notin SetBack /\ UncutAt(v[1], p) =>
           answer[p][v] <= store[v[1]][call[p].key][1].timestamp

\* Only the hosts of a key are asked for it, and answer.
AskedAtHosts ==
  /\ \A q \in reqs : q.dst \in Hosts[call[q.op].key]
  /\ \A o \in Op : call[o] # NoCall =>
       \A v \in Voice : answer[o][v] # 0 => v[1] \in Hosts[call[o].key]

\* The puts that a get began after are puts of its key, and they have ended.
AfterAcked ==
  \A o \in Op : Kind(o) = "get" =>
    \A p \in after[o] :
      Kind(p) = "put" /\ call[p].key = call[o].key /\ Succeeded(p)

\* What such a get is answered by a host that had served such a put: no
\* refusal, unless a file fails, and no record that is older, where the
\* blocks were not cut and the clock is not set back.
ServedAgain ==
  \A o \in Op : Kind(o) = "get" =>
    \A p \in after[o], v \in Voice, w \in Voice :
      v \in HeardServed(p) /\ w[1] = v[1] =>
        /\ answer[o][w] < 0 => w[1] \in Failing
        /\ answer[o][w] > 0 /\ w[1] \notin SetBack /\ UncutAt(w[1], o) =>
             answer[o][w] >= answer[p][v]

\* The reply of a get carries the time of its record.
RepliesTimed ==
  \A r \in rets : Kind(r.op) = "get" /\ r.status = 0 =>
    r.timestamp = answer[r.op][r.voice]

\* The newest of the records that were heard is in the entry, or in the result.
NewestHeard ==
  \A o \in Op : Kind(o) = "get" =>
    \A v \in HeardServed(o) :
      /\ entries[o] # NoEntry => answer[o][v] <= entries[o].timestamp
      /\ \A i \in DOMAIN finished[o] : answer[o][v] <= finished[o][i].timestamp

Reads ==
  /\ StoredInPast /\ SecondAfterCut /\ PutsKept /\ AskedAtHosts /\ AfterAcked
  /\ ServedAgain /\ RepliesTimed /\ NewestHeard

ReadInv == CountingInv /\ Reads

-----------------------------------------------------------------------------
(* Every step preserves it.                                                *)

\* Replies that were counted are not answered again.
LEMMA HeardFixed ==
  ASSUME NEW o \in Op, heard'[o] = heard[o],
         \A n \in heard[o] : answer'[o][n] = answer[o][n]
  PROVE  HeardServed(o)' = HeardServed(o)
BY DEF HeardServed

\* A step that only loses messages, or none.
LEMMA QuietReads ==
  ASSUME Reads, UNCHANGED <<call, entries, heard, finished, answer, after>>,
         UNCHANGED <<store, clock>>, reqs' \subseteq reqs, rets' \subseteq rets
  PROVE  Reads'
<1> USE DEF Reads
<1>1. \A o : /\ Kind(o)' = Kind(o) /\ Succeeded(o)' = Succeeded(o)
            /\ HeardServed(o)' = HeardServed(o)
  BY DEF Kind, Succeeded, HeardServed
<1>2. StoredInPast' /\ SecondAfterCut' /\ AskedAtHosts'
  BY DEF StoredInPast, SecondAfterCut, UncutAt, AskedAtHosts
<1>3. PutsKept'
  BY <1>1 DEF PutsKept, Served, Holding, UncutAt
<1>4. AfterAcked' /\ RepliesTimed'
  <2>1. AfterAcked'
    BY <1>1 DEF AfterAcked
  <2>2. RepliesTimed'
    BY DEF RepliesTimed, Kind
  <2>. QED
    BY <2>1, <2>2
<1>5. ServedAgain'
  BY <1>1 DEF ServedAgain, UncutAt
<1>6. NewestHeard'
  BY <1>1 DEF NewestHeard
<1>. QED
  BY <1>2, <1>3, <1>4, <1>5, <1>6

\* A get begins: the puts it began after are those that had been acknowledged.
LEMMA SendReads ==
  ASSUME ReadInv, NEW t \in Thread, Send(t)
  PROVE  Reads'
<1>0. Typed /\ Messages /\ Reads
  BY DEF ReadInv, CountingInv
<1>1. PICK new \in Op :
        /\ new = <<Home[t], opid[Home[t]]>> /\ pc[t] # NoCall /\ call[new] = NoCall
        /\ heard[new] = {} /\ finished[new] = << >>
        /\ \A v \in Voice : answer[new][v] = 0
        /\ call'[new] = pc[t] /\ after'[new] = Acked(pc[t].key)
        /\ \A o \in Op \ {new} : /\ call'[o] = call[o] /\ entries'[o] = entries[o]
                                /\ after'[o] = after[o]
  BY SendEffect DEF ReadInv
<1>2. /\ UNCHANGED <<rets, store, clock, answer, heard, finished>>
      /\ reqs' = reqs \cup {[op |-> new, dst |-> n] : n \in Hosts[pc[t].key]}
  BY <1>1 DEF Send, disk
<1>3. \A o \in Op : HeardServed(o)' = HeardServed(o) /\ Succeeded(o)' = Succeeded(o)
  BY <1>2 DEF HeardServed, Succeeded
<1>4. /\ \A o \in Op \ {new} : Kind(o)' = Kind(o)
      /\ Kind(new) = "none" /\ HeardServed(new) = {}
  BY <1>1 DEF Kind, HeardServed
<1>5. StoredInPast' /\ SecondAfterCut'
  <2>1. StoredInPast'
    BY <1>0, <1>2 DEF Reads, StoredInPast
  <2>2. ASSUME NEW o \in Op, call'[o] # NoCall, NEW n \in Node, UncutAt(n, o)'
        PROVE  answer'[o][<<n, 2>>] = 0
    <3>1. <<n, 2>> \in Voice
      BY VoiceParts
    <3>2. CASE o = new
      BY <1>1, <1>2, <3>1, <3>2
    <3>3. CASE o # new
      BY <1>0, <1>1, <1>2, <2>2, <3>3 DEF Reads, SecondAfterCut, UncutAt
    <3>. QED
      BY <3>2, <3>3
  <2>. QED
    BY <2>1, <2>2 DEF SecondAfterCut
<1>6. PutsKept'
  <2> SUFFICES ASSUME NEW p \in Op, Kind(p)' = "put", NEW v \in Served(p)'
               PROVE  /\ Holding(v[1], call[p].key)' # {}
                      /\ v[1] \notin SetBack /\ UncutAt(v[1], p)' =>
                           answer'[p][v] <= store'[v[1]][call'[p].key][1].timestamp
    BY DEF PutsKept
  <2>1. p # new
    BY <1>1, <1>2 DEF Served
  <2>2. Kind(p) = "put" /\ v \in Served(p) /\ call'[p] = call[p]
    BY <1>1, <1>2, <1>4, <2>1 DEF Served
  <2>. QED
    BY <1>0, <1>2, <2>2 DEF Reads, PutsKept, Holding, UncutAt
<1>7. AskedAtHosts'
  <2>1. ASSUME NEW q \in reqs' PROVE q.dst \in Hosts[call'[q.op].key]
    <3>1. CASE q \in reqs
      BY <1>0, <1>1, <3>1
         DEF Reads, AskedAtHosts, Messages, RequestsUnanswered, Typed, Request
    <3>2. CASE q \notin reqs
      BY <1>1, <1>2, <2>1, <3>2
    <3>. QED
      BY <3>1, <3>2
  <2>2. \A o \in Op : call'[o] # NoCall =>
          \A v \in Voice : answer'[o][v] # 0 => v[1] \in Hosts[call'[o].key]
    BY <1>0, <1>1, <1>2 DEF Reads, AskedAtHosts
  <2>. QED
    BY <2>1, <2>2 DEF AskedAtHosts
\* The new operation began after what was acknowledged when it was registered.
<1>8. AfterAcked'
  <2> SUFFICES ASSUME NEW o \in Op, Kind(o)' = "get", NEW p \in after'[o]
               PROVE  /\ Kind(p)' = "put" /\ call'[p].key = call'[o].key
                      /\ Succeeded(p)'
    BY DEF AfterAcked
  <2>1. CASE o = new
    <3>1. p \in Op \ {new} /\ Kind(p) = "put" /\ call[p].key = pc[t].key
          /\ Succeeded(p)
      BY <1>1, <1>4, <2>1 DEF Acked
    <3>. QED
      BY <1>1, <1>3, <1>4, <2>1, <3>1
  <2>2. CASE o # new
    <3>1. p \in after[o] /\ Kind(o) = "get"
      BY <1>1, <1>4, <2>2
    <3>2. /\ p \in Op /\ Kind(p) = "put" /\ call[p].key = call[o].key
          /\ Succeeded(p)
      BY <1>0, <3>1 DEF Reads, AfterAcked, Typed
    <3>. QED
      BY <1>1, <1>3, <1>4, <2>2, <3>2
  <2>. QED
    BY <2>1, <2>2
<1>9. ServedAgain'
  <2> SUFFICES ASSUME NEW o \in Op, Kind(o)' = "get", NEW p \in after'[o],
                      NEW v \in Voice, NEW w \in Voice, v \in HeardServed(p)', w[1] = v[1]
               PROVE  /\ answer'[o][w] < 0 => w[1] \in Failing
                      /\ answer'[o][w] > 0 /\ w[1] \notin SetBack /\ UncutAt(w[1], o)' =>
                           answer'[o][w] >= answer'[p][v]
    BY DEF ServedAgain
  <2>1. p \in Op
    BY <1>1, <1>0 DEF Acked, Typed
  <2>2. v \in HeardServed(p)
    BY <1>3, <2>1
  <2>3. CASE o = new
    BY <1>1, <1>2, <2>3
  <2>4. CASE o # new
    BY <1>0, <1>1, <1>2, <1>4, <2>2, <2>4 DEF Reads, ServedAgain, UncutAt
  <2>. QED
    BY <2>3, <2>4
<1>10. RepliesTimed'
  <2>1. \A r \in rets : r.op \in Op \ {new}
    BY <1>0, <1>1 DEF Typed, Reply, Messages, RepliesUncounted
  <2>. QED
    BY <1>0, <1>2, <1>4, <2>1 DEF Reads, RepliesTimed
<1>11. NewestHeard'
  BY <1>0, <1>1, <1>2, <1>3, <1>4 DEF Reads, NewestHeard
<1>. QED
  BY <1>5, <1>6, <1>7, <1>8, <1>9, <1>10, <1>11 DEF Reads

\* What holds of a step at a data thread, whatever it answers.
LEMMA AnswerReads ==
  ASSUME ReadInv, NEW q \in reqs, Data(q)
  PROVE  /\ q.op \in Op /\ q.dst \in Node
         /\ \A b \in Block : answer'[q.op][<<q.dst, b>>] \in Int
         /\ UNCHANGED <<call, entries, finished, heard, after>>
         /\ \A o \in Op, v \in Voice :
              o # q.op \/ v[1] # q.dst => answer'[o][v] = answer[o][v]
         /\ \A o \in Op : HeardServed(o)' = HeardServed(o)
         /\ \A v \in heard[q.op] : v[1] # q.dst
         /\ AskedAtHosts' /\ AfterAcked' /\ RepliesTimed' /\ NewestHeard'
<1>0. Typed /\ Messages /\ Reads /\ \A o \in Op : Counted(o)
  BY DEF ReadInv, CountingInv
<1>1. /\ q.op \in Op /\ q.dst \in Node /\ call[q.op] # NoCall
      /\ \A b \in Block : answer[q.op][<<q.dst, b>>] = 0
      /\ UNCHANGED <<call, entries, finished, heard, after>>
      /\ \A o \in Op, v \in Voice :
           o # q.op \/ v[1] # q.dst => answer'[o][v] = answer[o][v]
      /\ Said1([b \in Block |-> answer'[q.op][<<q.dst, b>>]])
      /\ reqs' = reqs \ {q}
      /\ \A r \in rets' : r \in rets \/ r.timestamp = answer'[r.op][r.voice]
  BY DataEffect DEF ReadInv
<1>2. \A b \in Block : answer'[q.op][<<q.dst, b>>] \in Int
  BY <1>1 DEF Said1
<1>3. q.dst \in Hosts[call[q.op].key]
  BY <1>0 DEF Reads, AskedAtHosts
<1>4. \A o \in Op : heard[o] \subseteq Voice
  BY <1>0 DEF Typed
<1>5. \A v \in Voice : v[1] = q.dst => answer[q.op][v] = 0
  BY <1>1, VoiceParts
<1>6. \A v \in heard[q.op] : v[1] # q.dst
  <2>1. \A v \in heard[q.op] : answer[q.op][v] # 0
    BY <1>0, <1>1 DEF Counted
  <2>. QED
    BY <1>1, <1>4, <1>5, <2>1
<1>7. \A o \in Op : \A v \in heard[o] : answer'[o][v] = answer[o][v]
  BY <1>1, <1>4, <1>6
<1>8. \A o \in Op : HeardServed(o)' = HeardServed(o)
  BY <1>1, <1>7, HeardFixed
<1>9. AskedAtHosts'
  <2>1. ASSUME NEW o \in Op, call[o] # NoCall, NEW v \in Voice, answer'[o][v] # 0
        PROVE  v[1] \in Hosts[call[o].key]
    BY <1>0, <1>1, <1>3, <2>1 DEF Reads, AskedAtHosts
  <2>. QED
    BY <1>0, <1>1, <2>1 DEF Reads, AskedAtHosts
<1>10. AfterAcked'
  <2>1. \A o : Kind(o)' = Kind(o) /\ Succeeded(o)' = Succeeded(o)
    BY <1>1 DEF Kind, Succeeded
  <2>. QED
    BY <1>0, <1>1, <2>1 DEF Reads, AfterAcked
<1>11. RepliesTimed'
  <2> SUFFICES ASSUME NEW r \in rets, Kind(r.op) = "get", r.status = 0
               PROVE  r.timestamp = answer'[r.op][r.voice]
    BY <1>1 DEF RepliesTimed, Kind
  <2>1. /\ r \in Reply /\ r.op \in Op /\ r.voice \in Voice
        /\ r.timestamp = answer[r.op][r.voice] /\ answer[r.op][r.voice] > 0
    BY <1>0 DEF Typed, Reply, Reads, RepliesTimed, Messages, RepliesUncounted
  <2>2. r.op # q.op \/ r.voice[1] # q.dst
    BY <1>5, <2>1
  <2>. QED
    BY <1>1, <2>1, <2>2
<1>12. NewestHeard'
  <2>1. \A o \in Op : Kind(o)' = Kind(o)
    BY <1>1 DEF Kind
  <2>2. \A o \in Op : HeardServed(o) \subseteq heard[o]
    BY DEF HeardServed
  <2>. QED
    BY <1>0, <1>1, <1>7, <1>8, <2>1, <2>2 DEF Reads, NewestHeard
<1>. QED
  BY <1>1, <1>2, <1>6, <1>8, <1>9, <1>10, <1>11, <1>12

\* Where the blocks of q's host are not cut at its key: the first block is the
\* only one that the key may be in.
LEMMA OneBlock ==
  ASSUME Typed, NEW n \in Node, NEW k \in Key, store[n][k][2] = NoRecord
  PROVE  Covering(n, k) = {1} /\ Holding(n, k) \subseteq {1}
BY DEF Covering, Holding, Block

\* A replica that serves a put replaces a record by one that is not older.
LEMMA PutReads ==
  ASSUME ReadInv, NEW q \in reqs, DataPut(q)
  PROVE  Reads'
<1>0. Typed /\ Reads
  BY DEF ReadInv, CountingInv
<1> DEFINE k == call[q.op].key
           h == q.dst
           rec == [value |-> call[q.op].value, timestamp |-> clock'[h]]
<1>1. /\ q.op \in Op /\ h \in Node
      /\ UNCHANGED <<call, entries, finished, heard, after>>
      /\ \A o \in Op, v \in Voice : o # q.op \/ v[1] # h => answer'[o][v] = answer[o][v]
      /\ \A o \in Op : HeardServed(o)' = HeardServed(o)
      /\ \A v \in heard[q.op] : v[1] # h
      /\ AskedAtHosts' /\ AfterAcked' /\ RepliesTimed' /\ NewestHeard'
  BY AnswerReads DEF Data
<1>2. Kind(q.op) = "put" /\ \A o : Kind(o)' = Kind(o)
  BY <1>1 DEF DataPut, Kind
<1>3. call[q.op] # NoCall /\ k \in Key /\ call[q.op].value \in Value
  BY <1>0, <1>1, <1>2, CallKey
<1>4. PICK t \in Now(h), S \in SUBSET Block, F \in SUBSET Block : PutEffect(q, t, S, F)
  BY PutIs
<1>5. t \in Nat \ {0} /\ (h \notin SetBack => clock[h] <= t)
  BY <1>0, <1>1, NowIs
<1>6. /\ S # {} /\ S \cap F = {}
      /\ S \cup F \subseteq Covering(h, k)
      /\ clock' = [clock EXCEPT ![h] = t]
      /\ store' = [store EXCEPT ![h][k] =
           [b \in Block |-> IF b \in S THEN [value |-> call[q.op].value, timestamp |-> t]
                            ELSE @[b]]]
      /\ Answer(q, [b \in Block |-> Stamp(b, S, F, t)], [b \in Block |-> NoValue])
  BY <1>4, Zenon DEF PutEffect
<1>7. clock'[h] = t /\ \A n \in Node : n # h => clock'[n] = clock[n]
  <2>1. clock \in [Node -> Nat \ {0}]
    BY <1>0 DEF Typed
  <2>. QED
    BY <1>1, <1>6, <2>1
<1>8. /\ \A n \in Node, j \in Key : n # h \/ j # k => store'[n][j] = store[n][j]
      /\ \A b \in Block : store'[h][k][b] = IF b \in S THEN rec ELSE store[h][k][b]
  <2>1. store \in [Node -> [Key -> [Block -> Record \cup {NoRecord}]]]
    BY <1>0 DEF Typed
  <2>. QED
    BY <1>1, <1>3, <1>6, <1>7, <2>1
<1>9. rec \in Record /\ rec # NoRecord /\ rec.timestamp = t
  <2>1. [value |-> call[q.op].value, timestamp |-> t] \in Record
    BY <1>3, <1>5 DEF Record
  <2>. QED
    BY <1>7, <2>1, NothingAssumption
<1> HIDE DEF rec
\* What the blocks of h say of the put.
<1>10. \A b \in Block : /\ answer'[q.op][<<h, b>>] = Stamp(b, S, F, t)
                        /\ answer'[q.op][<<h, b>>] > 0 <=> b \in S
                        /\ b \in S => answer'[q.op][<<h, b>>] = t
                        /\ b \notin S \cup F => answer'[q.op][<<h, b>>] = 0
  <2>1. answer \in [Op -> [Voice -> Int]]
    BY <1>0 DEF Typed
  <2>2. \A b \in Block : answer'[q.op][<<h, b>>] = Stamp(b, S, F, t)
    BY <1>1, <1>6, <2>1, VoiceParts DEF Answer
  <2>3. \A b \in Block : b \notin S \cup F => Stamp(b, S, F, t) = 0
    BY DEF Stamp
  <2>. QED
    BY <1>5, <1>6, <2>2, <2>3, StampIs
\* A cut is not undone.
<1>11. \A n \in Node, j \in Key : store'[n][j][2] = NoRecord => store[n][j][2] = NoRecord
  <2>1. 2 \in Block
    BY DEF Block
  <2>2. store'[h][k][2] = NoRecord => store[h][k][2] = NoRecord
    <3>1. store'[h][k][2] = IF 2 \in S THEN rec ELSE store[h][k][2]
      BY <1>8, <2>1
    <3>. QED
      BY <1>9, <3>1
  <2> SUFFICES ASSUME NEW n \in Node, NEW j \in Key, store'[n][j][2] = NoRecord
               PROVE  store[n][j][2] = NoRecord
    OBVIOUS
  <2>3. CASE n = h /\ j = k
    BY <2>2, <2>3
  <2>4. CASE ~(n = h /\ j = k)
    <3>1. store'[n][j] = store[n][j]
      BY <1>8, <2>4
    <3>. QED
      BY <3>1
  <2>. QED
    BY <2>3, <2>4
<1>12. store[h][k][2] = NoRecord => S = {1} /\ 2 \notin S \cup F
  <2> SUFFICES ASSUME store[h][k][2] = NoRecord
               PROVE  S = {1} /\ 2 \notin S \cup F
    OBVIOUS
  <2>1. Covering(h, k) = {1}
    BY <1>0, <1>1, <1>3, OneBlock
  <2>2. S # {} /\ S \cup F \subseteq {1}
    BY <1>6, <2>1
  <2>. QED
    BY <2>2
<1>13. StoredInPast'
  <2> SUFFICES ASSUME NEW n \in Node \ SetBack, NEW j \in Key, NEW b \in Block,
                      store'[n][j][b] # NoRecord
               PROVE  store'[n][j][b].timestamp <= clock'[n]
    BY DEF StoredInPast
  <2>1. CASE n = h /\ j = k /\ b \in S
    BY <1>5, <1>7, <1>8, <1>9, <2>1
  <2>2. CASE ~(n = h /\ j = k /\ b \in S)
    <3>1. store'[n][j][b] = store[n][j][b]
      BY <1>8, <2>2
    <3>2. store[n][j][b].timestamp <= clock[n] /\ store[n][j][b].timestamp \in Nat
      BY <1>0, <3>1, StoredRecord DEF Reads, StoredInPast
    <3>3. clock[n] <= clock'[n] /\ clock[n] \in Nat /\ clock'[n] \in Nat
      <4>1. clock[n] \in Nat \ {0}
        BY <1>0 DEF Typed
      <4>2. CASE n = h
        BY <1>5, <1>7, <4>1, <4>2
      <4>3. CASE n # h
        BY <1>7, <4>1, <4>3
      <4>. QED
        BY <4>2, <4>3
    <3>. QED
      BY <3>1, <3>2, <3>3
  <2>. QED
    BY <2>1, <2>2
<1>14. SecondAfterCut'
  <2> SUFFICES ASSUME NEW o \in Op, call[o] # NoCall, NEW n \in Node,
                      store'[n][call[o].key][2] = NoRecord
               PROVE  answer'[o][<<n, 2>>] = 0
    BY <1>1 DEF SecondAfterCut, UncutAt
  <2>0. 2 \in Block /\ <<n, 2>> \in Voice /\ <<n, 2>>[1] = n
    BY VoiceParts
  <2>1. call[o].key \in Key
    <3>1. call[o] \in Call
      BY <1>0 DEF Typed
    <3>. QED
      BY <3>1 DEF Call
  <2>2. store[n][call[o].key][2] = NoRecord
    BY <1>11, <2>1
  <2>3. CASE o = q.op /\ n = h
    <3>1. 2 \notin S \cup F
      BY <1>12, <2>2, <2>3
    <3>2. answer'[q.op][<<h, 2>>] = 0
      BY <1>10, <2>0, <3>1, Zenon
    <3>. QED
      BY <2>3, <3>2
  <2>4. CASE ~(o = q.op /\ n = h)
    BY <1>0, <1>1, <2>0, <2>2, <2>4 DEF Reads, SecondAfterCut, UncutAt
  <2>. QED
    BY <2>3, <2>4
<1>15. PutsKept'
  <2> SUFFICES ASSUME NEW p \in Op, Kind(p) = "put", NEW v \in Voice, answer'[p][v] > 0
               PROVE  /\ Holding(v[1], call[p].key)' # {}
                      /\ v[1] \notin SetBack /\ store'[v[1]][call[p].key][2] = NoRecord =>
                           answer'[p][v] <= store'[v[1]][call[p].key][1].timestamp
    BY <1>1, <1>2 DEF PutsKept, UncutAt, Served
  <2>0. v = <<v[1], v[2]>> /\ v[1] \in Node /\ v[2] \in Block /\ 1 \in Block
    BY VoiceParts
  <2>1. call[p].key \in Key
    BY <1>0, CallKey
  <2>2. CASE p = q.op /\ v[1] = h
    <3>0. v = <<h, v[2]>> /\ answer'[q.op][<<h, v[2]>>] > 0
      BY <2>0, <2>2
    <3>1. v[2] \in S
      BY <1>10, <2>0, <3>0, Zenon
    <3>2. store'[h][k][v[2]] # NoRecord
      BY <1>8, <1>9, <2>0, <3>1
    <3>3. Holding(h, k)' # {}
      BY <1>1, <2>0, <3>2 DEF Holding
    <3>4. ASSUME store'[h][k][2] = NoRecord
          PROVE  answer'[p][v] <= store'[h][k][1].timestamp
      <4>1. S = {1} /\ v[2] = 1
        BY <1>1, <1>3, <1>11, <1>12, <3>1, <3>4
      <4>2. answer'[p][v] = t /\ store'[h][k][1].timestamp = t
        <5>1. answer'[q.op][<<h, v[2]>>] = t
          BY <1>10, <2>0, <3>1, Zenon
        <5>2. answer'[p][v] = t
          BY <2>2, <3>0, <5>1
        <5>. QED
          BY <1>8, <1>9, <2>0, <4>1, <5>2
      <4>. QED
        BY <1>5, <4>2
    <3>. QED
      BY <1>1, <2>2, <3>3, <3>4
  <2>3. CASE ~(p = q.op /\ v[1] = h)
    <3>1. answer'[p][v] = answer[p][v] /\ answer[p][v] \in Int /\ v \in Served(p)
      BY <1>0, <1>1, <2>3 DEF Typed, Served
    <3>2. /\ Holding(v[1], call[p].key) # {}
          /\ v[1] \notin SetBack /\ store[v[1]][call[p].key][2] = NoRecord =>
               answer[p][v] <= store[v[1]][call[p].key][1].timestamp
      BY <1>0, <3>1 DEF Reads, PutsKept, UncutAt
    <3>3. Holding(v[1], call[p].key)' # {}
      <4>1. PICK b \in Block : store[v[1]][call[p].key][b] # NoRecord
        BY <3>2 DEF Holding
      <4>2. store'[v[1]][call[p].key][b] # NoRecord
        BY <1>8, <1>9, <2>0, <2>1, <4>1
      <4>. QED
        BY <1>1, <4>2 DEF Holding
    <3>4. ASSUME v[1] \notin SetBack, store'[v[1]][call[p].key][2] = NoRecord
          PROVE  answer[p][v] <= store'[v[1]][call[p].key][1].timestamp
      <4>1. store[v[1]][call[p].key][2] = NoRecord
        BY <1>11, <2>0, <2>1, <3>4
      <4>2. answer[p][v] <= store[v[1]][call[p].key][1].timestamp
        BY <3>2, <3>4, <4>1
      <4>3. CASE v[1] = h /\ call[p].key = k
        <5>1. store[h][k][1] # NoRecord
          <6>1. PICK b \in Block : store[h][k][b] # NoRecord
            BY <3>2, <4>3 DEF Holding
          <6>. QED
            BY <4>1, <4>3, <6>1 DEF Block
        <5>2. store[h][k][1].timestamp \in Nat /\ store[h][k][1].timestamp <= clock[h]
          BY <1>0, <1>1, <1>3, <2>0, <3>4, <4>3, <5>1, StoredRecord DEF Reads, StoredInPast
        <5>3. store'[h][k][1].timestamp = t
          <6>1. 1 \in S /\ 1 \in Block
            BY <1>12, <4>1, <4>3 DEF Block
          <6>2. store'[h][k][1] = rec
            BY <1>8, <6>1
          <6>. QED
            BY <1>9, <6>2
        <5>4. clock[h] \in Nat /\ clock[h] <= t
          BY <1>0, <1>1, <1>5, <3>4, <4>3 DEF Typed
        <5>. QED
          BY <1>5, <3>1, <4>2, <4>3, <5>2, <5>3, <5>4
      <4>4. CASE ~(v[1] = h /\ call[p].key = k)
        BY <1>8, <2>0, <2>1, <4>2, <4>4
      <4>. QED
        BY <4>3, <4>4
    <3>. QED
      BY <3>1, <3>3, <3>4
  <2>. QED
    BY <2>2, <2>3
<1>16. ServedAgain'
  <2> SUFFICES ASSUME NEW o \in Op, Kind(o) = "get", NEW p \in after[o],
                      NEW v \in Voice, NEW w \in Voice, v \in HeardServed(p), w[1] = v[1]
               PROVE  /\ answer'[o][w] = answer[o][w] /\ answer'[p][v] = answer[p][v]
                      /\ UncutAt(w[1], o)' => UncutAt(w[1], o)
    <3>1. \A o \in Op : after'[o] = after[o] /\ after[o] \subseteq Op
      BY <1>0, <1>1 DEF Typed
    <3>2. \A p \in Op : HeardServed(p)' = HeardServed(p)
      BY <1>1
    <3>. QED
      BY <1>0, <1>2, <3>1, <3>2 DEF ServedAgain, Reads
  <2>1. p \in Op /\ v \in heard[p]
    BY <1>0 DEF Typed, HeardServed
  <2>2. o # q.op
    BY <1>2
  <2>3. call[o].key \in Key /\ w[1] \in Node
    BY <1>0, CallKey, VoiceParts
  <2>. QED
    BY <1>1, <1>11, <2>1, <2>2, <2>3 DEF UncutAt
<1>. QED
  BY <1>1, <1>13, <1>14, <1>15, <1>16 DEF Reads

\* What a get or a refusal says: records as they are stored, and refusals of
\* hosts that fail or have nothing.
LEMMA GetSays ==
  ASSUME ReadInv, NEW q \in reqs, DataGet(q) \/ DataRefuse(q), NEW b \in Block
  PROVE  LET a == answer'[q.op][<<q.dst, b>>]
             r == store[q.dst][call[q.op].key]
         IN  /\ a > 0 => Kind(q.op) = "get" /\ r[b] # NoRecord /\ a = r[b].timestamp
             /\ a < 0 => \/ q.dst \in Failing
                         \/ Kind(q.op) = "get" /\ Holding(q.dst, call[q.op].key) = {}
             /\ a # 0 => b \in Covering(q.dst, call[q.op].key)
<1> DEFINE k == call[q.op].key
           r == store[q.dst][k]
           a == answer'[q.op][<<q.dst, b>>]
<1>0. Typed /\ q \in Request /\ q.op \in Op /\ q.dst \in Node
  BY DEF ReadInv, CountingInv, Typed, Request
<1>1. answer \in [Op -> [Voice -> Int]] /\ <<q.dst, b>> \in Voice
  BY <1>0, VoiceParts DEF Typed
<1>2. ASSUME NEW stamp, NEW value, Answer(q, stamp, value) PROVE a = stamp[b]
  <2>1. answer' = [answer EXCEPT ![q.op] =
                     [v \in Voice |-> IF v[1] = q.dst THEN stamp[v[2]] ELSE @[v]]]
    BY <1>2 DEF Answer
  <2>. QED
    BY <1>0, <1>1, <2>1
<1>3. CASE DataGet(q)
  <2>0. k \in Key /\ Kind(q.op) = "get"
    BY <1>0, <1>3, CallKey DEF DataGet
  <2>1. PICK S \in SUBSET Block, F \in SUBSET Block :
          /\ S # {} /\ S \cap F = {} /\ Stops(q.dst, F)
          /\ S \subseteq Holding(q.dst, k)
          /\ S \cup F \subseteq Covering(q.dst, k)
          /\ Answer(q, [c \in Block |-> Stamp(c, S, F, r[c].timestamp)],
                       [c \in Block |-> IF c \in S THEN r[c].value ELSE NoValue])
    BY <1>3, GetIs
  <2>2. a = Stamp(b, S, F, r[b].timestamp)
    <3> DEFINE stamp == [c \in Block |-> Stamp(c, S, F, r[c].timestamp)]
               value == [c \in Block |-> IF c \in S THEN r[c].value ELSE NoValue]
    <3>1. Answer(q, stamp, value)
      BY <2>1, Zenon
    <3>2. stamp[b] = Stamp(b, S, F, r[b].timestamp)
      OBVIOUS
    <3> HIDE DEF stamp, value
    <3>. QED
      BY <1>2, <3>1, <3>2
  <2>3. CASE b \in S
    <3>1. r[b] # NoRecord
      BY <2>1, <2>3 DEF Holding
    <3>2. r[b].timestamp \in Nat \ {0}
      BY <1>0, <2>0, <3>1, StoredRecord
    <3>3. a = r[b].timestamp
      BY <2>2, <2>3 DEF Stamp
    <3>4. b \in Covering(q.dst, k)
      BY <2>1, <2>3
    <3> HIDE DEF a, r, k
    <3>5. a > 0 /\ ~(a < 0)
      BY <3>2, <3>3
    <3>. QED
      BY <2>0, <3>1, <3>3, <3>4, <3>5, Zenon DEF a, r, k
  <2>4. CASE b \notin S
    <3>1. a = IF b \in F THEN -1 ELSE 0
      BY <2>2, <2>4 DEF Stamp
    <3>2. /\ b \in F => q.dst \in Failing
          /\ b \in F => b \in Covering(q.dst, k)
      BY <2>1, StopsIs
    <3> HIDE DEF a, r, k
    <3>3. ~(a > 0) /\ (a < 0 => b \in F) /\ (a # 0 => b \in F)
      BY <3>1
    <3>. QED
      BY <3>2, <3>3, Zenon DEF a, r, k
  <2>. QED
    BY <2>3, <2>4
<1>4. CASE DataRefuse(q)
  <2>1. PICK d \in Covering(q.dst, k) :
          Answer(q, [c \in Block |-> IF c = d THEN -1 ELSE 0], [c \in Block |-> NoValue])
    BY <1>4 DEF DataRefuse
  <2>2. a = IF b = d THEN -1 ELSE 0
    BY <1>2, <2>1
  <2>. QED
    BY <1>4, <2>1, <2>2 DEF DataRefuse
<1>. QED
  BY <1>3, <1>4

\* A get is answered with what its host has: a host that had served an
\* acknowledged put has a record, which is no older.
LEMMA GetReads ==
  ASSUME ReadInv, NEW q \in reqs, DataGet(q) \/ DataRefuse(q)
  PROVE  Reads'
<1>0. Typed /\ Reads
  BY DEF ReadInv, CountingInv
<1> DEFINE k == call[q.op].key
           h == q.dst
           r == store[h][k]
<1>1. /\ q.op \in Op /\ h \in Node
      /\ UNCHANGED <<call, entries, finished, heard, after>>
      /\ \A o \in Op, v \in Voice : o # q.op \/ v[1] # h => answer'[o][v] = answer[o][v]
      /\ \A o \in Op : HeardServed(o)' = HeardServed(o)
      /\ \A v \in heard[q.op] : v[1] # h
      /\ AskedAtHosts' /\ AfterAcked' /\ RepliesTimed' /\ NewestHeard'
      /\ \A b \in Block : answer'[q.op][<<h, b>>] \in Int
  BY AnswerReads DEF Data
<1>2. UNCHANGED <<store, clock>> /\ \A o : Kind(o)' = Kind(o)
  BY <1>1 DEF DataGet, DataRefuse, disk, Kind
<1>3. \A b \in Block :
        LET a == answer'[q.op][<<h, b>>]
        IN  /\ a > 0 => Kind(q.op) = "get" /\ r[b] # NoRecord /\ a = r[b].timestamp
            /\ a < 0 => h \in Failing \/ (Kind(q.op) = "get" /\ Holding(h, k) = {})
            /\ a # 0 => b \in Covering(h, k)
  BY GetSays
<1>4. StoredInPast'
  BY <1>0, <1>2 DEF Reads, StoredInPast
<1>5. SecondAfterCut'
  <2> SUFFICES ASSUME NEW o \in Op, call[o] # NoCall, NEW n \in Node, UncutAt(n, o)
               PROVE  answer'[o][<<n, 2>>] = 0
    BY <1>1, <1>2 DEF SecondAfterCut, UncutAt
  <2>0. 2 \in Block /\ <<n, 2>> \in Voice /\ <<n, 2>>[1] = n
    BY VoiceParts
  <2>1. CASE o = q.op /\ n = h
    <3>1. call[o] \in Call
      BY <1>0 DEF Typed
    <3>2. k \in Key
      BY <2>1, <3>1 DEF Call
    <3>3. 2 \notin Covering(h, k)
      BY <1>0, <1>1, <2>1, <3>2, OneBlock DEF UncutAt
    <3>. QED
      BY <1>3, <2>0, <2>1, <3>3
  <2>2. CASE ~(o = q.op /\ n = h)
    BY <1>0, <1>1, <2>0, <2>2 DEF Reads, SecondAfterCut
  <2>. QED
    BY <2>1, <2>2
<1>6. PutsKept'
  <2> SUFFICES ASSUME NEW p \in Op, Kind(p) = "put", NEW v \in Voice, answer'[p][v] > 0
               PROVE  answer'[p][v] = answer[p][v]
    BY <1>0, <1>1, <1>2 DEF PutsKept, Reads, Served, Holding, UncutAt
  <2>1. v = <<v[1], v[2]>> /\ v[2] \in Block
    BY VoiceParts
  <2>2. ~(p = q.op /\ v[1] = h)
    BY <1>3, <2>1
  <2>. QED
    BY <1>1, <2>2
<1>7. ServedAgain'
  <2> SUFFICES ASSUME NEW o \in Op, Kind(o) = "get", NEW p \in after[o],
                      NEW v \in Voice, NEW w \in Voice, v \in HeardServed(p), w[1] = v[1]
               PROVE  /\ answer'[o][w] < 0 => w[1] \in Failing
                      /\ answer'[o][w] > 0 /\ w[1] \notin SetBack /\ UncutAt(w[1], o) =>
                           answer'[o][w] >= answer'[p][v]
    BY <1>0, <1>1, <1>2 DEF ServedAgain, UncutAt, Typed
  <2>1. /\ p \in Op /\ v \in heard[p] /\ v \in Served(p)
        /\ Kind(p) = "put" /\ call[p].key = call[o].key
    BY <1>0 DEF Typed, HeardServed, Served, Reads, AfterAcked
  <2>2. answer'[p][v] = answer[p][v]
    BY <1>1, <2>1
  <2>3. CASE o = q.op /\ w[1] = h
    <3>0. w = <<h, w[2]>> /\ w[2] \in Block
      BY <2>3, VoiceParts
    <3>1. /\ Holding(h, k) # {}
          /\ h \notin SetBack /\ UncutAt(h, o) => answer[p][v] <= r[1].timestamp
      BY <1>0, <2>1, <2>3 DEF Reads, PutsKept, UncutAt
    <3>2. answer'[o][w] < 0 => h \in Failing
      BY <1>3, <2>3, <3>0, <3>1
    <3>3. ASSUME answer'[o][w] > 0, h \notin SetBack, UncutAt(h, o)
          PROVE  answer'[o][w] >= answer'[p][v]
      <4>1. k \in Key
        BY <1>0, <1>1, <2>3, CallKey
      <4>2. Covering(h, k) = {1}
        BY <1>0, <1>1, <2>3, <3>3, <4>1, OneBlock DEF UncutAt
      <4>3. answer'[o][w] \in Int /\ answer'[o][w] # 0
        BY <1>1, <2>3, <3>0, <3>3
      <4>4. w[2] = 1
        BY <1>3, <2>3, <3>0, <4>2, <4>3
      <4>5. r[1] # NoRecord /\ answer'[o][w] = r[1].timestamp
        BY <1>3, <2>3, <3>0, <3>3, <4>4
      <4>6. answer[p][v] \in Int
        BY <1>0, <2>1 DEF Typed
      <4>. QED
        BY <2>2, <3>1, <3>3, <4>3, <4>5, <4>6
    <3>. QED
      BY <2>3, <3>2, <3>3
  <2>4. CASE ~(o = q.op /\ w[1] = h)
    BY <1>0, <1>1, <2>1, <2>2, <2>4 DEF Reads, ServedAgain
  <2>. QED
    BY <2>3, <2>4
<1>. QED
  BY <1>1, <1>4, <1>5, <1>6, <1>7 DEF Reads

\* A cut moves the record of a key to its second block.
LEMMA CutReads ==
  ASSUME ReadInv, NEW n \in Cutting, NEW k \in Key, Cut(n, k)
  PROVE  Reads'
<1>0. Typed /\ Reads
  BY DEF ReadInv, CountingInv
<1>1. n \in Node /\ 1 \in Block /\ 2 \in Block
  BY ThreadAssumption DEF Block
<1>2. /\ UNCHANGED <<call, entries, heard, finished, after, answer, reqs, rets, clock>>
      /\ Holding(n, k) = {1}
      /\ store' = [store EXCEPT ![n][k] = [b \in Block |-> IF b = 2 THEN @[1] ELSE NoRecord]]
  BY DEF Cut, net
<1>3. store \in [Node -> [Key -> [Block -> Record \cup {NoRecord}]]]
  BY <1>0 DEF Typed
<1>4. /\ \A m \in Node, j \in Key : m # n \/ j # k => store'[m][j] = store[m][j]
      /\ store'[n][k][2] = store[n][k][1] /\ store'[n][k][1] = NoRecord
      /\ store[n][k][1] # NoRecord /\ store[n][k][2] = NoRecord
  <2>1. store[n][k][1] # NoRecord /\ store[n][k][2] = NoRecord
    <3>1. 1 \in Holding(n, k) /\ 2 \notin Holding(n, k)
      BY <1>2
    <3>. QED
      BY <1>1, <3>1 DEF Holding
  <2>. QED
    BY <1>1, <1>2, <1>3, <2>1
<1>5. \A m \in Node, j \in Key : store'[m][j][2] = NoRecord => store'[m][j] = store[m][j]
  BY <1>4
<1>6. \A o : /\ Kind(o)' = Kind(o) /\ Succeeded(o)' = Succeeded(o)
             /\ HeardServed(o)' = HeardServed(o) /\ Served(o)' = Served(o)
  BY <1>2 DEF Kind, Succeeded, HeardServed, Served
<1>7. AskedAtHosts' /\ AfterAcked' /\ RepliesTimed' /\ NewestHeard'
  <2>1. AskedAtHosts' /\ RepliesTimed'
    BY <1>0, <1>2, <1>6 DEF Reads, AskedAtHosts, RepliesTimed
  <2>2. AfterAcked'
    BY <1>0, <1>2, <1>6 DEF Reads, AfterAcked
  <2>3. NewestHeard'
    BY <1>0, <1>2, <1>6 DEF Reads, NewestHeard
  <2>. QED
    BY <2>1, <2>2, <2>3
<1>8. StoredInPast'
  <2> SUFFICES ASSUME NEW m \in Node \ SetBack, NEW j \in Key, NEW b \in Block,
                      store'[m][j][b] # NoRecord
               PROVE  store'[m][j][b].timestamp <= clock[m]
    BY <1>2 DEF StoredInPast
  <2>1. CASE m = n /\ j = k
    <3>1. b = 2
      BY <1>4, <2>1 DEF Block
    <3>. QED
      BY <1>0, <1>1, <1>4, <2>1, <3>1 DEF Reads, StoredInPast
  <2>2. CASE ~(m = n /\ j = k)
    BY <1>0, <1>4, <2>2 DEF Reads, StoredInPast
  <2>. QED
    BY <2>1, <2>2
\* Whose blocks are not cut after the step, they were not before it.
<1>9. \A o \in Op, m \in Node : call[o] # NoCall =>
        /\ call[o].key \in Key
        /\ UncutAt(m, o)' => UncutAt(m, o) /\ store'[m][call[o].key] = store[m][call[o].key]
  <2>1. \A o \in Op : call[o] # NoCall => call[o].key \in Key
    BY <1>0 DEF Typed, Call
  <2>. QED
    BY <1>2, <1>5, <2>1 DEF UncutAt
<1>10. SecondAfterCut'
  BY <1>0, <1>2, <1>9 DEF Reads, SecondAfterCut
<1>11. PutsKept'
  <2> SUFFICES ASSUME NEW p \in Op, Kind(p) = "put", NEW v \in Served(p)
               PROVE  /\ Holding(v[1], call[p].key)' # {}
                      /\ v[1] \notin SetBack /\ UncutAt(v[1], p)' =>
                           answer[p][v] <= store'[v[1]][call[p].key][1].timestamp
    BY <1>2, <1>6 DEF PutsKept
  <2>1. v[1] \in Node /\ call[p] # NoCall /\ call[p].key \in Key
    BY <1>0, CallKey, VoiceParts DEF Served
  <2>2. /\ Holding(v[1], call[p].key) # {}
        /\ v[1] \notin SetBack /\ UncutAt(v[1], p) =>
             answer[p][v] <= store[v[1]][call[p].key][1].timestamp
    BY <1>0 DEF Reads, PutsKept
  <2>3. Holding(v[1], call[p].key)' # {}
    <3>1. CASE v[1] = n /\ call[p].key = k
      <4>1. store'[v[1]][call[p].key][2] # NoRecord
        BY <1>4, <3>1
      <4>. QED
        BY <1>1, <1>2, <4>1 DEF Holding
    <3>2. CASE ~(v[1] = n /\ call[p].key = k)
      BY <1>2, <1>4, <2>1, <2>2, <3>2 DEF Holding
    <3>. QED
      BY <3>1, <3>2
  <2>. QED
    BY <1>9, <2>1, <2>2, <2>3
<1>12. ServedAgain'
  <2> SUFFICES ASSUME NEW o \in Op, Kind(o) = "get", NEW p \in after[o],
                      NEW v \in Voice, NEW w \in Voice, v \in HeardServed(p), w[1] = v[1]
               PROVE  UncutAt(w[1], o)' => UncutAt(w[1], o)
    BY <1>0, <1>2, <1>6 DEF Reads, ServedAgain
  <2>1. w[1] \in Node /\ call[o] # NoCall
    BY <1>0, CallKey, VoiceParts
  <2>. QED
    BY <1>9, <2>1
<1>. QED
  BY <1>7, <1>8, <1>10, <1>11, <1>12 DEF Reads

\* Newest keeps what it has unless the reply is a newer success.
LEMMA NewestBounds ==
  ASSUME NEW e \in Entry, NEW r \in Reply
  PROVE  /\ Newest(e, r).timestamp >= e.timestamp
         /\ r.status = 0 => Newest(e, r).timestamp >= r.timestamp
BY DEF Newest, Entry, Reply

\* A reply is counted: the entry keeps the newest of the values heard.
LEMMA ReturnReads ==
  ASSUME ReadInv, NEW r \in rets, Return(r)
  PROVE  Reads'
<1> USE NothingAssumption
<1> DEFINE x == r.op
<1>0. /\ Typed /\ Messages /\ Reads /\ CountingInv
      /\ \A o \in Op : Counted(o) /\ Registered(o)
  BY DEF ReadInv, CountingInv
<1>1. /\ r \in Reply /\ x \in Op /\ r.voice \in Voice
      /\ UNCHANGED <<call, answer, after>>
      /\ \A o \in Op \ {x} : /\ entries'[o] = entries[o] /\ heard'[o] = heard[o]
                            /\ finished'[o] = finished[o]
      /\ \/ UNCHANGED <<entries, heard, finished>>
         \/ /\ entries[x] # NoEntry /\ finished[x] = << >>
            /\ heard'[x] = heard[x] \cup {r.voice}
  BY <1>0, ReturnEffect
<1>2. rets' \subseteq rets /\ UNCHANGED <<reqs, store, clock>>
  BY DEF Return, PutReturn, GetReturn, Receive, disk
<1>3. \A o : Kind(o)' = Kind(o)
  BY <1>1 DEF Kind
<1>4. StoredInPast' /\ SecondAfterCut' /\ PutsKept' /\ AskedAtHosts' /\ RepliesTimed'
  <2>1. StoredInPast' /\ SecondAfterCut' /\ AskedAtHosts'
    BY <1>0, <1>1, <1>2 DEF Reads, StoredInPast, SecondAfterCut, UncutAt, AskedAtHosts
  <2>2. PutsKept'
    BY <1>0, <1>1, <1>2, <1>3 DEF Reads, PutsKept, Served, Holding, UncutAt
  <2>3. RepliesTimed'
    BY <1>0, <1>1, <1>2, <1>3 DEF Reads, RepliesTimed
  <2>. QED
    BY <2>1, <2>2, <2>3
\* An operation that has ended has left the table: no reply changes it.
<1>5. ASSUME NEW p \in Op, Succeeded(p)
      PROVE  finished'[p] = finished[p] /\ heard'[p] = heard[p]
  <2>1. finished[p] # << >>
    BY <1>5 DEF Succeeded
  <2>. QED
    BY <1>1, <2>1
<1>6. AfterAcked'
  <2> SUFFICES ASSUME NEW o \in Op, Kind(o) = "get", NEW p \in after[o]
               PROVE  /\ Kind(p) = "put" /\ call[p].key = call[o].key
                      /\ Succeeded(p)'
    BY <1>1, <1>3 DEF AfterAcked
  <2>1. p \in Op /\ Kind(p) = "put" /\ call[p].key = call[o].key /\ Succeeded(p)
    BY <1>0 DEF Typed, Reads, AfterAcked
  <2>. QED
    BY <1>5, <2>1 DEF Succeeded
<1>7. ServedAgain'
  <2> SUFFICES ASSUME NEW o \in Op, Kind(o) = "get", NEW p \in after[o],
                      NEW v \in HeardServed(p)'
               PROVE  v \in HeardServed(p)
    BY <1>0, <1>1, <1>2, <1>3 DEF ServedAgain, Reads, UncutAt
  <2>1. p \in Op /\ Succeeded(p)
    BY <1>0 DEF Typed, Reads, AfterAcked
  <2>. QED
    BY <1>1, <1>5, <2>1 DEF HeardServed
<1>8. NewestHeard'
  <2> DEFINE Newer(o) == \A v \in HeardServed(o)' :
        /\ entries'[o] # NoEntry => answer[o][v] <= entries'[o].timestamp
        /\ \A i \in DOMAIN finished'[o] : answer[o][v] <= finished'[o][i].timestamp
  <2> SUFFICES ASSUME NEW o \in Op, Kind(o) = "get" PROVE Newer(o)
    BY <1>1, <1>3 DEF NewestHeard
  <2>1. CASE o # x \/ UNCHANGED <<entries, heard, finished>>
    <3>1. /\ entries'[o] = entries[o] /\ finished'[o] = finished[o]
          /\ HeardServed(o)' = HeardServed(o)
      BY <1>1, <2>1 DEF HeardServed
    <3>. QED
      BY <1>0, <3>1 DEF Reads, NewestHeard
  <2>2. CASE o = x /\ ~(UNCHANGED <<entries, heard, finished>>)
    <3> DEFINE d == Tally(entries[x], r.status)
               e == Newest(d, r)
               res == [status |-> r.status, timestamp |-> e.timestamp,
                       value |-> e.value]
    <3>1. /\ entries[x] # NoEntry /\ finished[x] = << >>
          /\ heard'[x] = heard[x] \cup {r.voice}
      BY <1>1, <2>2
    <3>2. Count(r, e, R)
      BY <2>2, <3>1 DEF Return, PutReturn, GetReturn, Late
    <3>3. entries[x] \in Entry /\ r.status \in {0, 1}
      BY <1>0, <1>1, <3>1 DEF Typed, Reply
    <3>4. d \in Entry /\ d.timestamp = entries[x].timestamp
      BY <3>3, TallyFields DEF Tally, Entry
    <3>5. /\ e \in Entry /\ e.timestamp >= entries[x].timestamp
          /\ r.status = 0 => e.timestamp >= r.timestamp
      BY <1>1, <3>4, NewestFields, NewestBounds
    <3>6. ASSUME NEW v \in HeardServed(x)' PROVE answer[x][v] <= e.timestamp
      <4>1. v \in heard[x] \cup {r.voice} /\ answer[x][v] > 0 /\ v \in Voice
            /\ answer[x][v] \in Int
        BY <1>0, <1>1, <3>1 DEF HeardServed, Typed
      <4>2. CASE v \in heard[x]
        <5>1. answer[x][v] <= entries[x].timestamp
          BY <1>0, <1>1, <2>2, <3>1, <4>1, <4>2 DEF Reads, NewestHeard, HeardServed
        <5>. QED
          BY <3>3, <3>5, <4>1, <5>1 DEF Entry
      <4>3. CASE v = r.voice
        <5>1. r.status = 0
          BY <1>0, <3>3, <4>1, <4>3 DEF Messages, RepliesUncounted
        <5>2. r.timestamp = answer[x][v]
          BY <1>0, <2>2, <4>3, <5>1 DEF Reads, RepliesTimed
        <5>. QED
          BY <3>5, <5>1, <5>2
      <4>. QED
        BY <4>1, <4>2, <4>3
    <3>7. CASE entries' = [entries EXCEPT ![x] = e] /\ finished' = finished
      <4>1. entries'[x] = e /\ finished'[x] = << >>
        BY <1>0, <1>1, <3>1, <3>7 DEF Typed
      <4>. QED
        BY <2>2, <3>6, <4>1
    <3>8. CASE ~(entries' = [entries EXCEPT ![x] = e] /\ finished' = finished)
      <4>1. /\ entries' = [entries EXCEPT ![x] = NoEntry]
            /\ finished' = [finished EXCEPT ![x] = Append(@, res)]
        BY <3>2, <3>8 DEF Count
      <4>2. entries'[x] = NoEntry /\ finished'[x] = <<res>>
        BY <1>0, <1>1, <3>1, <4>1 DEF Typed
      <4>3. \A i \in DOMAIN finished'[x] : finished'[x][i].timestamp = e.timestamp
        BY <4>2
      <4>. QED
        BY <2>2, <3>6, <4>2, <4>3
    <3>. QED
      BY <3>7, <3>8
  <2>. QED
    BY <2>1, <2>2
<1>. QED
  BY <1>4, <1>6, <1>7, <1>8 DEF Reads

\* Every step preserves it.
LEMMA ReadStep == ReadInv /\ [Next]_vars => ReadInv'
<1> SUFFICES ASSUME ReadInv, [Next]_vars PROVE Reads'
  BY CountingStep DEF ReadInv
<1>0. Reads
  BY DEF ReadInv
<1>1. ASSUME NEW t \in Thread, PutEnter(t) \/ GetEnter(t) PROVE Reads'
  BY <1>0, <1>1, QuietReads DEF PutEnter, GetEnter, Enter, net, disk
<1>2. ASSUME NEW t \in Thread, PutSend(t) \/ GetSend(t) PROVE Reads'
  BY <1>2, SendReads DEF PutSend, GetSend
<1>3. ASSUME NEW d \in Pausable, NEW flag \in BOOLEAN, ActSetEnableFlag(d, flag)
      PROVE  Reads'
  BY <1>0, <1>3, QuietReads DEF ActSetEnableFlag, net, disk
<1>4. ASSUME NEW q \in reqs, Data(q) PROVE Reads'
  BY <1>4, PutReads, GetReads DEF Data
<1>5. ASSUME NEW q \in reqs, DropRequest(q) PROVE Reads'
  BY <1>0, <1>5, QuietReads DEF DropRequest, disk
<1>6. ASSUME NEW r \in rets, DropReply(r) PROVE Reads'
  BY <1>0, <1>6, QuietReads DEF DropReply, disk
<1>7. ASSUME NEW n \in Cutting, NEW k \in Key, Cut(n, k) PROVE Reads'
  BY <1>7, CutReads
<1>8. CASE UNCHANGED vars
  BY <1>0, <1>8, QuietReads DEF vars, net, disk
<1>. QED
  BY <1>1, <1>2, <1>3, <1>4, <1>5, <1>6, <1>7, <1>8, ReturnReads DEF Next

\* At first no record is stored and no operation is known.
LEMMA ReadInit == Init => ReadInv
<1> SUFFICES ASSUME Init PROVE Reads
  BY CountingInit DEF ReadInv
<1>1. \A o \in Op : Kind(o) = "none" /\ call[o] = NoCall
  BY DEF Init, Kind
<1>2. StoredInPast /\ SecondAfterCut /\ AskedAtHosts /\ RepliesTimed
  BY <1>1 DEF Init, StoredInPast, SecondAfterCut, AskedAtHosts, RepliesTimed
<1>3. PutsKept /\ AfterAcked /\ ServedAgain /\ NewestHeard
  BY <1>1 DEF PutsKept, AfterAcked, ServedAgain, NewestHeard
<1>. QED
  BY <1>2, <1>3 DEF Reads

\* Records stay, and gets hear the newest of them, in every reachable state.
THEOREM ReadsCorrect == Spec => []ReadInv
  BY ReadInit, ReadStep, PTL DEF Spec

-----------------------------------------------------------------------------
(* What it gives when quorums are large enough.                            *)

\* The hosts of a set of voices, and those of which it has both blocks.
HostsOf(V) == {n \in Node : \E b \in Block : <<n, b>> \in V}
BothOf(V) == {n \in Node : \A b \in Block : <<n, b>> \in V}

\* Hosts that were heard are hosts of the key, of which there are N.
LEMMA HeardAtHosts ==
  ASSUME ReadInv, NEW o \in Op, call[o] # NoCall
  PROVE  /\ IsFiniteSet(Hosts[call[o].key])
         /\ Cardinality(Hosts[call[o].key]) = N
         /\ HeardServed(o) \subseteq Voice /\ HeardRefused(o) \subseteq Voice
         /\ HostsOf(HeardServed(o)) \subseteq Hosts[call[o].key]
         /\ HostsOf(HeardRefused(o)) \subseteq Hosts[call[o].key]
         /\ BothOf(HeardRefused(o)) = {} /\ BothOf(HeardServed(o)) = Twice(o)
<1>0. Typed /\ Reads /\ Counted(o)
  BY DEF ReadInv, CountingInv
<1>1. call[o].key \in Key
  BY <1>0 DEF Typed, Call
<1>2. Hosts[call[o].key] \subseteq Node /\ heard[o] \subseteq Voice
  BY <1>0, <1>1, QuorumAssumption DEF Typed
<1>3. \A v \in Voice : answer[o][v] # 0 => v[1] \in Hosts[call[o].key]
  BY <1>0 DEF Reads, AskedAtHosts
<1>4. HeardServed(o) \subseteq Voice /\ HeardRefused(o) \subseteq Voice
  BY <1>2 DEF HeardServed, HeardRefused
<1>5. ASSUME NEW n \in Node, NEW b \in Block,
             <<n, b>> \in HeardServed(o) \/ <<n, b>> \in HeardRefused(o)
      PROVE  n \in Hosts[call[o].key]
  <2>1. answer[o][<<n, b>>] # 0 /\ <<n, b>> \in Voice /\ <<n, b>>[1] = n
    BY <1>0, <1>5, VoiceParts DEF Counted, HeardServed, HeardRefused
  <2>. QED
    BY <1>3, <2>1
<1>6. /\ HostsOf(HeardServed(o)) \subseteq Hosts[call[o].key]
      /\ HostsOf(HeardRefused(o)) \subseteq Hosts[call[o].key]
  BY <1>5, Zenon DEF HostsOf
<1>7. ASSUME NEW n \in Node, <<n, 1>> \in HeardRefused(o), <<n, 2>> \in HeardRefused(o)
      PROVE  FALSE
  <2>1. \A v, w \in Voice : v[1] = w[1] /\ answer[o][v] < 0 /\ answer[o][w] < 0 => v = w
    BY <1>0 DEF Counted
  <2>2. /\ <<n, 1>> \in Voice /\ <<n, 2>> \in Voice
        /\ answer[o][<<n, 1>>] < 0 /\ answer[o][<<n, 2>>] < 0
    BY <1>4, <1>7 DEF HeardRefused
  <2>3. <<n, 1>>[1] = <<n, 2>>[1] /\ <<n, 1>> # <<n, 2>>
    OBVIOUS
  <2>. QED
    BY <2>1, <2>2, <2>3
<1>8. BothOf(HeardRefused(o)) = {}
  BY <1>7 DEF BothOf, Block
<1>9. BothOf(HeardServed(o)) = Twice(o)
  BY DEF BothOf, Twice
<1>. QED
  BY <1>1, <1>2, <1>4, <1>6, <1>8, <1>9, HostSets, QuorumAssumption

\* As many hosts as voices, where no host has two.
LEMMA AsManyHosts ==
  ASSUME NEW V, V \subseteq Voice, BothOf(V) = {}
  PROVE  /\ Cardinality(HostsOf(V)) = Cardinality(V)
         /\ IsFiniteSet(HostsOf(V)) /\ Cardinality(V) \in Nat
<1>1. Cardinality(V) = Cardinality(HostsOf(V)) + Cardinality({})
  BY VoicesOf DEF HostsOf, BothOf
<1>2. HostsOf(V) \subseteq Node
  BY DEF HostsOf
<1>. QED
  BY <1>1, <1>2, HostSets, FS_EmptySet

\* Sets of hosts of a key that are together larger than N meet.
LEMMA QuorumsMeet ==
  ASSUME NEW S, IsFiniteSet(S), NEW A \in SUBSET S, NEW B \in SUBSET S,
         Cardinality(A) + Cardinality(B) > Cardinality(S) + Cardinality(A \cap B)
  PROVE  FALSE
<1>1. /\ IsFiniteSet(A) /\ IsFiniteSet(B) /\ IsFiniteSet(A \cup B)
      /\ A \cup B \subseteq S /\ IsFiniteSet(A \cap B)
  BY FS_Subset
<1>2. Cardinality(A \cup B) = Cardinality(A) + Cardinality(B) - Cardinality(A \cap B)
  BY <1>1, FS_Union
<1>3. Cardinality(A \cup B) <= Cardinality(S)
  BY <1>1, FS_Subset
<1>4. /\ Cardinality(A) \in Nat /\ Cardinality(B) \in Nat /\ Cardinality(S) \in Nat
      /\ Cardinality(A \cap B) \in Nat /\ Cardinality(A \cup B) \in Nat
  BY <1>1, FS_CardinalityType
<1>. QED
  BY <1>2, <1>3, <1>4

\* A get after a put that was acknowledged by hosts counted once each never
\* fails, if a write quorum is no smaller than a read quorum and the hosts whose
\* files may fail taken together: then the replicas that have no record are too
\* few to refuse it.
THEOREM AckedReadableCorrect ==
  ASSUME Cardinality(Failing) + R <= W
  PROVE  Spec => []AckedReadable
<1>1. ReadInv => AckedReadable
  <2> SUFFICES ASSUME ReadInv, NEW o \in Op, Kind(o) = "get", NEW p \in after[o],
                      Twice(p) = {}, Failed(o)
               PROVE  FALSE
    BY DEF AckedReadable
  <2>0. Typed /\ Reads /\ \A x \in Op : Justified(x)
    BY DEF ReadInv, CountingInv
  <2>1. p \in Op /\ Kind(p) = "put" /\ call[p].key = call[o].key /\ Succeeded(p)
    BY <2>0 DEF Reads, AfterAcked, Typed
  <2>2. call[o] # NoCall /\ call[p] # NoCall
    BY <2>1 DEF Kind
  <2> DEFINE S == Hosts[call[o].key]
             A == HostsOf(HeardRefused(o))
             B == HostsOf(HeardServed(p))
  <2>3. Cardinality(HeardRefused(o)) > N - R /\ Cardinality(HeardServed(p)) >= W
    BY <2>0, <2>1 DEF Justified, Quorum
  <2>4. /\ IsFiniteSet(S) /\ Cardinality(S) = N /\ A \subseteq S /\ B \subseteq S
        /\ HeardRefused(o) \subseteq Voice /\ HeardServed(p) \subseteq Voice
        /\ BothOf(HeardRefused(o)) = {} /\ BothOf(HeardServed(p)) = {}
    BY <2>1, <2>2, HeardAtHosts
  <2>5. /\ Cardinality(A) > N - R /\ Cardinality(B) >= W
        /\ IsFiniteSet(A) /\ IsFiniteSet(B)
    BY <2>3, <2>4, AsManyHosts
  <2>6. A \cap B \subseteq Failing
    <3> SUFFICES ASSUME NEW n \in Node, NEW b \in Block, NEW c \in Block,
                        <<n, b>> \in HeardRefused(o), <<n, c>> \in HeardServed(p)
                 PROVE  n \in Failing
      BY DEF HostsOf
    <3>1. /\ <<n, b>> \in Voice /\ <<n, c>> \in Voice
          /\ <<n, b>>[1] = n /\ <<n, c>>[1] = n
      BY VoiceParts
    <3>2. answer[o][<<n, b>>] < 0
      BY DEF HeardRefused
    <3>. QED
      BY <2>0, <2>1, <3>1, <3>2 DEF Reads, ServedAgain
  <2> HIDE DEF A, B, S
  <2>7. IsFiniteSet(Failing) /\ Cardinality(Failing) \in Nat
    BY ThreadAssumption, HostSets
  <2>8. Cardinality(A \cap B) <= Cardinality(Failing) /\ Cardinality(A \cap B) \in Nat
    BY <2>6, <2>7, FS_Subset, FS_CardinalityType
  <2>9. Cardinality(A) \in Nat /\ Cardinality(B) \in Nat
    BY <2>5, FS_CardinalityType
  <2>10. Cardinality(A) + Cardinality(B) > Cardinality(S) + Cardinality(A \cap B)
    BY <2>4, <2>5, <2>7, <2>8, <2>9, QuorumAssumption
  <2>. QED
    BY <2>4, <2>10, QuorumsMeet
<1>. QED
  BY <1>1, ReadsCorrect, PTL

\* While no host has cut its blocks at the key, a get after an acknowledged put
\* returns nothing older than that put was at one of the replicas that served
\* it, if read and write quorums overlap in more hosts than those whose clocks
\* are set back.
THEOREM NotOlderThanAckedCorrect ==
  ASSUME R + W > N + Cardinality(SetBack)
  PROVE  Spec => []NotOlderThanAcked
<1>1. ReadInv => NotOlderThanAcked
  <2> SUFFICES ASSUME ReadInv, NEW o \in Op, Kind(o) = "get", Uncut(call[o].key),
                      NEW i \in DOMAIN finished[o], finished[o][i].status = 0,
                      NEW p \in after[o]
               PROVE  \E v \in heard[p] :
                        answer[p][v] > 0 /\ finished[o][i].timestamp >= answer[p][v]
    BY DEF NotOlderThanAcked
  <2>0. Typed /\ Reads /\ \A x \in Op : Justified(x)
    BY DEF ReadInv, CountingInv
  <2>1. p \in Op /\ Kind(p) = "put" /\ call[p].key = call[o].key /\ Succeeded(p)
    BY <2>0 DEF Reads, AfterAcked, Typed
  <2>2. call[o] # NoCall /\ call[p] # NoCall
    BY <2>1 DEF Kind
  <2>3. ASSUME NEW x \in {o, p}, NEW n \in Node, <<n, 2>> \in HeardServed(x)
        PROVE  FALSE
    <3>1. answer[x][<<n, 2>>] = 0
      BY <2>0, <2>1, <2>2 DEF Reads, SecondAfterCut, UncutAt, Uncut
    <3>. QED
      BY <2>3, <3>1 DEF HeardServed
  <2>4. BothOf(HeardServed(o)) = {} /\ BothOf(HeardServed(p)) = {}
    BY <2>3 DEF BothOf, Block
  <2> DEFINE S == Hosts[call[o].key]
             A == HostsOf(HeardServed(o))
             B == HostsOf(HeardServed(p))
  <2>5. Cardinality(HeardServed(o)) >= R /\ Cardinality(HeardServed(p)) >= W
    BY <2>0, <2>1 DEF Justified, Quorum, Succeeded
  <2>6. /\ IsFiniteSet(S) /\ Cardinality(S) = N /\ A \subseteq S /\ B \subseteq S
        /\ HeardServed(o) \subseteq Voice /\ HeardServed(p) \subseteq Voice
    BY <2>1, <2>2, HeardAtHosts
  <2>7. /\ Cardinality(A) >= R /\ Cardinality(B) >= W
        /\ IsFiniteSet(A) /\ IsFiniteSet(B)
    BY <2>4, <2>5, <2>6, AsManyHosts
  <2>8. PICK n \in Node : n \in A \cap B /\ n \notin SetBack
    <3>1. CASE A \cap B \subseteq SetBack
      <4> HIDE DEF A, B, S
      <4>1. IsFiniteSet(SetBack) /\ Cardinality(SetBack) \in Nat
        BY ThreadAssumption, HostSets
      <4>2. Cardinality(A \cap B) <= Cardinality(SetBack) /\ Cardinality(A \cap B) \in Nat
        BY <3>1, <4>1, FS_Subset, FS_CardinalityType
      <4>3. Cardinality(A) \in Nat /\ Cardinality(B) \in Nat
        BY <2>7, FS_CardinalityType
      <4>4. Cardinality(A) + Cardinality(B) > Cardinality(S) + Cardinality(A \cap B)
        BY <2>6, <2>7, <4>1, <4>2, <4>3, QuorumAssumption
      <4>. QED
        BY <2>6, <4>4, QuorumsMeet
    <3>2. A \subseteq Node
      BY DEF HostsOf
    <3>. QED
      BY <3>1, <3>2
  <2>9. <<n, 1>> \in HeardServed(o) /\ <<n, 1>> \in HeardServed(p)
    <3>1. PICK b \in Block, c \in Block :
            <<n, b>> \in HeardServed(o) /\ <<n, c>> \in HeardServed(p)
      BY <2>8 DEF HostsOf
    <3>. QED
      BY <2>3, <3>1 DEF Block
  <2> DEFINE v == <<n, 1>>
  <2>10. v \in Voice /\ v[1] = n
    BY VoiceParts
  <2>11. v \in heard[p] /\ answer[p][v] > 0 /\ answer[o][v] > 0
    BY <2>9 DEF HeardServed
  <2>12. answer[o][v] >= answer[p][v] /\ answer[o][v] <= finished[o][i].timestamp
    <3>1. UncutAt(n, o)
      BY DEF UncutAt, Uncut
    <3>2. answer[o][v] >= answer[p][v]
      BY <2>0, <2>8, <2>9, <2>10, <2>11, <3>1 DEF Reads, ServedAgain
    <3>3. answer[o][v] <= finished[o][i].timestamp
      BY <2>0, <2>9 DEF Reads, NewestHeard
    <3>. QED
      BY <3>2, <3>3
  <2>13. /\ answer[o][v] \in Int /\ answer[p][v] \in Int
         /\ finished[o][i].timestamp \in Int
    <3>1. finished[o][i] \in Result
      BY <2>0 DEF Typed
    <3>. QED
      BY <2>0, <2>1, <2>10, <3>1 DEF Typed, Result
  <2>. QED
    BY <2>11, <2>12, <2>13
<1>. QED
  BY <1>1, ReadsCorrect, PTL
=============================================================================
