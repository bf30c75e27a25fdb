--------------------------- MODULE NetworkProofs ----------------------------
(***************************************************************************)
(* Proofs about the queues of MsgQueue and about their use in Network, for *)
(* every set of queues, threads, hosts and messages: no wakeup is lost,    *)
(* and the network keeps the promise of Channel.                           *)
(***************************************************************************)
EXTENDS Network, FiniteSetTheorems, TLAPS

QueuesInv == QueuesTypeOK /\ NoLostWakeup

\* A thread that joins a set of threads makes it larger by one, and one that
\* leaves it makes it smaller by one.
LEMMA Counts ==
  ASSUME NEW S \in SUBSET Consumer, NEW t \in Consumer
  PROVE  /\ Cardinality(S) \in Nat
         /\ t \notin S => Cardinality(S \cup {t}) = Cardinality(S) + 1
         /\ t \in S => Cardinality(S \ {t}) = Cardinality(S) - 1
<1>1. IsFiniteSet(S)
  BY ConsumerAssumption, FS_Subset
<1>. QED
  BY <1>1, FS_CardinalityType, FS_AddElement, FS_RemoveElement

\* Nobody sleeps and nothing is queued at first.
LEMMA QueuesInit == InitQueues => QueuesInv
BY DEF InitQueues, QueuesInv, QueuesTypeOK, NoLostWakeup

\* A push adds an element, and a notification that will be.
LEMMA PushStep ==
  ASSUME QueuesInv, NEW q \in Que, NEW x \in Elem, Push(q, x)
  PROVE  QueuesInv'
<1>1. QueuesTypeOK'
  BY DEF QueuesInv, QueuesTypeOK, Push
<1>2. ASSUME NEW r \in Que, asleep'[r] # {}
      PROVE  Len(queue'[r]) <= Cardinality(popping'[r]) + notifying'[r]
  <2>1. /\ Cardinality(popping[r]) \in Nat
        /\ notifying[r] \in Nat /\ queue[r] \in Seq(Elem)
    BY ConsumerAssumption, FS_Subset, FS_CardinalityType DEF QueuesInv, QueuesTypeOK
  <2>2. Len(queue[r]) <= Cardinality(popping[r]) + notifying[r]
    BY <1>2 DEF QueuesInv, NoLostWakeup, Push
  <2>3. CASE r = q
    BY <2>1, <2>2, <2>3 DEF QueuesInv, QueuesTypeOK, Push
  <2>4. CASE r # q
    BY <2>1, <2>2, <2>4 DEF QueuesInv, QueuesTypeOK, Push
  <2>. QED
    BY <2>3, <2>4
<1>. QED
  BY <1>1, <1>2 DEF QueuesInv, NoLostWakeup

\* A notification wakes a sleeper, which is awake in pop then; if there is no
\* sleeper, there is nothing to show.
LEMMA NotifyStep ==
  ASSUME QueuesInv, NEW q \in Que, Notify(q)
  PROVE  QueuesInv'
<1>1. QueuesTypeOK'
  <2>1. notifying' \in [Que -> Nat] /\ queue' = queue
    BY DEF QueuesInv, QueuesTypeOK, Notify
  <2>2. CASE UNCHANGED <<asleep, popping>>
    BY <2>1, <2>2 DEF QueuesInv, QueuesTypeOK
  <2>3. ASSUME NEW t \in asleep[q],
               asleep' = [asleep EXCEPT ![q] = @ \ {t}],
               popping' = [popping EXCEPT ![q] = @ \cup {t}]
        PROVE  QueuesTypeOK'
    BY <2>1, <2>3 DEF QueuesInv, QueuesTypeOK
  <2>. QED
    BY <2>2, <2>3 DEF Notify
<1>2. ASSUME NEW r \in Que, asleep'[r] # {}
      PROVE  Len(queue'[r]) <= Cardinality(popping'[r]) + notifying'[r]
  <2>1. CASE r # q
    BY <1>2, <2>1 DEF QueuesInv, QueuesTypeOK, NoLostWakeup, Notify
  <2>2. CASE r = q
    <3>1. PICK t \in asleep[q] :
            /\ asleep' = [asleep EXCEPT ![q] = @ \ {t}]
            /\ popping' = [popping EXCEPT ![q] = @ \cup {t}]
      BY <1>2, <2>2 DEF Notify
    <3>2. /\ t \in Consumer /\ t \notin popping[q] /\ popping[q] \in SUBSET Consumer
          /\ notifying[q] \in Nat /\ queue[q] \in Seq(Elem)
      BY DEF QueuesInv, QueuesTypeOK
    <3>3. /\ Cardinality(popping[q]) \in Nat
          /\ Cardinality(popping[q] \cup {t}) = Cardinality(popping[q]) + 1
      BY <3>2, Counts
    <3>4. /\ popping'[q] = popping[q] \cup {t}
          /\ notifying'[q] = notifying[q] - 1 /\ queue'[q] = queue[q]
      BY <3>1 DEF QueuesInv, QueuesTypeOK, Notify
    <3>5. Len(queue[q]) <= Cardinality(popping[q]) + notifying[q]
      BY <3>1 DEF QueuesInv, NoLostWakeup
    <3>. QED
      BY <2>2, <3>2, <3>3, <3>4, <3>5
  <2>. QED
    BY <2>1, <2>2
<1>. QED
  BY <1>1, <1>2 DEF QueuesInv, NoLostWakeup

\* A thread that begins to pop, or wakes for no reason, is one more awake.
LEMMA AwakeStep ==
  ASSUME QueuesInv, NEW q \in Que, NEW t \in Consumer, Enter(q, t) \/ Wake(q, t)
  PROVE  QueuesInv'
<1>1. QueuesTypeOK'
  <2>1. CASE Enter(q, t)
    BY <2>1 DEF QueuesInv, QueuesTypeOK, Enter
  <2>2. CASE Wake(q, t)
    BY <2>2 DEF QueuesInv, QueuesTypeOK, Wake
  <2>. QED
    BY <2>1, <2>2
<1>2. ASSUME NEW r \in Que, asleep'[r] # {}
      PROVE  Len(queue'[r]) <= Cardinality(popping'[r]) + notifying'[r]
  <2>1. CASE r # q
    BY <1>2, <2>1 DEF QueuesInv, QueuesTypeOK, NoLostWakeup, Enter, Wake
  <2>2. CASE r = q
    <3>1. /\ popping[q] \in SUBSET Consumer /\ t \notin popping[q]
          /\ notifying[q] \in Nat /\ queue[q] \in Seq(Elem)
      BY DEF QueuesInv, QueuesTypeOK, Enter, Wake
    <3>2. /\ Cardinality(popping[q]) \in Nat
          /\ Cardinality(popping[q] \cup {t}) = Cardinality(popping[q]) + 1
      BY <3>1, Counts
    <3>3. /\ popping'[q] = popping[q] \cup {t} /\ asleep[q] # {}
          /\ notifying' = notifying /\ queue' = queue
      BY <1>2, <2>2 DEF QueuesInv, QueuesTypeOK, Enter, Wake
    <3>4. Len(queue[q]) <= Cardinality(popping[q]) + notifying[q]
      BY <3>3 DEF QueuesInv, NoLostWakeup
    <3>. QED
      BY <2>2, <3>1, <3>2, <3>3, <3>4
  <2>. QED
    BY <2>1, <2>2
<1>. QED
  BY <1>1, <1>2 DEF QueuesInv, NoLostWakeup

\* A thread goes to sleep only when there is nothing for it.
LEMMA WaitStep ==
  ASSUME QueuesInv, NEW q \in Que, NEW t \in Consumer, Wait(q, t)
  PROVE  QueuesInv'
<1>1. QueuesTypeOK'
  BY DEF QueuesInv, QueuesTypeOK, Wait
<1>2. ASSUME NEW r \in Que, asleep'[r] # {}
      PROVE  Len(queue'[r]) <= Cardinality(popping'[r]) + notifying'[r]
  <2>1. CASE r # q
    BY <1>2, <2>1 DEF QueuesInv, QueuesTypeOK, NoLostWakeup, Wait
  <2>2. CASE r = q
    <3>1. popping'[q] \in SUBSET Consumer /\ notifying'[q] \in Nat
      BY <1>1 DEF QueuesTypeOK
    <3>2. Cardinality(popping'[q]) \in Nat
      BY <3>1, ConsumerAssumption, FS_Subset, FS_CardinalityType
    <3>3. Len(queue'[q]) = 0
      BY DEF Wait
    <3>. QED
      BY <2>2, <3>1, <3>2, <3>3
  <2>. QED
    BY <2>1, <2>2
<1>. QED
  BY <1>1, <1>2 DEF QueuesInv, NoLostWakeup

\* A thread that leaves pop takes an element with it.
LEMMA PopStep ==
  ASSUME QueuesInv, NEW q \in Que, NEW t \in Consumer, NEW x, Pop(q, t, x)
  PROVE  QueuesInv'
<1>1. /\ popping[q] \in SUBSET Consumer /\ t \in popping[q]
      /\ notifying[q] \in Nat /\ queue[q] \in Seq(Elem) /\ queue[q] # << >>
  BY DEF QueuesInv, QueuesTypeOK, Pop
<1>2. Tail(queue[q]) \in Seq(Elem) /\ Len(Tail(queue[q])) = Len(queue[q]) - 1
  BY <1>1
<1>3. QueuesTypeOK'
  BY <1>2 DEF QueuesInv, QueuesTypeOK, Pop
<1>4. ASSUME NEW r \in Que, asleep'[r] # {}
      PROVE  Len(queue'[r]) <= Cardinality(popping'[r]) + notifying'[r]
  <2>1. CASE r # q
    BY <1>4, <2>1 DEF QueuesInv, QueuesTypeOK, NoLostWakeup, Pop
  <2>2. CASE r = q
    <3>1. /\ Cardinality(popping[q]) \in Nat
          /\ Cardinality(popping[q] \ {t}) = Cardinality(popping[q]) - 1
      BY <1>1, Counts
    <3>2. /\ popping'[q] = popping[q] \ {t} /\ queue'[q] = Tail(queue[q])
          /\ notifying' = notifying /\ asleep[q] # {}
      BY <1>4, <2>2 DEF QueuesInv, QueuesTypeOK, Pop
    <3>3. Len(queue[q]) <= Cardinality(popping[q]) + notifying[q]
      BY <3>2 DEF QueuesInv, NoLostWakeup
    <3>. QED
      BY <1>1, <1>2, <2>2, <3>1, <3>2, <3>3
  <2>. QED
    BY <2>1, <2>2
<1>. QED
  BY <1>3, <1>4 DEF QueuesInv, NoLostWakeup

\* The invariant of the queues is inductive.
LEMMA QueuesStep == QueuesInv /\ [NextQueues]_queues => QueuesInv'
<1> SUFFICES ASSUME QueuesInv, [NextQueues]_queues PROVE QueuesInv'
  OBVIOUS
<1>1. CASE UNCHANGED queues
  BY <1>1 DEF QueuesInv, QueuesTypeOK, NoLostWakeup, queues
<1>2. CASE NextQueues
  BY <1>2, PushStep, NotifyStep, AwakeStep, WaitStep, PopStep DEF NextQueues
<1>. QED
  BY <1>1, <1>2

\* MsgQueue by itself, whatever threads push and pop: no element is left to
\* threads that all sleep.
THEOREM QueuesLoseNoWakeup == QueuesSpec => []NoLostWakeup
<1>1. QueuesInv => NoLostWakeup
  BY DEF QueuesInv
<1>. QED
  BY <1>1, QueuesInit, QueuesStep, PTL DEF QueuesSpec

-----------------------------------------------------------------------------
\* What the send thread holds and what the connections carry are messages.
InTransit ==
  /\ holding \in Msg \cup {NoMsg}
  /\ conns \subseteq [msg : Msg, next : {"header", "body"}, intact : BOOLEAN]

\* Nothing is on its way at first.
LEMMA TransitInit == Init => InTransit
BY DEF Init, InTransit

\* What is held or carried was taken from the send queue, or held before.
LEMMA TransitStep == InTransit /\ [Next]_vars => InTransit'
<1> SUFFICES ASSUME InTransit, [Next]_vars PROVE InTransit'
  OBVIOUS
<1>1. ASSUME NEW m \in Msg, send(m) PROVE InTransit'
  BY <1>1 DEF send, net, InTransit
<1>2. CASE get_writable_msg
  BY <1>2 DEF get_writable_msg, InTransit
<1>3. CASE ConnectFails
  BY <1>3 DEF ConnectFails, InTransit
<1>4. CASE Write
  <2>1. holding \in Msg /\ holding' = NoMsg
    BY <1>4 DEF Write, InTransit
  <2>2. PICK i \in BOOLEAN :
          conns' = conns \cup {[msg |-> holding, next |-> "header", intact |-> i]}
    BY <1>4 DEF Write
  <2>. QED
    BY <2>1, <2>2 DEF InTransit
<1>5. ASSUME NEW c \in conns, handle_header(c) PROVE InTransit'
  <2>1. /\ holding' = holding
        /\ conns' \subseteq conns \cup {[c EXCEPT !.next = "body"]}
    BY <1>5 DEF handle_header
  <2>2. [c EXCEPT !.next = "body"]
          \in [msg : Msg, next : {"header", "body"}, intact : BOOLEAN]
    BY DEF InTransit
  <2>. QED
    BY <2>1, <2>2 DEF InTransit
<1>6. ASSUME NEW c \in conns, handle_body(c) \/ handle_garbled(c) PROVE InTransit'
  BY <1>6 DEF handle_body, handle_garbled, InTransit
<1>7. ASSUME NEW h \in Host, NEW t \in HandlersOf[h], recv(h, t) PROVE InTransit'
  BY <1>7 DEF recv, net, InTransit
<1>8. ASSUME NEW q \in Que, notify_one(q) PROVE InTransit'
  BY <1>8 DEF notify_one, net, InTransit
<1>9. ASSUME NEW q \in Que, NEW t \in Consumer, Spurious(q, t) PROVE InTransit'
  BY <1>9 DEF Spurious, net, InTransit
<1>10. CASE UNCHANGED vars
  BY <1>10 DEF vars, net, InTransit
<1>. QED
  BY <1>1, <1>2, <1>3, <1>4, <1>5, <1>6, <1>7, <1>8, <1>9, <1>10
     DEF Next, Receive

\* Every step of the network is one of the queues, or leaves them alone.
LEMMA NetworkSteps == InTransit /\ [Next]_vars => [NextQueues]_queues
<1> SUFFICES ASSUME InTransit, [Next]_vars PROVE [NextQueues]_queues
  OBVIOUS
<1> USE NetworkAssumption
<1>1. ASSUME NEW m \in Msg, send(m) PROVE NextQueues
  BY <1>1 DEF send, NextQueues
<1>2. ASSUME get_writable_msg PROVE NextQueues
  BY <1>2 DEF get_writable_msg, NextQueues
<1>3. ASSUME ConnectFails \/ Write PROVE UNCHANGED queues
  BY <1>3 DEF ConnectFails, Write
<1>4. ASSUME NEW c \in conns, Receive(c) PROVE [NextQueues]_queues
  <2>1. To[c.msg] \in Que /\ c.msg \in Elem
    BY DEF InTransit
  <2>2. CASE handle_header(c)
    BY <2>2 DEF handle_header
  <2>3. CASE handle_body(c)
    BY <2>1, <2>3 DEF handle_body, NextQueues
  <2>4. CASE handle_garbled(c)
    BY <2>1, <2>4 DEF handle_garbled, NextQueues
  <2>. QED
    BY <1>4, <2>2, <2>3, <2>4 DEF Receive
<1>5. ASSUME NEW h \in Host, NEW t \in HandlersOf[h], recv(h, t) PROVE NextQueues
  <2>1. h \in Que /\ t \in Consumer
    OBVIOUS
  <2>. QED
    BY <1>5, <2>1 DEF recv, NextQueues
<1>6. ASSUME NEW q \in Que, notify_one(q) PROVE NextQueues
  BY <1>6 DEF notify_one, NextQueues
<1>7. ASSUME NEW q \in Que, NEW t \in Consumer, Spurious(q, t) PROVE NextQueues
  BY <1>7 DEF Spurious, NextQueues
<1>8. CASE UNCHANGED vars
  BY <1>8 DEF vars
<1>. QED
  BY <1>1, <1>2, <1>3, <1>4, <1>5, <1>6, <1>7, <1>8 DEF Next

\* The network uses its queues as the threads of MsgQueue may.
THEOREM NetworkUsesQueues == Spec => QueuesSpec
<1>1. Init => InitQueues
  BY DEF Init
<1>. QED
  BY <1>1, TransitInit, TransitStep, NetworkSteps, PTL DEF Spec, QueuesSpec

\* No thread of the network sleeps on while a queue has work that nobody is
\* awake or about to be woken for.
THEOREM NoWakeupIsLost == Spec => []NoLostWakeup
BY NetworkUsesQueues, QueuesLoseNoWakeup, PTL

-----------------------------------------------------------------------------
(* The promise of Channel: a message is in one place at a time.            *)

Carried == {c.msg : c \in conns}
OnWay == (InQueues \cup {holding} \cup Carried) \ {NoMsg, Garbled}

\* A message is in one queue at most, and once.
Distinct ==
  \A q, r \in Que : \A n \in DOMAIN queue[q], k \in DOMAIN queue[r] :
    queue[q][n] = queue[r][k] /\ queue[q][n] \in Msg => q = r /\ n = k

\* A message is in a queue, held by the send thread, in a connection or
\* handled, and what comes garbled is long.
Placed ==
  /\ sent \subseteq Msg /\ handled \subseteq sent /\ lost \subseteq sent
  /\ io \in [Host -> BOOLEAN]
  /\ InQueues \cap Msg \subseteq sent /\ Carried \subseteq sent
  /\ holding = NoMsg \/ holding \in sent
  /\ Distinct
  /\ holding \notin InQueues \cup Carried /\ InQueues \cap Carried = {}
  /\ handled \cap (InQueues \cup {holding} \cup Carried) = {}
  /\ \A c, d \in conns : c.msg = d.msg => c = d
  /\ \A c \in conns : ~c.intact => Size[c.msg] = "long"

NetInv == QueuesInv /\ InTransit /\ Placed

\* A push adds its element to what is queued.
LEMMA PushSets ==
  ASSUME QueuesTypeOK, NEW q \in Que, NEW x \in Elem, Push(q, x)
  PROVE  /\ InQueues' = InQueues \cup {x}
         /\ Distinct /\ (x \in Msg => x \notin InQueues) => Distinct'
<1>1. /\ queue[q] \in Seq(Elem) /\ queue'[q] = Append(queue[q], x)
      /\ \A r \in Que \ {q} : queue'[r] = queue[r]
      /\ \A r \in Que : queue[r] \in Seq(Elem)
  BY DEF QueuesTypeOK, Push
<1>2. /\ DOMAIN queue'[q] = DOMAIN queue[q] \cup {Len(queue[q]) + 1}
      /\ \A n \in DOMAIN queue[q] : queue'[q][n] = queue[q][n]
      /\ queue'[q][Len(queue[q]) + 1] = x
      /\ Len(queue[q]) + 1 \notin DOMAIN queue[q]
  BY <1>1
<1>0. \A r \in Que : \A n \in DOMAIN queue[r] : queue'[r][n] = queue[r][n]
  BY <1>1, <1>2
<1>3. \A y : y \in InQueues <=> \E r \in Que : \E n \in DOMAIN queue[r] : y = queue[r][n]
  BY DEF InQueues
<1>4. \A y : y \in InQueues' <=> \E r \in Que : \E n \in DOMAIN queue'[r] : y = queue'[r][n]
  BY DEF InQueues
<1>5. InQueues' \subseteq InQueues \cup {x}
  <2>1. ASSUME NEW r \in Que, NEW n \in DOMAIN queue'[r]
        PROVE  queue'[r][n] \in InQueues \cup {x}
    BY <1>1, <1>2, <1>3, <2>1
  <2>. QED
    BY <1>4, <2>1
<1>6. InQueues \cup {x} \subseteq InQueues'
  <2>1. x \in InQueues'
    BY <1>2, <1>4
  <2>2. ASSUME NEW r \in Que, NEW n \in DOMAIN queue[r] PROVE queue[r][n] \in InQueues'
    <3>1. n \in DOMAIN queue'[r] /\ queue'[r][n] = queue[r][n]
      BY <1>1, <1>2
    <3>. QED
      BY <1>4, <3>1
  <2>. QED
    BY <1>3, <2>1, <2>2
<1>7. ASSUME Distinct, x \in Msg => x \notin InQueues PROVE Distinct'
  <2> SUFFICES ASSUME NEW r \in Que, NEW s \in Que, NEW n \in DOMAIN queue'[r],
                      NEW k \in DOMAIN queue'[s],
                      queue'[r][n] = queue'[s][k], queue'[r][n] \in Msg
               PROVE  r = s /\ n = k
    BY DEF Distinct
  <2>1. CASE n \in DOMAIN queue[r] /\ k \in DOMAIN queue[s]
    <3>1. queue'[r][n] = queue[r][n] /\ queue'[s][k] = queue[s][k]
      BY <1>0, <2>1
    <3>2. queue[r][n] = queue[s][k] /\ queue[r][n] \in Msg
      BY <3>1
    <3>. QED
      BY <1>7, <2>1, <3>2 DEF Distinct
  <2>2. n \notin DOMAIN queue[r] => r = q /\ n = Len(queue[q]) + 1 /\ queue'[r][n] = x
    BY <1>1, <1>2
  <2>3. k \notin DOMAIN queue[s] => s = q /\ k = Len(queue[q]) + 1 /\ queue'[s][k] = x
    BY <1>1, <1>2
  <2>4. n \in DOMAIN queue[r] => queue'[r][n] \in InQueues
    BY <1>1, <1>2, <1>3
  <2>5. k \in DOMAIN queue[s] => queue'[s][k] \in InQueues
    BY <1>1, <1>2, <1>3
  <2>. QED
    BY <1>7, <2>1, <2>2, <2>3, <2>4, <2>5
<1>. QED
  BY <1>5, <1>6, <1>7

\* A pop takes its element away, for good if it is a message.
LEMMA PopSets ==
  ASSUME QueuesTypeOK, Distinct, NEW q \in Que, NEW t, NEW x, Pop(q, t, x)
  PROVE  /\ Distinct' /\ x \in InQueues /\ InQueues' \subseteq InQueues
         /\ InQueues \ {x} \subseteq InQueues' /\ (x \in Msg => x \notin InQueues')
<1>1. /\ queue[q] \in Seq(Elem) /\ queue[q] # << >> /\ queue'[q] = Tail(queue[q])
      /\ x = Head(queue[q])
      /\ \A r \in Que \ {q} : queue'[r] = queue[r]
      /\ \A r \in Que : queue[r] \in Seq(Elem)
  BY DEF QueuesTypeOK, Pop
<1>2. /\ x = queue[q][1] /\ 1 \in DOMAIN queue[q] /\ DOMAIN queue[q] \subseteq Nat
      /\ \A n \in DOMAIN queue'[q] : n \in Nat /\ n + 1 \in DOMAIN queue[q]
                                       /\ n + 1 # 1 /\ queue'[q][n] = queue[q][n + 1]
      /\ \A n \in DOMAIN queue[q] : n # 1 => n - 1 \in DOMAIN queue'[q]
                                       /\ queue'[q][n - 1] = queue[q][n]
  BY <1>1
<1>3. \A y : y \in InQueues <=> \E r \in Que : \E n \in DOMAIN queue[r] : y = queue[r][n]
  BY DEF InQueues
<1>4. \A y : y \in InQueues' <=> \E r \in Que : \E n \in DOMAIN queue'[r] : y = queue'[r][n]
  BY DEF InQueues
<1>5. x \in InQueues
  BY <1>2, <1>3
<1>6. InQueues' \subseteq InQueues
  <2>1. ASSUME NEW r \in Que, NEW n \in DOMAIN queue'[r] PROVE queue'[r][n] \in InQueues
    <3>1. CASE r # q
      BY <1>1, <1>3, <2>1, <3>1
    <3>2. CASE r = q
      BY <1>2, <1>3, <2>1, <3>2
    <3>. QED
      BY <3>1, <3>2
  <2>. QED
    BY <1>4, <2>1
<1>7. InQueues \ {x} \subseteq InQueues'
  <2>1. ASSUME NEW r \in Que, NEW n \in DOMAIN queue[r], queue[r][n] # x
        PROVE  queue[r][n] \in InQueues'
    <3>1. CASE r # q
      BY <1>1, <1>4, <2>1, <3>1
    <3>2. CASE r = q
      BY <1>2, <1>4, <2>1, <3>2
    <3>. QED
      BY <3>1, <3>2
  <2>. QED
    BY <1>3, <2>1
<1>8. x \in Msg => x \notin InQueues'
  <2>1. ASSUME NEW r \in Que, NEW n \in DOMAIN queue'[r], queue'[r][n] = x, x \in Msg
        PROVE  FALSE
    <3>1. CASE r # q
      BY <1>1, <1>2, <2>1, <3>1 DEF Distinct
    <3>2. CASE r = q
      BY <1>2, <2>1, <3>2 DEF Distinct
    <3>. QED
      BY <3>1, <3>2
  <2>. QED
    BY <1>4, <2>1
<1>9. Distinct'
  <2> SUFFICES ASSUME NEW r \in Que, NEW s \in Que, NEW n \in DOMAIN queue'[r],
                      NEW k \in DOMAIN queue'[s],
                      queue'[r][n] = queue'[s][k], queue'[r][n] \in Msg
               PROVE  r = s /\ n = k
    BY DEF Distinct
  <2> DEFINE Was(u, j) == IF u = q THEN j + 1 ELSE j
  <2>1. /\ Was(r, n) \in DOMAIN queue[r] /\ queue[r][Was(r, n)] = queue'[r][n]
        /\ Was(s, k) \in DOMAIN queue[s] /\ queue[s][Was(s, k)] = queue'[s][k]
    BY <1>1, <1>2
  <2>2. r = s /\ Was(r, n) = Was(s, k)
    <3>. HIDE DEF Was
    <3>. QED
      BY <2>1 DEF Distinct
  <2>3. r = q => n \in Nat /\ k \in Nat
    BY <1>2, <2>2
  <2>. QED
    BY <2>2, <2>3
<1>. QED
  BY <1>5, <1>6, <1>7, <1>8, <1>9

\* What a step has to do to keep messages in one place, and to be a step of
\* Channel or none.
Keeps == Placed' /\ [Promise!Next]_(Promise!vars)

\* The promise sees a step by what it does to three sets.
LEMMA PromiseStep ==
  ASSUME \/ sent' = sent /\ OnWay' = OnWay /\ handled' = handled
         \/ \E m \in Msg :
              \/ /\ m \notin sent /\ sent' = sent \cup {m} /\ OnWay' = OnWay \cup {m}
                 /\ handled' = handled
              \/ /\ m \in OnWay /\ OnWay' = OnWay \ {m} /\ handled' = handled \cup {m}
                 /\ sent' = sent
              \/ /\ m \in OnWay
                 /\ To[m] \in Down \/ Size[m] # "small"
                 /\ OnWay' = OnWay \ {m} /\ handled' = handled /\ sent' = sent
  PROVE  [Promise!Next]_(Promise!vars)
<1>1. CASE sent' = sent /\ OnWay' = OnWay /\ handled' = handled
  BY <1>1 DEF Promise!vars, OnWay, Carried
<1>2. ASSUME NEW m \in Msg, m \notin sent, sent' = sent \cup {m}, OnWay' = OnWay \cup {m},
             handled' = handled
      PROVE  Promise!Send(m)
  BY <1>2 DEF Promise!Send, OnWay, Carried
<1>3. ASSUME NEW m \in Msg, m \in OnWay, OnWay' = OnWay \ {m}, sent' = sent,
             handled' = handled \cup {m}
      PROVE  Promise!Handle(m)
  BY <1>3 DEF Promise!Handle, OnWay, Carried
<1>4. ASSUME NEW m \in Msg, m \in OnWay, To[m] \in Down \/ Size[m] # "small",
             OnWay' = OnWay \ {m}, handled' = handled, sent' = sent
      PROVE  Promise!Lose(m)
  BY <1>4 DEF Promise!Lose, OnWay, Carried
<1>. QED
  BY <1>1, <1>2, <1>3, <1>4 DEF Promise!Next

\* What a step leaves alone stays where it is.
LEMMA StaySets ==
  /\ UNCHANGED queues => InQueues' = InQueues /\ Distinct' = Distinct
  /\ UNCHANGED conns => Carried' = Carried
BY DEF queues, InQueues, Distinct, Carried

\* What is queued are elements, and no message is one of the two that are none.
LEMMA QueuedAre ==
  ASSUME QueuesTypeOK
  PROVE  InQueues \subseteq Elem /\ NoMsg \notin Msg /\ Garbled \notin Msg
         /\ Garbled \in Elem /\ Msg \subseteq Elem
<1>1. ASSUME NEW q \in Que, NEW n \in DOMAIN queue[q] PROVE queue[q][n] \in Elem
  <2>1. queue[q] \in Seq(Elem)
    BY DEF QueuesTypeOK
  <2>. QED
    BY <2>1
<1>. QED
  BY <1>1, NetworkAssumption DEF InQueues

\* The steps of the sending host.
LEMMA SendKeeps ==
  ASSUME NetInv, (\E m \in Msg : send(m)) \/ get_writable_msg \/ ConnectFails \/ Write
  PROVE  Keeps
<1> USE DEF NetInv, Placed
<1>0. /\ QueuesTypeOK /\ InQueues \subseteq Elem /\ NoMsg \notin Msg /\ Garbled \notin Msg
      /\ Msg \subseteq Elem /\ Source \in Que
  BY QueuedAre, NetworkAssumption DEF QueuesInv
<1>1. ASSUME NEW m \in Msg, send(m) PROVE Keeps
  <2>1. /\ m \notin sent /\ sent' = sent \cup {m} /\ Push(Source, m)
        /\ UNCHANGED <<holding, conns, io, handled, lost>>
    BY <1>1 DEF send, net
  <2>2. m \notin InQueues /\ m # holding /\ m \notin Carried
    BY <2>1, <1>0
  <2>3. InQueues' = InQueues \cup {m} /\ Distinct' /\ Carried' = Carried
    BY <1>0, <2>1, <2>2, PushSets, StaySets
  <2>4. Placed'
    BY <1>0, <2>1, <2>2, <2>3
  <2>5. OnWay' = OnWay \cup {m}
    BY <1>0, <2>1, <2>3 DEF OnWay
  <2>. QED
    BY <2>1, <2>4, <2>5, PromiseStep DEF Keeps
<1>2. CASE get_writable_msg
  <2>1. holding = NoMsg /\ UNCHANGED <<sent, conns, io, handled, lost>>
    BY <1>2 DEF get_writable_msg
  <2>2. CASE (Enter(Source, Sender) \/ Wait(Source, Sender)) /\ UNCHANGED holding
    <3>1. queue' = queue
      BY <2>2 DEF Enter, Wait
    <3>2. InQueues' = InQueues /\ Distinct' /\ Carried' = Carried
      BY <2>1, <3>1, StaySets DEF InQueues, Distinct
    <3>3. Placed' /\ OnWay' = OnWay
      BY <2>1, <2>2, <3>2 DEF OnWay
    <3>. QED
      BY <2>1, <3>3, PromiseStep DEF Keeps
  <2>3. ASSUME NEW m \in Msg, Pop(Source, Sender, m), holding' = m PROVE Keeps
    <3>1. /\ Distinct' /\ m \in InQueues /\ InQueues' = InQueues \ {m}
          /\ Carried' = Carried
      BY <1>0, <2>1, <2>3, PopSets, StaySets
    <3>2. Placed'
      BY <1>0, <2>1, <2>3, <3>1
    <3>3. OnWay' = OnWay
      BY <1>0, <2>1, <2>3, <3>1 DEF OnWay
    <3>. QED
      BY <2>1, <3>2, <3>3, PromiseStep DEF Keeps
  <2>. QED
    BY <1>2, <2>2, <2>3 DEF get_writable_msg
<1>3. CASE ConnectFails
  <2>1. /\ holding # NoMsg /\ To[holding] \in Down /\ holding' = NoMsg
        /\ lost' = lost \cup {holding} /\ holding \in Msg /\ holding \in sent
        /\ UNCHANGED <<sent, queues, conns, io, handled>>
    BY <1>3 DEF ConnectFails
  <2>2. InQueues' = InQueues /\ Distinct' /\ Carried' = Carried
    BY <2>1, StaySets
  <2>3. Placed'
    BY <1>0, <2>1, <2>2, NetworkAssumption
  <2>4. OnWay' = OnWay \ {holding} /\ holding \in OnWay
    BY <1>0, <2>1, <2>2 DEF OnWay
  <2>. QED
    BY <2>1, <2>3, <2>4, PromiseStep DEF Keeps
<1>4. CASE Write
  <2>1. PICK i \in {TRUE, Size[holding] # "long"} :
          conns' = conns \cup {[msg |-> holding, next |-> "header", intact |-> i]}
    BY <1>4 DEF Write
  <2>2. /\ holding # NoMsg /\ holding' = NoMsg /\ holding \in Msg /\ holding \in sent
        /\ UNCHANGED <<sent, queues, io, handled, lost>>
    BY <1>4 DEF Write
  <2> DEFINE n == [msg |-> holding, next |-> "header", intact |-> i]
  <2>3. conns' = conns \cup {n} /\ n.msg = holding
    BY <2>1
  <2>4. ~n.intact => Size[n.msg] = "long"
    BY Zenon
  <2>. HIDE DEF n
  <2>5. Carried' = Carried \cup {holding}
    BY <2>3 DEF Carried
  <2>6. InQueues' = InQueues /\ Distinct' /\ Carried' = Carried \cup {holding}
    BY <2>2, <2>5, StaySets
  <2>7. \A c \in conns : c.msg # holding
    BY DEF Carried
  <2>8. /\ \A c, d \in conns' : c.msg = d.msg => c = d
        /\ \A c \in conns' : ~c.intact => Size[c.msg] = "long"
    BY <2>3, <2>4, <2>7
  <2>9. Placed'
    BY <1>0, <2>2, <2>6, <2>8, NetworkAssumption
  <2>10. OnWay' = OnWay
    BY <1>0, <2>2, <2>6 DEF OnWay
  <2>. QED
    BY <2>2, <2>9, <2>10, PromiseStep DEF Keeps
<1>. QED
  BY <1>1, <1>2, <1>3, <1>4

\* The steps of the io thread of a host.
LEMMA ReceiveKeeps ==
  ASSUME NetInv, NEW c \in conns, Receive(c)
  PROVE  Keeps
<1> USE DEF NetInv, Placed
<1>0. /\ QueuesTypeOK /\ InQueues \subseteq Elem /\ NoMsg \notin Msg /\ Garbled \notin Msg
      /\ Msg \subseteq Elem /\ Garbled \in Elem /\ NoMsg \notin Elem
      /\ c.msg \in Msg /\ c.msg \in sent /\ c.msg \in Carried /\ To[c.msg] \in Que
      /\ c.msg \in OnWay
      /\ c \in [msg : Msg, next : {"header", "body"}, intact : BOOLEAN]
  <2>1. /\ c.msg \in Msg /\ c.msg \in sent /\ c.msg \in Carried
        /\ c \in [msg : Msg, next : {"header", "body"}, intact : BOOLEAN]
    BY DEF InTransit, Carried
  <2>. QED
    BY <2>1, QueuedAre, NetworkAssumption DEF QueuesInv, OnWay
<1>1. ASSUME conns' = conns \ {c}
      PROVE  /\ Carried' = Carried \ {c.msg}
             /\ \A d, e \in conns' : d.msg = e.msg => d = e
             /\ \A d \in conns' : ~d.intact => Size[d.msg] = "long"
  BY <1>1 DEF Carried
<1>2. CASE handle_header(c) /\ Size[c.msg] = "oversize"
  <2>1. /\ conns' = conns \ {c} /\ lost' = lost \cup {c.msg}
        /\ UNCHANGED <<sent, queues, holding, io, handled>>
    BY <1>2 DEF handle_header
  <2>2. InQueues' = InQueues /\ Distinct'
    BY <2>1, StaySets
  <2>3. Placed'
    BY <1>0, <1>1, <2>1, <2>2
  <2>4. OnWay' = OnWay \ {c.msg}
    BY <1>0, <1>1, <2>1, <2>2 DEF OnWay
  <2>. QED
    BY <1>0, <1>2, <2>1, <2>3, <2>4, PromiseStep DEF Keeps
<1>3. CASE handle_header(c) /\ Size[c.msg] # "oversize"
  <2> DEFINE b == [c EXCEPT !.next = "body"]
  <2>1. /\ conns' = (conns \ {c}) \cup {b}
        /\ UNCHANGED <<sent, queues, holding, io, handled, lost>>
    BY <1>3 DEF handle_header
  <2>2. b.msg = c.msg /\ b.intact = c.intact
    BY <1>0
  <2>. HIDE DEF b
  <2>3. InQueues' = InQueues /\ Distinct'
    BY <2>1, StaySets
  <2>4. Carried' = Carried
    BY <2>1, <2>2 DEF Carried
  <2>5. /\ \A d, e \in conns' : d.msg = e.msg => d = e
        /\ \A d \in conns' : ~d.intact => Size[d.msg] = "long"
    BY <2>1, <2>2
  <2>6. Placed' /\ OnWay' = OnWay
    BY <2>1, <2>3, <2>4, <2>5 DEF OnWay
  <2>. QED
    BY <2>1, <2>6, PromiseStep DEF Keeps
<1>4. CASE handle_body(c)
  <2>1. /\ conns' = conns \ {c} /\ Push(To[c.msg], c.msg)
        /\ UNCHANGED <<sent, holding, io, handled, lost>>
    BY <1>4 DEF handle_body
  <2>2. InQueues' = InQueues \cup {c.msg} /\ Distinct'
    BY <1>0, <2>1, PushSets
  <2>3. Placed'
    BY <1>0, <1>1, <2>1, <2>2
  <2>4. OnWay' = OnWay
    BY <1>0, <1>1, <2>1, <2>2 DEF OnWay
  <2>. QED
    BY <2>1, <2>3, <2>4, PromiseStep DEF Keeps
<1>5. CASE handle_garbled(c)
  <2>1. /\ conns' = conns \ {c} /\ lost' = lost \cup {c.msg} /\ Size[c.msg] = "long"
        /\ UNCHANGED <<sent, holding, handled>>
    BY <1>5 DEF handle_garbled
  <2>2. /\ InQueues' \in {InQueues, InQueues \cup {Garbled}} /\ Distinct'
        /\ io' \in [Host -> BOOLEAN]
    BY <1>0, <1>5, PushSets, StaySets DEF handle_garbled
  <2>3. Garbled # holding /\ Garbled \notin Carried /\ Garbled \notin sent
    <3>1. holding # Garbled
      BY <1>0
    <3>. QED
      BY <1>0, <3>1
  <2>4. Placed'
    BY <1>0, <1>1, <2>1, <2>2, <2>3
  <2>5. OnWay' = OnWay \ {c.msg}
    BY <1>0, <1>1, <2>1, <2>2 DEF OnWay
  <2>. QED
    BY <1>0, <2>1, <2>4, <2>5, PromiseStep DEF Keeps
<1>. QED
  BY <1>2, <1>3, <1>4, <1>5 DEF Receive

\* The steps of the handler threads.
LEMMA RecvKeeps ==
  ASSUME NetInv, NEW h \in Host, NEW t \in HandlersOf[h], recv(h, t)
  PROVE  Keeps
<1> USE DEF NetInv, Placed
<1>0. /\ QueuesTypeOK /\ InQueues \subseteq Elem /\ NoMsg \notin Msg /\ Garbled \notin Msg
      /\ h \in Que
  BY QueuedAre, NetworkAssumption DEF QueuesInv
<1>1. UNCHANGED <<sent, holding, conns, io, lost>> /\ Carried' = Carried
  BY StaySets DEF recv, net
<1>2. CASE (Enter(h, t) \/ Wait(h, t)) /\ UNCHANGED handled
  <2>1. queue' = queue
    BY <1>2 DEF Enter, Wait
  <2>2. InQueues' = InQueues /\ Distinct'
    BY <2>1 DEF InQueues, Distinct
  <2>3. Placed' /\ OnWay' = OnWay
    BY <1>1, <1>2, <2>2 DEF OnWay
  <2>. QED
    BY <1>1, <1>2, <2>3, PromiseStep DEF Keeps
<1>3. ASSUME NEW x \in Elem, Pop(h, t, x), handled' = handled \cup ({x} \cap Msg)
      PROVE  Keeps
  <2>1. /\ Distinct' /\ x \in InQueues /\ InQueues' \subseteq InQueues
        /\ InQueues \ {x} \subseteq InQueues' /\ (x \in Msg => x \notin InQueues')
    BY <1>0, <1>3, PopSets
  <2>2. CASE x \in Msg
    <3>1. x \in sent /\ x # holding /\ x \notin Carried /\ x \in OnWay
      BY <1>0, <2>1, <2>2 DEF OnWay
    <3>2. InQueues' = InQueues \ {x} /\ handled' = handled \cup {x}
      BY <1>3, <2>1, <2>2
    <3>3. Placed'
      BY <1>1, <2>1, <3>1, <3>2
    <3>4. OnWay' = OnWay \ {x}
      BY <1>1, <3>1, <3>2 DEF OnWay
    <3>. QED
      BY <1>1, <2>2, <3>1, <3>2, <3>3, <3>4, PromiseStep DEF Keeps
  <2>3. CASE x \notin Msg
    <3>1. handled' = handled /\ x = Garbled
      BY <1>3, <2>3, NetworkAssumption
    <3>2. Placed' /\ OnWay' = OnWay
      BY <1>1, <2>1, <3>1 DEF OnWay
    <3>. QED
      BY <1>1, <3>1, <3>2, PromiseStep DEF Keeps
  <2>. QED
    BY <2>2, <2>3
<1>. QED
  BY <1>2, <1>3 DEF recv

\* Every step keeps messages in one place, and is a step of Channel or none.
LEMMA NetStep == NetInv /\ [Next]_vars => NetInv' /\ [Promise!Next]_(Promise!vars)
<1> SUFFICES ASSUME NetInv, [Next]_vars PROVE NetInv' /\ [Promise!Next]_(Promise!vars)
  OBVIOUS
<1>1. QueuesInv' /\ InTransit'
  BY TransitStep, NetworkSteps, QueuesStep DEF NetInv
<1>2. ASSUME UNCHANGED <<queue, sent, net, handled, lost>> PROVE Keeps
  <2>1. Placed' /\ OnWay' = OnWay
    BY <1>2 DEF NetInv, Placed, net, InQueues, Carried, Distinct, OnWay
  <2>. QED
    BY <1>2, <2>1, PromiseStep DEF Keeps
<1>3. (\E q \in Que : notify_one(q) \/ \E t \in Consumer : Spurious(q, t)) \/ UNCHANGED vars
        => UNCHANGED <<queue, sent, net, handled, lost>>
  BY DEF notify_one, Spurious, Notify, Wake, vars, queues
<1>4. Keeps
  BY <1>2, <1>3, SendKeeps, ReceiveKeeps, RecvKeeps DEF Next
<1>. QED
  BY <1>1, <1>4 DEF Keeps, NetInv

\* Nothing is on its way at first.
LEMMA NetInit == Init => NetInv /\ Promise!Init
<1> SUFFICES ASSUME Init PROVE NetInv /\ Promise!Init
  OBVIOUS
<1>1. QueuesInv /\ InTransit
  BY QueuesInit, TransitInit DEF Init
<1>2. \A q \in Que : queue[q] = << >>
  BY DEF Init, InitQueues
<1>3. InQueues = {} /\ Distinct /\ Carried = {}
  BY <1>2 DEF InQueues, Distinct, Carried, Init
<1>4. Placed /\ OnWay = {}
  BY <1>3 DEF Placed, OnWay, Init
<1>. QED
  BY <1>1, <1>4 DEF NetInv, Promise!Init, OnWay, Carried, Init

\* The network keeps the promise of Channel: a message is on its way until it
\* is handled, once, or lost, and only those to a host that is down and those
\* that are not small can be lost.
THEOREM ChannelKept == Spec => PromiseSpec
<1>. QED
  BY NetInit, NetStep, PTL DEF Spec, PromiseSpec, Promise!Spec

\* The state of the network has its type in every state of every execution;
\* above all, a message is in one connection at most.
THEOREM TypeCorrect == Spec => []TypeOK
<1>1. NetInv => TypeOK
  BY DEF NetInv, Placed, InTransit, QueuesInv, TypeOK, Carried
<1>. QED
  BY NetInit, NetStep, <1>1, PTL DEF Spec
=============================================================================
