------------------------------ MODULE MsgQueue ------------------------------
(***************************************************************************)
(* MsgQueue<T>: the blocking queue between threads.  push appends under    *)
(* the mutex and notifies one sleeper after it has released the mutex; pop *)
(* waits on the condition variable until the queue is not empty.           *)
(*                                                                         *)
(* The mutex is held only inside push and pop, so that a critical section  *)
(* is one action.  What lies between two sections is seen: a push that has *)
(* not notified yet, and a thread that was woken and has not looked yet.   *)
(***************************************************************************)
EXTENDS Integers, FiniteSets, Sequences

CONSTANTS
  Que,       \* the queues
  Consumer,  \* the threads that pop
  Elem       \* what is queued

ASSUME ConsumerAssumption == IsFiniteSet(Consumer)

VARIABLES
  queue,     \* queue[q]: queue_
  popping,   \* popping[q]: threads in pop that are awake
  asleep,    \* asleep[q]: threads that sleep on cond_
  notifying  \* notifying[q]: pushes that have not called notify_one yet

queues == <<queue, popping, asleep, notifying>>

InitQueues ==
  /\ queue = [q \in Que |-> << >>]
  /\ popping = [q \in Que |-> {}] /\ asleep = [q \in Que |-> {}]
  /\ notifying = [q \in Que |-> 0]

\* Mutant of Push: notifies only when the queue was empty.
PushToEmpty(q, x) ==
  /\ queue' = [queue EXCEPT ![q] = Append(@, x)]
  /\ notifying' = [notifying EXCEPT ![q] = IF queue[q] = << >> THEN @ + 1 ELSE @]
  /\ UNCHANGED <<popping, asleep>>

Push(q, x) ==
  /\ queue' = [queue EXCEPT ![q] = Append(@, x)]
  /\ notifying' = [notifying EXCEPT ![q] = @ + 1]
  /\ UNCHANGED <<popping, asleep>>

\* notify_one wakes any one of the sleepers, and is lost when there is none.
Notify(q) ==
  /\ notifying[q] > 0
  /\ notifying' = [notifying EXCEPT ![q] = @ - 1]
  /\ \/ /\ asleep[q] = {}
        /\ UNCHANGED <<asleep, popping>>
     \/ \E t \in asleep[q] :
          /\ asleep' = [asleep EXCEPT ![q] = @ \ {t}]
          /\ popping' = [popping EXCEPT ![q] = @ \cup {t}]
  /\ UNCHANGED queue

Enter(q, t) ==
  /\ t \notin popping[q] \cup asleep[q]
  /\ popping' = [popping EXCEPT ![q] = @ \cup {t}]
  /\ UNCHANGED <<queue, asleep, notifying>>

\* The predicate of the wait is tested under the mutex, which the sleep
\* releases: here no notification can come between the two.
Wait(q, t) ==
  /\ t \in popping[q] /\ queue[q] = << >>
  /\ popping' = [popping EXCEPT ![q] = @ \ {t}]
  /\ asleep' = [asleep EXCEPT ![q] = @ \cup {t}]
  /\ UNCHANGED <<queue, notifying>>

\* A condition variable may wake a sleeper for no reason.
Wake(q, t) ==
  /\ t \in asleep[q]
  /\ asleep' = [asleep EXCEPT ![q] = @ \ {t}]
  /\ popping' = [popping EXCEPT ![q] = @ \cup {t}]
  /\ UNCHANGED <<queue, notifying>>

\* Mutant of Pop: the element stays at the front.
PopKeeps(q, t, x) ==
  /\ t \in popping[q] /\ queue[q] # << >>
  /\ x = Head(queue[q])
  /\ popping' = [popping EXCEPT ![q] = @ \ {t}]
  /\ UNCHANGED <<queue, asleep, notifying>>

\* Whichever thread gets the mutex first takes the front, a thread that has
\* just called pop as well as one that was woken.
Pop(q, t, x) ==
  /\ t \in popping[q] /\ queue[q] # << >>
  /\ x = Head(queue[q])
  /\ queue' = [queue EXCEPT ![q] = Tail(@)]
  /\ popping' = [popping EXCEPT ![q] = @ \ {t}]
  /\ UNCHANGED <<asleep, notifying>>

-----------------------------------------------------------------------------
\* The queues by themselves: any thread may push or pop at any time.
NextQueues ==
  \E q \in Que :
    \/ \E x \in Elem : Push(q, x)
    \/ Notify(q)
    \/ \E t \in Consumer : \/ Enter(q, t) \/ Wait(q, t) \/ Wake(q, t)
                           \/ \E x \in Elem : Pop(q, t, x)

QueuesSpec == InitQueues /\ [][NextQueues]_queues

-----------------------------------------------------------------------------
(* Properties.                                                             *)

QueuesTypeOK ==
  /\ queue \in [Que -> Seq(Elem)]
  /\ popping \in [Que -> SUBSET Consumer]
  /\ asleep \in [Que -> SUBSET Consumer]
  /\ notifying \in [Que -> Nat]
  /\ \A q \in Que : popping[q] \cap asleep[q] = {}

\* push notifies one sleeper, after the mutex: no element is left in the
\* queue to threads that all sleep.  As long as one sleeps, there are as many
\* threads awake in pop or about to be woken as there are elements.
NoLostWakeup ==
  \A q \in Que : asleep[q] # {} =>
    Len(queue[q]) <= Cardinality(popping[q]) + notifying[q]
=============================================================================
