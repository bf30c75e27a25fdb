---------------------------- MODULE WorkerProofs ----------------------------
(***************************************************************************)
(* Proofs about Worker, for every set of worker threads and every number   *)
(* of calls and stages of the benchmark, with or without pauses.           *)
(***************************************************************************)
EXTENDS Worker, FiniteSetTheorems, SequenceTheorems, TLAPS

Item == [type : {"call", "result"}, id : Int]
Local == {Idle, [at |-> "notify"]}
           \cup [at : {"call", "result"}, id : Int]
           \cup [at : {"send"}, job : Int]
           \cup [at : {"note"}, driverId : Nat, job : Int]

\* The kinds of values, without their bounds.
Types ==
  /\ jobQue \in Seq(Item)
  /\ pc \in [Thread -> Local]
  /\ DOMAIN owner = 0 .. opid - 1
  /\ \A d \in DOMAIN jobIdMap : d \in Nat /\ jobIdMap[d] \in Int
  /\ resQue \in Seq([id : Int, driverId : Int])
  /\ jobId \in Nat /\ opid \in Nat /\ testCnt \in Int
  /\ enableFlag \in BOOLEAN
  /\ main \in {"insert", "wait", "check", "asleep", "done"}
  /\ stage \in 0 .. Stages /\ left \in Nat

\* The benchmark: how many calls there are at each stage, and how far testCnt
\* can be counted down.
Paced ==
  /\ left <= (IF stage = 0 THEN Warm ELSE Records)
  /\ jobId + left = Warm + stage * Records
  /\ main # "insert" => left = 0 /\ stage > 0
  /\ testCnt <= Records /\ 0 <= testCnt + Len(resQue)

\* Ids are those that were given out.
Ids ==
  /\ \A n \in DOMAIN jobQue :
       IF jobQue[n].type = "call" THEN jobQue[n].id \in 1 .. jobId
       ELSE jobQue[n].id \in -1 .. opid - 1
  /\ \A t \in Thread :
       /\ pc[t].at = "call" => pc[t].id \in 1 .. jobId
       /\ pc[t].at = "send" => pc[t].job \in 1 .. jobId
       /\ pc[t].at = "result" => pc[t].id \in -1 .. opid - 1
       /\ pc[t].at = "note" => pc[t].job \in 1 .. jobId
  /\ open \subseteq DOMAIN owner
  /\ \A d \in DOMAIN owner : owner[d] \in 1 .. jobId

\* The job of the call that a thread is about to open, 0 for none.
JobOf(t) ==
  IF pc[t].at = "call" THEN pc[t].id
  ELSE IF pc[t].at = "send" THEN pc[t].job ELSE 0

Waits(n, j) == jobQue[n].type = "call" /\ jobQue[n].id = j

\* A call is in one place: in the queue, with a thread, or opened under one
\* driver id.
Apart ==
  /\ \A m, n \in DOMAIN jobQue :
       \A j \in 1 .. jobId : Waits(m, j) /\ Waits(n, j) => m = n
  /\ \A t, u \in Thread : JobOf(t) = JobOf(u) /\ JobOf(t) # 0 => t = u
  /\ \A n \in DOMAIN jobQue, t \in Thread : ~Waits(n, JobOf(t))
  /\ \A n \in DOMAIN jobQue, d \in DOMAIN owner : ~Waits(n, owner[d])
  /\ \A t \in Thread, d \in DOMAIN owner : JobOf(t) # owner[d]
  /\ \A d, e \in DOMAIN owner : owner[d] = owner[e] => d = e

\* The job j is noted, or about to be, under d because its call opened d or
\* because it was refused.
Names(d, j) ==
  \/ d \in DOMAIN owner /\ owner[d] = j
  \/ d = 0 /\ SomeRefused

\* Notes are of the calls that opened the operation.
Honest ==
  /\ \A t \in Thread : pc[t].at = "note" => Names(pc[t].driverId, pc[t].job)
  /\ \A d \in DOMAIN jobIdMap : Names(d, jobIdMap[d]) /\ jobIdMap[d] \in 1 .. jobId
  /\ \A n \in DOMAIN resQue :
       /\ resQue[n].driverId \in -1 .. opid - 1
       /\ resQue[n].driverId = -1 => resQue[n].id = 0
  /\ NamesNoOther

\* An operation but 0 is noted once: while its note is to come there is none,
\* and neither before nor after was it of use to a result.
NotedOnce ==
  /\ NotesAreUsed
  /\ \A t \in Thread :
       pc[t].at = "note" /\ pc[t].driverId # 0 =>
         /\ pc[t].driverId \notin DOMAIN jobIdMap
         /\ \A n \in DOMAIN resQue :
              resQue[n].driverId = pc[t].driverId => resQue[n].id = 0
         /\ \A u \in Thread :
              pc[u].at = "note" /\ pc[u].driverId = pc[t].driverId => u = t

WorkerInv ==
  Types /\ Paced /\ Ids /\ OneResultEach /\ Apart /\ Honest /\ NotedOnce

-----------------------------------------------------------------------------
(* Sequences, and the values that a step handles.                          *)

\* Append adds one element after the others.
LEMMA Appended ==
  ASSUME NEW S, NEW s \in Seq(S), NEW e \in S
  PROVE  /\ Append(s, e) \in Seq(S)
         /\ Len(Append(s, e)) = Len(s) + 1
         /\ Append(s, e)[Len(s) + 1] = e
         /\ \A n \in DOMAIN s : Append(s, e)[n] = s[n]
         /\ \A n \in DOMAIN Append(s, e) : n \in DOMAIN s \/ n = Len(s) + 1
         /\ DOMAIN s \subseteq DOMAIN Append(s, e)
         /\ Len(s) + 1 \in DOMAIN Append(s, e)
         /\ Len(s) + 1 \notin DOMAIN s
BY AppendProperties, LenProperties

\* Tail takes the head away and moves the others forward by one.
LEMMA Dropped ==
  ASSUME NEW S, NEW s \in Seq(S), s # << >>
  PROVE  /\ Tail(s) \in Seq(S)
         /\ Len(Tail(s)) = Len(s) - 1
         /\ Head(s) = s[1] /\ Head(s) \in S /\ 1 \in DOMAIN s
         /\ \A n \in DOMAIN Tail(s) :
              n + 1 \in DOMAIN s /\ n + 1 # 1 /\ Tail(s)[n] = s[n + 1]
         /\ \A n \in DOMAIN s : n = 1 \/ n - 1 \in DOMAIN Tail(s)
<1>1. /\ Tail(s) \in Seq(S) /\ Len(Tail(s)) = Len(s) - 1
      /\ Head(s) = s[1] /\ Head(s) \in S
      /\ \A n \in 1 .. Len(s) - 1 : Tail(s)[n] = s[n + 1]
  BY HeadTailProperties
<1>2. /\ DOMAIN Tail(s) = 1 .. Len(s) - 1 /\ DOMAIN s = 1 .. Len(s)
      /\ Len(s) \in Nat /\ Len(s) # 0
  BY <1>1, LenProperties, EmptySeq
<1>. QED
  BY <1>1, <1>2

\* A function that Put extends.
LEMMA Extended ==
  ASSUME NEW f, NEW x, NEW y
  PROVE  /\ DOMAIN Put(f, x, y) = DOMAIN f \cup {x}
         /\ Put(f, x, y)[x] = y
         /\ \A z \in DOMAIN f : z # x => Put(f, x, y)[z] = f[z]
BY DEF Put

\* What a thread holds in each state.
LEMMA Locals ==
  ASSUME NEW p \in Local
  PROVE  /\ p.at \in {"idle", "notify", "call", "result", "send", "note"}
         /\ p.at \in {"call", "result"} => p.id \in Int
         /\ p.at = "send" => p.job \in Int
         /\ p.at = "note" => p.driverId \in Nat /\ p.job \in Int
         /\ p.at = "result" => p = [at |-> "result", id |-> p.id]
BY DEF Local, Idle

-----------------------------------------------------------------------------
(* Each part of the invariant, step by step.                               *)

Calm == \* the steps of main but insert, and of the flag
  BeginStage \/ Wait \/ WaitOn \/ Sleep \/ BenchDone \/ actSetEnableFlag

\* What a calm step leaves alone.
LEMMA CalmKeeps ==
  Calm => UNCHANGED <<jobQue, pc, jobIdMap, jobId, resQue, opid, open, owner>>
BY DEF Calm, BeginStage, Wait, WaitOn, Sleep, BenchDone, actSetEnableFlag, driver,
       bench

\* The steps there are.
LEMMA Steps ==
  ASSUME [Next]_vars
  PROVE  \/ insert \/ Calm
         \/ \E t \in Thread : Work(t)
         \/ \E d \in open : Finish(d)
         \/ UNCHANGED vars
BY DEF Next, Main, Calm

\* The kinds of values are kept.
LEMMA TypesStep == Types /\ Ids /\ [Next]_vars => Types'
<1> SUFFICES ASSUME Types, Ids, [Next]_vars PROVE Types'
  OBVIOUS
<1> USE BenchAssumption DEF Types
<1>1. CASE insert
  <2>1. [type |-> "call", id |-> jobId'] \in Item
    BY <1>1 DEF insert, Item
  <2>2. jobQue' \in Seq(Item)
    BY <1>1, <2>1, Appended DEF insert
  <2>. QED
    BY <1>1, <2>2 DEF insert, driver
<1>2. CASE Calm
  <2>1. testCnt' \in Int /\ left' \in Nat
    BY <1>2 DEF Calm, BeginStage, Wait, WaitOn, Sleep, BenchDone, actSetEnableFlag,
                driver, bench
  <2>2. /\ main' \in {"insert", "wait", "check", "asleep", "done"}
        /\ stage' \in 0 .. Stages
    BY <1>2 DEF Calm, BeginStage, Wait, WaitOn, Sleep, BenchDone, actSetEnableFlag,
                driver, bench
  <2>3. enableFlag' \in BOOLEAN
    BY <1>2, Zenon DEF Calm, BeginStage, Wait, WaitOn, Sleep, BenchDone,
                       actSetEnableFlag, driver, bench
  <2>. QED
    BY <1>2, <2>1, <2>2, <2>3, CalmKeeps
<1>3. ASSUME NEW t \in Thread, Take(t) PROVE Types'
  <2>1. jobQue' \in Seq(Item) /\ Head(jobQue) \in Item
    BY <1>3, Dropped DEF Take
  <2>2. [at |-> Head(jobQue).type, id |-> Head(jobQue).id] \in Local
    BY <2>1 DEF Item, Local
  <2>3. pc' \in [Thread -> Local]
    BY <1>3, <2>2 DEF Take, Step
  <2>. QED
    BY <1>3, <2>1, <2>3 DEF Take, driver, bench
<1>4. ASSUME NEW t \in Thread, Enter(t) PROVE Types'
  <2>1. [at |-> "send", job |-> pc[t].id] \in Local
    BY <1>4, Locals DEF Enter, Local
  <2>2. pc' \in [Thread -> Local]
    BY <1>4, <2>1 DEF Enter, Step
  <2>. QED
    BY <1>4, <2>2 DEF Enter, driver, bench
<1>5. ASSUME NEW t \in Thread, Refuse(t) PROVE Types'
  <2>1. [at |-> "note", driverId |-> 0, job |-> pc[t].id] \in Local
    BY <1>5, Locals DEF Refuse, Local
  <2>2. pc' \in [Thread -> Local]
    BY <1>5, <2>1 DEF Refuse, Step
  <2>3. -1 \in Int
    OBVIOUS
  <2>4. [type |-> "result", id |-> -1] \in Item
    BY <2>3 DEF Item
  <2>5. jobQue' \in Seq(Item)
    BY <1>5, <2>4, Appended DEF Refuse
  <2>. QED
    BY <1>5, <2>2, <2>5 DEF Refuse, driver, bench
<1>6. ASSUME NEW t \in Thread, Send(t) PROVE Types'
  <2>1. [at |-> "note", driverId |-> opid, job |-> pc[t].job] \in Local
    BY <1>6, Locals DEF Send, Local
  <2>2. pc' \in [Thread -> Local]
    BY <1>6, <2>1 DEF Send, Step
  <2>3. DOMAIN owner' = (0 .. opid - 1) \cup {opid}
    BY <1>6 DEF Send, Put
  <2>4. DOMAIN owner' = 0 .. opid' - 1
    BY <1>6, <2>3 DEF Send
  <2>. QED
    BY <1>6, <2>2, <2>4 DEF Send, bench
<1>7. ASSUME NEW t \in Thread, Note(t) PROVE Types'
  <2>1. pc' \in [Thread -> Local]
    BY <1>7 DEF Note, Step, Local
  <2>2. pc[t].driverId \in Nat /\ pc[t].job \in Int
    BY <1>7, Locals DEF Note
  <2>3. \A d \in DOMAIN jobIdMap' : d \in Nat /\ jobIdMap'[d] \in Int
    BY <1>7, <2>2 DEF Note, Put
  <2>. QED
    BY <1>7, <2>1, <2>3 DEF Note, driver, bench
<1>8. ASSUME NEW t \in Thread, Result(t) PROVE Types'
  <2>1. pc' \in [Thread -> Local]
    BY <1>8 DEF Result, Step, Local
  <2>2. pc[t].id \in Int /\ Lookup(pc[t].id) \in Int
    BY <1>8, Locals DEF Result, Lookup
  <2>3. resQue' \in Seq([id : Int, driverId : Int])
    BY <1>8, <2>2, Appended DEF Result
  <2>4. \A d \in DOMAIN jobIdMap' : d \in Nat /\ jobIdMap'[d] \in Int
    BY <1>8 DEF Result
  <2>. QED
    BY <1>8, <2>1, <2>3, <2>4 DEF Result, driver, bench
<1>9. ASSUME NEW t \in Thread, Notify(t) PROVE Types'
  <2>1. pc' \in [Thread -> Local]
    BY <1>9 DEF Notify, Step, Local
  <2>. QED
    BY <1>9, <2>1 DEF Notify, driver
<1>10. ASSUME NEW d \in open, Finish(d) PROVE Types'
  <2>1. [type |-> "result", id |-> d] \in Item
    BY <1>10 DEF Ids, Item
  <2>2. jobQue' \in Seq(Item)
    BY <1>10, <2>1, Appended DEF Finish
  <2>. QED
    BY <1>10, <2>2 DEF Finish, bench
<1>. QED
  BY <1>1, <1>2, <1>3, <1>4, <1>5, <1>6, <1>7, <1>8, <1>9, <1>10, Steps
     DEF Work, vars, driver, bench

\* The benchmark keeps its pace.
LEMMA PacedStep == Types /\ Paced /\ [Next]_vars => Paced' /\ left' \in Nat
<1> SUFFICES ASSUME Types, Paced, [Next]_vars PROVE Paced' /\ left' \in Nat
  OBVIOUS
<1> USE BenchAssumption DEF Types, Paced
<1>0. Len(resQue) \in Nat /\ stage * Records \in Nat
  BY LenProperties
<1>1. CASE insert
  BY <1>0, <1>1 DEF insert
<1>2. CASE BeginStage
  <2>1. stage' * Records = stage * Records + Records
    BY <1>2 DEF BeginStage
  <2>. QED
    BY <1>0, <1>2, <2>1 DEF BeginStage
<1>3. CASE Wait \/ WaitOn \/ Sleep \/ BenchDone \/ actSetEnableFlag
  BY <1>0, <1>3 DEF Wait, WaitOn, Sleep, BenchDone, actSetEnableFlag, bench
<1>4. ASSUME NEW t \in Thread, Result(t) PROVE Paced' /\ left' \in Nat
  <2>1. pc[t].id \in Int /\ Lookup(pc[t].id) \in Int
    <3>1. pc[t] \in Local /\ pc[t].at = "result"
      BY <1>4 DEF Result
    <3>2. pc[t].id \in Int
      BY <3>1, Locals
    <3> QED
      BY <3>2 DEF Lookup
  <2>2. Len(resQue') = Len(resQue) + 1
    <3> DEFINE e == [id |-> Lookup(pc[t].id), driverId |-> pc[t].id]
    <3>1. resQue' = Append(resQue, e) /\ e \in [id : Int, driverId : Int]
      BY <1>4, <2>1 DEF Result
    <3>. HIDE DEF e
    <3>. QED
      BY <3>1, Appended
  <2>. QED
    BY <1>0, <1>4, <2>2 DEF Result, driver, bench
<1>5. ASSUME NEW t \in Thread, Notify(t) PROVE Paced' /\ left' \in Nat
  BY <1>5 DEF Notify
<1>6. ASSUME NEW t \in Thread,
             Take(t) \/ Enter(t) \/ Refuse(t) \/ Send(t) \/ Note(t)
      PROVE  Paced' /\ left' \in Nat
  BY <1>6 DEF Take, Enter, Refuse, Send, Note, bench
<1>7. ASSUME NEW d \in open, Finish(d) PROVE Paced' /\ left' \in Nat
  BY <1>7 DEF Finish, bench
<1>. QED
  BY <1>1, <1>2, <1>3, <1>4, <1>5, <1>6, <1>7, Steps DEF Calm, Work, vars, bench

Busy == {"call", "send", "result"}

\* A step of a thread changes the number of busy threads by at most one.
LEMMA BusyThreads ==
  ASSUME Types, NEW t \in Thread, NEW to \in Local, Step(t, to)
  PROVE  /\ At(Busy) \in Nat
         /\ At(Busy)' = At(Busy) + (IF to.at \in Busy THEN 1 ELSE 0)
                                 - (IF pc[t].at \in Busy THEN 1 ELSE 0)
<1> DEFINE B == {u \in Thread : pc[u].at \in Busy}
           C == {u \in Thread : pc'[u].at \in Busy}
<1>1. pc'[t] = to /\ \A u \in Thread : u # t => pc'[u] = pc[u]
  BY DEF Types, Step
<1>2. IsFiniteSet(B) /\ IsFiniteSet(Thread) /\ Cardinality(B) \in Nat
  BY BenchAssumption, FS_Subset, FS_CardinalityType
<1>3. /\ to.at \in Busy /\ pc[t].at \notin Busy => C = B \cup {t} /\ t \notin B
      /\ to.at \notin Busy /\ pc[t].at \in Busy => C = B \ {t} /\ t \in B
      /\ (to.at \in Busy <=> pc[t].at \in Busy) => C = B
  BY <1>1
<1>4. /\ to.at \in Busy /\ pc[t].at \notin Busy => Cardinality(C) = Cardinality(B) + 1
      /\ to.at \notin Busy /\ pc[t].at \in Busy => Cardinality(C) = Cardinality(B) - 1
      /\ (to.at \in Busy <=> pc[t].at \in Busy) => Cardinality(C) = Cardinality(B)
  <2>. HIDE DEF B, C
  <2>. QED
    BY <1>2, <1>3, FS_AddElement, FS_RemoveElement
<1>5. At(Busy) = Cardinality(B) /\ At(Busy)' = Cardinality(C)
  BY DEF At
<1>. HIDE DEF B, C
<1>. QED
  BY <1>2, <1>4, <1>5

\* The operations that have not finished are finitely many.
LEMMA OpenFinite ==
  ASSUME Types, Ids
  PROVE  IsFiniteSet(open) /\ Cardinality(open) \in Nat
<1>1. opid - 1 \in Int /\ open \subseteq 0 .. opid - 1
  BY DEF Types, Ids
<1>2. IsFiniteSet(0 .. opid - 1)
  BY <1>1, FS_Interval
<1>. QED
  BY <1>1, <1>2, FS_Subset, FS_CardinalityType

\* No call is lost and none is answered twice.
LEMMA CountStep ==
  Types /\ Ids /\ OneResultEach /\ [Next]_vars => OneResultEach'
<1> SUFFICES ASSUME Types, Ids, OneResultEach, [Next]_vars PROVE OneResultEach'
  OBVIOUS
<1>0. /\ jobId = Len(jobQue) + At(Busy) + Cardinality(open) + Len(resQue)
      /\ OneResultEach' <=> jobId' = Len(jobQue') + At(Busy)' + Cardinality(open')
                                       + Len(resQue')
  BY DEF OneResultEach, Busy
<1>1. /\ Len(jobQue) \in Nat /\ Len(resQue) \in Nat
      /\ IsFiniteSet(open) /\ Cardinality(open) \in Nat
  BY OpenFinite, LenProperties DEF Types
<1>2. At(Busy) \in Nat /\ (pc' = pc => At(Busy)' = At(Busy))
  <2>1. IsFiniteSet({t \in Thread : pc[t].at \in Busy})
    BY BenchAssumption, FS_Subset
  <2>. QED
    BY <2>1, FS_CardinalityType DEF At
<1>3. \A t \in Thread : pc[t] \in Local
  BY DEF Types
<1>4. CASE insert
  <2>1. [type |-> "call", id |-> jobId'] \in Item
    BY <1>4 DEF insert, Item, Types
  <2>2. Len(jobQue') = Len(jobQue) + 1
    BY <1>4, <2>1, Appended DEF insert, Types
  <2>. QED
    BY <1>0, <1>1, <1>2, <1>4, <2>2 DEF insert, driver
<1>5. CASE Calm \/ UNCHANGED vars
  BY <1>0, <1>2, <1>5, CalmKeeps DEF vars, driver
<1>6. ASSUME NEW t \in Thread, Take(t) PROVE OneResultEach'
  <2> DEFINE to == [at |-> Head(jobQue).type, id |-> Head(jobQue).id]
  <2>1. Len(jobQue') = Len(jobQue) - 1 /\ Head(jobQue) \in Item
    BY <1>6, Dropped DEF Take, Types
  <2>2. to \in Local /\ to.at \in Busy
    BY <2>1 DEF Local, Item, Busy
  <2>3. pc[t].at \notin Busy /\ Step(t, to)
    BY <1>6 DEF Take, Idle, Busy
  <2>4. At(Busy)' = At(Busy) + 1
    <3>. HIDE DEF to
    <3>. QED
      BY <1>2, <2>2, <2>3, BusyThreads
  <2>. QED
    BY <1>0, <1>1, <1>2, <1>6, <2>1, <2>4 DEF Take, driver
<1>7. ASSUME NEW t \in Thread, Enter(t) PROVE OneResultEach'
  <2> DEFINE to == [at |-> "send", job |-> pc[t].id]
  <2>1. to \in Local /\ to.at \in Busy /\ pc[t].at \in Busy /\ Step(t, to)
    BY <1>3, <1>7, Locals DEF Enter, Local, Busy
  <2>2. At(Busy)' = At(Busy)
    <3>. HIDE DEF to
    <3>. QED
      BY <1>2, <2>1, BusyThreads
  <2>. QED
    BY <1>0, <1>1, <1>2, <1>7, <2>2 DEF Enter, driver
<1>8. ASSUME NEW t \in Thread, Refuse(t) PROVE OneResultEach'
  <2> DEFINE to == [at |-> "note", driverId |-> 0, job |-> pc[t].id]
  <2>1. to \in Local /\ to.at \notin Busy /\ pc[t].at \in Busy /\ Step(t, to)
    BY <1>3, <1>8, Locals DEF Refuse, Local, Busy
  <2>2. At(Busy)' = At(Busy) - 1
    <3>. HIDE DEF to
    <3>. QED
      BY <1>2, <2>1, BusyThreads
  <2>3. -1 \in Int
    OBVIOUS
  <2>4. [type |-> "result", id |-> -1] \in Item
    BY <2>3 DEF Item
  <2>5. Len(jobQue') = Len(jobQue) + 1
    BY <1>8, <2>4, Appended DEF Refuse, Types
  <2>. QED
    BY <1>0, <1>1, <1>2, <1>8, <2>2, <2>5 DEF Refuse, driver
<1>9. ASSUME NEW t \in Thread, Send(t) PROVE OneResultEach'
  <2> DEFINE to == [at |-> "note", driverId |-> opid, job |-> pc[t].job]
  <2>1. to \in Local /\ to.at \notin Busy /\ pc[t].at \in Busy /\ Step(t, to)
    BY <1>3, <1>9, Locals DEF Send, Local, Busy, Types
  <2>2. At(Busy)' = At(Busy) - 1
    <3>. HIDE DEF to
    <3>. QED
      BY <1>2, <2>1, BusyThreads
  <2>3. opid \notin open
    BY DEF Types, Ids
  <2>4. Cardinality(open') = Cardinality(open) + 1
    BY <1>1, <1>9, <2>3, FS_AddElement DEF Send
  <2>. QED
    BY <1>0, <1>1, <1>2, <1>9, <2>2, <2>4 DEF Send
<1>10. ASSUME NEW t \in Thread, Note(t) PROVE OneResultEach'
  <2>1. Idle \in Local /\ Idle.at \notin Busy /\ pc[t].at \notin Busy
    BY <1>10 DEF Note, Local, Idle, Busy
  <2>2. At(Busy)' = At(Busy)
    BY <1>2, <1>10, <2>1, BusyThreads DEF Note
  <2>. QED
    BY <1>0, <1>1, <1>2, <1>10, <2>2 DEF Note, driver
<1>11. ASSUME NEW t \in Thread, Result(t) PROVE OneResultEach'
  <2> DEFINE to == [at |-> "notify"]
  <2>1. to \in Local /\ to.at \notin Busy /\ pc[t].at \in Busy /\ Step(t, to)
    BY <1>11 DEF Result, Local, Busy
  <2>2. At(Busy)' = At(Busy) - 1
    <3>. HIDE DEF to
    <3>. QED
      BY <1>2, <2>1, BusyThreads
  <2>3. pc[t].id \in Int /\ Lookup(pc[t].id) \in Int
    BY <1>3, <1>11, Locals DEF Result, Lookup, Types
  <2>4. Len(resQue') = Len(resQue) + 1
    BY <1>11, <2>3, Appended DEF Result, Types
  <2>. QED
    BY <1>0, <1>1, <1>2, <1>11, <2>2, <2>4 DEF Result, driver
<1>12. ASSUME NEW t \in Thread, Notify(t) PROVE OneResultEach'
  <2>1. Idle \in Local /\ Idle.at \notin Busy /\ pc[t].at \notin Busy
    BY <1>12 DEF Notify, Local, Idle, Busy
  <2>2. At(Busy)' = At(Busy)
    BY <1>2, <1>12, <2>1, BusyThreads DEF Notify
  <2>. QED
    BY <1>0, <1>1, <1>2, <1>12, <2>2 DEF Notify, driver
<1>13. ASSUME NEW d \in open, Finish(d) PROVE OneResultEach'
  <2>1. [type |-> "result", id |-> d] \in Item
    BY DEF Item, Ids, Types
  <2>2. Len(jobQue') = Len(jobQue) + 1
    BY <1>13, <2>1, Appended DEF Finish, Types
  <2>3. Cardinality(open') = Cardinality(open) - 1
    BY <1>1, <1>13, FS_RemoveElement DEF Finish
  <2>. QED
    BY <1>0, <1>1, <1>2, <1>13, <2>2, <2>3 DEF Finish, bench
<1>. QED
  BY <1>4, <1>5, <1>6, <1>7, <1>8, <1>9, <1>10, <1>11, <1>12, <1>13, Steps DEF Work

\* The queue after a push: one element more, at the end.
LEMMA Pushed ==
  ASSUME Types, NEW e \in Item, jobQue' = Append(jobQue, e)
  PROVE  /\ \A n \in DOMAIN jobQue : n \in DOMAIN jobQue' /\ jobQue'[n] = jobQue[n]
         /\ \A n \in DOMAIN jobQue' :
              n \in DOMAIN jobQue \/ (n = Len(jobQue) + 1 /\ jobQue'[n] = e)
         /\ Len(jobQue) + 1 \in DOMAIN jobQue' /\ Len(jobQue) + 1 \notin DOMAIN jobQue
BY Appended DEF Types

\* The queue after a pop: the elements after the first move forward.
LEMMA Popped ==
  ASSUME Types, NEW t \in Thread, Take(t)
  PROVE  /\ 1 \in DOMAIN jobQue /\ jobQue[1] \in Item
         /\ pc'[t] = [at |-> jobQue[1].type, id |-> jobQue[1].id]
         /\ \A n \in DOMAIN jobQue' :
              /\ n + 1 \in DOMAIN jobQue /\ n + 1 # 1 /\ n \in Int
              /\ jobQue'[n] = jobQue[n + 1]
         /\ \A n \in DOMAIN jobQue : n = 1 \/ (n - 1 \in DOMAIN jobQue' /\
                                               jobQue'[n - 1] = jobQue[n])
<1>1. /\ jobQue # << >> /\ jobQue \in Seq(Item) /\ jobQue' = Tail(jobQue)
  BY DEF Take, Types
<1>2. /\ 1 \in DOMAIN jobQue /\ Head(jobQue) = jobQue[1] /\ Head(jobQue) \in Item
      /\ DOMAIN jobQue \subseteq Int /\ DOMAIN jobQue' \subseteq Int
      /\ \A n \in DOMAIN jobQue' :
           n + 1 \in DOMAIN jobQue /\ n + 1 # 1 /\ jobQue'[n] = jobQue[n + 1]
      /\ \A n \in DOMAIN jobQue : n = 1 \/ n - 1 \in DOMAIN jobQue'
  BY <1>1, Dropped, LenProperties
<1>3. \A n \in DOMAIN jobQue : n = 1 \/ (n - 1) + 1 = n
  BY <1>2
<1>4. pc'[t] = [at |-> jobQue[1].type, id |-> jobQue[1].id]
  BY <1>2 DEF Take, Step, Types
<1>. QED
  BY <1>2, <1>3, <1>4

\* What a thread does next is seen at this thread alone.
LEMMA Stepped ==
  ASSUME Types, NEW t \in Thread, NEW to, Step(t, to)
  PROVE  pc'[t] = to /\ \A u \in Thread \ {t} : pc'[u] = pc[u]
BY DEF Types, Step

\* Ids are those that were given out.
LEMMA IdsStep == Types /\ Ids /\ [Next]_vars => Ids'
<1> SUFFICES ASSUME Types, Ids, [Next]_vars PROVE Ids'
  OBVIOUS
<1>0. /\ jobId \in Nat /\ opid \in Nat /\ DOMAIN owner = 0 .. opid - 1
      /\ \A t \in Thread : pc[t] \in Local
  BY DEF Types
<1>1. CASE insert
  <2> DEFINE e == [type |-> "call", id |-> jobId']
  <2>1. e \in Item /\ e.type = "call" /\ e.id = jobId + 1 /\ jobId' = jobId + 1
        /\ jobQue' = Append(jobQue, e)
    BY <1>0, <1>1 DEF insert, Item
  <2>. HIDE DEF e
  <2>2. UNCHANGED <<pc, open, owner, opid>>
    BY <1>1 DEF insert, driver
  <2>. QED
    BY <1>0, <2>1, <2>2, Pushed DEF Ids
<1>2. CASE Calm \/ UNCHANGED vars
  BY <1>2, CalmKeeps DEF vars, driver, Ids
<1>3. ASSUME NEW t \in Thread, Take(t) PROVE Ids'
  <2>1. UNCHANGED <<jobId, open, owner, opid>>
    BY <1>3 DEF Take, driver
  <2>2. jobQue[1].type \in {"call", "result"}
    BY <1>3, Popped DEF Item
  <2>3. \A u \in Thread : u # t => pc'[u] = pc[u]
    BY <1>3 DEF Take, Step, Types
  <2>. QED
    BY <1>3, <2>1, <2>2, <2>3, Popped DEF Ids
<1>4. ASSUME NEW t \in Thread, Enter(t) PROVE Ids'
  <2>1. UNCHANGED <<jobId, open, owner, opid, jobQue>>
    BY <1>4 DEF Enter, driver
  <2>2. pc'[t] = [at |-> "send", job |-> pc[t].id] /\ pc[t].at = "call"
    BY <1>4, Stepped DEF Enter
  <2>3. \A u \in Thread : u # t => pc'[u] = pc[u]
    BY <1>4 DEF Enter, Step, Types
  <2>. QED
    BY <2>1, <2>2, <2>3 DEF Ids
<1>5. ASSUME NEW t \in Thread, Refuse(t) PROVE Ids'
  <2> DEFINE e == [type |-> "result", id |-> -1]
  <2>1. UNCHANGED <<jobId, open, owner, opid>> /\ jobQue' = Append(jobQue, e)
    BY <1>5 DEF Refuse, driver
  <2>2. /\ pc'[t] = [at |-> "note", driverId |-> 0, job |-> pc[t].id]
        /\ pc[t].at = "call"
    BY <1>5, Stepped DEF Refuse
  <2>3. \A u \in Thread : u # t => pc'[u] = pc[u]
    BY <1>5 DEF Refuse, Step, Types
  <2>4. -1 \in Int
    OBVIOUS
  <2>5. e \in Item /\ e.type = "result" /\ e.id = -1
    BY <2>4 DEF Item
  <2>. HIDE DEF e
  <2>6. \A n \in DOMAIN jobQue' :
          IF jobQue'[n].type = "call" THEN jobQue'[n].id \in 1 .. jobId
          ELSE jobQue'[n].id \in -1 .. opid - 1
    BY <1>0, <2>1, <2>5, Pushed DEF Ids
  <2>7. pc[t].id \in 1 .. jobId
    BY <2>2 DEF Ids
  <2>. QED
    BY <2>1, <2>2, <2>3, <2>6, <2>7 DEF Ids
<1>6. ASSUME NEW t \in Thread, Send(t) PROVE Ids'
  <2>1. UNCHANGED <<jobId, jobQue>> /\ opid' = opid + 1 /\ open' = open \cup {opid}
    BY <1>6 DEF Send
  <2>2. /\ pc'[t] = [at |-> "note", driverId |-> opid, job |-> pc[t].job]
        /\ pc[t].at = "send"
    BY <1>6, Stepped DEF Send
  <2>3. \A u \in Thread : u # t => pc'[u] = pc[u]
    BY <1>6 DEF Send, Step, Types
  <2>4. /\ DOMAIN owner' = DOMAIN owner \cup {opid} /\ owner'[opid] = pc[t].job
        /\ \A d \in DOMAIN owner : owner'[d] = owner[d]
    BY <1>0, <1>6 DEF Send, Put
  <2>. QED
    BY <1>0, <2>1, <2>2, <2>3, <2>4 DEF Ids
<1>7. ASSUME NEW t \in Thread, Note(t) \/ Result(t) \/ Notify(t) PROVE Ids'
  <2>1. UNCHANGED <<jobId, open, owner, opid, jobQue>>
    BY <1>7 DEF Note, Result, Notify, driver
  <2>2. pc'[t].at \in {"idle", "notify"}
    BY <1>7, Stepped DEF Note, Result, Notify, Idle
  <2>3. \A u \in Thread : u # t => pc'[u] = pc[u]
    BY <1>7 DEF Note, Result, Notify, Step, Types
  <2>. QED
    BY <2>1, <2>2, <2>3 DEF Ids
<1>8. ASSUME NEW d \in open, Finish(d) PROVE Ids'
  <2> DEFINE e == [type |-> "result", id |-> d]
  <2>1. /\ UNCHANGED <<jobId, owner, opid, pc>> /\ open' \subseteq open
        /\ jobQue' = Append(jobQue, e)
    BY <1>8 DEF Finish
  <2>2. d \in 0 .. opid - 1
    BY <1>0 DEF Ids
  <2>3. e \in Item /\ e.type = "result" /\ e.id = d
    BY <2>2 DEF Item
  <2>. HIDE DEF e
  <2>. QED
    BY <1>0, <2>1, <2>2, <2>3, Pushed DEF Ids
<1>. QED
  BY <1>1, <1>2, <1>3, <1>4, <1>5, <1>6, <1>7, <1>8, Steps DEF Work

\* A call stays apart from the others while it goes from the queue to a thread
\* and from there to its driver id.
LEMMA ApartStep == Types /\ Ids /\ Apart /\ [Next]_vars => Apart'
<1> SUFFICES ASSUME Types, Ids, Apart, [Next]_vars PROVE Apart'
  OBVIOUS
<1>0. /\ jobId \in Nat /\ opid \in Nat /\ DOMAIN owner = 0 .. opid - 1
      /\ \A t \in Thread : JobOf(t) \in 0 .. jobId
      /\ \A d \in DOMAIN owner : owner[d] \in 1 .. jobId
  BY DEF Types, Ids, JobOf
<1>1. CASE insert
  <2> DEFINE e == [type |-> "call", id |-> jobId']
  <2>1. e \in Item /\ e.type = "call" /\ e.id = jobId + 1 /\ jobId' = jobId + 1
        /\ jobQue' = Append(jobQue, e)
    BY <1>0, <1>1 DEF insert, Item
  <2>. HIDE DEF e
  <2>2. UNCHANGED <<pc, owner>>
    BY <1>1 DEF insert, driver
  <2>3. \A t \in Thread : JobOf(t)' = JobOf(t)
    BY <2>2 DEF JobOf
  <2>4. \A n \in DOMAIN jobQue : jobQue[n].type = "call" => jobQue[n].id \in 1 .. jobId
    BY DEF Ids
  <2>5. \A m, n \in DOMAIN jobQue' :
          \A j \in 1 .. jobId' : Waits(m, j)' /\ Waits(n, j)' => m = n
    BY <1>0, <2>1, <2>4, Pushed DEF Apart, Waits
  <2>6. \A n \in DOMAIN jobQue' : \A j \in 0 .. jobId :
          Waits(n, j)' => n \in DOMAIN jobQue /\ Waits(n, j)
    BY <1>0, <2>1, <2>4, Pushed DEF Waits
  <2>. QED
    BY <1>0, <2>2, <2>3, <2>5, <2>6 DEF Apart
<1>2. CASE Calm \/ UNCHANGED vars
  BY <1>2, CalmKeeps DEF vars, driver, Apart, Waits, JobOf
<1>3. ASSUME NEW t \in Thread, Take(t) PROVE Apart'
  <2>1. UNCHANGED <<jobId, owner>>
    BY <1>3 DEF Take, driver
  <2>2. \A u \in Thread : u # t => pc'[u] = pc[u]
    BY <1>3 DEF Take, Step, Types
  <2>3. \A u \in Thread : u # t => JobOf(u)' = JobOf(u)
    BY <2>2 DEF JobOf
  <2>4. jobQue[1].type \in {"call", "result"} /\ 1 \in DOMAIN jobQue
    BY <1>3, Popped DEF Item
  <2>5. JobOf(t)' # 0 => Waits(1, JobOf(t)') /\ JobOf(t)' \in 1 .. jobId
    BY <1>3, <2>4, Popped DEF JobOf, Waits, Ids
  <2>6. \A n \in DOMAIN jobQue' :
          /\ n + 1 \in DOMAIN jobQue /\ n + 1 # 1 /\ n \in Int
          /\ \A j : Waits(n, j)' <=> Waits(n + 1, j)
    BY <1>3, Popped DEF Waits
  <2>7. \A m, n \in DOMAIN jobQue' :
          \A j \in 1 .. jobId' : Waits(m, j)' /\ Waits(n, j)' => m = n
    <3> SUFFICES ASSUME NEW m \in DOMAIN jobQue', NEW n \in DOMAIN jobQue',
                        NEW j \in 1 .. jobId, Waits(m, j)', Waits(n, j)'
                 PROVE  m = n
      BY <2>1
    <3>1. m + 1 = n + 1 /\ m \in Int /\ n \in Int
      BY <2>6 DEF Apart
    <3>. QED
      BY <3>1
  <2>8. \A u, v \in Thread : JobOf(u)' = JobOf(v)' /\ JobOf(u)' # 0 => u = v
    BY <2>3, <2>4, <2>5 DEF Apart
  <2>9. \A n \in DOMAIN jobQue', u \in Thread : ~Waits(n, JobOf(u))'
    <3> SUFFICES ASSUME NEW n \in DOMAIN jobQue', NEW u \in Thread,
                        Waits(n + 1, JobOf(u)')
                 PROVE  FALSE
      BY <2>6
    <3>1. n + 1 \in DOMAIN jobQue /\ n + 1 # 1
      BY <2>6
    <3>2. u = t
      BY <2>3, <3>1 DEF Apart
    <3>3. JobOf(t)' # 0
      BY <3>1, <3>2 DEF Ids, Waits
    <3>. QED
      BY <2>4, <2>5, <3>1, <3>2, <3>3 DEF Apart
  <2>10. \A n \in DOMAIN jobQue', d \in DOMAIN owner : ~Waits(n, owner[d])'
    BY <2>1, <2>6 DEF Apart
  <2>11. \A u \in Thread, d \in DOMAIN owner : JobOf(u)' # owner[d]
    BY <1>0, <2>3, <2>4, <2>5 DEF Apart
  <2>. QED
    BY <2>1, <2>7, <2>8, <2>9, <2>10, <2>11 DEF Apart
<1>4. ASSUME NEW t \in Thread, Enter(t) PROVE Apart'
  <2>1. UNCHANGED <<jobId, owner, jobQue>>
    BY <1>4 DEF Enter, driver
  <2>2. \A u \in Thread : u # t => pc'[u] = pc[u]
    BY <1>4 DEF Enter, Step, Types
  <2>3. pc'[t] = [at |-> "send", job |-> pc[t].id] /\ pc[t].at = "call"
    BY <1>4, Stepped DEF Enter
  <2>4. \A u \in Thread : JobOf(u)' = JobOf(u)
    BY <2>2, <2>3 DEF JobOf
  <2>. QED
    BY <2>1, <2>4 DEF Apart, Waits
<1>5. ASSUME NEW t \in Thread, Refuse(t) PROVE Apart'
  <2>1. UNCHANGED <<jobId, owner>>
    BY <1>5 DEF Refuse, driver
  <2>2. \A u \in Thread : u # t => pc'[u] = pc[u]
    BY <1>5 DEF Refuse, Step, Types
  <2>3. \A u \in Thread : JobOf(u)' = IF u = t THEN 0 ELSE JobOf(u)
    BY <1>5, <2>2, Stepped DEF JobOf, Refuse
  <2>4. -1 \in Int
    OBVIOUS
  <2>5. [type |-> "result", id |-> -1] \in Item
    BY <2>4 DEF Item
  <2>6. \A n \in DOMAIN jobQue' : \A j : Waits(n, j)' => n \in DOMAIN jobQue /\ Waits(n, j)
    BY <1>5, <2>5, Pushed DEF Refuse, Waits
  <2>7. \A n \in DOMAIN jobQue : ~Waits(n, 0)
    BY DEF Ids, Waits
  <2>. QED
    BY <1>0, <2>1, <2>3, <2>6, <2>7 DEF Apart
<1>6. ASSUME NEW t \in Thread, Send(t) PROVE Apart'
  <2>1. UNCHANGED <<jobId, jobQue>>
    BY <1>6 DEF Send
  <2>2. \A u \in Thread : u # t => pc'[u] = pc[u]
    BY <1>6 DEF Send, Step, Types
  <2>3. \A u \in Thread : JobOf(u)' = IF u = t THEN 0 ELSE JobOf(u)
    BY <1>6, <2>2, Stepped DEF JobOf, Send
  <2>4. /\ DOMAIN owner' = DOMAIN owner \cup {opid} /\ owner'[opid] = JobOf(t)
        /\ \A d \in DOMAIN owner : owner'[d] = owner[d]
    BY <1>0, <1>6 DEF Send, Put, JobOf
  <2>5. JobOf(t) # 0
    BY <1>6 DEF Send, JobOf, Ids
  <2>6. \A n \in DOMAIN jobQue : ~Waits(n, 0)
    BY DEF Ids, Waits
  <2>7. \A n \in DOMAIN jobQue : \A j : Waits(n, j)' <=> Waits(n, j)
    BY <2>1 DEF Waits
  <2>. QED
    BY <1>0, <2>1, <2>3, <2>4, <2>5, <2>6, <2>7 DEF Apart
<1>7. ASSUME NEW t \in Thread, Note(t) \/ Result(t) \/ Notify(t) PROVE Apart'
  <2>1. UNCHANGED <<jobId, owner, jobQue>>
    BY <1>7 DEF Note, Result, Notify, driver
  <2>2. \A u \in Thread : u # t => pc'[u] = pc[u]
    BY <1>7 DEF Note, Result, Notify, Step, Types
  <2>3. \A u \in Thread : JobOf(u)' = JobOf(u)
    BY <1>7, <2>2, Stepped DEF Note, Result, Notify, JobOf, Idle
  <2>. QED
    BY <2>1, <2>3 DEF Apart, Waits
<1>8. ASSUME NEW d \in open, Finish(d) PROVE Apart'
  <2>1. UNCHANGED <<jobId, owner, pc>> /\ d \in 0 .. opid - 1
    BY <1>8 DEF Finish, Ids, Types
  <2>2. [type |-> "result", id |-> d] \in Item
    BY <2>1 DEF Item
  <2>3. \A n \in DOMAIN jobQue' : \A j : Waits(n, j)' => n \in DOMAIN jobQue /\ Waits(n, j)
    BY <1>8, <2>2, Pushed DEF Finish, Waits
  <2>4. \A u \in Thread : JobOf(u)' = JobOf(u)
    BY <2>1 DEF JobOf
  <2>. QED
    BY <2>1, <2>3, <2>4 DEF Apart
<1>. QED
  BY <1>1, <1>2, <1>3, <1>4, <1>5, <1>6, <1>7, <1>8, Steps DEF Work

\* A result that is processed is the last of the results from then on.
LEMMA Answered ==
  ASSUME Types, NEW t \in Thread, Result(t)
  PROVE  /\ \A n \in DOMAIN resQue : n \in DOMAIN resQue' /\ resQue'[n] = resQue[n]
         /\ \A n \in DOMAIN resQue' : \/ n \in DOMAIN resQue
                                      \/ /\ resQue'[n].id = Lookup(pc[t].id)
                                         /\ resQue'[n].driverId = pc[t].id
         /\ \E n \in DOMAIN resQue' : resQue'[n].driverId = pc[t].id
<1> DEFINE e == [id |-> Lookup(pc[t].id), driverId |-> pc[t].id]
<1>1. pc[t].id \in Int /\ Lookup(pc[t].id) \in Int
  <2>1. pc[t].id \in Int
    BY Locals DEF Result, Types
  <2>. QED
    BY <2>1 DEF Lookup, Types
<1>2. /\ e \in [id : Int, driverId : Int] /\ resQue' = Append(resQue, e)
      /\ e.id = Lookup(pc[t].id) /\ e.driverId = pc[t].id
  BY <1>1 DEF Result
<1>3. resQue \in Seq([id : Int, driverId : Int])
  BY DEF Types
<1>. HIDE DEF e
<1>. QED
  BY <1>2, <1>3, Appended

\* A refused call leaves a result of id -1, and that leaves a trace.
LEMMA RefusedStays ==
  ASSUME Types, Ids, SomeRefused, [Next]_vars PROVE SomeRefused'
<1>1. ASSUME NEW n \in DOMAIN resQue, resQue[n].driverId = -1 PROVE SomeRefused'
  <2>1. ASSUME NEW t \in Thread, Result(t) PROVE SomeRefused'
    BY <1>1, <2>1, Answered DEF SomeRefused
  <2>2. (\A t \in Thread : ~Result(t)) => resQue' = resQue
    BY Steps, CalmKeeps
       DEF insert, Work, Take, Enter, Refuse, Send, Note, Notify, Finish, vars
  <2>. QED
    BY <1>1, <2>1, <2>2 DEF SomeRefused
<1>2. ASSUME NEW n \in DOMAIN jobQue, jobQue[n].id = -1 PROVE SomeRefused'
  <2>1. CASE insert
    <3>1. [type |-> "call", id |-> jobId'] \in Item
      BY <2>1 DEF insert, Item, Types
    <3>. QED
      BY <1>2, <2>1, <3>1, Pushed DEF insert, SomeRefused
  <2>2. ASSUME NEW t \in Thread, Take(t) PROVE SomeRefused'
    <3>1. CASE n = 1
      <4>1. jobQue[1].type = "result"
        BY <1>2, <2>2, <3>1, Popped DEF Item, Ids, Types
      <4>2. pc'[t] = [at |-> "result", id |-> -1]
        BY <1>2, <2>2, <3>1, <4>1, Popped
      <4>. QED
        BY <4>2 DEF SomeRefused
    <3>2. CASE n # 1
      BY <1>2, <2>2, <3>2, Popped DEF SomeRefused
    <3>. QED
      BY <3>1, <3>2
  <2>3. ASSUME NEW t \in Thread, Refuse(t) PROVE SomeRefused'
    <3>1. -1 \in Int
      OBVIOUS
    <3>2. [type |-> "result", id |-> -1] \in Item
      BY <3>1 DEF Item
    <3>. QED
      BY <1>2, <2>3, <3>2, Pushed DEF Refuse, SomeRefused
  <2>4. ASSUME NEW d \in open, Finish(d) PROVE SomeRefused'
    <3>1. [type |-> "result", id |-> d] \in Item
      BY DEF Item, Ids, Types
    <3>. QED
      BY <1>2, <2>4, <3>1, Pushed DEF Finish, SomeRefused
  <2>5. CASE Calm \/ UNCHANGED vars
    BY <1>2, <2>5, CalmKeeps DEF SomeRefused, vars
  <2>6. ASSUME NEW t \in Thread, Enter(t) \/ Send(t) \/ Note(t) \/ Result(t) \/ Notify(t)
        PROVE  SomeRefused'
    BY <1>2, <2>6 DEF Enter, Send, Note, Result, Notify, SomeRefused
  <2>. QED
    BY <2>1, <2>2, <2>3, <2>4, <2>5, <2>6, Steps DEF Work
<1>3. ASSUME NEW t \in Thread, pc[t] = [at |-> "result", id |-> -1] PROVE SomeRefused'
  <2>1. CASE Result(t)
    BY <1>3, <2>1, Answered DEF SomeRefused
  <2>2. ASSUME NEW u \in Thread, Work(u), u # t PROVE pc'[t] = pc[t]
    BY <2>2 DEF Work, Take, Enter, Refuse, Send, Note, Result, Notify, Step, Types
  <2>3. Work(t) => Result(t)
    BY <1>3 DEF Work, Take, Enter, Refuse, Send, Note, Notify, Idle
  <2>4. (\A u \in Thread : ~Work(u)) => pc' = pc
    BY Steps, CalmKeeps DEF insert, Finish, vars
  <2>. QED
    BY <1>3, <2>1, <2>2, <2>3, <2>4 DEF SomeRefused
<1>. QED
  BY <1>1, <1>2, <1>3 DEF SomeRefused

\* Notes name the call that opened the operation, or a refused one, and so do
\* the results that find them.
LEMMA HonestStep == Types /\ Ids /\ Honest /\ [Next]_vars => Honest'
<1> SUFFICES ASSUME Types, Ids, Honest, [Next]_vars PROVE Honest'
  OBVIOUS
<1>0. /\ jobId \in Nat /\ opid \in Nat /\ DOMAIN owner = 0 .. opid - 1
      /\ jobId' \in Nat /\ jobId <= jobId'
  <2>1. jobId' = jobId \/ jobId' = jobId + 1
    BY Steps, CalmKeeps
       DEF insert, Work, Take, Enter, Refuse, Send, Note, Result, Notify, Finish, vars
  <2>. QED
    BY <2>1 DEF Types
<1>1. SomeRefused => SomeRefused'
  BY RefusedStays
<1>2. /\ DOMAIN owner \subseteq DOMAIN owner'
      /\ \A d \in DOMAIN owner : owner'[d] = owner[d]
  <2>1. ASSUME NEW t \in Thread, Send(t)
        PROVE  /\ DOMAIN owner \subseteq DOMAIN owner'
               /\ \A d \in DOMAIN owner : owner'[d] = owner[d]
    BY <1>0, <2>1 DEF Send, Put
  <2>2. (\A t \in Thread : ~Send(t)) => owner' = owner
    BY Steps, CalmKeeps
       DEF insert, Work, Take, Enter, Refuse, Note, Result, Notify, Finish, vars, driver
  <2>. QED
    BY <2>1, <2>2
<1>3. \A d, j : Names(d, j) => Names(d, j)'
  BY <1>1, <1>2 DEF Names
<1>4. \A t \in Thread :
        pc'[t].at = "note" => Names(pc[t].driverId, pc[t].job)'
  <2>1. ASSUME NEW u \in Thread, Work(u) PROVE \A t \in Thread \ {u} : pc'[t] = pc[t]
    BY <2>1 DEF Work, Take, Enter, Refuse, Send, Note, Result, Notify, Step, Types
  <2>2. (\A u \in Thread : ~Work(u)) => pc' = pc
    BY Steps, CalmKeeps DEF insert, Finish, vars
  <2>3. ASSUME NEW t \in Thread, Work(t), pc'[t].at = "note"
        PROVE  Names(pc[t].driverId, pc[t].job)'
    <3>1. CASE Refuse(t)
      <4>1. pc'[t].driverId = 0
        BY <3>1, Stepped DEF Refuse
      <4>2. -1 \in Int
        OBVIOUS
      <4>3. [type |-> "result", id |-> -1] \in Item
        BY <4>2 DEF Item
      <4>4. SomeRefused'
        BY <3>1, <4>3, Pushed DEF Refuse, SomeRefused
      <4>. QED
        BY <4>1, <4>4 DEF Names
    <3>2. CASE Send(t)
      <4>1. pc'[t].driverId = opid /\ pc'[t].job = pc[t].job
        BY <3>2, Stepped DEF Send
      <4>2. opid \in DOMAIN owner' /\ owner'[opid] = pc[t].job
        BY <3>2 DEF Send, Put
      <4>. QED
        BY <4>1, <4>2 DEF Names
    <3>3. CASE Take(t)
      BY <2>3, <3>3, Popped DEF Item
    <3>4. CASE Enter(t) \/ Note(t) \/ Result(t) \/ Notify(t)
      BY <2>3, <3>4, Stepped DEF Enter, Note, Result, Notify, Idle
    <3>. QED
      BY <2>3, <3>1, <3>2, <3>3, <3>4 DEF Work
  <2>. QED
    BY <1>3, <2>1, <2>2, <2>3 DEF Honest
<1>5. \A d \in DOMAIN jobIdMap' :
        Names(d, jobIdMap[d])' /\ jobIdMap'[d] \in 1 .. jobId'
  <2>1. ASSUME NEW t \in Thread, Note(t)
        PROVE  \A d \in DOMAIN jobIdMap' :
                 \/ d \in DOMAIN jobIdMap /\ jobIdMap'[d] = jobIdMap[d]
                 \/ d = pc[t].driverId /\ jobIdMap'[d] = pc[t].job
    BY <2>1 DEF Note, Put
  <2>2. ASSUME NEW t \in Thread, Note(t)
        PROVE Names(pc[t].driverId, pc[t].job) /\ pc[t].job \in 1 .. jobId
    BY <2>2 DEF Honest, Ids, Note
  <2>3. ASSUME \A t \in Thread : ~Note(t)
        PROVE  \A d \in DOMAIN jobIdMap' :
                 d \in DOMAIN jobIdMap /\ jobIdMap'[d] = jobIdMap[d]
    BY <2>3, Steps, CalmKeeps
       DEF insert, Work, Take, Enter, Refuse, Send, Result, Notify, Finish, vars
  <2>. QED
    BY <1>0, <1>3, <2>1, <2>2, <2>3 DEF Honest
<1>6. ASSUME NEW t \in Thread, Result(t)
      PROVE  /\ Lookup(pc[t].id) = 0 \/ Names(pc[t].id, Lookup(pc[t].id))
             /\ pc[t].id = -1 => Lookup(pc[t].id) = 0
             /\ pc[t].id \in -1 .. opid - 1
  <2>1. pc[t].id \in -1 .. opid - 1 /\ -1 \notin DOMAIN jobIdMap
    BY <1>6 DEF Ids, Result, Types
  <2>. QED
    BY <2>1 DEF Lookup, Honest
<1>7. ASSUME \A t \in Thread : ~Result(t) PROVE resQue' = resQue
  BY <1>7, Steps, CalmKeeps
     DEF insert, Work, Take, Enter, Refuse, Send, Note, Notify, Finish, vars
<1>8. opid' = opid \/ opid' = opid + 1
  BY Steps, CalmKeeps
     DEF insert, Work, Take, Enter, Refuse, Send, Note, Result, Notify, Finish, vars,
         driver
<1>9. \A n \in DOMAIN resQue' :
        /\ resQue'[n].driverId \in -1 .. opid' - 1
        /\ resQue'[n].driverId = -1 => resQue'[n].id = 0
  <2>1. -1 .. opid - 1 \subseteq -1 .. opid' - 1
    BY <1>0, <1>8
  <2>2. CASE \A t \in Thread : ~Result(t)
    BY <1>7, <2>1, <2>2 DEF Honest
  <2>3. ASSUME NEW t \in Thread, Result(t)
        PROVE  \A n \in DOMAIN resQue' :
                 /\ resQue'[n].driverId \in -1 .. opid' - 1
                 /\ resQue'[n].driverId = -1 => resQue'[n].id = 0
    BY <1>6, <2>1, <2>3, Answered DEF Honest
  <2>. QED
    BY <2>2, <2>3
<1>10. NamesNoOther'
  <2>1. \A n \in DOMAIN resQue :
          resQue[n].id = 0 \/ Names(resQue[n].driverId, resQue[n].id)
    <3>1. \A n \in DOMAIN resQue :
            resQue[n].id = 0 \/ resQue[n].driverId \in DOMAIN owner
      BY <1>0 DEF Honest
    <3>. QED
      BY <3>1 DEF Honest, NamesNoOther, Names
  <2>2. \A n \in DOMAIN resQue' :
          (resQue[n].id = 0 \/ Names(resQue[n].driverId, resQue[n].id))'
    <3>1. CASE \A t \in Thread : ~Result(t)
      BY <1>3, <1>7, <2>1, <3>1
    <3>2. ASSUME NEW t \in Thread, Result(t)
          PROVE  \A n \in DOMAIN resQue' :
                   (resQue[n].id = 0 \/ Names(resQue[n].driverId, resQue[n].id))'
      BY <1>3, <1>6, <2>1, <3>2, Answered
    <3>. QED
      BY <3>1, <3>2
  <2>. QED
    BY <2>2 DEF NamesNoOther, Names
<1>. QED
  BY <1>4, <1>5, <1>9, <1>10 DEF Honest

\* Notes come and go: an operation but 0 is noted once.
LEMMA NotedOnceStep ==
  Types /\ Ids /\ Honest /\ NotedOnce /\ [Next]_vars => NotedOnce'
<1> SUFFICES ASSUME Types, Ids, Honest, NotedOnce, [Next]_vars PROVE NotedOnce'
  OBVIOUS
<1>0. /\ opid \in Nat /\ DOMAIN owner = 0 .. opid - 1
      /\ \A d \in DOMAIN jobIdMap : d # 0 => d # opid
      /\ \A n \in DOMAIN resQue : resQue[n].driverId # opid
      /\ \A t \in Thread :
           pc[t].at = "note" => pc[t].driverId # opid \/ pc[t].driverId = 0
  BY DEF Types, Honest, Names
<1>1. CASE insert \/ Calm \/ UNCHANGED vars \/ \E d \in open : Finish(d)
  <2>1. UNCHANGED <<pc, jobIdMap, resQue>>
    BY <1>1, CalmKeeps DEF insert, Finish, vars
  <2>. QED
    BY <2>1 DEF NotedOnce, NotesAreUsed
<1>2. ASSUME NEW t \in Thread, Take(t) \/ Enter(t) \/ Refuse(t) \/ Notify(t)
      PROVE  NotedOnce'
  <2>1. UNCHANGED <<jobIdMap, resQue>>
    BY <1>2 DEF Take, Enter, Refuse, Notify
  <2>2. \A u \in Thread : u # t => pc'[u] = pc[u]
    BY <1>2 DEF Take, Enter, Refuse, Notify, Step, Types
  <2>3. pc'[t].at = "note" => pc'[t].driverId = 0
    <3>1. CASE Take(t)
      BY <3>1, Popped DEF Item
    <3>2. CASE Enter(t) \/ Refuse(t) \/ Notify(t)
      BY <3>2, Stepped DEF Enter, Refuse, Notify, Idle
    <3>. QED
      BY <1>2, <3>1, <3>2
  <2>. QED
    BY <2>1, <2>2, <2>3 DEF NotedOnce, NotesAreUsed
<1>3. ASSUME NEW t \in Thread, Send(t) PROVE NotedOnce'
  <2>1. UNCHANGED <<jobIdMap, resQue>>
    BY <1>3 DEF Send
  <2>2. \A u \in Thread : u # t => pc'[u] = pc[u]
    BY <1>3 DEF Send, Step, Types
  <2>3. pc'[t].driverId = opid
    BY <1>3, Stepped DEF Send
  <2>. QED
    BY <1>0, <2>1, <2>2, <2>3 DEF NotedOnce, NotesAreUsed
<1>4. ASSUME NEW t \in Thread, Note(t) PROVE NotedOnce'
  <2>1. UNCHANGED resQue /\ pc[t].at = "note"
    BY <1>4 DEF Note
  <2>2. \A u \in Thread : u # t => pc'[u] = pc[u]
    BY <1>4 DEF Note, Step, Types
  <2>3. pc'[t].at = "idle"
    BY <1>4, Stepped DEF Note, Idle
  <2>4. \A d \in DOMAIN jobIdMap' : d \in DOMAIN jobIdMap \/ d = pc[t].driverId
    BY <1>4 DEF Note, Put
  <2>. QED
    BY <2>1, <2>2, <2>3, <2>4 DEF NotedOnce, NotesAreUsed
<1>5. ASSUME NEW t \in Thread, Result(t) PROVE NotedOnce'
  <2>1. \A u \in Thread : u # t => pc'[u] = pc[u]
    BY <1>5 DEF Result, Step, Types
  <2>2. pc'[t].at = "notify"
    BY <1>5, Stepped DEF Result
  <2>3. DOMAIN jobIdMap' = DOMAIN jobIdMap \ {pc[t].id}
    BY <1>5 DEF Result
  <2>4. pc[t].id \notin DOMAIN jobIdMap => Lookup(pc[t].id) = 0
    BY DEF Lookup
  <2>5. \A d : (\A n \in DOMAIN resQue : resQue[n].driverId = d => resQue[n].id = 0)
                 /\ (d # pc[t].id \/ pc[t].id \notin DOMAIN jobIdMap)
               => \A n \in DOMAIN resQue' : resQue'[n].driverId = d => resQue'[n].id = 0
    BY <1>5, <2>4, Answered
  <2>6. NotesAreUsed'
    BY <2>3, <2>5 DEF NotedOnce, NotesAreUsed
  <2>. QED
    BY <2>1, <2>2, <2>3, <2>5, <2>6 DEF NotedOnce
<1>. QED
  BY <1>1, <1>2, <1>3, <1>4, <1>5, Steps DEF Work

-----------------------------------------------------------------------------
(* The invariant, and what follows from it.                                *)

\* All is empty at first, and no thread has a call.
LEMMA WorkerInit == Init => WorkerInv
<1> SUFFICES ASSUME Init PROVE WorkerInv
  OBVIOUS
<1> USE BenchAssumption DEF Init
<1>1. /\ \A t \in Thread : pc[t] = Idle /\ Idle.at = "idle" /\ JobOf(t) = 0
      /\ DOMAIN jobQue = {} /\ DOMAIN resQue = {} /\ DOMAIN jobIdMap = {}
      /\ DOMAIN owner = {} /\ Len(jobQue) = 0 /\ Len(resQue) = 0
  BY EmptySeq DEF JobOf, Idle
<1>2. Types
  <2>1. jobQue \in Seq(Item) /\ resQue \in Seq([id : Int, driverId : Int])
    BY EmptySeq
  <2>2. pc \in [Thread -> Local] /\ DOMAIN owner = 0 .. opid - 1
    BY <1>1 DEF Local
  <2>3. /\ \A d \in DOMAIN jobIdMap : d \in Nat /\ jobIdMap[d] \in Int
        /\ jobId \in Nat /\ opid \in Nat /\ testCnt \in Int
        /\ stage \in 0 .. Stages /\ left \in Nat
    BY <1>1
  <2>4. enableFlag \in BOOLEAN /\ main \in {"insert", "wait", "check", "asleep", "done"}
    OBVIOUS
  <2>. HIDE DEF Init
  <2>. QED
    BY <2>1, <2>2, <2>3, <2>4 DEF Types
<1>3. Paced
  BY <1>1 DEF Paced
<1>4. OneResultEach
  <2>1. {t \in Thread : pc[t].at \in {"call", "send", "result"}} = {}
    BY <1>1
  <2>2. At({"call", "send", "result"}) = 0
    BY <2>1, FS_EmptySet DEF At
  <2>. QED
    BY <1>1, <2>2, FS_EmptySet DEF OneResultEach
<1>5. Ids /\ Apart /\ Honest /\ NotedOnce
  BY <1>1 DEF Ids, Apart, Honest, NotedOnce, NotesAreUsed, NamesNoOther
<1>. QED
  BY <1>2, <1>3, <1>4, <1>5 DEF WorkerInv

\* The whole invariant holds in every reachable state.
THEOREM WorkerCorrect == Spec => []WorkerInv
<1>1. WorkerInv /\ [Next]_vars => WorkerInv'
  BY TypesStep, PacedStep, IdsStep, CountStep, ApartStep, HonestStep, NotedOnceStep
     DEF WorkerInv
<1>. QED
  BY <1>1, WorkerInit, PTL DEF Spec

\* Every call is in one place and has one result in the end, refused or not.
THEOREM OneResultEachCorrect == Spec => []OneResultEach
<1>1. WorkerInv => OneResultEach
  BY DEF WorkerInv
<1>. QED
  BY <1>1, WorkerCorrect, PTL

\* A result names the job whose call it answers, or none; only the result of
\* operation 0 may name a refused call.
THEOREM NamesNoOtherCorrect == Spec => []NamesNoOther
<1>1. WorkerInv => NamesNoOther
  BY DEF WorkerInv, Honest
<1>. QED
  BY <1>1, WorkerCorrect, PTL

\* A note outlives the result of its call only if the result came first and
\* named no job.
THEOREM NotesAreUsedCorrect == Spec => []NotesAreUsed
<1>1. WorkerInv => NotesAreUsed
  BY DEF WorkerInv, NotedOnce
<1>. QED
  BY <1>1, WorkerCorrect, PTL

\* Jobs are counted by the calls of the benchmark, and driver ids by the jobs
\* that opened an operation, each its own.
LEMMA IdsBounded ==
  ASSUME WorkerInv
  PROVE  jobId <= MaxJob /\ opid <= jobId
<1>1. jobId <= MaxJob
  <2>1. stage \in 0 .. Stages /\ jobId + left = Warm + stage * Records
        /\ left \in Nat /\ jobId \in Nat
    BY DEF WorkerInv, Types, Paced
  <2>2. stage * Records <= Stages * Records
    BY <2>1, BenchAssumption
  <2>3. MaxJob = Warm + Stages * Records
    BY BenchAssumption DEF MaxJob
  <2>. QED
    BY <2>1, <2>2, <2>3, BenchAssumption
<1>2. opid <= jobId
  <2> DEFINE f == [d \in 0 .. opid - 1 |-> owner[d]]
  <2>1. opid \in Nat /\ jobId \in Nat /\ opid - 1 \in Int
    BY DEF WorkerInv, Types
  <2>2. f \in Injection(0 .. opid - 1, 1 .. jobId)
    BY DEF WorkerInv, Types, Ids, Apart, Injection, IsInjective
  <2>3. Cardinality(0 .. opid - 1) <= Cardinality(1 .. jobId)
    <3>1. IsFiniteSet(1 .. jobId)
      BY <2>1, FS_Interval
    <3>. HIDE DEF f
    <3>. QED
      BY <2>2, <3>1, FS_Injection
  <2>4. Cardinality(0 .. opid - 1) = opid /\ Cardinality(1 .. jobId) = jobId
    BY <2>1, FS_Interval
  <2>. QED
    BY <2>3, <2>4
<1>. QED
  BY <1>1, <1>2

\* Every reachable state is made of the values that the C++ types allow, ids
\* and testCnt within the bounds that the number of calls sets.
THEOREM TypeCorrect == Spec => []TypeOK
<1>1. WorkerInv => TypeOK
  <2> SUFFICES ASSUME WorkerInv PROVE TypeOK
    OBVIOUS
  <2>1. Types /\ Paced /\ Ids /\ Honest
    BY DEF WorkerInv
  <2>2. jobId \in 0 .. MaxJob /\ opid \in 0 .. MaxJob /\ MaxJob \in Nat
        /\ opid <= jobId
    <3>1. jobId \in Nat /\ opid \in Nat /\ MaxJob \in Int
      BY <2>1, BenchAssumption DEF Types, MaxJob
    <3>. QED
      BY <3>1, IdsBounded
  <2>3. jobQue \in Seq([type : {"call", "result"}, id : -1 .. MaxJob])
    <3> DEFINE I == [type : {"call", "result"}, id : -1 .. MaxJob]
    <3>1. /\ Len(jobQue) \in Nat /\ DOMAIN jobQue = 1 .. Len(jobQue)
          /\ jobQue \in [1 .. Len(jobQue) -> Item]
      BY <2>1, LenProperties DEF Types
    <3>2. \A n \in DOMAIN jobQue : jobQue[n] \in I
      <4> SUFFICES ASSUME NEW n \in DOMAIN jobQue PROVE jobQue[n] \in I
        OBVIOUS
      <4>1. jobQue[n] \in Item
        BY <3>1
      <4>2. jobQue[n].id \in -1 .. MaxJob
        BY <2>1, <2>2 DEF Ids
      <4>. QED
        BY <4>1, <4>2 DEF Item
    <3>3. jobQue \in [1 .. Len(jobQue) -> I]
      BY <3>1, <3>2
    <3>4. jobQue \in UNION {[1 .. n -> I] : n \in Nat}
      BY <3>1, <3>3
    <3>5. Seq(I) = UNION {[1 .. n -> I] : n \in Nat}
      BY SeqDef
    <3>. QED
      BY <3>4, <3>5
  <2>4. pc \in [Thread -> States]
    <3> SUFFICES ASSUME NEW t \in Thread PROVE pc[t] \in States
      BY <2>1 DEF Types
    <3>1. pc[t] \in Local
      BY <2>1 DEF Types
    <3>2. CASE pc[t].at \in {"idle", "notify"}
      BY <3>1, <3>2 DEF Local, States, Idle
    <3>3. CASE pc[t].at = "call"
      <4>1. pc[t].id \in 1 .. MaxJob
        BY <2>1, <2>2, <3>3 DEF Ids
      <4>. QED
        BY <3>1, <3>3, <4>1 DEF Local, States, Idle
    <3>4. CASE pc[t].at = "send"
      <4>1. pc[t].job \in 1 .. MaxJob
        BY <2>1, <2>2, <3>4 DEF Ids
      <4>. QED
        BY <3>1, <3>4, <4>1 DEF Local, States, Idle
    <3>5. CASE pc[t].at = "result"
      <4>1. pc[t].id \in -1 .. MaxJob
        BY <2>1, <2>2, <3>5 DEF Ids
      <4>. QED
        BY <3>1, <3>5, <4>1 DEF Local, States, Idle
    <3>6. CASE pc[t].at = "note"
      <4>1. pc[t].job \in 1 .. MaxJob
        BY <2>1, <2>2, <3>6 DEF Ids
      <4>2. pc[t].driverId \in 0 .. MaxJob
        BY <2>1, <2>2, <3>6 DEF Honest, Names, Types
      <4>. QED
        BY <3>1, <3>6, <4>1, <4>2 DEF Local, States, Idle
    <3>. QED
      BY <3>1, <3>2, <3>3, <3>4, <3>5, <3>6, Locals
  <2>5. \A d \in DOMAIN jobIdMap : d \in 0 .. MaxJob /\ jobIdMap[d] \in 1 .. MaxJob
    BY <2>1, <2>2 DEF Honest, Names, Types
  <2>6. Len(resQue) <= jobId
    <3>1. Len(jobQue) \in Nat /\ Len(resQue) \in Nat
      BY <2>1, LenProperties DEF Types
    <3>2. At({"call", "send", "result"}) \in Nat
      <4>1. IsFiniteSet({t \in Thread : pc[t].at \in {"call", "send", "result"}})
        BY BenchAssumption, FS_Subset
      <4>. QED
        BY <4>1, FS_CardinalityType DEF At
    <3>3. Cardinality(open) \in Nat
      BY <2>1, OpenFinite
    <3>. QED
      BY <2>2, <3>1, <3>2, <3>3 DEF WorkerInv, OneResultEach
  <2>7. testCnt \in -MaxJob .. Records
    <3>1. testCnt \in Int /\ testCnt <= Records /\ 0 <= testCnt + Len(resQue)
          /\ Len(resQue) \in Nat /\ Records \in Int
      BY <2>1, LenProperties, BenchAssumption DEF Types, Paced
    <3>. QED
      BY <2>2, <2>6, <3>1
  <2>. QED
    BY <2>1, <2>2, <2>3, <2>4, <2>5, <2>6, <2>7 DEF TypeOK, Types, Ids
<1>. QED
  BY <1>1, WorkerCorrect, PTL
=============================================================================
