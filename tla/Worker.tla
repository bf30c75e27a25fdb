------------------------------- MODULE Worker -------------------------------
(***************************************************************************)
(* The worker threads of one host (namespace Worker) between the client    *)
(* that inserts calls, here the benchmark of main.cpp, and the Driver that *)
(* runs them.  Calls and results share one queue.  A worker hands a call   *)
(* to Driver and then notes under the driver's id which job it was; the    *)
(* result of the call comes back under that id, maybe before the note.     *)
(*                                                                         *)
(* Driver appears as it looks from here: a call is refused, or opens an    *)
(* operation that finishes at some later time; Driver.tla says how.  Puts  *)
(* and gets differ in nothing that this module tells apart.                *)
(***************************************************************************)
EXTENDS Integers, FiniteSets, Sequences

CONSTANTS
  Thread,    \* the worker threads
  Warm,      \* calls that no stage waits for; main has 100 before the first
  Records,   \* calls of a stage; main's are 1000 or 10000
  Stages,    \* stages of the benchmark; main has 6
  Flagging   \* whether somebody sets the enableFlag of this host

ASSUME BenchAssumption ==
  /\ IsFiniteSet(Thread)
  /\ Warm \in Nat /\ Records \in Nat \ {0} /\ Stages \in Nat
  /\ Flagging \in BOOLEAN

MaxJob == Warm + Records * Stages

VARIABLES
  \* Worker:
  jobQue,     \* calls with their job id, results with their driver id
  pc,         \* pc[t]: what t is doing
  jobIdMap,   \* the jobs noted: a function from driver ids to job ids
  jobId,      \* the last job id given out
  resQue,     \* the results, in the order they were pushed
  testCnt,    \* results that the benchmark still waits for
  \* Driver:
  enableFlag, \* whether calls are refused
  opid,       \* the next driver id
  open,       \* the operations that have not finished
  \* main:
  main,       \* what main does: insert, wait, check, asleep, done
  stage,      \* the stage it is at, 0 for the calls before the first
  left,       \* calls it has still to insert in this stage
  \* History, never read by the code:
  owner       \* owner[d]: the job whose call opened d

driver == <<enableFlag, opid, open, owner>>
bench == <<main, stage, left>>
vars == <<jobQue, pc, jobIdMap, jobId, resQue, testCnt, driver, bench>>

Idle == [at |-> "idle"]
Put(f, x, y) == [z \in DOMAIN f \cup {x} |-> IF z = x THEN y ELSE f[z]]

Init ==
  /\ jobQue = << >> /\ pc = [t \in Thread |-> Idle]
  /\ jobIdMap = << >> /\ jobId = 0 /\ resQue = << >> /\ testCnt = 0
  /\ enableFlag = FALSE /\ opid = 0 /\ open = {}
  /\ main = "insert" /\ stage = 0 /\ left = Warm
  /\ owner = << >>

-----------------------------------------------------------------------------
(* main: the benchmark.                                                    *)

\* Mutant of insert: one call too many.
insertOneMore ==
  /\ main = "insert" /\ left >= 0
  /\ jobId' = jobId + 1
  /\ jobQue' = Append(jobQue, [type |-> "call", id |-> jobId'])
  /\ left' = left - 1
  /\ UNCHANGED <<pc, jobIdMap, resQue, testCnt, driver, main, stage>>

\* insertPut or insertGet.
insert ==
  /\ main = "insert" /\ left > 0
  /\ jobId' = jobId + 1
  /\ jobQue' = Append(jobQue, [type |-> "call", id |-> jobId'])
  /\ left' = left - 1
  /\ UNCHANGED <<pc, jobIdMap, resQue, testCnt, driver, main, stage>>

\* testCnt is set anew, whatever results are still to come.
BeginStage ==
  /\ stage < Stages
  /\ \/ main = "insert" /\ left = 0 /\ stage = 0
     \/ main = "wait" /\ testCnt = 0
  /\ testCnt' = Records
  /\ stage' = stage + 1 /\ left' = Records
  /\ main' = "insert"
  /\ UNCHANGED <<jobQue, pc, jobIdMap, jobId, resQue, driver>>

\* All is inserted, main waits for testCond; it looks at testCnt under
\* testMu, and again each time it is woken.
Wait ==
  /\ main = "insert" /\ left = 0 /\ stage > 0
  /\ main' = "wait"
  /\ UNCHANGED <<jobQue, pc, jobIdMap, jobId, resQue, testCnt, driver, stage,
                 left>>

WaitOn ==
  /\ main = "wait" /\ testCnt # 0
  /\ main' = "check"
  /\ UNCHANGED <<jobQue, pc, jobIdMap, jobId, resQue, testCnt, driver, stage,
                 left>>

\* Between the look and the sleep main holds testMu, which no worker takes.
Sleep ==
  /\ main = "check"
  /\ main' = "asleep"
  /\ UNCHANGED <<jobQue, pc, jobIdMap, jobId, resQue, testCnt, driver, stage,
                 left>>

BenchDone ==
  /\ main = "wait" /\ testCnt = 0 /\ stage = Stages
  /\ main' = "done"
  /\ UNCHANGED <<jobQue, pc, jobIdMap, jobId, resQue, testCnt, driver, stage,
                 left>>

-----------------------------------------------------------------------------
(* The worker threads.                                                     *)

Step(t, to) == pc' = [pc EXCEPT ![t] = to]

Take(t) ==
  /\ pc[t] = Idle /\ jobQue # << >>
  /\ Step(t, [at |-> Head(jobQue).type, id |-> Head(jobQue).id])
  /\ jobQue' = Tail(jobQue)
  /\ UNCHANGED <<jobIdMap, jobId, resQue, testCnt, driver, bench>>

\* The flag was not set; the call goes on to open an operation.
Enter(t) ==
  /\ pc[t].at = "call" /\ ~enableFlag
  /\ Step(t, [at |-> "send", job |-> pc[t].id])
  /\ UNCHANGED <<jobQue, jobIdMap, jobId, resQue, testCnt, driver, bench>>

\* Mutant of Refuse: a refused call has no result.
RefuseSilently(t) ==
  /\ pc[t].at = "call" /\ enableFlag
  /\ Step(t, [at |-> "note", driverId |-> 0, job |-> pc[t].id])
  /\ UNCHANGED <<jobQue, jobIdMap, jobId, resQue, testCnt, driver, bench>>

\* A refused call has a result of id -1, and 0 for its driver id.
Refuse(t) ==
  /\ pc[t].at = "call" /\ enableFlag
  /\ jobQue' = Append(jobQue, [type |-> "result", id |-> -1])
  /\ Step(t, [at |-> "note", driverId |-> 0, job |-> pc[t].id])
  /\ UNCHANGED <<jobIdMap, jobId, resQue, testCnt, driver, bench>>

\* Mutant of Send: the driver id is not used up.
SendSameId(t) ==
  /\ pc[t].at = "send"
  /\ open' = open \cup {opid}
  /\ owner' = Put(owner, opid, pc[t].job)
  /\ Step(t, [at |-> "note", driverId |-> opid, job |-> pc[t].job])
  /\ UNCHANGED <<jobQue, jobIdMap, jobId, resQue, testCnt, enableFlag, opid,
                 bench>>

Send(t) ==
  /\ pc[t].at = "send"
  /\ opid' = opid + 1
  /\ open' = open \cup {opid}
  /\ owner' = Put(owner, opid, pc[t].job)
  /\ Step(t, [at |-> "note", driverId |-> opid, job |-> pc[t].job])
  /\ UNCHANGED <<jobQue, jobIdMap, jobId, resQue, testCnt, enableFlag, bench>>

\* jobIdMap.emplace: an id that is there keeps its job.
Note(t) ==
  /\ pc[t].at = "note"
  /\ jobIdMap' = IF pc[t].driverId \in DOMAIN jobIdMap THEN jobIdMap
                 ELSE Put(jobIdMap, pc[t].driverId, pc[t].job)
  /\ Step(t, Idle)
  /\ UNCHANGED <<jobQue, jobId, resQue, testCnt, driver, bench>>

\* The job under d in the map, 0 for none.
Lookup(d) == IF d \in DOMAIN jobIdMap THEN jobIdMap[d] ELSE 0

\* Mutants of Result: nothing is done; the note stays in the map.
ResultIgnored(t) ==
  /\ pc[t].at = "result"
  /\ Step(t, Idle)
  /\ UNCHANGED <<jobQue, jobIdMap, jobId, resQue, testCnt, driver, bench>>

ResultKeeps(t) ==
  /\ pc[t].at = "result"
  /\ resQue' = Append(resQue, [id |-> Lookup(pc[t].id), driverId |-> pc[t].id])
  /\ testCnt' = testCnt - 1
  /\ Step(t, [at |-> "notify"])
  /\ UNCHANGED <<jobQue, jobIdMap, jobId, driver, bench>>

\* Under mu the note is read and erased; what follows is not under a lock.
Result(t) ==
  /\ pc[t].at = "result"
  /\ resQue' = Append(resQue, [id |-> Lookup(pc[t].id), driverId |-> pc[t].id])
  /\ jobIdMap' = [d \in DOMAIN jobIdMap \ {pc[t].id} |-> jobIdMap[d]]
  /\ testCnt' = testCnt - 1
  /\ Step(t, [at |-> "notify"])
  /\ UNCHANGED <<jobQue, jobId, driver, bench>>

\* notify_all wakes main when it sleeps, and is lost when it does not.
Notify(t) ==
  /\ pc[t].at = "notify"
  /\ main' = IF main = "asleep" THEN "wait" ELSE main
  /\ Step(t, Idle)
  /\ UNCHANGED <<jobQue, jobIdMap, jobId, resQue, testCnt, driver, stage, left>>

Work(t) ==
  Take(t) \/ Enter(t) \/ Refuse(t) \/ Send(t) \/ Note(t) \/ Result(t) \/ Notify(t)

-----------------------------------------------------------------------------
(* Driver, as it looks from the workers.                                   *)

\* putFinish or getFinish: the operation has left the table of entries.
Finish(d) ==
  /\ d \in open
  /\ open' = open \ {d}
  /\ jobQue' = Append(jobQue, [type |-> "result", id |-> d])
  /\ UNCHANGED <<pc, jobIdMap, jobId, resQue, testCnt, enableFlag, opid, owner,
                 bench>>

actSetEnableFlag ==
  /\ Flagging /\ open = {}
  /\ enableFlag' = ~enableFlag
  /\ UNCHANGED <<jobQue, pc, jobIdMap, jobId, resQue, testCnt, opid, open, owner,
                 bench>>

Main == insert \/ BeginStage \/ Wait \/ WaitOn \/ Sleep \/ BenchDone

Next ==
  \/ Main
  \/ \E t \in Thread : Work(t)
  \/ \E d \in open : Finish(d)
  \/ actSetEnableFlag

Spec == Init /\ [][Next]_vars

\* Threads run, and every operation that was opened finishes, as Driver.tla
\* shows when all hosts answer.
FairSpec ==
  /\ Spec
  /\ WF_vars(Main)
  /\ \A t \in Thread : WF_vars(Work(t))
  /\ \A d \in 0 .. MaxJob : WF_vars(Finish(d))

-----------------------------------------------------------------------------
(* Properties.                                                             *)

States == {Idle, [at |-> "notify"]}
            \cup [at : {"call"}, id : 1 .. MaxJob]
            \cup [at : {"send"}, job : 1 .. MaxJob]
            \cup [at : {"result"}, id : -1 .. MaxJob]
            \cup [at : {"note"}, driverId : 0 .. MaxJob, job : 1 .. MaxJob]

\* The state is made of the values that the C++ types allow; testCnt may be
\* negative, but by no more than the calls there are.
TypeOK ==
  /\ jobQue \in Seq([type : {"call", "result"}, id : -1 .. MaxJob])
  /\ pc \in [Thread -> States]
  /\ \A d \in DOMAIN jobIdMap : d \in 0 .. MaxJob /\ jobIdMap[d] \in 1 .. MaxJob
  /\ jobId \in 0 .. MaxJob /\ Len(resQue) <= jobId
  /\ testCnt \in -MaxJob .. Records
  /\ enableFlag \in BOOLEAN /\ opid \in 0 .. MaxJob
  /\ open \subseteq DOMAIN owner
  /\ main \in {"insert", "wait", "check", "asleep", "done"}
  /\ stage \in 0 .. Stages /\ left \in Nat

At(where) == Cardinality({t \in Thread : pc[t].at \in where})

\* Every call inserted is in one place, and has one result in the end: none
\* is lost and none answered twice, refused or not.
OneResultEach ==
  jobId = Len(jobQue) + At({"call", "send", "result"}) + Cardinality(open)
            + Len(resQue)

SomeRefused ==
  \/ \E n \in DOMAIN resQue : resQue[n].driverId = -1
  \/ \E n \in DOMAIN jobQue : jobQue[n].id = -1
  \/ \E t \in Thread : pc[t] = [at |-> "result", id |-> -1]

\* A result names the job whose call it answers, or none.  Only the result
\* of operation 0 may name another: that of a refused call, whose driver id
\* is 0 as well.
NamesNoOther ==
  \A n \in DOMAIN resQue :
    \/ resQue[n].id = 0
    \/ resQue[n].driverId = 0 /\ SomeRefused
    \/ resQue[n].id = owner[resQue[n].driverId]

\* A note stays in jobIdMap after the result of its call only if the result
\* came first and named no job; 0, the driver id of refused calls, apart.
NotesAreUsed ==
  \A d \in DOMAIN jobIdMap \ {0} :
    \A n \in DOMAIN resQue : resQue[n].driverId = d => resQue[n].id = 0

\* Every call that was inserted is answered in the end.
AllAnswered == <>[](Len(resQue) = jobId)

\* When the benchmark does not come to its end, main sleeps although no
\* result that it waits for is missing: what it misses is a notification that
\* came between its look at testCnt and its sleep, or the 0 that testCnt
\* passed while results of an earlier stage were counted.
MissesNoResult == <>(main = "done") \/ <>[](main = "asleep" /\ testCnt <= 0)

-----------------------------------------------------------------------------
(* Formulas that the code does not satisfy; README.md gives the instances. *)

\* main.cpp:79-83: the benchmark waits until its calls have results, and
\* then comes to its end.
BenchEnds == <>(main = "done")

\* worker.cpp:58: the result that is displayed names the job it is of.
NamesItsJob ==
  \A n \in DOMAIN resQue :
    resQue[n].driverId >= 0 => resQue[n].id = owner[resQue[n].driverId]

\* main.cpp:70: a stage measures the time of as many calls as it says, those
\* that it inserted itself: they have results when the stage ends.
StageMeasured ==
  main = "done" => Len(resQue) = MaxJob
=============================================================================
