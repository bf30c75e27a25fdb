----------------------------- MODULE Membership -----------------------------
(***************************************************************************)
(* The conversation of a change of membership: the console of the primary  *)
(* (Driver::setEnableFlag, addServer, removeServer), the hosts that act on *)
(* its messages, and the answers that count its three counters down.       *)
(*                                                                         *)
(* A change has four steps: the moves of its plan, a pause of all hosts,   *)
(* the change of every host's list, and the end of the pause.  Each step   *)
(* sets a counter, sends messages and waits until the counter is zero.     *)
(* Answers carry an id that nobody looks at: an answer of an earlier step  *)
(* counts like one of this step.                                           *)
(*                                                                         *)
(* Messages in flight are a set: one connection each, handled in any order *)
(* by the handler threads of the host.  Of the answers only the number of  *)
(* each kind is kept.  A message to a host that is down is dropped, and so *)
(* is an answer that the primary does not get; nobody sends it again, and  *)
(* nobody waits with a timeout.  Which ranges a plan moves is in           *)
(* HashRing.tla, what a move does in DataStore.tla; lists are sets here.   *)
(***************************************************************************)
EXTENDS Integers, FiniteSets

CONSTANTS
  Host,           \* the hosts there are
  Primary,        \* the host whose console is used
  Configs,        \* the host lists that configuration files may give
  N,              \* THKVS_N, the number of replicas
  Cores,          \* hardware_concurrency() of every host
  Caller,         \* hosts with a client, which calls one operation at a time
  Ops,            \* the commands that are given: add, remove, set
  MaxRange,       \* bound: ranges that a plan moves
  MaxChange,      \* bound: commands given
  MaxRemove,      \* bound: rounds of removals
  MaxLost,        \* bound: what messages, answers and replies are lost of
  DataMayBeLost,  \* whether the records of a range may not fit a message
  Failing         \* hosts that may be down: what is sent to them, or by them,
                  \* may be lost

\* main.cpp makes (Cores - 10) / 2 handler threads; the difference is
\* unsigned, so that fewer than 10 cores would make about 2^31.
Handlers == (Cores - 10) \div 2

ASSUME MembershipAssumption ==
  /\ IsFiniteSet(Host)
  /\ \A C \in Configs : Primary \in C /\ C \subseteq Host
  /\ Caller \subseteq Host
  /\ N \in Nat \ {0} /\ Cores \in Nat /\ Cores >= 10
  /\ MaxRange \in Nat \ {0} /\ MaxChange \in Nat /\ MaxRemove \in Nat /\ MaxLost \in Nat
  /\ Ops \subseteq {"add", "remove", "set"}
  /\ DataMayBeLost \in BOOLEAN /\ Failing \subseteq Host

VARIABLES
  con,         \* the console: its command, the step it is at, and where
  cnt,         \* moveCnt, enableCnt and serverCnt of the primary
  hostList,    \* hostList[h]: the hosts that h takes for the system's
  enableFlag,  \* enableFlag[h]: TRUE when h refuses calls
  calls,       \* calls[h]: the call of h's client: none, passed, open, or
               \* undecided: open, and too many replies were lost
  net,         \* messages in flight, numbered by their command, but for
  answers,     \* answers in flight: how many, by the counter they are for
  waiting,     \* setflag messages whose handler thread waits
  \* History, never read by the code:
  begun,       \* commands given
  removals,    \* rounds of removeserver messages
  wraps,       \* moved ranges that were answered twice
  lost,        \* what a message was lost of: a counter, or an operation
  missed       \* whether the last notification came before the sleep

hosts == <<hostList, enableFlag, calls>>
mail == <<net, answers, waiting>>
history == <<begun, removals, wraps, lost, missed>>
vars == <<con, cnt, hosts, mail, history>>

Idle == [op |-> "none", host |-> Primary, step |-> "idle", at |-> "idle"]
Members == hostList[Primary]

\* The counter that a step waits for.
CounterOf == [move |-> "moveCnt", pause |-> "enableCnt",
              list |-> "serverCnt", resume |-> "enableCnt"]

\* A handler thread of h that waits for nothing.
Free(h) == Cardinality({m \in waiting : m.to = h}) < Handlers

NoAnswers == [moveCnt |-> 0, enableCnt |-> 0, serverCnt |-> 0]

Init ==
  /\ con = Idle
  /\ cnt = NoAnswers /\ answers = NoAnswers
  /\ \E C \in Configs : hostList = [h \in Host |-> C]
  /\ enableFlag = [h \in Host |-> FALSE]
  /\ calls = [h \in Host |-> "none"]
  /\ net = {} /\ waiting = {}
  /\ begun = 0 /\ removals = 0 /\ wraps = 0 /\ lost = {} /\ missed = FALSE

-----------------------------------------------------------------------------
(* The console of the primary.                                             *)

Give(op) ==
  /\ con = Idle
  /\ begun < MaxChange /\ op \in Ops
  /\ begun' = begun + 1

Begin(op, h, step, at) ==
  con' = [op |-> op, host |-> h, step |-> step, at |-> at]

At(at) == con' = [con EXCEPT !.at = at]

setEnableFlag(flag) ==
  /\ Give("set")
  /\ Begin("set", Primary, IF flag THEN "pause" ELSE "resume", "count")
  /\ UNCHANGED <<cnt, hosts, mail, removals, wraps, lost, missed>>

\* Mutant of SendPlan: the ranges are not counted.
SendPlanUncounted ==
  \E ranges \in 1 .. MaxRange, wrapped \in BOOLEAN :
    /\ net' = net \cup {[kind |-> "move", id |-> begun, range |-> r] :
                          r \in (IF wrapped THEN 0 ELSE 1) .. ranges}
    /\ cnt' = [cnt EXCEPT !.moveCnt = 0]
    /\ wraps' = wraps + IF wrapped THEN 1 ELSE 0

\* One move message per range.  The range that wraps, if the plan moves it,
\* becomes two at its source, and both are answered.
SendPlan ==
  \E ranges \in 1 .. MaxRange, wrapped \in BOOLEAN :
    /\ net' = net \cup {[kind |-> "move", id |-> begun, range |-> r] :
                          r \in (IF wrapped THEN 0 ELSE 1) .. ranges}
    /\ cnt' = [cnt EXCEPT !.moveCnt = ranges]
    /\ wraps' = wraps + IF wrapped THEN 1 ELSE 0

\* The walk for the N + 1 hosts of a range has no end when there are fewer.
PlanOrSpin(size) ==
  \/ /\ size > N
     /\ SendPlan
     /\ At("test")
  \/ /\ size <= N
     /\ At("spin")
     /\ UNCHANGED <<net, cnt, wraps>>

\* A host that joins is started with a configuration file that names the
\* hosts of the system and itself.
addServer(h) ==
  /\ Give("add")
  /\ ~enableFlag[Primary]
  /\ h \notin Members
  /\ Begin("add", h, "move", "plan")
  /\ hostList' = [hostList EXCEPT ![h] = Members \cup {h}]
  /\ enableFlag' = [enableFlag EXCEPT ![h] = FALSE]
  /\ calls' = [calls EXCEPT ![h] = "none"]
  /\ waiting' = {m \in waiting : m.to # h}
  /\ UNCHANGED <<cnt, net, answers, removals, wraps, lost, missed>>

removeServer(h) ==
  /\ Give("remove") /\ removals < MaxRemove
  /\ ~enableFlag[Primary]
  /\ h \in Members
  /\ Begin("remove", h, "move", "plan")
  /\ UNCHANGED <<cnt, hosts, mail, removals, wraps, lost, missed>>

Plan ==
  /\ con.at = "plan"
  /\ PlanOrSpin(Cardinality(Members \cup {con.host}))
  /\ UNCHANGED <<hosts, answers, waiting, begun, removals, lost, missed>>

\* Mutant of CountHosts: one host is not waited for.
CountOthers ==
  /\ con.at = "count"
  /\ cnt' = [cnt EXCEPT !.enableCnt = Cardinality(Members) - 1]
  /\ At("send")
  /\ UNCHANGED <<hosts, mail, history>>

\* setEnableFlag counts the hosts, and then sends to each; it holds no lock.
CountHosts ==
  /\ con.at = "count"
  /\ cnt' = [cnt EXCEPT !.enableCnt = Cardinality(Members)]
  /\ At("send")
  /\ UNCHANGED <<hosts, mail, history>>

SendFlags ==
  /\ con.at = "send"
  /\ net' = net \cup {[kind |-> "setflag", to |-> h, id |-> begun,
                       flag |-> con.step = "pause"] : h \in Members}
  /\ At("test")
  /\ UNCHANGED <<cnt, hosts, answers, waiting, history>>

\* Mutant of Awaited: an addition waits for one answer less as well.
AwaitedOthers == Cardinality(Members) - 1

\* Every host is told, but a removal waits for one answer less.
Awaited ==
  IF con.op = "add" THEN Cardinality(Members) ELSE Cardinality(Members) - 1

SendLists ==
  /\ con.at = "lists"
  /\ cnt' = [cnt EXCEPT !.serverCnt = Awaited]
  /\ net' = net \cup {[kind |-> con.op, to |-> h, id |-> begun,
                       host |-> con.host] : h \in Members}
  /\ removals' = removals + IF con.op = "remove" THEN 1 ELSE 0
  /\ At("test")
  /\ UNCHANGED <<hosts, answers, waiting, begun, wraps, lost, missed>>

\* The wait for the counter of the step.  The primary holds mu from the look
\* at the counter until it sleeps, but those who count down do not take it.
Counter == cnt[CounterOf[con.step]]

\* Mutant of NextStep: the lists change before the pause.
NextStepSwapped ==
  CASE con.step = "move" -> [con EXCEPT !.step = "list", !.at = "lists"]
    [] con.step = "list" -> [con EXCEPT !.step = "pause", !.at = "count"]
    [] con.step = "pause" /\ con.op # "set" ->
         [con EXCEPT !.step = "resume", !.at = "count"]
    [] OTHER -> Idle

NextStep ==
  CASE con.step = "move" -> [con EXCEPT !.step = "pause", !.at = "count"]
    [] con.step = "pause" /\ con.op # "set" ->
         [con EXCEPT !.step = "list", !.at = "lists"]
    [] con.step = "list" -> [con EXCEPT !.step = "resume", !.at = "count"]
    [] OTHER -> Idle

Pass ==
  /\ con.at = "test" /\ Counter = 0
  /\ con' = NextStep
  /\ missed' = FALSE
  /\ UNCHANGED <<cnt, hosts, mail, begun, removals, wraps, lost>>

Look ==
  /\ con.at = "test" /\ Counter # 0
  /\ At("sleepy")
  /\ UNCHANGED <<cnt, hosts, mail, history>>

Sleep ==
  /\ con.at = "sleepy"
  /\ At("asleep")
  /\ UNCHANGED <<cnt, hosts, mail, history>>

Console == Plan \/ CountHosts \/ SendFlags \/ SendLists \/ Pass \/ Look \/ Sleep

-----------------------------------------------------------------------------
(* The handler threads of the hosts.                                       *)

\* An answer goes to the primary, where it will count counter down.
Answer(counter) == answers' = [answers EXCEPT ![counter] = @ + 1]

\* A handler thread of m.to takes the message off the queue.
Take(m, kind) == m \in net /\ m.kind = kind /\ Free(m.to)

handleSetFlag(m) ==
  /\ Take(m, "setflag")
  /\ net' = net \ {m}
  /\ waiting' = waiting \cup {m}
  /\ UNCHANGED <<con, cnt, hosts, answers, history>>

\* The thread waits for the table of operations to be empty.
actSetEnableFlag(m) ==
  /\ m \in waiting
  /\ calls[m.to] \notin {"open", "undecided"}
  /\ waiting' = waiting \ {m}
  /\ enableFlag' = [enableFlag EXCEPT ![m.to] = m.flag]
  /\ Answer("enableCnt")
  /\ UNCHANGED <<con, cnt, hostList, calls, net, history>>

actAddServer(m) ==
  /\ Take(m, "add")
  /\ hostList' = [hostList EXCEPT ![m.to] = @ \cup {m.host}]
  /\ net' = net \ {m}
  /\ Answer("serverCnt")
  /\ UNCHANGED <<con, cnt, enableFlag, calls, waiting, history>>

actRemoveServer(m) ==
  /\ Take(m, "remove")
  /\ hostList' = [hostList EXCEPT ![m.to] = @ \ {m.host}]
  /\ net' = net \ {m}
  /\ Answer("serverCnt")
  /\ UNCHANGED <<con, cnt, enableFlag, calls, waiting, history>>

\* The source has sent the records of the range, the target has stored them,
\* and the source tells the primary.
handleMove(m) ==
  /\ m \in net /\ m.kind = "move"
  /\ net' = net \ {m}
  /\ Answer("moveCnt")
  /\ UNCHANGED <<con, cnt, hosts, waiting, history>>

\* Something of what was lost: a message or an answer that would have counted
\* a counter down, or replies to a call.
Lose(what) ==
  /\ lost' = lost \cup {what}
  /\ Cardinality(lost') <= MaxLost

\* More than MAX_BODY_SIZE bytes: the target drops them and nobody is told.  Or
\* the source or the target of the range is down.
LoseMove(m) ==
  /\ DataMayBeLost \/ Failing # {}
  /\ m \in net /\ m.kind = "move"
  /\ net' = net \ {m}
  /\ Lose("moveCnt")
  /\ UNCHANGED <<con, cnt, hosts, answers, waiting, begun, removals, wraps, missed>>

\* No connection to the host: write_message drops the message.
LoseMessage(m) ==
  /\ m \in net /\ m.kind # "move" /\ m.to \in Failing
  /\ net' = net \ {m}
  /\ Lose(IF m.kind = "setflag" THEN "enableCnt" ELSE "serverCnt")
  /\ UNCHANGED <<con, cnt, hosts, answers, waiting, begun, removals, wraps, missed>>

\* The host went down before it answered, or the answer found no connection.
LoseAnswer(counter) ==
  /\ Failing # {} /\ answers[counter] > 0
  /\ answers' = [answers EXCEPT ![counter] = @ - 1]
  /\ Lose(counter)
  /\ UNCHANGED <<con, cnt, hosts, net, waiting, begun, removals, wraps, missed>>

\* Mutant of Wake: nobody is notified.
WakeNobody(counter) == UNCHANGED <<con, missed>>

\* notify_all: the console looks again if it sleeps on this condition, and
\* hears nothing if it does not sleep yet.
Wake(counter) ==
  LET awaits == con # Idle /\ CounterOf[con.step] = counter
  IN  /\ missed' = IF awaits THEN con.at = "sleepy" ELSE missed
      /\ con' = IF awaits /\ con.at = "asleep"
                THEN [con EXCEPT !.at = "test"] ELSE con

\* setEnableFlagReturn, addServerReturn, removeServerReturn, moveReturn.
Return(counter) ==
  /\ answers[counter] > 0 /\ Free(Primary)
  /\ answers' = [answers EXCEPT ![counter] = @ - 1]
  /\ cnt' = [cnt EXCEPT ![counter] = @ - 1]
  /\ Wake(counter)
  /\ UNCHANGED <<hosts, net, waiting, begun, removals, wraps, lost>>

-----------------------------------------------------------------------------
(* Clients' calls, as far as the pause is concerned.                       *)

Call(h, from, to) ==
  /\ h \in Caller
  /\ calls[h] = from
  /\ calls' = [calls EXCEPT ![h] = to]
  /\ UNCHANGED <<con, cnt, hostList, enableFlag, mail, history>>

Enter(h) == ~enableFlag[h] /\ Call(h, "none", "passed")
Register(h) == Call(h, "passed", "open")

\* Handler threads take the replies that decide the operation.
Finish(h) == Free(h) /\ Call(h, "open", "none")

\* Too many of the replies come from hosts that are down: no further reply
\* decides the operation, and it stays in the table for ever.
LoseReplies(h) ==
  /\ Failing # {}
  /\ h \in Caller /\ calls[h] = "open"
  /\ calls' = [calls EXCEPT ![h] = "undecided"]
  /\ Lose("replies")
  /\ UNCHANGED <<con, cnt, hostList, enableFlag, mail, begun, removals, wraps, missed>>

-----------------------------------------------------------------------------
Handle(m) == handleSetFlag(m) \/ actAddServer(m) \/ actRemoveServer(m)

Next ==
  \/ \E flag \in BOOLEAN : setEnableFlag(flag)
  \/ \E h \in Host : addServer(h) \/ removeServer(h)
  \/ Console
  \/ \E m \in net : Handle(m) \/ handleMove(m) \/ LoseMove(m) \/ LoseMessage(m)
  \/ \E m \in waiting : actSetEnableFlag(m)
  \/ \E counter \in DOMAIN answers : Return(counter) \/ LoseAnswer(counter)
  \/ \E h \in Caller : Enter(h) \/ Register(h) \/ Finish(h) \/ LoseReplies(h)

Spec == Init /\ [][Next]_vars

\* The console's thread runs, handlers take message after message as long as
\* one is free, and a thread that waits for an empty table is woken when it is.
\* A call that has begun goes on, and is decided unless replies are lost
\* (OpFinishes in Driver.tla), if there is a thread to take the replies.
\* Nothing makes a command be given or a client call.  Fairness among the
\* hosts is not needed: the messages of a change are finitely many.
Fairness ==
  /\ WF_vars(Console)
  /\ WF_vars(\E m \in net : Handle(m) \/ handleMove(m))
  /\ WF_vars(\E m \in waiting : actSetEnableFlag(m))
  /\ WF_vars(\E counter \in DOMAIN NoAnswers : Return(counter))
  /\ \A h \in Caller : WF_vars(Register(h) \/ Finish(h))

FairSpec == Spec /\ Fairness

-----------------------------------------------------------------------------
(* Properties.                                                             *)

Of(kinds) == {m \in net : m.kind \in kinds}

\* A removal leaves an answer that counts for a later change, whose own last
\* message is late then: a host may join the primary's list between the count
\* and the messages of a pause, once for each command but the removals.
Strays == IF removals = 0 THEN 0 ELSE begun - removals

\* The state is made of the values that the C++ types allow; and a counter
\* is never counted down below zero, but by the answers that nobody counted
\* on: one of each removal, the second of a range that wraps, and those of
\* hosts that were told of a pause and not counted.
TypeOK ==
  /\ con.op \in Ops \cup {"none"} /\ con.host \in Host
  /\ con.step \in DOMAIN CounterOf \cup {"idle"}
  /\ hostList \in [Host -> SUBSET Host]
  /\ enableFlag \in [Host -> BOOLEAN]
  /\ calls \in [Host -> {"none", "passed", "open", "undecided"}]
  /\ \A m \in net \cup waiting : m.id \in 1 .. begun
  /\ answers \in [DOMAIN NoAnswers -> Nat] /\ lost \subseteq DOMAIN NoAnswers \cup {"replies"}
  /\ cnt.moveCnt >= - wraps
  /\ cnt.serverCnt >= - removals /\ cnt.enableCnt >= - Strays

\* Of the handler threads of a host one at most waits in actSetEnableFlag,
\* and one more for each stray message: then setflag messages of two rounds
\* may meet.  With all of them waiting, an open operation would never end.
FewWait ==
  \A h \in Host : Cardinality({m \in waiting : m.to = h}) <= 1 + Strays

\* A change goes on from its list step when all hosts have changed their
\* lists, but for one host for each removal so far.
ListsTold ==
  con.step # "list" => Cardinality(Of({"add", "remove"})) <= removals

\* It goes on from the moves when all records have moved, but for one range
\* for each that was answered twice.
MovesAwaited ==
  con.step # "move" => Cardinality(Of({"move"})) <= wraps

\* report.md:63: the lists change during the pause.  A host refuses calls
\* when it changes its list, as long as no removal has begun.
ListsChangePaused ==
  [][con # Idle /\ removals = 0 =>
       \A h \in Host : hostList[h]' # hostList[h] => enableFlag[h]]_hostList

\* The console sleeps, and its counter is above zero.
Awaiting == con.at = "asleep" /\ Counter > 0

\* The ways in which a command may never end: a walk without end; a
\* notification that came before the sleep; a counter below zero; a message or
\* an answer that was lost, as those of a host that is down are; a host that
\* left between the count and the messages; and a host whose table is never
\* empty, for want of replies, or of a thread to take them: all of them wait
\* for the table.
Stuck ==
  \/ con.at = "spin"
  \/ con.at = "asleep" /\ (Counter < 0 \/ (Counter = 0 /\ missed))
  \/ Awaiting /\ CounterOf[con.step] \in lost
  \/ Awaiting /\ con.step \in {"pause", "resume"} /\ removals > 0
  \/ Awaiting /\ \E h \in Caller :
       \/ calls[h] = "undecided"
       \/ calls[h] = "open" /\ ~Free(h)

\* Calls never cease.
CallsForEver ==
  []<><<\E h \in Caller : calls[h] = "none" /\ calls'[h] # "none">>_calls

\* Each command ends, but for those ways, unless clients call for ever: calls
\* that overlap may keep the table of a host from ever being empty.
ChangeEnds == CallsForEver \/ []<>(con = Idle) \/ <>[]Stuck

\* report.md:63: the lists of all hosts are changed, and then service
\* resumes.  A removal does not wait for the last host, so this does not
\* hold, even when the primary is not the host that leaves.
AllHostsAgree ==
  con = Idle /\ Primary \in Members =>
    \A h \in Members : hostList[h] = Members

-----------------------------------------------------------------------------
(* Formulas that the code does not satisfy; README.md gives the instances. *)

\* Hosts whose lists differ are about to be told.
DisagreeNotForLong ==
  con = Idle => \A h \in Members : hostList[h] # Members =>
    \E m \in Of({"add", "remove"}) : m.to \in {h, Primary}

\* report.md:93: handler threads are made to fit the machine.  There is one
\* to take the replies of an open operation.
PoolLive == \A h \in Caller : calls[h] = "open" => Free(h)
=============================================================================
