-------------------------- MODULE MembershipProofs --------------------------
(***************************************************************************)
(* Proofs about Membership, for every set of hosts, every sequence of      *)
(* commands and plans of any size: no step of a change goes on before the  *)
(* answers that it counted, and the answers that it did not count are as   *)
(* few as the module says.                                                 *)
(***************************************************************************)
EXTENDS Membership, FiniteSetTheorems, TLAPS

MoveMsg == [kind : {"move"}, id : Nat, range : Nat]
FlagMsg == [kind : {"setflag"}, to : Host, id : Nat, flag : BOOLEAN]
ListMsg == [kind : {"add", "remove"}, to : Host, id : Nat, host : Host]

Waits == {"test", "sleepy", "asleep"}

\* Where the console can be.
Console0 ==
  \/ con = Idle
  \/ /\ con \in [op : {"add", "remove"}, host : Host, step : {"move"},
                 at : {"plan", "spin"} \cup Waits]
     /\ con.op \in Ops
  \/ /\ con \in [op : {"add", "remove", "set"}, host : Host,
                 step : {"pause", "resume"}, at : {"count", "send"} \cup Waits]
     /\ con.op \in Ops
  \/ /\ con \in [op : {"add", "remove"}, host : Host, step : {"list"},
                 at : {"lists"} \cup Waits]
     /\ con.op \in Ops

\* The kinds of values.
Types ==
  /\ Primary \in Host /\ Console0
  /\ hostList \in [Host -> SUBSET Host]
  /\ enableFlag \in [Host -> BOOLEAN]
  /\ calls \in [Host -> {"none", "passed", "open", "undecided"}]
  /\ cnt \in [DOMAIN NoAnswers -> Int] /\ answers \in [DOMAIN NoAnswers -> Nat]
  /\ net \subseteq MoveMsg \cup FlagMsg \cup ListMsg /\ IsFiniteSet(net)
  /\ waiting \subseteq FlagMsg /\ IsFiniteSet(waiting)
  /\ \A m \in net \cup waiting : m.id \in 1 .. begun
  /\ begun \in Nat /\ removals \in Nat /\ wraps \in Nat
  /\ con.step # "idle" => begun > 0

\* Moves on their way and answers to come are no more than the console counts
\* on and the ranges that were answered twice.
MovesAddUp ==
  /\ Cardinality(Of({"move"})) + answers.moveCnt <= cnt.moveCnt + wraps
  /\ con.step # "move" \/ con.at = "plan" => cnt.moveCnt <= 0

\* The same for the lists, with one host more for each removal.
ListsAddUp ==
  /\ Cardinality(Of({"add", "remove"})) + answers.serverCnt
       <= cnt.serverCnt + removals
  /\ con.step # "list" \/ con.at = "lists" => cnt.serverCnt <= 0

\* The additions that the primary has yet to put on its list.
Late == {m \in net : m.kind = "add" /\ m.to = Primary}
Untold ==
  IF con.op \in {"add", "remove"} /\ (con.step \in {"move", "pause"} \/ con.at = "lists")
  THEN 1 ELSE 0

\* Strays, as far as they can have been sent by now.
Sent == begun - removals - Cardinality(Late) - Untold
Room == IF removals = 0 THEN 0 ELSE Sent

\* The same for the pauses; between the count and the messages, one message
\* to each host on the list is to come.  Once a message or an answer was lost,
\* the counter stays above what is on its way.
ToCome == IF con.at = "send" THEN Cardinality(Members) ELSE 0
Gone == IF "enableCnt" \in lost THEN 1 ELSE 0
FlagsAddUp ==
  /\ 0 <= Sent
  /\ Cardinality(Of({"setflag"})) + Cardinality(waiting) + answers.enableCnt + ToCome + Gone
       <= cnt.enableCnt + Room
  /\ con.step \notin {"pause", "resume"} \/ con.at = "count" => cnt.enableCnt <= 0

\* What the setflag messages of the step say.
Pausing == con.step = "pause"

\* A message of the round that the console waits for.
Current(m) ==
  /\ con.step \in {"pause", "resume"} /\ con.at \in Waits
  /\ m.id = begun /\ m.flag = Pausing

\* Messages of earlier rounds are strays.
Old(S) == {m \in S : ~Current(m)}
OldFew == Cardinality(Old(Of({"setflag"}))) + Cardinality(Old(waiting)) <= Room

\* As long as no removal has begun, lists change at hosts that are paused.
Paused ==
  removals = 0 =>
    /\ con.step = "pause" /\ con.at \in Waits =>
         \A h \in Members :
           \/ enableFlag[h] \/ Gone = 1
           \/ \E m \in Of({"setflag"}) \cup waiting : m.to = h
    /\ con.at = "lists" => \A h \in Members : enableFlag[h]
    /\ \A m \in Of({"add", "remove"}) : enableFlag[m.to] /\ m.kind = "add"

\* What can be lost.
Losses == lost \subseteq DOMAIN NoAnswers \cup {"replies"}

MembershipInv ==
  Types /\ Losses /\ MovesAddUp /\ ListsAddUp /\ FlagsAddUp /\ OldFew /\ Paused

-----------------------------------------------------------------------------
(* Sizes of finite sets.                                                   *)

\* A set within two finite sets is no larger than both together.
LEMMA Within ==
  ASSUME NEW S, IsFiniteSet(S), NEW T, IsFiniteSet(T), NEW U, U \subseteq S \cup T
  PROVE  /\ IsFiniteSet(U) /\ Cardinality(U) \in Nat
         /\ Cardinality(S) \in Nat /\ Cardinality(T) \in Nat
         /\ Cardinality(U) <= Cardinality(S) + Cardinality(T)
<1>1. /\ IsFiniteSet(S \cup T) /\ IsFiniteSet(S \cap T)
      /\ Cardinality(S \cup T) = Cardinality(S) + Cardinality(T) - Cardinality(S \cap T)
  BY FS_Union, FS_Intersection
<1>2. IsFiniteSet(U) /\ Cardinality(U) <= Cardinality(S \cup T)
  BY <1>1, FS_Subset
<1>3. /\ Cardinality(S) \in Nat /\ Cardinality(T) \in Nat /\ Cardinality(U) \in Nat
      /\ Cardinality(S \cap T) \in Nat
  BY <1>1, <1>2, FS_CardinalityType
<1>. QED
  BY <1>1, <1>2, <1>3

\* A subset is no larger.
LEMMA Smaller ==
  ASSUME NEW S, IsFiniteSet(S), NEW U, U \subseteq S
  PROVE  /\ IsFiniteSet(U) /\ Cardinality(U) \in Nat /\ Cardinality(S) \in Nat
         /\ Cardinality(U) <= Cardinality(S)
BY FS_Subset, FS_CardinalityType

\* An element less, or one more.
LEMMA OneOff ==
  ASSUME NEW S, IsFiniteSet(S), NEW x
  PROVE  /\ Cardinality(S) \in Nat
         /\ x \in S => Cardinality(S \ {x}) = Cardinality(S) - 1
         /\ IsFiniteSet(S \cup {x}) /\ Cardinality(S \cup {x}) \in Nat
         /\ Cardinality(S \cup {x}) <= Cardinality(S) + 1
<1>1. Cardinality(S) \in Nat
  BY FS_CardinalityType
<1>2. x \in S => Cardinality(S \ {x}) = Cardinality(S) - 1
  BY FS_RemoveElement
<1>3. /\ IsFiniteSet(S \cup {x})
      /\ Cardinality(S \cup {x}) = IF x \in S THEN Cardinality(S) ELSE Cardinality(S) + 1
  BY FS_AddElement
<1>. QED
  BY <1>1, <1>2, <1>3

\* A round has one message to a host.
LEMMA OnePerHost ==
  ASSUME NEW T, IsFiniteSet(T), NEW S,
         \A m \in S : m.to \in T, \A m, n \in S : m.to = n.to => m = n
  PROVE  IsFiniteSet(S) /\ Cardinality(S) <= Cardinality(T)
<1> DEFINE f == [m \in S |-> m.to]
<1>1. f \in Injection(S, T)
  BY DEF Injection, IsInjective
<1>. HIDE DEF f
<1>. QED
  BY <1>1, FS_Injection

\* A plan has one message for a range.
LEMMA OnePerRange ==
  ASSUME NEW T, IsFiniteSet(T), NEW S,
         \A m \in S : m.range \in T, \A m, n \in S : m.range = n.range => m = n
  PROVE  IsFiniteSet(S) /\ Cardinality(S) <= Cardinality(T)
<1> DEFINE f == [m \in S |-> m.range]
<1>1. f \in Injection(S, T)
  BY DEF Injection, IsInjective
<1>. HIDE DEF f
<1>. QED
  BY <1>1, FS_Injection

\* The sets that are counted are finite.
LEMMA Finite ==
  ASSUME Types
  PROVE  /\ \A K : IsFiniteSet(Of(K)) /\ Cardinality(Of(K)) \in Nat
         /\ IsFiniteSet(waiting) /\ Cardinality(waiting) \in Nat
         /\ IsFiniteSet(Late) /\ Cardinality(Late) \in Nat
         /\ IsFiniteSet(Members) /\ Cardinality(Members) \in Nat
         /\ Members \subseteq Host
<1>1. \A K : IsFiniteSet(Of(K)) /\ Cardinality(Of(K)) \in Nat
  BY Smaller DEF Types, Of
<1>2. IsFiniteSet(waiting) /\ Cardinality(waiting) \in Nat
  BY Smaller DEF Types
<1>3. IsFiniteSet(Late) /\ Cardinality(Late) \in Nat
  BY Smaller DEF Types, Late
<1>4. Members \subseteq Host
  BY DEF Types, Members
<1>5. IsFiniteSet(Members) /\ Cardinality(Members) \in Nat
  BY <1>4, Smaller, MembershipAssumption
<1>. QED
  BY <1>1, <1>2, <1>3, <1>4, <1>5

-----------------------------------------------------------------------------
(* The steps, grouped by what they change.                                 *)

\* The console stays where it is, or waits in another way.
SameWait ==
  \/ con' = con
  \/ con.at \in Waits /\ \E w \in Waits : con' = [con EXCEPT !.at = w]

\* Steps that neither send nor count, and lose at most replies to a call.
Quiet ==
  /\ SameWait
  /\ calls' \in [Host -> {"none", "passed", "open", "undecided"}]
  /\ UNCHANGED <<cnt, hostList, enableFlag, mail, begun, removals, wraps>>

\* A message for a move is handled or its records are lost.
MoveGone(m) ==
  /\ m \in net /\ m.kind = "move" /\ net' = net \ {m}
  /\ answers' = [answers EXCEPT !["moveCnt"] = @ + 1] \/ answers' = answers
  /\ UNCHANGED <<con, cnt, hosts, waiting, begun, removals, wraps>>

\* A command begins with the console idle.
Command ==
  \/ \E flag \in BOOLEAN : setEnableFlag(flag)
  \/ \E h \in Host : addServer(h) \/ removeServer(h)

\* The steps there are.
LEMMA Steps ==
  ASSUME Types, [Next]_vars
  PROVE  \/ Command \/ Plan \/ CountHosts \/ SendFlags \/ SendLists \/ Pass \/ Quiet
         \/ \E m \in net : Handle(m) \/ MoveGone(m) \/ LoseMessage(m)
         \/ \E m \in waiting : actSetEnableFlag(m)
         \/ \E counter \in DOMAIN NoAnswers : Return(counter) \/ LoseAnswer(counter)
<1>1. Look \/ Sleep => Quiet
  BY DEF Look, Sleep, Quiet, SameWait, At, Types, Console0, Idle, hosts, mail, history,
         Waits
<1>2. ASSUME NEW h \in Caller, Enter(h) \/ Register(h) \/ Finish(h) \/ LoseReplies(h)
      PROVE  Quiet
  BY <1>2 DEF Enter, Register, Finish, LoseReplies, Call, Quiet, SameWait, Types, mail,
              history
<1>3. UNCHANGED vars => Quiet
  BY DEF vars, Quiet, SameWait, Types, hosts, mail, history
<1>4. ASSUME NEW m \in net, handleMove(m) \/ LoseMove(m) PROVE MoveGone(m)
  BY <1>4 DEF handleMove, LoseMove, MoveGone, Answer, history
<1>5. DOMAIN answers = DOMAIN NoAnswers
  BY DEF Types
<1>. QED
  BY <1>1, <1>2, <1>3, <1>4, <1>5 DEF Next, Console, Command

\* The console goes from place to place of its command, and knows where it is
\* afterwards.
LEMMA Places ==
  ASSUME Types
  PROVE  /\ con.op \in {"none", "add", "remove", "set"} /\ con.host \in Host
         /\ con.step \in {"idle", "move", "pause", "list", "resume"}
         /\ con.at = "plan" => con.step = "move" /\ con.op \in {"add", "remove"}
         /\ con.at = "lists" => con.step = "list" /\ con.op \in {"add", "remove"}
         /\ con.at \in {"count", "send"} => con.step \in {"pause", "resume"}
         /\ con.step = "list" => con.op \in {"add", "remove"} /\ con.at \in {"lists"} \cup Waits
         /\ con.step = "move" => con.op \in {"add", "remove"}
         /\ con.step \in {"pause", "resume"} => con.at \in {"count", "send"} \cup Waits
         /\ con.at \in Waits => con.step # "idle"
         /\ con.step = "idle" => con = Idle
         /\ Idle.op = "none" /\ Idle.step = "idle" /\ Idle.at = "idle"
BY DEF Types, Console0, Idle, Waits

\* A command begins with its plan, or with the count of a pause.
LEMMA CommandAt ==
  ASSUME Types, Command
  PROVE  /\ con = Idle /\ Console0' /\ begun' = begun + 1
         /\ \/ con'.step = "move" /\ con'.at = "plan" /\ con'.op \in {"add", "remove"}
            \/ con'.step \in {"pause", "resume"} /\ con'.at = "count" /\ con'.op = "set"
         /\ UNCHANGED <<cnt, net, answers, removals, wraps>> /\ waiting' \subseteq waiting
<1>1. ASSUME NEW flag \in BOOLEAN, setEnableFlag(flag)
      PROVE  /\ con = Idle /\ begun' = begun + 1 /\ "set" \in Ops
             /\ con' = [op |-> "set", host |-> Primary,
                        step |-> IF flag THEN "pause" ELSE "resume", at |-> "count"]
             /\ UNCHANGED <<cnt, net, answers, removals, wraps, waiting>>
  BY <1>1 DEF setEnableFlag, Give, Begin, mail
<1>2. ASSUME NEW h \in Host, addServer(h)
      PROVE  /\ con = Idle /\ begun' = begun + 1 /\ "add" \in Ops
             /\ con' = [op |-> "add", host |-> h, step |-> "move", at |-> "plan"]
             /\ UNCHANGED <<cnt, net, answers, removals, wraps>> /\ waiting' \subseteq waiting
  BY <1>2 DEF addServer, Give, Begin
<1>3. ASSUME NEW h \in Host, removeServer(h)
      PROVE  /\ con = Idle /\ begun' = begun + 1 /\ "remove" \in Ops
             /\ con' = [op |-> "remove", host |-> h, step |-> "move", at |-> "plan"]
             /\ UNCHANGED <<cnt, net, answers, removals, wraps, waiting>>
  BY <1>3 DEF removeServer, Give, Begin, mail
<1>. QED
  BY <1>1, <1>2, <1>3 DEF Command, Types, Console0, Waits

\* The steps of a command, but for the waits.
LEMMA PlanAt ==
  ASSUME Types, Plan
  PROVE  /\ con.at = "plan" /\ con.step = "move" /\ Console0'
         /\ con'.op = con.op /\ con'.step = "move" /\ con'.at \in {"test", "spin"}
<1>1. con.at = "plan" /\ (At("test") \/ At("spin"))
  BY DEF Plan, PlanOrSpin
<1>2. con \in [op : {"add", "remove"}, host : Host, step : {"move"},
               at : {"plan", "spin"} \cup Waits] /\ con.op \in Ops
  BY <1>1 DEF Types, Console0, Idle, Waits
<1>. QED
  BY <1>1, <1>2 DEF At, Console0, Waits

\* A pause or its end is counted, and then sent.
LEMMA CountAt ==
  ASSUME Types, CountHosts \/ SendFlags
  PROVE  /\ con.step \in {"pause", "resume"} /\ Console0'
         /\ con'.op = con.op /\ con'.step = con.step
         /\ CountHosts => con.at = "count" /\ con'.at = "send"
         /\ SendFlags => con.at = "send" /\ con'.at = "test"
<1>1. \/ CountHosts /\ con.at = "count" /\ At("send")
      \/ SendFlags /\ con.at = "send" /\ At("test")
  BY DEF CountHosts, SendFlags
<1>2. con \in [op : {"add", "remove", "set"}, host : Host, step : {"pause", "resume"},
               at : {"count", "send"} \cup Waits] /\ con.op \in Ops
  BY <1>1 DEF Types, Console0, Idle, Waits
<1>3. CountHosts => con.at = "count" /\ At("send")
  BY DEF CountHosts
<1>4. SendFlags => con.at = "send" /\ At("test")
  BY DEF SendFlags
<1>. QED
  BY <1>1, <1>2, <1>3, <1>4 DEF At, Console0, Waits

\* The lists of an addition or a removal are sent.
LEMMA ListsAt ==
  ASSUME Types, SendLists
  PROVE  /\ con.at = "lists" /\ con.step = "list" /\ con.op \in {"add", "remove"}
         /\ Console0' /\ con'.op = con.op /\ con'.step = "list" /\ con'.at = "test"
<1>1. con.at = "lists" /\ At("test")
  BY DEF SendLists
<1>2. con \in [op : {"add", "remove"}, host : Host, step : {"list"},
               at : {"lists"} \cup Waits] /\ con.op \in Ops
  BY <1>1 DEF Types, Console0, Idle, Waits
<1>. QED
  BY <1>1, <1>2 DEF At, Console0, Waits

\* The console passes on when the counter of its step is zero.
LEMMA PassAt ==
  ASSUME Types, Pass
  PROVE  /\ con.at = "test" /\ Console0'
         /\ \/ con.step = "move" /\ cnt.moveCnt = 0 /\ con'.step = "pause"
               /\ con'.at = "count" /\ con'.op = con.op
            \/ con.step = "pause" /\ cnt.enableCnt = 0 /\ con.op # "set"
               /\ con'.step = "list" /\ con'.at = "lists" /\ con'.op = con.op
            \/ con.step = "list" /\ cnt.serverCnt = 0 /\ con'.step = "resume"
               /\ con'.at = "count" /\ con'.op = con.op
            \/ con.step = "pause" /\ cnt.enableCnt = 0 /\ con.op = "set" /\ con' = Idle
            \/ con.step = "resume" /\ cnt.enableCnt = 0 /\ con' = Idle
<1>1. con.at = "test" /\ Counter = 0 /\ con' = NextStep
  BY DEF Pass
<1>2. /\ con.op \in {"add", "remove", "set"} /\ con.op \in Ops /\ con.host \in Host
      /\ con.step \in {"move", "pause", "list", "resume"}
      /\ con.step \in {"move", "list"} => con.op # "set"
      /\ con = [op |-> con.op, host |-> con.host, step |-> con.step, at |-> con.at]
  BY <1>1 DEF Types, Console0, Idle, Waits
<1>3. CASE con.step = "move"
  <2>1. con' = [con EXCEPT !.step = "pause", !.at = "count"] /\ cnt.moveCnt = 0
    BY <1>1, <1>3 DEF Counter, CounterOf, NextStep
  <2>2. con' = [op |-> con.op, host |-> con.host, step |-> "pause", at |-> "count"]
    BY <1>2, <2>1
  <2>. QED
    BY <1>1, <1>2, <1>3, <2>1, <2>2 DEF Console0
<1>4. CASE con.step = "pause" /\ con.op # "set"
  <2>1. con' = [con EXCEPT !.step = "list", !.at = "lists"] /\ cnt.enableCnt = 0
    BY <1>1, <1>4 DEF Counter, CounterOf, NextStep
  <2>2. con' = [op |-> con.op, host |-> con.host, step |-> "list", at |-> "lists"]
    BY <1>2, <2>1
  <2>. QED
    BY <1>1, <1>2, <1>4, <2>1, <2>2 DEF Console0
<1>5. CASE con.step = "list"
  <2>1. con' = [con EXCEPT !.step = "resume", !.at = "count"] /\ cnt.serverCnt = 0
    BY <1>1, <1>5 DEF Counter, CounterOf, NextStep
  <2>2. con' = [op |-> con.op, host |-> con.host, step |-> "resume", at |-> "count"]
    BY <1>2, <2>1
  <2>. QED
    BY <1>1, <1>2, <1>5, <2>1, <2>2 DEF Console0
<1>6. CASE con.step = "resume" \/ (con.step = "pause" /\ con.op = "set")
  BY <1>1, <1>2, <1>6 DEF Counter, CounterOf, NextStep, Console0
<1>. QED
  BY <1>2, <1>3, <1>4, <1>5, <1>6

\* A wait keeps the console's place.
LEMMA WaitAt ==
  ASSUME Types, SameWait
  PROVE  /\ Console0' /\ con'.op = con.op /\ con'.step = con.step
         /\ con'.at = con.at \/ (con.at \in Waits /\ con'.at \in Waits)
BY DEF SameWait, Types, Console0, Waits, Idle

\* An answer may wake the console.
LEMMA ReturnAt ==
  ASSUME Types, NEW counter \in DOMAIN NoAnswers, Return(counter)
  PROVE  /\ SameWait
         /\ UNCHANGED <<hostList, enableFlag, net, waiting, begun, removals, wraps>>
BY DEF Return, Wake, SameWait, Waits, hosts

Moves(lo, hi) == {[kind |-> "move", id |-> begun, range |-> r] : r \in lo .. hi}

\* The messages of a plan, one for each range and one more for one that wraps.
LEMMA PlanMessages ==
  ASSUME Types, begun > 0, NEW lo \in {0, 1}, NEW hi \in Nat
  PROVE  /\ Moves(lo, hi) \subseteq MoveMsg /\ IsFiniteSet(Moves(lo, hi))
         /\ Cardinality(Moves(lo, hi)) \in Nat
         /\ Cardinality(Moves(lo, hi)) <= hi + 1 - lo
         /\ \A m \in Moves(lo, hi) : m.id = begun /\ m.kind = "move"
<1>1. IsFiniteSet(lo .. hi) /\ Cardinality(lo .. hi) = hi + 1 - lo
  <2>1. lo \in Int /\ hi \in Int /\ ~(lo > hi + 1)
    OBVIOUS
  <2>2. /\ IsFiniteSet(lo .. hi)
        /\ Cardinality(lo .. hi) = IF lo > hi THEN 0 ELSE hi - lo + 1
    BY <2>1, FS_Interval
  <2>. QED
    BY <2>1, <2>2
<1>2. /\ \A m \in Moves(lo, hi) : m.range \in lo .. hi
      /\ \A m, n \in Moves(lo, hi) : m.range = n.range => m = n
      /\ \A m \in Moves(lo, hi) : m.id = begun /\ m.kind = "move"
  BY DEF Moves
<1>3. Moves(lo, hi) \subseteq MoveMsg
  BY DEF Moves, MoveMsg, Types
<1>4. IsFiniteSet(Moves(lo, hi)) /\ Cardinality(Moves(lo, hi)) <= hi + 1 - lo
  BY <1>1, <1>2, OnePerRange
<1>. QED
  BY <1>2, <1>3, <1>4, FS_CardinalityType

FlagMsgs == {[kind |-> "setflag", to |-> h, id |-> begun, flag |-> Pausing] :
               h \in Members}
ListMsgs == {[kind |-> con.op, to |-> h, id |-> begun, host |-> con.host] : h \in Members}

\* The messages of a round, one for each host on the primary's list.
LEMMA RoundMessages ==
  ASSUME Types
  PROVE  /\ FlagMsgs \subseteq FlagMsg /\ IsFiniteSet(FlagMsgs)
         /\ Cardinality(FlagMsgs) <= Cardinality(Members)
         /\ \A m \in FlagMsgs : /\ m.id = begun /\ m.kind = "setflag"
                                /\ m.flag = Pausing
         /\ \A h \in Members : \E m \in FlagMsgs : m.to = h
         /\ IsFiniteSet(ListMsgs) /\ Cardinality(ListMsgs) <= Cardinality(Members)
         /\ con.op \in {"add", "remove"} => ListMsgs \subseteq ListMsg
         /\ \A m \in ListMsgs : m.id = begun /\ m.kind = con.op /\ m.to \in Members
<1>1. /\ \A m \in FlagMsgs : /\ m.id = begun /\ m.kind = "setflag"
                             /\ m.flag = Pausing /\ m.to \in Members
      /\ \A m, n \in FlagMsgs : m.to = n.to => m = n
  BY DEF FlagMsgs
<1>7. ASSUME NEW h \in Members PROVE \E m \in FlagMsgs : m.to = h
  <2>1. [kind |-> "setflag", to |-> h, id |-> begun, flag |-> Pausing] \in FlagMsgs
    BY DEF FlagMsgs
  <2>. QED
    BY <2>1
<1>2. /\ \A m \in ListMsgs : m.id = begun /\ m.kind = con.op /\ m.to \in Members
      /\ \A m, n \in ListMsgs : m.to = n.to => m = n
  BY DEF ListMsgs
<1>3. IsFiniteSet(Members) /\ Members \subseteq Host
  BY Finite
<1>4. Pausing \in BOOLEAN
  BY DEF Pausing
<1>5. FlagMsgs \subseteq FlagMsg
  BY <1>3, <1>4 DEF FlagMsgs, FlagMsg, Types
<1>6. con.op \in {"add", "remove"} => ListMsgs \subseteq ListMsg
  BY <1>3, Places DEF ListMsgs, ListMsg, Types
<1>. QED
  BY <1>1, <1>2, <1>3, <1>5, <1>6, <1>7, OnePerHost

\* The kinds of values are kept.
LEMMA TypesStep == Types /\ [Next]_vars => Types'
<1> SUFFICES ASSUME Types, [Next]_vars PROVE Types'
  OBVIOUS
<1>0. /\ DOMAIN NoAnswers = {"moveCnt", "enableCnt", "serverCnt"}
      /\ IsFiniteSet(Members) /\ Cardinality(Members) \in Nat /\ Members \subseteq Host
      /\ Primary \in Host /\ con.host \in Host
  BY Finite, Places DEF NoAnswers, Types
<1>1. CASE Command
  <2>1. /\ Console0' /\ begun' = begun + 1 /\ waiting' \subseteq waiting
        /\ UNCHANGED <<cnt, net, answers, removals, wraps>>
    BY <1>1, CommandAt
  <2>2. IsFiniteSet(waiting')
    BY <2>1, FS_Subset DEF Types
  <2>3. /\ hostList' \in [Host -> SUBSET Host] /\ enableFlag' \in [Host -> BOOLEAN]
        /\ calls' \in [Host -> {"none", "passed", "open", "undecided"}]
    <3>1. ASSUME NEW h \in Host, addServer(h)
          PROVE  /\ hostList' = [hostList EXCEPT ![h] = Members \cup {h}]
                 /\ enableFlag' = [enableFlag EXCEPT ![h] = FALSE]
                 /\ calls' = [calls EXCEPT ![h] = "none"]
      BY <3>1 DEF addServer
    <3>2. CASE UNCHANGED hosts
      BY <3>2 DEF hosts, Types
    <3>3. ASSUME NEW h \in Host, addServer(h)
          PROVE  /\ hostList' \in [Host -> SUBSET Host] /\ enableFlag' \in [Host -> BOOLEAN]
                 /\ calls' \in [Host -> {"none", "passed", "open", "undecided"}]
      <4>1. Members \cup {h} \in SUBSET Host
        BY <1>0
      <4>2. hostList' \in [Host -> SUBSET Host]
        BY <3>1, <3>3, <4>1 DEF Types
      <4>3. enableFlag' \in [Host -> BOOLEAN]
        BY <3>1, <3>3 DEF Types
      <4>4. calls' \in [Host -> {"none", "passed", "open", "undecided"}]
        BY <3>1, <3>3 DEF Types
      <4>. QED
        BY <4>2, <4>3, <4>4
    <3>. QED
      BY <1>1, <3>2, <3>3 DEF Command, setEnableFlag, removeServer
  <2>. QED
    BY <2>1, <2>2, <2>3 DEF Types
<1>2. CASE Plan
  <2>1. Console0' /\ con.at = "plan" /\ begun > 0
    BY <1>2, PlanAt DEF Types
  <2>2. UNCHANGED <<hosts, answers, waiting, begun, removals>>
    BY <1>2 DEF Plan
  <2>3. CASE UNCHANGED <<net, cnt, wraps>>
    BY <2>1, <2>2, <2>3, Places DEF Types, hosts
  <2>4. CASE SendPlan
    <3>1. PICK ranges \in 1 .. MaxRange, wrapped \in BOOLEAN :
            /\ net' = net \cup Moves(IF wrapped THEN 0 ELSE 1, ranges)
            /\ cnt' = [cnt EXCEPT !.moveCnt = ranges]
            /\ wraps' = wraps + IF wrapped THEN 1 ELSE 0
      BY <2>4, Zenon DEF SendPlan, Moves
    <3>2. ranges \in Nat /\ (IF wrapped THEN 0 ELSE 1) \in {0, 1}
      BY MembershipAssumption
    <3>3. /\ net' \subseteq MoveMsg \cup FlagMsg \cup ListMsg /\ IsFiniteSet(net')
          /\ \A m \in net' : m.id \in 1 .. begun
      <4> DEFINE lo == IF wrapped THEN 0 ELSE 1
      <4>1. net' = net \cup Moves(lo, ranges) /\ lo \in {0, 1}
        BY <3>1, <3>2
      <4>. HIDE DEF lo
      <4>2. /\ Moves(lo, ranges) \subseteq MoveMsg /\ IsFiniteSet(Moves(lo, ranges))
            /\ \A m \in Moves(lo, ranges) : m.id = begun
        BY <2>1, <3>2, <4>1, PlanMessages
      <4>3. IsFiniteSet(net')
        BY <4>1, <4>2, FS_Union DEF Types
      <4>. QED
        BY <2>1, <4>1, <4>2, <4>3 DEF Types
    <3>4. cnt' \in [DOMAIN NoAnswers -> Int] /\ wraps' \in Nat
      BY <3>1, <3>2 DEF Types
    <3>. QED
      BY <2>1, <2>2, <3>3, <3>4 DEF Types, hosts
  <2>. QED
    BY <1>2, <2>3, <2>4 DEF Plan, PlanOrSpin
<1>3. CASE CountHosts
  <2>1. Console0' /\ con.step # "idle"
    BY <1>3, CountAt
  <2>2. cnt' \in [DOMAIN NoAnswers -> Int]
    BY <1>0, <1>3 DEF CountHosts, Types
  <2>. QED
    BY <1>3, <2>1, <2>2 DEF CountHosts, Types, hosts, mail, history
<1>4. CASE SendFlags
  <2>1. Console0' /\ con.step # "idle"
    BY <1>4, CountAt
  <2>2. net' = net \cup FlagMsgs
    BY <1>4, Zenon DEF SendFlags, FlagMsgs, Pausing
  <2>3. IsFiniteSet(net')
    BY <2>2, RoundMessages, FS_Union DEF Types
  <2>4. /\ net' \subseteq MoveMsg \cup FlagMsg \cup ListMsg
        /\ \A m \in net' : m.id \in 1 .. begun
    BY <2>1, <2>2, RoundMessages DEF Types
  <2>. QED
    BY <1>4, <2>1, <2>3, <2>4 DEF SendFlags, Types, hosts, history
<1>5. CASE SendLists
  <2>1. Console0' /\ con.step # "idle" /\ con.op \in {"add", "remove"}
    BY <1>5, ListsAt
  <2>2. net' = net \cup ListMsgs
    BY <1>5, Zenon DEF SendLists, ListMsgs
  <2>3. IsFiniteSet(net')
    BY <2>2, RoundMessages, FS_Union DEF Types
  <2>4. /\ net' \subseteq MoveMsg \cup FlagMsg \cup ListMsg
        /\ \A m \in net' : m.id \in 1 .. begun
    BY <2>1, <2>2, RoundMessages DEF Types
  <2>5. cnt' \in [DOMAIN NoAnswers -> Int] /\ removals' \in Nat
    BY <1>0, <1>5 DEF SendLists, Awaited, Types
  <2>. QED
    BY <1>5, <2>1, <2>3, <2>4, <2>5 DEF SendLists, Types, hosts
<1>6. CASE Pass
  <2>1. Console0' /\ con.step # "idle"
    BY <1>6, PassAt
  <2>. QED
    BY <1>6, <2>1 DEF Pass, Types, hosts, mail
<1>7. CASE Quiet
  <2>1. Console0' /\ con'.step = con.step
    BY <1>7, WaitAt DEF Quiet
  <2>. QED
    BY <1>7, <2>1 DEF Quiet, Types, mail
<1>8. ASSUME NEW m \in net, Handle(m) \/ MoveGone(m) \/ LoseMessage(m) PROVE Types'
  <2>1. /\ net' = net \ {m} /\ IsFiniteSet(net')
        /\ UNCHANGED <<con, cnt, enableFlag, calls, begun, removals, wraps>>
    BY <1>8, FS_RemoveElement
       DEF Handle, handleSetFlag, actAddServer, actRemoveServer, Take, MoveGone, LoseMessage,
           hosts, history, Types
  <2>2. answers' \in [DOMAIN NoAnswers -> Nat]
    BY <1>0, <1>8
       DEF Handle, handleSetFlag, actAddServer, actRemoveServer, Answer, MoveGone,
           LoseMessage, Types
  <2>3. /\ waiting' \subseteq FlagMsg /\ IsFiniteSet(waiting')
        /\ waiting' \subseteq waiting \cup {m}
    BY <1>8, FS_AddElement
       DEF Handle, handleSetFlag, actAddServer, actRemoveServer, Take, MoveGone,
           LoseMessage, Types, FlagMsg, MoveMsg, ListMsg
  <2>4. hostList' \in [Host -> SUBSET Host]
    <3>1. m.kind \in {"add", "remove"} => m \in ListMsg
      BY DEF Types, FlagMsg, MoveMsg, ListMsg
    <3>. QED
      BY <1>8, <3>1
         DEF Handle, handleSetFlag, actAddServer, actRemoveServer, Take, MoveGone,
             LoseMessage, Types, hosts, ListMsg
  <2>. QED
    BY <2>1, <2>2, <2>3, <2>4 DEF Types, Console0
<1>9. ASSUME NEW m \in waiting, actSetEnableFlag(m) PROVE Types'
  <2>1. /\ waiting' = waiting \ {m} /\ IsFiniteSet(waiting') /\ m.flag \in BOOLEAN
        /\ UNCHANGED <<con, cnt, hostList, calls, net, begun, removals, wraps>>
    BY <1>9, FS_RemoveElement DEF actSetEnableFlag, history, Types, FlagMsg
  <2>2. /\ answers' = [answers EXCEPT !["enableCnt"] = @ + 1]
        /\ enableFlag' = [enableFlag EXCEPT ![m.to] = m.flag]
    BY <1>9 DEF actSetEnableFlag, Answer
  <2>3. answers' \in [DOMAIN NoAnswers -> Nat]
    BY <1>0, <2>2 DEF Types
  <2>4. enableFlag' \in [Host -> BOOLEAN]
    BY <2>1, <2>2 DEF Types
  <2>. QED
    BY <2>1, <2>3, <2>4 DEF Types, Console0
<1>10. ASSUME NEW c \in DOMAIN NoAnswers, Return(c) PROVE Types'
  <2>1. /\ Console0' /\ con'.step = con.step
        /\ UNCHANGED <<hostList, enableFlag, calls, net, waiting, begun, removals, wraps>>
    BY <1>10, ReturnAt, WaitAt DEF Return, hosts
  <2>2. cnt' \in [DOMAIN NoAnswers -> Int] /\ answers' \in [DOMAIN NoAnswers -> Nat]
    BY <1>0, <1>10 DEF Return, Types
  <2>. QED
    BY <2>1, <2>2 DEF Types
<1>11. ASSUME NEW c \in DOMAIN NoAnswers, LoseAnswer(c) PROVE Types'
  <2>1. /\ UNCHANGED <<con, cnt, hosts, net, waiting, begun, removals, wraps>>
        /\ answers' = [answers EXCEPT ![c] = @ - 1] /\ answers[c] > 0
    BY <1>11 DEF LoseAnswer
  <2>2. answers' \in [DOMAIN NoAnswers -> Nat]
    BY <2>1 DEF Types
  <2>. QED
    BY <2>1, <2>2 DEF Types, Console0, hosts
<1>. QED
  BY <1>1, <1>2, <1>3, <1>4, <1>5, <1>6, <1>7, <1>8, <1>9, <1>10, <1>11, Steps

\* What is lost is of a counter or an operation; what the pauses count on is
\* lost with a message or an answer of theirs.
LEMMA LossesStep ==
  ASSUME Types, Losses, [Next]_vars
  PROVE  /\ Losses' /\ Gone \in {0, 1} /\ Gone' \in {0, 1} /\ (Gone = 1 => Gone' = 1)
         /\ \/ Gone' = Gone
            \/ \E m \in net : LoseMessage(m)
            \/ \E c \in DOMAIN NoAnswers : LoseAnswer(c)
<1>1. Gone \in {0, 1} /\ Gone' \in {0, 1}
  BY DEF Gone
<1>2. lost' = lost => Losses' /\ Gone' = Gone
  BY DEF Losses, Gone
<1>3. ASSUME NEW what \in DOMAIN NoAnswers \cup {"replies"}, Lose(what)
      PROVE  Losses' /\ (Gone = 1 => Gone' = 1) /\ (what # "enableCnt" => Gone' = Gone)
  BY <1>3 DEF Lose, Losses, Gone
<1>4. /\ DOMAIN NoAnswers = {"moveCnt", "enableCnt", "serverCnt"}
      /\ DOMAIN answers = DOMAIN NoAnswers
  BY DEF Types, NoAnswers
<1>5. CASE Command
  BY <1>1, <1>2, <1>5 DEF Command, setEnableFlag, addServer, removeServer
<1>6. CASE Console \/ UNCHANGED vars
  BY <1>1, <1>2, <1>6 DEF Console, Plan, CountHosts, SendFlags, SendLists, Pass, Look, Sleep,
                          history, vars
<1>7. ASSUME NEW m \in net, Handle(m) \/ handleMove(m) \/ LoseMove(m) \/ LoseMessage(m)
      PROVE  Losses' /\ (Gone = 1 => Gone' = 1) /\ (Gone' = Gone \/ LoseMessage(m))
  <2>1. CASE Handle(m) \/ handleMove(m)
    BY <1>2, <2>1 DEF Handle, handleSetFlag, actAddServer, actRemoveServer, handleMove,
                      history
  <2>2. CASE LoseMove(m)
    BY <1>3, <1>4, <2>2 DEF LoseMove
  <2>3. CASE LoseMessage(m)
    BY <1>3, <1>4, <2>3 DEF LoseMessage
  <2>. QED
    BY <1>7, <2>1, <2>2, <2>3
<1>8. ASSUME NEW m \in waiting, actSetEnableFlag(m) PROVE Losses' /\ Gone' = Gone
  BY <1>2, <1>8 DEF actSetEnableFlag, history
<1>9. ASSUME NEW c \in DOMAIN NoAnswers, Return(c) \/ LoseAnswer(c)
      PROVE  Losses' /\ (Gone = 1 => Gone' = 1) /\ (Gone' = Gone \/ LoseAnswer(c))
  BY <1>2, <1>3, <1>9 DEF Return, LoseAnswer
<1>10. ASSUME NEW h \in Caller, Enter(h) \/ Register(h) \/ Finish(h) \/ LoseReplies(h)
       PROVE  Losses' /\ Gone' = Gone
  BY <1>2, <1>3, <1>10 DEF Enter, Register, Finish, Call, LoseReplies, history
<1>. QED
  BY <1>1, <1>4, <1>5, <1>6, <1>7, <1>8, <1>9, <1>10 DEF Next, Command

-----------------------------------------------------------------------------
(* What each step does to the messages in flight.                          *)

\* A message that is taken off the network is missing in its kind alone.
LEMMA TakenOff ==
  ASSUME Types, NEW m \in net, net' = net \ {m}
  PROVE  /\ \A K : m.kind \notin K => Of(K)' = Of(K)
         /\ \A K : m.kind \in K =>
              Of(K)' = Of(K) \ {m} /\ m \in Of(K)
                /\ Cardinality(Of(K)') = Cardinality(Of(K)) - 1
         /\ m \in Late => Late' = Late \ {m} /\ Cardinality(Late') = Cardinality(Late) - 1
         /\ m \notin Late => Late' = Late
<1>1. /\ \A K : m.kind \notin K => Of(K)' = Of(K)
      /\ \A K : m.kind \in K => Of(K)' = Of(K) \ {m} /\ m \in Of(K)
      /\ m \in Late => Late' = Late \ {m}
      /\ m \notin Late => Late' = Late
  BY DEF Of, Late
<1>. QED
  BY <1>1, Finite, FS_RemoveElement

\* Messages that are sent add to their kind alone.
LEMMA SentOut ==
  ASSUME NEW S, net' = net \cup S
  PROVE  /\ \A K : (\A m \in S : m.kind \notin K) => Of(K)' = Of(K)
         /\ \A K : Of(K)' \subseteq Of(K) \cup S
         /\ (\A m \in S : m.kind # "add") => Late' = Late
BY DEF Of, Late

\* Every move that is on its way, and every answer to come, is counted on.
LEMMA MovesStep == Types /\ MovesAddUp /\ [Next]_vars => MovesAddUp'
<1> SUFFICES ASSUME Types, MovesAddUp, [Next]_vars PROVE MovesAddUp'
  OBVIOUS
<1> DEFINE K == {"move"}
<1>0. /\ Cardinality(Of(K)) \in Nat /\ cnt.moveCnt \in Int /\ answers.moveCnt \in Nat
      /\ wraps \in Nat /\ IsFiniteSet(Of(K))
      /\ Cardinality(Of(K)) + answers.moveCnt <= cnt.moveCnt + wraps
      /\ con.step # "move" \/ con.at = "plan" => cnt.moveCnt <= 0
  BY Finite DEF Types, MovesAddUp, NoAnswers
<1>1. ASSUME Of(K)' = Of(K), cnt'.moveCnt = cnt.moveCnt, wraps' = wraps,
             answers'.moveCnt = answers.moveCnt,
             con'.step # "move" \/ con'.at = "plan" => cnt.moveCnt <= 0
      PROVE  MovesAddUp'
  BY <1>0, <1>1 DEF MovesAddUp
<1>2. net' = net => Of(K)' = Of(K)
  BY DEF Of
<1>3. CASE Command
  <2>1. con = Idle /\ UNCHANGED <<cnt, net, answers, wraps>>
    BY <1>3, CommandAt
  <2>. QED
    BY <1>0, <1>1, <1>2, <2>1, Places
<1>4. CASE Plan
  <2>1. /\ con.at = "plan" /\ con'.step = "move" /\ con'.at \in {"test", "spin"}
        /\ begun > 0 /\ answers' = answers
    BY <1>4, PlanAt DEF Types, Plan
  <2>2. CASE UNCHANGED <<net, cnt, wraps>>
    BY <1>0, <1>1, <1>2, <2>1, <2>2
  <2>3. CASE SendPlan
    <3>1. PICK ranges \in 1 .. MaxRange, wrapped \in BOOLEAN :
            /\ net' = net \cup Moves(IF wrapped THEN 0 ELSE 1, ranges)
            /\ cnt' = [cnt EXCEPT !.moveCnt = ranges]
            /\ wraps' = wraps + IF wrapped THEN 1 ELSE 0
      BY <2>3, Zenon DEF SendPlan, Moves
    <3> DEFINE lo == IF wrapped THEN 0 ELSE 1
    <3>2. /\ ranges \in Nat /\ lo \in {0, 1} /\ net' = net \cup Moves(lo, ranges)
          /\ wraps' = wraps + (1 - lo) /\ cnt'.moveCnt = ranges
      BY <3>1, MembershipAssumption DEF Types, NoAnswers
    <3>. HIDE DEF lo
    <3>3. /\ IsFiniteSet(Moves(lo, ranges)) /\ Cardinality(Moves(lo, ranges)) \in Nat
          /\ Cardinality(Moves(lo, ranges)) <= ranges + 1 - lo
      BY <2>1, <3>2, PlanMessages
    <3>4. Of(K)' \subseteq Of(K) \cup Moves(lo, ranges)
      BY <3>2, SentOut
    <3>5. /\ Cardinality(Of(K)') <= Cardinality(Of(K)) + Cardinality(Moves(lo, ranges))
          /\ Cardinality(Of(K)') \in Nat
      BY <1>0, <3>3, <3>4, Within
    <3>. QED
      BY <1>0, <2>1, <3>2, <3>3, <3>5 DEF MovesAddUp
  <2>. QED
    BY <1>4, <2>2, <2>3 DEF Plan, PlanOrSpin
<1>5. CASE CountHosts \/ SendFlags
  <2>1. con.step \in {"pause", "resume"} /\ con'.step = con.step
    BY <1>5, CountAt
  <2>2. Of(K)' = Of(K)
    <3>1. CASE CountHosts
      BY <1>2, <3>1 DEF CountHosts, mail
    <3>2. CASE SendFlags
      <4>1. net' = net \cup FlagMsgs
        BY <3>2, Zenon DEF SendFlags, FlagMsgs, Pausing
      <4>. QED
        BY <4>1, RoundMessages, SentOut
    <3>. QED
      BY <1>5, <3>1, <3>2
  <2>3. /\ cnt'.moveCnt = cnt.moveCnt /\ UNCHANGED <<answers, wraps>>
    BY <1>5 DEF CountHosts, SendFlags, mail, history, Types, NoAnswers
  <2>. QED
    BY <1>0, <1>1, <2>1, <2>2, <2>3
<1>6. CASE SendLists
  <2>1. con.step = "list" /\ con.op \in {"add", "remove"} /\ con'.step = "list"
    BY <1>6, ListsAt
  <2>2. net' = net \cup ListMsgs
    BY <1>6, Zenon DEF SendLists, ListMsgs
  <2>3. Of(K)' = Of(K)
    BY <2>1, <2>2, RoundMessages, SentOut
  <2>4. cnt'.moveCnt = cnt.moveCnt /\ UNCHANGED <<answers, wraps>>
    BY <1>6 DEF SendLists, Types, NoAnswers
  <2>. QED
    BY <1>0, <1>1, <2>1, <2>3, <2>4
<1>7. CASE Pass
  <2>1. UNCHANGED <<cnt, net, answers, wraps>>
    BY <1>7 DEF Pass, mail
  <2>2. con'.step # "move" /\ (con.step = "move" => cnt.moveCnt = 0)
    BY <1>7, PassAt, Places
  <2>. QED
    BY <1>0, <1>1, <1>2, <2>1, <2>2
<1>8. CASE Quiet
  <2>1. UNCHANGED <<cnt, net, answers, wraps>> /\ SameWait
    BY <1>8 DEF Quiet, mail
  <2>2. con'.step # "move" \/ con'.at = "plan" => con.step # "move" \/ con.at = "plan"
    BY <2>1, WaitAt DEF Waits
  <2>. QED
    BY <1>0, <1>1, <1>2, <2>1, <2>2
<1>9. ASSUME NEW m \in net, Handle(m) \/ LoseMessage(m) PROVE MovesAddUp'
  <2>1. /\ m.kind \notin K /\ net' = net \ {m}
        /\ UNCHANGED <<con, cnt, wraps>> /\ answers'.moveCnt = answers.moveCnt
    BY <1>9 DEF Handle, handleSetFlag, actAddServer, actRemoveServer, Take, Answer,
                LoseMessage, history, Types, NoAnswers
  <2>2. Of(K)' = Of(K)
    BY <2>1, TakenOff
  <2>. QED
    BY <1>0, <1>1, <2>1, <2>2
<1>10. ASSUME NEW m \in net, MoveGone(m) PROVE MovesAddUp'
  <2>1. /\ m.kind = "move" /\ net' = net \ {m} /\ UNCHANGED <<con, cnt, wraps>>
        /\ answers'.moveCnt \in {answers.moveCnt, answers.moveCnt + 1}
    BY <1>10 DEF MoveGone, Types, NoAnswers
  <2>2. Cardinality(Of(K)') = Cardinality(Of(K)) - 1
    BY <2>1, TakenOff
  <2>. QED
    BY <1>0, <2>1, <2>2 DEF MovesAddUp
<1>11. ASSUME NEW m \in waiting, actSetEnableFlag(m) PROVE MovesAddUp'
  <2>1. UNCHANGED <<con, cnt, net, wraps>> /\ answers'.moveCnt = answers.moveCnt
    BY <1>11 DEF actSetEnableFlag, Answer, history, Types, NoAnswers
  <2>. QED
    BY <1>0, <1>1, <1>2, <2>1
<1>12. ASSUME NEW c \in DOMAIN NoAnswers, Return(c) PROVE MovesAddUp'
  <2>1. SameWait /\ UNCHANGED <<net, wraps>>
    BY <1>12, ReturnAt
  <2>2. \/ /\ answers'.moveCnt = answers.moveCnt - 1 /\ cnt'.moveCnt = cnt.moveCnt - 1
        \/ /\ answers'.moveCnt = answers.moveCnt /\ cnt'.moveCnt = cnt.moveCnt
    BY <1>12 DEF Return, Types, NoAnswers
  <2>3. con'.step # "move" \/ con'.at = "plan" => con.step # "move" \/ con.at = "plan"
    BY <2>1, WaitAt DEF Waits
  <2>. QED
    BY <1>0, <1>2, <2>1, <2>2, <2>3 DEF MovesAddUp
<1>13. ASSUME NEW c \in DOMAIN NoAnswers, LoseAnswer(c) PROVE MovesAddUp'
  <2>1. UNCHANGED <<con, cnt, net, wraps>>
    BY <1>13 DEF LoseAnswer
  <2>2. answers'.moveCnt \in {answers.moveCnt, answers.moveCnt - 1}
    BY <1>13 DEF LoseAnswer, Types, NoAnswers
  <2>. QED
    BY <1>0, <1>2, <2>1, <2>2 DEF MovesAddUp
<1>. QED
  BY <1>3, <1>4, <1>5, <1>6, <1>7, <1>8, <1>9, <1>10, <1>11, <1>12, <1>13, Steps

\* Every list that is to change, and every answer to come, is counted on, but
\* for one host of each removal.
LEMMA ListsStep == Types /\ ListsAddUp /\ [Next]_vars => ListsAddUp'
<1> SUFFICES ASSUME Types, ListsAddUp, [Next]_vars PROVE ListsAddUp'
  OBVIOUS
<1> DEFINE K == {"add", "remove"}
<1>0. /\ Cardinality(Of(K)) \in Nat /\ cnt.serverCnt \in Int /\ answers.serverCnt \in Nat
      /\ removals \in Nat /\ IsFiniteSet(Of(K))
      /\ IsFiniteSet(Members) /\ Cardinality(Members) \in Nat
      /\ Cardinality(Of(K)) + answers.serverCnt <= cnt.serverCnt + removals
      /\ con.step # "list" \/ con.at = "lists" => cnt.serverCnt <= 0
  BY Finite DEF Types, ListsAddUp, NoAnswers
<1>1. ASSUME Of(K)' = Of(K), cnt'.serverCnt = cnt.serverCnt, removals' = removals,
             answers'.serverCnt = answers.serverCnt,
             con'.step # "list" \/ con'.at = "lists" => cnt.serverCnt <= 0
      PROVE  ListsAddUp'
  BY <1>0, <1>1 DEF ListsAddUp
<1>2. net' = net => Of(K)' = Of(K)
  BY DEF Of
<1>3. CASE Command
  <2>1. /\ con = Idle /\ con'.step # "list"
        /\ UNCHANGED <<cnt, net, answers, removals>>
    BY <1>3, CommandAt
  <2>. QED
    BY <1>0, <1>1, <1>2, <2>1, Places
<1>4. CASE Plan
  <2>1. /\ con.step = "move" /\ con'.step = "move" /\ begun > 0
        /\ UNCHANGED <<answers, removals>>
    BY <1>4, PlanAt DEF Types, Plan
  <2>2. CASE UNCHANGED <<net, cnt, wraps>>
    BY <1>0, <1>1, <1>2, <2>1, <2>2
  <2>3. CASE SendPlan
    <3>1. PICK ranges \in 1 .. MaxRange, wrapped \in BOOLEAN :
            /\ net' = net \cup Moves(IF wrapped THEN 0 ELSE 1, ranges)
            /\ cnt' = [cnt EXCEPT !.moveCnt = ranges]
      BY <2>3, Zenon DEF SendPlan, Moves
    <3>2. \A m \in Moves(IF wrapped THEN 0 ELSE 1, ranges) : m.kind \notin K
      BY DEF Moves
    <3>3. Of(K)' = Of(K)
      BY <3>1, <3>2, SentOut
    <3>4. cnt'.serverCnt = cnt.serverCnt
      BY <3>1 DEF Types, NoAnswers
    <3>. QED
      BY <1>0, <1>1, <2>1, <3>3, <3>4
  <2>. QED
    BY <1>4, <2>2, <2>3 DEF Plan, PlanOrSpin
<1>5. CASE CountHosts \/ SendFlags
  <2>1. con.step \in {"pause", "resume"} /\ con'.step = con.step
    BY <1>5, CountAt
  <2>2. Of(K)' = Of(K)
    <3>1. CASE CountHosts
      BY <1>2, <3>1 DEF CountHosts, mail
    <3>2. CASE SendFlags
      <4>1. net' = net \cup FlagMsgs
        BY <3>2, Zenon DEF SendFlags, FlagMsgs, Pausing
      <4>. QED
        BY <4>1, RoundMessages, SentOut
    <3>. QED
      BY <1>5, <3>1, <3>2
  <2>3. /\ cnt'.serverCnt = cnt.serverCnt /\ UNCHANGED <<answers, removals>>
    BY <1>5 DEF CountHosts, SendFlags, mail, history, Types, NoAnswers
  <2>. QED
    BY <1>0, <1>1, <2>1, <2>2, <2>3
<1>6. CASE SendLists
  <2>1. /\ con.step = "list" /\ con.at = "lists" /\ con.op \in {"add", "remove"}
        /\ con'.step = "list" /\ con'.at = "test"
    BY <1>6, ListsAt
  <2>2. net' = net \cup ListMsgs
    BY <1>6, Zenon DEF SendLists, ListMsgs
  <2>3. Of(K)' \subseteq Of(K) \cup ListMsgs
    BY <2>2, SentOut
  <2>4. /\ Cardinality(Of(K)') <= Cardinality(Of(K)) + Cardinality(ListMsgs)
        /\ Cardinality(ListMsgs) <= Cardinality(Members)
        /\ Cardinality(ListMsgs) \in Nat /\ Cardinality(Of(K)') \in Nat
    BY <1>0, <2>3, RoundMessages, Within
  <2>5. cnt'.serverCnt = Awaited /\ answers' = answers
    BY <1>6 DEF SendLists, Types, NoAnswers
  <2>6. CASE con.op = "add"
    BY <1>0, <1>6, <2>1, <2>4, <2>5, <2>6 DEF SendLists, Awaited, ListsAddUp
  <2>7. CASE con.op = "remove"
    BY <1>0, <1>6, <2>1, <2>4, <2>5, <2>7 DEF SendLists, Awaited, ListsAddUp
  <2>. QED
    BY <2>1, <2>6, <2>7
<1>7. CASE Pass
  <2>1. UNCHANGED <<cnt, net, answers, removals>>
    BY <1>7 DEF Pass, mail
  <2>2. con.step = "list" => cnt.serverCnt = 0
    BY <1>7, PassAt, Places
  <2>. QED
    BY <1>0, <1>1, <1>2, <2>1, <2>2
<1>8. CASE Quiet
  <2>1. UNCHANGED <<cnt, net, answers, removals>> /\ SameWait
    BY <1>8 DEF Quiet, mail
  <2>2. con'.step # "list" \/ con'.at = "lists" => con.step # "list" \/ con.at = "lists"
    BY <2>1, WaitAt DEF Waits
  <2>. QED
    BY <1>0, <1>1, <1>2, <2>1, <2>2
<1>9. ASSUME NEW m \in net, handleSetFlag(m) \/ MoveGone(m) PROVE ListsAddUp'
  <2>1. /\ m.kind \notin K /\ net' = net \ {m} /\ UNCHANGED <<con, cnt, removals>>
        /\ answers'.serverCnt = answers.serverCnt
    BY <1>9 DEF handleSetFlag, Take, MoveGone, history, Types, NoAnswers
  <2>2. Of(K)' = Of(K)
    BY <2>1, TakenOff
  <2>. QED
    BY <1>0, <1>1, <2>1, <2>2
<1>10. ASSUME NEW m \in net, actAddServer(m) \/ actRemoveServer(m) PROVE ListsAddUp'
  <2>1. /\ m.kind \in K /\ net' = net \ {m} /\ UNCHANGED <<con, cnt, removals>>
        /\ answers'.serverCnt = answers.serverCnt + 1
    BY <1>10 DEF actAddServer, actRemoveServer, Take, Answer, history, Types, NoAnswers
  <2>2. Cardinality(Of(K)') = Cardinality(Of(K)) - 1
    BY <2>1, TakenOff
  <2>. QED
    BY <1>0, <2>1, <2>2 DEF ListsAddUp
<1>11. ASSUME NEW m \in waiting, actSetEnableFlag(m) PROVE ListsAddUp'
  <2>1. UNCHANGED <<con, cnt, net, removals>> /\ answers'.serverCnt = answers.serverCnt
    BY <1>11 DEF actSetEnableFlag, Answer, history, Types, NoAnswers
  <2>. QED
    BY <1>0, <1>1, <1>2, <2>1
<1>12. ASSUME NEW c \in DOMAIN NoAnswers, Return(c) PROVE ListsAddUp'
  <2>1. SameWait /\ UNCHANGED <<net, removals>>
    BY <1>12, ReturnAt
  <2>2. \/ /\ answers'.serverCnt = answers.serverCnt - 1
           /\ cnt'.serverCnt = cnt.serverCnt - 1
        \/ /\ answers'.serverCnt = answers.serverCnt /\ cnt'.serverCnt = cnt.serverCnt
    BY <1>12 DEF Return, Types, NoAnswers
  <2>3. con'.step # "list" \/ con'.at = "lists" => con.step # "list" \/ con.at = "lists"
    BY <2>1, WaitAt DEF Waits
  <2>. QED
    BY <1>0, <1>2, <2>1, <2>2, <2>3 DEF ListsAddUp
<1>13. ASSUME NEW m \in net, LoseMessage(m) PROVE ListsAddUp'
  <2>1. /\ net' = net \ {m} /\ UNCHANGED <<con, cnt, answers, removals>>
    BY <1>13 DEF LoseMessage
  <2>2. Cardinality(Of(K)') \in {Cardinality(Of(K)), Cardinality(Of(K)) - 1}
    BY <2>1, TakenOff
  <2>. QED
    BY <1>0, <2>1, <2>2 DEF ListsAddUp
<1>14. ASSUME NEW c \in DOMAIN NoAnswers, LoseAnswer(c) PROVE ListsAddUp'
  <2>1. UNCHANGED <<con, cnt, net, removals>>
    BY <1>14 DEF LoseAnswer
  <2>2. answers'.serverCnt \in {answers.serverCnt, answers.serverCnt - 1}
    BY <1>14 DEF LoseAnswer, Types, NoAnswers
  <2>. QED
    BY <1>0, <1>2, <2>1, <2>2 DEF ListsAddUp
<1>. QED
  BY <1>3, <1>4, <1>5, <1>6, <1>7, <1>8, <1>9, <1>10, <1>11, <1>12, <1>13, <1>14, Steps
     DEF Handle

\* No list changes outside the step for it, as long as no removal has begun.
LEMMA NoListsLate ==
  ASSUME Types, ListsAddUp, removals = 0, con.step # "list" \/ con.at = "lists"
  PROVE  Of({"add", "remove"}) = {} /\ Late = {}
<1>1. /\ IsFiniteSet(Of({"add", "remove"})) /\ Cardinality(Of({"add", "remove"})) <= 0
      /\ Cardinality(Of({"add", "remove"})) \in Nat
  BY Finite DEF Types, ListsAddUp, NoAnswers
<1>2. Of({"add", "remove"}) = {}
  BY <1>1, FS_EmptySet
<1>. QED
  BY <1>2 DEF Of, Late

\* The room for strays never shrinks, and an addition that comes late to the
\* primary makes room for one.
LEMMA RoomStep ==
  ASSUME Types, 0 <= Sent, [Next]_vars
  PROVE  /\ Room \in Nat /\ Room' \in Nat /\ 0 <= Sent' /\ Room <= Room'
         /\ \A m \in net : actAddServer(m) /\ m \in Late /\ removals > 0 => Room + 1 <= Room'
<1>0. /\ begun \in Nat /\ removals \in Nat /\ Untold \in {0, 1} /\ Sent \in Int
      /\ IsFiniteSet(Late) /\ Cardinality(Late) \in Nat
  BY Finite DEF Types, Sent, Untold
<1>1. net' = net => Late' = Late
  BY DEF Late
<1>2. ASSUME Sent <= Sent', Sent' \in Int, removals' = removals
      PROVE  Room \in Nat /\ Room' \in Nat /\ 0 <= Sent' /\ Room <= Room'
  BY <1>0, <1>2 DEF Room
<1>3. CASE Command
  <2>1. /\ con = Idle /\ begun' = begun + 1 /\ UNCHANGED <<net, removals>>
    BY <1>3, CommandAt
  <2>2. Untold = 0 /\ Untold' \in {0, 1}
    BY <2>1, Places DEF Untold
  <2>3. Sent <= Sent' /\ Sent' \in Int
    BY <1>0, <1>1, <2>1, <2>2 DEF Sent
  <2>4. \A m \in net : ~actAddServer(m)
    BY <2>1, <1>0 DEF actAddServer, history
  <2>. QED
    BY <1>2, <2>1, <2>3, <2>4
<1>4. CASE Plan \/ CountHosts \/ SendFlags
  <2>1. /\ con'.op = con.op /\ con'.step = con.step /\ con.at # "lists" /\ con'.at # "lists"
        /\ UNCHANGED <<begun, removals>> /\ con' # con
    BY <1>4, PlanAt, CountAt DEF Plan, CountHosts, SendFlags, history
  <2>2. Late' = Late
    <3>1. CASE SendPlan
      <4>1. PICK ranges \in 1 .. MaxRange, wrapped \in BOOLEAN :
              net' = net \cup Moves(IF wrapped THEN 0 ELSE 1, ranges)
        BY <3>1, Zenon DEF SendPlan, Moves
      <4>2. \A m \in Moves(IF wrapped THEN 0 ELSE 1, ranges) : m.kind # "add"
        BY DEF Moves
      <4>. QED
        BY <4>1, <4>2, SentOut
    <3>2. CASE SendFlags
      <4>1. net' = net \cup FlagMsgs
        BY <3>2, Zenon DEF SendFlags, FlagMsgs, Pausing
      <4>. QED
        BY <4>1, RoundMessages, SentOut
    <3>3. CASE net' = net
      BY <1>1, <3>3
    <3>. QED
      BY <1>4, <3>1, <3>2, <3>3 DEF Plan, PlanOrSpin, CountHosts, mail
  <2>3. Untold' = Untold
    BY <2>1 DEF Untold
  <2>4. \A m \in net : ~actAddServer(m)
    BY <2>1 DEF actAddServer
  <2>. QED
    BY <1>0, <1>2, <2>1, <2>2, <2>3, <2>4 DEF Sent
<1>5. CASE SendLists
  <2>1. /\ con.op \in {"add", "remove"} /\ con.at = "lists" /\ con'.op = con.op
        /\ con'.step = "list" /\ con'.at = "test" /\ begun' = begun
        /\ net' = net \cup ListMsgs
        /\ removals' = removals + IF con.op = "remove" THEN 1 ELSE 0
    BY <1>5, ListsAt, Zenon DEF SendLists, ListMsgs
  <2>2. Untold = 1 /\ Untold' = 0
    BY <2>1 DEF Untold
  <2>3. CASE con.op = "add"
    <3> DEFINE x == [kind |-> con.op, to |-> Primary, id |-> begun, host |-> con.host]
    <3>1. Late' \subseteq Late \cup {x}
      BY <2>1 DEF Late, ListMsgs
    <3>2. /\ IsFiniteSet(Late \cup {x}) /\ Cardinality(Late \cup {x}) \in Nat
          /\ Cardinality(Late \cup {x}) <= Cardinality(Late) + 1
      BY <1>0, OneOff
    <3>3. Cardinality(Late') <= Cardinality(Late) + 1 /\ Cardinality(Late') \in Nat
      <4>. HIDE DEF x
      <4>1. /\ Cardinality(Late') <= Cardinality(Late \cup {x})
            /\ Cardinality(Late') \in Nat
        BY <3>1, <3>2, Smaller
      <4>. QED
        BY <1>0, <3>2, <4>1
    <3>4. Sent <= Sent' /\ Sent' \in Int /\ removals' = removals
      BY <1>0, <2>1, <2>2, <2>3, <3>3 DEF Sent
    <3>5. \A m \in net : ~actAddServer(m)
      BY <2>1 DEF actAddServer
    <3>. QED
      BY <1>2, <3>4, <3>5
  <2>4. CASE con.op = "remove"
    <3>1. Late' = Late
      BY <2>1, <2>4, RoundMessages, SentOut
    <3>2. Sent' = Sent /\ removals' = removals + 1
      BY <1>0, <2>1, <2>2, <2>4, <3>1 DEF Sent
    <3>3. \A m \in net : ~actAddServer(m)
      BY <2>1 DEF actAddServer
    <3>. QED
      BY <1>0, <3>2, <3>3 DEF Room
  <2>. QED
    BY <2>1, <2>3, <2>4
<1>6. CASE Pass
  <2>1. con' # con /\ UNCHANGED <<begun, net, removals>>
    BY <1>6, PassAt, Places DEF Pass, mail
  <2>2. Untold' \in {0, 1} /\ Untold' <= Untold
    BY <1>6, PassAt, Places DEF Untold
  <2>3. Sent <= Sent' /\ Sent' \in Int
    BY <1>0, <1>1, <2>1, <2>2 DEF Sent
  <2>4. \A m \in net : ~actAddServer(m)
    BY <2>1 DEF actAddServer
  <2>. QED
    BY <1>2, <2>1, <2>3, <2>4
<1>7. CASE Quiet \/ \E c \in DOMAIN NoAnswers : Return(c) \/ LoseAnswer(c)
  <2>1. SameWait /\ UNCHANGED <<begun, net, removals>>
    BY <1>7, ReturnAt DEF Quiet, mail, LoseAnswer, SameWait
  <2>2. Untold' = Untold
    BY <2>1, WaitAt DEF Untold, Waits
  <2>3. \A m \in net : ~actAddServer(m)
    BY <2>1 DEF actAddServer
  <2>. QED
    BY <1>0, <1>1, <1>2, <2>1, <2>2, <2>3 DEF Sent
<1>8. ASSUME NEW m \in net, Handle(m) \/ MoveGone(m) \/ LoseMessage(m)
      PROVE  /\ Room \in Nat /\ Room' \in Nat /\ 0 <= Sent' /\ Room <= Room'
             /\ m \in Late /\ removals > 0 => Room + 1 <= Room'
             /\ net' = net \ {m}
  <2>1. net' = net \ {m} /\ UNCHANGED <<con, begun, removals>>
    BY <1>8 DEF Handle, handleSetFlag, actAddServer, actRemoveServer, Take, MoveGone,
                LoseMessage, history
  <2>2. Untold' = Untold
    BY <2>1 DEF Untold
  <2>3. CASE m \in Late
    <3>1. Cardinality(Late') = Cardinality(Late) - 1
      BY <2>1, <2>3, TakenOff
    <3>2. Sent' = Sent + 1
      BY <1>0, <2>1, <2>2, <3>1 DEF Sent
    <3>. QED
      BY <1>0, <2>1, <3>2 DEF Room
  <2>4. CASE m \notin Late
    <3>1. Late' = Late
      BY <2>1, <2>4, TakenOff
    <3>2. Sent' = Sent
      BY <1>0, <2>1, <2>2, <3>1 DEF Sent
    <3>. QED
      BY <1>0, <1>2, <2>1, <2>4, <3>2
  <2>. QED
    BY <2>3, <2>4
<1>9. ASSUME NEW n \in net, Handle(n) \/ MoveGone(n) \/ LoseMessage(n),
             NEW m \in net, actAddServer(m)
      PROVE  m = n
  BY <1>8, <1>9 DEF actAddServer
<1>10. ASSUME NEW m \in waiting, actSetEnableFlag(m)
       PROVE  /\ Room \in Nat /\ Room' \in Nat /\ 0 <= Sent' /\ Room <= Room'
              /\ net' = net
  <2>1. UNCHANGED <<con, net, begun, removals>>
    BY <1>10 DEF actSetEnableFlag, history
  <2>. QED
    BY <1>0, <1>1, <1>2, <2>1 DEF Sent, Untold
<1>11. \A m \in net : net' = net => ~actAddServer(m)
  BY DEF actAddServer
<1>. QED
  BY <1>3, <1>4, <1>5, <1>6, <1>7, <1>8, <1>9, <1>10, <1>11, Steps

\* Every setflag message on its way, waiting or to come, and every answer to
\* one, is counted on or is a stray.
LEMMA FlagsStep ==
  Types /\ Losses /\ ListsAddUp /\ FlagsAddUp /\ [Next]_vars => FlagsAddUp'
<1> SUFFICES ASSUME Types, Losses, ListsAddUp, FlagsAddUp, [Next]_vars PROVE FlagsAddUp'
  OBVIOUS
<1> DEFINE K == {"setflag"}
<1> DEFINE Settled == con.step \notin {"pause", "resume"} \/ con.at = "count"
<1>0. /\ Cardinality(Of(K)) \in Nat /\ IsFiniteSet(Of(K))
      /\ Cardinality(waiting) \in Nat /\ IsFiniteSet(waiting)
      /\ cnt.enableCnt \in Int /\ answers.enableCnt \in Nat
      /\ IsFiniteSet(Members) /\ Cardinality(Members) \in Nat /\ ToCome \in Nat
      /\ Cardinality(Of(K)) + Cardinality(waiting) + answers.enableCnt + ToCome + Gone
           <= cnt.enableCnt + Room
      /\ Settled => cnt.enableCnt <= 0
      /\ Gone \in {0, 1} /\ Gone' \in {0, 1}
  BY Finite, LossesStep DEF Types, FlagsAddUp, NoAnswers, ToCome
<1>1. /\ Room \in Nat /\ Room' \in Nat /\ 0 <= Sent' /\ Room <= Room'
      /\ \A m \in net : actAddServer(m) /\ m \in Late /\ removals > 0 => Room + 1 <= Room'
  BY RoomStep DEF FlagsAddUp
<1>2. ASSUME Cardinality(Of(K)') + Cardinality(waiting') + answers'.enableCnt + ToCome' + Gone'
               <= cnt'.enableCnt + Room',
             Settled' => cnt'.enableCnt <= 0
      PROVE  FlagsAddUp'
  BY <1>1, <1>2 DEF FlagsAddUp
<1>18. ASSUME NEW m \in net, LoseMessage(m) PROVE FlagsAddUp'
  <2>1. /\ net' = net \ {m} /\ UNCHANGED <<con, cnt, waiting, answers>> /\ Members' = Members
        /\ Lose(IF m.kind = "setflag" THEN "enableCnt" ELSE "serverCnt")
    BY <1>18 DEF LoseMessage, hosts, Members
  <2>2. ToCome' = ToCome /\ (Settled' => Settled)
    BY <2>1 DEF ToCome
  <2>3. CASE m.kind = "setflag"
    <3>1. Cardinality(Of(K)') = Cardinality(Of(K)) - 1
      BY <2>1, <2>3, TakenOff
    <3>. HIDE DEF Settled
    <3>. QED
      BY <1>0, <1>1, <1>2, <2>1, <2>2, <3>1
  <2>4. CASE m.kind # "setflag"
    <3>1. Of(K)' = Of(K)
      BY <2>1, <2>4, TakenOff
    <3>2. Gone' = Gone
      BY <2>1, <2>4 DEF Lose, Gone
    <3>. HIDE DEF Settled
    <3>. QED
      BY <1>0, <1>1, <1>2, <2>1, <2>2, <3>1, <3>2
  <2>. QED
    BY <2>3, <2>4
<1>19. ASSUME NEW c \in DOMAIN NoAnswers, LoseAnswer(c) PROVE FlagsAddUp'
  <2>1. /\ UNCHANGED <<con, cnt, net, waiting>> /\ Members' = Members
        /\ Lose(c) /\ answers' = [answers EXCEPT ![c] = @ - 1]
    BY <1>19 DEF LoseAnswer, hosts, Members
  <2>2. ToCome' = ToCome /\ (Settled' => Settled) /\ Of(K)' = Of(K)
    BY <2>1 DEF ToCome, Of
  <2>3. \/ answers'.enableCnt = answers.enableCnt - 1
        \/ answers'.enableCnt = answers.enableCnt /\ Gone' = Gone
    BY <2>1 DEF Types, NoAnswers, Lose, Gone
  <2>. HIDE DEF Settled
  <2>. QED
    BY <1>0, <1>1, <1>2, <2>1, <2>2, <2>3
<1> SUFFICES ASSUME Gone' = Gone PROVE FlagsAddUp'
  BY <1>18, <1>19, LossesStep
<1>3. ASSUME Of(K)' = Of(K), waiting' \subseteq waiting, ToCome' \in Nat, ToCome' <= ToCome,
             answers'.enableCnt = answers.enableCnt, cnt'.enableCnt = cnt.enableCnt,
             Settled' => cnt.enableCnt <= 0
      PROVE  FlagsAddUp'
  <2>1. Cardinality(waiting') \in Nat /\ Cardinality(waiting') <= Cardinality(waiting)
    BY <1>0, <1>3, Smaller
  <2>. QED
    BY <1>0, <1>1, <1>2, <1>3, <2>1
<1>4. net' = net => Of(K)' = Of(K)
  BY DEF Of
<1>5. CASE Command
  <2>1. /\ con = Idle /\ UNCHANGED <<cnt, net, answers>> /\ waiting' \subseteq waiting
        /\ con'.at # "send"
    BY <1>5, CommandAt
  <2>2. ToCome' = 0 /\ ToCome = 0 /\ Settled
    BY <2>1, Places DEF ToCome
  <2>. HIDE DEF Settled
  <2>. QED
    BY <1>0, <1>3, <1>4, <2>1, <2>2
<1>6. CASE Plan
  <2>1. /\ con.at = "plan" /\ con.step = "move" /\ con'.step = "move" /\ con'.at # "send"
        /\ begun > 0 /\ answers' = answers /\ waiting' = waiting
    BY <1>6, PlanAt DEF Types, Plan
  <2>2. ToCome' = 0 /\ ToCome = 0 /\ Settled
    BY <2>1 DEF ToCome
  <2>3. Of(K)' = Of(K) /\ cnt'.enableCnt = cnt.enableCnt
    <3>1. CASE SendPlan
      <4>1. PICK ranges \in 1 .. MaxRange, wrapped \in BOOLEAN :
              /\ net' = net \cup Moves(IF wrapped THEN 0 ELSE 1, ranges)
              /\ cnt' = [cnt EXCEPT !.moveCnt = ranges]
        BY <3>1, Zenon DEF SendPlan, Moves
      <4>2. \A m \in Moves(IF wrapped THEN 0 ELSE 1, ranges) : m.kind \notin K
        BY DEF Moves
      <4>3. Of(K)' = Of(K)
        BY <4>1, <4>2, SentOut
      <4>. QED
        BY <4>1, <4>3 DEF Types, NoAnswers
    <3>. QED
      BY <1>4, <1>6, <3>1 DEF Plan, PlanOrSpin
  <2>. HIDE DEF Settled
  <2>. QED
    BY <1>0, <1>3, <2>1, <2>2, <2>3
<1>7. CASE CountHosts
  <2>1. con.at = "count" /\ con'.at = "send" /\ con'.step \in {"pause", "resume"}
    BY <1>7, CountAt
  <2>2. /\ cnt'.enableCnt = Cardinality(Members) /\ Members' = Members
        /\ UNCHANGED <<net, waiting, answers>>
    BY <1>7 DEF CountHosts, mail, hosts, Members, Types, NoAnswers
  <2>3. ToCome' = Cardinality(Members) /\ ToCome = 0 /\ Settled /\ ~Settled'
    BY <2>1, <2>2 DEF ToCome
  <2>. HIDE DEF Settled
  <2>. QED
    BY <1>0, <1>1, <1>2, <1>4, <2>2, <2>3
<1>8. CASE SendFlags
  <2>1. con.at = "send" /\ con'.at = "test" /\ con'.step \in {"pause", "resume"}
    BY <1>8, CountAt
  <2>2. net' = net \cup FlagMsgs
    BY <1>8, Zenon DEF SendFlags, FlagMsgs, Pausing
  <2>3. Of(K)' \subseteq Of(K) \cup FlagMsgs
    BY <2>2, SentOut
  <2>4. /\ IsFiniteSet(FlagMsgs) /\ Cardinality(FlagMsgs) <= Cardinality(Members)
    BY RoundMessages
  <2>5. /\ Cardinality(Of(K)') <= Cardinality(Of(K)) + Cardinality(FlagMsgs)
        /\ Cardinality(FlagMsgs) \in Nat /\ Cardinality(Of(K)') \in Nat
    BY <1>0, <2>3, <2>4, Within
  <2>6. ToCome = Cardinality(Members) /\ ToCome' = 0 /\ ~Settled'
    BY <2>1 DEF ToCome
  <2>7. UNCHANGED <<cnt, waiting, answers>>
    BY <1>8 DEF SendFlags
  <2>. HIDE DEF Settled
  <2>. QED
    BY <1>0, <1>1, <1>2, <2>4, <2>5, <2>6, <2>7
<1>9. CASE SendLists
  <2>1. /\ con.step = "list" /\ con.at = "lists" /\ con.op \in {"add", "remove"}
        /\ con'.step = "list" /\ con'.at = "test"
    BY <1>9, ListsAt
  <2>2. net' = net \cup ListMsgs
    BY <1>9, Zenon DEF SendLists, ListMsgs
  <2>3. Of(K)' = Of(K)
    BY <2>1, <2>2, RoundMessages, SentOut
  <2>4. cnt'.enableCnt = cnt.enableCnt /\ UNCHANGED <<answers, waiting>>
    BY <1>9 DEF SendLists, Types, NoAnswers
  <2>5. ToCome' = 0 /\ ToCome = 0 /\ Settled
    BY <2>1 DEF ToCome
  <2>. HIDE DEF Settled
  <2>. QED
    BY <1>0, <1>3, <2>3, <2>4, <2>5
<1>10. CASE Pass
  <2>1. UNCHANGED <<cnt, net, waiting, answers>>
    BY <1>10 DEF Pass, mail
  <2>2. /\ con.at = "test" /\ con'.at # "send"
        /\ con.step \in {"pause", "resume"} => cnt.enableCnt = 0
    BY <1>10, PassAt, Places
  <2>3. ToCome' = 0 /\ ToCome = 0 /\ cnt.enableCnt <= 0
    BY <1>0, <2>2 DEF ToCome
  <2>. HIDE DEF Settled
  <2>. QED
    BY <1>0, <1>3, <1>4, <2>1, <2>3
<1>11. CASE Quiet
  <2>1. UNCHANGED <<cnt, net, waiting, answers>> /\ SameWait /\ Members' = Members
    BY <1>11 DEF Quiet, mail, Members
  <2>2. ToCome' = ToCome /\ (Settled' => Settled)
    BY <2>1, WaitAt DEF ToCome, Waits
  <2>. HIDE DEF Settled
  <2>. QED
    BY <1>0, <1>3, <1>4, <2>1, <2>2
<1>12. ASSUME NEW m \in net, handleSetFlag(m) PROVE FlagsAddUp'
  <2>1. /\ m.kind \in K /\ net' = net \ {m} /\ waiting' = waiting \cup {m}
        /\ UNCHANGED <<con, cnt, answers>> /\ Members' = Members
    BY <1>12 DEF handleSetFlag, Take, hosts, Members
  <2>2. Cardinality(Of(K)') = Cardinality(Of(K)) - 1
    BY <2>1, TakenOff
  <2>3. Cardinality(waiting') \in Nat /\ Cardinality(waiting') <= Cardinality(waiting) + 1
    BY <1>0, <2>1, OneOff
  <2>4. ToCome' = ToCome /\ (Settled' => Settled)
    BY <2>1 DEF ToCome
  <2>. HIDE DEF Settled
  <2>. QED
    BY <1>0, <1>1, <1>2, <2>1, <2>2, <2>3, <2>4
<1>13. ASSUME NEW m \in net, actAddServer(m) PROVE FlagsAddUp'
  <2>1. /\ m.kind = "add" /\ net' = net \ {m} /\ UNCHANGED <<con, cnt, waiting>>
        /\ answers'.enableCnt = answers.enableCnt
        /\ hostList' = [hostList EXCEPT ![m.to] = @ \cup {m.host}]
    BY <1>13 DEF actAddServer, Take, Answer, Types, NoAnswers
  <2>2. Of(K)' = Of(K)
    BY <2>1, TakenOff
  <2>3. Settled' => Settled
    BY <2>1
  <2>4. CASE con.at # "send" \/ m.to # Primary
    <3>1. ToCome' = ToCome
      BY <2>1, <2>4 DEF ToCome, Members, Types
    <3>. HIDE DEF Settled
    <3>. QED
      BY <1>0, <1>3, <2>1, <2>2, <2>3, <3>1
  <2>5. CASE con.at = "send" /\ m.to = Primary
    <3>1. m \in Late /\ con.step # "list"
      BY <2>1, <2>5, Places DEF Late
    <3>2. removals > 0
      BY <3>1, NoListsLate DEF Types
    <3>3. Room + 1 <= Room'
      BY <1>1, <1>13, <3>1, <3>2
    <3>4. Members' = Members \cup {m.host}
      BY <2>1, <2>5 DEF Members, Types
    <3>5. Cardinality(Members') \in Nat /\ Cardinality(Members') <= Cardinality(Members) + 1
      BY <1>0, <3>4, OneOff
    <3>6. ToCome' = Cardinality(Members') /\ ToCome = Cardinality(Members)
      BY <2>1, <2>5 DEF ToCome
    <3>. HIDE DEF Settled
    <3>. QED
      BY <1>0, <1>1, <1>2, <2>1, <2>2, <2>3, <3>3, <3>5, <3>6
  <2>. QED
    BY <2>4, <2>5
<1>14. ASSUME NEW m \in net, actRemoveServer(m) PROVE FlagsAddUp'
  <2>1. /\ m.kind = "remove" /\ net' = net \ {m} /\ UNCHANGED <<con, cnt, waiting>>
        /\ answers'.enableCnt = answers.enableCnt
        /\ hostList' = [hostList EXCEPT ![m.to] = @ \ {m.host}]
    BY <1>14 DEF actRemoveServer, Take, Answer, Types, NoAnswers
  <2>2. Of(K)' = Of(K)
    BY <2>1, TakenOff
  <2>3. Members' \subseteq Members
    BY <2>1 DEF Members, Types
  <2>4. Cardinality(Members') \in Nat /\ Cardinality(Members') <= Cardinality(Members)
    BY <1>0, <2>3, Smaller
  <2>5. ToCome' \in Nat /\ ToCome' <= ToCome
    BY <1>0, <2>1, <2>4 DEF ToCome
  <2>6. Settled' => Settled
    BY <2>1
  <2>. HIDE DEF Settled
  <2>. QED
    BY <1>0, <1>3, <2>1, <2>2, <2>5, <2>6
<1>15. ASSUME NEW m \in net, MoveGone(m) PROVE FlagsAddUp'
  <2>1. /\ m.kind = "move" /\ net' = net \ {m} /\ UNCHANGED <<con, cnt, waiting>>
        /\ answers'.enableCnt = answers.enableCnt /\ Members' = Members
    BY <1>15 DEF MoveGone, Types, NoAnswers, hosts, Members
  <2>2. Of(K)' = Of(K)
    BY <2>1, TakenOff
  <2>3. ToCome' = ToCome /\ (Settled' => Settled)
    BY <2>1 DEF ToCome
  <2>. HIDE DEF Settled
  <2>. QED
    BY <1>0, <1>3, <2>1, <2>2, <2>3
<1>16. ASSUME NEW m \in waiting, actSetEnableFlag(m) PROVE FlagsAddUp'
  <2>1. /\ UNCHANGED <<con, cnt, net>> /\ waiting' = waiting \ {m} /\ Members' = Members
        /\ answers'.enableCnt = answers.enableCnt + 1
    BY <1>16 DEF actSetEnableFlag, Answer, Types, NoAnswers, Members
  <2>2. Cardinality(waiting') = Cardinality(waiting) - 1
    BY <1>0, <2>1, OneOff
  <2>3. ToCome' = ToCome /\ (Settled' => Settled)
    BY <2>1 DEF ToCome
  <2>. HIDE DEF Settled
  <2>. QED
    BY <1>0, <1>1, <1>2, <1>4, <2>1, <2>2, <2>3
<1>17. ASSUME NEW c \in DOMAIN NoAnswers, Return(c) PROVE FlagsAddUp'
  <2>1. SameWait /\ UNCHANGED <<net, waiting>> /\ Members' = Members
    BY <1>17, ReturnAt DEF Members
  <2>2. \/ /\ answers'.enableCnt = answers.enableCnt - 1
           /\ cnt'.enableCnt = cnt.enableCnt - 1
        \/ /\ answers'.enableCnt = answers.enableCnt /\ cnt'.enableCnt = cnt.enableCnt
    BY <1>17 DEF Return, Types, NoAnswers
  <2>3. ToCome' = ToCome /\ (Settled' => Settled)
    BY <2>1, WaitAt DEF ToCome, Waits
  <2>. HIDE DEF Settled
  <2>. QED
    BY <1>0, <1>1, <1>2, <1>4, <2>1, <2>2, <2>3
<1>. QED
  BY <1>5, <1>6, <1>7, <1>8, <1>9, <1>10, <1>11, <1>12, <1>13, <1>14, <1>15, <1>16,
     <1>17, <1>18, <1>19, Steps DEF Handle

\* Messages of earlier rounds stay as few as the strays: when the console goes
\* on from a round, the counter is zero, and nothing but strays is left.
LEMMA OldFewStep ==
  Types /\ Losses /\ ListsAddUp /\ FlagsAddUp /\ OldFew /\ [Next]_vars => OldFew'
<1> SUFFICES ASSUME Types, Losses, ListsAddUp, FlagsAddUp, OldFew, [Next]_vars PROVE OldFew'
  OBVIOUS
<1> DEFINE S == Of({"setflag"})
<1>0. /\ IsFiniteSet(S) /\ Cardinality(S) \in Nat
      /\ Cardinality(waiting) \in Nat /\ IsFiniteSet(waiting)
      /\ IsFiniteSet(Old(S)) /\ Cardinality(Old(S)) \in Nat
      /\ IsFiniteSet(Old(waiting)) /\ Cardinality(Old(waiting)) \in Nat
      /\ Cardinality(Old(S)) + Cardinality(Old(waiting)) <= Room
      /\ Room \in Nat /\ Room' \in Nat /\ Room <= Room'
  <2>1. IsFiniteSet(S) /\ Cardinality(S) \in Nat
        /\ Cardinality(waiting) \in Nat /\ IsFiniteSet(waiting)
    BY Finite
  <2>2. Old(S) \subseteq S /\ Old(waiting) \subseteq waiting
    BY DEF Old
  <2>3. /\ IsFiniteSet(Old(S)) /\ Cardinality(Old(S)) \in Nat
        /\ IsFiniteSet(Old(waiting)) /\ Cardinality(Old(waiting)) \in Nat
    BY <2>1, <2>2, Smaller
  <2>4. Room \in Nat /\ Room' \in Nat /\ Room <= Room'
    BY RoomStep DEF FlagsAddUp
  <2>. QED
    BY <2>1, <2>3, <2>4 DEF OldFew
<1>1. ASSUME Old(S)' \subseteq Old(S), Old(waiting)' \subseteq Old(waiting) PROVE OldFew'
  <2>1. /\ Cardinality(Old(S)') \in Nat /\ Cardinality(Old(S)') <= Cardinality(Old(S))
        /\ Cardinality(Old(waiting)') \in Nat
        /\ Cardinality(Old(waiting)') <= Cardinality(Old(waiting))
    BY <1>0, <1>1, Smaller
  <2>. QED
    BY <1>0, <2>1 DEF OldFew
<1>2. ASSUME S' \subseteq S, waiting' \subseteq waiting,
             \A m \in S \cup waiting : Current(m) => Current(m)'
      PROVE  OldFew'
  <2>1. Old(S)' \subseteq Old(S) /\ Old(waiting)' \subseteq Old(waiting)
    BY <1>2 DEF Old
  <2>. QED
    BY <1>1, <2>1
<1>3. net' \subseteq net => S' \subseteq S
  BY DEF Of
<1>4. con.step \notin {"pause", "resume"} \/ con.at \in {"count", "send"} =>
        \A m : ~Current(m)
  BY DEF Current, Waits
<1>5. ASSUME SameWait, UNCHANGED begun PROVE \A m : Current(m) => Current(m)'
  BY <1>5, WaitAt DEF Current, Pausing
<1>6. CASE Command
  <2>1. con = Idle /\ net' = net /\ waiting' \subseteq waiting
    BY <1>6, CommandAt
  <2>. QED
    BY <1>2, <1>3, <1>4, <2>1, Places
<1>7. CASE Plan
  <2>1. con.step = "move" /\ begun > 0 /\ waiting' = waiting
    BY <1>7, PlanAt DEF Types, Plan
  <2>2. S' = S
    <3>1. CASE SendPlan
      <4>1. PICK ranges \in 1 .. MaxRange, wrapped \in BOOLEAN :
              net' = net \cup Moves(IF wrapped THEN 0 ELSE 1, ranges)
        BY <3>1, Zenon DEF SendPlan, Moves
      <4>2. \A m \in Moves(IF wrapped THEN 0 ELSE 1, ranges) : m.kind \notin {"setflag"}
        BY DEF Moves
      <4>. QED
        BY <4>1, <4>2, SentOut
    <3>. QED
      BY <1>7, <3>1 DEF Plan, PlanOrSpin, Of
  <2>. QED
    BY <1>2, <1>4, <2>1, <2>2
<1>8. CASE CountHosts
  <2>1. con.at = "count" /\ UNCHANGED <<net, waiting>>
    BY <1>8 DEF CountHosts, mail
  <2>. QED
    BY <1>2, <1>3, <1>4, <2>1
<1>9. CASE SendFlags
  <2>1. /\ con.at = "send" /\ con'.at = "test" /\ con.step \in {"pause", "resume"}
        /\ con'.step = con.step /\ waiting' = waiting /\ begun' = begun
    BY <1>9, CountAt DEF SendFlags, history
  <2>2. net' = net \cup FlagMsgs
    BY <1>9, Zenon DEF SendFlags, FlagMsgs, Pausing
  <2>3. \A m \in FlagMsgs : Current(m)'
    BY <2>1, RoundMessages DEF Current, Pausing, Waits
  <2>4. S' \subseteq S \cup FlagMsgs
    BY <2>2, SentOut
  <2>5. Old(S)' \subseteq Old(S) /\ Old(waiting)' \subseteq Old(waiting)
    BY <1>4, <2>1, <2>3, <2>4 DEF Old
  <2>. QED
    BY <1>1, <2>5
<1>10. CASE SendLists
  <2>1. con.step = "list" /\ con.op \in {"add", "remove"} /\ waiting' = waiting
    BY <1>10, ListsAt DEF SendLists
  <2>2. net' = net \cup ListMsgs
    BY <1>10, Zenon DEF SendLists, ListMsgs
  <2>3. S' = S
    BY <2>1, <2>2, RoundMessages, SentOut
  <2>. QED
    BY <1>2, <1>4, <2>1, <2>3
<1>11. CASE Pass
  <2>1. UNCHANGED <<net, waiting>>
    BY <1>11 DEF Pass, mail
  <2>2. CASE con.step \notin {"pause", "resume"}
    BY <1>2, <1>3, <1>4, <2>1, <2>2
  <2>3. CASE con.step \in {"pause", "resume"}
    <3>1. cnt.enableCnt = 0 /\ con.at # "send"
      BY <1>11, <2>3, PassAt
    <3>2. Cardinality(S) + Cardinality(waiting) <= Room
      BY <1>0, <3>1, LossesStep DEF FlagsAddUp, ToCome, Types, NoAnswers
    <3>3. Old(S)' \subseteq S /\ Old(waiting)' \subseteq waiting
      BY <2>1 DEF Old, Of
    <3>4. /\ Cardinality(Old(S)') \in Nat /\ Cardinality(Old(S)') <= Cardinality(S)
          /\ Cardinality(Old(waiting)') \in Nat
          /\ Cardinality(Old(waiting)') <= Cardinality(waiting)
      BY <1>0, <3>3, Smaller
    <3>. QED
      BY <1>0, <3>2, <3>4 DEF OldFew
  <2>. QED
    BY <2>2, <2>3
<1>12. CASE Quiet \/ \E c \in DOMAIN NoAnswers : Return(c) \/ LoseAnswer(c)
  <2>1. SameWait /\ UNCHANGED <<begun, net, waiting>>
    BY <1>12, ReturnAt DEF Quiet, mail, LoseAnswer, SameWait
  <2>. QED
    BY <1>2, <1>3, <1>5, <2>1
<1>13. ASSUME NEW m \in net, handleSetFlag(m) PROVE OldFew'
  <2>1. /\ m \in S /\ net' = net \ {m} /\ waiting' = waiting \cup {m}
        /\ UNCHANGED <<con, begun>>
    BY <1>13 DEF handleSetFlag, Take, history, Of
  <2>2. \A n : Current(n)' <=> Current(n)
    BY <2>1 DEF Current, Pausing
  <2>3. S' = S \ {m}
    BY <2>1 DEF Of
  <2>4. CASE Current(m)
    <3>1. Old(S)' \subseteq Old(S) /\ Old(waiting)' \subseteq Old(waiting)
      BY <2>1, <2>2, <2>3, <2>4 DEF Old
    <3>. QED
      BY <1>1, <3>1
  <2>5. CASE ~Current(m)
    <3>1. /\ m \in Old(S) /\ Old(S)' = Old(S) \ {m}
          /\ Old(waiting)' = Old(waiting) \cup {m}
      BY <2>1, <2>2, <2>3, <2>5 DEF Old
    <3>2. /\ Cardinality(Old(S)') = Cardinality(Old(S)) - 1
          /\ Cardinality(Old(waiting)') <= Cardinality(Old(waiting)) + 1
          /\ Cardinality(Old(waiting)') \in Nat
      BY <1>0, <3>1, OneOff
    <3>. QED
      BY <1>0, <3>2 DEF OldFew
  <2>. QED
    BY <2>4, <2>5
<1>14. ASSUME NEW m \in net,
              actAddServer(m) \/ actRemoveServer(m) \/ MoveGone(m) \/ LoseMessage(m)
       PROVE  OldFew'
  <2>1. net' \subseteq net /\ UNCHANGED <<con, begun, waiting>>
    BY <1>14 DEF actAddServer, actRemoveServer, MoveGone, LoseMessage, history
  <2>2. \A n : Current(n)' <=> Current(n)
    BY <2>1 DEF Current, Pausing
  <2>. QED
    BY <1>2, <1>3, <2>1, <2>2
<1>15. ASSUME NEW m \in waiting, actSetEnableFlag(m) PROVE OldFew'
  <2>1. waiting' \subseteq waiting /\ UNCHANGED <<con, begun, net>>
    BY <1>15 DEF actSetEnableFlag, history
  <2>2. \A n : Current(n)' <=> Current(n)
    BY <2>1 DEF Current, Pausing
  <2>. QED
    BY <1>2, <1>3, <2>1, <2>2
<1>. QED
  BY <1>6, <1>7, <1>8, <1>9, <1>10, <1>11, <1>12, <1>13, <1>14, <1>15, Steps DEF Handle

\* As long as no removal has begun, the setflag messages there are belong to
\* the round that the console waits for.
LEMMA AllCurrent ==
  ASSUME Types, OldFew, removals = 0
  PROVE  \A m \in Of({"setflag"}) \cup waiting : Current(m)
<1> DEFINE S == Of({"setflag"})
<1>1. IsFiniteSet(S) /\ IsFiniteSet(waiting)
  BY Finite
<1>2. Old(S) \subseteq S /\ Old(waiting) \subseteq waiting
  BY DEF Old
<1>3. /\ IsFiniteSet(Old(S)) /\ Cardinality(Old(S)) \in Nat
      /\ IsFiniteSet(Old(waiting)) /\ Cardinality(Old(waiting)) \in Nat
  BY <1>1, <1>2, Smaller
<1>4. Cardinality(Old(S)) = 0 /\ Cardinality(Old(waiting)) = 0
  BY <1>3 DEF OldFew, Room
<1>5. Old(S) = {} /\ Old(waiting) = {}
  BY <1>3, <1>4, FS_EmptySet
<1>. QED
  BY <1>5 DEF Old

\* The lists change while the hosts are paused, as long as no removal has begun.
LEMMA PausedStep ==
  Types /\ Losses /\ ListsAddUp /\ FlagsAddUp /\ OldFew /\ Paused /\ [Next]_vars => Paused'
<1> SUFFICES ASSUME Types, Losses, ListsAddUp, FlagsAddUp, OldFew, Paused, [Next]_vars,
                    removals' = 0
             PROVE  Paused'
  BY DEF Paused
<1> DEFINE K == {"add", "remove"}
<1> DEFINE S == Of({"setflag"}) \cup waiting
<1> DEFINE Sending == con.step = "pause" /\ con.at \in Waits
<1> DEFINE Reached(h) == enableFlag[h] \/ Gone = 1 \/ \E m \in S : m.to = h
<1>0. /\ removals = 0
      /\ Sending => \A h \in Members : Reached(h)
      /\ con.at = "lists" => \A h \in Members : enableFlag[h]
      /\ \A m \in Of(K) : enableFlag[m.to] /\ m.kind = "add"
      /\ con.step # "list" \/ con.at = "lists" => Of(K) = {}
      /\ \A m \in S : Current(m)
      /\ Gone \in {0, 1} /\ (Gone = 1 => Gone' = 1)
  <2>1. removals = 0
    <3>1. \/ removals' = removals \/ SendLists
      BY Steps, CommandAt, ReturnAt
         DEF Plan, CountHosts, SendFlags, Pass, Quiet, Handle, handleSetFlag, actAddServer,
             actRemoveServer, MoveGone, LoseMessage, LoseAnswer, actSetEnableFlag, history
    <3>2. SendLists => removals <= removals'
      BY DEF SendLists, Types
    <3>. QED
      BY <3>1, <3>2 DEF Types
  <2>. QED
    BY <2>1, NoListsLate, AllCurrent, LossesStep DEF Paused
<1>1. ASSUME Sending' => \A h \in Members' : Reached(h)',
             con'.at = "lists" => \A h \in Members' : enableFlag'[h],
             \A m \in Of(K)' : enableFlag'[m.to] /\ m.kind = "add"
      PROVE  Paused'
  BY <1>1 DEF Paused
<1>2. ASSUME ~Sending', con'.at # "lists", Of(K)' \subseteq Of(K),
             con.step # "list" \/ enableFlag' = enableFlag
      PROVE  Paused'
  <2>. HIDE DEF Sending, Reached
  <2>. QED
    BY <1>0, <1>1, <1>2
<1>3. net' \subseteq net => Of(K)' \subseteq Of(K)
  BY DEF Of
<1>4. CASE Command
  <2>1. con = Idle /\ net' = net /\ con'.at \in {"plan", "count"}
    BY <1>4, CommandAt
  <2>. QED
    BY <1>2, <1>3, <2>1, Places DEF Waits
<1>5. CASE Plan
  <2>1. con.step = "move" /\ con'.step = "move" /\ begun > 0 /\ con'.at \in {"test", "spin"}
    BY <1>5, PlanAt DEF Types
  <2>2. Of(K)' \subseteq Of(K)
    <3>1. CASE SendPlan
      <4>1. PICK ranges \in 1 .. MaxRange, wrapped \in BOOLEAN :
              net' = net \cup Moves(IF wrapped THEN 0 ELSE 1, ranges)
        BY <3>1, Zenon DEF SendPlan, Moves
      <4>2. \A m \in Moves(IF wrapped THEN 0 ELSE 1, ranges) : m.kind \notin K
        BY DEF Moves
      <4>. QED
        BY <4>1, <4>2, SentOut
    <3>. QED
      BY <1>5, <1>3, <3>1 DEF Plan, PlanOrSpin
  <2>. QED
    BY <1>2, <2>1, <2>2
<1>6. CASE CountHosts
  <2>1. con.step \in {"pause", "resume"} /\ con'.at = "send" /\ net' = net
    BY <1>6, CountAt DEF CountHosts, mail
  <2>. QED
    BY <1>2, <1>3, <2>1 DEF Waits
<1>7. CASE SendFlags
  <2>1. /\ con.step \in {"pause", "resume"} /\ con'.at = "test" /\ con'.step = con.step
        /\ UNCHANGED <<hostList, enableFlag, waiting>>
    BY <1>7, CountAt DEF SendFlags, hosts
  <2>2. net' = net \cup FlagMsgs
    BY <1>7, Zenon DEF SendFlags, FlagMsgs, Pausing
  <2>3. Of(K)' \subseteq Of(K)
    BY <2>2, RoundMessages, SentOut
  <2>4. ASSUME NEW h \in Members' PROVE Reached(h)'
    <3>1. PICK m \in FlagMsgs : m.to = h
      BY <2>1, RoundMessages DEF Members
    <3>2. m \in S'
      BY <2>2, <3>1, RoundMessages DEF Of
    <3>. QED
      BY <3>1, <3>2
  <2>. HIDE DEF Sending, Reached
  <2>. QED
    BY <1>0, <1>1, <2>1, <2>3, <2>4
<1>8. CASE SendLists
  <2>1. /\ con.at = "lists" /\ con.op \in {"add", "remove"}
        /\ con'.at = "test" /\ con'.step = "list" /\ UNCHANGED <<hostList, enableFlag>>
    BY <1>8, ListsAt DEF SendLists, hosts
  <2>2. con.op = "add"
    BY <1>0, <1>8, <2>1 DEF SendLists
  <2>3. net' = net \cup ListMsgs
    BY <1>8, Zenon DEF SendLists, ListMsgs
  <2>4. Of(K)' \subseteq ListMsgs
    BY <1>0, <2>1, <2>3, SentOut
  <2>5. \A m \in Of(K)' : enableFlag'[m.to] /\ m.kind = "add"
    BY <1>0, <2>1, <2>2, <2>4, RoundMessages
  <2>6. ~Sending' /\ con'.at # "lists"
    BY <2>1
  <2>. HIDE DEF Sending, Reached
  <2>. QED
    BY <1>1, <2>5, <2>6
<1>9. CASE Pass
  <2>1. UNCHANGED <<net, waiting, hostList, enableFlag>> /\ con.at = "test"
    BY <1>9, PassAt DEF Pass, mail, hosts
  <2>2. CASE con.step = "pause" /\ con'.step = "list"
    <3>1. cnt.enableCnt = 0 /\ con'.at = "lists"
      BY <1>9, <2>2, PassAt, Places
    <3>2. /\ IsFiniteSet(Of({"setflag"})) /\ Cardinality(Of({"setflag"})) \in Nat
          /\ IsFiniteSet(waiting) /\ Cardinality(waiting) \in Nat
      BY Finite
    <3>3. /\ Cardinality(Of({"setflag"})) = 0 /\ Cardinality(waiting) = 0
          /\ Gone = 0
      <4>1. /\ Cardinality(Of({"setflag"})) + Cardinality(waiting) + answers.enableCnt
                 + ToCome + Gone <= 0
            /\ ToCome = 0 /\ answers.enableCnt \in Nat /\ Gone \in {0, 1}
        BY <1>0, <2>1, <3>1 DEF FlagsAddUp, Room, ToCome, Types, NoAnswers
      <4>. QED
        BY <3>2, <4>1
    <3>4. S = {}
      BY <3>2, <3>3, FS_EmptySet
    <3>5. \A h \in Members' : enableFlag'[h]
      BY <1>0, <2>1, <2>2, <3>3, <3>4 DEF Members, Waits
    <3>6. ~Sending' /\ Of(K)' = {}
      BY <1>0, <1>3, <2>1, <2>2
    <3>. HIDE DEF Sending, Reached
    <3>. QED
      BY <1>1, <3>5, <3>6
  <2>3. CASE con'.step # "list"
    <3>1. con'.at \in {"count", "idle"} /\ con'.at # "lists"
      BY <1>9, <2>3, PassAt, Places
    <3>. QED
      BY <1>2, <1>3, <2>1, <2>3, <3>1 DEF Waits
  <2>. QED
    BY <1>9, <2>2, <2>3, PassAt, Places
<1>10. CASE Quiet \/ \E c \in DOMAIN NoAnswers : Return(c) \/ LoseAnswer(c)
  <2>1. SameWait /\ UNCHANGED <<hostList, enableFlag, net, waiting>>
    BY <1>10, ReturnAt DEF Quiet, mail, LoseAnswer, SameWait, hosts
  <2>2. (Sending' => Sending) /\ (con'.at = "lists" => con.at = "lists")
    BY <2>1, WaitAt DEF Waits
  <2>3. Members' = Members /\ Of(K)' = Of(K) /\ \A h : Reached(h) => Reached(h)'
    BY <1>0, <2>1 DEF Members, Of
  <2>. HIDE DEF Sending, Reached
  <2>. QED
    BY <1>0, <1>1, <2>1, <2>2, <2>3
<1>11. ASSUME NEW m \in net, handleSetFlag(m) \/ MoveGone(m) PROVE Paused'
  <2>1. /\ UNCHANGED <<con, hostList, enableFlag>> /\ net' \subseteq net
        /\ S \subseteq S'
    BY <1>11 DEF handleSetFlag, MoveGone, Take, hosts, Of
  <2>2. Members' = Members /\ Of(K)' \subseteq Of(K) /\ \A h : Reached(h) => Reached(h)'
    BY <1>0, <1>3, <2>1 DEF Members
  <2>3. Sending' => Sending
    BY <2>1
  <2>. HIDE DEF Sending, Reached
  <2>. QED
    BY <1>0, <1>1, <2>1, <2>2, <2>3
<1>12. ASSUME NEW m \in net, actAddServer(m) \/ actRemoveServer(m) PROVE Paused'
  <2>1. /\ m \in Of(K) /\ UNCHANGED <<con, enableFlag>> /\ net' \subseteq net
    BY <1>12 DEF actAddServer, actRemoveServer, Take, Of
  <2>2. con.step = "list" /\ con.at # "lists"
    BY <1>0, <2>1
  <2>3. ~Sending' /\ con'.at # "lists" /\ Of(K)' \subseteq Of(K)
    BY <1>3, <2>1, <2>2
  <2>. HIDE DEF Sending, Reached
  <2>. QED
    BY <1>0, <1>1, <2>1, <2>3
<1>13. ASSUME NEW m \in waiting, actSetEnableFlag(m) PROVE Paused'
  <2>1. /\ UNCHANGED <<con, hostList, net>> /\ waiting' = waiting \ {m}
        /\ enableFlag' = [enableFlag EXCEPT ![m.to] = m.flag] /\ m.to \in Host
    BY <1>13 DEF actSetEnableFlag, Types, FlagMsg
  <2>2. Current(m)
    BY <1>0
  <2>3. con.step \in {"pause", "resume"} /\ con.at # "lists" /\ (m.flag = Pausing)
    BY <2>2, Places DEF Current
  <2>4. Of(K)' = {}
    BY <1>0, <2>1, <2>3 DEF Of
  <2>5. ASSUME Sending, NEW h \in Members' PROVE Reached(h)'
    <3>1. h \in Members /\ Members \subseteq Host
      BY <2>1, Finite DEF Members
    <3>2. Reached(h)
      BY <1>0, <2>5, <3>1
    <3>3. CASE h = m.to
      <4>1. m.flag
        BY <2>3, <2>5, Zenon DEF Pausing
      <4>2. enableFlag'[h]
        BY <2>1, <3>3, <4>1, Zenon DEF Types
      <4>. QED
        BY <4>2
    <3>4. CASE h # m.to
      <4>1. enableFlag'[h] = enableFlag[h]
        BY <2>1, <3>1, <3>4 DEF Types
      <4>2. \A n \in S : n.to = h => n \in S'
        BY <2>1, <3>4 DEF Of
      <4>. QED
        BY <1>0, <3>2, <4>1, <4>2
    <3>. QED
      BY <3>3, <3>4
  <2>6. (Sending' => Sending) /\ con'.at # "lists"
    BY <2>1, <2>3
  <2>. HIDE DEF Sending, Reached
  <2>. QED
    BY <1>1, <2>4, <2>5, <2>6
<1>14. ASSUME NEW m \in net, LoseMessage(m) PROVE Paused'
  <2>1. /\ UNCHANGED <<con, hostList, enableFlag, waiting>> /\ net' = net \ {m}
        /\ Lose(IF m.kind = "setflag" THEN "enableCnt" ELSE "serverCnt")
    BY <1>14 DEF LoseMessage, hosts
  <2>2. \A h : Reached(h) => Reached(h)'
    <3>1. CASE m.kind = "setflag"
      <4>1. Gone' = 1
        BY <2>1, <3>1 DEF Lose, Gone
      <4>. QED
        BY <4>1
    <3>2. CASE m.kind # "setflag"
      <4>1. S' = S
        BY <2>1, <3>2, TakenOff
      <4>. QED
        BY <1>0, <2>1, <4>1
    <3>. QED
      BY <3>1, <3>2
  <2>3. Members' = Members /\ Of(K)' \subseteq Of(K) /\ (Sending' => Sending)
    BY <1>3, <2>1 DEF Members
  <2>. HIDE DEF Sending, Reached
  <2>. QED
    BY <1>0, <1>1, <2>1, <2>2, <2>3
<1>. QED
  BY <1>4, <1>5, <1>6, <1>7, <1>8, <1>9, <1>10, <1>11, <1>12, <1>13, <1>14, Steps
     DEF Handle

-----------------------------------------------------------------------------
(* The theorems.                                                           *)

\* Nothing is on its way at first.
LEMMA InvInit == Init => MembershipInv
<1> SUFFICES ASSUME Init PROVE MembershipInv
  OBVIOUS
<1>1. PICK C \in Configs : hostList = [h \in Host |-> C]
  BY DEF Init
<1>2. Primary \in Host /\ C \subseteq Host
  BY MembershipAssumption
<1>3. /\ con.op = "none" /\ con.step = "idle" /\ con.at = "idle" /\ con = Idle
  BY DEF Init, Idle
<1>4. cnt \in [DOMAIN NoAnswers -> Int] /\ answers \in [DOMAIN NoAnswers -> Nat]
  BY DEF Init, NoAnswers
<1>5. IsFiniteSet(net) /\ IsFiniteSet(waiting)
  BY FS_EmptySet DEF Init
<1>6. Types
  BY <1>1, <1>2, <1>3, <1>4, <1>5 DEF Types, Console0, Init
<1>7. /\ \A K : Of(K) = {} /\ Old(Of(K)) = {}
      /\ Late = {} /\ waiting = {} /\ Old(waiting) = {} /\ Cardinality({}) = 0
  BY FS_EmptySet DEF Init, Of, Late, Old
<1>8. MovesAddUp /\ ListsAddUp
  BY <1>7 DEF Init, MovesAddUp, ListsAddUp, NoAnswers
<1>9. Untold = 0 /\ Sent = 0 /\ Room = 0 /\ ToCome = 0 /\ Gone = 0
  BY <1>3, <1>7 DEF Untold, Sent, Room, ToCome, Gone, Init
<1>10. FlagsAddUp
  BY <1>7, <1>9 DEF FlagsAddUp, Init, NoAnswers
<1>11. OldFew
  BY <1>7, <1>9 DEF OldFew
<1>12. Paused
  BY <1>3, <1>7 DEF Paused, Waits
<1>13. Losses
  BY DEF Losses, Init
<1>. QED
  BY <1>6, <1>8, <1>10, <1>11, <1>12, <1>13 DEF MembershipInv

\* The invariant holds of every change of membership, whatever the hosts, the
\* commands and the plans: messages, answers and counters add up, messages of
\* earlier rounds are few, and lists change at paused hosts.
THEOREM MembershipCorrect == Spec => []MembershipInv
<1>1. MembershipInv /\ [Next]_vars => MembershipInv'
  BY TypesStep, LossesStep, MovesStep, ListsStep, FlagsStep, OldFewStep, PausedStep
     DEF MembershipInv
<1>. QED
  BY InvInit, <1>1, PTL DEF Spec

\* No more can be sent by strays than commands were given but for removals.
LEMMA RoomIsStrays ==
  ASSUME Types, 0 <= Sent
  PROVE  Room \in Nat /\ Strays \in Int /\ Room <= Strays
<1>1. /\ begun \in Nat /\ removals \in Nat /\ Untold \in {0, 1} /\ Cardinality(Late) \in Nat
  BY Finite DEF Types, Untold
<1>. QED
  BY <1>1 DEF Room, Strays, Sent

\* The state has its type in every state of every execution; above all, no
\* counter falls below zero but by the answers that nobody counted on.
THEOREM TypeCorrect == Spec => []TypeOK
<1>1. MembershipInv => TypeOK
  <2> SUFFICES ASSUME MembershipInv PROVE TypeOK
    OBVIOUS
  <2>1. Types /\ Losses /\ MovesAddUp /\ ListsAddUp /\ FlagsAddUp
    BY DEF MembershipInv
  <2>2. /\ con.op \in Ops \cup {"none"} /\ con.host \in Host
        /\ con.step \in DOMAIN CounterOf \cup {"idle"}
    BY <2>1 DEF Types, Console0, Idle, CounterOf
  <2>3. /\ Cardinality(Of({"move"})) \in Nat /\ Cardinality(Of({"add", "remove"})) \in Nat
        /\ Cardinality(Of({"setflag"})) \in Nat /\ Cardinality(waiting) \in Nat
        /\ ToCome \in Nat /\ cnt.moveCnt \in Int /\ cnt.serverCnt \in Int
        /\ cnt.enableCnt \in Int /\ answers.moveCnt \in Nat /\ answers.serverCnt \in Nat
        /\ answers.enableCnt \in Nat /\ Gone \in Nat /\ wraps \in Nat /\ removals \in Nat
    BY <2>1, Finite DEF Types, ToCome, Gone, NoAnswers
  <2>4. cnt.moveCnt >= - wraps
    BY <2>1, <2>3 DEF MovesAddUp
  <2>5. cnt.serverCnt >= - removals
    BY <2>1, <2>3 DEF ListsAddUp
  <2>6. cnt.enableCnt >= - Strays
    BY <2>1, <2>3, RoomIsStrays DEF FlagsAddUp
  <2>. QED
    BY <2>1, <2>2, <2>4, <2>5, <2>6 DEF TypeOK, Types, Losses
<1>. QED
  BY MembershipCorrect, <1>1, PTL

\* A change goes on from its list step when every host but one for each
\* removal so far has changed its list, whatever answers are still coming.
THEOREM ListsToldCorrect == Spec => []ListsTold
<1>1. MembershipInv => ListsTold
  <2> SUFFICES ASSUME MembershipInv, con.step # "list"
               PROVE  Cardinality(Of({"add", "remove"})) <= removals
    BY DEF ListsTold
  <2>1. Types /\ ListsAddUp
    BY DEF MembershipInv
  <2>2. /\ Cardinality(Of({"add", "remove"})) \in Nat /\ cnt.serverCnt \in Int
        /\ answers.serverCnt \in Nat /\ removals \in Nat
    BY <2>1, Finite DEF Types, NoAnswers
  <2>. QED
    BY <2>1, <2>2 DEF ListsAddUp
<1>. QED
  BY MembershipCorrect, <1>1, PTL

\* A change goes on from the moves when every range but one for each that was
\* answered twice has moved.
THEOREM MovesAwaitedCorrect == Spec => []MovesAwaited
<1>1. MembershipInv => MovesAwaited
  <2> SUFFICES ASSUME MembershipInv, con.step # "move"
               PROVE  Cardinality(Of({"move"})) <= wraps
    BY DEF MovesAwaited
  <2>1. Types /\ MovesAddUp
    BY DEF MembershipInv
  <2>2. /\ Cardinality(Of({"move"})) \in Nat /\ cnt.moveCnt \in Int
        /\ answers.moveCnt \in Nat /\ wraps \in Nat
    BY <2>1, Finite DEF Types, NoAnswers
  <2>. QED
    BY <2>1, <2>2 DEF MovesAddUp
<1>. QED
  BY MembershipCorrect, <1>1, PTL

\* Of the handler threads of a host, one waits in actSetEnableFlag for the
\* round of now, and one for each stray message at most.
THEOREM FewWaitCorrect == Spec => []FewWait
<1>1. MembershipInv => FewWait
  <2> SUFFICES ASSUME MembershipInv, NEW h \in Host
               PROVE  Cardinality({m \in waiting : m.to = h}) <= 1 + Strays
    BY DEF FewWait
  <2> DEFINE W == {m \in waiting : m.to = h}
  <2> DEFINE New == {m \in W : Current(m)}
  <2>1. Types /\ FlagsAddUp /\ OldFew
    BY DEF MembershipInv
  <2>2. IsFiniteSet(waiting) /\ IsFiniteSet(Of({"setflag"}))
    BY <2>1, Finite
  <2>3. /\ IsFiniteSet(Old(waiting)) /\ Cardinality(Old(waiting)) \in Nat
        /\ Cardinality(Old(Of({"setflag"}))) \in Nat
    <3>1. Old(waiting) \subseteq waiting /\ Old(Of({"setflag"})) \subseteq Of({"setflag"})
      BY DEF Old
    <3>. QED
      BY <2>2, <3>1, Smaller
  <2>4. \A m \in New : m \in FlagMsg /\ m.to = h /\ m.id = begun /\ m.flag = Pausing
                         /\ m.kind = "setflag"
    BY <2>1 DEF Types, Current, FlagMsg
  <2>5. \A m, n \in New : m = n
    BY <2>4 DEF FlagMsg
  <2>6. IsFiniteSet({h}) /\ Cardinality({h}) = 1
    BY FS_Singleton
  <2>7. IsFiniteSet(New) /\ Cardinality(New) <= 1
    <3>1. \A m \in New : m.to \in {h}
      OBVIOUS
    <3>. HIDE DEF New
    <3>. QED
      BY <2>5, <2>6, <3>1, OnePerHost
  <2>8. W \subseteq Old(waiting) \cup New
    BY DEF Old
  <2>. HIDE DEF New, W
  <2>9. /\ Cardinality(W) <= Cardinality(Old(waiting)) + Cardinality(New)
        /\ Cardinality(W) \in Nat /\ Cardinality(New) \in Nat
    BY <2>3, <2>7, <2>8, Within
  <2>10. Room \in Nat /\ Strays \in Int /\ Room <= Strays
    BY <2>1, RoomIsStrays DEF FlagsAddUp
  <2>11. Cardinality(W) <= 1 + Strays
    BY <2>1, <2>3, <2>7, <2>9, <2>10 DEF OldFew
  <2>. QED
    BY <2>11 DEF W
<1>. QED
  BY MembershipCorrect, <1>1, PTL

\* A host refuses calls when it changes its list in the course of a change, as
\* long as no removal has begun.
THEOREM ListsPausedCorrect == Spec => ListsChangePaused
<1> DEFINE Kept == con # Idle /\ removals = 0 =>
                     \A h \in Host : hostList[h]' # hostList[h] => enableFlag[h]
<1>1. MembershipInv /\ [Next]_vars => [Kept]_hostList
  <2> SUFFICES ASSUME MembershipInv, [Next]_vars, con # Idle, removals = 0, NEW h \in Host,
                      hostList[h]' # hostList[h]
               PROVE  enableFlag[h]
    OBVIOUS
  <2>1. Types /\ Paused
    BY DEF MembershipInv
  <2>2. PICK m \in net : actAddServer(m) \/ actRemoveServer(m)
    <3>1. ~Command
      BY <2>1, CommandAt
    <3>2. hostList' # hostList
      OBVIOUS
    <3>. QED
      BY <2>1, <3>1, <3>2, Steps, ReturnAt
         DEF Plan, CountHosts, SendFlags, SendLists, Pass, Quiet, Handle, handleSetFlag,
             MoveGone, LoseMessage, LoseAnswer, actSetEnableFlag, hosts
  <2>3. m \in Of({"add", "remove"}) /\ m \in ListMsg
    BY <2>1, <2>2 DEF actAddServer, actRemoveServer, Take, Of, Types, MoveMsg, FlagMsg,
                      ListMsg
  <2>4. enableFlag[m.to]
    BY <2>1, <2>3 DEF Paused
  <2>5. m.to = h
    BY <2>1, <2>2, <2>3 DEF actAddServer, actRemoveServer, Types, ListMsg
  <2>. QED
    BY <2>4, <2>5
<1>. QED
  BY MembershipCorrect, <1>1, PTL DEF Spec, ListsChangePaused
=============================================================================
