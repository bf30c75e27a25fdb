------------------------------ MODULE Channel -------------------------------
(***************************************************************************)
(* What the network promises to the other modules: a message that is sent  *)
(* is on its way until it is handled, once, or lost; messages overtake one *)
(* another.  Only some messages may be lost.                               *)
(***************************************************************************)
CONSTANTS
  Msg,    \* messages
  Lossy   \* those that may be lost

VARIABLES
  sent,    \* the messages that were sent
  onWay,   \* those of them that are neither handled nor lost
  handled  \* those that were handled

vars == <<sent, onWay, handled>>

Init == sent = {} /\ onWay = {} /\ handled = {}

Send(m) ==
  /\ m \notin sent
  /\ sent' = sent \cup {m} /\ onWay' = onWay \cup {m}
  /\ UNCHANGED handled

Handle(m) ==
  /\ m \in onWay
  /\ onWay' = onWay \ {m} /\ handled' = handled \cup {m}
  /\ UNCHANGED sent

Lose(m) ==
  /\ m \in onWay \cap Lossy
  /\ onWay' = onWay \ {m}
  /\ UNCHANGED <<sent, handled>>

Next == \E m \in Msg : Send(m) \/ Handle(m) \/ Lose(m)

Spec == Init /\ [][Next]_vars
=============================================================================
