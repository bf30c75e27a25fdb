------------------------------- MODULE KeyMap -------------------------------
(***************************************************************************)
(* What HashCache promises: a map from keys to values.  get answers with   *)
(* the value of the last put, and the empty string for a key that has      *)
(* none.  A restart of the program may forget keys, but changes no value.  *)
(***************************************************************************)
EXTENDS Integers

CONSTANTS Key, Value, Empty

VARIABLES
  stored,   \* stored[k]: the value of k
  answer,   \* what the last get returned
  session   \* counts the restarts

vars == <<stored, answer, session>>

Init ==
  /\ stored = [k \in Key |-> Empty]
  /\ answer = Empty
  /\ session = 1

Put(k, v) ==
  /\ stored' = [stored EXCEPT ![k] = v]
  /\ UNCHANGED <<answer, session>>

Get(k) ==
  /\ answer' = stored[k]
  /\ UNCHANGED <<stored, session>>

Restart ==
  /\ session' = session + 1
  /\ \E lost \in SUBSET Key :
       stored' = [k \in Key |-> IF k \in lost THEN Empty ELSE stored[k]]
  /\ UNCHANGED answer

Next ==
  \/ \E k \in Key : Get(k) \/ \E v \in Value : Put(k, v)
  \/ Restart

Spec == Init /\ [][Next]_vars
=============================================================================
