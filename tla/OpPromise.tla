------------------------------ MODULE OpPromise ------------------------------
(***************************************************************************)
(* What THKVS promises about one put or get: it is opened once, a host     *)
(* answers it once at most, by serving it with one or two of its blocks,   *)
(* by refusing it, or both, and it ends at most once: successful if a      *)
(* quorum of blocks served it, failed if the hosts that refused it leave   *)
(* no quorum.  How replies are counted is left to Driver.tla.              *)
(***************************************************************************)
EXTENDS Integers, FiniteSets

CONSTANTS Op, Node, Block, N, R, W

VARIABLES
  quorum,   \* quorum[o]: the quorum o needs, 0 before it is opened
  phase,    \* phase[o]: unused, open, succeeded or failed
  served,   \* served[o]: the blocks that served o, as <<host, block>>
  refused   \* refused[o]: the hosts that refused o

vars == <<quorum, phase, served, refused>>

Init ==
  /\ quorum = [o \in Op |-> 0]
  /\ phase = [o \in Op |-> "unused"]
  /\ served = [o \in Op |-> {}]
  /\ refused = [o \in Op |-> {}]

Open(o) ==
  /\ phase[o] = "unused"
  /\ phase' = [phase EXCEPT ![o] = "open"]
  /\ \E q \in {R, W} : quorum' = [quorum EXCEPT ![o] = q]
  /\ UNCHANGED <<served, refused>>

\* A host may answer an operation that has ended already.
Unanswered(o, n) ==
  /\ phase[o] # "unused"
  /\ n \notin refused[o]
  /\ \A b \in Block : <<n, b>> \notin served[o]

\* The blocks S of n serve o.
Serve(o, n, S) ==
  /\ Unanswered(o, n)
  /\ S # {}
  /\ served' = [served EXCEPT ![o] = @ \cup ({n} \X S)]
  /\ UNCHANGED <<quorum, phase, refused>>

\* The host n refuses o, after the blocks S have served it: not all of them.
Refuse(o, n, S) ==
  /\ Unanswered(o, n)
  /\ S # Block
  /\ served' = [served EXCEPT ![o] = @ \cup ({n} \X S)]
  /\ refused' = [refused EXCEPT ![o] = @ \cup {n}]
  /\ UNCHANGED <<quorum, phase>>

Succeed(o) ==
  /\ phase[o] = "open"
  /\ Cardinality(served[o]) >= quorum[o]
  /\ phase' = [phase EXCEPT ![o] = "succeeded"]
  /\ UNCHANGED <<quorum, served, refused>>

Fail(o) ==
  /\ phase[o] = "open"
  /\ Cardinality(refused[o]) > N - quorum[o]
  /\ phase' = [phase EXCEPT ![o] = "failed"]
  /\ UNCHANGED <<quorum, served, refused>>

Next ==
  \E o \in Op :
    \/ Open(o) \/ Succeed(o) \/ Fail(o)
    \/ \E n \in Node, S \in SUBSET Block : Serve(o, n, S) \/ Refuse(o, n, S)

Spec == Init /\ [][Next]_vars
=============================================================================
