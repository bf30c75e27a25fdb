------------------------------ MODULE MCDriver ------------------------------
(***************************************************************************)
(* Small instances of Driver: one coordinator n0 without any data, three   *)
(* or two replicas of every key, worker threads t1 and t2 of n0.           *)
(***************************************************************************)
EXTENDS Driver, TLC

CONSTANTS n0, n1, n2, n3, t1, t2, k1, v1, v2

MCNode == {n0, n1, n2, n3}
MCNode2 == {n0, n1, n2}
MCHosts == [k \in Key |-> {n1, n2, n3}]
MCHosts2 == [k \in Key |-> {n1, n2}]
MCHome == [t \in Thread |-> n0]
Replicas == Permutations({n1, n2, n3})

\* Bound on the messages in flight: an operation starts with three, and a
\* quorum of two leaves one.
AtMost4InFlight == Cardinality(reqs) + Cardinality(rets) <= 4
=============================================================================
