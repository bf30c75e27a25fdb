----------------------------- MODULE MCHashRing -----------------------------
(***************************************************************************)
(* Small instances of HashRing: four hosts on a ring of a few hashes, each *)
(* at one or two of them in every possible way, and up to two changes.     *)
(***************************************************************************)
EXTENDS HashRing

CONSTANTS h1, h2, h3, h4

Apart(f) == \A g, h \in Host : g # h => f[g] \cap f[h] = {}
Places(S, copies) ==
  {f \in [Host -> SUBSET S] : \A h \in Host : Cardinality(f[h]) \in copies}

\* The hosts listed first in the order in which they stand on the ring:
\* another order only renames them.
InOrder(f) == Min(f[h1]) < Min(f[h2]) /\ Min(f[h2]) < Min(f[h3])

\* One virtual node each, or two for one of them.
OneEach == {f \in Places(1 .. 5, {1}) : Apart(f)}
OneOrTwo == {f \in Places(1 .. 5, {1, 2}) : Apart(f) /\ InOrder(f)}

\* Hosts may share virtual nodes, but each has one of its own; a host may
\* stand at hash 0.
Colliding ==
  {f \in Places(1 .. 5, {1, 2}) :
     \A h \in Host : \E p \in f[h] : \A g \in Host \ {h} : p \notin f[g]}
AtZero == {f \in Places(0 .. 4, {1}) : Apart(f)}

\* Hosts that have joined, left or stayed: three at first, or all four.
ThreeHosts == {<<h1, h2, h3>>}
FourHosts == {<<h1, h2, h3, h4>>}
=============================================================================
