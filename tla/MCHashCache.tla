---------------------------- MODULE MCHashCache -----------------------------
(***************************************************************************)
(* Small instances of HashCache: two pages of two nodes.                   *)
(***************************************************************************)
EXTENDS HashCache, TLC

CONSTANTS k1, k2, k3, k4, v1, v2, p1, p2

\* What comes after the end of sound is not followed.
Sound == sound

Alike == Permutations({k1, k2, k3, k4}) \cup Permutations({v1, v2})
=============================================================================
