---------------------------- MODULE MCMembership ----------------------------
(***************************************************************************)
(* Small instances of Membership: the primary p and one more host, which   *)
(* is in the system or not.  A key has one replica.                        *)
(***************************************************************************)
EXTENDS Membership, TLC

CONSTANTS p, a

OneOrTwo == {{p}, {p, a}}
=============================================================================
