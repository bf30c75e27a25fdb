------------------------------ MODULE MCWorker ------------------------------
(***************************************************************************)
(* Small instances of Worker: two worker threads, a few calls.             *)
(***************************************************************************)
EXTENDS Worker

CONSTANTS t1, t2
=============================================================================
