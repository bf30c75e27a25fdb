----------------------------- MODULE MCNetwork ------------------------------
(***************************************************************************)
(* A small instance of Network: two hosts, one of them down, and the other *)
(* with two handler threads.                                               *)
(***************************************************************************)
EXTENDS Network, TLC

CONSTANTS up, down, t1, t2, m1, m2, m3, m4

MCElem == {m1, m2, m3, m4, Garbled}
MCTo == (m1 :> up) @@ (m2 :> up) @@ (m3 :> up) @@ (m4 :> down)
MCSize == (m1 :> "small") @@ (m2 :> "long") @@ (m3 :> "oversize")
            @@ (m4 :> "small")
MCHandlersOf == (up :> {t1, t2}) @@ (down :> {})
=============================================================================
