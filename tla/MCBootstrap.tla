---------------------------- MODULE MCBootstrap ----------------------------
(* Two calls of one thread, and one of another process.                     *)
EXTENDS Bootstrap, TLC

CONSTANTS c1, c2, c3, t1, t2, p, q

MCThreadOf == (c1 :> t1) @@ (c2 :> t1) @@ (c3 :> t2)
MCProcessOf == (t1 :> p) @@ (t2 :> q)
=============================================================================
