------------------------------ MODULE MCBarrier ------------------------------
(* Small instances of Barrier: two processes with a thread each. *)
EXTENDS Barrier, TLC

CONSTANTS p1, p2, t1, t2, r1, r2

(* One thread in each of two processes. *)
Replicas == (t1 :> p1) @@ (t2 :> p2)

(* The policy allows r1, or nothing. *)
MCContents == {{r1}, {}}
=============================================================================
