---------------------------- MODULE MCReplayStore -----------------------------
(* Instances of ReplayStore for TLC.                                       *)
EXTENDS ReplayStore

CONSTANTS r1, r2, f1, f2, n1, k1, k2

(* f1 is the execution frame of n1.                                        *)
MCExecutionOf == [f \in FrameIds |-> IF f = f1 THEN n1 ELSE None]
===============================================================================
