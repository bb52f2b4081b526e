--------------------------- MODULE MCPolicyRegistry ---------------------------
(* Instances of PolicyRegistry for TLC.                                    *)
EXTENDS PolicyRegistry, TLC

CONSTANTS k1, k2, a, p1, p2
===============================================================================
