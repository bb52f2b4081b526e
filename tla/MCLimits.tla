------------------------------- MODULE MCLimits -------------------------------
EXTENDS Limits, TLC

CONSTANTS k1, k2

MCExpiry == (k1 :> 1) @@ (k2 :> 3)
=============================================================================
