---------------------------- MODULE MCGovernance ----------------------------
(* Small instances of Governance: every key is trusted with one public key, *)
(* and the release has no policy of its own.                                *)
EXTENDS Governance, TLC

MCTrust == [k \in KeyIds |-> CHOOSE p \in PublicKeys : TRUE]

MCRelease == [p \in PolicyIds |-> None]

MCSymmetry == Permutations(Threads) \cup Permutations(KeyIds)
                 \cup Permutations(Contents)
=============================================================================
