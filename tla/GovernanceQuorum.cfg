\* A quorum of two of three keys, keys revoked and added again, two contents
\* that compete for one proposal id, a restart.
SPECIFICATION Spec
CONSTANTS
  None = None
  KeyIds = {k1, k2, k3}
  PublicKeys = {pk}
  InitialTrust <- MCTrust
  ProposalIds = {proposal}
  PolicyIds = {policy}
  Contents = {c1, c2}
  Release <- MCRelease
  Required = 2
  Separation = TRUE
  Threads = {t1, t2}
  MaxRestarts = 1
SYMMETRY MCSymmetry
INVARIANTS RegisteredHadQuorum
