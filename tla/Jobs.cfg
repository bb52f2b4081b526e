\* Both stores; leases, stalls, crashes, two jobs that carry the same artifact;
\* workers that live keep working and time passes.
SPECIFICATION FairSpec
CONSTANTS
  None = None
  Jobs = {j1, j2}
  Artifacts = {a1}
  Workers = {w1, w2}
  MaxAttempts = 3
  MaxCrashes = 2
  Stores = {"postgres", "sqlite"}
INVARIANTS SandboxAtMostOnce SucceededRan
PROPERTIES JobsSettle
CHECK_DEADLOCK FALSE
