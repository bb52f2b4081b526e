\* The wiring of build_runtime_service on PostgreSQL.
CHECK_DEADLOCK FALSE
SPECIFICATION Spec
CONSTANTS
  r1 = r1
  r2 = r2
  f1 = f1
  f2 = f2
  n1 = n1
  k1 = k1
  k2 = k2
  None = None
  Backends = {"postgres"}
  Replicas = {r1, r2}
  FrameIds = {f1, f2}
  Nonces = {n1}
  TrustKeys = {k1, k2}
  Signer = k1
  ExecutionOf <- MCExecutionOf
  MaxRequests = 4
  MaxFaults = 1
INVARIANT
  ClaimsAreTransactional
