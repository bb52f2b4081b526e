\* Two processes on one store, on each backend.
CHECK_DEADLOCK FALSE
SPECIFICATION Spec
CONSTANTS
  r1 = r1
  r2 = r2
  f1 = f1
  f2 = f2
  n1 = n1
  k1 = k1
  k2 = k2
  None = None
  Backends = {"postgres", "sqlite", "jsonl"}
  Replicas = {r1, r2}
  FrameIds = {f1, f2}
  Nonces = {n1}
  TrustKeys = {k1, k2}
  Signer = k1
  ExecutionOf <- MCExecutionOf
  MaxRequests = 3
  MaxFaults = 2
INVARIANTS
  ChainLinear
  NoSilentLoss
  GrantedOnce
PROPERTIES
  OperationsEnd
