\* Two processes share the log; deliveries race, keys are revoked, a process
\* crashes.  A second nonce is there for the compensation of a failed action,
\* issued by whichever process has the failure in its copy of the log.
SPECIFICATION FairSpec
CONSTANTS
  p1 = p1
  p2 = p2
  t1 = t1
  t2 = t2
  r1 = r1
  r2 = r2
  None = None
  Nonces = {n1, n2}
  FirstNonces = {n1}
  Requests = {r1, r2}
  Handlers = {r1, r2}
  PolicyIds = {"files"}
  Contents <- MCContents
  Keys = {"k"}
  Procs = {p1, p2}
  Threads = {t1, t2}
  ProcOf <- Replicas
  Ttls = {1}
  MaxTime = 1
  MaxCrashes = 1
  DurableClaims = TRUE
  BootstrapTrust = TRUE
INVARIANTS TypeOK AtMostOnce RanAsAuthorized AuditConsistent NoSilentRun CompensationSound
PROPERTIES ConsumptionIsForever ClaimResolves ImplementsLifecycle
