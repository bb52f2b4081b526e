\* An administrator and a user without roles, in every deployment.
SPECIFICATION Spec
CHECK_DEADLOCK FALSE
CONSTANTS
  ann = ann
  bob = bob
  None = None
  Threads = {t1, t2}
  Deployments = {"local", "repository", "api", "shared"}
  Subjects = {ann, bob}
  Claims <- MCClaims
  Logins = {l1, l2}
  Tokens = {s1, s2}
  SigningKeys = {k1, k2}
  OperatorKeys = {o1}
  MaxEntries = 1
  StateTTL = 1
  MaxSession = 2
  CacheTTL = 1
  FetchTime = 1
  MaxTime = 2
  MaxRequests <- MCMaxRequests
  MaxRestarts = 1
INVARIANTS
  OneSessionPerLogin
  WithdrawnIsRefused
  AssignmentsGrounded
  WorkAttributed
