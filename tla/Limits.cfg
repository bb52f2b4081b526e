\* Two threads with stale clock readings, a full client table, a full cache.
SPECIFICATION LimitsSpec
CONSTANTS
  Threads = {t1, t2}
  Clients = {c1, c2}
  k1 = k1
  k2 = k2
  Tokens = {k1, k2}
  Expiry <- MCExpiry
  TokenStores = {"memory", "database"}
  Limit = 2
  Window = 2
  MaxClients = 1
  MaxEntries = 1
  MaxTime = 3
  MaxRequests = 4
  MaxRestarts = 1
  Absent = Absent
INVARIANTS
  RateWindow
  OnceWhileValid
PROPERTIES
  RefusedForCause
CHECK_DEADLOCK FALSE
