\* Two organizations that exchange two policies, in agreement and in conflict.
CHECK_DEADLOCK FALSE
SPECIFICATION Spec
CONSTANTS
  east = east
  west = west
  p = p
  q = q
  x = x
  y = y
  ke = ke
  kw = kw
  None = None
  Orgs = {east, west}
  Policies = {p, q}
  Contents = {x, y}
  Keys = {ke, kw}
  OrgKey <- MCOrgKey
  Local <- MCLocal
  MaxVersion = 2
  MaxSent = 2
  MaxTime = 1
  MaxAge = 0
  MaxFaults = 2
  MaxRevoked = 1
INVARIANTS
  AdoptedIsDurable
  ReplayImportsNothing
PROPERTIES
  ImmutableById
