\* Two API processes on one policy directory, one policy with two versions,
\* signed with the keys of the key lifecycle.
CHECK_DEADLOCK FALSE
SPECIFICATION Spec
CONSTANTS
  k1 = k1
  k2 = k2
  a = a
  p1 = p1
  p2 = p2
  None = None
  Keys = {k1, k2}
  InitialKeys = {k1}
  MaxRequests = 5
  Versions = {1, 2}
  Contents = {a}
  Processes = {p1, p2}
  Admin = p1
  MaxRevision = 2
  MaxFaults = 1
INVARIANTS
  RevokedIsUntrusted
  ListedIsTrusted
  ServedIsUsable
  SelectionCoherent
  RevocationStands
PROPERTIES
  RevokedIsFinal
