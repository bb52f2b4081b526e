\* The ranking of the groups of inputs against the mesh's own description.
CHECK_DEADLOCK FALSE
SPECIFICATION DecisionsSpec
CONSTANTS
  s1 = s1
  s2 = s2
  s3 = s3
  allow = allow
  allow_other = allow_other
  deny = deny
  act = act
  other = other
  prod = prod
  dev = dev
  t1 = t1
  t2 = t2
  ann = ann
  bob = bob
  worker = worker
  Unset = Unset
  Sources = {s1, s2, s3}
  Verdicts = {allow, allow_other, deny}
  Allowing = {allow, allow_other}
  Actions = {act, other}
  Environments = {prod, dev}
  Tenants = {t1, t2}
  Approvers = {ann, bob}
  InitialSources = {s1, s2}
  InitialTrusted = {s2, s3}
  Verifying = {TRUE, FALSE}
  TrustedApprovers = {ann}
  UniqueFrames = TRUE
  MaxCalls = 2
  MaxChanges = 1
  Offers <- MCOffers
  Principals <- MCPrincipals
  Deployment <- MCDeployment
  Policy <- MCPolicy
INVARIANT
  RankedByWeight
