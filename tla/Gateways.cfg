\* Calls of three routes while tools and policies are registered.
SPECIFICATION Spec
CONSTANTS
  None = None
  read = read
  pay = pay
  bad = bad
  approver = approver
  issuer = issuer
  a1 = a1
  r1 = r1
  r2 = r2
  Tools = {read, pay, bad}
  ToolApprovals <- MCToolApprovals
  Malformed = {bad}
  Policies <- MCPolicies
  ExtraActions = {pay}
  Counts = {1}
  Requests <- MCRequests
  LangChainTool = pay
  LangChainPolicy <- Lax
  Artifacts <- MCArtifacts
  Delegations <- MCDelegations
  Recipients = {r1, r2, r3}
  Keys = {approver, issuer}
  Issuer = issuer
  Approvers = {approver}
  Threads = {t1, t2}
SYMMETRY ThreadSymmetry
INVARIANTS ToolRunsGoverned DelegatedOnceToNamed RegistrationTakesEffect
CHECK_DEADLOCK FALSE
