---------------------------- MODULE GatewaysProofs ----------------------------
(***************************************************************************)
(* Proofs about the agent gateways, for every number of tools, policies,   *)
(* artifacts, agents and threads.                                          *)
(***************************************************************************)
EXTENDS Gateways, FiniteSetTheorems, TLAPS

(* A call carries a request and the policy it was issued under, a tool     *)
(* call the tool, and a delegated task the agent that has it and the       *)
(* artifact.                                                               *)
Calls ==
  {Idle}
  \cup [step : {"issued", "validated"}, route : {"mcp", "langchain"},
        tool : Tools, request : Request, policy : Policy]
  \cup [step : {"issued", "validated"}, route : {"a2a"}, at : Recipients,
        artifact : DOMAIN Artifacts, request : Request, policy : Policy]

Typed ==
  /\ handlers \subseteq Tools
  /\ tool_defs \subseteq handlers
  /\ registry \in Policy /\ boundary \in Policy
  /\ service \in Policies \cup {None} /\ file \in Policies \cup {None}
  /\ used \subseteq DOMAIN Artifacts
  /\ call \in [Threads -> Calls]
  /\ delegated \in [Recipients -> [DOMAIN Artifacts -> Nat]]

(* Where register_tool is decides how far the definitions and the policies *)
(* have come.                                                              *)
RegisteringInv ==
  \/ /\ registering.step = "idle"
     /\ tool_defs = handlers
     /\ handlers # {} /\ WellFormed => boundary = GatewayPolicy
  \/ /\ registering.step = "defining"
     /\ registering.tool \in handlers
     /\ handlers = tool_defs \cup {registering.tool}
  \/ /\ registering.step = "rebuilding"
     /\ tool_defs = handlers
  \/ /\ registering.step = "wiring"
     /\ tool_defs = handlers
     /\ WellFormed
     /\ registry = GatewayPolicy

(* A policy that asks of defined tools, and of no others, what their       *)
(* definitions ask: every policy that the gateway ever built, but for the  *)
(* one it was created with.                                                *)
Honest(p) == \/ p = NoTools
             \/ \A x \in p.allowed_actions :
                  /\ x \in tool_defs \ Malformed
                  /\ p.required_approvals[x] = ToolApprovals[x]

(* What the policy of a call admits of its request, whoever is trusted. *)
Approved(c) == /\ c.request.action \in c.policy.allowed_actions
               /\ _approval_count(c.request, Approvers) >=
                    c.policy.required_approvals[c.request.action]

Genuine(r, a) == \E d \in Delegations :
                   /\ d.artifact = a /\ d.recipient = r
                   /\ d.signer = d.delegator
                   /\ d.action = Artifacts[a].request.action

CallInv(t) ==
  LET c == call[t]
  IN  /\ c # Idle /\ c.route = "mcp" => Honest(c.policy) /\ c.tool \in handlers
      /\ c # Idle /\ c.route = "a2a" => Genuine(c.at, c.artifact)
      /\ c.step = "validated" => Approved(c)
      /\ c.step = "validated" /\ c.route # "mcp" =>
           service # None /\ service = c.policy

DelegatedInv ==
  /\ DelegatedOnceToNamed
  /\ \A a \in DOMAIN Artifacts : a \notin used =>
       \A r \in Recipients : delegated[r][a] = 0

GInv == /\ Typed
        /\ RegisteringInv
        /\ Honest(registry) /\ Honest(boundary)
        /\ \A t \in Threads : CallInv(t)
        /\ DelegatedInv

(* decide counts the approvals of trusted keys, so there are at least as   *)
(* many, or takes the request's word.                                      *)
LEMMA DecideApproves ==
  ASSUME NEW r \in Request, NEW p \in Policy, decide(r, p)
  PROVE  /\ r.action \in p.allowed_actions
         /\ _approval_count(r, Approvers) >= p.required_approvals[r.action]
<1> DEFINE signed == r.approvals \cap Approvers
<1>1. /\ IsFiniteSet(signed) /\ IsFiniteSet(Approvers)
      /\ r.approvals \cap trusted \subseteq signed
      /\ r.action \in Tools /\ (r.count # None => r.count \in Nat)
  BY GatewayConstants, FS_Subset DEF Request
<1>2. /\ Cardinality(r.approvals \cap trusted) <= Cardinality(signed)
      /\ Cardinality(signed) \in Nat
      /\ Cardinality(r.approvals \cap trusted) \in Nat
  BY <1>1, FS_Subset, FS_CardinalityType
<1>3. p.required_approvals[r.action] \in Nat
  <2>1. Cardinality(Approvers) \in Nat
    BY <1>1, FS_CardinalityType
  <2> QED
    BY <1>1, <2>1 DEF Policy
<1> QED
  BY <1>1, <1>2, <1>3 DEF decide, _approval_count

(* The policy of the tools so far is a policy, and honest when they are    *)
(* all defined and well formed.                                            *)
LEMMA GatewayPolicyFacts ==
  ASSUME handlers \subseteq Tools
  PROVE  /\ GatewayPolicy \in Policy
         /\ tool_defs = handlers /\ WellFormed => Honest(GatewayPolicy)
<1>0. Cardinality(Approvers) \in Nat
  BY GatewayConstants, FS_CardinalityType
<1>1. GatewayPolicy \in Policy
  BY <1>0, GatewayConstants DEF GatewayPolicy, Policy
<1>2. tool_defs = handlers /\ WellFormed => Honest(GatewayPolicy)
  BY DEF GatewayPolicy, WellFormed, Honest
<1> QED
  BY <1>1, <1>2

(* The policy that a gateway is created with. *)
LEMMA NoToolsFacts ==
  NoTools \in Policy /\ Honest(NoTools) /\ Honest(NoTools)'
<1>0. Cardinality(Approvers) \in Nat
  BY GatewayConstants, FS_CardinalityType
<1> QED
  BY <1>0, GatewayConstants DEF NoTools, Policy, Honest

-------------------------------------------------------------------------------
(* The steps of a registration.  Definitions are only added, so what was   *)
(* honest stays honest.                                                    *)
LEMMA RegistrationStep ==
  ASSUME GInv, (\E t \in Tools : register_tool(t)) \/ Registrar
  PROVE  GInv'
<1>1. UNCHANGED <<serviceVars, trusted, used, expired, call, delegated>>
  BY DEF register_tool, Registrar, Define, _rebuild_policy, Rewire
<1>2. /\ tool_defs \subseteq tool_defs' /\ tool_defs' \subseteq handlers'
      /\ handlers \subseteq handlers' /\ handlers' \subseteq Tools
      /\ registry' \in {registry, GatewayPolicy}
      /\ boundary' \in {boundary, registry}
  BY DEF register_tool, Registrar, Define, _rebuild_policy, Rewire, GInv,
         Typed, RegisteringInv
<1>3. registry' = registry \/ (tool_defs = handlers /\ WellFormed)
  BY DEF register_tool, Registrar, Define, _rebuild_policy, Rewire, GInv,
         RegisteringInv
<1>4. \A p : Honest(p) => Honest(p)'
  BY <1>2 DEF Honest
<1>5. GatewayPolicy \in Policy
  BY GatewayPolicyFacts DEF GInv, Typed
<1>6. Honest(registry)' /\ Honest(boundary)'
  <2>1. Honest(registry')
    BY <1>2, <1>3, GatewayPolicyFacts DEF GInv, Typed
  <2>2. Honest(boundary')
    BY <1>2 DEF GInv
  <2> QED
    BY <1>2, <2>1, <2>2 DEF Honest
<1>7. Typed'
  BY <1>1, <1>2, <1>5 DEF GInv, Typed, serviceVars
<1>8. \A t \in Threads : CallInv(t)'
  BY <1>1, <1>2, <1>4 DEF GInv, CallInv, Approved, Genuine, serviceVars
<1>9. DelegatedInv'
  BY <1>1 DEF GInv, DelegatedInv, DelegatedOnceToNamed
<1>10. RegisteringInv'
  BY DEF register_tool, Registrar, Define, _rebuild_policy, Rewire, GInv,
         RegisteringInv, WellFormed, GatewayPolicy
<1> QED
  BY <1>6, <1>7, <1>8, <1>9, <1>10 DEF GInv

(* The service's registry: a policy that calls are judged by stays. *)
LEMMA ServiceStep ==
  ASSUME GInv, \E p \in Policies : register(p) \/ register_signed(p)
  PROVE  GInv'
<1>1. /\ UNCHANGED <<gatewayVars, trusted, used, expired, call, delegated>>
      /\ service' \in Policies /\ file' \in Policies \cup {None}
      /\ service # None => service' = service
  BY DEF register, register_signed, Save, GInv, Typed
<1>2. Typed'
  BY <1>1 DEF GInv, Typed, gatewayVars
<1>3. RegisteringInv'
  BY <1>1 DEF GInv, RegisteringInv, gatewayVars, WellFormed, GatewayPolicy
<1>4. Honest(registry)' /\ Honest(boundary)' /\ DelegatedInv'
  BY <1>1 DEF GInv, Honest, gatewayVars, DelegatedInv, DelegatedOnceToNamed
<1>5. \A t \in Threads : CallInv(t)'
  BY <1>1 DEF GInv, CallInv, Approved, Genuine, Honest, gatewayVars
<1> QED
  BY <1>2, <1>3, <1>4, <1>5 DEF GInv

(* A restart ends the calls and empties the gateway. *)
LEMMA RestartStep ==
  ASSUME GInv, Restart
  PROVE  GInv'
<1>1. Typed'
  <2>1. Idle \in Calls
    BY DEF Calls
  <2> QED
    BY <2>1, NoToolsFacts DEF Restart, GInv, Typed
<1>2. RegisteringInv'
  BY DEF Restart, RegisteringInv, WellFormed, GatewayPolicy, NoTools
<1>3. Honest(registry)' /\ Honest(boundary)'
  BY DEF Restart, Honest
<1>4. \A t \in Threads : CallInv(t)'
  BY DEF Restart, CallInv, Idle
<1>5. DelegatedInv'
  BY DEF Restart, GInv, DelegatedInv, DelegatedOnceToNamed
<1> QED
  BY <1>1, <1>2, <1>3, <1>4, <1>5 DEF GInv

(* A step that changes only what one thread is doing. *)
LEMMA CallStep ==
  ASSUME GInv, NEW t \in Threads, NEW c \in Calls, Become(t, c),
         UNCHANGED <<gatewayVars, serviceVars, trusted, used, expired, delegated>>,
         c # Idle /\ c.route = "mcp" => Honest(c.policy) /\ c.tool \in handlers,
         c # Idle /\ c.route = "a2a" => Genuine(c.at, c.artifact),
         c.step = "validated" => Approved(c),
         c.step = "validated" /\ c.route # "mcp" =>
           service # None /\ service = c.policy
  PROVE  GInv'
<1>1. /\ call' \in [Threads -> Calls] /\ call'[t] = c
      /\ \A u \in Threads \ {t} : call'[u] = call[u]
  BY DEF Become, GInv, Typed
<1>2. Typed'
  BY <1>1 DEF GInv, Typed, gatewayVars, serviceVars
<1>3. RegisteringInv'
  BY DEF GInv, RegisteringInv, gatewayVars, WellFormed, GatewayPolicy
<1>4. Honest(registry)' /\ Honest(boundary)' /\ DelegatedInv'
  BY DEF GInv, Honest, gatewayVars, DelegatedInv, DelegatedOnceToNamed
<1>5. ASSUME NEW u \in Threads PROVE CallInv(u)'
  <2>1. CASE u = t
    BY <1>1, <2>1 DEF CallInv, Approved, Genuine, Honest, gatewayVars, serviceVars
  <2>2. CASE u # t
    BY <1>1, <2>2 DEF GInv, CallInv, Approved, Genuine, Honest, gatewayVars,
                      serviceVars
  <2> QED
    BY <2>1, <2>2
<1> QED
  BY <1>2, <1>3, <1>4, <1>5 DEF GInv

(* The three entry points. *)
LEMMA EntryStep ==
  ASSUME GInv, NEW t \in Threads,
         \/ \E x \in Tools, r \in Requests : CallTool(t, x, r)
         \/ \E r \in Requests : run(t, r)
         \/ \E r \in Recipients, d \in Delegations : receive_and_execute(t, r, d)
  PROVE  GInv'
<1>1. ASSUME NEW x \in Tools, NEW r \in Requests, CallTool(t, x, r)
      PROVE  GInv'
  <2> DEFINE c == [step |-> "issued", route |-> "mcp", tool |-> x,
                   request |-> r, policy |-> registry]
  <2>1. c \in Calls /\ c.step = "issued" /\ c.route = "mcp"
    BY GatewayConstants DEF Calls, GInv, Typed
  <2>2. Honest(c.policy) /\ c.tool \in handlers
    BY <1>1 DEF GInv, CallTool
  <2>3. Become(t, c)
    BY <1>1 DEF CallTool
  <2> HIDE DEF c
  <2> QED
    BY <1>1, <2>1, <2>2, <2>3, CallStep DEF CallTool
<1>2. ASSUME NEW r \in Requests, run(t, r) PROVE GInv'
  <2> DEFINE c == [step |-> "issued", route |-> "langchain", tool |-> LangChainTool,
                   request |-> r, policy |-> LangChainPolicy]
  <2>1. c \in Calls /\ c.step = "issued" /\ c.route = "langchain"
    BY GatewayConstants DEF Calls
  <2>2. Become(t, c)
    BY <1>2 DEF run
  <2> HIDE DEF c
  <2> QED
    BY <1>2, <2>1, <2>2, CallStep DEF run
<1>3. ASSUME NEW r \in Recipients, NEW d \in Delegations,
             receive_and_execute(t, r, d)
      PROVE  GInv'
  <2> DEFINE c == [step |-> "issued", route |-> "a2a", at |-> r,
                   artifact |-> d.artifact,
                   request |-> Artifacts[d.artifact].request,
                   policy |-> Artifacts[d.artifact].policy]
  <2>1. d.artifact \in DOMAIN Artifacts
    BY GatewayConstants DEF Delegation
  <2>2. /\ Artifacts[d.artifact].request \in Request
        /\ Artifacts[d.artifact].policy \in Policy
    BY <2>1, GatewayConstants DEF Artifact
  <2>3. c \in Calls /\ c.step = "issued" /\ c.route = "a2a"
    BY <2>1, <2>2 DEF Calls
  <2>4. Genuine(c.at, c.artifact)
    BY <1>3 DEF receive_and_execute, Accepts, Genuine
  <2>5. Become(t, c)
    BY <1>3 DEF receive_and_execute
  <2> HIDE DEF c
  <2> QED
    BY <1>3, <2>3, <2>4, <2>5, CallStep DEF receive_and_execute
<1> QED
  BY <1>1, <1>2, <1>3

(* Validating a received call: every later use rests on what is checked here. *)
LEMMA ValidateStep ==
  ASSUME GInv, NEW t \in Threads, _validate(t)
  PROVE  GInv'
<1> DEFINE c == call[t]
           valid == /\ Issuer \in trusted
                    /\ c.route = "a2a" => c.artifact \notin expired \cup used
                    /\ c.policy \in Registered(c)
                    /\ decide(c.request, c.policy)
           d == [c EXCEPT !.step = "validated"]
<1>1. /\ c.step = "issued" /\ c \in Calls /\ c # Idle
      /\ UNCHANGED <<gatewayVars, serviceVars, trusted, used, expired,
                     delegated>>
      /\ Become(t, IF valid THEN d ELSE Idle)
  BY DEF _validate, GInv, Typed, Idle
<1>2. /\ c.request \in Request /\ c.policy \in Policy
      /\ c.route \in {"mcp", "langchain", "a2a"}
  BY <1>1 DEF Calls, Idle
<1>3. CASE valid
  <2>1. /\ d \in Calls /\ d.step = "validated" /\ d.route = c.route
        /\ d.request = c.request /\ d.policy = c.policy
    BY <1>1 DEF Calls, Idle
  <2>2. /\ c.route = "a2a" => d.at = c.at /\ d.artifact = c.artifact
        /\ c.route = "mcp" => d.tool = c.tool
    BY <1>1 DEF Calls, Idle
  <2>3. Approved(d)
    BY <1>2, <1>3, <2>1, DecideApproves DEF Approved
  <2>4. c.route # "mcp" => service # None /\ service = c.policy
    BY <1>3 DEF Registered
  <2>5. /\ c.route = "mcp" => Honest(c.policy) /\ c.tool \in handlers
        /\ c.route = "a2a" => Genuine(c.at, c.artifact)
    BY <1>1 DEF GInv, CallInv
  <2>6. Become(t, d)
    BY <1>1, <1>3
  <2> HIDE DEF d, c
  <2> QED
    BY <1>1, <2>1, <2>2, <2>3, <2>4, <2>5, <2>6, CallStep
<1>4. CASE ~valid
  <2>1. Idle \in Calls /\ Idle.step = "idle"
    BY DEF Calls, Idle
  <2>2. Become(t, Idle)
    BY <1>1, <1>4
  <2> QED
    BY <1>1, <2>1, <2>2, CallStep
<1> QED
  BY <1>3, <1>4

(* The end of a call: the tool or the task runs, or something raises. *)
LEMMA FinishStep ==
  ASSUME GInv, NEW t \in Threads, RunTool(t) \/ RunTask(t) \/ Fail(t)
  PROVE  GInv'
<1> DEFINE c == call[t]
<1>1. Idle \in Calls /\ Idle.step = "idle"
  BY DEF Calls, Idle
<1>2. ASSUME Become(t, Idle),
             UNCHANGED <<gatewayVars, serviceVars, trusted, expired>>,
             used \subseteq used', used' \subseteq DOMAIN Artifacts,
             delegated' \in [Recipients -> [DOMAIN Artifacts -> Nat]],
             DelegatedInv'
      PROVE  GInv'
  <2>1. /\ call' \in [Threads -> Calls] /\ call'[t] = Idle
        /\ \A u \in Threads \ {t} : call'[u] = call[u]
    BY <1>1, <1>2 DEF Become, GInv, Typed
  <2>2. Typed'
    BY <1>2, <2>1 DEF GInv, Typed, gatewayVars, serviceVars
  <2>3. RegisteringInv'
    BY <1>2 DEF GInv, RegisteringInv, gatewayVars, WellFormed, GatewayPolicy
  <2>4. Honest(registry)' /\ Honest(boundary)'
    BY <1>2 DEF GInv, Honest, gatewayVars
  <2>5. ASSUME NEW u \in Threads PROVE CallInv(u)'
    BY <1>1, <1>2, <2>1 DEF GInv, CallInv, Approved, Genuine, Honest,
                            gatewayVars, serviceVars
  <2> QED
    BY <1>2, <2>2, <2>3, <2>4, <2>5 DEF GInv
<1>3. CASE RunTool(t)
  BY <1>1, <1>3, CallStep DEF RunTool
<1>4. CASE Fail(t)
  <2>1. /\ Become(t, Idle) /\ used \subseteq used' /\ UNCHANGED delegated
        /\ UNCHANGED <<gatewayVars, serviceVars, trusted, expired>>
    BY <1>4 DEF Fail, Claim
  <2>2. used' \subseteq DOMAIN Artifacts
    BY <1>4 DEF Fail, Claim, GInv, Typed, Calls, Idle
  <2>3. DelegatedInv'
    BY <2>1 DEF GInv, DelegatedInv, DelegatedOnceToNamed
  <2> QED
    BY <1>2, <2>1, <2>2, <2>3 DEF GInv, Typed
<1>5. CASE RunTask(t)
  <2>1. /\ c.step = "validated" /\ c.route = "a2a"
        /\ c.artifact \notin used /\ used' = used \cup {c.artifact}
        /\ delegated' = [delegated EXCEPT ![c.at][c.artifact] = @ + 1]
        /\ Become(t, Idle)
        /\ UNCHANGED <<gatewayVars, serviceVars, trusted, expired>>
    BY <1>5 DEF RunTask, Claim
  <2>2. /\ c.at \in Recipients /\ c.artifact \in DOMAIN Artifacts
        /\ Genuine(c.at, c.artifact)
    <3>1. c \in Calls /\ c # Idle
      BY <2>1 DEF GInv, Typed, Idle
    <3> QED
      BY <2>1, <3>1 DEF Calls, Idle, GInv, CallInv
  <2>3. \A r \in Recipients : delegated[r][c.artifact] = 0
    BY <2>1, <2>2 DEF GInv, DelegatedInv
  <2>4. \A r \in Recipients, a \in DOMAIN Artifacts :
          delegated'[r][a] = IF r = c.at /\ a = c.artifact THEN 1
                             ELSE delegated[r][a]
    BY <2>1, <2>2, <2>3 DEF GInv, Typed
  <2>5. delegated' \in [Recipients -> [DOMAIN Artifacts -> Nat]]
    BY <2>1, <2>2, <2>3 DEF GInv, Typed
  <2>6. DelegatedOnceToNamed'
    <3>1. ASSUME NEW a \in DOMAIN Artifacts, NEW r \in Recipients,
                 NEW s \in Recipients
          PROVE  /\ delegated'[r][a] <= 1
                 /\ delegated'[r][a] + delegated'[s][a] > 1 => r = s
      <4>1. CASE a = c.artifact
        BY <2>3, <2>4, <4>1
      <4>2. CASE a # c.artifact
        BY <2>4, <4>2 DEF GInv, DelegatedInv, DelegatedOnceToNamed
      <4> QED
        BY <4>1, <4>2
    <3>2. ASSUME NEW a \in DOMAIN Artifacts, NEW r \in Recipients,
                 delegated'[r][a] > 0
          PROVE  Genuine(r, a)
      <4>1. CASE r = c.at /\ a = c.artifact
        BY <2>2, <4>1
      <4>2. CASE ~(r = c.at /\ a = c.artifact)
        BY <2>4, <3>2, <4>2
           DEF GInv, DelegatedInv, DelegatedOnceToNamed, Genuine
      <4> QED
        BY <4>1, <4>2
    <3> QED
      BY <3>1, <3>2 DEF DelegatedOnceToNamed, Genuine
  <2>7. DelegatedInv'
    BY <2>1, <2>4, <2>6 DEF GInv, DelegatedInv
  <2>8. used' \subseteq DOMAIN Artifacts
    BY <2>1, <2>2 DEF GInv, Typed
  <2> QED
    BY <1>2, <2>1, <2>5, <2>7, <2>8
<1> QED
  BY <1>3, <1>4, <1>5

-------------------------------------------------------------------------------
(* The inductive invariant holds of every reachable state. *)
LEMMA GatewaysInvariant == Spec => []GInv
<1>1. Init => GInv
  <2> SUFFICES ASSUME Init PROVE GInv
    OBVIOUS
  <2>1. Typed
    <3>1. Idle \in Calls
      BY DEF Calls
    <3> QED
      BY <3>1, NoToolsFacts DEF Init, Typed
  <2>2. RegisteringInv
    BY DEF Init, RegisteringInv, WellFormed, GatewayPolicy, NoTools
  <2>3. Honest(registry) /\ Honest(boundary)
    BY NoToolsFacts DEF Init
  <2>4. \A t \in Threads : CallInv(t)
    BY DEF Init, CallInv, Idle
  <2>5. DelegatedInv
    BY DEF Init, DelegatedInv, DelegatedOnceToNamed
  <2> QED
    BY <2>1, <2>2, <2>3, <2>4, <2>5 DEF GInv
<1>2. GInv /\ [Next]_vars => GInv'
  <2> SUFFICES ASSUME GInv, [Next]_vars PROVE GInv'
    OBVIOUS
  <2>1. CASE \/ \E k \in Keys : revoke(k)
             \/ \E a \in DOMAIN Artifacts : Expire(a)
             \/ UNCHANGED vars
    <3>1. UNCHANGED <<gatewayVars, serviceVars, used, call, delegated>>
      BY <2>1 DEF revoke, Expire, vars
    <3> QED
      BY <3>1 DEF GInv, Typed, RegisteringInv, Honest, CallInv, Approved,
                  Genuine, DelegatedInv, DelegatedOnceToNamed, WellFormed,
                  GatewayPolicy, gatewayVars, serviceVars
  <2> QED
    BY <2>1, RegistrationStep, ServiceStep, RestartStep, EntryStep,
       ValidateStep, FinishStep DEF Next
<1> QED
  BY <1>1, <1>2, PTL DEF Spec

(* The variables keep their types. *)
THEOREM GatewaysTyped == Spec => []TypeOK
<1>1. GInv => TypeOK
  BY DEF GInv, Typed, Calls, Idle, TypeOK
<1> QED
  BY <1>1, GatewaysInvariant, PTL

(* Whatever interleaves, a request past the barrier's last check names a   *)
(* defined action and has the approvals that its definition or the service *)
(* demands: signed ones, unless it gives their number (_approval_count).   *)
(* The tool that runs is the one that was called, which the request may    *)
(* not name (GASMCPGateway.call).                                          *)
THEOREM GatewaysGoverned == Spec => []ToolRunsGoverned
<1>1. GInv => ToolRunsGoverned
  <2> SUFFICES ASSUME GInv, NEW t \in Threads, call[t].step = "validated"
               PROVE  LET c == call[t]
                          r == c.request
                          given == _approval_count(r, Approvers)
                      IN  CASE c.route = "mcp" /\ c.policy = NoTools ->
                                 c.tool \in handlers /\ r.action \in ExtraActions
                            [] c.route = "mcp" /\ c.policy # NoTools ->
                                 /\ c.tool \in handlers
                                 /\ r.action \in tool_defs \ Malformed
                                 /\ given >= ToolApprovals[r.action]
                            [] OTHER ->
                                 /\ service # None
                                 /\ r.action \in service.allowed_actions
                                 /\ given >= service.required_approvals[r.action]
    BY DEF ToolRunsGoverned
  <2>1. CallInv(t) /\ call[t] # Idle
    BY DEF GInv, Idle
  <2>2. NoTools.allowed_actions = ExtraActions
    BY DEF NoTools
  <2> QED
    BY <2>1, <2>2 DEF CallInv, Approved, Honest
<1> QED
  BY <1>1, GatewaysInvariant, PTL

(* A delegated artifact is run once in all, by an agent that a genuine     *)
(* envelope names.                                                         *)
THEOREM GatewaysDelegation == Spec => []DelegatedOnceToNamed
<1>1. GInv => DelegatedOnceToNamed
  BY DEF GInv, DelegatedInv
<1> QED
  BY <1>1, GatewaysInvariant, PTL

(* Between two registrations the boundary enforces every definition. *)
THEOREM GatewaysRegistration == Spec => []RegistrationTakesEffect
<1>1. GInv => RegistrationTakesEffect
  BY DEF GInv, RegisteringInv, RegistrationTakesEffect
<1> QED
  BY <1>1, GatewaysInvariant, PTL

===============================================================================
