------------------------------- MODULE Gateways -------------------------------
(***************************************************************************)
(* The ways in which agents reach the execution barrier: tools of the MCP  *)
(* gateway (mcp_gateway.py), LangChain tools (langchain_adapter.py) and    *)
(* tasks that one agent delegates to another (a2a.py), with the in-process *)
(* policy registry (policy.py) that the last two are judged by.            *)
(*                                                                         *)
(* Calls run in threads.  One thread registers tools while the others      *)
(* call; registering from several threads is not considered, for the       *)
(* gateway has no lock and does not promise it.  A digest is the policy.   *)
(* Approvals are the keys they verify under; the other conditions of       *)
(* decide are in Decisions.tla, and the barrier's own steps in Barrier.tla. *)
(***************************************************************************)
EXTENDS Naturals, FiniteSets

CONSTANTS Tools,          \* tool names, which are also the actions
          ToolApprovals,  \* required_approvals of a tool's definition
          Malformed,      \* tools whose definition Policy() refuses
          Policies,       \* policies of the service registry, all of one id
          ExtraActions,   \* extra_allowed_actions of the gateway
          Counts,         \* integers a request may give as its approvals
          Requests,       \* requests that callers make
          LangChainTool,  \* a LangChain tool, and
          LangChainPolicy,\* the policy it was built with
          Artifacts,      \* artifacts to delegate: issued under the service
          Delegations,    \* delegation envelopes that may arrive
          Recipients,     \* agents with a guard
          Keys, Issuer, Approvers,
          Threads, None

(* The part of a Policy that a gateway fills in.                           *)
Policy == [allowed_actions : SUBSET Tools,
           required_approvals : [Tools -> 0..Cardinality(Approvers)]]

(* count is an approval_count or approvals_count in the request or in its  *)
(* context, if there is one.                                               *)
Request == [action : Tools, approvals : SUBSET Approvers, count : Counts \cup {None}]

Artifact == [request : Request, policy : Policies]

(* signer is the key the envelope's signature verifies under.              *)
Delegation == [delegator : Keys, signer : Keys, recipient : Recipients,
               action : Tools, artifact : DOMAIN Artifacts]

ASSUME GatewayConstants ==
  /\ IsFiniteSet(Approvers)
  /\ ToolApprovals \in [Tools -> 0..Cardinality(Approvers)]
  /\ Malformed \subseteq Tools
  /\ Policies \subseteq Policy
  /\ ExtraActions \subseteq Tools
  /\ Counts \subseteq Nat /\ None \notin Counts
  /\ Requests \subseteq Request
  /\ LangChainTool \in Tools /\ LangChainPolicy \in Policy
  /\ \A a \in DOMAIN Artifacts : Artifacts[a] \in Artifact
  /\ Delegations \subseteq Delegation
  /\ Approvers \cup {Issuer} \subseteq Keys

VARIABLES handlers,   \* GASMCPGateway._handlers: the names in it
          tool_defs,  \* GASMCPGateway._tool_defs: the names in it
          registry,   \* the gateway policy in its _policy_registry
          boundary,   \* the gateway policy that its _boundary was wired with
          registering,\* step and tool of register_tool
          service,    \* the service registry's entry for the policy id
          file,       \* what the service registry last saved
          trusted,    \* keys that the trust store resolves
          used, expired,  \* artifacts
          call,       \* what a thread is doing
          delegated   \* history: how often a guard ran an artifact

gatewayVars == <<handlers, tool_defs, registry, boundary, registering>>
serviceVars == <<service, file>>
vars == <<gatewayVars, serviceVars, trusted, used, expired, call, delegated>>

Idle == [step |-> "idle"]

TypeOK == /\ handlers \subseteq Tools
          /\ tool_defs \subseteq handlers
          /\ registry \in Policy /\ boundary \in Policy
          /\ used \subseteq DOMAIN Artifacts
          /\ \A t \in Threads : call[t].step \in
               {"idle", "issued", "validated"}

(* create: a policy without the tools, until they are registered.          *)
NoTools == [allowed_actions |-> ExtraActions, required_approvals |-> [t \in Tools |-> 0]]

Init == /\ handlers = {} /\ tool_defs = {}
        /\ registry = NoTools /\ boundary = NoTools
        /\ registering = [step |-> "idle"]
        /\ service = None /\ file = None
        /\ trusted = Keys
        /\ used = {} /\ expired = {}
        /\ call = [t \in Threads |-> Idle]
        /\ delegated = [r \in Recipients |-> [a \in DOMAIN Artifacts |-> 0]]

-------------------------------------------------------------------------------
(* GASMCPGateway.register_tool and the tool decorator, which ends in it.   *)

(* Mutant of register_tool: the policy is rebuilt before the definition    *)
(* is there.                                                               *)
RegisterUndefined(t) ==
  /\ registering.step = "idle"
  /\ t \notin handlers
  /\ handlers' = handlers \cup {t}
  /\ registry' = [registry EXCEPT !.allowed_actions = handlers']
  /\ boundary' = registry'
  /\ registering' = [step |-> "defining", tool |-> t]
  /\ UNCHANGED <<tool_defs, serviceVars, trusted, used, expired, call,
                 delegated>>

(* A name that is registered already is refused.                           *)
register_tool(t) ==
  /\ registering.step = "idle"
  /\ t \notin handlers
  /\ handlers' = handlers \cup {t}
  /\ registering' = [step |-> "defining", tool |-> t]
  /\ UNCHANGED <<tool_defs, registry, boundary, serviceVars, trusted, used,
                 expired, call, delegated>>

Define ==
  /\ registering.step = "defining"
  /\ tool_defs' = tool_defs \cup {registering.tool}
  /\ registering' = [step |-> "rebuilding"]
  /\ UNCHANGED <<handlers, registry, boundary, serviceVars, trusted, used,
                 expired, call, delegated>>

(* _rebuild_policy: from the handlers' names and the definitions, of every *)
(* tool so far.  Policy() raises for a malformed one, which stays in both  *)
(* dictionaries.                                                           *)
GatewayPolicy ==
  [allowed_actions |-> handlers,
   required_approvals |-> [t \in Tools |-> IF t \in tool_defs THEN ToolApprovals[t]
                                                              ELSE 0]]

WellFormed == handlers \cap Malformed = {}

_rebuild_policy ==
  /\ registering.step = "rebuilding"
  /\ IF WellFormed
     THEN registry' = GatewayPolicy /\ registering' = [step |-> "wiring"]
     ELSE registering' = [step |-> "idle"] /\ UNCHANGED registry
  /\ UNCHANGED <<handlers, tool_defs, boundary, serviceVars, trusted, used,
                 expired, call, delegated>>

(* Mutant of Rewire: the boundary keeps the registry it was made with.     *)
RewireNot ==
  /\ registering.step = "wiring"
  /\ registering' = [step |-> "idle"]
  /\ UNCHANGED <<handlers, tool_defs, registry, boundary, serviceVars, trusted,
                 used, expired, call, delegated>>

Rewire ==
  /\ registering.step = "wiring"
  /\ boundary' = registry
  /\ registering' = [step |-> "idle"]
  /\ UNCHANGED <<handlers, tool_defs, registry, serviceVars, trusted, used,
                 expired, call, delegated>>

Registrar == Define \/ _rebuild_policy \/ Rewire

-------------------------------------------------------------------------------
(* The service's PolicyRegistry.  A policy id keeps its content, whatever  *)
(* the version of a manifest; entries are signed by the service's key.     *)

register(p) ==
  /\ service = None
  /\ service' = p
  /\ UNCHANGED <<gatewayVars, file, trusted, used, expired, call, delegated>>

(* SignedPolicyManifest.verify.                                            *)
ManifestVerifies == Issuer \in trusted

(* The registry is saved, with all its entries, or that raises.            *)
Save(p) == file' \in {file, p}

register_signed(p) ==
  /\ ManifestVerifies
  /\ service # None => p = service
  /\ service' = p
  /\ Save(p)
  /\ UNCHANGED <<gatewayVars, trusted, used, expired, call, delegated>>

(* The process restarts and loads the saved registry, which it refuses if  *)
(* a signature does not verify; the gateway's tools are gone.              *)
Restart ==
  /\ file # None => ManifestVerifies
  /\ service' = file
  /\ handlers' = {} /\ tool_defs' = {}
  /\ registry' = NoTools /\ boundary' = NoTools
  /\ registering' = [step |-> "idle"]
  /\ call' = [t \in Threads |-> Idle]
  /\ UNCHANGED <<file, trusted, used, expired, delegated>>

-------------------------------------------------------------------------------
(* The three entry points.  AuthorizationIssuer.authorize raises when the  *)
(* policy denies; an artifact it issues is this thread's own.              *)

Become(t, c) == call' = [call EXCEPT ![t] = c]

(* _approval_count: of the signed approvals under these keys, unless the   *)
(* request says how many.                                                  *)
_approval_count(r, keys) == IF r.count # None THEN r.count
                            ELSE Cardinality(r.approvals \cap keys)

decide(r, p) ==
  /\ r.action \in p.allowed_actions
  /\ p.required_approvals[r.action] > 0 =>
       _approval_count(r, trusted) >= p.required_approvals[r.action]

(* GASMCPGateway.call: an unknown tool raises.  The arguments are merged   *)
(* over "action", so that the request may name another action than the     *)
(* tool whose handler will run.                                            *)
CallTool(t, tool, r) ==
  /\ call[t] = Idle
  /\ tool \in handlers
  /\ decide(r, registry)
  /\ Become(t, [step |-> "issued", route |-> "mcp", tool |-> tool,
                request |-> r, policy |-> registry])
  /\ UNCHANGED <<gatewayVars, serviceVars, trusted, used, expired, delegated>>

(* GASExecutionBarrierTool.run: function and policy are the tool's own;    *)
(* the input may name another action here, too.                            *)
run(t, r) ==
  /\ call[t] = Idle
  /\ decide(r, LangChainPolicy)
  /\ Become(t, [step |-> "issued", route |-> "langchain", tool |-> LangChainTool,
                request |-> r, policy |-> LangChainPolicy])
  /\ UNCHANGED <<gatewayVars, serviceVars, trusted, used, expired, delegated>>

(* Mutant of Accepts: the envelope's signature is not verified.            *)
AcceptsUnsigned(r, d) ==
  /\ d.recipient = r
  /\ d.delegator \in trusted
  /\ d.action = Artifacts[d.artifact].request.action

(* A2AGuard.receive_and_execute, up to the barrier.                        *)
Accepts(r, d) ==
  /\ d.recipient = r
  /\ d.delegator \in trusted
  /\ d.signer = d.delegator
  /\ d.action = Artifacts[d.artifact].request.action

receive_and_execute(t, r, d) ==
  /\ call[t] = Idle
  /\ Accepts(r, d)
  /\ Become(t, [step |-> "issued", route |-> "a2a", at |-> r,
                artifact |-> d.artifact,
                request |-> Artifacts[d.artifact].request,
                policy |-> Artifacts[d.artifact].policy])
  /\ UNCHANGED <<gatewayVars, serviceVars, trusted, used, expired, delegated>>

-------------------------------------------------------------------------------
(* ExecutionBoundary.execute.                                              *)

(* The policy of the boundary's registry, when it has the policy id.  The  *)
(* gateway's _boundary is read after the artifact was issued.              *)
Registered(c) == IF c.route = "mcp" THEN {boundary}
                 ELSE IF service = None THEN {} ELSE {service}

_validate(t) ==
  LET c == call[t]
      valid == /\ Issuer \in trusted
               /\ c.route = "a2a" => c.artifact \notin expired \cup used
               /\ c.policy \in Registered(c)
               /\ decide(c.request, c.policy)
  IN  /\ c.step = "issued"
      /\ Become(t, IF valid THEN [c EXCEPT !.step = "validated"] ELSE Idle)
      /\ UNCHANGED <<gatewayVars, serviceVars, trusted, used, expired,
                     delegated>>

(* Claim of the artifact of a tool call, and the handler of call[t].tool.  *)
RunTool(t) ==
  /\ call[t].step = "validated" /\ call[t].route \in {"mcp", "langchain"}
  /\ Become(t, Idle)
  /\ UNCHANGED <<gatewayVars, serviceVars, trusted, used, expired, delegated>>

(* Mutant of Claim: a nonce that is used already is no obstacle.           *)
ClaimAgain(a) == used' = used \cup {a}

Claim(a) == a \notin used /\ used' = used \cup {a}

(* Claim and handler of a delegated artifact; a used nonce raises.         *)
RunTask(t) ==
  LET c == call[t]
  IN  /\ c.step = "validated" /\ c.route = "a2a"
      /\ Claim(c.artifact)
      /\ delegated' = [delegated EXCEPT ![c.at][c.artifact] = @ + 1]
      /\ Become(t, Idle)
      /\ UNCHANGED <<gatewayVars, serviceVars, trusted, expired>>

(* A check, a store or the handler raises, or the thread is lost, before   *)
(* the claim or after it.                                                  *)
Fail(t) ==
  LET c == call[t]
  IN  /\ c # Idle
      /\ Become(t, Idle)
      /\ \/ UNCHANGED used
         \/ c.step = "validated" /\ c.route = "a2a" /\ Claim(c.artifact)
      /\ UNCHANGED <<gatewayVars, serviceVars, trusted, expired, delegated>>

-------------------------------------------------------------------------------
revoke(k) ==
  /\ trusted' = trusted \ {k}
  /\ UNCHANGED <<gatewayVars, serviceVars, used, expired, call, delegated>>

Expire(a) ==
  /\ expired' = expired \cup {a}
  /\ UNCHANGED <<gatewayVars, serviceVars, trusted, used, call, delegated>>

Next ==
  \/ \E t \in Tools : register_tool(t)
  \/ Registrar
  \/ \E p \in Policies : register(p) \/ register_signed(p)
  \/ Restart
  \/ \E t \in Threads : \/ \E x \in Tools, r \in Requests : CallTool(t, x, r)
                        \/ \E r \in Requests : run(t, r)
                        \/ \E r \in Recipients, d \in Delegations :
                             receive_and_execute(t, r, d)
                        \/ _validate(t) \/ RunTool(t) \/ RunTask(t) \/ Fail(t)
  \/ \E k \in Keys : revoke(k)
  \/ \E a \in DOMAIN Artifacts : Expire(a)

Spec == Init /\ [][Next]_vars

-------------------------------------------------------------------------------
(* While tools are being registered, policies replaced and processes       *)
(* restarted under the calls: a request that is about to run a tool, past  *)
(* the last check of the barrier, names an action that is defined, with    *)
(* the approvals that this definition, or the service's policy, demands,   *)
(* signed unless the request gives their number.  So the tool that runs    *)
(* has the signed approvals it asks for when the request names this tool   *)
(* and no number; call and run do not see to that.  The actions a gateway  *)
(* was created with need no approval until its tools are registered.       *)
ToolRunsGoverned ==
  \A t \in Threads : call[t].step = "validated" =>
    LET c == call[t]
        r == c.request
        given == _approval_count(r, Approvers)
    IN  CASE c.route = "mcp" /\ c.policy = NoTools ->
               c.tool \in handlers /\ r.action \in ExtraActions
          [] c.route = "mcp" /\ c.policy # NoTools ->
               /\ c.tool \in handlers
               /\ r.action \in tool_defs \ Malformed
               /\ given >= ToolApprovals[r.action]
          [] OTHER ->
               /\ service # None
               /\ r.action \in service.allowed_actions
               /\ given >= service.required_approvals[r.action]

(* One artifact delegated to several agents, envelopes delivered again,    *)
(* received by the wrong agent or changed on the way: the artifact is run  *)
(* once in all, by an agent that a genuine envelope for its action names.  *)
DelegatedOnceToNamed ==
  /\ \A a \in DOMAIN Artifacts, r, s \in Recipients :
       /\ delegated[r][a] <= 1
       /\ delegated[r][a] + delegated[s][a] > 1 => r = s
  /\ \A a \in DOMAIN Artifacts, r \in Recipients : delegated[r][a] > 0 =>
       \E d \in Delegations : /\ d.artifact = a /\ d.recipient = r
                              /\ d.signer = d.delegator
                              /\ d.action = Artifacts[a].request.action

(* Between two registrations the boundary enforces the definitions of all  *)
(* the tools, as long as Policy() accepts them: none of them is missing    *)
(* from its policy, and none has fewer approvals than it asks for.  A      *)
(* malformed definition stays registered and keeps the policy as it is.    *)
RegistrationTakesEffect ==
  registering.step = "idle" /\ handlers # {} /\ WellFormed
    => boundary = GatewayPolicy
===============================================================================
