------------------------------- MODULE Decisions -------------------------------
(***************************************************************************)
(* How an authorization is decided: GovernancePlatform.authorize           *)
(* (platform.py) binds the runtime identity and validates it,              *)
(* AuthorizationIssuer.authorize (issuer.py) enforces the mesh             *)
(* requirements, asks the arbiter (policy.py) and the governance mesh      *)
(* (mesh.py), and appends a mesh frame and an authorization frame.         *)
(* Barrier.tla takes all this for one step, and follows the artifact.      *)
(*                                                                         *)
(* One call is followed through retries and restarts, while an operator    *)
(* registers and revokes governance sources, and adds and revokes the keys *)
(* of the trust store that the source registry looks at first.  An issuer  *)
(* without a source registry takes every input unverified.  Every lookup   *)
(* of a source and every append is a step of its own.  A digest is what it *)
(* digests; an attestation that does not verify counts as a source that    *)
(* does not resolve, for both are refused at the same place.  The mesh is  *)
(* the one authorize makes for the call.                                   *)
(***************************************************************************)
EXTENDS Integers, Sequences, FiniteSets, FiniteSetsExt

CONSTANTS Sources, Verdicts, Allowing,  \* verdicts whose "allow" is true
          Actions, Environments, Tenants, Approvers,
          InitialSources,  \* sources the mesh registry starts with
          InitialTrusted,  \* and those its trust store starts with
          Verifying,       \* whether the issuer has a source registry
          Offers,          \* the calls a run considers
          Principals,      \* ServicePrincipalRegistry: id -> its bounds
          Deployment,      \* PlatformDeploymentPolicy
          Policy,          \* the policy asked for
          TrustedApprovers,
          UniqueFrames,    \* SQLite and PostgreSQL refuse a frame id twice
          MaxCalls,        \* bound of the calls
          MaxChanges,      \* bound of changes to the source registry
          Unset

Input == [source : Sources, verdict : Verdicts, weight : Nat \ {0},
          priority : Nat]

Identity == [tenant : Tenants \cup {Unset}, environment : Environments,
             principal : DOMAIN Principals \cup {Unset}, roles : BOOLEAN]

(* The caller's own claims on the context are part of the request.         *)
Request == [action : Actions, tenant : Tenants \cup {Unset},
            approvals : SUBSET Approvers, approval_count : Int \cup {Unset},
            fields : BOOLEAN]

Offer == [identity : Identity, request : Request, inputs : SUBSET Input]

ASSUME DecisionConstants ==
  /\ Allowing \subseteq Verdicts
  /\ InitialSources \subseteq Sources
  /\ InitialTrusted \subseteq Sources
  /\ Verifying \subseteq BOOLEAN
  /\ UniqueFrames \in BOOLEAN
  /\ MaxCalls \in Nat /\ MaxChanges \in Nat
  /\ Offers \subseteq Offer
  /\ \A o \in Offers : IsFiniteSet(o.inputs)

VARIABLES offer,     \* the identity, the request and the mesh inputs
          step,      \* where authorize stands
          unverified,\* inputs whose attestation is still to be verified
          calls,
          known,     \* GovernanceSourceRegistry._keys
          revoked,   \* GovernanceSourceRegistry._revoked
          trusted,   \* sources whose key the registry's trust store resolves
          verifies,  \* the issuer has a source registry
          changes,
          frames,    \* the replay log
          barred     \* history: sources gone when the call began, or later
                     \* with an input still to be verified, and ever since

sources == <<known, revoked, trusted, verifies, changes>>
decisionsVars == <<offer, step, unverified, calls, sources, frames, barred>>

Steps == {"ready", "bound", "decided", "verified", "preflighted", "ended"}

DecisionsTypeOK ==
  /\ offer \in Offers
  /\ step \in Steps
  /\ unverified \subseteq offer.inputs
  /\ calls \in 0..MaxCalls
  /\ known \subseteq Sources
  /\ revoked \subseteq known
  /\ trusted \subseteq Sources
  /\ verifies \in Verifying
  /\ changes \in 0..MaxChanges
  /\ \A i \in DOMAIN frames : frames[i].type \in {"mesh", "authorization"}
  /\ barred \subseteq Sources

DecisionsInit ==
  /\ offer \in Offers
  /\ step = "ready"
  /\ unverified = {}
  /\ calls = 0
  /\ known = InitialSources
  /\ revoked = {}
  /\ trusted = InitialTrusted
  /\ verifies \in Verifying
  /\ changes = 0
  /\ frames = <<>>
  /\ barred = {}

(* Mutant of resolve: revocation is not looked at.                         *)
ResolveKnown(s) == s \in trusted \/ s \in known

(* GovernanceSourceRegistry.resolve: not revoked, and in the trust store   *)
(* or, failing that, in the registry.                                      *)
resolve(s) == s \notin revoked /\ (s \in trusted \/ s \in known)

(* History: the sources revoked in the registry, or that neither has.      *)
Gone == revoked \cup (Sources \ (known \cup trusted))

-------------------------------------------------------------------------------
(* GovernancePlatform.authorize.                                           *)

(* Mutant of Context: the caller's claim wins.                             *)
ContextOfCaller == [tenant |-> IF offer.request.tenant # Unset
                               THEN offer.request.tenant ELSE offer.identity.tenant,
                    environment |-> offer.identity.environment]

(* RuntimeIdentity.context() is merged last, so that it wins; an identity  *)
(* without a tenant leaves the caller's claim in place.                    *)
Context == [tenant |-> IF offer.identity.tenant # Unset
                       THEN offer.identity.tenant ELSE offer.request.tenant,
            environment |-> offer.identity.environment]

Effective == [offer.request EXCEPT !.tenant = Context.tenant]

(* ServicePrincipalRegistry.validate_runtime.  An empty bound allows all.  *)
PrincipalValid ==
  LET p == Principals[offer.identity.principal]
  IN  /\ offer.identity.principal # Unset
      /\ p.tenant # Unset => offer.identity.tenant = p.tenant
      /\ p.actions # {} => offer.request.action \in p.actions
      /\ p.environments # {} => Context.environment \in p.environments

Provided == {i.source : i \in offer.inputs}

(* PlatformDeploymentPolicy.validate_runtime.  Its demands on the actor,   *)
(* the request id, the source and the size of the context are refused at   *)
(* the same place as missing roles, and are one with them here.            *)
DeploymentValid ==
  /\ Context.environment \in Deployment.environments
  /\ Deployment.require_tenant => Context.tenant # Unset
  /\ Deployment.required_roles => offer.identity.roles
  /\ \/ offer.request.action \in Deployment.mesh_required_actions
     \/ Context.environment \in Deployment.mesh_required_environments
     => Cardinality(offer.inputs) >= Max({1, Deployment.min_mesh_inputs})
  /\ Deployment.mesh_required_sources \subseteq Provided

(* A call that fails validation raises before anything is recorded.        *)
Bind ==
  /\ step = "ready"
  /\ calls < MaxCalls
  /\ calls' = calls + 1
  /\ barred' = Gone
  /\ step' = IF (DOMAIN Principals # {} => PrincipalValid) /\ DeploymentValid
             THEN "bound" ELSE "ended"
  /\ UNCHANGED <<offer, unverified, sources, frames>>

-------------------------------------------------------------------------------
(* AuthorizationIssuer.authorize: requirements and arbiter.                *)

(* An integer approval_count stands for the approvals themselves.          *)
_approval_count == IF offer.request.approval_count # Unset
                   THEN offer.request.approval_count
                   ELSE Cardinality(offer.request.approvals \cap TrustedApprovers)

decide == /\ offer.request.action \in Policy.allowed_actions
          /\ offer.request.fields
          /\ Policy.exact_environment # Unset =>
               Context.environment = Policy.exact_environment
          /\ LET required == Policy.required_approvals[offer.request.action]
             IN  required > 0 => _approval_count >= required

MeshRequirementsMet ==
  LET action == offer.request.action
  IN  /\ \/ action \in Policy.mesh_required_actions
         \/ Context.environment \in Policy.mesh_required_environments
         => offer.inputs # {}
      /\ Cardinality(offer.inputs) >= Policy.required_mesh_inputs[action]
      /\ Policy.required_mesh_sources[action] \subseteq Provided

(* Unmet mesh requirements are raised at once; no frame records them.      *)
Decide ==
  /\ step = "bound"
  /\ step' = CASE ~ MeshRequirementsMet -> "ended"
               [] MeshRequirementsMet /\ offer.inputs = {} -> "preflighted"
               [] OTHER -> "decided"
  /\ unverified' = offer.inputs
  /\ UNCHANGED <<offer, calls, sources, frames, barred>>

-------------------------------------------------------------------------------
(* GovernanceMesh.preflight.                                               *)

(* _verify_source_attestation for one input; the first that fails raises.  *)
(* Without a source registry there is nothing to verify it against.        *)
Attested(i) == verifies => resolve(i.source)

VerifySource(i) ==
  /\ step = "decided"
  /\ i \in unverified
  /\ unverified' = unverified \ {i}
  /\ step' = CASE ~ Attested(i) -> "ended"
               [] Attested(i) /\ unverified' # {} -> "decided"
               [] OTHER -> IF Cardinality(Provided) = Cardinality(offer.inputs)
                           THEN "verified" ELSE "ended"
  /\ UNCHANGED <<offer, calls, sources, frames, barred>>

TopInputs(inputs) ==
  {i \in inputs : i.priority = Max({j.priority : j \in inputs})}

Verdict(inputs) == {i.verdict : i \in inputs}

Group(inputs, v) == {i \in inputs : i.verdict = v}

(* Inputs are grouped by verdict, and the groups ranked by their highest   *)
(* priority, then by their weight, then by digest.                         *)
Weight(g) == MapThenSumSet(LAMBDA i : i.weight, g)

Rank(g) == Max({i.priority : i \in g})

Outranks(inputs, v, w) ==
  LET g == Group(inputs, v)
      h == Group(inputs, w)
  IN  Rank(g) > Rank(h) \/ (Rank(g) = Rank(h) /\ Weight(g) >= Weight(h))

(* The first group of the ranking.                                         *)
Winner(inputs) == CHOOSE v \in Verdict(inputs) :
                    \A w \in Verdict(inputs) \ {v} : Outranks(inputs, v, w)

(* Mutant of preflight: the ranking decides whoever disagrees.             *)
PreflightRanked(inputs) ==
  LET v == Winner(inputs)
  IN  [status |-> IF v \in Allowing THEN "allow" ELSE "deny",
       allow |-> v \in Allowing,
       selected |-> {i.source : i \in Group(inputs, v)}]

preflight(inputs) ==
  IF Cardinality(Verdict(TopInputs(inputs))) > 1
  THEN [status |-> "conflict", allow |-> FALSE, selected |-> {}]
  ELSE LET v == Winner(inputs)
       IN  [status |-> IF v \in Allowing THEN "allow" ELSE "deny",
            allow |-> v \in Allowing,
            selected |-> {i.source : i \in Group(inputs, v)}]

(* The mesh frame's id is the digest of the decision: the same request     *)
(* with the same verdicts has the same frame id.                           *)
MeshFrame == [type |-> "mesh", request |-> Effective,
              verdicts |-> {<<i.source, i.verdict>> : i \in offer.inputs},
              decision |-> preflight(offer.inputs)]

Recorded == \E i \in DOMAIN frames : frames[i] = MeshFrame

(* Mutant of Preflight: only an allowing decision is recorded.             *)
PreflightAllows ==
  /\ step = "verified"
  /\ step' = "preflighted"
  /\ frames' = IF preflight(offer.inputs).allow THEN Append(frames, MeshFrame) ELSE frames
  /\ UNCHANGED <<offer, unverified, calls, sources, barred>>

Preflight ==
  /\ step = "verified"
  /\ IF UniqueFrames /\ Recorded
     THEN step' = "ended" /\ UNCHANGED frames
     ELSE step' = "preflighted" /\ frames' = Append(frames, MeshFrame)
  /\ UNCHANGED <<offer, unverified, calls, sources, barred>>

-------------------------------------------------------------------------------
(* The authorization frame, issued or not; its id holds a fresh nonce.     *)
Issued == decide /\ (offer.inputs # {} => preflight(offer.inputs).allow)

AuthorizationFrame ==
  [type |-> "authorization", request |-> Effective, issued |-> Issued,
   inputs |-> offer.inputs, barred |-> barred]

Issue ==
  /\ step = "preflighted"
  /\ frames' = Append(frames, AuthorizationFrame)
  /\ step' = "ended"
  /\ UNCHANGED <<offer, unverified, calls, sources, barred>>

(* The process stops, or the store refuses an append: the call ends where  *)
(* it is.                                                                  *)
Fail ==
  /\ step \notin {"ready", "ended"}
  /\ step' = "ended"
  /\ UNCHANGED <<offer, unverified, calls, sources, frames,
                 barred>>

(* The caller tries again with the same request.                           *)
CallAgain ==
  /\ step = "ended"
  /\ calls < MaxCalls
  /\ step' = "ready"
  /\ unverified' = {}
  /\ UNCHANGED <<offer, calls, sources, frames, barred>>

-------------------------------------------------------------------------------
(* The sources whose input preflight has still to verify.                  *)
Awaited == CASE step = "bound" -> Provided
             [] step = "decided" -> {i.source : i \in unverified}
             [] OTHER -> {}

Change ==
  /\ changes < MaxChanges
  /\ changes' = changes + 1
  /\ barred' = (barred \cup Awaited) \cap Gone'
  /\ UNCHANGED <<offer, step, unverified, calls, verifies, frames>>

(* GovernanceSourceRegistry.register gives a revoked source a new start.   *)
register(s) ==
  /\ known' = known \cup {s}
  /\ revoked' = revoked \ {s}
  /\ UNCHANGED trusted
  /\ Change

(* It revokes what it has itself.                                          *)
revoke(s) ==
  /\ s \in known
  /\ revoked' = revoked \cup {s}
  /\ UNCHANGED <<known, trusted>>
  /\ Change

(* TrustStore.add and revoke of a key with a source's name.                *)
add(s) ==
  /\ s \notin trusted
  /\ trusted' = trusted \cup {s}
  /\ UNCHANGED <<known, revoked>>
  /\ Change

withdraw(s) ==
  /\ s \in trusted
  /\ trusted' = trusted \ {s}
  /\ UNCHANGED <<known, revoked>>
  /\ Change

DecisionsNext ==
  \/ Bind \/ Decide \/ Preflight \/ Issue \/ Fail \/ CallAgain
  \/ \E i \in offer.inputs : VerifySource(i)
  \/ \E s \in Sources : register(s) \/ revoke(s) \/ add(s) \/ withdraw(s)

DecisionsSpec == DecisionsInit /\ [][DecisionsNext]_decisionsVars

-------------------------------------------------------------------------------
AuthorizationFrames == {i \in DOMAIN frames : frames[i].type = "authorization"}

IssuedFrames == {i \in AuthorizationFrames : frames[i].issued}

(* What an issued authorization stands for, after every interleaving with  *)
(* the operator, every retry and every failure: its tenant is that of the  *)
(* runtime identity when that has one, a required source is among its      *)
(* inputs, no two inputs are of one source, and every input of the highest *)
(* priority allows.                                                        *)
IssuedIsGoverned ==
  \A i \in IssuedFrames :
    LET f == frames[i]
    IN  /\ offer.identity.tenant # Unset => f.request.tenant = offer.identity.tenant
        /\ Policy.required_mesh_sources[f.request.action]
             \cup Deployment.mesh_required_sources
             \subseteq {x.source : x \in f.inputs}
        /\ \A x, y \in f.inputs : x.source = y.source => x = y
        /\ \A x \in f.inputs : (\A y \in f.inputs : y.priority <= x.priority)
                               => x.verdict \in Allowing

(* Where the issuer has a source registry, a source has no part in the     *)
(* authorization that did not resolve when the call began, or stopped to   *)
(* while an input of it was still to be verified, and has not resolved     *)
(* since: revoked in the registry whatever the trust store says of it, or  *)
(* in neither.                                                             *)
RevokedSourceHasNoSay ==
  verifies =>
    \A i \in IssuedFrames : \A x \in frames[i].inputs :
      x.source \notin frames[i].barred

(* The ranking of groups against its outcome: the decision is that of the  *)
(* highest priority, which must be unanimous ("explicitly conflicted and   *)
(* fail-closed", mesh.py:277); weights, lower priorities and the order of  *)
(* the inputs have no influence.                                           *)
PreflightIsTopVerdict ==
  offer.inputs # {} =>
    LET top == TopInputs(offer.inputs)
        d == preflight(offer.inputs)
    IN  /\ d.status = "conflict" <=> Cardinality(Verdict(top)) > 1
        /\ d.allow <=> \E v \in Allowing : \A i \in top : i.verdict = v
        /\ d.status # "conflict" => {i.source : i \in top} \subseteq d.selected

(* "The highest weighted group wins" (mesh.py:276): no group of inputs is  *)
(* heavier than the one that a recorded decision selected.                 *)
RankedByWeight ==
  \A i \in DOMAIN frames :
    frames[i].type = "mesh" /\ frames[i].decision.status # "conflict" =>
      LET won == {x \in offer.inputs : x.source \in frames[i].decision.selected}
      IN  \A v \in Verdict(offer.inputs) :
            Weight(Group(offer.inputs, v)) <= Weight(won)

(* The audit trail is in order: every authorization frame of a request     *)
(* with mesh inputs follows the mesh frame of that decision, and where     *)
(* frame ids are unique an identical decision is recorded, and authorizes, *)
(* once: a retry meets its own mesh frame.                                 *)
AuthorizationFollowsMesh ==
  \A i \in AuthorizationFrames : frames[i].inputs # {} =>
    LET mesh == {j \in 1..(i - 1) : /\ frames[j].type = "mesh"
                                    /\ frames[j].request = frames[i].request
                                    /\ frames[i].issued => frames[j].decision.allow}
    IN  /\ Cardinality(mesh) >= 1
        /\ UniqueFrames => Cardinality(mesh) <= 1 /\ \A k \in AuthorizationFrames : k = i
===============================================================================
