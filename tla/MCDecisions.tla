----------------------------- MODULE MCDecisions ------------------------------
(* Instances of Decisions for TLC.                                         *)
EXTENDS Decisions, TLC

CONSTANTS s1, s2, s3, allow, allow_other, deny, act, other, prod, dev, t1, t2,
          ann, bob, worker

MCPrincipals == worker :> [tenant |-> t1, actions |-> {act},
                           environments |-> {prod}]

MCDeployment == [environments |-> {prod, dev}, require_tenant |-> TRUE,
                 required_roles |-> TRUE, mesh_required_actions |-> {act},
                 mesh_required_environments |-> {prod},
                 mesh_required_sources |-> {}, min_mesh_inputs |-> 0]

(* Its requirements are for one action, as the keys of its mappings.       *)
For(x, none) == [a \in Actions |-> IF a = act THEN x ELSE none]

MCPolicy == [allowed_actions |-> {act}, exact_environment |-> prod,
             required_approvals |-> For(1, 0),
             required_mesh_inputs |-> For(1, 0),
             required_mesh_sources |-> For({s1}, {}),
             mesh_required_actions |-> {act},
             mesh_required_environments |-> {dev}]

MCInputs == [source : Sources, verdict : Verdicts, weight : {1, 3},
             priority : {0, 1}]

GoodIdentity == [tenant |-> t1, environment |-> prod, principal |-> worker,
                 roles |-> TRUE]

GoodRequest == [action |-> act, tenant |-> t2, approvals |-> {ann},
                approval_count |-> Unset, fields |-> TRUE]

(* Every set of up to three inputs, for one request.                       *)
MeshOffers == {[identity |-> GoodIdentity, request |-> GoodRequest,
                inputs |-> {i, j, k}] : i, j, k \in MCInputs}

(* Every identity and request, with few inputs.                            *)
PlatformOffers ==
  [identity : [tenant : {t1, t2, Unset}, environment : {prod, dev},
               principal : {worker, Unset}, roles : BOOLEAN],
   request : [action : {act, other}, tenant : {t2, Unset},
              approvals : SUBSET {ann, bob}, approval_count : {0, 1, Unset},
              fields : BOOLEAN],
   inputs : {{}, {[source |-> s1, verdict |-> allow, weight |-> 1,
                   priority |-> 0]}}]

MCOffers == MeshOffers \cup PlatformOffers
===============================================================================
