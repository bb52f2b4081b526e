------------------------------ MODULE MCGateways ------------------------------
(* Three tools: pay needs an approval, and the definition of bad is        *)
(* malformed.  The service has a strict or a lax policy, and a LangChain   *)
(* tool is built with the lax one.  The approver, who is an agent with a   *)
(* key as well, delegates one artifact to two others; one envelope was     *)
(* changed on the way, one names another action.                           *)
EXTENDS Gateways, TLC

CONSTANTS read, pay, bad, approver, issuer, a1, r1, r2

For(x, n) == [t \in Tools |-> IF t = x THEN n ELSE 0]

MCToolApprovals == For(pay, 1)

Strict == [allowed_actions |-> {read, pay}, required_approvals |-> For(pay, 1)]

Lax == [allowed_actions |-> {read, pay}, required_approvals |-> For(pay, 0)]

MCPolicies == {Strict, Lax}

Asking(x, approvals, n) == [action |-> x, approvals |-> approvals, count |-> n]

MCRequests == {Asking(read, {}, None), Asking(bad, {}, None),
               Asking(pay, {}, None), Asking(pay, {approver}, None),
               Asking(pay, {}, 1)}

MCArtifacts == a1 :> [request |-> Asking(pay, {approver}, None),
                      policy |-> Strict]

To(r, signer, action) == [delegator |-> approver, signer |-> signer,
                          recipient |-> r, action |-> action, artifact |-> a1]

MCDelegations == {To(r1, approver, pay), To(r2, approver, pay), To(r2, approver, read)}
                   \cup {To(r3, issuer, pay) : r3 \in Recipients \ {r1, r2}}

ThreadSymmetry == Permutations(Threads)
===============================================================================
