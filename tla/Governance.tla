------------------------------ MODULE Governance ------------------------------
(***************************************************************************)
(* Policy and trust changes: PolicyChangeManager and TrustChangeManager of *)
(* platform_admin.py over the policy registry and the trust store, served  *)
(* by the threads of one API process (http_api.py) and audited in the      *)
(* replay log (service.py).                                                *)
(*                                                                         *)
(* The managers hold no lock.  Every request reads what it needs, asks the *)
(* trust store about a signature, writes, and appends a governance frame;  *)
(* the trust store and the log are databases, so other threads run between *)
(* these steps.  Between two such calls a thread's work on the managers'   *)
(* dictionaries is one step.                                               *)
(*                                                                         *)
(* A key id names a public key, and Ed25519 is ideal: a signature verifies *)
(* when it was made with the public key the id now resolves to.  Signers   *)
(* sign what the prepare_* calls return; a signature over anything else    *)
(* fails and changes nothing.  A policy's digest is its content.           *)
(***************************************************************************)
EXTENDS Naturals, FiniteSets

CONSTANTS KeyIds,
          PublicKeys,
          InitialTrust,   \* the keys a deployment starts with
          ProposalIds,
          PolicyIds,
          Contents,
          Release,        \* the policies build_runtime_service registers
          Required,       \* required_approvals
          Separation,     \* enforce_separation_of_duties
          Threads,
          MaxRestarts,    \* bound of the number of restarts
          None

ASSUME GovernanceConstants ==
  /\ IsFiniteSet(KeyIds)
  /\ InitialTrust \in [KeyIds -> PublicKeys \cup {None}]
  /\ Release \in [PolicyIds -> Contents \cup {None}]
  /\ Required \in Nat \ {0}
  /\ Separation \in BOOLEAN
  /\ MaxRestarts \in Nat
  /\ None \notin PublicKeys
  /\ None \notin Contents
  /\ None \notin KeyIds

VARIABLES trust,      \* trust store: the public key of every known key id
          revoked,    \* trust store: revoked key ids
          registry,   \* policy registry
          proposals,  \* PolicyChangeManager._proposals
          activated,  \* proposals with a policy.activated frame in the log
          pc,         \* what a thread does next
          op,         \* the operation it serves
          subject,    \* proposal id or key id of the request
          signer,     \* key id and public key of the signature to verify
          copy,       \* the proposal it read, or drafted
          pub,        \* the public key submit_add would add
          restarts,
          votes,      \* history: approvals given, with what they were for
          direct      \* history: policies registered without a proposal

storeVars == <<trust, revoked, registry, proposals, activated>>
threadVars == <<pc, op, subject, signer, copy, pub>>
vars == <<trust, revoked, registry, proposals, activated, pc, op, subject,
          signer, copy, pub, restarts, votes, direct>>

Proposal == [policy : PolicyIds, content : Contents, proposer : KeyIds,
             sig : PublicKeys, status : {"pending", "activated"},
             approvals : SUBSET KeyIds]

OnProposals == {"propose", "approve", "activate"}

OnKeys == {"add", "revoke"}

Operations == OnProposals \cup OnKeys

Signature == [key : KeyIds, sig : PublicKeys]

Init == /\ trust = InitialTrust
        /\ revoked = {}
        /\ registry = Release
        /\ proposals = [id \in ProposalIds |-> None]
        /\ activated = {}
        /\ pc = [t \in Threads |-> "idle"]
        /\ op = [t \in Threads |-> None]
        /\ subject = [t \in Threads |-> None]
        /\ signer = [t \in Threads |-> None]
        /\ copy = [t \in Threads |-> None]
        /\ pub = [t \in Threads |-> None]
        /\ restarts = 0
        /\ votes = {}
        /\ direct = {}

-----------------------------------------------------------------------------
(* Requests: what a thread reads before it asks the trust store *)

resolve(k) == IF k \in revoked THEN None ELSE trust[k]

(* The signature verifies under the key its id resolves to now. *)
verify(s) == resolve(s.key) = s.sig

Begin(t, operation, about, s, proposal, newKey) ==
  /\ pc[t] = "idle"
  /\ pc' = [pc EXCEPT ![t] = "verify"]
  /\ op' = [op EXCEPT ![t] = operation]
  /\ subject' = [subject EXCEPT ![t] = about]
  /\ signer' = [signer EXCEPT ![t] = s]
  /\ copy' = [copy EXCEPT ![t] = proposal]
  /\ pub' = [pub EXCEPT ![t] = newKey]
  /\ UNCHANGED <<storeVars, restarts, votes, direct>>

propose(t, id, policy, content, s) ==
  /\ resolve(s.key) # None
  /\ Begin(t, "propose", id, s,
           [policy |-> policy, content |-> content, proposer |-> s.key,
            sig |-> s.sig, status |-> "pending", approvals |-> {}], None)

approve(t, id, s) ==
  /\ proposals[id] # None
  /\ proposals[id].status = "pending"
  /\ Separation => s.key # proposals[id].proposer
  /\ s.key \notin proposals[id].approvals
  /\ resolve(s.key) # None
  /\ Begin(t, "approve", id, s, proposals[id], None)

(* The proposal's own signature is verified again. *)
activate(t, id) ==
  /\ proposals[id] # None
  /\ proposals[id].status = "pending"
  /\ Begin(t, "activate", id,
           [key |-> proposals[id].proposer, sig |-> proposals[id].sig],
           proposals[id], None)

submit_add(t, k, newKey, s) == Begin(t, "add", k, s, None, newKey)

submit_revoke(t, k, s) == Begin(t, "revoke", k, s, None, None)

-----------------------------------------------------------------------------
(* The signature, the write, the audit frame *)

Rest(t) == /\ pc' = [pc EXCEPT ![t] = "idle"]
           /\ op' = [op EXCEPT ![t] = None]
           /\ subject' = [subject EXCEPT ![t] = None]
           /\ signer' = [signer EXCEPT ![t] = None]
           /\ copy' = [copy EXCEPT ![t] = None]
           /\ pub' = [pub EXCEPT ![t] = None]

Verify(t) ==
  /\ pc[t] = "verify"
  /\ IF verify(signer[t])
     THEN /\ pc' = [pc EXCEPT ![t] = "write"]
          /\ UNCHANGED <<op, subject, signer, copy, pub>>
     ELSE Rest(t)
  /\ UNCHANGED <<storeVars, restarts, votes, direct>>

(* A write that raises ends the request; one that succeeds is audited. *)
Write(t, operation, succeeds) ==
  /\ pc[t] = "write"
  /\ op[t] = operation
  /\ IF succeeds
     THEN /\ pc' = [pc EXCEPT ![t] = "audit"]
          /\ UNCHANGED <<op, subject, signer, copy, pub>>
     ELSE Rest(t)
  /\ UNCHANGED <<activated, restarts>>

(* Mutant of WriteProposal: a second proposal under an id amends the first  *)
(* and keeps its approvals.                                                 *)
WriteProposalAmends(t) ==
  /\ Write(t, "propose", TRUE)
  /\ proposals' = [proposals EXCEPT ![subject[t]] =
                     IF @ = None THEN copy[t]
                     ELSE [copy[t] EXCEPT !.approvals = @ \cup
                             proposals[subject[t]].approvals]]
  /\ UNCHANGED <<trust, revoked, registry, votes, direct>>

(* _register_new_proposal: an id that is taken is refused. *)
WriteProposal(t) ==
  LET new == proposals[subject[t]] = None
  IN  /\ Write(t, "propose", new)
      /\ proposals' = IF new THEN [proposals EXCEPT ![subject[t]] = copy[t]]
                             ELSE proposals
      /\ UNCHANGED <<trust, revoked, registry, votes, direct>>

(* The proposal that was read is written back with one approval more. *)
WriteApproval(t) ==
  /\ Write(t, "approve", TRUE)
  /\ proposals' = [proposals EXCEPT ![subject[t]] =
                     [copy[t] EXCEPT !.approvals = @ \cup {signer[t].key}]]
  /\ votes' = votes \cup {[id |-> subject[t], policy |-> copy[t].policy,
                           content |-> copy[t].content,
                           proposer |-> copy[t].proposer,
                           approver |-> signer[t].key]}
  /\ UNCHANGED <<trust, revoked, registry, direct>>

(* A quorum, and registry.register, which refuses other content for an id. *)
WriteActivation(t) ==
  LET p == copy[t]
      accepted == /\ Cardinality(p.approvals) >= Required
                  /\ registry[p.policy] \in {None, p.content}
  IN  /\ Write(t, "activate", accepted)
      /\ IF accepted
         THEN /\ registry' = [registry EXCEPT ![p.policy] = p.content]
              /\ proposals' = [proposals EXCEPT ![subject[t]] =
                                 [p EXCEPT !.status = "activated"]]
         ELSE UNCHANGED <<registry, proposals>>
      /\ UNCHANGED <<trust, revoked, votes, direct>>

(* TrustStore.add: a key id that is trusted already is refused. *)
WriteAdd(t) ==
  LET k == subject[t]
      accepted == resolve(k) = None
  IN  /\ Write(t, "add", accepted)
      /\ trust' = IF accepted THEN [trust EXCEPT ![k] = pub[t]] ELSE trust
      /\ revoked' = IF accepted THEN revoked \ {k} ELSE revoked
      /\ UNCHANGED <<registry, proposals, votes, direct>>

(* TrustStore.revoke: an unknown key id is refused. *)
WriteRevoke(t) ==
  LET k == subject[t]
      accepted == trust[k] # None
  IN  /\ Write(t, "revoke", accepted)
      /\ revoked' = IF accepted THEN revoked \cup {k} ELSE revoked
      /\ UNCHANGED <<trust, registry, proposals, votes, direct>>

(* _audit: of the governance frames only policy.activated is told apart.   *)
Audit(t) ==
  /\ pc[t] = "audit"
  /\ activated' = IF op[t] = "activate" THEN activated \cup {subject[t]}
                                        ELSE activated
  /\ Rest(t)
  /\ UNCHANGED <<trust, revoked, registry, proposals, restarts, votes, direct>>

(* The log refuses the frame: the caller sees an error, the change stays. *)
AuditRaises(t) ==
  /\ pc[t] = "audit"
  /\ Rest(t)
  /\ UNCHANGED <<storeVars, restarts, votes, direct>>

Serve(t) == \/ Verify(t)
            \/ WriteProposal(t)
            \/ WriteApproval(t)
            \/ WriteActivation(t)
            \/ WriteAdd(t)
            \/ WriteRevoke(t)
            \/ Audit(t)
            \/ AuditRaises(t)

(* Proposals and activated policies live in memory; trust and the log do   *)
(* not.                                                                    *)
Restart ==
  /\ restarts < MaxRestarts
  /\ restarts' = restarts + 1
  /\ proposals' = [id \in ProposalIds |-> None]
  /\ registry' = Release
  /\ votes' = {}
  /\ direct' = {}
  /\ pc' = [t \in Threads |-> "idle"]
  /\ op' = [t \in Threads |-> None]
  /\ subject' = [t \in Threads |-> None]
  /\ signer' = [t \in Threads |-> None]
  /\ copy' = [t \in Threads |-> None]
  /\ pub' = [t \in Threads |-> None]
  /\ UNCHANGED <<trust, revoked, activated>>

(***************************************************************************)
(* What a program that has the ControlPlane object may call, past the      *)
(* managers: no route of the API does, and no signature is asked for.      *)
(***************************************************************************)
register_policy(policy, content) ==
  /\ registry[policy] = None
  /\ registry' = [registry EXCEPT ![policy] = content]
  /\ direct' = direct \cup {policy}
  /\ UNCHANGED <<trust, revoked, proposals, activated, threadVars, restarts, votes>>

register_trusted_key(k, newKey) ==
  /\ resolve(k) = None
  /\ trust' = [trust EXCEPT ![k] = newKey]
  /\ revoked' = revoked \ {k}
  /\ UNCHANGED <<registry, proposals, activated, threadVars, restarts, votes, direct>>

revoke_trusted_key(k) ==
  /\ trust[k] # None
  /\ revoked' = revoked \cup {k}
  /\ UNCHANGED <<trust, registry, proposals, activated, threadVars, restarts, votes,
                 direct>>

Direct ==
  \/ \E policy \in PolicyIds, content \in Contents : register_policy(policy, content)
  \/ \E k \in KeyIds : \/ \E newKey \in PublicKeys : register_trusted_key(k, newKey)
                        \/ revoke_trusted_key(k)

Request(t) ==
  \/ \E id \in ProposalIds, s \in Signature :
       \/ \E policy \in PolicyIds, content \in Contents :
             propose(t, id, policy, content, s)
       \/ approve(t, id, s)
  \/ \E id \in ProposalIds : activate(t, id)
  \/ \E k \in KeyIds, s \in Signature :
       \/ \E newKey \in PublicKeys : submit_add(t, k, newKey, s)
       \/ submit_revoke(t, k, s)

Next == \/ \E t \in Threads : Request(t) \/ Serve(t)
        \/ Direct
        \/ Restart

Spec == Init /\ [][Next]_vars

-----------------------------------------------------------------------------
(* Properties *)

(* Every variable holds a value of its kind, and a thread past Begin has   *)
(* what its write will need.                                               *)
TypeOK ==
  /\ trust \in [KeyIds -> PublicKeys \cup {None}]
  /\ revoked \subseteq KeyIds
  /\ registry \in [PolicyIds -> Contents \cup {None}]
  /\ proposals \in [ProposalIds -> Proposal \cup {None}]
  /\ activated \subseteq ProposalIds
  /\ pc \in [Threads -> {"idle", "verify", "write", "audit"}]
  /\ op \in [Threads -> Operations \cup {None}]
  /\ subject \in [Threads -> ProposalIds \cup KeyIds \cup {None}]
  /\ signer \in [Threads -> Signature \cup {None}]
  /\ copy \in [Threads -> Proposal \cup {None}]
  /\ pub \in [Threads -> PublicKeys \cup {None}]
  /\ restarts \in Nat
  /\ votes \subseteq [id : ProposalIds, policy : PolicyIds,
                      content : Contents, proposer : KeyIds,
                      approver : KeyIds]
  /\ direct \subseteq PolicyIds
  /\ \A t \in Threads : pc[t] # "idle" =>
       /\ signer[t] \in Signature
       /\ \/ /\ op[t] \in OnProposals
             /\ subject[t] \in ProposalIds
             /\ copy[t] \in Proposal
          \/ /\ op[t] \in OnKeys
             /\ subject[t] \in KeyIds
             /\ op[t] = "add" => pub[t] \in PublicKeys

(* Who gave one of these votes to this content, proposed by this key, under *)
(* this proposal id.                                                        *)
Voters(given, id, policy, content, proposer) ==
  {k \in KeyIds : [id |-> id, policy |-> policy, content |-> content,
                   proposer |-> proposer, approver |-> k] \in given}

(* However requests of any kind interleave, a policy that is not part of   *)
(* the release, and that the program itself did not register, is in the    *)
(* registry only if a quorum of keys approved this very content under one  *)
(* proposal, its proposer not among them (approve, approve_signed,         *)
(* activate).                                                              *)
RegisteredHadQuorum ==
  \A policy \in PolicyIds \ direct : registry[policy] # Release[policy] =>
     \E id \in ProposalIds, proposer \in KeyIds :
        LET voters == Voters(votes, id, policy, registry[policy], proposer)
        IN  /\ Cardinality(voters) >= Required
            /\ Separation => proposer \notin voters

-----------------------------------------------------------------------------
(* The inductive invariant behind RegisteredHadQuorum *)

(* The approvals a proposal carries were given for it. *)
Backed(given, id, p) ==
  p.approvals \subseteq Voters(given, id, p.policy, p.content, p.proposer)

ProposalsBacked ==
  \A id \in ProposalIds : proposals[id] # None =>
     Backed(votes, id, proposals[id])

CopiesBacked ==
  \A t \in Threads : pc[t] # "idle" /\ op[t] \in OnProposals =>
     Backed(votes, subject[t], copy[t])

DutiesSeparated ==
  Separation =>
    /\ \A v \in votes : v.approver # v.proposer
    /\ \A t \in Threads : pc[t] # "idle" /\ op[t] = "approve" =>
          signer[t].key # copy[t].proposer

QuorumInv == /\ TypeOK
             /\ ProposalsBacked
             /\ CopiesBacked
             /\ DutiesSeparated
             /\ RegisteredHadQuorum
=============================================================================
