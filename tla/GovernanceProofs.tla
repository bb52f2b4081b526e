-------------------------- MODULE GovernanceProofs --------------------------
(***************************************************************************)
(* Proofs about policy and trust changes for every number of keys,         *)
(* proposals, policies, threads and restarts, and every quorum.            *)
(***************************************************************************)
EXTENDS Governance, FiniteSetTheorems, TLAPS

USE GovernanceConstants

(* The type invariant: whatever the threads interleave, a request past its  *)
(* first step has the signature, the proposal and the key its write needs.  *)
THEOREM GovernanceTyped == Spec => []TypeOK
<1>1. Init => TypeOK
  BY DEF Init, TypeOK
<1>2. TypeOK /\ [Next]_vars => TypeOK'
  <2> SUFFICES ASSUME TypeOK, [Next]_vars PROVE TypeOK'
    OBVIOUS
  <2>1. ASSUME NEW t \in Threads, Request(t) PROVE TypeOK'
    <3>1. ASSUME NEW id \in ProposalIds, NEW s \in Signature,
                 NEW policy \in PolicyIds, NEW content \in Contents,
                 propose(t, id, policy, content, s)
          PROVE TypeOK'
      BY <3>1 DEF propose, Begin, TypeOK, Signature, Proposal, OnProposals,
                  OnKeys, Operations, storeVars
    <3>2. ASSUME NEW id \in ProposalIds, NEW s \in Signature, approve(t, id, s)
          PROVE TypeOK'
      <4>1. proposals[id] \in Proposal
        BY <3>2 DEF approve, TypeOK
      <4> QED
        BY <3>2, <4>1 DEF approve, Begin, TypeOK, OnProposals, OnKeys,
                          Operations, storeVars
    <3>3. ASSUME NEW id \in ProposalIds, activate(t, id) PROVE TypeOK'
      <4>1. proposals[id] \in Proposal
        BY <3>3 DEF activate, TypeOK
      <4>2. [key |-> proposals[id].proposer, sig |-> proposals[id].sig]
              \in Signature
        BY <4>1 DEF Proposal, Signature
      <4> QED
        BY <3>3, <4>1, <4>2 DEF activate, Begin, TypeOK, OnProposals, OnKeys,
                                Operations, storeVars
    <3>4. ASSUME NEW k \in KeyIds, NEW s \in Signature,
                 NEW newKey \in PublicKeys, submit_add(t, k, newKey, s)
          PROVE TypeOK'
      BY <3>4 DEF submit_add, Begin, TypeOK, OnProposals, OnKeys, Operations,
                  storeVars
    <3>5. ASSUME NEW k \in KeyIds, NEW s \in Signature, submit_revoke(t, k, s)
          PROVE TypeOK'
      BY <3>5 DEF submit_revoke, Begin, TypeOK, OnProposals, OnKeys,
                  Operations, storeVars
    <3> QED
      BY <2>1, <3>1, <3>2, <3>3, <3>4, <3>5 DEF Request
  <2>2. ASSUME NEW t \in Threads, Serve(t) PROVE TypeOK'
    <3>1. CASE Verify(t)
      BY <3>1 DEF Verify, Rest, TypeOK, storeVars
    <3>2. CASE WriteProposal(t)
      BY <3>2 DEF WriteProposal, Write, Rest, TypeOK, OnProposals, OnKeys
    <3>3. CASE WriteApproval(t)
      <4>1. /\ subject[t] \in ProposalIds
            /\ signer[t].key \in KeyIds
            /\ copy[t] \in Proposal
        BY <3>3 DEF WriteApproval, Write, TypeOK, OnProposals, OnKeys,
                    Signature
      <4>2. [copy[t] EXCEPT !.approvals = @ \cup {signer[t].key}] \in Proposal
        BY <4>1 DEF Proposal
      <4>3. /\ proposals' \in [ProposalIds -> Proposal \cup {None}]
            /\ votes' \subseteq [id : ProposalIds, policy : PolicyIds,
                                 content : Contents, proposer : KeyIds,
                                 approver : KeyIds]
        BY <3>3, <4>1, <4>2 DEF WriteApproval, TypeOK, Proposal
      <4> QED
        BY <3>3, <4>3 DEF WriteApproval, Write, Rest, TypeOK
    <3>4. CASE WriteActivation(t)
      <4>1. subject[t] \in ProposalIds /\ copy[t] \in Proposal
        BY <3>4 DEF WriteActivation, Write, TypeOK, OnProposals, OnKeys
      <4>2. [copy[t] EXCEPT !.status = "activated"] \in Proposal
        BY <4>1 DEF Proposal
      <4>3. /\ proposals' \in [ProposalIds -> Proposal \cup {None}]
            /\ registry' \in [PolicyIds -> Contents \cup {None}]
        BY <3>4, <4>1, <4>2 DEF WriteActivation, TypeOK, Proposal
      <4> QED
        BY <3>4, <4>3 DEF WriteActivation, Write, Rest, TypeOK
    <3>5. CASE WriteAdd(t)
      BY <3>5 DEF WriteAdd, Write, Rest, TypeOK, OnProposals, OnKeys
    <3>6. CASE WriteRevoke(t)
      BY <3>6 DEF WriteRevoke, Write, Rest, TypeOK, OnProposals, OnKeys
    <3>7. CASE Audit(t) \/ AuditRaises(t)
      BY <3>7 DEF Audit, AuditRaises, Rest, TypeOK, OnProposals, OnKeys,
                  storeVars
    <3> QED
      BY <2>2, <3>1, <3>2, <3>3, <3>4, <3>5, <3>6, <3>7 DEF Serve
  <2>3. CASE Restart
    BY <2>3 DEF Restart, TypeOK
  <2>4. CASE UNCHANGED vars
    BY <2>4 DEF vars, TypeOK
  <2>5. CASE Direct
    BY <2>5 DEF Direct, register_policy, register_trusted_key, revoke_trusted_key,
                TypeOK, threadVars
  <2> QED
    BY <2>1, <2>2, <2>3, <2>4, <2>5 DEF Next
<1> QED
  BY <1>1, <1>2, PTL DEF Spec

-----------------------------------------------------------------------------
(* Votes are only added between restarts, so a quorum stays a quorum. *)
LEMMA QuorumStays ==
  ASSUME QuorumInv, TypeOK', DutiesSeparated', votes \subseteq votes',
         NEW policy \in PolicyIds \ direct, registry'[policy] = registry[policy],
         registry[policy] # Release[policy]
  PROVE  \E id \in ProposalIds, proposer \in KeyIds :
           LET voters == Voters(votes', id, policy, registry'[policy], proposer)
           IN  /\ Cardinality(voters) >= Required
               /\ Separation => proposer \notin voters
<1> PICK id \in ProposalIds, proposer \in KeyIds :
      Cardinality(Voters(votes, id, policy, registry[policy], proposer))
        >= Required
  BY DEF QuorumInv, RegisteredHadQuorum
<1> DEFINE old == Voters(votes, id, policy, registry[policy], proposer)
           new == Voters(votes', id, policy, registry'[policy], proposer)
<1>1. old \subseteq new /\ new \subseteq KeyIds
  BY DEF Voters
<1>2. IsFiniteSet(new)
  BY <1>1, FS_Subset
<1>3. /\ Cardinality(old) <= Cardinality(new)
      /\ Cardinality(old) \in Nat
      /\ Cardinality(new) \in Nat
  BY <1>1, <1>2, FS_Subset, FS_CardinalityType
<1>4. Separation => proposer \notin new
  BY DEF DutiesSeparated, Voters
<1> QED
  BY <1>3, <1>4

(* A step that gives no vote and writes no policy keeps QuorumInv, if what  *)
(* it leaves in the proposals and in the threads is backed.                 *)
LEMMA QuietStep ==
  ASSUME QuorumInv, TypeOK', UNCHANGED <<registry, votes, direct>>,
         \A id \in ProposalIds : proposals'[id] # None =>
            Backed(votes, id, proposals'[id]),
         \A t \in Threads : pc'[t] # "idle" /\ op'[t] \in OnProposals =>
            Backed(votes, subject'[t], copy'[t]),
         Separation => \A t \in Threads :
            pc'[t] # "idle" /\ op'[t] = "approve" =>
               signer'[t].key # copy'[t].proposer
  PROVE  QuorumInv'
<1>1. ProposalsBacked' /\ CopiesBacked'
  BY DEF ProposalsBacked, CopiesBacked
<1>2. DutiesSeparated'
  BY DEF QuorumInv, DutiesSeparated
<1>3. RegisteredHadQuorum'
  BY DEF QuorumInv, RegisteredHadQuorum
<1> QED
  BY <1>1, <1>2, <1>3 DEF QuorumInv

(* A request begins with a copy of a proposal whose approvals are backed,   *)
(* or with a draft that has none.                                           *)
LEMMA RequestStep ==
  ASSUME QuorumInv, TypeOK', NEW t \in Threads, Request(t)
  PROVE  QuorumInv'
<1>1. ASSUME NEW id, NEW operation, NEW s, NEW p, NEW newKey,
             Begin(t, operation, id, s, p, newKey),
             operation \in OnProposals => Backed(votes, id, p),
             Separation /\ operation = "approve" => s.key # p.proposer
      PROVE  QuorumInv'
  <2>1. /\ UNCHANGED <<registry, votes, direct, proposals>>
        /\ pc[t] = "idle" /\ op'[t] = operation /\ subject'[t] = id
        /\ signer'[t] = s /\ copy'[t] = p
        /\ \A u \in Threads \ {t} :
              /\ pc'[u] = pc[u] /\ op'[u] = op[u] /\ subject'[u] = subject[u]
              /\ signer'[u] = signer[u] /\ copy'[u] = copy[u]
    BY <1>1 DEF Begin, storeVars, QuorumInv, TypeOK
  <2>2. \A i \in ProposalIds : proposals'[i] # None =>
          Backed(votes, i, proposals'[i])
    BY <2>1 DEF QuorumInv, ProposalsBacked
  <2>3. \A u \in Threads : pc'[u] # "idle" /\ op'[u] \in OnProposals =>
          Backed(votes, subject'[u], copy'[u])
    BY <1>1, <2>1 DEF QuorumInv, CopiesBacked
  <2>4. Separation => \A u \in Threads :
          pc'[u] # "idle" /\ op'[u] = "approve" =>
             signer'[u].key # copy'[u].proposer
    BY <1>1, <2>1 DEF QuorumInv, DutiesSeparated
  <2> QED
    BY <2>1, <2>2, <2>3, <2>4, QuietStep
<1>2. ASSUME NEW id \in ProposalIds, NEW s \in Signature,
             NEW policy \in PolicyIds, NEW content \in Contents,
             propose(t, id, policy, content, s)
      PROVE  QuorumInv'
  <2> DEFINE draft == [policy |-> policy, content |-> content,
                       proposer |-> s.key, sig |-> s.sig,
                       status |-> "pending", approvals |-> {}]
  <2>1. Begin(t, "propose", id, s, draft, None)
    BY <1>2 DEF propose
  <2>2. Backed(votes, id, draft)
    BY DEF Backed
  <2> QED
    BY <1>1, <2>1, <2>2
<1>3. ASSUME NEW id \in ProposalIds, NEW s \in Signature, approve(t, id, s)
      PROVE  QuorumInv'
  <2>1. /\ Begin(t, "approve", id, s, proposals[id], None)
        /\ Backed(votes, id, proposals[id])
        /\ Separation => s.key # proposals[id].proposer
    BY <1>3 DEF approve, QuorumInv, ProposalsBacked
  <2> QED
    BY <1>1, <2>1
<1>4. ASSUME NEW id \in ProposalIds, activate(t, id) PROVE QuorumInv'
  <2>1. /\ Begin(t, "activate", id, [key |-> proposals[id].proposer,
                                     sig |-> proposals[id].sig],
                 proposals[id], None)
        /\ Backed(votes, id, proposals[id])
    BY <1>4 DEF activate, QuorumInv, ProposalsBacked
  <2> QED
    BY <1>1, <2>1
<1>5. ASSUME NEW k \in KeyIds, NEW s \in Signature, NEW newKey,
             submit_add(t, k, newKey, s) \/ submit_revoke(t, k, s)
      PROVE  QuorumInv'
  BY <1>1, <1>5 DEF submit_add, submit_revoke, OnProposals
<1> QED
  BY <1>2, <1>3, <1>4, <1>5 DEF Request

(* A vote is recorded together with the approval it stands for. *)
LEMMA ApprovalStep ==
  ASSUME QuorumInv, TypeOK', NEW t \in Threads, WriteApproval(t)
  PROVE  QuorumInv'
<1> DEFINE id == subject[t]
           k == signer[t].key
           p == copy[t]
           updated == [p EXCEPT !.approvals = @ \cup {k}]
           vote == [id |-> id, policy |-> p.policy, content |-> p.content,
                    proposer |-> p.proposer, approver |-> k]
<1>1. /\ pc[t] = "write" /\ op[t] = "approve"
      /\ id \in ProposalIds /\ p \in Proposal /\ k \in KeyIds
      /\ votes' = votes \cup {vote}
      /\ proposals' = [proposals EXCEPT ![id] = updated]
      /\ UNCHANGED <<registry, direct, op, subject, signer, copy>>
      /\ pc' = [pc EXCEPT ![t] = "audit"]
  BY DEF WriteApproval, Write, QuorumInv, TypeOK, OnProposals, OnKeys, Signature
<1>2. Backed(votes, id, p)
  BY <1>1 DEF QuorumInv, CopiesBacked, OnProposals
<1>3. \A i, policy, content, proposer :
        Voters(votes, i, policy, content, proposer)
          \subseteq Voters(votes', i, policy, content, proposer)
  BY <1>1 DEF Voters
<1>4. /\ updated.approvals = p.approvals \cup {k}
      /\ updated.policy = p.policy /\ updated.content = p.content
      /\ updated.proposer = p.proposer
  BY <1>1 DEF Proposal
<1>5. p.approvals \cup {k}
        \subseteq Voters(votes', id, p.policy, p.content, p.proposer)
  BY <1>1, <1>2, <1>3 DEF Voters, Backed
<1>6. ProposalsBacked'
  <2> SUFFICES ASSUME NEW i \in ProposalIds, proposals'[i] # None
               PROVE  Backed(votes', i, proposals'[i])
    BY DEF ProposalsBacked
  <2>1. CASE i = id
    BY <1>1, <1>4, <1>5, <2>1 DEF Backed, QuorumInv, TypeOK
  <2>2. CASE i # id
    <3>1. proposals'[i] = proposals[i] /\ Backed(votes, i, proposals[i])
      BY <1>1, <2>2 DEF QuorumInv, ProposalsBacked, TypeOK
    <3> QED
      BY <1>3, <3>1 DEF Backed
  <2> QED
    BY <2>1, <2>2
<1>7. CopiesBacked'
  <2> SUFFICES ASSUME NEW u \in Threads, pc'[u] # "idle",
                      op[u] \in OnProposals
               PROVE  Backed(votes', subject[u], copy[u])
    BY <1>1 DEF CopiesBacked
  <2>1. Backed(votes, subject[u], copy[u])
    BY <1>1 DEF QuorumInv, CopiesBacked, TypeOK
  <2> QED
    BY <1>1, <1>3, <2>1 DEF Backed
<1>8. DutiesSeparated'
  BY <1>1 DEF QuorumInv, DutiesSeparated, TypeOK
<1>9. RegisteredHadQuorum'
  BY <1>1, <1>8, QuorumStays DEF RegisteredHadQuorum
<1> QED
  BY <1>6, <1>7, <1>8, <1>9 DEF QuorumInv

(* An activation registers the content its quorum approved. *)
LEMMA ActivationStep ==
  ASSUME QuorumInv, TypeOK', NEW t \in Threads, WriteActivation(t)
  PROVE  QuorumInv'
<1> DEFINE id == subject[t]
           p == copy[t]
           done == [p EXCEPT !.status = "activated"]
<1>0. /\ pc[t] = "write" /\ op[t] = "activate"
      /\ id \in ProposalIds /\ p \in Proposal /\ Backed(votes, id, p)
      /\ UNCHANGED <<votes, direct>>
      /\ \A u \in Threads :
            pc'[u] # "idle" => /\ pc[u] # "idle" /\ op'[u] = op[u]
                               /\ subject'[u] = subject[u]
                               /\ signer'[u] = signer[u] /\ copy'[u] = copy[u]
  BY DEF WriteActivation, Write, Rest, QuorumInv, TypeOK, OnProposals, OnKeys,
         CopiesBacked
<1>1. CopiesBacked' /\ DutiesSeparated'
  BY <1>0 DEF QuorumInv, CopiesBacked, DutiesSeparated
<1>2. CASE UNCHANGED <<registry, proposals>>
  BY <1>0, <1>1, <1>2 DEF QuorumInv, ProposalsBacked, RegisteredHadQuorum
<1>3. CASE /\ Cardinality(p.approvals) >= Required
           /\ registry' = [registry EXCEPT ![p.policy] = p.content]
           /\ proposals' = [proposals EXCEPT ![id] = done]
  <2>1. /\ done.approvals = p.approvals /\ done.policy = p.policy
        /\ done.content = p.content /\ done.proposer = p.proposer
    BY <1>0 DEF Proposal
  <2>2. ProposalsBacked'
    BY <1>0, <1>3, <2>1 DEF QuorumInv, ProposalsBacked, Backed, TypeOK
  <2>3. ASSUME NEW policy \in PolicyIds \ direct, registry'[policy] # Release[policy]
        PROVE  \E i \in ProposalIds, proposer \in KeyIds :
                 LET voters == Voters(votes', i, policy, registry'[policy], proposer)
                 IN  /\ Cardinality(voters) >= Required
                     /\ Separation => proposer \notin voters
    <3>1. CASE policy = p.policy
      <4> DEFINE voters == Voters(votes', id, policy, p.content, p.proposer)
      <4>1. registry'[policy] = p.content /\ p.proposer \in KeyIds
        BY <1>0, <1>3, <3>1 DEF QuorumInv, TypeOK, Proposal
      <4>2. p.approvals \subseteq voters /\ voters \subseteq KeyIds
        BY <1>0, <3>1 DEF Backed, Voters
      <4>3. IsFiniteSet(voters) /\ IsFiniteSet(p.approvals)
        BY <4>2, FS_Subset
      <4>4. /\ Cardinality(p.approvals) <= Cardinality(voters)
            /\ Cardinality(p.approvals) \in Nat
            /\ Cardinality(voters) \in Nat
        BY <4>2, <4>3, FS_Subset, FS_CardinalityType
      <4>5. Separation => p.proposer \notin voters
        BY <1>1 DEF DutiesSeparated, Voters
      <4>6. Cardinality(voters) >= Required
        BY <1>3, <4>4
      <4> QED
        BY <1>0, <4>1, <4>5, <4>6
    <3>2. CASE policy # p.policy
      <4>1. registry'[policy] = registry[policy]
        BY <1>3, <3>2 DEF QuorumInv, TypeOK
      <4> QED
        BY <1>0, <1>1, <2>3, <4>1, QuorumStays
    <3> QED
      BY <3>1, <3>2
  <2>4. RegisteredHadQuorum'
    BY <1>0, <2>3 DEF RegisteredHadQuorum
  <2> QED
    BY <1>1, <2>2, <2>4 DEF QuorumInv
<1> QED
  BY <1>2, <1>3 DEF WriteActivation

(* The other steps keep the votes and the registry, and a thread either     *)
(* keeps what it read or finishes.                                          *)
LEMMA OtherStep ==
  ASSUME QuorumInv, TypeOK', NEW t \in Threads,
         \/ Verify(t) \/ WriteProposal(t) \/ WriteAdd(t) \/ WriteRevoke(t)
         \/ Audit(t) \/ AuditRaises(t)
  PROVE  QuorumInv'
<1>1. /\ UNCHANGED <<registry, votes, direct>>
      /\ \A u \in Threads :
            pc'[u] # "idle" => /\ pc[u] # "idle" /\ op'[u] = op[u]
                               /\ subject'[u] = subject[u]
                               /\ signer'[u] = signer[u] /\ copy'[u] = copy[u]
  BY DEF Verify, WriteProposal, WriteAdd, WriteRevoke, Audit, AuditRaises,
         Write, Rest, storeVars, QuorumInv, TypeOK
<1>2. \A i \in ProposalIds : proposals'[i] # None =>
        Backed(votes, i, proposals'[i])
  <2>1. CASE UNCHANGED proposals
    BY <2>1 DEF QuorumInv, ProposalsBacked
  <2>2. CASE WriteProposal(t)
    <3>1. /\ subject[t] \in ProposalIds
          /\ Backed(votes, subject[t], copy[t])
      BY <2>2 DEF WriteProposal, Write, QuorumInv, TypeOK, OnProposals, OnKeys,
                  CopiesBacked
    <3> QED
      BY <2>2, <3>1 DEF WriteProposal, QuorumInv, TypeOK, ProposalsBacked
  <2> QED
    BY <2>1, <2>2 DEF Verify, WriteAdd, WriteRevoke, Audit, AuditRaises,
                      storeVars
<1>3. \A u \in Threads : pc'[u] # "idle" /\ op'[u] \in OnProposals =>
        Backed(votes, subject'[u], copy'[u])
  BY <1>1 DEF QuorumInv, CopiesBacked
<1>4. Separation => \A u \in Threads :
        pc'[u] # "idle" /\ op'[u] = "approve" =>
           signer'[u].key # copy'[u].proposer
  BY <1>1 DEF QuorumInv, DutiesSeparated
<1> QED
  BY <1>1, <1>2, <1>3, <1>4, QuietStep

(* What the program writes itself is not an approval, nor counts as one. *)
LEMMA DirectStep ==
  ASSUME QuorumInv, TypeOK', Direct
  PROVE  QuorumInv'
<1>1. /\ UNCHANGED <<proposals, threadVars, votes>> /\ direct \subseteq direct'
      /\ \A policy \in PolicyIds \ direct' : registry'[policy] = registry[policy]
  BY DEF Direct, register_policy, register_trusted_key, revoke_trusted_key,
         QuorumInv, TypeOK
<1>2. ProposalsBacked' /\ CopiesBacked' /\ DutiesSeparated'
  BY <1>1 DEF QuorumInv, ProposalsBacked, CopiesBacked, DutiesSeparated, threadVars
<1>3. RegisteredHadQuorum'
  <2> SUFFICES ASSUME NEW policy \in PolicyIds \ direct',
                      registry'[policy] # Release[policy]
               PROVE  \E id \in ProposalIds, proposer \in KeyIds :
                        LET voters == Voters(votes', id, policy, registry'[policy],
                                             proposer)
                        IN  /\ Cardinality(voters) >= Required
                            /\ Separation => proposer \notin voters
    BY DEF RegisteredHadQuorum
  <2>1. policy \in PolicyIds \ direct /\ registry'[policy] = registry[policy]
    BY <1>1
  <2> QED
    BY <1>1, <1>2, <2>1, QuorumStays
<1> QED
  BY <1>2, <1>3 DEF QuorumInv

(* A restart forgets every proposal and goes back to the release. *)
LEMMA RestartStep ==
  ASSUME QuorumInv, TypeOK', Restart
  PROVE  QuorumInv'
BY DEF Restart, QuorumInv, ProposalsBacked, CopiesBacked, DutiesSeparated,
       RegisteredHadQuorum

(* The inductive invariant holds: the type, backed approvals in the store  *)
(* and in every thread, separated duties and the quorum itself.            *)
LEMMA QuorumInvariant == Spec => []QuorumInv
<1>1. Init => TypeOK /\ QuorumInv
  BY DEF Init, QuorumInv, TypeOK, ProposalsBacked, CopiesBacked,
         DutiesSeparated, RegisteredHadQuorum
<1>2. QuorumInv /\ TypeOK' /\ [Next]_vars => QuorumInv'
  <2> SUFFICES ASSUME QuorumInv, TypeOK', [Next]_vars PROVE QuorumInv'
    OBVIOUS
  <2>1. ASSUME NEW t \in Threads, Serve(t) PROVE QuorumInv'
    BY <2>1, ApprovalStep, ActivationStep, OtherStep DEF Serve
  <2>2. CASE UNCHANGED vars
    BY <2>2 DEF vars, QuorumInv, ProposalsBacked, CopiesBacked,
                DutiesSeparated, RegisteredHadQuorum
  <2> QED
    BY <2>1, <2>2, RequestStep, DirectStep, RestartStep DEF Next
<1> QED
  BY <1>1, <1>2, GovernanceTyped, PTL DEF Spec

(* No interleaving of proposals, approvals, activations and trust changes   *)
(* puts a policy into the registry that a quorum of keys did not approve,   *)
(* its proposer not counted (PolicyChangeManager.approve and activate);     *)
(* only ControlPlane.register_policy does.                                  *)
THEOREM GovernanceQuorum == Spec => []RegisteredHadQuorum
<1>1. QuorumInv => RegisteredHadQuorum
  BY DEF QuorumInv
<1> QED
  BY <1>1, QuorumInvariant, PTL
=============================================================================
