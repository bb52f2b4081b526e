---------------------------- MODULE BarrierProofs ----------------------------
(***************************************************************************)
(* Proofs about the execution barrier for every number of processes,       *)
(* threads, nonces, keys, policies and crashes.                            *)
(***************************************************************************)
EXTENDS Barrier, SequenceTheorems, TLAPS

(* An altered copy of an artifact is of the type of artifacts. *)
LEMMA DeliverableType ==
  ASSUME artifacts \subseteq Artifact
  PROVE  Deliverable \subseteq Artifact
BY DEF Deliverable, Artifact

(* A step of a check keeps the thread's variables well typed. *)
LEMMA CheckType ==
  ASSUME TypeOK, NEW t \in Threads, NEW holds \in BOOLEAN,
         NEW step \in {"issuer", "replay", "policy", "claim"},
         NEW next \in {"replay", "policy", "claim", "run"},
         Check(t, step, holds, next)
  PROVE  /\ pc' \in [Threads -> {"idle", "issuer", "replay", "policy", "claim",
                                 "run", "record"}]
         /\ art' \in [Threads -> Artifact \cup {None}]
         /\ outcome' \in [Threads -> {"completed", "failed", None}]
         /\ \A u \in Threads : pc'[u] # "idle" => art'[u] \in Artifact
         /\ \A u \in Threads : pc'[u] = "record" => outcome'[u] # None
BY DEF TypeOK, Check, Become, Finish

(* The type invariant of the barrier: in particular a thread between the   *)
(* first check and the execution frame always has an artifact, and one     *)
(* about to write the frame knows how the handler ended.                   *)
THEOREM BarrierTyped == Spec => []TypeOK
<1>1. Init => TypeOK
  BY BarrierConstants DEF Init, TypeOK, Artifact, Frame
<1>2. TypeOK /\ [Next]_vars => TypeOK'
  <2> SUFFICES ASSUME TypeOK, [Next]_vars PROVE TypeOK'
    OBVIOUS
  <2> USE BarrierConstants
  <2>0. ASSUME NEW p \in Procs, NEW r \in Requests, NEW id \in PolicyIds,
               NEW ttl \in Ttls, NEW n \in Nonces, NEW signed \in BOOLEAN,
               authorize(p, r, id, ttl, n, signed)
        PROVE  /\ frames' \in Seq(Frame)
               /\ view' \in [Procs -> Nat]
               /\ artifacts' \subseteq Artifact
    <3>1. CASE Issue(p, r, id, ttl, n, signed)
      <4> DEFINE a == [nonce |-> n, request |-> r, policy |-> id,
                       digest |-> policies[p][id], expires |-> clock + ttl,
                       key |-> signer[p]]
      <4>1. a \in Artifact
        BY <3>1 DEF Issue, TypeOK, Artifact
      <4>2. AuthorizationFrame(n, "issued", {a}) \in Frame
        BY <4>1 DEF AuthorizationFrame, Frame
      <4> QED
        BY <3>1, <4>1, <4>2 DEF Issue, append, TypeOK
    <3>2. CASE Refuse(p, r, id, n)
      <4>1. AuthorizationFrame(n, "denied", {}) \in Frame
        BY DEF AuthorizationFrame, Frame
      <4> QED
        BY <3>2, <4>1 DEF Refuse, append, TypeOK
    <3> QED
      BY <2>0, <3>1, <3>2 DEF authorize
  <2>1. CASE Authorize
    <3> PICK p \in Procs, r \in Requests, id \in PolicyIds, ttl \in Ttls,
             n \in Nonces, signed \in BOOLEAN :
               authorize(p, r, id, ttl, n, signed) /\ UNCHANGED compensations
      BY <2>1 DEF Authorize
    <3> QED
      BY <2>0 DEF authorize, TypeOK, trustVars, procVars, threadVars
  <2>2. CASE Compensate
    <3> PICK p \in Procs, failed \in Nonces : authorize_compensation(p, failed)
      BY <2>2 DEF Compensate
    <3> PICK r \in Requests, id \in PolicyIds, ttl \in Ttls, n \in Nonces,
             signed \in BOOLEAN :
               /\ authorize(p, r, id, ttl, n, signed)
               /\ compensations' = compensations \cup {<<failed, n>>}
      BY DEF authorize_compensation
    <3>1. compensations' \subseteq Nonces \X Nonces
      BY DEF TypeOK
    <3>2. /\ frames' \in Seq(Frame)
          /\ view' \in [Procs -> Nat]
          /\ artifacts' \subseteq Artifact
      BY <2>0
    <3>3. UNCHANGED <<used, clock, crashes, ran, effects, lost, keys, revoked,
                      policies, signer, pc, art, outcome>>
      BY DEF authorize, trustVars, procVars, threadVars
    <3> QED
      BY <3>1, <3>2, <3>3 DEF TypeOK
  <2>3. CASE Deliver
    <3> PICK t \in Threads, a \in Deliverable : execute(t, a)
      BY <2>3 DEF Deliver
    <3>1. a \in Artifact
      BY DeliverableType DEF TypeOK
    <3> QED
      BY <3>1 DEF execute, Become, TypeOK, logVars, trustVars, procVars,
                  historyVars
  <2>4. ASSUME NEW t \in Threads, Serve(t) PROVE TypeOK'
    <3>1. CASE CheckIssuer(t)
      <4>1. IssuerValid(art[t]) \in BOOLEAN
        BY DEF IssuerValid
      <4> QED
        BY <3>1, <4>1, CheckType
           DEF CheckIssuer, TypeOK, logVars, trustVars, procVars, historyVars
    <3>2. CASE CheckReplay(t)
      <4>1. ReplayValid(art[t]) \in BOOLEAN
        BY DEF ReplayValid
      <4> QED
        BY <3>2, <4>1, CheckType
           DEF CheckReplay, TypeOK, trustVars, procVars, historyVars
    <3>3. CASE CheckPolicy(t)
      <4>1. PolicyValid(ProcOf[t], art[t]) \in BOOLEAN
        BY DEF PolicyValid
      <4> QED
        BY <3>3, <4>1, CheckType
           DEF CheckPolicy, TypeOK, logVars, trustVars, procVars, historyVars
    <3>4. CASE claim_nonce(t)
      <4>1. art[t].nonce \in Nonces
        BY <3>4 DEF claim_nonce, Check, TypeOK, Artifact
      <4> QED
        BY <3>4, <4>1, CheckType
           DEF claim_nonce, TypeOK, trustVars, procVars, historyVars
    <3>5. ASSUME NEW status \in {"completed", "failed"}, RunAction(t, status)
          PROVE TypeOK'
      <4>1. art[t] \in Artifact /\ art[t].nonce \in Nonces
        BY <3>5 DEF RunAction, TypeOK, Artifact
      <4>2. /\ UNCHANGED <<frames, used, view, artifacts, keys, revoked,
                           policies, signer, clock, crashes, lost, art,
                           compensations>>
            /\ pc' = [pc EXCEPT ![t] = "record"]
            /\ outcome' = [outcome EXCEPT ![t] = status]
            /\ ran' = [ran EXCEPT ![art[t].nonce] = @ + 1]
            /\ effects' = effects \cup {art[t]}
        BY <3>5 DEF RunAction, Become, logVars, trustVars, procVars
      <4>3. ran' \in [Nonces -> Nat] /\ effects' \subseteq Artifact
        BY <4>1, <4>2 DEF TypeOK
      <4>4. /\ pc' \in [Threads -> {"idle", "issuer", "replay", "policy",
                                    "claim", "run", "record"}]
            /\ outcome' \in [Threads -> {"completed", "failed", None}]
            /\ \A u \in Threads : pc'[u] # "idle" => art'[u] \in Artifact
            /\ \A u \in Threads : pc'[u] = "record" => outcome'[u] # None
        BY <4>1, <4>2 DEF TypeOK
      <4> QED
        BY <4>2, <4>3, <4>4 DEF TypeOK
    <3>6. CASE AppendExecution(t)
      <4>1. art[t].nonce \in Nonces /\ outcome[t] \in {"completed", "failed"}
        BY <3>6 DEF AppendExecution, TypeOK, Artifact
      <4>2. ExecutionFrame(art[t].nonce, outcome[t]) \in Frame
        BY <4>1 DEF ExecutionFrame, Frame
      <4> QED
        BY <3>6, <4>2 DEF AppendExecution, append, Finish, Become, TypeOK,
                          trustVars, procVars, historyVars
    <3>7. CASE AppendRaises(t)
      <4>1. art[t].nonce \in Nonces
        BY <3>7 DEF AppendRaises, TypeOK, Artifact
      <4> QED
        BY <3>7, <4>1 DEF AppendRaises, Finish, Become, TypeOK, logVars,
                          trustVars, procVars
    <3>8. CASE AppendUnacknowledged(t)
      <4>1. art[t].nonce \in Nonces /\ outcome[t] \in {"completed", "failed"}
        BY <3>8 DEF AppendUnacknowledged, TypeOK, Artifact
      <4>2. ExecutionFrame(art[t].nonce, outcome[t]) \in Frame
        BY <4>1 DEF ExecutionFrame, Frame
      <4> QED
        BY <3>8, <4>2 DEF AppendUnacknowledged, Finish, Become, TypeOK,
                          trustVars, procVars, historyVars
    <3>9. ASSUME NEW committed \in BOOLEAN, ClaimRaises(t, committed)
          PROVE TypeOK'
      <4>1. art[t].nonce \in Nonces
        BY <3>9 DEF ClaimRaises, TypeOK, Artifact
      <4> QED
        BY <3>9, <4>1 DEF ClaimRaises, Finish, Become, TypeOK, trustVars,
                          procVars
    <3> QED
      BY <2>4, <3>1, <3>2, <3>3, <3>4, <3>5, <3>6, <3>7, <3>8, <3>9 DEF Serve
  <2>5. CASE Operate
    <3>1. ASSUME NEW k \in Keys, add(k) \/ revoke(k) PROVE TypeOK'
      BY <3>1 DEF add, revoke, TypeOK, logVars, procVars, threadVars,
                  historyVars
    <3>2. ASSUME NEW p \in Procs, NEW id \in PolicyIds, NEW c \in Contents,
                 register(p, id, c)
          PROVE TypeOK'
      BY <3>2 DEF register, TypeOK, logVars, trustVars, threadVars,
                  historyVars
    <3>3. ASSUME NEW p \in Procs, refresh(p) PROVE TypeOK'
      BY <3>3 DEF refresh, TypeOK, trustVars, procVars, threadVars,
                  historyVars
    <3>4. ASSUME NEW p \in Procs,
                 NEW release \in [PolicyIds -> Contents \cup {None}],
                 NEW k \in Keys, CrashRestart(p, release, k)
          PROVE TypeOK'
      <4>1. /\ used' \subseteq Nonces
            /\ lost' \subseteq Nonces
            /\ keys' \subseteq Keys
            /\ revoked' \subseteq Keys
        BY <3>4 DEF CrashRestart, RecoveredNonces, TypeOK, trustVars
      <4>2. /\ pc' \in [Threads -> {"idle", "issuer", "replay", "policy",
                                    "claim", "run", "record"}]
            /\ art' \in [Threads -> Artifact \cup {None}]
            /\ outcome' \in [Threads -> {"completed", "failed", None}]
            /\ \A t \in Threads : pc'[t] # "idle" => art'[t] \in Artifact
            /\ \A t \in Threads : pc'[t] = "record" => outcome'[t] # None
        BY <3>4 DEF CrashRestart, TypeOK
      <4>3. /\ crashes' \in Nat
            /\ view' \in [Procs -> Nat]
            /\ signer' \in [Procs -> Keys]
            /\ policies' \in [Procs -> [PolicyIds -> Contents \cup {None}]]
        BY <3>4 DEF CrashRestart, TypeOK
      <4> QED
        BY <3>4, <4>1, <4>2, <4>3 DEF CrashRestart, TypeOK
    <3>5. CASE Tick
      BY <3>5 DEF Tick, TypeOK, logVars, trustVars, procVars, threadVars,
                  historyVars
    <3> QED
      BY <2>5, <3>1, <3>2, <3>3, <3>4, <3>5 DEF Operate
  <2>6. CASE UNCHANGED vars
    BY <2>6 DEF vars, TypeOK
  <2> QED
    BY <2>1, <2>2, <2>3, <2>4, <2>5, <2>6 DEF Next
<1> QED
  BY <1>1, <1>2, PTL DEF Spec

-----------------------------------------------------------------------------
(* What an append does to the log. *)
LEMMA AppendFacts ==
  ASSUME frames \in Seq(Frame), NEW f \in Frame,
         frames' = Append(frames, f)
  PROVE  /\ Len(frames) \in Nat
         /\ Len(frames') = Len(frames) + 1
         /\ \A i \in 1..Len(frames) : frames'[i] = frames[i]
         /\ frames'[Len(frames) + 1] = f
OBVIOUS

(* A thread's step outside the claim: it keeps its place, or starts, gives *)
(* up or passes a check with a signed artifact.                            *)
QuietThread(t) ==
  \/ pc'[t] = pc[t] /\ art'[t] = art[t]
  \/ /\ ~ Holds(t)
     /\ \/ pc'[t] \in {"idle", "issuer"}
        \/ /\ pc'[t] \in {"replay", "policy", "claim"}
           /\ art'[t] \in artifacts

(* Steps that touch neither claims, frames nor effects keep the invariant. *)
LEMMA QuietStep ==
  ASSUME IInv, TypeOK',
         UNCHANGED <<frames, used, artifacts, ran, effects, lost,
                     compensations>>,
         \A p \in Procs : view'[p] <= Len(frames),
         \A t \in Threads : QuietThread(t)
  PROVE  IInv'
<1>1. ClaimsInv'
  BY DEF IInv, ClaimsInv, QuietThread, Holds
<1>2. ArtifactsInv'
  <2>1. \A a : FrameMatches(a)' <=> FrameMatches(a)
    BY DEF FrameMatches
  <2> QED
    BY <2>1 DEF IInv, ArtifactsInv, QuietThread, Holds, decide
<1>3. LogInv'
  <2>1. AuditConsistent'
    BY DEF IInv, LogInv, AuditConsistent
  <2> QED
    BY <2>1 DEF IInv, LogInv, QuietThread, Holds
<1>4. NoSilentRun'
  BY DEF IInv, NoSilentRun, Logged, QuietThread, Holds
<1>5. CompensationSound'
  BY DEF IInv, CompensationSound
<1> QED
  BY <1>1, <1>2, <1>3, <1>4, <1>5 DEF IInv

(* Granting or denying an authorization appends one authorization frame    *)
(* for a nonce that has none.                                              *)
LEMMA AuthorizeStep ==
  ASSUME IInv, TypeOK', NEW p \in Procs, NEW r \in Requests,
         NEW id \in PolicyIds, NEW ttl \in Ttls, NEW n \in Nonces,
         NEW signed \in BOOLEAN, authorize(p, r, id, ttl, n, signed)
  PROVE  /\ ClaimsInv' /\ ArtifactsInv' /\ LogInv' /\ NoSilentRun'
         /\ Len(frames') = Len(frames) + 1
         /\ \A i \in 1..Len(frames) : frames'[i] = frames[i]
         /\ frames'[Len(frames) + 1].type = "authorization"
         /\ frames'[Len(frames) + 1].nonce = n
<1> USE BarrierConstants
<1>a. PICK a : a = [nonce |-> n, request |-> r, policy |-> id,
                   digest |-> policies[p][id], expires |-> clock + ttl,
                   key |-> signer[p]]
  OBVIOUS
<1>f. PICK f : f = IF Issue(p, r, id, ttl, n, signed)
                   THEN AuthorizationFrame(n, "issued", {a})
                   ELSE AuthorizationFrame(n, "denied", {})
  OBVIOUS
<1>1. /\ frames' = Append(frames, f)
      /\ view' = [view EXCEPT ![p] = Len(frames) + 1]
      /\ \/ artifacts' = artifacts
         \/ /\ artifacts' = artifacts \cup {a}
            /\ f = AuthorizationFrame(n, "issued", {a})
            /\ r \in policies[p][id]
      /\ UNCHANGED <<used, ran, effects, lost, pc, art>>
  BY <1>a, <1>f DEF authorize, Issue, Refuse, append, decide, threadVars
<1>2. a \in Artifact \/ f = AuthorizationFrame(n, "denied", {})
  BY <1>a, <1>f DEF IInv, TypeOK, Artifact, Issue
<1>3. f \in Frame
  BY <1>f, <1>2 DEF AuthorizationFrame, Frame
<1>4. /\ Len(frames) \in Nat
      /\ Len(frames') = Len(frames) + 1
      /\ \A i \in 1..Len(frames) : frames'[i] = frames[i]
      /\ frames'[Len(frames) + 1] = f
  BY <1>1, <1>3, AppendFacts DEF IInv, TypeOK
<1>5. /\ f.type = "authorization" /\ f.nonce = n
      /\ f.payload # {} => f.status = "issued"
  BY <1>f DEF AuthorizationFrame
<1>6. ClaimsInv'
  BY <1>1 DEF IInv, ClaimsInv, Holds
<1>7. ArtifactsInv'
  <2>1. \A b : FrameMatches(b) => FrameMatches(b)'
    BY <1>4 DEF FrameMatches
  <2>2. a \in artifacts' => a \in artifacts \/ FrameMatches(a)'
    <3>1. ASSUME f = AuthorizationFrame(n, "issued", {a})
          PROVE  FrameMatches(a)'
      <4>1. /\ f.type = "authorization" /\ f.nonce = a.nonce
            /\ f.payload = {a}
        BY <1>a, <3>1 DEF AuthorizationFrame
      <4>2. Len(frames) + 1 \in 1..Len(frames')
        BY <1>4
      <4> QED
        BY <1>4, <4>1, <4>2 DEF FrameMatches
    <3> QED
      BY <1>1, <3>1
  <2>3. a \in artifacts' => a \in artifacts \/ decide(a.digest, a.request)
    BY <1>a, <1>1 DEF decide
  <2>4. \A b \in artifacts' : b \in artifacts \/ b = a
    BY <1>1
  <2>5. \A b \in artifacts' : FrameMatches(b)' /\ decide(b.digest, b.request)
    BY <2>1, <2>2, <2>3, <2>4 DEF IInv, ArtifactsInv
  <2> QED
    BY <1>1, <2>5 DEF IInv, ArtifactsInv, decide
<1>8. LogInv'
  <2>1. AuditConsistent'
    <3> SUFFICES ASSUME NEW i \in 1..Len(frames'),
                        frames'[i].type = "execution"
                 PROVE  /\ ran'[frames'[i].nonce] > 0
                        /\ \E j \in 1..(i - 1) :
                             /\ frames'[j].type = "authorization"
                             /\ frames'[j].nonce = frames'[i].nonce
                             /\ frames'[j].status = "issued"
                        /\ \A j \in 1..(i - 1) :
                             frames'[j].nonce = frames'[i].nonce
                                => frames'[j].type # "execution"
      BY DEF AuditConsistent
    <3>1. i \in 1..Len(frames) /\ i \in Nat
      BY <1>4, <1>5
    <3>2. \A j \in 1..(i - 1) : j \in 1..Len(frames)
      BY <1>4, <3>1
    <3> QED
      BY <1>1, <1>4, <3>1, <3>2 DEF IInv, LogInv, AuditConsistent
  <2>2. \A q \in Procs : view'[q] <= Len(frames')
    BY <1>1, <1>4 DEF IInv, TypeOK, LogInv
  <2>3. \A i \in 1..Len(frames') : i \in 1..Len(frames) \/ frames'[i] = f
    BY <1>4
  <2> QED
    BY <1>1, <1>4, <1>5, <2>1, <2>2, <2>3 DEF IInv, LogInv, Holds
<1>9. NoSilentRun'
  BY <1>1, <1>4 DEF IInv, NoSilentRun, Logged
<1> QED
  BY <1>4, <1>5, <1>6, <1>7, <1>8, <1>9

(* A claim that passes makes its thread the only holder of the nonce. *)
LEMMA ClaimStep ==
  ASSUME IInv, TypeOK', NEW t \in Threads, claim_nonce(t)
  PROVE  IInv'
<1> DEFINE n == art[t].nonce
<1>1. CASE n \in used
  <2>1. /\ used' = used
        /\ UNCHANGED <<frames, view, artifacts, ran, effects, lost,
                       compensations>>
        /\ ~ Holds(t)
        /\ pc' = [pc EXCEPT ![t] = "idle"]
        /\ art' = [art EXCEPT ![t] = None]
    BY <1>1 DEF claim_nonce, Check, Finish, Become, Holds, historyVars
  <2>2. \A u \in Threads : QuietThread(u)
    BY <2>1 DEF QuietThread, IInv, TypeOK
  <2>3. \A p \in Procs : view'[p] <= Len(frames)
    BY <2>1 DEF IInv, LogInv
  <2> QED
    BY <2>1, <2>2, <2>3, QuietStep
<1>2. CASE n \notin used
  <2>1. /\ pc[t] = "claim"
        /\ pc' = [pc EXCEPT ![t] = "run"]
        /\ used' = used \cup {n}
        /\ UNCHANGED <<art, frames, view, artifacts, ran, effects, lost,
                       compensations>>
    BY <1>2 DEF claim_nonce, Check, Become, historyVars
  <2>2. n \in Nonces /\ art[t] \in artifacts
    BY <2>1 DEF IInv, TypeOK, Artifact, ArtifactsInv
  <2>3. ran[n] = 0
    BY <1>2, <2>2 DEF IInv, ClaimsInv
  <2>4. \A u \in Threads : Holds(u) => art[u].nonce \in used
    BY DEF IInv, TypeOK, Artifact, ClaimsInv, Holds
  <2>5. \A u \in Threads \ {t} : pc'[u] = pc[u]
    BY <2>1 DEF IInv, TypeOK
  <2>6. pc'[t] = "run"
    BY <2>1 DEF IInv, TypeOK
  <2>7. ClaimsInv'
    <3>1. \A u \in Threads : (pc'[u] = "run" =>
                 art'[u].nonce \in used' /\ ran'[art'[u].nonce] = 0)
      BY <2>1, <2>3, <2>5, <2>6 DEF IInv, ClaimsInv
    <3>2. \A u \in Threads : pc'[u] = "record" => ran'[art'[u].nonce] = 1
      BY <2>1, <2>5, <2>6 DEF IInv, ClaimsInv
    <3>3. \A u \in Threads : u # t /\ Holds(u) => art[u].nonce # n
      BY <1>2, <2>4
    <3>4. \A u, v \in Threads :
            u # v /\ Holds(u)' /\ Holds(v)' => art'[u].nonce # art'[v].nonce
      BY <2>1, <2>5, <2>6, <3>3 DEF IInv, ClaimsInv, Holds
    <3> QED
      BY <2>1, <3>1, <3>2, <3>4 DEF IInv, ClaimsInv
  <2>8. ArtifactsInv'
    <3>1. \A b : FrameMatches(b)' <=> FrameMatches(b)
      BY <2>1 DEF FrameMatches
    <3> QED
      BY <2>1, <2>2, <2>5, <2>6, <3>1 DEF IInv, ArtifactsInv, decide
  <2>9. LogInv'
    <3>1. AuditConsistent'
      BY <2>1 DEF IInv, LogInv, AuditConsistent
    <3>2. \A i \in 1..Len(frames) :
            frames[i].type = "execution" => frames[i].nonce # n
      BY <2>3 DEF IInv, LogInv, AuditConsistent
    <3> QED
      BY <2>1, <2>5, <2>6, <3>1, <3>2 DEF IInv, LogInv, Holds
  <2>10. NoSilentRun'
    BY <2>1, <2>5 DEF IInv, NoSilentRun, Logged
  <2>11. CompensationSound'
    BY <2>1 DEF IInv, CompensationSound
  <2> QED
    BY <2>7, <2>8, <2>9, <2>10, <2>11 DEF IInv
<1> QED
  BY <1>1, <1>2

(* The handler runs under a claimed nonce that had no run before. *)
LEMMA RunStep ==
  ASSUME IInv, TypeOK', NEW t \in Threads,
         NEW status \in {"completed", "failed"}, RunAction(t, status)
  PROVE  IInv'
<1> DEFINE n == art[t].nonce
<1>1. /\ pc[t] = "run"
      /\ pc' = [pc EXCEPT ![t] = "record"]
      /\ ran' = [ran EXCEPT ![n] = @ + 1]
      /\ effects' = effects \cup {art[t]}
      /\ UNCHANGED <<frames, used, view, artifacts, art, lost, compensations>>
  BY DEF RunAction, Become, logVars
<1>2. n \in Nonces /\ n \in used /\ ran[n] = 0 /\ art[t] \in artifacts
  BY <1>1 DEF IInv, TypeOK, Artifact, ClaimsInv, ArtifactsInv
<1>3. ran'[n] = 1 /\ \A m \in Nonces \ {n} : ran'[m] = ran[m]
  BY <1>1, <1>2 DEF IInv, TypeOK
<1>4. pc'[t] = "record" /\ \A u \in Threads \ {t} : pc'[u] = pc[u]
  BY <1>1 DEF IInv, TypeOK
<1>5. \A u \in Threads \ {t} : Holds(u) => art[u].nonce \in Nonces \ {n}
  BY <1>1 DEF IInv, TypeOK, Artifact, ClaimsInv, Holds
<1>6. ClaimsInv'
  <2>1. \A m \in Nonces : ran'[m] \in {0, 1} /\ (ran'[m] = 1 => m \in used')
    BY <1>1, <1>2, <1>3 DEF IInv, ClaimsInv
  <2>2. \A u \in Threads : pc'[u] = "run" =>
            art'[u].nonce \in used' /\ ran'[art'[u].nonce] = 0
    BY <1>1, <1>3, <1>4, <1>5 DEF IInv, ClaimsInv, Holds
  <2>3. \A u \in Threads : pc'[u] = "record" => ran'[art'[u].nonce] = 1
    BY <1>1, <1>3, <1>4, <1>5 DEF IInv, ClaimsInv, Holds
  <2>4. \A u, v \in Threads :
          u # v /\ Holds(u)' /\ Holds(v)' => art'[u].nonce # art'[v].nonce
    BY <1>1, <1>4, <1>5 DEF IInv, ClaimsInv, Holds
  <2> QED
    BY <2>1, <2>2, <2>3, <2>4 DEF ClaimsInv
<1>7. ArtifactsInv'
  <2>1. \A b : FrameMatches(b)' <=> FrameMatches(b)
    BY <1>1 DEF FrameMatches
  <2>2. \A b \in effects' : b \in artifacts' /\ ran'[b.nonce] = 1
    BY <1>1, <1>2, <1>3 DEF IInv, TypeOK, Artifact, ArtifactsInv
  <2>3. \A u \in Threads :
          pc'[u] \in {"replay", "policy", "claim", "run", "record"}
             => art'[u] \in artifacts'
    BY <1>1, <1>2, <1>4 DEF IInv, ArtifactsInv
  <2> QED
    BY <1>1, <2>1, <2>2, <2>3 DEF IInv, ArtifactsInv, decide
<1>8. LogInv'
  <2>1. \A i \in 1..Len(frames) : frames[i].nonce \in Nonces
    <3>1. \A i \in 1..Len(frames) : frames[i] \in Frame
      BY DEF IInv, TypeOK
    <3> QED
      BY <3>1 DEF Frame
  <2>2. \A i \in 1..Len(frames) :
          frames[i].type = "execution" => ran'[frames[i].nonce] > 0
    BY <1>3, <2>1 DEF IInv, LogInv, AuditConsistent
  <2>3. AuditConsistent'
    BY <1>1, <2>2 DEF IInv, LogInv, AuditConsistent
  <2>4. \A u \in Threads : Holds(u)' => Holds(u)
    BY <1>1, <1>4 DEF Holds
  <2> QED
    BY <1>1, <2>3, <2>4 DEF IInv, LogInv
<1>9. NoSilentRun'
  <2>1. \A m \in Nonces : Logged(frames, "execution", m)
                            => Logged(frames', "execution", m)
    BY <1>1 DEF Logged
  <2>2. \A m \in Nonces \ {n} : ran'[m] > 0 => ran[m] > 0
    BY <1>3
  <2>3. \A u \in Threads : pc[u] = "record" =>
                             pc'[u] = "record" /\ art'[u] = art[u]
    BY <1>1, <1>4
  <2> QED
    BY <1>1, <1>4, <2>1, <2>2, <2>3 DEF IInv, NoSilentRun
<1>10. CompensationSound'
  BY <1>1 DEF IInv, CompensationSound
<1> QED
  BY <1>6, <1>7, <1>8, <1>9, <1>10 DEF IInv

(* The execution frame is written and the claim is over. *)
LEMMA RecordStep ==
  ASSUME IInv, TypeOK', NEW t \in Threads,
         AppendExecution(t) \/ AppendUnacknowledged(t)
  PROVE  IInv'
<1> DEFINE n == art[t].nonce
<1>f. PICK f : f = ExecutionFrame(n, outcome[t])
  OBVIOUS
<1>1. /\ pc[t] = "record"
      /\ pc' = [pc EXCEPT ![t] = "idle"]
      /\ art' = [art EXCEPT ![t] = None]
      /\ frames' = Append(frames, f)
      /\ \/ view' = [view EXCEPT ![ProcOf[t]] = Len(frames) + 1]
         \/ view' = view
      /\ UNCHANGED <<used, artifacts, ran, effects, lost, compensations>>
  BY <1>f DEF AppendExecution, AppendUnacknowledged, append, Finish, Become,
              historyVars
<1>2. /\ n \in Nonces /\ art[t] \in artifacts /\ ran[n] = 1
      /\ outcome[t] \in {"completed", "failed"}
  BY <1>1 DEF IInv, TypeOK, Artifact, ClaimsInv, ArtifactsInv
<1>3. f \in Frame /\ f.type = "execution" /\ f.nonce = n
  BY <1>f, <1>2 DEF ExecutionFrame, Frame
<1>4. /\ Len(frames) \in Nat
      /\ Len(frames') = Len(frames) + 1
      /\ \A i \in 1..Len(frames) : frames'[i] = frames[i]
      /\ frames'[Len(frames) + 1] = f
  BY <1>1, <1>3, AppendFacts DEF IInv, TypeOK
<1>5. /\ pc'[t] = "idle"
      /\ \A u \in Threads \ {t} : pc'[u] = pc[u] /\ art'[u] = art[u]
  BY <1>1 DEF IInv, TypeOK
<1>6. \A u \in Threads : Holds(u)' => /\ u # t /\ Holds(u) /\ art'[u] = art[u]
                                     /\ art[u].nonce # n
  BY <1>1, <1>5 DEF IInv, ClaimsInv, Holds
<1>7. ClaimsInv'
  BY <1>1, <1>5, <1>6 DEF IInv, ClaimsInv, Holds
<1>8. ArtifactsInv'
  <2>1. \A b : FrameMatches(b) => FrameMatches(b)'
    BY <1>4 DEF FrameMatches
  <2>2. \A u \in Threads :
          pc'[u] \in {"replay", "policy", "claim", "run", "record"}
             => art'[u] \in artifacts'
    BY <1>1, <1>5 DEF IInv, ArtifactsInv
  <2> QED
    BY <1>1, <2>1, <2>2 DEF IInv, ArtifactsInv, decide
<1>9. LogInv'
  <2>1. \A i \in 1..Len(frames) :
          frames[i].type = "execution" => frames[i].nonce # n
    BY <1>1 DEF IInv, LogInv, Holds
  <2>2. PICK k \in 1..Len(frames) : /\ frames[k].type = "authorization"
                                    /\ frames[k].nonce = n
                                    /\ frames[k].status = "issued"
    BY <1>2 DEF IInv, ArtifactsInv, FrameMatches, LogInv
  <2>3. AuditConsistent'
    <3> SUFFICES ASSUME NEW i \in 1..Len(frames'),
                        frames'[i].type = "execution"
                 PROVE  /\ ran'[frames'[i].nonce] > 0
                        /\ \E j \in 1..(i - 1) :
                             /\ frames'[j].type = "authorization"
                             /\ frames'[j].nonce = frames'[i].nonce
                             /\ frames'[j].status = "issued"
                        /\ \A j \in 1..(i - 1) :
                             frames'[j].nonce = frames'[i].nonce
                                => frames'[j].type # "execution"
      BY DEF AuditConsistent
    <3>1. CASE i \in 1..Len(frames)
      <4>1. \A j \in 1..(i - 1) : j \in 1..Len(frames)
        BY <1>4, <3>1
      <4> QED
        BY <1>1, <1>4, <3>1, <4>1 DEF IInv, LogInv, AuditConsistent
    <3>2. CASE i = Len(frames) + 1
      <4>1. 1..(i - 1) = 1..Len(frames)
        BY <1>4, <3>2
      <4> QED
        BY <1>1, <1>2, <1>3, <1>4, <2>1, <2>2, <3>2, <4>1
    <3> QED
      BY <1>4, <3>1, <3>2
  <2>4. \A i \in 1..Len(frames') : i \in 1..Len(frames) \/ frames'[i] = f
    BY <1>4
  <2>5. \A i \in 1..Len(frames') :
          /\ frames'[i].type = "execution" =>
               \A u \in Threads : Holds(u)' => art'[u].nonce # frames'[i].nonce
          /\ frames'[i].type = "authorization" /\ frames'[i].payload # {} =>
               frames'[i].status = "issued"
    BY <1>3, <1>4, <1>6, <2>4 DEF IInv, LogInv
  <2>6. \A q \in Procs : view[q] \in Nat /\ view[q] <= Len(frames)
    BY DEF IInv, TypeOK, LogInv
  <2>7. \A q \in Procs : view'[q] = view[q] \/ view'[q] = Len(frames) + 1
    BY <1>1 DEF IInv, TypeOK
  <2>8. \A q \in Procs : view'[q] <= Len(frames')
    BY <1>4, <2>6, <2>7
  <2> QED
    BY <2>3, <2>5, <2>8 DEF LogInv
<1>10. NoSilentRun'
  <2>1. \A m \in Nonces : Logged(frames, "execution", m)
                            => Logged(frames', "execution", m)
    BY <1>4 DEF Logged
  <2>2. Logged(frames', "execution", n)
    BY <1>3, <1>4 DEF Logged
  <2> QED
    BY <1>1, <1>5, <2>1, <2>2 DEF IInv, NoSilentRun
<1>11. CompensationSound'
  BY <1>1, <1>4 DEF IInv, CompensationSound
<1> QED
  BY <1>7, <1>8, <1>9, <1>10, <1>11 DEF IInv

(* Ending deliveries without a frame: the store's failure, or a crash. *)
LEMMA AbandonStep ==
  ASSUME IInv, TypeOK', NEW T \in SUBSET Threads,
         UNCHANGED <<frames, artifacts, ran, effects, compensations>>,
         used \subseteq used',
         \A p \in Procs : view'[p] <= Len(frames),
         \A t \in T : pc'[t] = "idle",
         \A t \in Threads \ T : pc'[t] = pc[t] /\ art'[t] = art[t],
         lost \subseteq lost',
         \A t \in T : Holds(t) => art[t].nonce \in lost'
  PROVE  IInv'
<1>1. \A t \in Threads : Holds(t)' => Holds(t) /\ art'[t] = art[t]
  BY DEF Holds
<1>2. ClaimsInv'
  BY <1>1 DEF IInv, ClaimsInv, Holds
<1>3. ArtifactsInv'
  <2>1. \A b : FrameMatches(b)' <=> FrameMatches(b)
    BY DEF FrameMatches
  <2> QED
    BY <2>1 DEF IInv, ArtifactsInv, decide
<1>4. LogInv'
  <2>1. AuditConsistent'
    BY DEF IInv, LogInv, AuditConsistent
  <2> QED
    BY <1>1, <2>1 DEF IInv, LogInv
<1>5. NoSilentRun'
  BY DEF IInv, NoSilentRun, Logged, Holds
<1>6. CompensationSound'
  BY DEF IInv, CompensationSound
<1> QED
  BY <1>2, <1>3, <1>4, <1>5, <1>6 DEF IInv

-----------------------------------------------------------------------------
(* The barrier is safe for every number of processes and threads, however  *)
(* deliveries, authorizations, revocations, releases and crashes           *)
(* interleave, provided that claims are durable.                           *)
LEMMA BarrierInvariant ==
  ASSUME DurableClaims
  PROVE  Spec => []IInv
<1>1. Init => IInv
  <2> SUFFICES ASSUME Init PROVE IInv
    OBVIOUS
  <2>1. TypeOK
    BY BarrierConstants DEF Init, TypeOK, Artifact, Frame
  <2>2. Len(frames) = 0 /\ 1..Len(frames) = {}
    BY DEF Init
  <2>3. ClaimsInv /\ ArtifactsInv /\ NoSilentRun /\ CompensationSound
    BY <2>1 DEF Init, ClaimsInv, ArtifactsInv, NoSilentRun, CompensationSound,
                Holds
  <2>4. LogInv
    BY <2>2 DEF Init, LogInv, AuditConsistent
  <2> QED
    BY <2>1, <2>3, <2>4 DEF IInv
<1>2. IInv /\ TypeOK' /\ [Next]_vars => IInv'
  <2> SUFFICES ASSUME IInv, TypeOK', [Next]_vars PROVE IInv'
    OBVIOUS
  <2>0. \A p \in Procs : view[p] <= Len(frames)
    BY DEF IInv, LogInv
  <2>1. CASE Authorize
    <3> PICK p \in Procs, r \in Requests, id \in PolicyIds, ttl \in Ttls,
             n \in Nonces, signed \in BOOLEAN :
               authorize(p, r, id, ttl, n, signed) /\ UNCHANGED compensations
      BY <2>1, BarrierConstants DEF Authorize
    <3>1. CompensationSound'
      <4>1. Len(frames) \in Nat
        BY DEF IInv, TypeOK
      <4>2. /\ Len(frames') = Len(frames) + 1
            /\ \A i \in 1..Len(frames) : frames'[i] = frames[i]
        BY AuthorizeStep
      <4> QED
        BY <4>1, <4>2 DEF IInv, CompensationSound
    <3> QED
      BY <3>1, AuthorizeStep DEF IInv
  <2>2. CASE Compensate
    <3> PICK p \in Procs, failed \in Nonces : authorize_compensation(p, failed)
      BY <2>2 DEF Compensate
    <3> PICK r \in Requests, id \in PolicyIds, ttl \in Ttls, n \in Nonces,
             signed \in BOOLEAN :
               /\ authorize(p, r, id, ttl, n, signed)
               /\ compensations' = compensations \cup {<<failed, n>>}
      BY DEF authorize_compensation
    <3>1. /\ Len(frames') = Len(frames) + 1
          /\ \A i \in 1..Len(frames) : frames'[i] = frames[i]
          /\ frames'[Len(frames) + 1].type = "authorization"
          /\ frames'[Len(frames) + 1].nonce = n
      BY AuthorizeStep
    <3>2. Len(frames) \in Nat /\ view[p] \in Nat /\ view[p] <= Len(frames)
      BY <2>0 DEF IInv, TypeOK
    <3>3. PICK i \in 1..Len(frames) : /\ frames[i].type = "execution"
                                      /\ frames[i].nonce = failed
                                      /\ frames[i].status = "failed"
      <4>1. FailedLogged(SubSeq(frames, 1, view[p]), failed)
        BY DEF authorize_compensation, events_for_nonce
      <4>2. /\ Len(SubSeq(frames, 1, view[p])) = view[p]
            /\ \A i \in 1..view[p] : SubSeq(frames, 1, view[p])[i] = frames[i]
        BY <3>2 DEF IInv, TypeOK
      <4> QED
        BY <3>2, <4>1, <4>2 DEF FailedLogged
    <3>4. CompensationSound'
      BY <3>1, <3>2, <3>3 DEF IInv, CompensationSound
    <3> QED
      BY <3>4, AuthorizeStep DEF IInv
  <2>3. CASE Deliver
    <3> PICK t \in Threads, a \in Deliverable : execute(t, a)
      BY <2>3 DEF Deliver
    <3>1. \A u \in Threads : QuietThread(u)
      BY DEF execute, Become, QuietThread, Holds, IInv, TypeOK
    <3> QED
      BY <2>0, <3>1, QuietStep DEF execute, logVars, historyVars
  <2>4. ASSUME NEW t \in Threads, Serve(t) PROVE IInv'
    <3>1. CASE CheckIssuer(t)
      <4>1. \A u \in Threads : QuietThread(u)
        BY <3>1 DEF CheckIssuer, Check, Finish, Become, IssuerValid,
                    verify_signature, QuietThread, Holds, IInv, TypeOK
      <4> QED
        BY <2>0, <3>1, <4>1, QuietStep DEF CheckIssuer, logVars, historyVars
    <3>2. CASE CheckReplay(t)
      <4>1. \A u \in Threads : QuietThread(u)
        BY <3>2 DEF CheckReplay, Check, Finish, Become, QuietThread, Holds,
                    IInv, TypeOK, ArtifactsInv
      <4>2. \A p \in Procs : view'[p] <= Len(frames)
        BY <2>0, <3>2 DEF CheckReplay, IInv, TypeOK
      <4> QED
        BY <3>2, <4>1, <4>2, QuietStep DEF CheckReplay, historyVars
    <3>3. CASE CheckPolicy(t)
      <4>1. \A u \in Threads : QuietThread(u)
        BY <3>3 DEF CheckPolicy, Check, Finish, Become, QuietThread, Holds,
                    IInv, TypeOK, ArtifactsInv
      <4> QED
        BY <2>0, <3>3, <4>1, QuietStep DEF CheckPolicy, logVars, historyVars
    <3>4. CASE claim_nonce(t)
      BY <3>4, ClaimStep
    <3>5. ASSUME NEW status \in {"completed", "failed"}, RunAction(t, status)
          PROVE IInv'
      BY <3>5, RunStep
    <3>6. CASE AppendExecution(t)
      BY <3>6, RecordStep
    <3>7. CASE AppendRaises(t)
      <4>1. /\ UNCHANGED <<frames, used, view, artifacts, ran, effects,
                           compensations>>
            /\ lost' = lost \cup {art[t].nonce}
            /\ pc'[t] = "idle"
            /\ \A u \in Threads \ {t} : pc'[u] = pc[u] /\ art'[u] = art[u]
        BY <3>7 DEF AppendRaises, Finish, Become, logVars, IInv, TypeOK
      <4> QED
        BY <2>0, <4>1, AbandonStep, {t} \in SUBSET Threads
    <3>8. CASE AppendUnacknowledged(t)
      BY <3>8, RecordStep
    <3>9. ASSUME NEW committed \in BOOLEAN, ClaimRaises(t, committed)
          PROVE IInv'
      <4>1. /\ UNCHANGED <<frames, view, artifacts, ran, effects,
                           compensations>>
            /\ used \subseteq used' /\ lost \subseteq lost'
            /\ ~ Holds(t) /\ pc'[t] = "idle"
            /\ \A u \in Threads \ {t} : pc'[u] = pc[u] /\ art'[u] = art[u]
        BY <3>9 DEF ClaimRaises, Finish, Become, Holds, IInv, TypeOK
      <4> QED
        BY <2>0, <4>1, AbandonStep, {t} \in SUBSET Threads
    <3> QED
      BY <2>4, <3>1, <3>2, <3>3, <3>4, <3>5, <3>6, <3>7, <3>8, <3>9 DEF Serve
  <2>5. CASE Operate
    <3>1. ASSUME NEW k \in Keys, add(k) \/ revoke(k) PROVE IInv'
      BY <2>0, <3>1, QuietStep
         DEF add, revoke, logVars, threadVars, historyVars, QuietThread
    <3>2. ASSUME NEW p \in Procs, NEW id \in PolicyIds, NEW c \in Contents,
                 register(p, id, c)
          PROVE IInv'
      BY <2>0, <3>2, QuietStep
         DEF register, logVars, threadVars, historyVars, QuietThread
    <3>3. ASSUME NEW p \in Procs, refresh(p) PROVE IInv'
      <4>1. \A q \in Procs : view'[q] <= Len(frames)
        BY <2>0, <3>3 DEF refresh, IInv, TypeOK
      <4> QED
        BY <3>3, <4>1, QuietStep
           DEF refresh, threadVars, historyVars, QuietThread
    <3>4. ASSUME NEW p \in Procs,
                 NEW release \in [PolicyIds -> Contents \cup {None}],
                 NEW k \in Keys, CrashRestart(p, release, k)
          PROVE IInv'
      <4>1. /\ UNCHANGED <<frames, used, artifacts, ran, effects,
                           compensations>>
            /\ \A t \in ThreadsOf(p) : pc'[t] = "idle"
            /\ \A t \in Threads \ ThreadsOf(p) :
                  pc'[t] = pc[t] /\ art'[t] = art[t]
            /\ lost \subseteq lost'
        BY <3>4 DEF CrashRestart, RecoveredNonces, ThreadsOf
      <4>2. \A t \in ThreadsOf(p) : Holds(t) => art[t].nonce \in lost'
        BY <3>4 DEF CrashRestart, Holds, ThreadsOf, IInv, TypeOK, Artifact
      <4>3. \A q \in Procs : view'[q] <= Len(frames)
        BY <2>0, <3>4 DEF CrashRestart, IInv, TypeOK
      <4>4. ThreadsOf(p) \in SUBSET Threads
        BY DEF ThreadsOf
      <4> QED
        BY <4>1, <4>2, <4>3, <4>4, AbandonStep
    <3>5. CASE Tick
      BY <2>0, <3>5, QuietStep
         DEF Tick, logVars, threadVars, historyVars, QuietThread
    <3> QED
      BY <2>5, <3>1, <3>2, <3>3, <3>4, <3>5 DEF Operate
  <2>6. CASE UNCHANGED vars
    BY <2>0, <2>6, QuietStep DEF vars, QuietThread
  <2> QED
    BY <2>1, <2>2, <2>3, <2>4, <2>5, <2>6 DEF Next
<1> QED
  BY <1>1, <1>2, BarrierTyped, PTL DEF Spec

(* At most one run of the handler per nonce, whatever interleaves or dies. *)
THEOREM BarrierAtMostOnce ==
  ASSUME DurableClaims
  PROVE  Spec => []AtMostOnce
<1>1. IInv => AtMostOnce
  BY DEF IInv, ClaimsInv, AtMostOnce
<1> QED
  BY <1>1, BarrierInvariant, PTL

(* Nothing runs but what the issuer signed, logged and was allowed to sign. *)
THEOREM BarrierRanAsAuthorized ==
  ASSUME DurableClaims
  PROVE  Spec => []RanAsAuthorized
<1>1. IInv => RanAsAuthorized
  BY DEF IInv, TypeOK, Artifact, ClaimsInv, ArtifactsInv, RanAsAuthorized
<1> QED
  BY <1>1, BarrierInvariant, PTL

(* The log tells the truth about executions: an execution frame follows    *)
(* its authorization, is the only one of its nonce, and stands for a run.  *)
THEOREM BarrierAudit ==
  ASSUME DurableClaims
  PROVE  Spec => []AuditConsistent
<1>1. IInv => AuditConsistent
  BY DEF IInv, LogInv
<1> QED
  BY <1>1, BarrierInvariant, PTL

(* A run of ExecutionBoundary.execute is missing from the log only when    *)
(* the process died or the store refused the execution frame.              *)
THEOREM BarrierNoSilentRun ==
  ASSUME DurableClaims
  PROVE  Spec => []NoSilentRun
<1>1. IInv => NoSilentRun
  BY DEF IInv
<1> QED
  BY <1>1, BarrierInvariant, PTL

(* A compensation always follows an audited failure in the log. *)
THEOREM BarrierCompensation ==
  ASSUME DurableClaims
  PROVE  Spec => []CompensationSound
<1>1. IInv => CompensationSound
  BY DEF IInv
<1> QED
  BY <1>1, BarrierInvariant, PTL

-----------------------------------------------------------------------------
(* A sequence is the prefix of its own length of what is appended to it. *)
LEMMA AppendPrefix ==
  ASSUME NEW S, NEW s \in Seq(S), NEW e \in S
  PROVE  /\ Len(s) <= Len(Append(s, e))
         /\ SubSeq(Append(s, e), 1, Len(s)) = s
<1>1. Append(s, e) = s \o <<e>> /\ <<e>> \in Seq(S)
  BY AppendIsConcat
<1>2. SubSeq(s \o <<e>>, 1, Len(s)) = SubSeq(s, 1, Len(s))
  BY <1>1, SubSeqOfConcat1
<1>3. SubSeq(s, 1, Len(s)) = s
  BY SubSeqFull
<1> QED
  BY <1>1, <1>2, <1>3

(* What a step does to the claims and the log: it appends at most one frame *)
(* and frees no nonce.                                                      *)
LEMMA StepGrows ==
  ASSUME DurableClaims, TypeOK, TypeOK', [Next]_vars
  PROVE  /\ used \subseteq used'
         /\ frames' = frames \/ \E f : frames' = Append(frames, f)
<1>1. ASSUME NEW p \in Procs, NEW r \in Requests, NEW id \in PolicyIds,
             NEW ttl \in Ttls, NEW n \in Nonces, NEW signed \in BOOLEAN,
             authorize(p, r, id, ttl, n, signed)
      PROVE  used' = used /\ \E f : frames' = Append(frames, f)
  BY <1>1 DEF authorize, Issue, Refuse, append
<1>2. CASE Authorize
  BY <1>1, <1>2, BarrierConstants DEF Authorize
<1>3. CASE Compensate
  BY <1>1, <1>3 DEF Compensate, authorize_compensation
<1>4. CASE Deliver
  BY <1>4 DEF Deliver, execute, logVars
<1>5. ASSUME NEW t \in Threads, Serve(t)
      PROVE  /\ used \subseteq used'
             /\ frames' = frames \/ \E f : frames' = Append(frames, f)
  BY <1>5 DEF Serve, CheckIssuer, CheckReplay, CheckPolicy, claim_nonce,
              ClaimRaises, RunAction, AppendExecution, AppendRaises,
              AppendUnacknowledged, append, logVars
<1>6. CASE Operate
  BY <1>6 DEF Operate, add, revoke, register, refresh, CrashRestart,
              RecoveredNonces, Tick, logVars
<1>7. CASE UNCHANGED vars
  BY <1>7 DEF vars
<1> QED
  BY <1>2, <1>3, <1>4, <1>5, <1>6, <1>7 DEF Next

(* Consumed nonces stay consumed and the log is append-only, across        *)
(* crashes and the recovery after them.                                    *)
THEOREM BarrierConsumption ==
  ASSUME DurableClaims
  PROVE  Spec => ConsumptionIsForever
<1> DEFINE Grows == /\ used \subseteq used'
                    /\ Len(frames) <= Len(frames')
                    /\ SubSeq(frames', 1, Len(frames)) = frames
<1>1. TypeOK /\ TypeOK' /\ [Next]_vars => [Grows]_vars
  <2> SUFFICES ASSUME TypeOK, TypeOK', [Next]_vars PROVE Grows
    OBVIOUS
  <2>1. frames \in Seq(Frame) /\ frames' \in Seq(Frame)
    BY DEF TypeOK
  <2>2. CASE frames' = frames
    <3>1. SubSeq(frames, 1, Len(frames)) = frames
      BY <2>1, SubSeqFull
    <3> QED
      BY <2>1, <2>2, <3>1, StepGrows
  <2>3. ASSUME NEW f, frames' = Append(frames, f) PROVE Grows
    <3>1. f \in Frame
      <4>1. Append(frames, f)[Len(frames) + 1] = f
        BY <2>1
      <4>2. Len(frames) + 1 \in 1..Len(frames')
        BY <2>1, <2>3
      <4> QED
        BY <2>1, <2>3, <4>1, <4>2
    <3> QED
      BY <2>1, <2>3, <3>1, AppendPrefix, StepGrows
  <2> QED
    BY <2>2, <2>3, StepGrows
<1> QED
  BY <1>1, BarrierTyped, PTL DEF Spec, ConsumptionIsForever
-----------------------------------------------------------------------------
(* The refinement: what a step of the barrier is to the life of a nonce *)

Quiet == UNCHANGED <<frames, used, ran, effects>>

Granting(n, a) == /\ n \in Unissued /\ a.request \in Requests
                  /\ frames' = Append(frames, AuthorizationFrame(n, "issued", {a}))
                  /\ AuthorizationFrame(n, "issued", {a}) \in Frame
                  /\ UNCHANGED <<used, ran, effects>>

Denying(n) == /\ n \in Unissued
              /\ frames' = Append(frames, AuthorizationFrame(n, "denied", {}))
              /\ AuthorizationFrame(n, "denied", {}) \in Frame
              /\ UNCHANGED <<used, ran, effects>>

Consuming(a) == /\ a \in artifacts /\ a.nonce \notin used
                /\ used' = used \cup {a.nonce}
                /\ UNCHANGED <<frames, ran, effects>>

Performing(a) == /\ a \in artifacts /\ a.nonce \in used /\ ran[a.nonce] = 0
                 /\ ran' = [ran EXCEPT ![a.nonce] = @ + 1]
                 /\ effects' = effects \cup {a}
                 /\ UNCHANGED <<frames, used>>

Recording(n, status) == /\ ran[n] = 1 /\ ~ Logged(frames, "execution", n)
                        /\ frames' = Append(frames, ExecutionFrame(n, status))
                        /\ ExecutionFrame(n, status) \in Frame
                        /\ UNCHANGED <<used, ran, effects>>

Lives == \/ Quiet
         \/ \E n \in Nonces, a \in Artifact : Granting(n, a)
         \/ \E n \in Nonces : Denying(n)
         \/ \E a \in artifacts : Consuming(a)
         \/ \E a \in artifacts : Performing(a)
         \/ \E n \in Nonces, status \in {"completed", "failed"} :
              Recording(n, status)

(* Every step of the barrier is one of these. *)
LEMMA StepLives ==
  ASSUME DurableClaims, IInv, [Next]_vars
  PROVE  Lives
<1>0. TypeOK /\ ClaimsInv /\ ArtifactsInv /\ LogInv
  BY DEF IInv
<1>1. ASSUME NEW p \in Procs, NEW r \in Requests, NEW id \in PolicyIds,
             NEW ttl \in Ttls, NEW n \in Nonces, NEW signed \in BOOLEAN,
             authorize(p, r, id, ttl, n, signed)
      PROVE  Lives
  <2>1. CASE Issue(p, r, id, ttl, n, signed)
    <3> DEFINE a == [nonce |-> n, request |-> r, policy |-> id,
                     digest |-> policies[p][id], expires |-> clock + ttl,
                     key |-> signer[p]]
    <3>1. a \in Artifact /\ a.request = r
      BY <1>0, <2>1, BarrierConstants DEF Issue, TypeOK, Artifact
    <3>2. AuthorizationFrame(n, "issued", {a}) \in Frame
      BY <3>1 DEF AuthorizationFrame, Frame
    <3>3. Granting(n, a)
      BY <1>1, <2>1, <3>1, <3>2 DEF Granting, authorize, Issue, append
    <3> QED
      BY <3>1, <3>3 DEF Lives
  <2>2. CASE Refuse(p, r, id, n)
    <3>1. AuthorizationFrame(n, "denied", {}) \in Frame
      BY DEF AuthorizationFrame, Frame
    <3>2. Denying(n)
      BY <1>1, <2>2, <3>1 DEF Denying, authorize, Refuse, append
    <3> QED
      BY <3>2 DEF Lives
  <2> QED
    BY <1>1, <2>1, <2>2 DEF authorize
<1>2. CASE Authorize
  BY <1>1, <1>2, BarrierConstants DEF Authorize
<1>3. CASE Compensate
  BY <1>1, <1>3 DEF Compensate, authorize_compensation
<1>4. CASE Deliver
  BY <1>4 DEF Deliver, execute, logVars, historyVars, Lives, Quiet
<1>5. ASSUME NEW t \in Threads, Serve(t) PROVE Lives
  <2>1. CASE CheckIssuer(t) \/ CheckReplay(t) \/ CheckPolicy(t) \/ AppendRaises(t)
    BY <2>1 DEF CheckIssuer, CheckReplay, CheckPolicy, AppendRaises, logVars,
                historyVars, Lives, Quiet
  <2>2. ASSUME claim_nonce(t) \/ \E committed \in BOOLEAN : ClaimRaises(t, committed)
        PROVE  Lives
    <3>1. art[t] \in artifacts
      BY <1>0, <2>2 DEF claim_nonce, ClaimRaises, Check, ArtifactsInv
    <3>2. /\ UNCHANGED <<frames, ran, effects>>
          /\ used' = used \/ used' = used \cup {art[t].nonce}
      BY <2>2 DEF claim_nonce, ClaimRaises, historyVars
    <3>3. CASE used' = used
      BY <3>2, <3>3 DEF Lives, Quiet
    <3>4. CASE used' = used \cup {art[t].nonce} /\ used' # used
      <4>1. Consuming(art[t])
        BY <3>1, <3>2, <3>4 DEF Consuming
      <4> QED
        BY <3>1, <4>1 DEF Lives
    <3> QED
      BY <3>2, <3>3, <3>4
  <2>3. ASSUME NEW status \in {"completed", "failed"}, RunAction(t, status)
        PROVE  Lives
    <3>1. /\ art[t] \in artifacts
          /\ art[t].nonce \in used /\ ran[art[t].nonce] = 0
      BY <1>0, <2>3 DEF RunAction, ArtifactsInv, ClaimsInv
    <3>2. Performing(art[t])
      BY <2>3, <3>1 DEF RunAction, Performing, logVars
    <3> QED
      BY <3>1, <3>2 DEF Lives
  <2>4. ASSUME AppendExecution(t) \/ AppendUnacknowledged(t) PROVE Lives
    <3> DEFINE n == art[t].nonce
    <3>1. /\ pc[t] = "record" /\ UNCHANGED <<used, ran, effects>>
          /\ frames' = Append(frames, ExecutionFrame(n, outcome[t]))
      BY <2>4 DEF AppendExecution, AppendUnacknowledged, append, historyVars
    <3>2. n \in Nonces /\ outcome[t] \in {"completed", "failed"}
      BY <1>0, <3>1 DEF TypeOK, Artifact
    <3>3. ran[n] = 1 /\ ~ Logged(frames, "execution", n)
      BY <1>0, <3>1 DEF ClaimsInv, LogInv, Holds, Logged
    <3>4. ExecutionFrame(n, outcome[t]) \in Frame
      BY <3>2 DEF ExecutionFrame, Frame
    <3>5. Recording(n, outcome[t])
      BY <3>1, <3>3, <3>4 DEF Recording
    <3> QED
      BY <3>2, <3>5 DEF Lives
  <2> QED
    BY <1>5, <2>1, <2>2, <2>3, <2>4 DEF Serve
<1>6. CASE Operate
  BY <1>6 DEF Operate, add, revoke, register, refresh, CrashRestart,
              RecoveredNonces, Tick, logVars, historyVars, Lives, Quiet
<1>7. CASE UNCHANGED vars
  BY <1>7 DEF vars, Lives, Quiet
<1> QED
  BY <1>2, <1>3, <1>4, <1>5, <1>6, <1>7 DEF Next

(* What an authorization frame changes. *)
LEMMA AuthorizationAppended ==
  ASSUME frames \in Seq(Frame), NEW n, NEW status, NEW payload,
         AuthorizationFrame(n, status, payload) \in Frame, n \in Unissued,
         frames' = Append(frames, AuthorizationFrame(n, status, payload))
  PROVE  /\ \A m, s : Recorded(m, s)' <=> Recorded(m, s)
         /\ \A m : Logged(frames', "authorization", m) <=>
                     m = n \/ Logged(frames, "authorization", m)
         /\ \A m : m # n => IssuedFor(m)' = IssuedFor(m)
         /\ IssuedFor(n)' = {r \in Requests : \E a \in payload : a.request = r}
<1> DEFINE f == AuthorizationFrame(n, status, payload)
<1>1. /\ Len(frames) \in Nat /\ Len(frames') = Len(frames) + 1
      /\ \A i \in 1..Len(frames) : frames'[i] = frames[i]
      /\ frames'[Len(frames) + 1] = f
  BY AppendFacts
<1>2. f.type = "authorization" /\ f.nonce = n /\ f.payload = payload
  BY DEF AuthorizationFrame
<1> HIDE DEF f
<1>3. \A i \in 1..Len(frames') : i \in 1..Len(frames) \/ i = Len(frames) + 1
  BY <1>1
<1>4. \A i \in 1..Len(frames) : i \in 1..Len(frames')
  BY <1>1
<1>5. Len(frames) + 1 \in 1..Len(frames')
  BY <1>1
<1>6. \A m, s : Recorded(m, s)' <=> Recorded(m, s)
  BY <1>1, <1>2, <1>3, <1>4 DEF Recorded
<1>7. \A m : Logged(frames', "authorization", m) <=>
               m = n \/ Logged(frames, "authorization", m)
  BY <1>1, <1>2, <1>3, <1>4, <1>5 DEF Logged
<1>8. ASSUME NEW m, m # n PROVE IssuedFor(m)' = IssuedFor(m)
  BY <1>1, <1>2, <1>3, <1>4, <1>8 DEF IssuedFor
<1>9. IssuedFor(n)' = {r \in Requests : \E a \in payload : a.request = r}
  <2>1. \A i \in 1..Len(frames) :
          ~ (frames[i].type = "authorization" /\ frames[i].nonce = n)
    BY DEF Unissued, Logged
  <2> QED
    BY <1>1, <1>2, <1>3, <1>5, <2>1 DEF IssuedFor
<1> QED
  BY <1>6, <1>7, <1>8, <1>9

(* What an execution frame changes. *)
LEMMA ExecutionAppended ==
  ASSUME frames \in Seq(Frame), NEW n, NEW status,
         ExecutionFrame(n, status) \in Frame,
         frames' = Append(frames, ExecutionFrame(n, status))
  PROVE  /\ \A m, s : Recorded(m, s)' <=>
                        (m = n /\ s = status) \/ Recorded(m, s)
         /\ \A m : Logged(frames', "authorization", m) <=>
                     Logged(frames, "authorization", m)
         /\ \A m : IssuedFor(m)' = IssuedFor(m)
<1> DEFINE f == ExecutionFrame(n, status)
<1>1. /\ Len(frames) \in Nat /\ Len(frames') = Len(frames) + 1
      /\ \A i \in 1..Len(frames) : frames'[i] = frames[i]
      /\ frames'[Len(frames) + 1] = f
  BY AppendFacts
<1>2. f.type = "execution" /\ f.nonce = n /\ f.status = status
  BY DEF ExecutionFrame
<1> HIDE DEF f
<1>3. \A i \in 1..Len(frames') : i \in 1..Len(frames) \/ i = Len(frames) + 1
  BY <1>1
<1>4. \A i \in 1..Len(frames) : i \in 1..Len(frames')
  BY <1>1
<1>5. Len(frames) + 1 \in 1..Len(frames')
  BY <1>1
<1>6. \A m, s : Recorded(m, s)' <=>
                  (m = n /\ s = status) \/ Recorded(m, s)
  BY <1>1, <1>2, <1>3, <1>4, <1>5 DEF Recorded
<1>7. \A m : Logged(frames', "authorization", m) <=>
               Logged(frames, "authorization", m)
  BY <1>1, <1>2, <1>3, <1>4 DEF Logged
<1>8. \A m : IssuedFor(m)' = IssuedFor(m)
  BY <1>1, <1>2, <1>3, <1>4 DEF IssuedFor
<1> QED
  BY <1>6, <1>7, <1>8

(* A nonce has one authorization frame, and is consumed only when granted. *)
GrantsInv ==
  /\ \A n \in used : IssuedFor(n) # {}
  /\ \A i, j \in 1..Len(frames) :
       /\ frames[i].type = "authorization" /\ frames[j].type = "authorization"
       /\ frames[i].nonce = frames[j].nonce
       => i = j

(* The log grants the nonce of a signed artifact for its request alone. *)
LEMMA GrantedForArtifact ==
  ASSUME IInv, GrantsInv, NEW a \in artifacts
  PROVE  /\ a \in Artifact /\ a.nonce \in Nonces /\ a.request \in Requests
         /\ IssuedFor(a.nonce) = {a.request}
<1>1. a \in Artifact /\ a.nonce \in Nonces /\ a.request \in Requests
  BY DEF IInv, TypeOK, Artifact
<1>2. PICK i \in 1..Len(frames) : /\ frames[i].type = "authorization"
                                  /\ frames[i].nonce = a.nonce
                                  /\ frames[i].payload = {a}
  BY DEF IInv, ArtifactsInv, FrameMatches
<1>3. \A j \in 1..Len(frames) :
        frames[j].type = "authorization" /\ frames[j].nonce = a.nonce => j = i
  BY <1>2 DEF GrantsInv
<1> QED
  BY <1>1, <1>2, <1>3 DEF IssuedFor

(* Before its authorization frame a nonce is in no other place either. *)
LEMMA UnissuedIsFresh ==
  ASSUME IInv, GrantsInv, NEW n \in Unissued
  PROVE  /\ n \in Nonces /\ n \notin used /\ ran[n] = 0
         /\ ~ Logged(frames, "authorization", n)
         /\ IssuedFor(n) = {} /\ \A s : ~ Recorded(n, s)
<1>1. n \in Nonces /\ ~ Logged(frames, "authorization", n)
  BY DEF Unissued
<1>2. IssuedFor(n) = {}
  BY <1>1 DEF IssuedFor, Logged
<1>3. n \notin used
  BY <1>2 DEF GrantsInv
<1>4. ran[n] = 0
  BY <1>1, <1>3 DEF IInv, ClaimsInv
<1>5. ASSUME NEW s, Recorded(n, s) PROVE FALSE
  <2>1. PICK i \in 1..Len(frames) :
          frames[i].type = "execution" /\ frames[i].nonce = n
    BY <1>5 DEF Recorded
  <2>2. PICK j \in 1..(i - 1) :
          frames[j].type = "authorization" /\ frames[j].nonce = n
    BY <2>1 DEF IInv, LogInv, AuditConsistent
  <2>3. j \in 1..Len(frames)
    BY <2>2 DEF IInv, TypeOK
  <2> QED
    BY <1>1, <2>2, <2>3 DEF Logged
<1> QED
  BY <1>1, <1>2, <1>3, <1>4, <1>5

(* Every step keeps GrantsInv. *)
LEMMA GrantsStep ==
  ASSUME IInv, GrantsInv, Lives
  PROVE  GrantsInv'
<1>0. frames \in Seq(Frame) /\ Len(frames) \in Nat
  BY DEF IInv, TypeOK
<1>1. CASE Quiet
  BY <1>1 DEF Quiet, GrantsInv, IssuedFor
<1>2. ASSUME NEW n \in Nonces, NEW status, NEW payload, n \in Unissued,
             AuthorizationFrame(n, status, payload) \in Frame,
             frames' = Append(frames, AuthorizationFrame(n, status, payload)),
             used' = used
      PROVE  GrantsInv'
  <2>1. /\ Len(frames') = Len(frames) + 1
        /\ \A i \in 1..Len(frames) : frames'[i] = frames[i]
        /\ frames'[Len(frames) + 1] = AuthorizationFrame(n, status, payload)
    BY <1>0, <1>2, AppendFacts
  <2>2. \A i \in 1..Len(frames) :
          ~ (frames[i].type = "authorization" /\ frames[i].nonce = n)
    BY <1>2 DEF Unissued, Logged
  <2>3. AuthorizationFrame(n, status, payload).nonce = n
    BY DEF AuthorizationFrame
  <2>4. \A m \in used : IssuedFor(m)' # {}
    BY <1>0, <1>2, UnissuedIsFresh, AuthorizationAppended DEF GrantsInv
  <2>5. \A i, j \in 1..Len(frames') :
          /\ frames'[i].type = "authorization" /\ frames'[j].type = "authorization"
          /\ frames'[i].nonce = frames'[j].nonce
          => i = j
    <3>1. \A i \in 1..Len(frames') : i \in 1..Len(frames) \/ i = Len(frames) + 1
      BY <1>0, <2>1
    <3> QED
      BY <2>1, <2>2, <2>3, <3>1 DEF GrantsInv
  <2> QED
    BY <1>2, <2>4, <2>5 DEF GrantsInv
<1>3. ASSUME NEW n \in Nonces, NEW a \in Artifact, Granting(n, a)
      PROVE  GrantsInv'
  BY <1>2, <1>3 DEF Granting
<1>4. ASSUME NEW n \in Nonces, Denying(n) PROVE GrantsInv'
  BY <1>2, <1>4 DEF Denying
<1>5. ASSUME NEW a \in artifacts, Consuming(a) PROVE GrantsInv'
  <2>1. \A m : IssuedFor(m)' = IssuedFor(m)
    BY <1>5 DEF Consuming, IssuedFor
  <2> QED
    BY <1>5, <2>1, GrantedForArtifact DEF Consuming, GrantsInv
<1>6. ASSUME NEW a \in artifacts, Performing(a) PROVE GrantsInv'
  BY <1>6 DEF Performing, GrantsInv, IssuedFor
<1>7. ASSUME NEW n \in Nonces, NEW status \in {"completed", "failed"},
             Recording(n, status)
      PROVE  GrantsInv'
  <2>1. /\ Len(frames') = Len(frames) + 1
        /\ \A i \in 1..Len(frames) : frames'[i] = frames[i]
        /\ frames'[Len(frames) + 1].type = "execution"
    BY <1>0, <1>7, AppendFacts DEF Recording, ExecutionFrame
  <2>2. \A m \in used : IssuedFor(m)' # {}
    BY <1>0, <1>7, ExecutionAppended DEF Recording, GrantsInv
  <2>3. \A i \in 1..Len(frames') : frames'[i].type = "authorization" =>
           i \in 1..Len(frames) /\ frames'[i] = frames[i]
    BY <1>0, <2>1
  <2> QED
    BY <1>7, <2>2, <2>3 DEF Recording, GrantsInv
<1> QED
  BY <1>1, <1>3, <1>4, <1>5, <1>6, <1>7 DEF Lives

(* Two of the abstract variables, under the refinement mapping. *)
grantedOf == [n \in Nonces |-> TheRequest(IssuedFor(n))]
effectsOf(n) == {a.request : a \in {b \in effects : b.nonce = n}}
effectOf  == [n \in Nonces |-> TheRequest(effectsOf(n))]

(* Every step of the barrier is a step of NonceLifecycle, or none. *)
LEMMA StepRefines ==
  ASSUME IInv, GrantsInv, Lives
  PROVE  [Lifecycle!Next]_(Lifecycle!vars)
<1>0. /\ frames \in Seq(Frame) /\ ran \in [Nonces -> Nat]
      /\ \A n \in Nonces : ran[n] = 1 => n \in used
  BY DEF IInv, TypeOK, ClaimsInv
<1>1. CASE Quiet
  <2>1. /\ \A n \in Nonces : Stage(n)' = Stage(n)
        /\ \A n \in Nonces : IssuedFor(n)' = IssuedFor(n)
        /\ effects' = effects
    BY <1>1 DEF Quiet, Stage, Recorded, IssuedFor, Logged
  <2> QED
    BY <2>1 DEF Lifecycle!vars
<1>3. ASSUME NEW n \in Nonces, NEW a \in Artifact, Granting(n, a)
      PROVE  Lifecycle!Grant(n, a.request)
  <2> DEFINE S == {a}
  <2>1. Stage(n) = "fresh"
    BY <1>3, UnissuedIsFresh DEF Granting, Stage
  <2>2. /\ \A m, s : Recorded(m, s)' <=> Recorded(m, s)
        /\ \A m : Logged(frames', "authorization", m) <=>
                    m = n \/ Logged(frames, "authorization", m)
        /\ \A m : m # n => IssuedFor(m)' = IssuedFor(m)
        /\ IssuedFor(n)' = {r \in Requests : \E b \in S : b.request = r}
    <3>1. /\ n \in Unissued /\ AuthorizationFrame(n, "issued", S) \in Frame
          /\ frames' = Append(frames, AuthorizationFrame(n, "issued", S))
      BY <1>3 DEF Granting
    <3> HIDE DEF S
    <3> QED
      BY <1>0, <3>1, AuthorizationAppended
  <2>3. IssuedFor(n)' = {a.request} /\ TheRequest({a.request}) = a.request
    BY <1>3, <2>2 DEF Granting, TheRequest
  <2>4. Stage(n)' = "granted"
    BY <1>3, <2>2, <2>3, UnissuedIsFresh DEF Granting, Stage
  <2>5. \A m \in Nonces : m # n => Stage(m)' = Stage(m)
    BY <1>3, <2>2 DEF Granting, Stage
  <2>6. effects' = effects
    BY <1>3 DEF Granting
  <2> QED
    BY <2>1, <2>2, <2>3, <2>4, <2>5, <2>6 DEF Lifecycle!Grant, Lifecycle!Move
<1>4. ASSUME NEW n \in Nonces, Denying(n) PROVE Lifecycle!Deny(n)
  <2>1. Stage(n) = "fresh" /\ IssuedFor(n) = {}
    BY <1>4, UnissuedIsFresh DEF Denying, Stage
  <2>2. /\ \A m, s : Recorded(m, s)' <=> Recorded(m, s)
        /\ \A m : Logged(frames', "authorization", m) <=>
                    m = n \/ Logged(frames, "authorization", m)
        /\ \A m : m # n => IssuedFor(m)' = IssuedFor(m)
        /\ IssuedFor(n)' = {r \in Requests : \E b \in {} : b.request = r}
    BY <1>0, <1>4, AuthorizationAppended DEF Denying
  <2>3. IssuedFor(n)' = {}
    BY <2>2
  <2>4. Stage(n)' = "denied"
    BY <1>4, <2>2, <2>3, UnissuedIsFresh DEF Denying, Stage
  <2>5. \A m \in Nonces : m # n => Stage(m)' = Stage(m)
    BY <1>4, <2>2 DEF Denying, Stage
  <2>6. effects' = effects /\ \A m \in Nonces : IssuedFor(m)' = IssuedFor(m)
    BY <1>4, <2>1, <2>2, <2>3 DEF Denying
  <2> QED
    BY <2>1, <2>4, <2>5, <2>6 DEF Lifecycle!Deny, Lifecycle!Move
<1>5. ASSUME NEW a \in artifacts, Consuming(a) PROVE Lifecycle!Consume(a.nonce)
  <2> DEFINE n == a.nonce
  <2>1. /\ n \in Nonces /\ IssuedFor(n) # {}
        /\ n \notin used /\ ran[n] = 0
    BY <1>5, GrantedForArtifact DEF Consuming, IInv, ClaimsInv
  <2>2. \A s : ~ Recorded(n, s)
    BY <2>1 DEF Recorded, IInv, LogInv, AuditConsistent
  <2>3. /\ \A m : IssuedFor(m)' = IssuedFor(m)
        /\ \A m, s : Recorded(m, s)' <=> Recorded(m, s)
        /\ \A m : Logged(frames', "authorization", m) <=>
                    Logged(frames, "authorization", m)
        /\ ran' = ran /\ effects' = effects /\ used' = used \cup {n}
    BY <1>5 DEF Consuming, IssuedFor, Recorded, Logged
  <2>4. Stage(n) = "granted"
    BY <2>1, <2>2 DEF Stage
  <2>5. Stage(n)' = "consumed"
    BY <2>1, <2>2, <2>3 DEF Stage
  <2>6. \A m \in Nonces : m # n => Stage(m)' = Stage(m)
    BY <2>3 DEF Stage
  <2> QED
    BY <2>1, <2>3, <2>4, <2>5, <2>6 DEF Lifecycle!Consume, Lifecycle!Move
<1>6. ASSUME NEW a \in artifacts, Performing(a) PROVE Lifecycle!Perform(a.nonce)
  <2> DEFINE n == a.nonce
  <2>1. n \in Nonces /\ IssuedFor(n) = {a.request} /\ n \in used /\ ran[n] = 0
    BY <1>6, GrantedForArtifact DEF Performing
  <2>2. \A s : ~ Recorded(n, s)
    BY <2>1 DEF Recorded, IInv, LogInv, AuditConsistent
  <2>3. /\ \A m : IssuedFor(m)' = IssuedFor(m)
        /\ \A m, s : Recorded(m, s)' <=> Recorded(m, s)
        /\ \A m : Logged(frames', "authorization", m) <=>
                    Logged(frames, "authorization", m)
        /\ used' = used /\ effects' = effects \cup {a}
        /\ ran'[n] = 1 /\ \A m \in Nonces : m # n => ran'[m] = ran[m]
    BY <1>0, <1>6, <2>1 DEF Performing, IssuedFor, Recorded, Logged
  <2>4. Stage(n) = "consumed"
    BY <2>1, <2>2 DEF Stage
  <2>5. Stage(n)' = "performed"
    BY <2>2, <2>3 DEF Stage
  <2>6. \A m \in Nonces : m # n => Stage(m)' = Stage(m)
    BY <2>3 DEF Stage
  <2>7. effectsOf(n)' = {a.request}
    <3>1. \A b \in effects : b.nonce # n
      BY <2>1 DEF IInv, ArtifactsInv
    <3> QED
      BY <2>3, <3>1 DEF effectsOf
  <2>8. \A m \in Nonces : m # n => effectsOf(m)' = effectsOf(m)
    BY <2>3 DEF effectsOf
  <2>9. effectOf' = [effectOf EXCEPT ![n] = grantedOf[n]]
    BY <2>1, <2>7, <2>8 DEF effectOf, grantedOf
  <2> QED
    BY <2>1, <2>3, <2>4, <2>5, <2>6, <2>9
       DEF Lifecycle!Perform, Lifecycle!Move, effectOf, effectsOf, grantedOf
<1>7. ASSUME NEW n \in Nonces, NEW status \in {"completed", "failed"},
             Recording(n, status)
      PROVE  Lifecycle!Record(n, status)
  <2>1. \A s : ~ Recorded(n, s)
    BY <1>7 DEF Recording, Recorded, Logged
  <2>2. /\ \A m, s : Recorded(m, s)' <=>
                       (m = n /\ s = status) \/ Recorded(m, s)
        /\ \A m : Logged(frames', "authorization", m) <=>
                    Logged(frames, "authorization", m)
        /\ \A m : IssuedFor(m)' = IssuedFor(m)
    BY <1>0, <1>7, ExecutionAppended DEF Recording
  <2>3. Stage(n) = "performed"
    BY <1>7, <2>1 DEF Recording, Stage
  <2>4. Stage(n)' = status
    BY <2>1, <2>2 DEF Stage
  <2>5. \A m \in Nonces : m # n => Stage(m)' = Stage(m)
    BY <1>7, <2>2 DEF Recording, Stage
  <2>6. effects' = effects
    BY <1>7 DEF Recording
  <2> QED
    BY <2>2, <2>3, <2>4, <2>5, <2>6 DEF Lifecycle!Record, Lifecycle!Move
<1>8. \A a \in artifacts : a.nonce \in Nonces
  BY GrantedForArtifact
<1> DEFINE stages == [m \in Nonces |-> Stage(m)]
<1>9. ASSUME NEW n \in Nonces, NEW x, NEW y, x # y, Lifecycle!Move(n, x, y)
      PROVE  stages'[n] # stages[n]
  BY <1>9 DEF Lifecycle!Move
<1>10. \A n \in Nonces : Lifecycle!Deny(n) => stages'[n] # stages[n]
  BY <1>9 DEF Lifecycle!Deny
<1>11. \A n \in Nonces, r \in Requests :
         Lifecycle!Grant(n, r) => stages'[n] # stages[n]
  BY <1>9 DEF Lifecycle!Grant
<1>12. \A n \in Nonces : Lifecycle!Consume(n) \/ Lifecycle!Perform(n)
                            => stages'[n] # stages[n]
  BY <1>9 DEF Lifecycle!Consume, Lifecycle!Perform
<1>13. \A n \in Nonces, status \in {"completed", "failed"} :
         Lifecycle!Record(n, status) => stages'[n] # stages[n]
  BY <1>9 DEF Lifecycle!Record
<1> QED
  BY <1>1, <1>3, <1>4, <1>5, <1>6, <1>7, <1>8, <1>10, <1>11, <1>12, <1>13
     DEF Lives, Granting, Lifecycle!Next

(* The barrier implements NonceLifecycle when claims are durable: however  *)
(* deliveries, crashes and store failures interleave, a nonce goes through *)
(* its stages once and in order, and the effect it has is the request it   *)
(* was granted for (ExecutionBoundary.execute over claim_nonce).           *)
THEOREM BarrierImplements ==
  ASSUME DurableClaims
  PROVE  Spec => ImplementsLifecycle
<1>1. Init => GrantsInv
  BY DEF Init, GrantsInv
<1>2. Init => Lifecycle!Init
  <2> SUFFICES ASSUME Init PROVE Lifecycle!Init
    OBVIOUS
  <2>1. frames = << >> /\ used = {} /\ effects = {} /\ \A n \in Nonces : ran[n] = 0
    BY DEF Init
  <2>2. \A n : IssuedFor(n) = {}
    BY <2>1 DEF IssuedFor
  <2>3. \A n \in Nonces : Stage(n) = "fresh"
    BY <2>1, <2>2 DEF Stage, Recorded, Logged
  <2> QED
    BY <2>1, <2>2, <2>3 DEF Lifecycle!Init, TheRequest
<1>3. IInv /\ GrantsInv /\ [Next]_vars => GrantsInv'
  BY StepLives, GrantsStep
<1>4. IInv /\ GrantsInv /\ [Next]_vars => [Lifecycle!Next]_(Lifecycle!vars)
  BY StepLives, StepRefines
<1> QED
  BY <1>1, <1>2, <1>3, <1>4, BarrierInvariant, PTL
     DEF Spec, ImplementsLifecycle, Lifecycle!Spec
=============================================================================
