------------------------------- MODULE Barrier -------------------------------
(***************************************************************************)
(* The authorization issuer, the execution barrier, the replay log with    *)
(* its consumed nonces, and the trust store: issuer.py, engine.py,         *)
(* replay.py, trust.py, and their composition in service.py, bootstrap.py. *)
(*                                                                         *)
(* Several processes (API replicas, workers) share one replay log and one  *)
(* trust store; each has its own policy registry and signing key and       *)
(* serves requests in several threads.  A delivery of an artifact is       *)
(* served in the steps in which ExecutionBoundary.execute touches shared   *)
(* state: the issuer check, the replay-log check, the policy check, the    *)
(* claim of the nonce, the handler, and the execution frame.  Any step of  *)
(* any other thread, a revocation, the clock or a crash may come between.  *)
(*                                                                         *)
(* DurableClaims tells the log's back ends apart.  SQLiteReplayLog and     *)
(* PostgresReplayLog commit a claim to a table of its own; the JSONL       *)
(* ReplayLog keeps claims in memory and load_jsonl rebuilds them from the  *)
(* execution frames.                                                       *)
(*                                                                         *)
(* A policy's content is the set of requests its arbiter allows, and its   *)
(* digest is that content; Ed25519 is ideal: a signature verifies exactly  *)
(* on the artifacts the issuer signed.                                     *)
(***************************************************************************)
EXTENDS Naturals, Sequences, FiniteSets

CONSTANTS Nonces,         \* what nonce_factory can return
          FirstNonces,    \* bound: those an authorization that compensates
                          \* nothing may draw
          Requests,       \* action requests
          Handlers,       \* requests whose action GovernedService can run
          PolicyIds,
          Contents,       \* policy definitions: sets of allowed requests
          Keys,           \* issuer key ids
          Procs,          \* processes
          Threads,
          ProcOf,         \* the process a thread belongs to
          Ttls,           \* ttl_seconds accepted by the policies
          MaxTime,        \* bound of the clock
          MaxCrashes,     \* bound of the number of crashes
          DurableClaims,  \* nonce claims survive a crash
          BootstrapTrust, \* a restart runs build_runtime_service
          None

ASSUME BarrierConstants ==
  /\ FirstNonces \subseteq Nonces
  /\ Handlers \subseteq Requests
  /\ Contents \subseteq SUBSET Requests
  /\ ProcOf \in [Threads -> Procs]
  /\ Ttls \subseteq Nat \ {0}
  /\ MaxTime \in Nat
  /\ MaxCrashes \in Nat
  /\ DurableClaims \in BOOLEAN
  /\ BootstrapTrust \in BOOLEAN
  /\ None \notin Requests
  /\ None \notin Contents
  /\ None \notin {"completed", "failed"}

VARIABLES frames,       \* the replay log
          used,         \* consumed nonces
          view,         \* how much of the log a process has in memory
          artifacts,    \* signed artifacts handed to clients
          keys,         \* trust store: known issuer keys
          revoked,      \* trust store: revoked issuer keys
          policies,     \* policy registry of every process
          signer,       \* issuer key of every process
          clock,
          pc,           \* step of the delivery a thread is serving
          art,          \* the artifact it serves
          outcome,      \* how the handler it ran ended
          crashes,
          ran,          \* history: how often the handler ran under a nonce
          effects,      \* history: the artifacts handlers ran with
          lost,         \* history: claimed nonces whose frame cannot come
          compensations \* history: <<failed nonce, nonce of its compensation>>

logVars     == <<frames, used, view>>
trustVars   == <<keys, revoked>>
procVars    == <<policies, signer>>
threadVars  == <<pc, art, outcome>>
historyVars == <<ran, effects, lost, compensations>>
vars == <<frames, used, view, artifacts, keys, revoked, policies, signer,
          clock, pc, art, outcome, crashes, ran, effects, lost, compensations>>

-----------------------------------------------------------------------------
(* Data *)

Artifact == [nonce : Nonces, request : Requests, policy : PolicyIds,
             digest : Contents, expires : Nat, key : Keys]

Frame == [type : {"authorization", "execution"}, nonce : Nonces,
          status : {"issued", "denied", "completed", "failed"},
          payload : SUBSET Artifact]

(* artifact_payload is present, as a singleton, only in issued frames. *)
AuthorizationFrame(n, status, payload) ==
  [type |-> "authorization", nonce |-> n, status |-> status,
   payload |-> payload]

ExecutionFrame(n, status) ==
  [type |-> "execution", nonce |-> n, status |-> status, payload |-> {}]

Logged(log, type, n) ==
  \E i \in 1..Len(log) : log[i].type = type /\ log[i].nonce = n

(* Mutant of FailedLogged: any execution counts, a completed one too. *)
ExecutionLogged(log, n) == Logged(log, "execution", n)

FailedLogged(log, n) ==
  \E i \in 1..Len(log) :
     log[i].type = "execution" /\ log[i].nonce = n /\ log[i].status = "failed"

resolve(k) == k \in keys \ revoked

decide(content, r) == r \in content

(* Ed25519 as the code uses it: verify_signature accepts what was signed. *)
verify_signature(a) == a \in artifacts

-----------------------------------------------------------------------------
Init ==
  /\ frames = << >>
  /\ used = {}
  /\ view = [p \in Procs |-> 0]
  /\ artifacts = {}
  /\ keys = Keys
  /\ revoked = {}
  /\ policies \in [Procs -> [PolicyIds -> Contents \cup {None}]]
  /\ signer \in [Procs -> Keys]
  /\ clock = 0
  /\ pc = [t \in Threads |-> "idle"]
  /\ art = [t \in Threads |-> None]
  /\ outcome = [t \in Threads |-> None]
  /\ crashes = 0
  /\ ran = [n \in Nonces |-> 0]
  /\ effects = {}
  /\ lost = {}
  /\ compensations = {}

-----------------------------------------------------------------------------
(* The issuer *)

Unissued == {n \in Nonces : ~ Logged(frames, "authorization", n)}

append(p, f) == /\ frames' = Append(frames, f)
                /\ view' = [view EXCEPT ![p] = Len(frames) + 1]

(* The policy allows the request: the authorization frame is appended, then *)
(* the artifact is signed.  A remote signer may fail after the frame.       *)
Issue(p, r, id, ttl, n, signed) ==
  LET a == [nonce |-> n, request |-> r, policy |-> id,
            digest |-> policies[p][id], expires |-> clock + ttl,
            key |-> signer[p]]
  IN  /\ policies[p][id] # None
      /\ decide(policies[p][id], r)
      /\ append(p, AuthorizationFrame(n, "issued", {a}))
      /\ artifacts' = IF signed THEN artifacts \cup {a} ELSE artifacts

(* The policy denies it: the denial is audited and no artifact exists. *)
Refuse(p, r, id, n) ==
  /\ policies[p][id] # None
  /\ ~ decide(policies[p][id], r)
  /\ append(p, AuthorizationFrame(n, "denied", {}))
  /\ UNCHANGED artifacts

authorize(p, r, id, ttl, n, signed) ==
  /\ n \in Unissued
  /\ Issue(p, r, id, ttl, n, signed) \/ Refuse(p, r, id, n)
  /\ UNCHANGED <<used, clock, crashes, ran, effects, lost,
                 trustVars, procVars, threadVars>>

Authorize ==
  \E p \in Procs, r \in Requests, id \in PolicyIds, ttl \in Ttls,
     n \in FirstNonces, signed \in BOOLEAN :
        /\ authorize(p, r, id, ttl, n, signed)
        /\ UNCHANGED compensations

(* events_for_nonce reads the process's own copy of the log, which only    *)
(* another operation of that process refreshes.                            *)
events_for_nonce(p) == SubSeq(frames, 1, view[p])

authorize_compensation(p, failed) ==
  /\ FailedLogged(events_for_nonce(p), failed)
  /\ \E r \in Requests, id \in PolicyIds, ttl \in Ttls, n \in Nonces,
        signed \in BOOLEAN :
        /\ authorize(p, r, id, ttl, n, signed)
        /\ compensations' = compensations \cup {<<failed, n>>}

Compensate == \E p \in Procs, n \in Nonces : authorize_compensation(p, n)

-----------------------------------------------------------------------------
(* The barrier: one delivery, step by step *)

(* Everything a client may present: an artifact it was given, or one whose  *)
(* request was changed on the way.                                          *)
Deliverable ==
  artifacts \cup {[a EXCEPT !.request = r] : a \in artifacts, r \in Requests}

Become(t, step) == pc' = [pc EXCEPT ![t] = step]

Finish(t) == /\ Become(t, "idle")
             /\ art' = [art EXCEPT ![t] = None]
             /\ outcome' = [outcome EXCEPT ![t] = None]

execute(t, a) ==
  /\ pc[t] = "idle"
  /\ a.request \in Handlers
  /\ Become(t, "issuer")
  /\ art' = [art EXCEPT ![t] = a]
  /\ UNCHANGED <<logVars, artifacts, trustVars, procVars, clock, outcome,
                 crashes, historyVars>>

(* Mutant of Check: the error is swallowed and the delivery goes on. *)
CheckFailOpen(t, step, holds, next) ==
  /\ pc[t] = step
  /\ Become(t, next)
  /\ UNCHANGED <<art, outcome>>

(* A check passes and the delivery goes on, or AuthorizationError ends it. *)
Check(t, step, holds, next) ==
  /\ pc[t] = step
  /\ IF holds THEN Become(t, next) /\ UNCHANGED <<art, outcome>>
              ELSE Finish(t)

IssuerValid(a) == resolve(a.key) /\ verify_signature(a) /\ clock < a.expires

CheckIssuer(t) ==
  /\ Check(t, "issuer", IssuerValid(art[t]), "replay")
  /\ UNCHANGED <<logVars, artifacts, trustVars, procVars, clock, crashes,
                 historyVars>>

(* The authorization frame of the artifact's nonce carries its payload. *)
FrameMatches(a) ==
  \E i \in 1..Len(frames) : /\ frames[i].type = "authorization"
                            /\ frames[i].nonce = a.nonce
                            /\ frames[i].payload = {a}

ReplayValid(a) == a.nonce \notin used /\ FrameMatches(a)

CheckReplay(t) ==
  /\ Check(t, "replay", ReplayValid(art[t]), "policy")
  /\ view' = [view EXCEPT ![ProcOf[t]] = Len(frames)]
  /\ UNCHANGED <<frames, used, artifacts, trustVars, procVars, clock,
                 crashes, historyVars>>

PolicyValid(p, a) ==
  /\ policies[p][a.policy] # None
  /\ policies[p][a.policy] = a.digest
  /\ decide(policies[p][a.policy], a.request)

(* Mutant of CheckPolicy: the handler runs without a claim. *)
CheckPolicySkipsClaim(t) ==
  /\ Check(t, "policy", PolicyValid(ProcOf[t], art[t]), "run")
  /\ UNCHANGED <<logVars, artifacts, trustVars, procVars, clock, crashes,
                 historyVars>>

CheckPolicy(t) ==
  /\ Check(t, "policy", PolicyValid(ProcOf[t], art[t]), "claim")
  /\ UNCHANGED <<logVars, artifacts, trustVars, procVars, clock, crashes,
                 historyVars>>

(* Mutant of claim_nonce: an upsert, where the primary key should refuse. *)
ClaimUpsert(t) ==
  /\ Check(t, "claim", TRUE, "run")
  /\ used' = used \cup {art[t].nonce}
  /\ UNCHANGED <<frames, view, artifacts, trustVars, procVars, clock, crashes,
                 historyVars>>

claim_nonce(t) ==
  /\ Check(t, "claim", art[t].nonce \notin used, "run")
  /\ used' = used \cup {art[t].nonce}
  /\ UNCHANGED <<frames, view, artifacts, trustVars, procVars, clock, crashes,
                 historyVars>>

(* The store fails during the claim and the delivery ends as if the nonce   *)
(* were used: the claim is rolled back, or was committed and nobody knows.  *)
ClaimRaises(t, committed) ==
  /\ pc[t] = "claim"
  /\ DurableClaims
  /\ Finish(t)
  /\ IF committed /\ art[t].nonce \notin used
     THEN /\ used' = used \cup {art[t].nonce}
          /\ lost' = lost \cup {art[t].nonce}
     ELSE UNCHANGED <<used, lost>>
  /\ UNCHANGED <<frames, view, artifacts, trustVars, procVars, clock, crashes,
                 ran, effects, compensations>>

(* Mutant of RunAction: how the handler ended is not kept. *)
RunActionForgets(t, status) ==
  /\ pc[t] = "run"
  /\ Become(t, "record")
  /\ ran' = [ran EXCEPT ![art[t].nonce] = @ + 1]
  /\ effects' = effects \cup {art[t]}
  /\ UNCHANGED <<logVars, artifacts, trustVars, procVars, clock, art, outcome,
                 crashes, lost, compensations>>

(* Mutant of RunAction: no except clause, a failing handler leaves no frame. *)
RunActionDropsFailure(t, status) ==
  /\ pc[t] = "run"
  /\ IF status = "failed"
     THEN Finish(t)
     ELSE /\ Become(t, "record")
          /\ outcome' = [outcome EXCEPT ![t] = status]
          /\ UNCHANGED art
  /\ ran' = [ran EXCEPT ![art[t].nonce] = @ + 1]
  /\ effects' = effects \cup {art[t]}
  /\ UNCHANGED <<logVars, artifacts, trustVars, procVars, clock, crashes,
                 lost, compensations>>

(* The handler runs and returns or raises. *)
RunAction(t, status) ==
  /\ pc[t] = "run"
  /\ Become(t, "record")
  /\ outcome' = [outcome EXCEPT ![t] = status]
  /\ ran' = [ran EXCEPT ![art[t].nonce] = @ + 1]
  /\ effects' = effects \cup {art[t]}
  /\ UNCHANGED <<logVars, artifacts, trustVars, procVars, clock, art, crashes,
                 lost, compensations>>

(* Mutant of AppendExecution: the append is tried again after it succeeded. *)
AppendExecutionAgain(t) ==
  /\ pc[t] = "record"
  /\ Len(frames) < 4
  /\ append(ProcOf[t], ExecutionFrame(art[t].nonce, outcome[t]))
  /\ UNCHANGED <<used, artifacts, trustVars, procVars, clock, crashes,
                 threadVars, historyVars>>

AppendExecution(t) ==
  /\ pc[t] = "record"
  /\ append(ProcOf[t], ExecutionFrame(art[t].nonce, outcome[t]))
  /\ Finish(t)
  /\ UNCHANGED <<used, artifacts, trustVars, procVars, clock, crashes,
                 historyVars>>

(* The store refuses the execution frame; the exception reaches the caller. *)
AppendRaises(t) ==
  /\ pc[t] = "record"
  /\ lost' = lost \cup {art[t].nonce}
  /\ Finish(t)
  /\ UNCHANGED <<logVars, artifacts, trustVars, procVars, clock, crashes, ran,
                 effects, compensations>>

(* The frame is committed, and the exception reaches the caller all the    *)
(* same; the process's copy of the log does not have the frame yet.        *)
AppendUnacknowledged(t) ==
  /\ pc[t] = "record"
  /\ frames' = Append(frames, ExecutionFrame(art[t].nonce, outcome[t]))
  /\ Finish(t)
  /\ UNCHANGED <<used, view, artifacts, trustVars, procVars, clock, crashes,
                 historyVars>>

Serve(t) == \/ CheckIssuer(t)
            \/ CheckReplay(t)
            \/ CheckPolicy(t)
            \/ claim_nonce(t)
            \/ \E committed \in BOOLEAN : ClaimRaises(t, committed)
            \/ \E status \in {"completed", "failed"} : RunAction(t, status)
            \/ AppendExecution(t)
            \/ AppendRaises(t)
            \/ AppendUnacknowledged(t)

Deliver == \E t \in Threads, a \in Deliverable : execute(t, a)

-----------------------------------------------------------------------------
(* The trust store, the registries, the log's readers, time and crashes *)

add(k) ==
  /\ ~ resolve(k)
  /\ keys' = keys \cup {k}
  /\ revoked' = revoked \ {k}
  /\ UNCHANGED <<logVars, artifacts, procVars, clock, threadVars, crashes,
                 historyVars>>

revoke(k) ==
  /\ k \in keys
  /\ revoked' = revoked \cup {k}
  /\ UNCHANGED <<keys, logVars, artifacts, procVars, clock, threadVars,
                 crashes, historyVars>>

(* A registry takes a new policy id; it refuses other content for an old.  *)
register(p, id, content) ==
  /\ policies[p][id] = None
  /\ policies' = [policies EXCEPT ![p][id] = content]
  /\ UNCHANGED <<signer, logVars, artifacts, trustVars, clock, threadVars,
                 crashes, historyVars>>

(* audit_summary and verify_integrity reload the process's copy of the log. *)
refresh(p) ==
  /\ view' = [view EXCEPT ![p] = Len(frames)]
  /\ UNCHANGED <<frames, used, artifacts, trustVars, procVars, clock,
                 threadVars, crashes, historyVars>>

Tick == /\ clock < MaxTime
        /\ clock' = clock + 1
        /\ UNCHANGED <<logVars, artifacts, trustVars, procVars, threadVars,
                       crashes, historyVars>>

ThreadsOf(p) == {t \in Threads : ProcOf[t] = p}

(* Mutant of RecoveredNonces: every back end recovers as load_jsonl does. *)
RecoverFromFrames == {n \in Nonces : Logged(frames, "execution", n)}

(* What a restart finds in the nonce store. *)
RecoveredNonces ==
  IF DurableClaims THEN used
  ELSE {n \in Nonces : Logged(frames, "execution", n)}

(* Process p dies and is started again, with the release and signing key   *)
(* its operator configures.  Its threads' deliveries are gone.             *)
CrashRestart(p, release, k) ==
  /\ crashes < MaxCrashes
  /\ crashes' = crashes + 1
  /\ pc' = [t \in Threads |-> IF ProcOf[t] = p THEN "idle" ELSE pc[t]]
  /\ art' = [t \in Threads |-> IF ProcOf[t] = p THEN None ELSE art[t]]
  /\ outcome' = [t \in Threads |-> IF ProcOf[t] = p THEN None ELSE outcome[t]]
  /\ lost' = lost \cup {n \in Nonces : \E t \in ThreadsOf(p) :
                           pc[t] \in {"run", "record"} /\ art[t].nonce = n}
  /\ used' = RecoveredNonces
  /\ view' = [view EXCEPT ![p] = Len(frames)]
  /\ policies' = [policies EXCEPT ![p] = release]
  /\ signer' = [signer EXCEPT ![p] = k]
  /\ IF BootstrapTrust /\ ~ resolve(k)
     THEN keys' = keys \cup {k} /\ revoked' = revoked \ {k}
     ELSE UNCHANGED trustVars
  /\ UNCHANGED <<frames, artifacts, clock, ran, effects, compensations>>

Operate ==
  \/ \E k \in Keys : add(k) \/ revoke(k)
  \/ \E p \in Procs, id \in PolicyIds, c \in Contents : register(p, id, c)
  \/ \E p \in Procs : refresh(p)
  \/ \E p \in Procs, release \in [PolicyIds -> Contents \cup {None}],
        k \in Keys : CrashRestart(p, release, k)
  \/ Tick

Next == \/ Authorize
        \/ Compensate
        \/ Deliver
        \/ \E t \in Threads : Serve(t)
        \/ Operate

Spec == Init /\ [][Next]_vars

(* A thread that serves a delivery keeps running; clients, operators, the  *)
(* clock and crashes owe nothing.                                          *)
FairSpec == Spec /\ \A t \in Threads : WF_vars(Serve(t))

-----------------------------------------------------------------------------
(* Properties *)

(* Every variable holds a value of its kind, and a thread that serves a    *)
(* delivery has an artifact. *)
TypeOK ==
  /\ frames \in Seq(Frame)
  /\ used \subseteq Nonces
  /\ view \in [Procs -> Nat]
  /\ artifacts \subseteq Artifact
  /\ keys \subseteq Keys
  /\ revoked \subseteq Keys
  /\ policies \in [Procs -> [PolicyIds -> Contents \cup {None}]]
  /\ signer \in [Procs -> Keys]
  /\ clock \in Nat
  /\ pc \in [Threads -> {"idle", "issuer", "replay", "policy", "claim",
                         "run", "record"}]
  /\ art \in [Threads -> Artifact \cup {None}]
  /\ outcome \in [Threads -> {"completed", "failed", None}]
  /\ crashes \in Nat
  /\ ran \in [Nonces -> Nat]
  /\ effects \subseteq Artifact
  /\ lost \subseteq Nonces
  /\ compensations \subseteq Nonces \X Nonces
  /\ \A t \in Threads : pc[t] # "idle" => art[t] \in Artifact
  /\ \A t \in Threads : pc[t] = "record" => outcome[t] # None

(* However often an artifact is delivered, to however many threads of      *)
(* however many processes, and whatever crashes: the handler runs at most  *)
(* once under its nonce (ExecutionBoundary.execute with claim_nonce).      *)
AtMostOnce == \A n \in Nonces : ran[n] <= 1

(* A handler only ever ran with an artifact that the issuer signed, whose  *)
(* unchanged payload an issued authorization frame carries, whose policy   *)
(* allowed the request, and whose nonce is consumed (_validate: signature, *)
(* frame and policy checks together).                                      *)
RanAsAuthorized ==
  \A a \in effects :
     /\ a \in artifacts
     /\ FrameMatches(a)
     /\ decide(a.digest, a.request)
     /\ a.nonce \in used

(* The log's story is consistent: an execution frame follows the issued    *)
(* authorization frame of its nonce, no nonce has two execution frames,    *)
(* and none belongs to a nonce under which nothing ran                     *)
(* (reconstruct_decisions and authorize_compensation rely on it).          *)
AuditConsistent ==
  \A i \in 1..Len(frames) : frames[i].type = "execution" =>
     /\ ran[frames[i].nonce] > 0
     /\ \E j \in 1..(i - 1) : /\ frames[j].type = "authorization"
                              /\ frames[j].nonce = frames[i].nonce
                              /\ frames[j].status = "issued"
     /\ \A j \in 1..(i - 1) :
          frames[j].nonce = frames[i].nonce => frames[j].type # "execution"

(* A compensation is only issued for a nonce whose failed execution is in  *)
(* the log before the compensation's own authorization frame, and under a  *)
(* nonce of its own (authorize_compensation).                              *)
CompensationSound ==
  \A c \in compensations : \E i, j \in 1..Len(frames) :
     /\ i < j
     /\ frames[i].type = "execution"
     /\ frames[i].nonce = c[1]
     /\ frames[i].status = "failed"
     /\ frames[j].type = "authorization"
     /\ frames[j].nonce = c[2]

(* A run leaves its execution frame, unless the process died or the store  *)
(* refused the frame: no code path of execute drops it.                    *)
NoSilentRun ==
  \A n \in Nonces : ran[n] > 0 =>
     \/ Logged(frames, "execution", n)
     \/ n \in lost
     \/ \E t \in Threads : pc[t] = "record" /\ art[t].nonce = n

(* No step, a crash and the recovery after it included, frees a consumed   *)
(* nonce or takes back a frame ("a failed action remains consumed").       *)
ConsumptionIsForever ==
  [][/\ used \subseteq used'
     /\ Len(frames) <= Len(frames')
     /\ SubSeq(frames', 1, Len(frames)) = frames]_vars

(* Every claim is resolved: the nonce gets its execution frame, or its     *)
(* frame is known to be lost.                                              *)
ClaimResolves ==
  \A n \in Nonces :
     n \in used ~> (Logged(frames, "execution", n) \/ n \in lost)

-----------------------------------------------------------------------------
(* The inductive invariant behind these properties, for durable claims *)

(* The thread has claimed its nonce and not yet written its frame. *)
Holds(t) == pc[t] \in {"run", "record"}

(* A claim belongs to one thread, and a nonce is run under it at most once. *)
ClaimsInv ==
  /\ \A n \in Nonces : ran[n] \in {0, 1} /\ (ran[n] = 1 => n \in used)
  /\ \A t \in Threads :
       /\ pc[t] = "run" => art[t].nonce \in used /\ ran[art[t].nonce] = 0
       /\ pc[t] = "record" => ran[art[t].nonce] = 1
  /\ \A t, u \in Threads :
       t # u /\ Holds(t) /\ Holds(u) => art[t].nonce # art[u].nonce

(* Only signed, logged, allowed artifacts are past the first check. *)
ArtifactsInv ==
  /\ \A a \in artifacts : FrameMatches(a) /\ decide(a.digest, a.request)
  /\ \A t \in Threads :
       pc[t] \in {"replay", "policy", "claim", "run", "record"}
          => art[t] \in artifacts
  /\ \A a \in effects : a \in artifacts /\ ran[a.nonce] = 1

(* Nobody holds a claim whose execution frame is written. *)
LogInv ==
  /\ AuditConsistent
  /\ \A i \in 1..Len(frames) :
       /\ frames[i].type = "execution" =>
            \A t \in Threads : Holds(t) => art[t].nonce # frames[i].nonce
       /\ frames[i].type = "authorization" /\ frames[i].payload # {} =>
            frames[i].status = "issued"
  /\ \A p \in Procs : view[p] <= Len(frames)

IInv == /\ TypeOK
        /\ ClaimsInv
        /\ ArtifactsInv
        /\ LogInv
        /\ NoSilentRun
        /\ CompensationSound

-----------------------------------------------------------------------------
(* The barrier implements NonceLifecycle *)

IssuedFor(n) ==
  {r \in Requests : \E i \in 1..Len(frames) :
     /\ frames[i].type = "authorization"
     /\ frames[i].nonce = n
     /\ \E a \in frames[i].payload : a.request = r}

Recorded(n, status) ==
  \E i \in 1..Len(frames) : /\ frames[i].type = "execution"
                            /\ frames[i].nonce = n
                            /\ frames[i].status = status

Stage(n) == IF Recorded(n, "completed") THEN "completed"
            ELSE IF Recorded(n, "failed") THEN "failed"
            ELSE IF ran[n] > 0 THEN "performed"
            ELSE IF n \in used THEN "consumed"
            ELSE IF IssuedFor(n) # {} THEN "granted"
            ELSE IF Logged(frames, "authorization", n) THEN "denied"
            ELSE "fresh"

TheRequest(S) == IF S = {} THEN None ELSE CHOOSE r \in S : TRUE

Lifecycle == INSTANCE NonceLifecycle WITH
  NoRequest <- None,
  stage <- [n \in Nonces |-> Stage(n)],
  granted <- [n \in Nonces |-> TheRequest(IssuedFor(n))],
  effect <- [n \in Nonces |->
               TheRequest({a.request : a \in {b \in effects : b.nonce = n}})]

(* The barrier is one of NonceLifecycle's implementations: every nonce goes *)
(* through its stages once, and the effect is the granted request.          *)
ImplementsLifecycle == Lifecycle!Spec
=============================================================================
