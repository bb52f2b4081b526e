------------------------------ MODULE JobQueue ------------------------------
(***************************************************************************)
(* The job queue and its workers: jobs.py, jobs_postgres.py, worker.py,    *)
(* worker_main.py, and the admin API's submit_job.                         *)
(*                                                                         *)
(* A job carries a signed artifact.  A worker claims a job, presents the   *)
(* artifact to the execution barrier, which consumes its nonce and returns *)
(* the job's specification, runs that in a sandbox, and settles the job as *)
(* succeeded, queued again, or dead-lettered.  Workers run in processes of *)
(* their own that can stall for longer than a lease, or die.               *)
(*                                                                         *)
(* Time is abstract.  Whether a queued job's available_at has come and     *)
(* whether a running job's lease_expires_at has passed are flags, and time *)
(* passing sets them.  The barrier is the one that module NonceLifecycle   *)
(* specifies and module Barrier implements: stage is the artifact's nonce. *)
(***************************************************************************)
EXTENDS Naturals, FiniteSets

CONSTANTS Jobs,        \* idempotency keys
          Artifacts,   \* signed artifacts, one nonce each
          Workers,
          MaxAttempts, \* max_attempts of every job
          MaxCrashes,  \* bound of the number of worker crashes
          Stores,      \* the stores a deployment may have chosen
          None

ASSUME JobQueueConstants ==
  /\ MaxAttempts \in Nat \ {0}
  /\ MaxCrashes \in Nat
  /\ Stores \subseteq {"postgres", "sqlite"}
  /\ None \notin Jobs
  /\ None \notin Artifacts
  /\ None \notin {"queued", "dead_letter"}

VARIABLES store,    \* the store of this deployment, "postgres" or "sqlite"
          status,   \* of every job; "absent" before it is submitted
          attempts,
          payload,  \* the artifact a job carries
          due,      \* available_at has come
          lease,    \* "none", "live" or "expired"
          stage,    \* of every artifact's nonce
          pc,       \* what a worker is doing
          job,      \* the job it works on
          verdict,  \* the status SQLiteJobStore.fail computed before writing
          crashes,
          ran,      \* history: sandbox runs per artifact
          good      \* history: jobs whose sandbox ended with exit code 0

jobVars == <<status, attempts, payload, due, lease>>
workerVars == <<pc, job, verdict>>
vars == <<store, status, attempts, payload, due, lease, stage, pc, job, verdict,
          crashes, ran, good>>

Statuses == {"absent", "queued", "running", "succeeded", "dead_letter"}

Init == /\ store \in Stores
        /\ status = [j \in Jobs |-> "absent"]
        /\ attempts = [j \in Jobs |-> 0]
        /\ payload = [j \in Jobs |-> None]
        /\ due = [j \in Jobs |-> FALSE]
        /\ lease = [j \in Jobs |-> "none"]
        /\ stage = [a \in Artifacts |-> "granted"]
        /\ pc = [w \in Workers |-> "idle"]
        /\ job = [w \in Workers |-> None]
        /\ verdict = [w \in Workers |-> None]
        /\ crashes = 0
        /\ ran = [a \in Artifacts |-> 0]
        /\ good = {}

-----------------------------------------------------------------------------
(* Submission.  Submitting a key again returns the job there is. *)

enqueue(j, a, delayed) ==
  /\ status[j] = "absent"
  /\ status' = [status EXCEPT ![j] = "queued"]
  /\ payload' = [payload EXCEPT ![j] = a]
  /\ due' = [due EXCEPT ![j] = ~ delayed]
  /\ UNCHANGED <<store, attempts, lease, stage, workerVars, crashes, ran, good>>

-----------------------------------------------------------------------------
(* A worker: run_once around WorkerRuntime._handle *)

Begin(w, j, step) ==
  /\ pc' = [pc EXCEPT ![w] = step]
  /\ job' = [job EXCEPT ![w] = j]

(* Mutant of Claimable: expired leases are not looked for. *)
ClaimableQueued(j) == status[j] = "queued" /\ due[j]

Claimable(j) ==
  \/ status[j] = "queued" /\ due[j]
  \/ store = "postgres" /\ status[j] = "running" /\ lease[j] = "expired"

MarkRunning(j) ==
  /\ status' = [status EXCEPT ![j] = "running"]
  /\ attempts' = [attempts EXCEPT ![j] = @ + 1]
  /\ lease' = [lease EXCEPT ![j] = IF store = "postgres" THEN "live" ELSE @]

(* One UPDATE with FOR UPDATE SKIP LOCKED. *)
ClaimPostgres(w) ==
  /\ store = "postgres"
  /\ pc[w] = "idle"
  /\ \E j \in Jobs : /\ Claimable(j)
                     /\ MarkRunning(j)
                     /\ Begin(w, j, "authorize")
  /\ UNCHANGED <<store, payload, due, stage, verdict, crashes, ran, good>>

(* SQLiteJobStore.claim selects first ... *)
SelectSQLite(w) ==
  /\ store = "sqlite"
  /\ pc[w] = "idle"
  /\ \E j \in Jobs : Claimable(j) /\ Begin(w, j, "selected")
  /\ UNCHANGED <<store, jobVars, stage, verdict, crashes, ran, good>>

(* ... then updates the row if it is still queued, and returns the job     *)
(* whether it was or not.                                                  *)
UpdateSQLite(w) ==
  /\ pc[w] = "selected"
  /\ IF status[job[w]] = "queued" THEN MarkRunning(job[w])
                                  ELSE UNCHANGED <<status, attempts, lease>>
  /\ pc' = [pc EXCEPT ![w] = "authorize"]
  /\ UNCHANGED <<store, payload, due, stage, job, verdict, crashes, ran, good>>

(* Mutant of Authorize: the artifact is verified and not consumed. *)
AuthorizeOnly(w) ==
  /\ pc[w] = "authorize"
  /\ pc' = [pc EXCEPT ![w] =
             IF stage[payload[job[w]]] = "granted" THEN "sandbox" ELSE "fail"]
  /\ UNCHANGED <<store, stage, jobVars, job, verdict, crashes, ran, good>>

(* The authorizer is the barrier: it consumes the nonce of a valid artifact *)
(* and audits its own handler, which only returns the specification.  That  *)
(* handler completes, fails, or ends in a frame the store refuses.  For an  *)
(* artifact that is spent or no longer valid the barrier raises.            *)
Authorize(w) ==
  LET a == payload[job[w]]
  IN  /\ pc[w] = "authorize"
      /\ IF stage[a] = "granted"
         THEN \E s \in {"completed", "failed", "consumed"} :
                /\ stage' = [stage EXCEPT ![a] = s]
                /\ pc' = [pc EXCEPT ![w] = IF s = "completed" THEN "sandbox"
                                                             ELSE "fail"]
         ELSE /\ pc' = [pc EXCEPT ![w] = "fail"]
              /\ UNCHANGED stage
      /\ UNCHANGED <<store, jobVars, job, verdict, crashes, ran, good>>

(* No specification, a malformed one, an image that is not allow-listed, a *)
(* missing secret: the sandbox never starts.                               *)
Unrunnable(w) ==
  /\ pc[w] = "sandbox"
  /\ pc' = [pc EXCEPT ![w] = "fail"]
  /\ UNCHANGED <<store, jobVars, stage, job, verdict, crashes, ran, good>>

(* Mutant of Sandbox: the exit code is not looked at. *)
SandboxUnchecked(w, ok) ==
  /\ pc[w] = "sandbox"
  /\ ran' = [ran EXCEPT ![payload[job[w]]] = @ + 1]
  /\ good' = IF ok THEN good \cup {job[w]} ELSE good
  /\ pc' = [pc EXCEPT ![w] = "complete"]
  /\ UNCHANGED <<store, jobVars, stage, job, verdict, crashes>>

(* The sandbox runs and exits with 0, with another code, or times out. *)
Sandbox(w, ok) ==
  /\ pc[w] = "sandbox"
  /\ ran' = [ran EXCEPT ![payload[job[w]]] = @ + 1]
  /\ good' = IF ok THEN good \cup {job[w]} ELSE good
  /\ pc' = [pc EXCEPT ![w] = IF ok THEN "complete" ELSE "fail"]
  /\ UNCHANGED <<store, jobVars, stage, job, verdict, crashes>>

Rest(w) == /\ pc' = [pc EXCEPT ![w] = "idle"]
           /\ job' = [job EXCEPT ![w] = None]

complete(w) ==
  /\ pc[w] = "complete"
  /\ IF status[job[w]] = "running"
     THEN /\ status' = [status EXCEPT ![job[w]] = "succeeded"]
          /\ lease' = [lease EXCEPT ![job[w]] = "none"]
     ELSE UNCHANGED <<status, lease>>
  /\ Rest(w)
  /\ UNCHANGED <<store, attempts, payload, due, stage, verdict, crashes, ran,
                 good>>

Retry(j) == IF attempts[j] < MaxAttempts THEN "queued" ELSE "dead_letter"

Settle(j, s) == /\ status' = [status EXCEPT ![j] = s]
                /\ due' = [due EXCEPT ![j] = FALSE]
                /\ lease' = [lease EXCEPT ![j] = "none"]

(* One UPDATE, whatever state the job is in by now. *)
FailPostgres(w) ==
  /\ store = "postgres"
  /\ pc[w] = "fail"
  /\ Settle(job[w], Retry(job[w]))
  /\ Rest(w)
  /\ UNCHANGED <<store, attempts, payload, stage, verdict, crashes, ran, good>>

(* SQLiteJobStore.fail reads the attempts, then writes what follows. *)
FailReadSQLite(w) ==
  /\ store = "sqlite"
  /\ pc[w] = "fail"
  /\ pc' = [pc EXCEPT ![w] = "failing"]
  /\ verdict' = [verdict EXCEPT ![w] = Retry(job[w])]
  /\ UNCHANGED <<store, jobVars, stage, job, crashes, ran, good>>

FailWriteSQLite(w) ==
  /\ pc[w] = "failing"
  /\ Settle(job[w], verdict[w])
  /\ Rest(w)
  /\ verdict' = [verdict EXCEPT ![w] = None]
  /\ UNCHANGED <<store, attempts, payload, stage, crashes, ran, good>>

Claim(w) == ClaimPostgres(w) \/ SelectSQLite(w)

Work(w) == \/ UpdateSQLite(w)
           \/ Authorize(w)
           \/ Unrunnable(w)
           \/ \E ok \in BOOLEAN : Sandbox(w, ok)
           \/ complete(w)
           \/ FailPostgres(w)
           \/ FailReadSQLite(w)
           \/ FailWriteSQLite(w)

-----------------------------------------------------------------------------
(* Time, crashes, and the artifact's life outside the queue *)

RetryDelayPasses(j) ==
  /\ status[j] # "absent" /\ ~ due[j]
  /\ due' = [due EXCEPT ![j] = TRUE]
  /\ UNCHANGED <<store, status, attempts, payload, lease, stage, workerVars,
                 crashes, ran, good>>

LeaseExpires(j) ==
  /\ lease[j] = "live"
  /\ lease' = [lease EXCEPT ![j] = "expired"]
  /\ UNCHANGED <<store, status, attempts, payload, due, stage, pc, job, verdict,
                 crashes, ran, good>>

(* The worker dies and is started again.  If it dies inside the barrier,   *)
(* the nonce may be consumed already.                                      *)
Crash(w) ==
  /\ pc[w] # "idle"
  /\ crashes < MaxCrashes
  /\ crashes' = crashes + 1
  /\ Rest(w)
  /\ verdict' = [verdict EXCEPT ![w] = None]
  /\ \/ UNCHANGED stage
     \/ /\ pc[w] = "authorize"
        /\ stage[payload[job[w]]] = "granted"
        /\ stage' = [stage EXCEPT ![payload[job[w]]] = "consumed"]
  /\ UNCHANGED <<store, jobVars, ran, good>>

(* The artifact expires, or its issuer's key is revoked. *)
Invalidate(a) ==
  /\ stage[a] = "granted"
  /\ stage' = [stage EXCEPT ![a] = "expired"]
  /\ UNCHANGED <<store, jobVars, workerVars, crashes, ran, good>>

Time == \E j \in Jobs : RetryDelayPasses(j) \/ LeaseExpires(j)

Next == \/ \E j \in Jobs, a \in Artifacts, delayed \in BOOLEAN :
              enqueue(j, a, delayed)
        \/ \E w \in Workers : Claim(w) \/ Work(w) \/ Crash(w)
        \/ \E a \in Artifacts : Invalidate(a)
        \/ Time

Spec == Init /\ [][Next]_vars

(* gas-worker polls and works on as long as it lives, and time passes. *)
FairSpec ==
  /\ Spec
  /\ \A w \in Workers : WF_vars(Claim(w)) /\ WF_vars(Work(w))
  /\ \A j \in Jobs : WF_vars(RetryDelayPasses(j)) /\ WF_vars(LeaseExpires(j))

-----------------------------------------------------------------------------
(* Properties *)

(* Every variable holds a value of its kind; a busy worker has a submitted *)
(* job, whose artifact the barrier can look up.                            *)
TypeOK ==
  /\ store \in Stores
  /\ status \in [Jobs -> Statuses]
  /\ attempts \in [Jobs -> Nat]
  /\ payload \in [Jobs -> Artifacts \cup {None}]
  /\ due \in [Jobs -> BOOLEAN]
  /\ lease \in [Jobs -> {"none", "live", "expired"}]
  /\ stage \in [Artifacts -> {"granted", "consumed", "completed",
                          "failed", "expired"}]
  /\ pc \in [Workers -> {"idle", "selected", "authorize", "sandbox",
                         "complete", "fail", "failing"}]
  /\ job \in [Workers -> Jobs \cup {None}]
  /\ verdict \in [Workers -> {"queued", "dead_letter", None}]
  /\ crashes \in Nat
  /\ ran \in [Artifacts -> Nat]
  /\ good \subseteq Jobs
  /\ \A w \in Workers : pc[w] # "idle" =>
        job[w] \in Jobs /\ payload[job[w]] \in Artifacts
  /\ \A w \in Workers : pc[w] = "failing" => verdict[w] # None
  /\ \A j \in Jobs : payload[j] = None <=> status[j] = "absent"

(* Retries, reclaimed leases, two workers on one job, two jobs with one    *)
(* artifact: the sandbox starts at most once per artifact, because the     *)
(* barrier gives the specification out once.                               *)
SandboxAtMostOnce == \A a \in Artifacts : ran[a] <= 1

(* A job is only ever reported succeeded when its own artifact's sandbox   *)
(* ended with exit code 0 (complete after _handle returned).               *)
SucceededRan ==
  \A j \in Jobs : status[j] = "succeeded" =>
     j \in good /\ ran[payload[j]] = 1 /\ stage[payload[j]] = "completed"

(* Every job submitted to the PostgreSQL store reaches a final state,      *)
(* crashes and stalls included: its leases expire and are reclaimed.  The  *)
(* SQLite store has no lease, and leaves a dead worker's job running.      *)
JobsSettle ==
  \A j \in Jobs :
     store = "postgres" /\ status[j] = "queued"
       ~> status[j] \in {"succeeded", "dead_letter"}

-----------------------------------------------------------------------------
(* The inductive invariant behind SandboxAtMostOnce and SucceededRan *)

(* The barrier gave the specification out to one worker, which has not     *)
(* started the sandbox yet; a sandbox that ran was given its specification. *)
SandboxInv ==
  /\ \A a \in Artifacts : ran[a] \in {0, 1}
  /\ \A a \in Artifacts : ran[a] = 1 => stage[a] = "completed"
  /\ \A w \in Workers : pc[w] = "sandbox" =>
       stage[payload[job[w]]] = "completed" /\ ran[payload[job[w]]] = 0
  /\ \A v, w \in Workers :
       v # w /\ pc[v] = "sandbox" /\ pc[w] = "sandbox"
         => payload[job[v]] # payload[job[w]]

(* Success is reported by the worker that saw exit code 0. *)
SuccessInv ==
  /\ \A w \in Workers : pc[w] = "complete" => job[w] \in good
  /\ \A j \in good : payload[j] \in Artifacts /\ ran[payload[j]] = 1
  /\ \A j \in Jobs : status[j] = "succeeded" => j \in good

JobsInv == TypeOK /\ SandboxInv /\ SuccessInv
=============================================================================
