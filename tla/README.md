# Governed Autonomy Substrate: TLA+ specifications and proofs

The substrate puts a barrier in front of agent actions. An *issuer* evaluates a
request against a policy, writes an authorization frame to an append-only
*replay log* and signs a Governance Authorization Artifact (GAA). The *barrier*
runs a handler only for a valid artifact, consumes its nonce, and writes an
execution frame. Around this core are a trust store of issuer keys, a change
workflow for policies and keys, a job queue whose workers present artifacts to
the barrier, and integrations (HTTP API, MCP, A2A, federation, OIDC).

This directory holds TLA+ modules that model these parts, TLC configurations
that check them on small instances, and TLAPS proofs of the safety properties
that hold, for every value of their constants. `PROJECT.json` lists components, runs, mutants,
the source lines behind every definition, findings, hazards and theorems.
Paths below are relative to `src/governed_autonomy/` of the repository.

## Inventory

| Component | State | Operations | Talks to |
|---|---|---|---|
| Issuer (`issuer.py`) | none of its own | `authorize`, `authorize_compensation` | policy arbiter, mesh, replay log, signer |
| Barrier (`engine.py`, `service.py`) | none of its own | `execute` | trust store, replay log, policy registry, handlers |
| Replay log (`replay.py`, `storage.py`) | hash-chained frames, consumed nonces, a copy per process | `append`, `claim_nonce`, `get`, `nonce_used`, `events_for_nonce`, `load_jsonl`, integrity checks | file, SQLite or PostgreSQL |
| Trust store (`trust.py`, `storage.py`) | key ids, public keys, revoked ids | `add`, `revoke`, `resolve` | file or PostgreSQL |
| Policies (`policy.py`) | registry by id | `register`, `decide` | issuer, barrier, change workflow |
| Change workflow (`platform_admin.py`, `control_plane.py`) | proposals with approvals | `propose`, `approve`, `activate`, `submit_add`, `submit_revoke` | registry, trust store, log |
| Jobs and workers (`jobs*.py`, `worker*.py`) | jobs with status, attempts, lease | `enqueue`, `claim`, `complete`, `fail`, `run_once` | barrier, container sandbox |
| Versioned registry (`policy_registry.py`) | policy versions and their life cycle | draft to active, revoke, rollback | trust store, log |
| Mesh (`mesh.py`, `governance.py`) | none | preflight aggregation | issuer, barrier |
| Federation (`federation.py`) | seen nonces, the registry and its file | snapshot, reconcile | registry, trust store |
| Keys (`key_lifecycle.py`, `signing.py`, `kms_backends.py`) | key records | register, rotate, revoke | trust store |
| Identity (`identity.py`, `rbac.py`, `operator_auth.py`, `auth/`) | sessions, replay cache, role assignments | login, validate, assign | HTTP API |
| HTTP API (`http_api.py`), limits (`deployment.py`) | threads, rate limits | routing | all of the above |
| Gateways (`mcp_gateway.py`, `a2a.py`, `langchain_adapter.py`) | registered tools | call | issuer, barrier |
| Reports, UI, CLI (`audit.py`, `compliance.py`, `admin_ui.py`, `cli.py`, ...) | none | rendering | log |

What is hard: `ThreadingHTTPServer` serves every request in a thread of its
own, several replicas and workers share the stores, processes die between the
claim of a nonce, the handler and the execution frame, stores fail after they
committed, two stores share one database connection under two locks, leases
expire under workers that are only slow, clocks are read before locks are
taken, tables have capacities, and the change workflow reads, verifies and
writes without a lock. What must hold of each component:

- *barrier and issuer*: a nonce is run at most once, and only as it was signed,
  logged and allowed; consumption is never undone; the log tells a consistent
  and complete story; a compensation follows an audited failure; what is issued
  is what identity, deployment policy, arbiter and mesh together allow;
- *replay log and trust store*: the chain does not fork, what was acknowledged
  is stored, a claim is granted once, a revocation takes effect and lasts until
  the key is added again, and every operation ends;
- *job queue*: the sandbox starts at most once per artifact, success is only
  reported for a run that succeeded, and every job is settled;
- *change workflow*: a policy gets into force through it only with a quorum
  for its very content;
- *versioned registry and keys*: what is served was verified and is not
  revoked, selection, states and history agree, and a revocation survives
  restarts and failures between the two stores;
- *federation*: what was adopted stays, a replay imports nothing, an id keeps
  its content;
- *identity*: a login opens one session, a withdrawn credential is refused, a
  role goes back to somebody who could give it, work is attributed as far as
  the deployment keeps records;
- *limits*: no more than the limit in any window, no refusal without a cause,
  a one-time token at most once while it is valid;
- *gateways*: a tool runs only for a request whose action is defined and has
  the approvals asked for (which action, and whether the approvals are signed,
  is up to the request: see the disagreements), a delegated artifact runs once
  and at the agent it names, and a registration takes effect.

## Modules

| Module | Models | Uses |
|---|---|---|
| `NonceLifecycle` | what the barrier promises about one nonce, abstractly | |
| `Barrier` | issuer, barrier, replay log, trust store, restarts | implements `NonceLifecycle` |
| `ReplayStore` | append, claim and trust changes statement by statement, in three back ends | what `Barrier` takes for one step; on PostgreSQL only while no trust change ends a claim's transaction (`replay_shared_connection`) |
| `Decisions` | how an authorization is decided: platform, arbiter, mesh, issuer | what `authorize` of `Barrier` stands for |
| `JobQueue` | both job stores, workers, leases | `stage` follows `NonceLifecycle` |
| `Governance` | policy and trust changes in threads | |
| `KeyLifecycle` | key records over the file-backed trust store | |
| `PolicyRegistry` | the versioned registry in several processes | extends `KeyLifecycle` |
| `Federation` | snapshots between organizations | |
| `Sessions` | sign-in, sessions, tokens, keys, roles, routes | |
| `Limits` | rate limiter and one-time tokens | |
| `Gateways` | MCP, LangChain and A2A calls while tools are registered | |
| `*Proofs` | theorems | extend the module they are about (`RegistryProofs`: keys and registry; `RequestProofs`: `Limits`, `Decisions` and `JobQueue`, the path of a request) |
| `MC*` | instances for TLC | |

### Barrier

`frames` is the log, `used` the consumed nonces, `view[p]` how much of the log
process `p` has in memory, `artifacts` what clients were given, `keys` and
`revoked` the trust store, `policies[p]` the registry of each process. A thread
serves a delivery in the steps in which `ExecutionBoundary.execute` touches
shared state; `pc` names the next one:

| pc | Action | Code |
|---|---|---|
| idle | `execute` | `GovernedService.execute` finds the handler |
| issuer | `CheckIssuer` | key resolves, signature, expiry (`engine.py` 95-105) |
| replay | `CheckReplay` | nonce unused, frame carries the payload (106-115) |
| policy | `CheckPolicy` | registry and digest, arbiter (116-138) |
| claim | `claim_nonce`, `ClaimRaises` | the claim, and a store error during it |
| run | `RunAction` | the handler returns or raises |
| record | `AppendExecution`, `AppendRaises`, `AppendUnacknowledged` | the frame is written, refused, or written with an error |

`authorize` is one step here; `Decisions` has its steps. A remote signer may
fail after the append (`signed` is FALSE). `CrashRestart` kills a process with
its deliveries and starts it with the release and the signing key its operator
configures; `DurableClaims` tells the SQLite and PostgreSQL logs from the JSONL
log, whose recovery rebuilds the nonces from execution frames. `claim_nonce` is
one step: so it is in SQLite and, on PostgreSQL, as long as the trust store
does not end its transaction on the connection they share, which `ReplayStore`
looks into. What is proved of the barrier holds under that condition. `ran`,
`effects`, `lost` and `compensations` are history variables. A policy is the
set of requests it allows and its digest is that set; signatures are ideal.

### ReplayStore

`table`, `consumed` and `trust` are what is committed, `pending[r]` the open
transaction of process `r`'s connection, `locks` the advisory locks, `view[r]`
the chain in memory, `log[r]` and `admin[r]` the statement that the append or
claim, and the trust change, of `r` is at. In PostgreSQL the two work on one
connection: a commit or rollback of either ends the transaction of both, and
`disturbed` remembers that it happened in the middle of the other's statements.
A trust change is `add` (a SELECT, then an upsert that clears `revoked`) or
`revoke`. SQLite appends to the head in memory (`AppendSqlite`) and claims by
inserting a row (`ClaimSqlite`). The JSONL append changes memory before the
file and may leave a torn line; its claim (`ClaimJsonl`) is in memory only.

`Restart` closes the connection and loads the log. On the JSONL log the claims
are what `load_jsonl` finds in execution frames, and `lost` counts the claims
that a stop forgets. On PostgreSQL the process is not up before the signer's
key resolves: `Resolve` adds it again where it does not, also after a
revocation, as `build_runtime_service` does. `acked` keeps, of a trust key,
the last change that was reported done. SHA-256 is ideal. A SQLite file that is
busy, whose error changes nothing, is left out.

### Decisions

One call from `GovernancePlatform.authorize` to the artifact: `Bind` (runtime
identity, service principal, deployment policy), `Decide` (mesh requirements
and arbiter), `VerifySource` for each input, `Preflight` (ranking and its
frame), `Issue`, `Fail` after any step, `CallAgain`, while sources are registered
and revoked (`known`, `revoked`) and keys of their names are added to the trust
store and withdrawn from it (`trusted`), which `resolve` asks before the
registry's own keys. An issuer without a source registry takes every input
unverified (`verifies` is FALSE); `authorize` builds its mesh with nothing else
to verify against. `barred` remembers the sources that did not resolve when the
call began, or stopped to before their input was verified. The ranking is an
algorithm over sets of inputs; the run checks it against a reference definition
for every set of up to three inputs, and the proofs for every finite set.

### JobQueue

`enqueue`, `ClaimPostgres` (one `UPDATE ... SKIP LOCKED`), `SelectSQLite` and
`UpdateSQLite` (two statements), `Authorize` (the worker's authorizer is the
barrier), `Unrunnable`, `Sandbox`, `complete`, `FailPostgres`,
`FailReadSQLite` and `FailWriteSQLite` are the steps of `run_once` around
`WorkerRuntime._handle`. Time is two flags per job: `due` (`available_at` has
come) and `lease`. `Crash` frees the worker and leaves the job running.

### Governance

Each request reads what it needs (`propose`, `approve`, `activate`,
`submit_add`, `submit_revoke`), asks the trust store (`Verify`), writes (`Write...`), and
appends a governance frame (`Audit`, `AuditRaises`). `copy[t]` is the proposal
the thread read: `approve` and `activate` write back that copy, with one change.
Of the governance frames only `policy.activated` is kept, in `activated`.
Approvals are the set of the approvers' key ids, which is what `approval_count`
counts. `Direct` is what a program with the `ControlPlane` object may call past
the managers (`register_policy`, `register_trusted_key`, `revoke_trusted_key`);
no route of the API does. `direct` remembers the policies registered so.

### KeyLifecycle and PolicyRegistry

`trust` and `trustFile` are the trust store in memory and on disk, `rows` the
key table, `keyOp` the write that the operation in progress still has to make;
either write may fail and the process may stop in between. The registry keeps
`mem[p]` (states, active version, revision, history) in every process, the
record files and the state snapshot on disk. A mutation checks, writes the
record (`Put`) and the snapshot (`Save`, `SaveFails`) under the process's lock;
`get_active` reads beside it in four steps without one. `Damage` changes a
record's content on disk, `Restart` loads the snapshot and the trust file. A
version is its place in SemVer order.

### Federation

An organization has a `registry`, its `file`, the nonces it has `seen`, and the
reconciliation it is in (`task`), which imports one policy at a time and saves
after each. Envelopes in `sent` arrive late, repeatedly, in any order or never.

### Sessions and Limits

A request in `Sessions` goes through the steps of the handler: `begin_login`;
`consume_login`, `exchange_code`, `create_session`; or one of `get_session`,
the validation of a bearer token, `authenticate`, `SharedToken`, then
`roles_for`, `record_authentication` (with the decision), and the route. The
deployment is one of four: sessions in memory or in the repository, bearer
tokens of the provider, the shared tokens with operator keys; and each with an
identity store or without (`keeps`), where nothing is recorded and no role can
be assigned. Of the shared tokens `operator_token` ("token") is good for every
route and `bearer_token` ("apitoken") for those of the API.

A bearer token is validated with the cached keys (`get_jwks`, `Look`) or, when
they are stale or lack the token's, with new ones: `Ask` takes the provider's
lock and the keys as they are published then, `_refresh_locked` reads the
answer later and stamps it with the clock of that moment, as `identity.py` 129
does. In between keys may be retired. `FetchTime` bounds the age of an answer
when it is read; it stands for `timeout_seconds` of `urlopen`, which limits each
operation on the socket, so a provider that answers byte by byte could exceed
it. `Invalid` is every refusal, a failed fetch included.

In `Limits` a request passes `allow` and may present a one-time token to
`validate` and `consume`. In both modules the clock is read before the lock: a
step uses any reading since the thread's last step (`Readings`).

### Gateways

`register_tool` is three writes (handler, definition, rebuilt policy) and the
wiring of the new boundary; calls go on between them. A call is issued under a
policy, validated by the boundary and run; the three routes differ in the
policy that judges them: the gateway's own for MCP, the service's for LangChain
and A2A. The arguments are merged over `action`, so a call has a `tool`, whose
handler or function runs, and a request with the action that is judged. A
request may also give a number (`count`), which `_approval_count` takes for its
approvals. `NoTools` is the policy that `create` starts with: it allows
`ExtraActions`, until the first registration replaces it.

## Runs

| Run | Instance, distinct states | Shows |
|---|---|---|
| `barrier_replicas` | 2 processes with a thread each, a nonce and one for its compensation, 2 requests, 2 policy contents, 1 crash, 1 tick; 355,488 | `AtMostOnce`, `RanAsAuthorized`, `AuditConsistent`, `NoSilentRun`, `CompensationSound` with stale copies of the log, `ConsumptionIsForever`, `ClaimResolves`, and the refinement `ImplementsLifecycle` |
| `jobs` | both stores, 2 workers, 2 jobs with one artifact, 3 attempts, 2 crashes; 330,673 | `SandboxAtMostOnce`, `SucceededRan`, `JobsSettle` |
| `governance_quorum` | 3 keys, a quorum of 2, 2 contents for one proposal id, 2 threads, direct calls, a restart; 1,020,356 | `RegisteredHadQuorum` |
| `registry` | 2 processes, 2 versions, 2 keys, 5 requests, 1 fault; 1,663,098 | `ServedIsUsable`, `SelectionCoherent`, `RevocationStands`, `RevokedIsFinal`, `RevokedIsUntrusted`, `ListedIsTrusted` |
| `replay_log` | 3 back ends, 2 replicas, 2 frames (one of an execution), 1 nonce, the signer's and another key, 3 requests, 2 faults; 110,666 | `ChainLinear`, `NoSilentLoss`, `GrantedOnce`, `OperationsEnd` |
| `decisions` | every set of up to 3 inputs of 3 sources, 3 verdicts, 2 weights, 2 priorities; every identity and request; with a source registry and without; 1 retry, 1 change of a source or a trust key; 6,053,959 | `IssuedIsGoverned`, `RevokedSourceHasNoSay`, `PreflightIsTopVerdict`, `AuthorizationFollowsMesh` |
| `federation` | 2 organizations, 2 policies, 2 contents, 2 versions, 2 envelopes, 2 faults; 2,039,892 | `AdoptedIsDurable`, `ReplayImportsNothing`, `ImmutableById` |
| `sessions` | 4 deployments, with an identity store and without, 2 threads, 2 subjects, 2 logins, 2 sessions, 2 signing keys, 3 to 5 requests, 2 ticks, a restart; 4,794,365 | `OneSessionPerLogin`, `WithdrawnIsRefused`, `AssignmentsGrounded`, `WorkAttributed` |
| `limits` | 2 threads, 2 clients in a table of 1, 2 tokens in a cache of 1, 4 requests in 3 ticks; 3,412,873 | `RateWindow`, `RefusedForCause`, `OnceWhileValid` |
| `gateways` | 3 tools, 5 requests (one gives a number of approvals) to any tool, 1 action allowed from the start, 2 policies, an artifact with 4 envelopes, 2 keys, 2 threads; 2,274,592 | `ToolRunsGoverned`, `DelegatedOnceToNamed`, `RegistrationTakesEffect` |
| `replay_shared_connection` | the PostgreSQL part of `replay_log`, 4 requests, 1 fault | violates `ClaimsAreTransactional`: see below |
| `mesh_ranking` | the instance of `decisions` | violates `RankedByWeight`: see below |

Why these bounds are enough to be interesting: what goes wrong at the barrier
takes two deliveries of one nonce, a thread each, and one crash, revocation or
tick between their steps; a compensation needs a second nonce (`FirstNonces`
keeps it for that); a stalled lease
needs a second worker, and a retry after a reclaim a third attempt; a lost
update needs two threads on one proposal; a fork of the chain needs two
appends, a disturbed transaction a claim and a trust change beside it, and a
revocation that a start ends a second fault; a rollback needs a second version and a stale reader a revocation beside it; a
conflict of the mesh needs two sources at the top and a third below; a
half-imported snapshot needs two policies and a fault; a login that is raced
needs two threads with its callback, and an answer that is overtaken by a
rotation one tick of `FetchTime` and one of `CacheTTL`; a request for another
action than the tool's needs two tools, one of them with approvals (`Requests`
names the calls, `Counts` the numbers). A table of one entry is full at once. The
proofs cover all other sizes. Every table has a bound of its own in the `.cfg`,
named in the module.

`CHECK_DEADLOCK FALSE` is set where the system may stop: all jobs settled and
artifacts spent, or the bounded requests used up. In the other runs some
operation is always possible, and TLC checks it.

Symmetry: threads, keys and contents in `governance_quorum`, where all keys
start alike, and threads in `gateways`. No run with a liveness property uses it.

### Fairness

`ClaimResolves` assumes weak fairness of every thread that serves a delivery: a
Python thread that is not blocked is scheduled, and a handler returns or
raises (a handler that hangs is outside the barrier's control). Nothing is
assumed of clients, operators, the clock or crashes. `JobsSettle` assumes that
workers poll and work while they live (`serve` loops until it is stopped; a
sandbox has a timeout), and that time passes, so that leases and retry delays
end. Crashes are bounded by `MaxCrashes`: a worker that dies for ever settles
nothing. `OperationsEnd` assumes strong fairness of the log's statements,
because PostgreSQL hands out an advisory lock in the order in which it was
asked for, and of the trust store's, because it does the same with the row that
two of them change.

## Proofs

All theorems are about the specifications TLC checks, for every value of the
constants that satisfies the module's named assumption. Each rests on an
inductive invariant, which TLC checked on the run's instance before it was
proved.

- `BarrierProofs`: `BarrierTyped`; and, if claims are durable,
  `BarrierAtMostOnce`, `BarrierRanAsAuthorized`, `BarrierAudit`,
  `BarrierNoSilentRun`, `BarrierCompensation`, `BarrierConsumption` and
  `BarrierImplements`, the refinement of `NonceLifecycle`. `IInv`
  adds to the properties that a claimed nonce has one holder
  (`ClaimsInv`: two threads past the claim have different nonces, and one
  about to run has a nonce under which nothing ran), that only signed artifacts
  get past the first check (`ArtifactsInv`), and that nobody holds a claim whose
  execution frame is written (`LogInv`). Without the first, `AtMostOnce` does
  not survive the handler's step; without the last, uniqueness of execution
  frames does not survive the append. The refinement needs `GrantsInv` too: a
  nonce has one authorization frame, and is consumed only when granted. Then
  every step is one of six (`Lives`: quiet, granting, denying, consuming,
  performing, recording), and each maps to one step of the abstract
  specification or to a stutter.
- `ReplayStoreProofs`: `ReplayTyped`, `ReplayChainLinear`,
  `ReplayNoSilentLoss`, `ReplayGrantedOnce`. `SInv` adds what an open
  transaction holds (`PendingInv`: a frame or nonce only between insert and
  commit, a nonce on one connection) and, as long as no transaction was
  disturbed, that who is past a lock holds it and that the head an append read
  is still the head (`LockInv`). That is what links the new frame to the last
  one; both fall as soon as the other store ends the transaction. Of the trust
  keys they say that a process about to commit a change has it, and no other
  key, in its open transaction, so that the commit leaves the key as the caller
  is told. `MemoryInv` is for the JSONL log: the grants of a
  nonce are bounded by the processes that have it in memory and by the claims
  that were lost.
- `RequestProofs`, three parts, each by itself.
  - Limits: `LimitsTyped`, `LimitsRateWindow`, `LimitsRefusedForCause`,
    `LimitsOnceWhileValid`, `LimitsFullForGood`. `LInv` adds that the stamps in
    the limiter's table are those of admitted requests, each its own, and that
    none whose window is open by the clock is gone (`StampsInv`). The clock is
    read before the lock is taken, so a later request may have an older
    reading; still every stamp that its window needs is there, and the length
    of the list bounds the count of every window. `TokensInv` adds that a token
    accepted while valid is in the table until it expires, and `CountInv` and
    `TablesInv` that the sets counted are finite.
  - Decisions: `DecisionsTyped`, `DecisionsIssuedIsGoverned`,
    `DecisionsRevokedSource`, `DecisionsPreflight`, `DecisionsAuditOrder`.
    `DInv` adds what a call has established at its step (`CheckedInv`),
    that a barred source does not resolve and none of its inputs has been
    verified (`BarredInv`), that every authorization frame in the log is that of a call
    that went all the way (`LogInv`), and, where frame ids are unique, that
    there is one at most, and none while a call is about to write it
    (`OnceInv`): a call made again after a failure meets its own mesh frame and
    writes no second one. The ranking is proved of any finite
    set of inputs, with any priorities: `MaxOf` gets the greatest of a finite
    set from a well-founded minimum, and `WinnerIsTop` shows that the winning
    group has the highest priority there is.
  - Jobs: `JobsTyped`, `JobsSandboxAtMostOnce`, `JobsSucceededRan`,
    `JobsRunningLeased`. `JobsInv` adds that the workers about to start a
    sandbox have different, consumed artifacts, although they may have the same
    job. The last is the safety half of `JobsSettle`: whoever dies or stalls, a
    running job has a lease to be reclaimed by.
- `GovernanceProofs`: `GovernanceTyped`, `GovernanceQuorum`. `QuorumInv` adds
  that the approvals in every stored proposal, and in every copy a thread may
  write back, were really given for that proposal: a stale write can lose
  approvals and never invents one. Policies of `direct` are outside the theorem.
- `RegistryProofs`: `RegistryTyped`, `KeysRevokedUntrusted`,
  `KeysListedTrusted`, `RegistryCoherent`, `RegistryRevocationStands`,
  `RegistryServesUsable`, `RegistryRevokedFinal`. `KeyInv` adds what the
  operation in progress has already written, which makes the row it writes next
  true. `RInv` adds what a mutation that is about to save has in memory
  (`LifecycleInv`), and what a reader's earlier reads still say after the steps
  of others (`ReaderInv`).
- `FederationProofs`: `FederationTyped`, `FederationAdopted`,
  `FederationReplay`, `FederationImmutable`. `FInv` adds that memory covers the
  file, so that a save loses nothing, and that the policies a reconciliation
  has passed without a conflict are here.
- `SessionsProofs`: `SessionsTyped`, `SessionsOnePerLogin`,
  `SessionsWithdrawn`, `SessionsGrounded`, `SessionsAttributed`. `AInv` adds that a login state is
  pending, with one thread, or spent (`LoginInv`), that a session ends no later
  than its id token and is gone after its logout (`SessionInv`), that neither an
  answer under way nor the cache has a key that was retired for longer than
  `FetchTime` and, once cached, `CacheTTL` allow (`CacheInv`), and what every
  thread's request stands for at its step (`Sound`), which no other thread's
  step can take back (`Mono`). `SessionsTyped` needs `CapacityInv` too: login
  states and sessions in memory are finite and together within the capacity.
- `GatewaysProofs`: `GatewaysTyped`, `GatewaysGoverned`, `GatewaysDelegation`,
  `GatewaysRegistration`. `GInv` adds that every policy the gateway ever built
  asks of defined tools what their definitions ask (`Honest`), or is the one it
  started with, that a call keeps such a policy, and how far a registration has come at each of its steps.

Only model-checked: liveness (`ClaimResolves`, `JobsSettle`, `OperationsEnd`),
which the prover does not handle. Every other property of a passing run is
stated by a theorem.

## Disagreements met while modelling

Two have a run. `replay_shared_connection`: `build_runtime_service` gives the
replay log and the trust store one connection (`bootstrap.py:122`), each with
a lock of its own, and so a trust change commits or rolls back a claim between
its statements: a claim is reported as granted, is not in the table, and is
granted again. `storage.py:159` promises a log "with transactional append and nonce claims".

`mesh_ranking`: `preflight` ranks groups of inputs by priority and then by
weight (`mesh.py` 358-365), so that a light group of high priority is selected
over a heavy one. `mesh.py` 276-277 says "The highest weighted group wins;
priority breaks equal-weight ties", and the repository's `README.md:213` and
`PATENT_TO_CODE_MAPPING.md:249` name weight before priority.
`PreflightIsTopVerdict` says what the code does.

The others were seen while the code was translated; the models have the code's
behaviour, and their properties are stated so that they hold of it.

- *JSONL recovery*: `load_jsonl` rebuilds the nonces from execution frames
  (`replay.py:74`), so a nonce claimed before a crash is free again, although
  `SPEC.md:96` demands a durable nonce store.
- *Checks and handler*: `execute` validates once (`engine.py:60`) and holds no
  lock until the handler runs; a revocation or the expiry in between does not
  stop it (`docs/security-model.md:7`, `SPEC.md:611`).
- *Restart and revocation*: the bootstrap adds the signer's key whenever it
  does not resolve (`bootstrap.py:123`), which clears its revocation, although
  `trust.py:10` promises durable revocation state.
- *Abandoned nonces*: `authorize_compensation` demands an audited failure
  (`issuer.py:221`), which a process that dies after the claim does not leave,
  although `docs/security-model.md:57` sends that case there. Likewise a
  worker's barrier audits `completed` before the sandbox starts (`worker.py`
  207-230; `docs/operations.md:25`).
- *Leases*: `PostgresJobStore.fail` does not look at status or lease
  (`jobs_postgres.py:126`) and requeues a job that another worker holds
  (`jobs_postgres.py:3`); reclaims do not look at `max_attempts`
  (`jobs_postgres.py:103`; `jobs.py:4`, repository `README.md:194`).
- *Approvals*: `approve_signed` writes back the proposal it read before
  (`platform_admin.py:394`), which turns an activated one pending
  (`tests/test_platform_admin.py:44` expects it to stay); `activate` counts
  approvals of keys revoked since (`platform_admin.py` 405-408;
  `docs/standardization/eu_ai_act_profile.md:61`).
- *Sessions in PostgreSQL*: `get_session` returns the repository's
  `_BrowserSession` (`http_api.py:320`) where the caller expects an identity,
  and `replace` raises `TypeError`; such a session never authenticates
  (repository `README.md:175`, `docs/deployment-walkthrough.md:104`). The
  capacity does not hold for the repository, which never deletes expired rows.
- *One-time tokens*: after a token's expiry its id leaves the table, and a
  thread that validated it before may still consume it then (repository
  `README.md:177`, "at most once"); `OnceWhileValid` says what holds.
- *Federation digests*: `from_registry` digests a snapshot without
  `source_org`, `from_dict` with it (`federation.py` 126-143): an envelope that
  was serialized is always rejected (repository `README.md:205`).
- *Rate limiter*: clients never leave its table, so at `max_clients` every new
  client is refused for good (`deployment.py:37`).
- *Signed manifests*: `register_signed` with a newer version and other content
  is refused by `register` (`policy.py` 296-321).
- *MCP gateway*: a malformed definition stays registered and fails every later
  rebuild; two threads that register may rebuild between the other's handler
  and definition; `create` names a `rebuild_policy` that does not exist.
- *Tool and action*: the arguments of a call are merged over `action`
  (`mcp_gateway.py` 374-378, `langchain_adapter.py` 105-109), and the policy
  judges the result, while the handler is that of the tool; an integer
  `approval_count` or `approvals_count` in the request or its context is taken
  for the number of approvals (`policy.py` 177-180). `docs/integrations/mcp.md`
  73-86 and the repository's `README.md:97` speak of signed approvals for the
  tool that is called. `ToolRunsGoverned` is about the request that is judged.
- *Work without an identity store*: `_enrich_identity` then returns the
  identity as it is (`http_api.py` 1418-1419), and work goes unrecorded.
- *Rotation of signing keys*: the expiry of the cached keys is stamped after
  the answer arrived (`identity.py:129`), so a key is accepted for up to the
  time of the answer longer than `cache_seconds` says.

## Left to do

1. `PostgresRateLimiter` beside the session repository on its connection.
2. Registration of tools from several threads, should the gateway get a lock.

## Not modelled

`PostgresRateLimiter`: its outcome rests on re-entrant advisory locks and on
the transactions of the connection it shares. Cryptography, canonical JSON,
claims mapping and token parsing (ideal or a library's). HTTP routing, the
admin UI, CLI, metrics, logging and health (no state that a property is about).
Audit exports and compliance reports (they only read the log). The LangChain
callback handler (appends log frames) and the MCP server adapter (I/O around
the gateway). Signers and KMS clients (I/O around an ideal signature).

## Running

    tlc -workers 2 -config BarrierReplicas.cfg MCBarrier
    tlapm BarrierProofs.tla
