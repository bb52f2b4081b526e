----------------------------- MODULE ReplayStore -----------------------------
(***************************************************************************)
(* The stores behind the barrier, below the level at which Barrier.tla     *)
(* takes an append, a claim or a revocation for one step: the hash chain   *)
(* and the claims of replay.py on a JSONL file, on SQLite and on           *)
(* PostgreSQL, and the trust keys of PostgreSQL (storage.py), shared by    *)
(* several processes.  A claim in the JSONL log is in the memory of its    *)
(* process only; a process that starts takes the nonces of the execution   *)
(* frames in the file for claimed.                                         *)
(*                                                                         *)
(* In PostgreSQL build_runtime_service gives PostgresReplayLog and         *)
(* PostgresTrustStore of a process ONE connection.  Each has a lock of its *)
(* own, so an append or a claim of one thread and a trust change of        *)
(* another interleave statement by statement in one transaction, and the   *)
(* commit or rollback of either ends it for both, advisory locks included. *)
(* Isolation is READ COMMITTED, psycopg's default.  A cycle of lock and    *)
(* row waits is ended by PostgreSQL, which fails one of the statements.    *)
(* A process that starts on PostgreSQL adds its signing key again unless   *)
(* the store resolves it, which ends a revocation of that key.             *)
(*                                                                         *)
(* SHA-256 is ideal: the hash of a frame is the list of frame ids that     *)
(* leads to it.  An event is determined by its frame id.                   *)
(***************************************************************************)
EXTENDS Naturals, Sequences, FiniteSets, SequencesExt

CONSTANTS Backends,     \* of "postgres", "sqlite", "jsonl"
          Replicas,
          FrameIds,
          Nonces,
          TrustKeys,
          Signer,       \* the key the processes sign with
          ExecutionOf,  \* the nonce of a frame that is of type "execution"
          MaxRequests,  \* bound of appends, claims and trust changes
          MaxFaults,    \* bound of failed statements, writes and restarts
          None

ASSUME ReplayConstants ==
  /\ Backends \subseteq {"postgres", "sqlite", "jsonl"}
  /\ MaxRequests \in Nat
  /\ MaxFaults \in Nat
  /\ None \notin Replicas \cup FrameIds \cup Nonces \cup TrustKeys
  /\ IsFiniteSet(Replicas)
  /\ Signer \in TrustKeys
  /\ ExecutionOf \in [FrameIds -> Nonces \cup {None}]

VARIABLES backend,
          table,      \* replay_frames by sequence, or the lines of the file
          consumed,   \* consumed_nonces
          trust,      \* trust_keys: a key has no row, or is revoked or not
          locks,      \* the connection that holds an advisory lock
          aborted,    \* connections whose transaction failed
          pending,    \* uncommitted writes of a connection
          view,       \* _frames of a process
          used,       \* _used_nonces of a process on the JSONL log
          log,        \* what the thread that holds the log's lock does
          admin,      \* what the thread that holds the trust lock does
          down,       \* processes that are starting or refused to start
          acked,      \* history: writes a caller was told of, of a key the
                      \* last
          grants,     \* history: how often a claim of a nonce succeeded
          lost,       \* history: how often a process stopped that had
                      \* claimed a nonce in memory, with no frame of it
          disturbed,  \* history: processes where one store ended a
                      \* transaction the other was in the middle of
          requests, faults

databases == <<backend, table, consumed, trust>>
sessions == <<locks, aborted, pending>>
memory == <<used, lost>>
history == <<acked, grants, disturbed>>
bounds == <<requests, faults>>
vars == <<databases, sessions, view, memory, log, admin, down, history, bounds>>

Chain == Seq(FrameIds)

Frame == [id : FrameIds, prev : Chain]

(* A line that was only partly written.                                    *)
Torn == [id |-> None, prev |-> <<>>]

Write == [kind : {"frame"}, id : FrameIds, prev : Chain]
         \cup [kind : {"nonce"}, id : Nonces]
         \cup [kind : {"key"}, id : TrustKeys, state : {"trusted", "revoked"}]

Idle == [step |-> "idle", op |-> "append", id |-> None]

Ops == {"append", "claim"}

LogState == [step : {"idle", "lock", "refresh", "insert", "commit"},
             op : Ops, id : FrameIds \cup Nonces \cup {None}]

AtRest == [step |-> "idle", op |-> "add", id |-> None]

AdminState == [step : {"idle", "resolve", "select", "write", "commit"},
               op : {"add", "revoke"}, id : TrustKeys \cup {None}]

TypeOK ==
  /\ backend \in Backends
  /\ table \in Seq(Frame \cup {Torn})
  /\ consumed \subseteq Nonces
  /\ trust \in [TrustKeys -> {"unknown", "trusted", "revoked"}]
  /\ locks \in [Ops -> Replicas \cup {None}]
  /\ aborted \subseteq Replicas
  /\ pending \in [Replicas -> SUBSET Write]
  /\ view \in [Replicas -> Seq(Frame)]
  /\ log \in [Replicas -> LogState]
  /\ used \in [Replicas -> SUBSET Nonces]
  /\ admin \in [Replicas -> AdminState]
  /\ down \subseteq Replicas
  /\ acked \subseteq Write
  /\ grants \in [Nonces -> Nat]
  /\ lost \in [Nonces -> Nat]
  /\ disturbed \subseteq Replicas
  /\ requests \in 0..MaxRequests
  /\ faults \in 0..MaxFaults

Init ==
  /\ backend \in Backends
  /\ table = <<>>
  /\ consumed = {}
  /\ trust = [k \in TrustKeys |-> IF k = Signer THEN "trusted" ELSE "unknown"]
  /\ locks = [o \in Ops |-> None]
  /\ aborted = {}
  /\ pending = [r \in Replicas |-> {}]
  /\ view = [r \in Replicas |-> <<>>]
  /\ log = [r \in Replicas |-> Idle]
  /\ used = [r \in Replicas |-> {}]
  /\ admin = [r \in Replicas |-> AtRest]
  /\ down = {}
  /\ acked = {}
  /\ grants = [n \in Nonces |-> 0]
  /\ lost = [n \in Nonces |-> 0]
  /\ disturbed = {}
  /\ requests = 0
  /\ faults = 0

Request == requests < MaxRequests /\ requests' = requests + 1

Fault == faults < MaxFaults /\ faults' = faults + 1

(* ReplayFrame.create and the head it links to.                            *)
hash(f) == Append(f.prev, f.id)

head(frames) == IF frames = <<>> THEN <<>> ELSE hash(Last(frames))

create(id, frames) == [id |-> id, prev |-> head(frames)]

(* verify_chain, and the checks of load_jsonl.                             *)
verify_chain(frames) ==
  \A i \in DOMAIN frames : frames[i] # Torn
                           /\ frames[i].prev = head(SubSeq(frames, 1, i - 1))

Ids == {table[i].id : i \in DOMAIN table}

-------------------------------------------------------------------------------
(* PostgreSQL: the transaction of a connection.                            *)

FramesIn(ws) == {w \in ws : w.kind = "frame"}

KeysIn(ws) == {w \in ws : w.kind = "key"}

(* Committed: the writes of a transaction become visible together.  It has *)
(* at most one frame and one key, for each store holds its own lock from   *)
(* its write to its commit.                                                *)
Applied(ws) ==
  /\ table' = IF FramesIn(ws) = {} THEN table
              ELSE LET w == CHOOSE w \in FramesIn(ws) : TRUE
                   IN  Append(table, [id |-> w.id, prev |-> w.prev])
  /\ consumed' = consumed \cup {w.id : w \in {x \in ws : x.kind = "nonce"}}
  /\ trust' = IF KeysIn(ws) = {} THEN trust
              ELSE LET w == CHOOSE w \in KeysIn(ws) : TRUE
                   IN  [trust EXCEPT ![w.id] = w.state]
  /\ UNCHANGED backend

(* Mutant of Released: session locks, which no transaction's end releases. *)
ReleasedNever(r) == UNCHANGED locks

Released(r) == locks' = [o \in Ops |-> IF locks[o] = r THEN None ELSE locks[o]]

CommitTxn(r) == /\ Applied(pending[r])
                /\ pending' = [pending EXCEPT ![r] = {}]
                /\ Released(r)
                /\ UNCHANGED aborted

RollbackTxn(r) == /\ pending' = [pending EXCEPT ![r] = {}]
                  /\ Released(r)
                  /\ aborted' = aborted \ {r}
                  /\ UNCHANGED databases

(* A failed statement: the server drops the writes and the locks at once,  *)
(* the connection refuses statements until its client rolls back.          *)
AbortTxn(r) == /\ pending' = [pending EXCEPT ![r] = {}]
               /\ Released(r)
               /\ aborted' = aborted \cup {r}
               /\ UNCHANGED databases

InLog(r) == log[r].step \in {"refresh", "insert", "commit"}

WritingTrust(r) == admin[r].step = "commit"

Disturb(r, other) ==
  disturbed' = IF other THEN disturbed \cup {r} ELSE disturbed

Finish(r) == log' = [log EXCEPT ![r] = Idle]

Proceed(r, step) == log' = [log EXCEPT ![r].step = step]

-------------------------------------------------------------------------------
(* PostgresReplayLog.append and claim_nonce.                               *)

Up(r) == r \notin down

Start(r, o, id) ==
  /\ Up(r) /\ backend = "postgres" /\ log[r].step = "idle" /\ Request
  /\ log' = [log EXCEPT ![r] = [step |-> "lock", op |-> o, id |-> id]]
  /\ UNCHANGED <<databases, sessions, view, memory, admin, down, history,
                 faults>>

(* Mutant of TakeLock: a lock that does not exclude.                       *)
TakeLockShared(r) ==
  /\ log[r].step = "lock"
  /\ r \notin aborted
  /\ Proceed(r, IF log[r].op = "append" THEN "refresh" ELSE "insert")
  /\ UNCHANGED <<databases, sessions, view, memory, admin, down, history,
                 bounds>>

(* pg_advisory_xact_lock: free, or already this session's.                 *)
TakeLock(r) ==
  /\ log[r].step = "lock"
  /\ r \notin aborted
  /\ locks[log[r].op] \in {None, r}
  /\ locks' = [locks EXCEPT ![log[r].op] = r]
  /\ Proceed(r, IF log[r].op = "append" THEN "refresh" ELSE "insert")
  /\ UNCHANGED <<databases, aborted, pending, view, memory, admin, down,
                 history, bounds>>

_refresh(r) ==
  /\ log[r].step = "refresh"
  /\ r \notin aborted
  /\ view' = [view EXCEPT ![r] = table]
  /\ Proceed(r, "insert")
  /\ UNCHANGED <<databases, sessions, memory, admin, down, history, bounds>>

(* The write of the operation, linked to the head that was read.           *)
NewWrite(r) ==
  IF log[r].op = "append"
  THEN [kind |-> "frame", id |-> log[r].id, prev |-> head(view[r])]
  ELSE [kind |-> "nonce", id |-> log[r].id]

(* Mutant of Taken: the insert of a nonce ignores that the row exists.     *)
TakenByFrame(r) == log[r].op = "append" /\ log[r].id \in Ids

Taken(r) == IF log[r].op = "append" THEN log[r].id \in Ids
            ELSE log[r].id \in consumed

(* INSERT waits for another session's uncommitted row of the same key.     *)
Waits(r) == \E q \in Replicas \ {r} : \E w \in pending[q] :
              w.kind = NewWrite(r).kind /\ w.id = log[r].id

Insert(r) ==
  /\ log[r].step = "insert"
  /\ r \notin aborted
  /\ ~ Waits(r)
  /\ ~ Taken(r)
  /\ pending' = [pending EXCEPT ![r] = @ \cup {NewWrite(r)}]
  /\ Proceed(r, "commit")
  /\ UNCHANGED <<databases, locks, aborted, view, memory, admin, down,
                 history, bounds>>

(* The row exists: rollback, and the caller is refused.                    *)
InsertRefused(r) ==
  /\ log[r].step = "insert"
  /\ r \notin aborted
  /\ ~ Waits(r)
  /\ Taken(r)
  /\ RollbackTxn(r)
  /\ Disturb(r, WritingTrust(r))
  /\ Finish(r)
  /\ UNCHANGED <<view, memory, admin, down, acked, grants, bounds>>

(* Mutant of Commit: the caller is told before the transaction commits.    *)
CommitForgotten(r) ==
  /\ log[r].step = "commit"
  /\ r \notin aborted
  /\ acked' = acked \cup {NewWrite(r)}
  /\ Finish(r)
  /\ UNCHANGED <<databases, sessions, view, memory, admin, down, grants,
                 disturbed, bounds>>

(* commit() succeeds whether or not the transaction is still the one that  *)
(* holds the row; then the frame joins _frames and the caller is told.     *)
Commit(r) ==
  /\ log[r].step = "commit"
  /\ r \notin aborted
  /\ CommitTxn(r)
  /\ Disturb(r, WritingTrust(r))
  /\ acked' = acked \cup {NewWrite(r)}
  /\ IF log[r].op = "append"
     THEN /\ view' = [view EXCEPT ![r] = Append(@, create(log[r].id, @))]
          /\ UNCHANGED grants
     ELSE /\ grants' = [grants EXCEPT ![log[r].id] = @ + 1]
          /\ UNCHANGED view
  /\ Finish(r)
  /\ UNCHANGED <<memory, admin, down, bounds>>

(* A statement fails in the server.  append rolls back after its INSERT    *)
(* only; claim_nonce after either of its statements.                       *)
RollsBack(r) == log[r].op = "claim" \/ log[r].step \in {"insert", "commit"}

StatementFails(r) ==
  /\ log[r].step # "idle"
  /\ r \notin aborted
  /\ Fault
  /\ IF RollsBack(r) THEN RollbackTxn(r) ELSE AbortTxn(r)
  /\ Disturb(r, WritingTrust(r))
  /\ Finish(r)
  /\ UNCHANGED <<view, memory, admin, down, acked, grants, requests>>

(* Every statement on an aborted connection fails.                         *)
MeetsAborted(r) ==
  /\ log[r].step # "idle"
  /\ r \in aborted
  /\ IF RollsBack(r) THEN RollbackTxn(r) ELSE UNCHANGED <<databases, sessions>>
  /\ Finish(r)
  /\ UNCHANGED <<view, memory, admin, down, history, bounds>>

-------------------------------------------------------------------------------
(* PostgresTrustStore.add and revoke, statement by statement.              *)

AdminRests(r) == admin' = [admin EXCEPT ![r] = AtRest]

AdminAt(r, step) == admin' = [admin EXCEPT ![r].step = step]

TrustStart(r, o, k) ==
  /\ Up(r) /\ backend = "postgres" /\ admin[r].step = "idle" /\ Request
  /\ admin' = [admin EXCEPT ![r] =
                 [step |-> IF o = "add" THEN "select" ELSE "write",
                  op |-> o, id |-> k]]
  /\ UNCHANGED <<databases, sessions, view, memory, log, down, history,
                 faults>>

(* resolve, by a process that starts: it is up if its key is trusted, and  *)
(* adds it otherwise.                                                      *)
Resolve(r) ==
  /\ admin[r].step = "resolve"
  /\ IF trust[admin[r].id] = "trusted"
     THEN AdminRests(r) /\ down' = down \ {r}
     ELSE AdminAt(r, "select") /\ UNCHANGED down
  /\ UNCHANGED <<databases, sessions, view, memory, log, history, bounds>>

(* add looks first: an unrevoked row is refused.                           *)
TrustSelect(r) ==
  /\ admin[r].step = "select"
  /\ r \notin aborted
  /\ trust[admin[r].id] # "trusted"
  /\ AdminAt(r, "write")
  /\ UNCHANGED <<databases, sessions, view, memory, log, down, history,
                 bounds>>

NewKey(r) == [kind |-> "key", id |-> admin[r].id,
              state |-> IF admin[r].op = "add" THEN "trusted" ELSE "revoked"]

(* An upsert, or an update of the row there is.  Both wait for a session   *)
(* with an uncommitted change of the row.                                  *)
TrustWrite(r) ==
  /\ admin[r].step = "write"
  /\ r \notin aborted
  /\ admin[r].op = "revoke" => trust[admin[r].id] # "unknown"
  /\ \A q \in Replicas \ {r} : \A w \in KeysIn(pending[q]) : w.id # admin[r].id
  /\ pending' = [pending EXCEPT ![r] = @ \cup {NewKey(r)}]
  /\ AdminAt(r, "commit")
  /\ UNCHANGED <<databases, locks, aborted, view, memory, log, down, history,
                 bounds>>

(* A key that is trusted already, or a revocation that met no row.         *)
Refused(r) == \/ admin[r].step = "select" /\ trust[admin[r].id] = "trusted"
              \/ /\ admin[r].step = "write" /\ admin[r].op = "revoke"
                 /\ trust[admin[r].id] = "unknown"

TrustRefused(r) ==
  /\ Refused(r)
  /\ r \notin aborted
  /\ RollbackTxn(r)
  /\ Disturb(r, InLog(r))
  /\ AdminRests(r)
  /\ UNCHANGED <<view, memory, log, down, acked, grants, bounds>>

(* The caller is told, and a process that started with it is up.  What was *)
(* told of the key before no longer stands.                                *)
TrustCommit(r) ==
  /\ admin[r].step = "commit"
  /\ r \notin aborted
  /\ CommitTxn(r)
  /\ Disturb(r, InLog(r))
  /\ acked' = {w \in acked : w.kind = "key" => w.id # admin[r].id}
               \cup {NewKey(r)}
  /\ AdminRests(r)
  /\ down' = down \ {r}
  /\ UNCHANGED <<view, memory, log, grants, bounds>>

(* A statement of the trust store fails: it rolls back.                    *)
TrustFails(r) ==
  /\ admin[r].step # "idle"
  /\ Fault
  /\ RollbackTxn(r)
  /\ Disturb(r, InLog(r))
  /\ AdminRests(r)
  /\ UNCHANGED <<view, memory, log, down, acked, grants, requests>>

(* So it does on an aborted connection, which that repairs.                *)
TrustMeetsAborted(r) ==
  /\ admin[r].step # "idle"
  /\ r \in aborted
  /\ RollbackTxn(r)
  /\ AdminRests(r)
  /\ UNCHANGED <<view, memory, log, down, history, bounds>>

-------------------------------------------------------------------------------
(* SQLiteReplayLog.append: the new frame is linked to the head in memory,  *)
(* which no other process's append changes.                                *)
AppendSqlite(r, id) ==
  /\ Up(r) /\ backend = "sqlite" /\ Request
  /\ id \notin Ids
  /\ LET f == create(id, view[r])
     IN  /\ table' = Append(table, f)
         /\ view' = [view EXCEPT ![r] = Append(@, f)]
         /\ acked' = acked \cup {[kind |-> "frame", id |-> id, prev |-> f.prev]}
  /\ disturbed' = IF view[r] # table THEN disturbed \cup {r} ELSE disturbed
  /\ UNCHANGED <<backend, consumed, trust, sessions, memory, log, admin, down,
                 grants, faults>>

(* Its claim_nonce: the row, which the table has once.                     *)
ClaimSqlite(r, n) ==
  /\ Up(r) /\ backend = "sqlite" /\ Request
  /\ n \notin consumed
  /\ consumed' = consumed \cup {n}
  /\ acked' = acked \cup {[kind |-> "nonce", id |-> n]}
  /\ grants' = [grants EXCEPT ![n] = @ + 1]
  /\ UNCHANGED <<backend, table, trust, sessions, view, memory, log, admin,
                 down, disturbed, faults>>

(* ReplayLog.append: memory first, then the file.  The barrier appends an  *)
(* execution frame once it has claimed the nonce.                          *)
AppendJsonl(r, id) ==
  /\ Up(r) /\ backend = "jsonl" /\ Request
  /\ ExecutionOf[id] \in used[r] \cup {None}
  /\ LET f == create(id, view[r])
     IN  /\ view' = [view EXCEPT ![r] = Append(@, f)]
         /\ \/ /\ table' = Append(table, f)
               /\ acked' = acked \cup
                             {[kind |-> "frame", id |-> id, prev |-> f.prev]}
               /\ UNCHANGED faults
            \/ /\ Fault
               /\ table' \in {table, Append(table, Torn)}
               /\ UNCHANGED acked
  /\ disturbed' = IF view[r] # table THEN disturbed \cup {r} ELSE disturbed
  /\ UNCHANGED <<backend, consumed, trust, sessions, memory, log, admin, down,
                 grants>>

(* ReplayLog.claim_nonce: in memory only.                                  *)
ClaimJsonl(r, n) ==
  /\ Up(r) /\ backend = "jsonl" /\ Request
  /\ n \notin used[r]
  /\ used' = [used EXCEPT ![r] = @ \cup {n}]
  /\ acked' = acked \cup {[kind |-> "nonce", id |-> n]}
  /\ grants' = [grants EXCEPT ![n] = @ + 1]
  /\ UNCHANGED <<databases, sessions, view, lost, log, admin, down, disturbed,
                 faults>>

-------------------------------------------------------------------------------
(* load_jsonl takes the nonces of the execution frames for used.           *)
load_jsonl == IF backend = "jsonl" /\ verify_chain(table)
              THEN {ExecutionOf[table[i].id] : i \in DOMAIN table} \ {None}
              ELSE {}

(* A process stops, its connection is closed and rolled back; the next one *)
(* loads the log, or refuses to start on an invalid chain.  On PostgreSQL  *)
(* it is not up before its key resolves.                                   *)
Restart(r) ==
  /\ Fault
  /\ RollbackTxn(r)
  /\ used' = [used EXCEPT ![r] = load_jsonl]
  /\ lost' = [n \in Nonces |->
               IF n \in used[r] \ load_jsonl THEN lost[n] + 1 ELSE lost[n]]
  /\ IF verify_chain(table)
     THEN /\ view' = [view EXCEPT ![r] = table]
          /\ IF backend = "postgres"
             THEN /\ admin' = [admin EXCEPT ![r] =
                       [step |-> "resolve", op |-> "add", id |-> Signer]]
                  /\ down' = down \cup {r}
             ELSE AdminRests(r) /\ down' = down \ {r}
     ELSE AdminRests(r) /\ down' = down \cup {r} /\ UNCHANGED view
  /\ Finish(r)
  /\ UNCHANGED <<history, requests>>

LogStep(r) == \/ TakeLock(r) \/ _refresh(r) \/ Insert(r) \/ InsertRefused(r)
              \/ Commit(r) \/ MeetsAborted(r)

TrustStep(r) == \/ Resolve(r) \/ TrustSelect(r) \/ TrustWrite(r)
                \/ TrustRefused(r) \/ TrustCommit(r) \/ TrustMeetsAborted(r)

Next == \E r \in Replicas :
  \/ \E id \in FrameIds : \/ Start(r, "append", id)
                          \/ AppendSqlite(r, id)
                          \/ AppendJsonl(r, id)
  \/ \E n \in Nonces : \/ Start(r, "claim", n)
                       \/ ClaimSqlite(r, n)
                       \/ ClaimJsonl(r, n)
  \/ \E k \in TrustKeys, o \in {"add", "revoke"} : TrustStart(r, o, k)
  \/ LogStep(r)
  \/ TrustStep(r)
  \/ StatementFails(r)
  \/ TrustFails(r)
  \/ Restart(r)

(* A thread goes on with what it started; PostgreSQL hands its locks on in *)
(* the order they were asked for.                                          *)
Fairness == \A r \in Replicas : SF_vars(LogStep(r)) /\ SF_vars(TrustStep(r))

Spec == Init /\ [][Next]_vars /\ Fairness

-------------------------------------------------------------------------------
(* A claim in the JSONL log is not meant to be in the file.                *)
Durable(w) ==
  CASE w.kind = "frame" -> [id |-> w.id, prev |-> w.prev] \in ToSet(table)
    [] w.kind = "nonce" -> w.id \in consumed \/ backend = "jsonl"
    [] w.kind = "key" -> trust[w.id] = w.state

(* The chain in the shared store never forks, whatever appends, claims,    *)
(* trust changes, failed statements and restarts interleave on however     *)
(* many processes: in PostgreSQL as long as no transaction was ended from  *)
(* the other store, in SQLite as long as no process appended on a head     *)
(* that another had moved.                                                 *)
ChainLinear ==
  backend # "jsonl" /\ disturbed = {} => verify_chain(table)

(* A frame that a caller was told of, and in SQL a claim, is in the store  *)
(* and stays there; a trust key is as the last change that was reported    *)
(* done left it.  So a revocation lasts until the key is added again: by   *)
(* an operator, or by any process that starts with that key as its signer, *)
(* and by nothing else that fails, waits or restarts in between.           *)
NoSilentLoss == disturbed = {} => \A w \in acked : Durable(w)

(* In SQL a nonce is granted once, across processes, failures and          *)
(* restarts.  In the JSONL log every process grants it once, and once more *)
(* each time one stops after the claim and before an execution frame of    *)
(* the nonce is in the file.                                               *)
GrantedOnce ==
  \A n \in Nonces :
    /\ backend # "jsonl" /\ disturbed = {} => grants[n] <= 1
    /\ backend = "jsonl" =>
         grants[n] <= Cardinality({r \in Replicas : n \in used[r]}) + lost[n]

(* "PostgreSQL-backed replay log with transactional append and nonce       *)
(* claims" (storage.py:159), without the exception that GrantedOnce makes. *)
ClaimsAreTransactional == \A n \in Nonces : grants[n] <= 1

(* Appends, claims, trust changes and starts end: the advisory locks and   *)
(* the row waits of the processes cannot block one another for good.       *)
OperationsEnd ==
  \A r \in Replicas : /\ log[r].step # "idle" ~> log[r].step = "idle"
                      /\ admin[r].step # "idle" ~> admin[r].step = "idle"
===============================================================================
