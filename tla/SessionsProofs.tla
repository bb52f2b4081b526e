--------------------------- MODULE SessionsProofs ----------------------------
(***************************************************************************)
(* Proofs about sign-in, sessions and roles, for every deployment and any  *)
(* number of threads, subjects, login states, sessions and keys.           *)
(***************************************************************************)
EXTENDS Sessions, SequenceTheorems, FiniteSetTheorems, TLAPS

Steps == {"idle", "begin", "consume", "exchange", "create", "authenticate",
          "refresh", "again", "roles", "record", "act"}

Request == [at : Steps, kind : Kinds,
            cred : Logins \cup Tokens \cup SigningKeys \cup OperatorKeys \cup {None},
            route : Routes, who : Subjects \cup {None}, roles : SUBSET Roles,
            since : Nat, void : BOOLEAN]

Fetch == [by : Threads \cup {None}, keys : SUBSET SigningKeys, since : Nat]

Grant == [by : Subjects, to : Subjects, role : Roles]

Tables ==
  /\ deployment \in Deployments
  /\ keeps \in BOOLEAN
  /\ now \in Nat
  /\ pending \in [Logins -> Nat \cup {None}]
  /\ sessions \in [Tokens -> Session \cup {None}]
  /\ published \subseteq SigningKeys
  /\ jwks \in [keys : SUBSET SigningKeys, expires : Nat]
  /\ fetch \in Fetch
  /\ assigned \in [Subjects -> SUBSET Roles]
  /\ recorded \in [Subjects -> SUBSET Roles]
  /\ operator \in [OperatorKeys -> {"absent", "active", "revoked"}]
  /\ thread \in [Threads -> Request]
  /\ begun \subseteq Logins
  /\ opened \in [Logins -> Nat]
  /\ issued \in [Tokens -> Nat \cup {None}]
  /\ ended \subseteq Tokens
  /\ retired \in [SigningKeys -> Nat \cup {None}]
  /\ grants \in Seq(Grant)
  /\ \A w \in served : w.who \in Subjects \cup {None}

(* Why a credential that was presented is known to be withdrawn. *)
Withdrawn(r) ==
  /\ r.kind \notin {"token", "apitoken"}
  /\ r.kind = "session" => r.cred \in ended \/ issued[r.cred] <= r.since
  /\ r.kind = "key" => operator[r.cred] = "revoked"
  /\ r.kind = "bearer" => /\ retired[r.cred] # None
                          /\ retired[r.cred] + FetchTime + CacheTTL <= now

(* What is known of a thread's request at its steps: where its credential  *)
(* and its identity come from, which roles it may have, what was recorded. *)
Sound(t) ==
  LET r == thread[t]
  IN /\ r.since <= now
     /\ r.at \in {"consume", "exchange", "create"} => r.cred \in begun
     /\ r.at \in {"authenticate", "refresh", "again", "roles", "record", "act"} =>
          /\ r.kind \in {"session", "bearer", "key", "token", "apitoken"}
          /\ r.kind = "session" => r.cred \in Tokens /\ issued[r.cred] # None
          /\ r.kind = "key" => r.cred \in OperatorKeys /\ operator[r.cred] # "absent"
          /\ r.kind = "bearer" => r.cred \in SigningKeys
          /\ r.kind \in {"key", "token", "apitoken"} => r.who = None
          /\ r.kind = "apitoken" => r.roles = {}
     /\ r.at \in {"authenticate", "refresh", "again"} /\ r.void => Withdrawn(r)
     /\ r.at \in {"roles", "record", "act"} =>
          ~ r.void /\ (r.kind \in {"session", "bearer"} => r.who # None)
     /\ r.at \in {"create", "roles"} => r.who # None
     /\ r.at \in {"record", "act"} /\ r.who # None =>
          /\ r.roles \subseteq Claims[r.who] \cup assigned[r.who]
          /\ ~ keeps => r.roles \subseteq Claims[r.who]
     /\ r.at \in {"record", "act"} /\ r.kind = "key" => r.route # "work"
     /\ r.at = "act" => Authorized(r)
     /\ r.at = "act" /\ r.who # None /\ keeps => r.roles \subseteq recorded[r.who]

(* A login state is pending, with one thread, or spent: never two of them. *)
Exchanging(t, l) == thread[t].at \in {"exchange", "create"} /\ thread[t].cred = l

LoginInv ==
  \A l \in Logins :
    /\ opened[l] <= 1
    /\ l \notin begun => pending[l] = None /\ opened[l] = 0
    /\ pending[l] # None => opened[l] = 0
    /\ \A t \in Threads : Exchanging(t, l) =>
         /\ pending[l] = None /\ opened[l] = 0
         /\ \A u \in Threads \ {t} : ~ Exchanging(u, l)

(* A session lives no longer than its id token, and not after its logout. *)
SessionInv ==
  \A s \in Tokens :
    /\ s \in ended => issued[s] # None
    /\ sessions[s] # None => /\ issued[s] # None
                             /\ sessions[s].exp <= issued[s]
                             /\ s \notin ended

(* An answer with a key that is not published any more was given before,   *)
(* and the cache holds such a key at most for its time to live after the   *)
(* longest time an answer takes.                                           *)
CacheInv ==
  /\ jwks.expires <= now + CacheTTL
  /\ fetch.since <= now
  /\ \A k \in SigningKeys :
       /\ k \in published => retired[k] = None
       /\ k \in jwks.keys /\ k \notin published =>
            retired[k] # None /\ jwks.expires <= retired[k] + FetchTime + CacheTTL
       /\ k \in fetch.keys /\ k \notin published =>
            retired[k] # None /\ fetch.since <= retired[k]

RolesInv == \A u \in Subjects : recorded[u] \subseteq Claims[u] \cup assigned[u]

AInv == /\ Tables /\ LoginInv /\ SessionInv /\ CacheInv /\ RolesInv
        /\ AssignmentsGrounded /\ WorkAttributed
        /\ \A t \in Threads : Sound(t)

-------------------------------------------------------------------------------
(* What no step takes back *)

(* Histories, roles and keys only grow; a key once revoked stays revoked. *)
Mono ==
  /\ keeps' = keeps /\ now <= now' /\ begun \subseteq begun' /\ ended \subseteq ended'
  /\ \A s \in Tokens : issued[s] # None => issued'[s] = issued[s]
  /\ \A k \in SigningKeys : retired[k] # None => retired'[k] = retired[k]
  /\ \A o \in OperatorKeys :
       /\ operator[o] # "absent" => operator'[o] # "absent"
       /\ operator[o] = "revoked" => operator'[o] = "revoked"
  /\ \A u \in Subjects : /\ assigned[u] \subseteq assigned'[u]
                         /\ recorded[u] \subseteq recorded'[u]

(* What is known of a request stays known while it does not move. *)
LEMMA SoundKept ==
  ASSUME AInv, Tables', Mono, NEW t \in Threads, thread'[t] = thread[t]
  PROVE  Sound(t)'
<1> DEFINE r == thread[t]
<1>1. r \in Request /\ Sound(t) /\ now \in Nat /\ now' \in Nat /\ now <= now'
  BY DEF AInv, Tables, Mono
<1>2. CacheTTL \in Nat /\ FetchTime \in Nat
  BY SessionsConstants
<1>3. r.at \in {"authenticate", "refresh", "again"} /\ r.void => Withdrawn(r)'
  <2> SUFFICES ASSUME r.at \in {"authenticate", "refresh", "again"}, r.void PROVE Withdrawn(r)'
    OBVIOUS
  <2>1. Withdrawn(r)
    BY <1>1 DEF Sound
  <2>2. /\ r.kind = "session" => r.cred \in Tokens /\ issued[r.cred] # None
        /\ r.kind = "key" => r.cred \in OperatorKeys
        /\ r.kind = "bearer" => r.cred \in SigningKeys
    BY <1>1 DEF Sound
  <2>3. CASE r.kind = "session"
    BY <2>1, <2>2, <2>3 DEF Withdrawn, Mono
  <2>4. CASE r.kind = "key"
    BY <2>1, <2>2, <2>4 DEF Withdrawn, Mono
  <2>5. CASE r.kind = "bearer"
    <3>1. /\ retired[r.cred] # None /\ retired[r.cred] + FetchTime + CacheTTL <= now
          /\ retired'[r.cred] = retired[r.cred] /\ retired[r.cred] \in Nat
      BY <2>1, <2>2, <2>5 DEF Withdrawn, Mono, AInv, Tables
    <3> QED
      BY <1>1, <1>2, <2>5, <3>1 DEF Withdrawn
  <2> QED
    BY <2>1, <2>3, <2>4, <2>5 DEF Withdrawn
<1>4. r.since <= now'
  BY <1>1 DEF Sound, Request
<1>5. r.who # None => r.who \in Subjects
  BY <1>1 DEF Request
<1>6. /\ r.at \in {"record", "act"} /\ r.who # None =>
           /\ r.roles \subseteq Claims[r.who] \cup assigned'[r.who]
           /\ ~ keeps' => r.roles \subseteq Claims[r.who]
      /\ r.at = "act" /\ r.who # None /\ keeps' => r.roles \subseteq recorded'[r.who]
  BY <1>1, <1>5 DEF Sound, Mono
<1>7. /\ r.at \in {"consume", "exchange", "create"} => r.cred \in begun'
      /\ r.at \in {"authenticate", "refresh", "again", "roles", "record", "act"} =>
          /\ r.kind \in {"session", "bearer", "key", "token", "apitoken"}
          /\ r.kind = "session" => r.cred \in Tokens /\ issued'[r.cred] # None
          /\ r.kind = "key" => r.cred \in OperatorKeys /\ operator'[r.cred] # "absent"
          /\ r.kind = "bearer" => r.cred \in SigningKeys
          /\ r.kind \in {"key", "token", "apitoken"} => r.who = None
          /\ r.kind = "apitoken" => r.roles = {}
  BY <1>1 DEF Sound, Mono
<1>8. /\ r.at \in {"roles", "record", "act"} =>
           ~ r.void /\ (r.kind \in {"session", "bearer"} => r.who # None)
      /\ r.at \in {"create", "roles"} => r.who # None
      /\ r.at \in {"record", "act"} /\ r.kind = "key" => r.route # "work"
      /\ r.at = "act" => Authorized(r)
  BY <1>1 DEF Sound
<1>9. thread'[t] = r
  OBVIOUS
<1>10. r.at = "act" => Authorized(r)'
  BY <1>8, <1>9 DEF Authorized, HasRole, MayAssign, Mono
<1> QED
  BY <1>3, <1>4, <1>6, <1>7, <1>8, <1>9, <1>10 DEF Sound

(* An idle thread has nothing to account for. *)
LEMMA IdleSound ==
  ASSUME NEW t \in Threads, thread'[t] = Idle, now' \in Nat
  PROVE  Sound(t)'
BY DEF Sound, Idle

(* An idle thread is well formed. *)
LEMMA IdleIsRequest == Idle \in Request
BY DEF Idle, Request, Steps, Kinds, Routes, Roles

(* Work that was attributed stays attributed. *)
LEMMA WorkKept ==
  ASSUME AInv, Mono, RolesInv', served' = served
  PROVE  WorkAttributed'
<1> SUFFICES ASSUME NEW w \in served
             PROVE  \/ w.kind = "token"
                    \/ w.kind = "apitoken" /\ w.route = "work"
                    \/ w.kind = "key" /\ w.route = "jobs"
                    \/ /\ w.who # None
                       /\ recorded'[w.who] \subseteq Claims[w.who] \cup assigned'[w.who]
                       /\ (IF keeps' THEN recorded' ELSE Claims)[w.who] # {}
  BY DEF WorkAttributed
<1>1. \/ w.kind = "token"
      \/ w.kind = "apitoken" /\ w.route = "work"
      \/ w.kind = "key" /\ w.route = "jobs"
      \/ w.who # None /\ (IF keeps THEN recorded ELSE Claims)[w.who] # {}
  BY DEF AInv, WorkAttributed
<1>2. CASE w.who # None /\ (IF keeps THEN recorded ELSE Claims)[w.who] # {}
  <2>1. w.who \in Subjects
    BY <1>2 DEF AInv, Tables
  <2>2. recorded[w.who] \subseteq recorded'[w.who] /\ keeps' = keeps
    BY <2>1 DEF Mono
  <2>3. recorded'[w.who] \subseteq Claims[w.who] \cup assigned'[w.who]
    BY <2>1 DEF RolesInv
  <2> QED
    BY <1>2, <2>2, <2>3
<1> QED
  BY <1>1, <1>2

(* Login states that are only forgotten, by threads that only drop them. *)
LEMMA LoginKept ==
  ASSUME AInv, UNCHANGED <<opened, begun>>,
         \A l \in Logins : pending'[l] \in {pending[l], None},
         \A t \in Threads, l \in Logins : Exchanging(t, l)' => Exchanging(t, l)
  PROVE  LoginInv'
BY DEF AInv, LoginInv

(* Sessions that are only forgotten. *)
LEMMA SessionKept ==
  ASSUME AInv, UNCHANGED <<issued, ended>>,
         \A s \in Tokens : sessions'[s] \in {sessions[s], None}
  PROVE  SessionInv'
BY DEF AInv, SessionInv

(* A step of one thread that changes neither roles, keys nor histories. *)
LEMMA QuietStep ==
  ASSUME AInv, NEW t \in Threads,
         UNCHANGED <<deployment, keeps, now, assigned, recorded, operator, published,
                     history>>,
         thread' \in [Threads -> Request],
         \A u \in Threads \ {t} : thread'[u] = thread[u],
         thread'[t] = thread[t] \/ Sound(t)',
         \A l \in Logins : Exchanging(t, l)' => Exchanging(t, l),
         pending' \in [Logins -> Nat \cup {None}],
         \A l \in Logins : pending'[l] \in {pending[l], None},
         sessions' \in [Tokens -> Session \cup {None}],
         \A s \in Tokens : sessions'[s] \in {sessions[s], None},
         jwks' \in [keys : SUBSET SigningKeys, expires : Nat],
         fetch' \in Fetch,
         CacheInv'
  PROVE  AInv'
<1>0. UNCHANGED <<begun, opened, issued, ended, retired, grants, served>>
  BY DEF history
<1>1. Tables'
  BY <1>0 DEF AInv, Tables
<1>2. Mono
  BY <1>0 DEF Mono, AInv, Tables
<1>3. \A u \in Threads : Sound(u)'
  BY <1>1, <1>2, SoundKept
<1>4. \A u \in Threads, l \in Logins : Exchanging(u, l)' => Exchanging(u, l)
  BY DEF Exchanging
<1>5. LoginInv'
  BY <1>0, <1>4, LoginKept
<1>6. SessionInv'
  BY <1>0, SessionKept
<1>7. RolesInv'
  BY DEF AInv, RolesInv
<1>8. WorkAttributed'
  BY <1>0, <1>2, <1>7, WorkKept
<1>9. AssignmentsGrounded'
  BY <1>0 DEF AInv, AssignmentsGrounded
<1> QED
  BY <1>1, <1>3, <1>5, <1>6, <1>7, <1>8, <1>9 DEF AInv

(* A step that changes threads only. *)
LEMMA ThreadStep ==
  ASSUME AInv, NEW t \in Threads,
         UNCHANGED <<deployment, keeps, now, stores, published, history>>,
         thread' \in [Threads -> Request],
         \A u \in Threads \ {t} : thread'[u] = thread[u],
         Sound(t)',
         \A l \in Logins : Exchanging(t, l)' => Exchanging(t, l)
  PROVE  AInv'
<1>1. UNCHANGED <<pending, sessions, jwks, fetch, assigned, recorded, operator>>
  BY DEF stores
<1>2. UNCHANGED retired
  BY DEF history
<1>3. CacheInv'
  BY <1>1, <1>2 DEF AInv, CacheInv
<1>4. /\ pending' \in [Logins -> Nat \cup {None}]
      /\ sessions' \in [Tokens -> Session \cup {None}]
      /\ jwks' \in [keys : SUBSET SigningKeys, expires : Nat] /\ fetch' \in Fetch
  BY <1>1 DEF AInv, Tables
<1> QED
  BY <1>1, <1>3, <1>4, QuietStep

(* Where a thread is after Become. *)
LEMMA Becomes ==
  ASSUME AInv, NEW t \in Threads, Become(t, "idle")
  PROVE  /\ thread' \in [Threads -> Request] /\ thread'[t] = Idle
         /\ \A u \in Threads \ {t} : thread'[u] = thread[u]
         /\ \A l : ~ Exchanging(t, l)'
<1>1. thread' = [thread EXCEPT ![t] = Idle]
  BY DEF Become
<1>2. /\ thread' \in [Threads -> Request] /\ thread'[t] = Idle
      /\ \A u \in Threads \ {t} : thread'[u] = thread[u]
  BY <1>1, IdleIsRequest DEF AInv, Tables
<1> QED
  BY <1>2 DEF Exchanging, Idle

-------------------------------------------------------------------------------
(* Requests and sign-in *)

(* A request arrives with a credential that was handed out; if it is       *)
(* withdrawn by then, the tables show it.                                  *)
LEMMA ArriveStep ==
  ASSUME AInv, NEW t \in Threads, NEW kind \in Kinds, NEW route \in Routes,
         Arrive(t, kind, route)
  PROVE  AInv'
<1>1. PICK cred \in Presentable(kind) :
        thread' = [thread EXCEPT ![t] =
          [at |-> FirstStep(kind), kind |-> kind, cred |-> cred, route |-> route,
           who |-> None, roles |-> {},
           since |-> IF kind = "bearer" THEN 0 ELSE now,
           void |-> Void(kind, cred)]]
  BY DEF Arrive
<1>2. PICK at, void, since : /\ at = FirstStep(kind) /\ void = Void(kind, cred)
                             /\ since = IF kind = "bearer" THEN 0 ELSE now
  OBVIOUS
<1> DEFINE r == [at |-> at, kind |-> kind, cred |-> cred, route |-> route,
                 who |-> None, roles |-> {}, since |-> since, void |-> void]
<1>3. thread' = [thread EXCEPT ![t] = r]
  BY <1>1, <1>2
<1>4. UNCHANGED <<deployment, keeps, now, stores, published, history>>
  BY DEF Arrive
<1>5. UNCHANGED <<operator, begun, issued, ended, retired>>
  BY <1>4 DEF stores, history
<1>6. /\ kind = "login" => cred = None /\ at = "begin"
      /\ kind = "callback" => cred \in begun /\ at = "consume"
      /\ kind = "session" => /\ cred \in Tokens /\ issued[cred] # None
                             /\ at = "authenticate"
      /\ kind = "bearer" => cred \in SigningKeys /\ at = "authenticate"
      /\ kind = "key" => /\ cred \in OperatorKeys /\ operator[cred] # "absent"
                         /\ at = "authenticate"
      /\ kind \in {"token", "apitoken"} => cred = None /\ at = "authenticate"
  BY <1>2 DEF Presentable, FirstStep
<1>7. kind \in {"login", "callback", "session", "bearer", "key", "token", "apitoken"}
  BY DEF Kinds
<1>8. void \in BOOLEAN
  BY <1>2, <1>7 DEF Void
<1>9. now \in Nat /\ begun \subseteq Logins
  BY DEF AInv, Tables
<1>10. r \in Request
  BY <1>2, <1>6, <1>7, <1>8, <1>9 DEF Request, Steps, Roles
<1>11. void =>
         /\ kind \notin {"token", "apitoken"}
         /\ kind = "session" => cred \in ended \/ issued[cred] <= now
         /\ kind = "key" => operator[cred] = "revoked"
         /\ kind = "bearer" => /\ retired[cred] # None
                              /\ retired[cred] + FetchTime + CacheTTL <= now
  BY <1>2, <1>7 DEF Void
<1>12. at \in {"begin", "consume", "authenticate"}
  BY <1>6, <1>7
<1>13. /\ thread' \in [Threads -> Request] /\ thread'[t] = r
       /\ \A u \in Threads \ {t} : thread'[u] = thread[u]
  BY <1>3, <1>10 DEF AInv, Tables
<1>14. \A l \in Logins : ~ Exchanging(t, l)'
  BY <1>12, <1>13 DEF Exchanging
<1>15. Sound(t)'
  <2>1. r.since <= now'
    BY <1>2, <1>4, <1>9
  <2>2. r.at \in {"consume", "exchange", "create"} => r.cred \in begun'
    BY <1>5, <1>6, <1>7
  <2>3. r.at \in {"authenticate", "refresh", "again"} /\ r.void => Withdrawn(r)'
    BY <1>2, <1>4, <1>5, <1>11 DEF Withdrawn
  <2>4. r.at \in {"authenticate", "refresh", "again", "roles", "record", "act"} =>
          /\ r.kind \in {"session", "bearer", "key", "token", "apitoken"}
          /\ r.kind = "session" => r.cred \in Tokens /\ issued'[r.cred] # None
          /\ r.kind = "key" => r.cred \in OperatorKeys /\ operator'[r.cred] # "absent"
          /\ r.kind = "bearer" => r.cred \in SigningKeys
          /\ r.kind \in {"key", "token", "apitoken"} => r.who = None
          /\ r.kind = "apitoken" => r.roles = {}
    BY <1>5, <1>6, <1>7
  <2>5. r.at \notin {"create", "roles", "record", "act"}
    BY <1>12
  <2> HIDE DEF r
  <2> QED
    BY <1>13, <2>1, <2>2, <2>3, <2>4, <2>5 DEF Sound
<1> QED
  BY <1>4, <1>13, <1>14, <1>15, ThreadStep

(* The steps that set three fields of a request. *)
Move(t, at, who, since) ==
  thread' = [thread EXCEPT ![t].at = at, ![t].who = who, ![t].since = since]

(* Where a thread is after Proceed, or another step that sets three fields. *)
LEMMA Moves ==
  ASSUME AInv, NEW t \in Threads, NEW at \in Steps,
         NEW who \in Subjects \cup {None}, NEW since \in Nat,
         Move(t, at, who, since)
  PROVE  /\ thread' \in [Threads -> Request]
         /\ \A u \in Threads \ {t} : thread'[u] = thread[u]
         /\ thread'[t].at = at /\ thread'[t].who = who
         /\ thread'[t].since = since /\ thread'[t].kind = thread[t].kind
         /\ thread'[t].cred = thread[t].cred /\ thread'[t].route = thread[t].route
         /\ thread'[t].void = thread[t].void /\ thread'[t].roles = thread[t].roles
<1>1. thread \in [Threads -> Request]
  BY DEF AInv, Tables
<1>2. thread'[t] = [thread[t] EXCEPT !.at = at, !.who = who, !.since = since]
  BY <1>1 DEF Move
<1>3. \A u \in Threads \ {t} : thread'[u] = thread[u]
  BY <1>1 DEF Move
<1>4. thread[t] \in Request
  BY <1>1
<1>5. /\ thread'[t].at = at /\ thread'[t].who = who
      /\ thread'[t].since = since /\ thread'[t].kind = thread[t].kind
      /\ thread'[t].cred = thread[t].cred /\ thread'[t].route = thread[t].route
      /\ thread'[t].void = thread[t].void /\ thread'[t].roles = thread[t].roles
  <2> DEFINE r == thread[t]
             e == [r EXCEPT !.at = at, !.who = who, !.since = since]
  <2>1. e.at = at
    BY <1>4 DEF Request
  <2>2. e.who = who
    BY <1>4 DEF Request
  <2>3. e.since = since
    BY <1>4 DEF Request
  <2>4. e.kind = r.kind /\ e.cred = r.cred
    BY <1>4 DEF Request
  <2>5. e.route = r.route /\ e.void = r.void /\ e.roles = r.roles
    BY <1>4 DEF Request
  <2> QED
    BY <1>2, <2>1, <2>2, <2>3, <2>4, <2>5
<1>6. thread'[t] \in Request
  <2>1. \A r \in Request : [r EXCEPT !.at = at] \in Request
    BY DEF Request
  <2>2. \A r \in Request : [r EXCEPT !.who = who] \in Request
    BY DEF Request
  <2>3. \A r \in Request : [r EXCEPT !.since = since] \in Request
    BY DEF Request
  <2>4. [[[thread[t] EXCEPT !.at = at] EXCEPT !.who = who] EXCEPT !.since = since]
          \in Request
    BY <1>4, <2>1, <2>2, <2>3
  <2> QED
    BY <1>2, <2>4
<1>7. thread' \in [Threads -> Request]
  BY <1>1, <1>3, <1>6 DEF Move
<1> QED
  BY <1>3, <1>5, <1>7

(* The steps that set the roles of a request, or leave them. *)
MoveWithRoles(t, at, roles, since) ==
  \/ thread' = [thread EXCEPT ![t].at = at, ![t].roles = roles]
       /\ since = thread[t].since
  \/ thread' = [thread EXCEPT ![t].at = at, ![t].roles = roles, ![t].since = since]
  \/ thread' = [thread EXCEPT ![t].at = at, ![t].since = since]
       /\ roles = thread[t].roles

(* Where a thread is after one of them. *)
LEMMA MovesWithRoles ==
  ASSUME AInv, NEW t \in Threads, NEW at \in Steps,
         NEW roles \in SUBSET Roles, NEW since \in Nat,
         MoveWithRoles(t, at, roles, since)
  PROVE  /\ thread' \in [Threads -> Request]
         /\ \A u \in Threads \ {t} : thread'[u] = thread[u]
         /\ thread'[t].at = at /\ thread'[t].who = thread[t].who
         /\ thread'[t].since = since /\ thread'[t].kind = thread[t].kind
         /\ thread'[t].cred = thread[t].cred /\ thread'[t].route = thread[t].route
         /\ thread'[t].void = thread[t].void /\ thread'[t].roles = roles
<1> DEFINE r == thread[t]
<1>1. thread \in [Threads -> Request] /\ r \in Request
  BY DEF AInv, Tables
<1>2. \/ thread'[t] = [r EXCEPT !.at = at, !.roles = roles] /\ since = r.since
      \/ thread'[t] = [r EXCEPT !.at = at, !.roles = roles, !.since = since]
      \/ thread'[t] = [r EXCEPT !.at = at, !.since = since] /\ roles = r.roles
  BY <1>1 DEF MoveWithRoles
<1>3. \A u \in Threads \ {t} : thread'[u] = thread[u]
  BY <1>1 DEF MoveWithRoles
<1> HIDE DEF r
<1>4. CASE thread'[t] = [r EXCEPT !.at = at, !.roles = roles] /\ since = r.since
  <2>1. thread'[t].at = at /\ thread'[t].roles = roles /\ thread'[t].who = r.who
    BY <1>1, <1>4 DEF Request
  <2>2. thread'[t].kind = r.kind /\ thread'[t].cred = r.cred /\ thread'[t].route = r.route
    BY <1>1, <1>4 DEF Request
  <2>3. thread'[t].since = r.since /\ thread'[t].void = r.void /\ thread'[t] \in Request
    BY <1>1, <1>4 DEF Request
  <2>4. thread' \in [Threads -> Request]
    BY <1>1, <1>3, <2>3 DEF MoveWithRoles
  <2> QED
    BY <1>3, <1>4, <2>1, <2>2, <2>3, <2>4 DEF r
<1>5. CASE thread'[t] = [r EXCEPT !.at = at, !.roles = roles, !.since = since]
  <2>1. thread'[t].at = at /\ thread'[t].roles = roles /\ thread'[t].who = r.who
    BY <1>1, <1>5 DEF Request
  <2>2. thread'[t].kind = r.kind /\ thread'[t].cred = r.cred /\ thread'[t].route = r.route
    BY <1>1, <1>5 DEF Request
  <2>3. thread'[t].since = since /\ thread'[t].void = r.void /\ thread'[t] \in Request
    BY <1>1, <1>5 DEF Request
  <2>4. thread' \in [Threads -> Request]
    BY <1>1, <1>3, <2>3 DEF MoveWithRoles
  <2> QED
    BY <1>3, <1>5, <2>1, <2>2, <2>3, <2>4 DEF r
<1>6. CASE thread'[t] = [r EXCEPT !.at = at, !.since = since] /\ roles = r.roles
  <2>1. thread'[t].at = at /\ thread'[t].roles = r.roles /\ thread'[t].who = r.who
    BY <1>1, <1>6 DEF Request
  <2>2. thread'[t].kind = r.kind /\ thread'[t].cred = r.cred /\ thread'[t].route = r.route
    BY <1>1, <1>6 DEF Request
  <2>3. thread'[t].since = since /\ thread'[t].void = r.void /\ thread'[t] \in Request
    BY <1>1, <1>6 DEF Request
  <2>4. thread' \in [Threads -> Request]
    BY <1>1, <1>3, <2>3 DEF MoveWithRoles
  <2> QED
    BY <1>3, <1>6, <2>1, <2>2, <2>3, <2>4 DEF r
<1> QED
  BY <1>2, <1>4, <1>5, <1>6

(* Whatever ends a request without changing the stores. *)
LEMMA EndStep ==
  ASSUME AInv, NEW t \in Threads, Become(t, "idle"),
         UNCHANGED <<deployment, keeps, now, stores, published, history>>
  PROVE  AInv'
<1>1. /\ thread' \in [Threads -> Request] /\ thread'[t] = Idle
      /\ \A u \in Threads \ {t} : thread'[u] = thread[u]
      /\ \A l : ~ Exchanging(t, l)'
  BY Becomes
<1>2. now' \in Nat
  BY DEF AInv, Tables
<1>3. Sound(t)'
  BY <1>1, <1>2, IdleSound
<1> QED
  BY <1>1, <1>3, ThreadStep

(* The exchange yields an identity, or ends the request; the login state   *)
(* stays with the thread.                                                  *)
LEMMA ExchangeStep ==
  ASSUME AInv, NEW t \in Threads, NEW who \in Subjects, exchange_code(t, who)
  PROVE  AInv'
<1>1. /\ thread[t].at = "exchange"
      /\ UNCHANGED <<deployment, keeps, now, stores, published, history>>
  BY DEF exchange_code
<1>2. CASE Become(t, "idle")
  BY <1>1, <1>2, EndStep
<1>3. CASE thread' = [thread EXCEPT ![t].at = "create", ![t].who = who,
                                    ![t].since = now]
  <2>1. "create" \in Steps /\ now \in Nat /\ who \in Subjects \cup {None}
    BY DEF Steps, AInv, Tables
  <2> Move(t, "create", who, now)
    BY <1>3 DEF Move
  <2>2. /\ thread' \in [Threads -> Request]
        /\ \A u \in Threads \ {t} : thread'[u] = thread[u]
        /\ thread'[t].at = "create" /\ thread'[t].since = now
        /\ thread'[t].cred = thread[t].cred /\ thread'[t].who = who
    BY <2>1, Moves
  <2>3. thread[t].cred \in begun /\ begun' = begun /\ who # None
    BY <1>1, SessionsConstants DEF AInv, Sound, history
  <2>4. Sound(t)'
    BY <1>1, <2>1, <2>2, <2>3 DEF Sound
  <2>5. \A l \in Logins : Exchanging(t, l)' => Exchanging(t, l)
    BY <1>1, <2>2 DEF Exchanging
  <2> QED
    BY <1>1, <2>2, <2>4, <2>5, ThreadStep
<1> QED
  BY <1>2, <1>3 DEF exchange_code

-------------------------------------------------------------------------------
(* Authentication *)

(* A browser session that is found live is not withdrawn: it ends with its *)
(* id token at the latest, and logout takes it out.                        *)
LEMMA GetSessionStep ==
  ASSUME AInv, NEW t \in Threads, get_session(t)
  PROVE  AInv'
<1> DEFINE s == thread[t].cred
<1>1. PICK read \in Readings(t) :
        LET live == sessions[s] # None /\ read < sessions[s].exp
        IN  /\ sessions' = IF Local /\ ~live THEN [sessions EXCEPT ![s] = None]
                           ELSE sessions
            /\ IF Local /\ live THEN Proceed(t, "roles", sessions[s].who)
               ELSE Become(t, "idle")
  BY DEF get_session
<1>2. /\ thread[t].at = "authenticate" /\ thread[t].kind = "session"
      /\ UNCHANGED <<deployment, keeps, now, pending, jwks, fetch, assigned, recorded, operator,
                     published, history>>
  BY DEF get_session
<1>3. s \in Tokens /\ issued[s] # None
  BY <1>2 DEF AInv, Sound
<1>4. UNCHANGED <<begun, issued, ended, retired>>
  BY <1>2 DEF history
<1>5. /\ sessions' \in [Tokens -> Session \cup {None}]
      /\ \A x \in Tokens : sessions'[x] \in {sessions[x], None}
  <2>1. sessions \in [Tokens -> Session \cup {None}]
    BY DEF AInv, Tables
  <2>2. sessions' = sessions \/ sessions' = [sessions EXCEPT ![s] = None]
    BY <1>1
  <2> HIDE DEF s
  <2> QED
    BY <2>1, <2>2
<1>6. CacheInv'
  BY <1>2, <1>4 DEF AInv, CacheInv
<1>7. now \in Nat /\ now' \in Nat
  BY <1>2 DEF AInv, Tables
<1>8. /\ pending' \in [Logins -> Nat \cup {None}]
      /\ jwks' \in [keys : SUBSET SigningKeys, expires : Nat] /\ fetch' \in Fetch
  BY <1>2 DEF AInv, Tables
<1>9. CASE Become(t, "idle")
  <2>1. /\ thread' \in [Threads -> Request] /\ thread'[t] = Idle
        /\ \A u \in Threads \ {t} : thread'[u] = thread[u]
        /\ \A l : ~ Exchanging(t, l)'
    BY <1>9, Becomes
  <2>2. Sound(t)'
    BY <1>7, <2>1, IdleSound
  <2> QED
    BY <1>2, <1>5, <1>6, <1>8, <2>1, <2>2, QuietStep
<1>10. CASE /\ sessions[s] # None /\ read < sessions[s].exp
            /\ Proceed(t, "roles", sessions[s].who)
  <2>1. /\ sessions[s] \in Session /\ issued[s] \in Nat
        /\ sessions[s].exp <= issued[s] /\ s \notin ended
    BY <1>3, <1>10 DEF AInv, Tables, SessionInv
  <2>2. sessions[s].who \in Subjects /\ sessions[s].exp \in Nat
    BY <2>1 DEF Session
  <2>3. PICK who \in Subjects : who = sessions[s].who
    BY <2>2
  <2>4. Move(t, "roles", who, 0)
    BY <1>10, <2>3 DEF Proceed, Move
  <2>5. "roles" \in Steps /\ 0 \in Nat /\ who \in Subjects \cup {None}
    BY DEF Steps
  <2>6. /\ thread' \in [Threads -> Request]
        /\ \A u \in Threads \ {t} : thread'[u] = thread[u]
        /\ thread'[t].at = "roles" /\ thread'[t].who = who
        /\ thread'[t].since = 0 /\ thread'[t].kind = "session"
        /\ thread'[t].cred = thread[t].cred
        /\ thread'[t].void = thread[t].void
    BY <1>2, <2>4, <2>5, Moves
  <2>7. thread[t].since \in Nat /\ read \in Nat /\ thread[t].since <= read
    <3>1. thread[t].since \in Nat
      BY DEF AInv, Tables, Request
    <3> QED
      BY <1>7, <3>1 DEF Readings
  <2>8. ~ (issued[s] <= thread[t].since)
    BY <1>10, <2>1, <2>2, <2>7
  <2>9. ~ thread[t].void
    BY <1>2, <2>1, <2>8 DEF AInv, Sound, Withdrawn
  <2>10. who # None
    BY SessionsConstants
  <2>11. Sound(t)'
    BY <1>3, <1>4, <1>7, <2>6, <2>9, <2>10 DEF Sound
  <2>12. \A l \in Logins : ~ Exchanging(t, l)'
    BY <2>6 DEF Exchanging
  <2> QED
    BY <1>2, <1>5, <1>6, <1>8, <2>6, <2>11, <2>12, QuietStep
<1> QED
  BY <1>1, <1>9, <1>10

(* What a validation needs to know of the cache and of the stores. *)
Validated ==
  /\ UNCHANGED <<deployment, keeps, now, pending, sessions, assigned, recorded,
                 operator, published, history>>
  /\ jwks' \in [keys : SUBSET SigningKeys, expires : Nat] /\ fetch' \in Fetch
  /\ CacheInv'

(* A validation that goes on, or refuses the token. *)
LEMMA ValidatingOn ==
  ASSUME AInv, NEW t \in Threads, Validating(t), Validated,
         NEW at \in {"refresh", "again", "idle"}, Become(t, at)
  PROVE  AInv'
<1>1. /\ pending' \in [Logins -> Nat \cup {None}]
      /\ sessions' \in [Tokens -> Session \cup {None}] /\ now \in Nat /\ now' = now
      /\ UNCHANGED <<begun, issued, ended, retired, operator>>
  BY DEF AInv, Tables, Validated, history
<1>2. CASE at = "idle"
  <2>1. /\ thread' \in [Threads -> Request] /\ thread'[t] = Idle
        /\ \A u \in Threads \ {t} : thread'[u] = thread[u]
        /\ \A l : ~ Exchanging(t, l)'
    BY <1>2, Becomes
  <2>2. Sound(t)'
    BY <1>1, <2>1, IdleSound
  <2> QED
    BY <1>1, <2>1, <2>2, QuietStep DEF Validated
<1>3. CASE at # "idle"
  <2>1. PICK r : r = thread[t]
    OBVIOUS
  <2>2. r \in Request /\ thread \in [Threads -> Request] /\ at \in Steps
    BY <2>1 DEF AInv, Tables, Steps
  <2>3. thread' = [thread EXCEPT ![t] = [r EXCEPT !.at = at]]
    BY <1>3, <2>1 DEF Become
  <2>4. [r EXCEPT !.at = at] \in Request
    BY <2>2 DEF Request
  <2>5. /\ thread' \in [Threads -> Request] /\ thread'[t] = [r EXCEPT !.at = at]
        /\ \A u \in Threads \ {t} : thread'[u] = thread[u]
    BY <2>2, <2>3, <2>4
  <2>6. PICK n : n = thread'[t]
    OBVIOUS
  <2>7. /\ n.at = at /\ n.kind = r.kind /\ n.cred = r.cred /\ n.who = r.who
        /\ n.roles = r.roles /\ n.since = r.since /\ n.void = r.void
    BY <2>2, <2>5, <2>6 DEF Request
  <2>8. /\ r.since <= now /\ r.kind = "bearer" /\ r.cred \in SigningKeys
        /\ r.void => Withdrawn(r)
    BY <2>1 DEF AInv, Sound, Validating
  <2>9. n.void => Withdrawn(n)'
    BY <1>1, <2>7, <2>8 DEF Withdrawn
  <2>10. Sound(t)'
    BY <1>1, <1>3, <2>6, <2>7, <2>8, <2>9 DEF Sound
  <2>11. \A l \in Logins : ~ Exchanging(t, l)'
    BY <1>3, <2>6, <2>7 DEF Exchanging
  <2> QED
    BY <1>1, <2>5, <2>10, <2>11, QuietStep DEF Validated
<1> QED
  BY <1>2, <1>3

(* A token that verifies with keys that are not withdrawn is not, either. *)
LEMMA LookStep ==
  ASSUME AInv, NEW t \in Threads, NEW who \in Subjects, NEW keys,
         Validating(t), Validated, Look(t, keys, who),
         \A k \in keys \cap SigningKeys :
           ~ (retired[k] # None /\ retired[k] + FetchTime + CacheTTL <= now)
  PROVE  AInv'
<1>1. CASE thread[t].cred \notin keys
  <2>1. PICK at \in {"refresh", "again", "idle"} : Become(t, at)
    BY <1>1 DEF Look
  <2> QED
    BY <2>1, ValidatingOn
<1>2. CASE thread[t].cred \in keys /\ Proceed(t, "roles", who)
  <2>1. thread[t].kind = "bearer" /\ thread[t].cred \in SigningKeys
    BY DEF AInv, Sound, Validating
  <2>2. Move(t, "roles", who, 0)
    BY <1>2 DEF Proceed, Move
  <2>3. "roles" \in Steps /\ 0 \in Nat /\ who \in Subjects \cup {None}
    BY DEF Steps
  <2>4. /\ thread' \in [Threads -> Request]
        /\ \A u \in Threads \ {t} : thread'[u] = thread[u]
        /\ thread'[t].at = "roles" /\ thread'[t].who = who
        /\ thread'[t].since = 0 /\ thread'[t].kind = "bearer"
        /\ thread'[t].cred = thread[t].cred
        /\ thread'[t].void = thread[t].void
    BY <2>1, <2>2, <2>3, Moves
  <2>5. ~ thread[t].void
    BY <1>2, <2>1 DEF AInv, Sound, Withdrawn, Validating
  <2>6. who # None
    BY SessionsConstants
  <2>7. /\ pending' \in [Logins -> Nat \cup {None}] /\ now' \in Nat
        /\ sessions' \in [Tokens -> Session \cup {None}]
    BY DEF AInv, Tables, Validated
  <2>8. Sound(t)'
    BY <2>1, <2>4, <2>5, <2>6, <2>7 DEF Sound
  <2>9. \A l \in Logins : ~ Exchanging(t, l)'
    BY <2>4 DEF Exchanging
  <2> QED
    BY <2>4, <2>7, <2>8, <2>9, QuietStep DEF Validated
<1> QED
  BY <1>1, <1>2 DEF Look

(* The answer has what is published when the provider gives it. *)
LEMMA AskStep ==
  ASSUME AInv, NEW t \in Threads, Ask(t)
  PROVE  AInv'
<1>1. /\ fetch' = [by |-> t, keys |-> published, since |-> now]
      /\ UNCHANGED <<deployment, keeps, now, pending, sessions, jwks, assigned, recorded,
                     operator, published, thread, history>>
  BY DEF Ask
<1>2. now \in Nat /\ published \subseteq SigningKeys
  BY DEF AInv, Tables
<1>3. /\ fetch' \in Fetch /\ fetch'.keys = published /\ fetch'.since = now
  BY <1>1, <1>2 DEF Fetch
<1>4. /\ pending' \in [Logins -> Nat \cup {None}]
      /\ sessions' \in [Tokens -> Session \cup {None}]
      /\ jwks' \in [keys : SUBSET SigningKeys, expires : Nat]
      /\ thread' \in [Threads -> Request]
  BY <1>1 DEF AInv, Tables
<1>5. CacheInv'
  BY <1>1, <1>2, <1>3 DEF AInv, CacheInv, history
<1>6. \A l \in Logins : Exchanging(t, l)' => Exchanging(t, l)
  BY <1>1 DEF Exchanging
<1> QED
  BY <1>1, <1>3, <1>4, <1>5, <1>6, QuietStep

(* Nobody asks. *)
LEMMA NoFetchIsFetch ==
  NoFetch \in Fetch /\ NoFetch.keys = {} /\ NoFetch.since = 0
BY DEF NoFetch, Fetch

(* An answer is read before a key that left the published set since it was *)
(* given can count as withdrawn, and it is cached from then on.            *)
LEMMA RefreshStep ==
  ASSUME AInv, NEW t \in Threads, NEW who \in Subjects, _refresh_locked(t, who)
  PROVE  AInv'
<1>1. /\ Validating(t) /\ now <= fetch.since + FetchTime
      /\ jwks' = Fetched /\ fetch' = NoFetch
      /\ Become(t, "again") \/ Look(t, fetch.keys, who)
      /\ UNCHANGED <<deployment, keeps, now, pending, sessions, assigned, recorded,
                     operator, published, history>>
  BY DEF _refresh_locked
<1>2. /\ now \in Nat /\ CacheTTL \in Nat \ {0} /\ FetchTime \in Nat
      /\ fetch.since \in Nat /\ fetch.keys \subseteq SigningKeys
      /\ retired \in [SigningKeys -> Nat \cup {None}]
  BY SessionsConstants DEF AInv, Tables, Fetch
<1>3. /\ jwks' \in [keys : SUBSET SigningKeys, expires : Nat]
      /\ jwks'.keys = fetch.keys /\ jwks'.expires = now + CacheTTL
  BY <1>1, <1>2 DEF Fetched
<1>4. /\ fetch' \in Fetch /\ fetch'.keys = {} /\ fetch'.since = 0
  BY <1>1, NoFetchIsFetch
<1>5. \A k \in SigningKeys :
        /\ k \in published => retired[k] = None
        /\ k \in fetch.keys /\ k \notin published =>
             retired[k] # None /\ fetch.since <= retired[k]
  BY DEF AInv, CacheInv
<1>6. \A k \in SigningKeys : k \in fetch.keys /\ k \notin published =>
        now + CacheTTL <= retired[k] + FetchTime + CacheTTL
  BY <1>1, <1>2, <1>5
<1>7. CacheInv'
  BY <1>1, <1>2, <1>3, <1>4, <1>5, <1>6 DEF CacheInv, history
<1>8. Validated
  BY <1>1, <1>3, <1>4, <1>7 DEF Validated
<1>9. \A k \in fetch.keys \cap SigningKeys :
        ~ (retired[k] # None /\ retired[k] + FetchTime + CacheTTL <= now)
  BY <1>1, <1>2, <1>5
<1>10. CASE Become(t, "again")
  BY <1>1, <1>8, <1>10, ValidatingOn
<1>11. CASE Look(t, fetch.keys, who)
  BY <1>1, <1>8, <1>9, <1>11, LookStep
<1> QED
  BY <1>1, <1>10, <1>11

(* A copy that is not stale has no key that was withdrawn. *)
LEMMA GetJwksStep ==
  ASSUME AInv, NEW t \in Threads, NEW who \in Subjects, get_jwks(t, who)
  PROVE  AInv'
<1>1. /\ Validating(t) /\ ~ Stale /\ Look(t, jwks.keys, who)
      /\ UNCHANGED <<deployment, keeps, now, stores, published, history>>
  BY DEF get_jwks
<1>2. /\ now \in Nat /\ CacheTTL \in Nat /\ FetchTime \in Nat
      /\ jwks.expires \in Nat /\ retired \in [SigningKeys -> Nat \cup {None}]
      /\ now < jwks.expires
  BY <1>1, SessionsConstants DEF AInv, Tables, Stale
<1>3. Validated
  BY <1>1 DEF Validated, AInv, Tables, CacheInv, stores, history
<1>4. ASSUME NEW k \in jwks.keys \cap SigningKeys, retired[k] # None
      PROVE  ~ (retired[k] + FetchTime + CacheTTL <= now)
  <2>1. retired[k] \in Nat /\ jwks.expires <= retired[k] + FetchTime + CacheTTL
    BY <1>2, <1>4 DEF AInv, CacheInv
  <2> QED
    BY <1>2, <2>1
<1> QED
  BY <1>1, <1>3, <1>4, LookStep

(* A refused token ends the request and gives up the lock. *)
LEMMA InvalidStep ==
  ASSUME AInv, NEW t \in Threads, Invalid(t)
  PROVE  AInv'
<1>1. /\ Validating(t) /\ Become(t, "idle") /\ fetch' \in {fetch, NoFetch}
      /\ UNCHANGED <<deployment, keeps, now, pending, sessions, jwks, assigned, recorded,
                     operator, published, history>>
  BY DEF Invalid
<1>2. fetch' \in Fetch /\ jwks' \in [keys : SUBSET SigningKeys, expires : Nat]
  BY <1>1, NoFetchIsFetch DEF AInv, Tables
<1>3. CacheInv'
  <2>1. now \in Nat /\ retired' = retired
    BY <1>1 DEF AInv, Tables, history
  <2>2. CASE fetch' = fetch
    BY <1>1, <2>1, <2>2 DEF AInv, CacheInv
  <2>3. CASE fetch' = NoFetch
    BY <1>1, <2>1, <2>3, NoFetchIsFetch DEF AInv, CacheInv
  <2> QED
    BY <1>1, <2>2, <2>3
<1>4. Validated
  BY <1>1, <1>2, <1>3 DEF Validated
<1> QED
  BY <1>1, <1>4, ValidatingOn

(* An active operator key is not a revoked one. *)
LEMMA AuthenticateStep ==
  ASSUME AInv, NEW t \in Threads, authenticate(t)
  PROVE  AInv'
<1>1. /\ thread[t].at = "authenticate" /\ thread[t].kind = "key"
      /\ UNCHANGED <<deployment, keeps, now, stores, published, history>>
  BY DEF authenticate
<1>2. CASE Become(t, "idle")
  BY <1>1, <1>2, EndStep
<1>3. CASE /\ operator[thread[t].cred] = "active" /\ thread[t].route # "work"
           /\ thread' = [thread EXCEPT ![t].at = "record", ![t].roles = {"operator"},
                                       ![t].since = 0]
  <2>1. "record" \in Steps /\ {"operator"} \in SUBSET Roles /\ 0 \in Nat
    BY DEF Steps, Roles
  <2>2. MoveWithRoles(t, "record", {"operator"}, 0)
    BY <1>3 DEF MoveWithRoles
  <2>3. /\ thread' \in [Threads -> Request]
        /\ \A u \in Threads \ {t} : thread'[u] = thread[u]
        /\ thread'[t].at = "record" /\ thread'[t].who = thread[t].who
        /\ thread'[t].since = 0 /\ thread'[t].kind = "key"
        /\ thread'[t].cred = thread[t].cred /\ thread'[t].void = thread[t].void
        /\ thread'[t].route = thread[t].route
    BY <1>1, <2>1, <2>2, MovesWithRoles
  <2>4. /\ thread[t].cred \in OperatorKeys /\ operator[thread[t].cred] # "absent"
        /\ thread[t].who = None /\ ~ thread[t].void
    BY <1>1, <1>3 DEF AInv, Sound, Withdrawn
  <2>5. operator' = operator /\ now' \in Nat
    BY <1>1 DEF stores, AInv, Tables
  <2>6. Sound(t)'
    BY <1>3, <2>3, <2>4, <2>5 DEF Sound
  <2>7. \A l \in Logins : ~ Exchanging(t, l)'
    BY <2>3 DEF Exchanging
  <2> QED
    BY <1>1, <2>3, <2>6, <2>7, ThreadStep
<1> QED
  BY <1>2, <1>3 DEF authenticate

(* A shared token has no identity and is never withdrawn. *)
LEMMA SharedTokenStep ==
  ASSUME AInv, NEW t \in Threads, SharedToken(t)
  PROVE  AInv'
<1>1. /\ thread[t].at = "authenticate" /\ thread[t].kind \in {"token", "apitoken"}
      /\ thread' = [thread EXCEPT ![t].at = "record", ![t].since = 0]
      /\ UNCHANGED <<deployment, keeps, now, stores, published, history>>
  BY DEF SharedToken
<1>2. PICK roles \in SUBSET Roles : roles = thread[t].roles
  BY DEF AInv, Tables, Request
<1>3. "record" \in Steps /\ 0 \in Nat
  BY DEF Steps
<1>4. MoveWithRoles(t, "record", roles, 0)
  BY <1>1, <1>2 DEF MoveWithRoles
<1>5. /\ thread' \in [Threads -> Request]
      /\ \A u \in Threads \ {t} : thread'[u] = thread[u]
      /\ thread'[t].at = "record" /\ thread'[t].who = thread[t].who
      /\ thread'[t].since = 0 /\ thread'[t].kind = thread[t].kind
      /\ thread'[t].cred = thread[t].cred /\ thread'[t].void = thread[t].void
      /\ thread'[t].roles = thread[t].roles
  BY <1>1, <1>3, <1>4, MovesWithRoles
<1>6. /\ thread[t].who = None /\ ~ thread[t].void
      /\ thread[t].kind = "apitoken" => thread[t].roles = {}
  BY <1>1 DEF AInv, Sound, Withdrawn
<1>7. now' \in Nat
  BY <1>1 DEF AInv, Tables
<1>8. Sound(t)'
  BY <1>1, <1>5, <1>6, <1>7 DEF Sound
<1>9. \A l \in Logins : ~ Exchanging(t, l)'
  BY <1>5 DEF Exchanging
<1> QED
  BY <1>1, <1>5, <1>8, <1>9, ThreadStep

(* The roles are those of the identity itself. *)
LEMMA RolesForStep ==
  ASSUME AInv, NEW t \in Threads, roles_for(t)
  PROVE  AInv'
<1>1. /\ thread[t].at = "roles"
      /\ thread' = [thread EXCEPT ![t].at = "record",
                      ![t].roles = EnrichedRoles(thread[t].who)]
      /\ UNCHANGED <<deployment, keeps, now, stores, published, history>>
  BY DEF roles_for
<1>2. /\ thread[t].kind \in {"session", "bearer", "key", "token", "apitoken"}
      /\ thread[t].kind = "session" => thread[t].cred \in Tokens /\ issued[thread[t].cred] # None
      /\ thread[t].kind = "key" => /\ thread[t].cred \in OperatorKeys
                                   /\ operator[thread[t].cred] # "absent"
      /\ thread[t].kind = "bearer" => thread[t].cred \in SigningKeys
      /\ thread[t].kind \in {"key", "token", "apitoken"} => thread[t].who = None
      /\ ~ thread[t].void
      /\ thread[t].kind \in {"session", "bearer"} => thread[t].who # None
      /\ thread[t].who # None
      /\ thread[t].since <= now
  BY <1>1 DEF AInv, Sound
<1>3. PICK who \in Subjects : who = thread[t].who
  BY <1>2 DEF AInv, Tables, Request
<1>4. PICK roles, since : roles = EnrichedRoles(who) /\ since = thread[t].since
  OBVIOUS
<1>5. /\ roles \in SUBSET Roles /\ since \in Nat
      /\ roles \subseteq Claims[who] \cup assigned[who]
      /\ ~ keeps => roles \subseteq Claims[who]
  <2>1. Claims[who] \subseteq Roles
    BY SessionsConstants
  <2>2. assigned[who] \subseteq Roles /\ since \in Nat
    BY <1>4 DEF AInv, Tables, Request
  <2> QED
    BY <1>4, <2>1, <2>2 DEF EnrichedRoles
<1>6. "record" \in Steps
  BY DEF Steps
<1>7. MoveWithRoles(t, "record", roles, since)
  BY <1>1, <1>3, <1>4 DEF MoveWithRoles
<1>8. /\ thread' \in [Threads -> Request]
      /\ \A u \in Threads \ {t} : thread'[u] = thread[u]
      /\ thread'[t].at = "record" /\ thread'[t].who = who
      /\ thread'[t].since = since /\ thread'[t].kind = thread[t].kind
      /\ thread'[t].cred = thread[t].cred /\ thread'[t].void = thread[t].void
      /\ thread'[t].roles = roles
  BY <1>3, <1>5, <1>6, <1>7, MovesWithRoles
<1>9. UNCHANGED <<keeps, issued, operator, assigned, now>>
  BY <1>1 DEF stores, history
<1>10. Sound(t)'
  BY <1>2, <1>3, <1>4, <1>5, <1>8, <1>9 DEF Sound
<1>11. \A l \in Logins : ~ Exchanging(t, l)'
  BY <1>8 DEF Exchanging
<1> QED
  BY <1>1, <1>8, <1>10, <1>11, ThreadStep

(* Threads that do not move need no look where nothing is taken back.      *)
LEMMA OtherThreads ==
  ASSUME AInv, Tables', Mono,
         \A u \in Threads : thread'[u] = thread[u] \/ Sound(u)',
         LoginInv', SessionInv', CacheInv', RolesInv', AssignmentsGrounded',
         WorkAttributed'
  PROVE  AInv'
<1>1. \A u \in Threads : Sound(u)'
  BY SoundKept
<1> QED
  BY <1>1 DEF AInv

(* Pruning only forgets. *)
LEMMA Pruned ==
  ASSUME AInv, NEW read
  PROVE  /\ PrunedPending(read) \in [Logins -> Nat \cup {None}]
         /\ \A l \in Logins : PrunedPending(read)[l] \in {pending[l], None}
         /\ PrunedSessions(read) \in [Tokens -> Session \cup {None}]
         /\ \A s \in Tokens : PrunedSessions(read)[s] \in {sessions[s], None}
<1>1. /\ pending \in [Logins -> Nat \cup {None}]
      /\ sessions \in [Tokens -> Session \cup {None}]
  BY DEF AInv, Tables
<1>2. \A l \in Logins : PrunedPending(read)[l] \in {pending[l], None}
  BY DEF PrunedPending
<1>3. \A s \in Tokens : PrunedSessions(read)[s] \in {sessions[s], None}
  BY DEF PrunedSessions
<1>4. PrunedPending(read) \in [Logins -> Nat \cup {None}]
  BY <1>1, <1>2 DEF PrunedPending
<1>5. PrunedSessions(read) \in [Tokens -> Session \cup {None}]
  BY <1>1, <1>3 DEF PrunedSessions
<1> QED
  BY <1>2, <1>3, <1>4, <1>5

(* The state handed out is a fresh one: no thread has it. *)
LEMMA BeginStep ==
  ASSUME AInv, NEW t \in Threads, begin_login(t)
  PROVE  AInv'
<1>1. PICK read \in Readings(t) :
        /\ sessions' = PrunedSessions(read)
        /\ \/ pending' = PrunedPending(read) /\ UNCHANGED begun
           \/ \E l \in Logins \ begun :
                /\ pending' = [PrunedPending(read) EXCEPT ![l] = read + StateTTL]
                /\ begun' = begun \cup {l}
  BY DEF begin_login
<1>2. /\ Become(t, "idle")
      /\ UNCHANGED <<deployment, keeps, now, jwks, fetch, assigned, recorded, operator, published,
                     opened, issued, ended, retired, grants, served>>
  BY DEF begin_login
<1>3. /\ thread' \in [Threads -> Request] /\ thread'[t] = Idle
      /\ \A u \in Threads \ {t} : thread'[u] = thread[u]
      /\ \A l : ~ Exchanging(t, l)'
  BY <1>2, Becomes
<1>4. /\ PrunedPending(read) \in [Logins -> Nat \cup {None}]
      /\ \A l \in Logins : PrunedPending(read)[l] \in {pending[l], None}
      /\ PrunedSessions(read) \in [Tokens -> Session \cup {None}]
      /\ \A s \in Tokens : PrunedSessions(read)[s] \in {sessions[s], None}
  BY Pruned
<1>5. read \in Nat /\ now \in Nat /\ StateTTL \in Nat
  <2>1. thread[t].since \in Nat /\ now \in Nat
    BY DEF AInv, Tables, Request
  <2>2. StateTTL \in Nat
    BY SessionsConstants
  <2> QED
    BY <1>1, <2>1, <2>2 DEF Readings
<1>6. /\ pending' \in [Logins -> Nat \cup {None}]
      /\ begun \subseteq begun' /\ begun' \subseteq Logins
      /\ \A l \in Logins : \/ pending'[l] \in {pending[l], None}
                           \/ l \notin begun /\ l \in begun'
      /\ \A l \in Logins : l \notin begun' => l \notin begun /\ pending'[l] \in {pending[l], None}
  <2>0. begun \subseteq Logins
    BY DEF AInv, Tables
  <2> PICK p : p = PrunedPending(read)
    OBVIOUS
  <2>3. p \in [Logins -> Nat \cup {None}] /\ \A l \in Logins : p[l] \in {pending[l], None}
    BY <1>4
  <2>1. CASE pending' = PrunedPending(read) /\ UNCHANGED begun
    <3>1. pending' = p /\ begun' = begun
      BY <2>1
    <3> QED
      BY <2>0, <2>3, <3>1
  <2>2. CASE \E l \in Logins \ begun :
                /\ pending' = [PrunedPending(read) EXCEPT ![l] = read + StateTTL]
                /\ begun' = begun \cup {l}
    <3>1. PICK l \in Logins \ begun :
                /\ pending' = [PrunedPending(read) EXCEPT ![l] = read + StateTTL]
                /\ begun' = begun \cup {l}
      BY <2>2
    <3>2. read + StateTTL \in Nat
      BY <1>5
    <3>3. pending' = [p EXCEPT ![l] = read + StateTTL] /\ begun' = begun \cup {l}
      BY <3>1
    <3>4. pending' \in [Logins -> Nat \cup {None}]
      BY <2>3, <3>2, <3>3
    <3>5. \A m \in Logins \ {l} : pending'[m] \in {pending[m], None}
      BY <2>3, <3>3
    <3>6. l \notin begun /\ l \in Logins
      OBVIOUS
    <3> QED
      BY <2>0, <3>3, <3>4, <3>5, <3>6
  <2> QED
    BY <1>1, <2>1, <2>2
<1>7. Tables'
  BY <1>1, <1>2, <1>3, <1>4, <1>6 DEF AInv, Tables
<1>8. Mono
  BY <1>2, <1>5, <1>6 DEF Mono
<1>9. LoginInv'
  <2>1. \A u \in Threads, l \in Logins :
          Exchanging(u, l)' => Exchanging(u, l) /\ l \in begun
    <3>1. \A u \in Threads, l \in Logins : Exchanging(u, l) => l \in begun
      BY DEF AInv, Sound, Exchanging
    <3> QED
      BY <1>3, <3>1 DEF Exchanging
  <2> SUFFICES ASSUME NEW l \in Logins
               PROVE  /\ opened'[l] <= 1
                      /\ l \notin begun' => pending'[l] = None /\ opened'[l] = 0
                      /\ pending'[l] # None => opened'[l] = 0
                      /\ \A u \in Threads : Exchanging(u, l)' =>
                           /\ pending'[l] = None /\ opened'[l] = 0
                           /\ \A v \in Threads \ {u} : ~ Exchanging(v, l)'
    BY DEF LoginInv
  <2>2. /\ opened[l] <= 1
        /\ l \notin begun => pending[l] = None /\ opened[l] = 0
        /\ pending[l] # None => opened[l] = 0
        /\ \A u \in Threads : Exchanging(u, l) =>
             /\ pending[l] = None /\ opened[l] = 0
             /\ \A v \in Threads \ {u} : ~ Exchanging(v, l)
    BY DEF AInv, LoginInv
  <2> QED
    BY <1>2, <1>6, <2>1, <2>2
<1>10. SessionInv'
  BY <1>1, <1>2, <1>4, SessionKept
<1>11. CacheInv' /\ RolesInv' /\ AssignmentsGrounded'
  BY <1>2 DEF AInv, CacheInv, RolesInv, AssignmentsGrounded
<1>12. WorkAttributed'
  BY <1>2, <1>8, <1>11, WorkKept
<1>13. \A u \in Threads : thread'[u] = thread[u] \/ Sound(u)'
  BY <1>2, <1>3, <1>5, IdleSound
<1> QED
  BY <1>7, <1>8, <1>9, <1>10, <1>11, <1>12, <1>13, OtherThreads

(* A state that is found is taken before the code is exchanged, so no      *)
(* other thread has it or gets it.                                         *)
LEMMA ConsumeStep ==
  ASSUME AInv, NEW t \in Threads, consume_login(t)
  PROVE  AInv'
<1>1. PICK l : l = thread[t].cred
  OBVIOUS
<1>2. PICK read \in Readings(t) :
        /\ pending' = Consumed(l, read)
        /\ sessions' = PrunedSessions(read)
        /\ \/ Become(t, "idle")
           \/ /\ Found(l, read)
              /\ thread' = [thread EXCEPT ![t].at = "exchange", ![t].since = 0]
  BY <1>1 DEF consume_login
<1>3. /\ thread[t].at = "consume"
      /\ UNCHANGED <<deployment, keeps, now, jwks, fetch, assigned, recorded, operator, published,
                     history>>
  BY DEF consume_login
<1>4. UNCHANGED <<begun, opened, issued, ended, retired, grants, served>>
  BY <1>3 DEF history
<1>5. l \in begun /\ begun \subseteq Logins /\ now \in Nat
  BY <1>1, <1>3 DEF AInv, Sound, Tables
<1>6. /\ pending' \in [Logins -> Nat \cup {None}]
      /\ \A m \in Logins : pending'[m] \in {pending[m], None}
      /\ Found(l, read) => pending'[l] = None
  <2> PICK p : p = PrunedPending(read)
    OBVIOUS
  <2>1. p \in [Logins -> Nat \cup {None}] /\ \A m \in Logins : p[m] \in {pending[m], None}
    BY Pruned
  <2>2. \/ pending' = [p EXCEPT ![l] = None]
        \/ pending' = pending /\ ~ Found(l, read)
    BY <1>2 DEF Consumed
  <2>3. pending \in [Logins -> Nat \cup {None}]
    BY DEF AInv, Tables
  <2> QED
    BY <1>5, <2>1, <2>2, <2>3
<1>7. /\ sessions' \in [Tokens -> Session \cup {None}]
      /\ \A s \in Tokens : sessions'[s] \in {sessions[s], None}
  BY <1>2, Pruned
<1>8. /\ jwks' \in [keys : SUBSET SigningKeys, expires : Nat] /\ fetch' \in Fetch
      /\ CacheInv' /\ RolesInv' /\ AssignmentsGrounded'
  BY <1>3, <1>4 DEF AInv, Tables, CacheInv, RolesInv, AssignmentsGrounded
<1>9. CASE Become(t, "idle")
  <2>1. /\ thread' \in [Threads -> Request] /\ thread'[t] = Idle
        /\ \A u \in Threads \ {t} : thread'[u] = thread[u]
        /\ \A m : ~ Exchanging(t, m)'
    BY <1>9, Becomes
  <2>2. Sound(t)'
    BY <1>3, <1>5, <2>1, IdleSound
  <2> QED
    BY <1>3, <1>6, <1>7, <1>8, <2>1, <2>2, QuietStep
<1>10. CASE /\ Found(l, read)
            /\ thread' = [thread EXCEPT ![t].at = "exchange", ![t].since = 0]
  <2>1. PICK roles \in SUBSET Roles : roles = thread[t].roles
    BY DEF AInv, Tables, Request
  <2>2. "exchange" \in Steps /\ 0 \in Nat
    BY DEF Steps
  <2>3. MoveWithRoles(t, "exchange", roles, 0)
    BY <1>10, <2>1 DEF MoveWithRoles
  <2>4. /\ thread' \in [Threads -> Request]
        /\ \A u \in Threads \ {t} : thread'[u] = thread[u]
        /\ thread'[t].at = "exchange" /\ thread'[t].since = 0
        /\ thread'[t].cred = l
    BY <1>1, <2>2, <2>3, MovesWithRoles
  <2>5. Sound(t)'
    BY <1>3, <1>4, <1>5, <2>4 DEF Sound
  <2>6. Tables'
    BY <1>3, <1>4, <1>6, <1>7, <1>8, <2>4 DEF AInv, Tables
  <2>7. Mono
    BY <1>3, <1>4, <1>5 DEF Mono
  <2>8. LoginInv'
    <3>1. pending[l] # None
      BY <1>10 DEF Found
    <3>2. opened[l] = 0 /\ \A u \in Threads : ~ Exchanging(u, l)
      BY <1>5, <3>1 DEF AInv, LoginInv
    <3>3. /\ \A u \in Threads \ {t}, m \in Logins : Exchanging(u, m)' => Exchanging(u, m)
          /\ \A m \in Logins : Exchanging(t, m)' => m = l
      BY <2>4 DEF Exchanging
    <3> SUFFICES ASSUME NEW m \in Logins
                 PROVE  /\ opened'[m] <= 1
                        /\ m \notin begun' => pending'[m] = None /\ opened'[m] = 0
                        /\ pending'[m] # None => opened'[m] = 0
                        /\ \A u \in Threads : Exchanging(u, m)' =>
                             /\ pending'[m] = None /\ opened'[m] = 0
                             /\ \A v \in Threads \ {u} : ~ Exchanging(v, m)'
      BY DEF LoginInv
    <3>4. /\ opened[m] <= 1
          /\ m \notin begun => pending[m] = None /\ opened[m] = 0
          /\ pending[m] # None => opened[m] = 0
          /\ \A u \in Threads : Exchanging(u, m) =>
               /\ pending[m] = None /\ opened[m] = 0
               /\ \A v \in Threads \ {u} : ~ Exchanging(v, m)
      BY DEF AInv, LoginInv
    <3>5. CASE m = l
      BY <1>4, <1>6, <1>10, <3>2, <3>3, <3>4, <3>5
    <3>6. CASE m # l
      BY <1>4, <1>6, <3>3, <3>4, <3>6
    <3> QED
      BY <3>5, <3>6
  <2>9. SessionInv'
    BY <1>4, <1>7, SessionKept
  <2>10. WorkAttributed'
    BY <1>4, <1>8, <2>7, WorkKept
  <2>11. \A u \in Threads : thread'[u] = thread[u] \/ Sound(u)'
    BY <2>4, <2>5
  <2> QED
    BY <1>8, <2>6, <2>7, <2>8, <2>9, <2>10, <2>11, OtherThreads
<1> QED
  BY <1>2, <1>9, <1>10

(* The session takes the login state with it, and its id token's expiry    *)
(* bounds it.                                                              *)
LEMMA CreateSessionStep ==
  ASSUME AInv, NEW t \in Threads, NEW exp \in 0..MaxTime, create_session(t, exp)
  PROVE  AInv'
<1>1. PICK read \in Readings(t) :
       \/ UNCHANGED <<pending, sessions, opened, issued>>
       \/ /\ pending' = PrunedPending(read)
          /\ sessions' = PrunedSessions(read)
          /\ UNCHANGED <<opened, issued>>
       \/ /\ pending' = PrunedPending(read)
          /\ \E s \in Tokens :
               /\ issued[s] = None
               /\ sessions' = [PrunedSessions(read) EXCEPT ![s] =
                    [who |-> thread[t].who, exp |-> Lifetime(exp, read)]]
               /\ issued' = [issued EXCEPT ![s] = exp]
               /\ opened' = [opened EXCEPT ![thread[t].cred] = @ + 1]
  BY DEF create_session
<1>2. /\ thread[t].at = "create" /\ Become(t, "idle")
      /\ UNCHANGED <<deployment, keeps, now, jwks, fetch, assigned, recorded, operator, published,
                     begun, ended, retired, grants, served>>
  BY DEF create_session
<1>3. /\ thread' \in [Threads -> Request] /\ thread'[t] = Idle
      /\ \A u \in Threads \ {t} : thread'[u] = thread[u]
      /\ \A m : ~ Exchanging(t, m)'
  BY <1>2, Becomes
<1>4. now \in Nat /\ read \in Nat
  <2>1. now \in Nat /\ thread[t].since \in Nat
    BY DEF AInv, Tables, Request
  <2> QED
    BY <2>1 DEF Readings
<1>5. Sound(t)'
  BY <1>2, <1>3, <1>4, IdleSound
<1>6. PICK p, q : p = PrunedPending(read) /\ q = PrunedSessions(read)
  OBVIOUS
<1>7. /\ p \in [Logins -> Nat \cup {None}]
      /\ \A m \in Logins : p[m] \in {pending[m], None}
      /\ q \in [Tokens -> Session \cup {None}]
      /\ \A s \in Tokens : q[s] \in {sessions[s], None}
  BY <1>6, Pruned
<1>8. /\ pending \in [Logins -> Nat \cup {None}]
      /\ sessions \in [Tokens -> Session \cup {None}]
      /\ jwks' \in [keys : SUBSET SigningKeys, expires : Nat] /\ fetch' \in Fetch
  BY <1>2 DEF AInv, Tables
<1>9. CacheInv' /\ RolesInv' /\ AssignmentsGrounded'
  BY <1>2 DEF AInv, CacheInv, RolesInv, AssignmentsGrounded
<1>10. CASE /\ UNCHANGED <<opened, issued>> /\ pending' \in {pending, p}
            /\ sessions' \in {sessions, q}
  <2>1. UNCHANGED history
    BY <1>2, <1>10 DEF history
  <2> QED
    BY <1>2, <1>3, <1>5, <1>7, <1>8, <1>9, <1>10, <2>1, QuietStep
<1>11. CASE /\ pending' = p
            /\ \E s \in Tokens :
                 /\ issued[s] = None
                 /\ sessions' = [q EXCEPT ![s] =
                      [who |-> thread[t].who, exp |-> Lifetime(exp, read)]]
                 /\ issued' = [issued EXCEPT ![s] = exp]
                 /\ opened' = [opened EXCEPT ![thread[t].cred] = @ + 1]
  <2>1. PICK l, who, life :
          l = thread[t].cred /\ who = thread[t].who /\ life = Lifetime(exp, read)
    OBVIOUS
  <2>2. PICK s \in Tokens :
                 /\ issued[s] = None
                 /\ sessions' = [q EXCEPT ![s] = [who |-> who, exp |-> life]]
                 /\ issued' = [issued EXCEPT ![s] = exp]
                 /\ opened' = [opened EXCEPT ![l] = @ + 1]
    BY <1>11, <2>1
  <2>3. l \in Logins /\ l \in begun /\ who \in Subjects
    BY <1>2, <2>1 DEF AInv, Sound, Tables, Request
  <2>4. exp \in Nat /\ life \in Nat /\ life <= exp
    <3>1. exp \in Nat /\ MaxSession \in Nat
      BY SessionsConstants
    <3> QED
      BY <1>4, <2>1, <3>1 DEF Lifetime, Earlier
  <2>5. /\ issued \in [Tokens -> Nat \cup {None}] /\ opened \in [Logins -> Nat]
        /\ begun \subseteq Logins /\ ended \subseteq Tokens
    BY DEF AInv, Tables
  <2>6. [who |-> who, exp |-> life] \in Session
    BY <2>3, <2>4 DEF Session
  <2>7. /\ sessions' \in [Tokens -> Session \cup {None}]
        /\ sessions'[s] = [who |-> who, exp |-> life]
        /\ \A x \in Tokens \ {s} : sessions'[x] \in {sessions[x], None}
    BY <1>7, <2>2, <2>6
  <2>8. /\ issued' \in [Tokens -> Nat \cup {None}] /\ issued'[s] = exp
        /\ \A x \in Tokens \ {s} : issued'[x] = issued[x]
    BY <2>2, <2>4, <2>5
  <2>9. Exchanging(t, l)
    BY <1>2, <2>1 DEF Exchanging
  <2>10. pending[l] = None /\ opened[l] = 0 /\ \A u \in Threads \ {t} : ~ Exchanging(u, l)
    BY <2>3, <2>9 DEF AInv, LoginInv
  <2>11. /\ opened' \in [Logins -> Nat] /\ opened'[l] = 1
         /\ \A m \in Logins \ {l} : opened'[m] = opened[m]
    BY <2>2, <2>3, <2>5, <2>10
  <2>12. Tables'
    BY <1>2, <1>3, <1>7, <1>8, <1>11, <2>7, <2>8, <2>11 DEF AInv, Tables
  <2>13. Mono
    BY <1>2, <1>4, <2>2, <2>8 DEF Mono
  <2>14. LoginInv'
    <3>1. \A u \in Threads, m \in Logins : Exchanging(u, m)' => u # t /\ Exchanging(u, m)
      BY <1>3 DEF Exchanging
    <3> SUFFICES ASSUME NEW m \in Logins
                 PROVE  /\ opened'[m] <= 1
                        /\ m \notin begun' => pending'[m] = None /\ opened'[m] = 0
                        /\ pending'[m] # None => opened'[m] = 0
                        /\ \A u \in Threads : Exchanging(u, m)' =>
                             /\ pending'[m] = None /\ opened'[m] = 0
                             /\ \A v \in Threads \ {u} : ~ Exchanging(v, m)'
      BY DEF LoginInv
    <3>2. /\ opened[m] <= 1
          /\ m \notin begun => pending[m] = None /\ opened[m] = 0
          /\ pending[m] # None => opened[m] = 0
          /\ \A u \in Threads : Exchanging(u, m) =>
               /\ pending[m] = None /\ opened[m] = 0
               /\ \A v \in Threads \ {u} : ~ Exchanging(v, m)
      BY DEF AInv, LoginInv
    <3>3. pending'[m] \in {pending[m], None}
      BY <1>7, <1>11
    <3>4. CASE m = l
      BY <1>2, <2>3, <2>10, <2>11, <3>1, <3>3, <3>4
    <3>5. CASE m # l
      BY <1>2, <2>11, <3>1, <3>2, <3>3, <3>5
    <3> QED
      BY <3>4, <3>5
  <2>15. SessionInv'
    <3>1. s \notin ended
      BY <2>2 DEF AInv, SessionInv
    <3>2. exp # None
      BY <2>4, SessionsConstants
    <3> SUFFICES ASSUME NEW x \in Tokens
                 PROVE  /\ x \in ended' => issued'[x] # None
                        /\ sessions'[x] # None => /\ issued'[x] # None
                                                  /\ sessions'[x].exp <= issued'[x]
                                                  /\ x \notin ended'
      BY DEF SessionInv
    <3>3. /\ x \in ended => issued[x] # None
          /\ sessions[x] # None => /\ issued[x] # None
                                   /\ sessions[x].exp <= issued[x]
                                   /\ x \notin ended
      BY DEF AInv, SessionInv
    <3>4. CASE x = s
      BY <1>2, <2>4, <2>7, <2>8, <3>1, <3>2, <3>4
    <3>5. CASE x # s
      BY <1>2, <2>7, <2>8, <3>3, <3>5
    <3> QED
      BY <3>4, <3>5
  <2>16. WorkAttributed'
    BY <1>2, <1>9, <2>13, WorkKept
  <2>17. \A u \in Threads : thread'[u] = thread[u] \/ Sound(u)'
    BY <1>3, <1>5
  <2> QED
    BY <1>9, <2>12, <2>13, <2>14, <2>15, <2>16, <2>17, OtherThreads
<1> QED
  BY <1>1, <1>6, <1>10, <1>11

-------------------------------------------------------------------------------
(* Decisions and routes *)

(* What is recorded of an identity is what it holds, and it is there       *)
(* before the route acts.                                                  *)
LEMMA RecordStep ==
  ASSUME AInv, NEW t \in Threads, record_authentication(t)
  PROVE  AInv'
<1>1. PICK r : r = thread[t]
  OBVIOUS
<1>2. /\ r.at = "record"
      /\ UNCHANGED <<deployment, keeps, now, pending, sessions, jwks, fetch, assigned, operator,
                     published, history>>
      /\ recorded' \in {Recorded(r), recorded}
      /\ \/ recorded' = Recorded(r) /\ Authorized(r) /\ Become(t, "act")
         \/ Become(t, "idle")
  BY <1>1 DEF record_authentication
<1>3. UNCHANGED <<begun, opened, issued, ended, retired, grants, served>>
  BY <1>2 DEF history
<1>4. /\ r \in Request /\ now \in Nat /\ recorded \in [Subjects -> SUBSET Roles]
      /\ thread \in [Threads -> Request]
  BY <1>1 DEF AInv, Tables
<1>5. /\ r.since <= now
      /\ r.kind \in {"session", "bearer", "key", "token", "apitoken"}
      /\ r.kind = "session" => r.cred \in Tokens /\ issued[r.cred] # None
      /\ r.kind = "key" => r.cred \in OperatorKeys /\ operator[r.cred] # "absent"
      /\ r.kind = "bearer" => r.cred \in SigningKeys
      /\ r.kind \in {"key", "token", "apitoken"} => r.who = None
      /\ ~ r.void /\ (r.kind \in {"session", "bearer"} => r.who # None)
      /\ r.kind = "apitoken" => r.roles = {}
      /\ r.kind = "key" => r.route # "work"
      /\ r.who # None => /\ r.roles \subseteq Claims[r.who] \cup assigned[r.who]
                         /\ ~ keeps => r.roles \subseteq Claims[r.who]
  BY <1>1, <1>2 DEF AInv, Sound
<1>6. PICK who, roles : who = r.who /\ roles = r.roles
  OBVIOUS
<1>7. who \in Subjects \cup {None} /\ roles \subseteq Roles
  BY <1>4, <1>6 DEF Request
<1>8. /\ recorded' \in [Subjects -> SUBSET Roles]
      /\ \A u \in Subjects : recorded[u] \subseteq recorded'[u]
      /\ \A u \in Subjects \ {who} : recorded'[u] = recorded[u]
      /\ who # None => recorded'[who] \subseteq recorded[who] \cup roles
      /\ recorded' = Recorded(r) /\ who # None /\ keeps => roles \subseteq recorded'[who]
  <2>1. CASE recorded' = recorded /\ (who = None \/ ~ keeps \/ recorded' # Recorded(r))
    BY <1>4, <1>7, <2>1
  <2>2. CASE who # None /\ keeps /\ recorded' = Recorded(r)
    <3>1. recorded' = [recorded EXCEPT ![who] = @ \cup roles]
      BY <1>6, <2>2 DEF Recorded
    <3> QED
      BY <1>4, <1>7, <2>2, <3>1
  <2> QED
    BY <1>2, <1>6, <2>1, <2>2 DEF Recorded
<1>9. thread' \in [Threads -> Request]
      /\ (\A u \in Threads \ {t} : thread'[u] = thread[u])
      /\ \/ thread'[t] = Idle
         \/ /\ thread'[t] = [r EXCEPT !.at = "act"] /\ Authorized(r)
            /\ recorded' = Recorded(r)
  <2>1. CASE Become(t, "idle")
    BY <2>1, Becomes
  <2>2. CASE recorded' = Recorded(r) /\ Authorized(r) /\ Become(t, "act")
    <3>1. thread' = [thread EXCEPT ![t] = [r EXCEPT !.at = "act"]]
      BY <1>1, <2>2 DEF Become
    <3>2. [r EXCEPT !.at = "act"] \in Request
      BY <1>4 DEF Request, Steps
    <3> QED
      BY <1>4, <2>2, <3>1, <3>2
  <2> QED
    BY <1>2, <2>1, <2>2
<1>10. Sound(t)'
  <2>1. CASE thread'[t] = Idle
    BY <1>2, <1>4, <2>1, IdleSound
  <2>2. CASE /\ thread'[t] = [r EXCEPT !.at = "act"] /\ Authorized(r)
             /\ recorded' = Recorded(r)
    <3>1. /\ thread'[t].at = "act" /\ thread'[t].kind = r.kind
          /\ thread'[t].cred = r.cred
      BY <1>4, <2>2 DEF Request
    <3>2. /\ thread'[t].who = r.who /\ thread'[t].roles = r.roles
          /\ thread'[t].since = r.since
      BY <1>4, <2>2 DEF Request
    <3>3. thread'[t].void = r.void /\ thread'[t].route = r.route
      BY <1>4, <2>2 DEF Request
    <3>4. Authorized(thread[t])'
      BY <1>2, <2>2, <3>1, <3>2, <3>3 DEF Authorized, HasRole, MayAssign
    <3>5. r.who # None /\ keeps => r.roles \subseteq recorded'[r.who]
      BY <1>6, <1>8, <2>2
    <3>6. UNCHANGED <<keeps, issued, operator, assigned, now>>
      BY <1>2, <1>3
    <3>7. PICK n : n = thread'[t]
      OBVIOUS
    <3>8. /\ n.since <= now'
          /\ n.kind \in {"session", "bearer", "key", "token", "apitoken"}
          /\ n.kind = "session" => n.cred \in Tokens /\ issued'[n.cred] # None
          /\ n.kind = "key" => n.cred \in OperatorKeys /\ operator'[n.cred] # "absent"
          /\ n.kind = "bearer" => n.cred \in SigningKeys
          /\ n.kind \in {"key", "token", "apitoken"} => n.who = None
          /\ ~ n.void /\ (n.kind \in {"session", "bearer"} => n.who # None)
          /\ n.kind = "apitoken" => n.roles = {}
          /\ n.kind = "key" => n.route # "work"
          /\ n.who # None => /\ n.roles \subseteq Claims[n.who] \cup assigned'[n.who]
                             /\ ~ keeps' => n.roles \subseteq Claims[n.who]
          /\ n.who # None /\ keeps' => n.roles \subseteq recorded'[n.who]
          /\ n.at = "act"
      BY <1>5, <3>1, <3>2, <3>3, <3>5, <3>6, <3>7
    <3> QED
      BY <3>4, <3>7, <3>8 DEF Sound
  <2> QED
    BY <1>9, <2>1, <2>2
<1>11. Tables'
  BY <1>2, <1>3, <1>8, <1>9 DEF AInv, Tables
<1>12. Mono
  BY <1>2, <1>3, <1>4, <1>8 DEF Mono
<1>13. \A u \in Threads, l \in Logins : Exchanging(u, l)' => Exchanging(u, l)
  <2>1. \A l \in Logins : ~ Exchanging(t, l)'
    <3>1. thread'[t].at \in {"idle", "act"}
      BY <1>4, <1>9 DEF Idle, Request
    <3> QED
      BY <3>1 DEF Exchanging
  <2> QED
    BY <1>9, <2>1 DEF Exchanging
<1>14. LoginInv'
  BY <1>2, <1>3, <1>13, LoginKept
<1>15. SessionInv'
  BY <1>2, <1>3, SessionKept
<1>16. CacheInv' /\ AssignmentsGrounded'
  BY <1>2, <1>3 DEF AInv, CacheInv, AssignmentsGrounded
<1>17. RolesInv'
  <2>1. \A u \in Subjects : recorded[u] \subseteq Claims[u] \cup assigned[u]
    BY DEF AInv, RolesInv
  <2>2. \A u \in Subjects : u # None
    BY SessionsConstants
  <2>3. who # None => roles \subseteq Claims[who] \cup assigned[who]
    BY <1>5, <1>6
  <2>4. ASSUME NEW u \in Subjects
        PROVE  recorded'[u] \subseteq Claims[u] \cup assigned'[u]
    <3>1. assigned'[u] = assigned[u]
      BY <1>2
    <3>2. CASE u = who
      BY <1>8, <2>1, <2>2, <2>3, <3>1, <3>2
    <3>3. CASE u # who
      BY <1>8, <2>1, <3>1, <3>3
    <3> QED
      BY <3>2, <3>3
  <2> QED
    BY <2>4 DEF RolesInv
<1>18. WorkAttributed'
  BY <1>3, <1>12, <1>17, WorkKept
<1>19. \A u \in Threads : thread'[u] = thread[u] \/ Sound(u)'
  BY <1>9, <1>10
<1> QED
  BY <1>11, <1>12, <1>14, <1>15, <1>16, <1>17, <1>18, <1>19, OtherThreads

(* A route that acts ends its request; what the thread knew is at hand. *)
LEMMA Acting ==
  ASSUME AInv, NEW t \in Threads, NEW route, Acts(t, route)
  PROVE  /\ thread' \in [Threads -> Request] /\ thread'[t] = Idle
         /\ \A u \in Threads \ {t} : thread'[u] = thread[u]
         /\ \A u \in Threads, l \in Logins : Exchanging(u, l)' => Exchanging(u, l)
         /\ thread[t].at = "act" /\ thread[t].route = route
         /\ Authorized(thread[t]) /\ thread[t] \in Request
         /\ thread[t].kind \in {"session", "bearer", "key", "token", "apitoken"}
         /\ thread[t].kind = "session" => /\ thread[t].cred \in Tokens
                                          /\ issued[thread[t].cred] # None
         /\ thread[t].kind = "key" => /\ thread[t].cred \in OperatorKeys
                                      /\ operator[thread[t].cred] # "absent"
         /\ thread[t].kind \in {"key", "token", "apitoken"} => thread[t].who = None
         /\ thread[t].kind \in {"session", "bearer"} => thread[t].who # None
         /\ thread[t].kind = "apitoken" => thread[t].roles = {}
         /\ thread[t].kind = "key" => route # "work"
         /\ thread[t].who # None =>
              /\ thread[t].roles \subseteq Claims[thread[t].who] \cup assigned[thread[t].who]
              /\ thread[t].roles \subseteq
                   (IF keeps THEN recorded ELSE Claims)[thread[t].who]
<1>1. thread[t].at = "act" /\ thread[t].route = route /\ Become(t, "idle")
  BY DEF Acts
<1>2. /\ thread' \in [Threads -> Request] /\ thread'[t] = Idle
      /\ \A u \in Threads \ {t} : thread'[u] = thread[u]
      /\ \A l : ~ Exchanging(t, l)'
  BY <1>1, Becomes
<1>3. \A u \in Threads, l \in Logins : Exchanging(u, l)' => Exchanging(u, l)
  BY <1>2 DEF Exchanging
<1>4. Sound(t) /\ thread[t] \in Request
  BY DEF AInv, Tables
<1>5. /\ Authorized(thread[t])
      /\ thread[t].kind \in {"session", "bearer", "key", "token", "apitoken"}
      /\ thread[t].kind = "session" => /\ thread[t].cred \in Tokens
                                       /\ issued[thread[t].cred] # None
      /\ thread[t].kind = "key" => /\ thread[t].cred \in OperatorKeys
                                   /\ operator[thread[t].cred] # "absent"
      /\ thread[t].kind \in {"key", "token", "apitoken"} => thread[t].who = None
      /\ thread[t].kind \in {"session", "bearer"} => thread[t].who # None
      /\ thread[t].kind = "apitoken" => thread[t].roles = {}
      /\ thread[t].kind = "key" => route # "work"
      /\ thread[t].who # None =>
           /\ thread[t].roles \subseteq Claims[thread[t].who] \cup assigned[thread[t].who]
           /\ thread[t].roles \subseteq
                (IF keeps THEN recorded ELSE Claims)[thread[t].who]
  BY <1>1, <1>4 DEF Sound
<1> QED
  BY <1>1, <1>2, <1>3, <1>4, <1>5

(* Only a browser session logs out, and its session is gone. *)
LEMMA LogoutStep ==
  ASSUME AInv, NEW t \in Threads, logout(t)
  PROVE  AInv'
<1>1. PICK s : s = thread[t].cred
  OBVIOUS
<1>2. /\ Acts(t, "logout")
      /\ sessions' = [sessions EXCEPT ![s] = None]
      /\ ended' = ended \cup {s}
      /\ UNCHANGED <<deployment, keeps, now, pending, jwks, fetch, assigned, recorded, operator,
                     published, begun, opened, issued, retired, grants, served>>
  BY <1>1 DEF logout
<1>3. /\ thread' \in [Threads -> Request] /\ thread'[t] = Idle
      /\ \A u \in Threads \ {t} : thread'[u] = thread[u]
      /\ \A u \in Threads, l \in Logins : Exchanging(u, l)' => Exchanging(u, l)
      /\ thread[t].route = "logout" /\ Authorized(thread[t])
      /\ thread[t].kind = "session" => s \in Tokens /\ issued[s] # None
  BY <1>1, <1>2, Acting
<1>4. s \in Tokens /\ issued[s] # None
  BY <1>3 DEF Authorized
<1>5. /\ now \in Nat /\ sessions \in [Tokens -> Session \cup {None}]
      /\ ended \subseteq Tokens
  BY DEF AInv, Tables
<1>6. /\ sessions' \in [Tokens -> Session \cup {None}] /\ sessions'[s] = None
      /\ \A x \in Tokens \ {s} : sessions'[x] = sessions[x]
      /\ ended' \subseteq Tokens
  BY <1>2, <1>4, <1>5
<1>7. Tables'
  BY <1>2, <1>3, <1>6 DEF AInv, Tables
<1>8. Mono
  BY <1>2, <1>5 DEF Mono
<1>9. LoginInv'
  BY <1>2, <1>3, LoginKept
<1>10. SessionInv'
  BY <1>2, <1>4, <1>6 DEF AInv, SessionInv
<1>11. CacheInv' /\ RolesInv' /\ AssignmentsGrounded'
  BY <1>2 DEF AInv, CacheInv, RolesInv, AssignmentsGrounded
<1>12. WorkAttributed'
  BY <1>2, <1>8, <1>11, WorkKept
<1>13. \A u \in Threads : thread'[u] = thread[u] \/ Sound(u)'
  BY <1>2, <1>3, <1>5, IdleSound
<1> QED
  BY <1>7, <1>8, <1>9, <1>10, <1>11, <1>12, <1>13, OtherThreads

(* Who assigns has the platform_admin role, by claim or by an assignment   *)
(* that is already in the history.                                         *)
LEMMA AssignStep ==
  ASSUME AInv, NEW t \in Threads, NEW to \in Subjects, NEW role \in Roles,
         assign_role(t, to, role)
  PROVE  AInv'
<1>1. PICK by : by = thread[t].who
  OBVIOUS
<1>2. PICK g : g = [by |-> by, to |-> to, role |-> role]
  OBVIOUS
<1>3. /\ Acts(t, "assign")
      /\ assigned' = [assigned EXCEPT ![to] = @ \cup {role}]
      /\ grants' = Append(grants, g)
      /\ UNCHANGED <<deployment, keeps, now, pending, sessions, jwks, fetch, recorded, operator,
                     published, begun, opened, issued, ended, retired, served>>
  BY <1>1, <1>2 DEF assign_role, WithRole
<1>4. /\ thread' \in [Threads -> Request] /\ thread'[t] = Idle
      /\ \A u \in Threads \ {t} : thread'[u] = thread[u]
      /\ \A u \in Threads, l \in Logins : Exchanging(u, l)' => Exchanging(u, l)
      /\ thread[t].route = "assign" /\ Authorized(thread[t]) /\ thread[t] \in Request
      /\ thread[t].kind \in {"key", "token", "apitoken"} => by = None
      /\ by # None => thread[t].roles \subseteq Claims[by] \cup assigned[by]
  BY <1>1, <1>3, Acting
<1>5. by \in Subjects /\ "platform_admin" \in Claims[by] \cup assigned[by]
  <2>1. by # None /\ HasRole(thread[t])
    BY <1>1, <1>4 DEF Authorized, MayAssign
  <2>2. thread[t].roles \cap RequiredRoles("assign") # {}
    BY <1>4, <2>1 DEF HasRole
  <2>3. "platform_admin" \in thread[t].roles
    BY <2>2 DEF RequiredRoles
  <2> QED
    BY <1>1, <1>4, <2>1, <2>3 DEF Request
<1>6. /\ now \in Nat /\ assigned \in [Subjects -> SUBSET Roles] /\ grants \in Seq(Grant)
  BY DEF AInv, Tables
<1>7. g \in Grant /\ g.by = by /\ g.to = to /\ g.role = role
  BY <1>2, <1>5 DEF Grant
<1>8. /\ assigned' \in [Subjects -> SUBSET Roles]
      /\ assigned'[to] = assigned[to] \cup {role}
      /\ \A u \in Subjects \ {to} : assigned'[u] = assigned[u]
  BY <1>3, <1>6
<1>9. /\ grants' \in Seq(Grant) /\ Len(grants) \in Nat
      /\ DOMAIN grants = 1..Len(grants) /\ DOMAIN grants' = 1..(Len(grants) + 1)
      /\ grants'[Len(grants) + 1] = g
      /\ \A i \in 1..Len(grants) : grants'[i] = grants[i]
  BY <1>3, <1>6, <1>7
<1>10. Tables'
  BY <1>3, <1>4, <1>8, <1>9 DEF AInv, Tables
<1>11. Mono
  BY <1>3, <1>6, <1>8 DEF Mono
<1>12. AssignmentsGrounded'
  <2> DEFINE n == Len(grants)
  <2>1. \A u \in Subjects : \A r \in assigned[u] :
          \E i \in 1..n : grants[i].to = u /\ grants[i].role = r
    BY <1>9 DEF AInv, AssignmentsGrounded
  <2>2. \A i \in 1..n :
          \/ "platform_admin" \in Claims[grants[i].by]
          \/ \E j \in 1..(i - 1) : /\ grants[j].to = grants[i].by
                                   /\ grants[j].role = "platform_admin"
    BY <1>9 DEF AInv, AssignmentsGrounded
  <2>3. n \in Nat /\ \A i \in 1..n : i \in 1..(n + 1)
    BY <1>9
  <2>4. ASSUME NEW u \in Subjects, NEW r \in assigned'[u]
        PROVE  \E i \in DOMAIN grants' : grants'[i].to = u /\ grants'[i].role = r
    <3>1. CASE r \in assigned[u]
      <4>1. PICK i \in 1..n : grants[i].to = u /\ grants[i].role = r
        BY <2>1, <3>1
      <4>2. i \in DOMAIN grants' /\ grants'[i] = grants[i]
        BY <1>9, <2>3
      <4> QED
        BY <4>1, <4>2
    <3>2. CASE u = to /\ r = role
      <4>1. n + 1 \in DOMAIN grants'
        BY <1>9
      <4> QED
        BY <1>7, <1>9, <3>2, <4>1
    <3> QED
      BY <1>8, <2>4, <3>1, <3>2
  <2>5. ASSUME NEW i \in DOMAIN grants'
        PROVE  \/ "platform_admin" \in Claims[grants'[i].by]
               \/ \E j \in 1..(i - 1) : /\ grants'[j].to = grants'[i].by
                                        /\ grants'[j].role = "platform_admin"
    <3>1. CASE i \in 1..n
      <4>1. grants'[i] = grants[i] /\ \A j \in 1..(i - 1) : grants'[j] = grants[j]
        BY <1>9, <3>1
      <4> QED
        BY <2>2, <3>1, <4>1
    <3>2. CASE i = n + 1
      <4>1. grants'[i].by = by
        BY <1>7, <1>9, <3>2
      <4>2. CASE "platform_admin" \in Claims[by]
        BY <4>1, <4>2
      <4>3. CASE "platform_admin" \in assigned[by]
        <5>1. PICK j \in 1..n : grants[j].to = by /\ grants[j].role = "platform_admin"
          BY <1>5, <2>1, <4>3
        <5>2. j \in 1..(i - 1) /\ grants'[j] = grants[j]
          BY <1>9, <2>3, <3>2
        <5> QED
          BY <4>1, <5>1, <5>2
      <4> QED
        BY <1>5, <4>2, <4>3
    <3>3. i \in 1..n \/ i = n + 1
      BY <1>9
    <3> QED
      BY <3>1, <3>2, <3>3
  <2> QED
    BY <2>4, <2>5 DEF AssignmentsGrounded
<1>13. LoginInv'
  BY <1>3, <1>4, LoginKept
<1>14. SessionInv'
  BY <1>3, SessionKept
<1>15. CacheInv'
  BY <1>3 DEF AInv, CacheInv
<1>16. RolesInv'
  BY <1>3, <1>8 DEF AInv, RolesInv
<1>17. WorkAttributed'
  BY <1>3, <1>11, <1>16, WorkKept
<1>18. \A u \in Threads : thread'[u] = thread[u] \/ Sound(u)'
  BY <1>3, <1>4, <1>6, IdleSound
<1> QED
  BY <1>10, <1>11, <1>12, <1>13, <1>14, <1>15, <1>16, <1>17, <1>18, OtherThreads

(* Operator keys: an absent one becomes active, an active one revoked. *)
LEMMA OperatorKeyStep ==
  ASSUME AInv, NEW t \in Threads, NEW o \in OperatorKeys, create(t, o) \/ revoke(t, o)
  PROVE  AInv'
<1>1. /\ \E route : Acts(t, route)
      /\ UNCHANGED <<deployment, keeps, now, pending, sessions, jwks, fetch, assigned, recorded,
                     published, history>>
      /\ \/ operator[o] = "absent" /\ operator' = [operator EXCEPT ![o] = "active"]
         \/ operator' = [operator EXCEPT ![o] = IF @ = "active" THEN "revoked" ELSE @]
  BY DEF create, revoke
<1>2. /\ thread' \in [Threads -> Request] /\ thread'[t] = Idle
      /\ \A u \in Threads \ {t} : thread'[u] = thread[u]
      /\ \A u \in Threads, l \in Logins : Exchanging(u, l)' => Exchanging(u, l)
  BY <1>1, Acting
<1>3. UNCHANGED <<begun, opened, issued, ended, retired, grants, served>>
  BY <1>1 DEF history
<1>4. now \in Nat /\ operator \in [OperatorKeys -> {"absent", "active", "revoked"}]
  BY DEF AInv, Tables
<1>5. /\ operator' \in [OperatorKeys -> {"absent", "active", "revoked"}]
      /\ \A x \in OperatorKeys : /\ operator[x] # "absent" => operator'[x] # "absent"
                                 /\ operator[x] = "revoked" => operator'[x] = "revoked"
  BY <1>1, <1>4
<1>6. Tables'
  BY <1>1, <1>2, <1>3, <1>5 DEF AInv, Tables
<1>7. Mono
  BY <1>1, <1>3, <1>4, <1>5 DEF Mono
<1>8. LoginInv'
  BY <1>1, <1>2, <1>3, LoginKept
<1>9. SessionInv'
  BY <1>1, <1>3, SessionKept
<1>10. CacheInv' /\ RolesInv' /\ AssignmentsGrounded'
  BY <1>1, <1>3 DEF AInv, CacheInv, RolesInv, AssignmentsGrounded
<1>11. WorkAttributed'
  BY <1>3, <1>7, <1>10, WorkKept
<1>12. \A u \in Threads : thread'[u] = thread[u] \/ Sound(u)'
  BY <1>1, <1>2, <1>4, IdleSound
<1> QED
  BY <1>6, <1>7, <1>8, <1>9, <1>10, <1>11, <1>12, OtherThreads

(* Work is done with a shared token or a key on the routes it is good for, *)
(* or for an identity with a role, recorded first if there is a store.     *)
LEMMA WorkStep ==
  ASSUME AInv, NEW t \in Threads, Work(t)
  PROVE  AInv'
<1>1. PICK w, who, roles :
        /\ w = [kind |-> thread[t].kind, cred |-> thread[t].cred, who |-> thread[t].who,
                route |-> thread[t].route]
        /\ who = thread[t].who /\ roles = thread[t].roles
  OBVIOUS
<1>2. PICK route \in {"jobs", "work"} : Acts(t, route)
  BY DEF Work
<1>3. /\ served' = served \cup {w}
      /\ UNCHANGED <<deployment, keeps, now, stores, published, begun, opened, issued, ended,
                     retired, grants>>
  BY <1>1 DEF Work
<1>4. UNCHANGED <<pending, sessions, jwks, fetch, assigned, recorded, operator>>
  BY <1>3 DEF stores
<1>5. /\ thread' \in [Threads -> Request] /\ thread'[t] = Idle
      /\ \A u \in Threads \ {t} : thread'[u] = thread[u]
      /\ \A u \in Threads, l \in Logins : Exchanging(u, l)' => Exchanging(u, l)
  BY <1>2, Acting
<1>6. /\ thread[t].route = route /\ Authorized(thread[t]) /\ thread[t] \in Request
      /\ thread[t].kind \in {"session", "bearer", "key", "token", "apitoken"}
      /\ thread[t].kind = "key" => route # "work"
      /\ thread[t].kind = "apitoken" => roles = {}
      /\ thread[t].kind \in {"session", "bearer"} => who # None
      /\ who # None => roles \subseteq (IF keeps THEN recorded ELSE Claims)[who]
  BY <1>1, <1>2, Acting
<1>7. now \in Nat
  BY DEF AInv, Tables
<1>8. w.kind = thread[t].kind /\ w.who = who /\ w.route = route
  BY <1>1, <1>6
<1>9. who \in Subjects \cup {None}
  BY <1>1, <1>6 DEF Request
<1>10. \A x \in served' : x.who \in Subjects \cup {None}
  BY <1>3, <1>8, <1>9 DEF AInv, Tables
<1>11. Tables'
  BY <1>3, <1>4, <1>5, <1>10 DEF AInv, Tables
<1>12. Mono
  BY <1>3, <1>4, <1>7 DEF Mono
<1>13. LoginInv'
  BY <1>3, <1>4, <1>5, LoginKept
<1>14. SessionInv'
  BY <1>3, <1>4, SessionKept
<1>15. CacheInv' /\ RolesInv' /\ AssignmentsGrounded'
  BY <1>3, <1>4 DEF AInv, CacheInv, RolesInv, AssignmentsGrounded
<1>16. HasRole(thread[t])
  BY <1>2, <1>6 DEF Authorized
<1>17. \/ w.kind = "token"
       \/ w.kind = "apitoken" /\ w.route = "work"
       \/ w.kind = "key" /\ w.route = "jobs"
       \/ /\ w.who # None
          /\ recorded[w.who] \subseteq Claims[w.who] \cup assigned[w.who]
          /\ (IF keeps THEN recorded ELSE Claims)[w.who] # {}
  <2>1. CASE thread[t].kind \in {"session", "bearer"}
    <3>1. roles # {}
      BY <1>1, <1>16, <2>1 DEF HasRole
    <3>2. who \in Subjects /\ (IF keeps THEN recorded ELSE Claims)[who] # {}
      BY <1>6, <1>9, <2>1, <3>1
    <3>3. recorded[who] \subseteq Claims[who] \cup assigned[who]
      BY <3>2 DEF AInv, RolesInv
    <3> QED
      BY <1>6, <1>8, <2>1, <3>2, <3>3
  <2>2. CASE thread[t].kind = "apitoken"
    BY <1>1, <1>6, <1>8, <1>16, <2>2 DEF HasRole
  <2>3. CASE thread[t].kind \in {"key", "token"}
    BY <1>2, <1>6, <1>8, <2>3
  <2> QED
    BY <1>6, <2>1, <2>2, <2>3
<1>18. WorkAttributed'
  BY <1>3, <1>4, <1>17 DEF AInv, WorkAttributed
<1>19. \A u \in Threads : thread'[u] = thread[u] \/ Sound(u)'
  BY <1>3, <1>5, <1>7, IdleSound
<1> QED
  BY <1>11, <1>12, <1>13, <1>14, <1>15, <1>18, <1>19, OtherThreads

-------------------------------------------------------------------------------
(* The provider, time, restarts *)

(* A key that is rotated out may be cached or in an answer under way, both *)
(* from before this moment.                                                *)
LEMMA RetireKeyStep ==
  ASSUME AInv, NEW k \in SigningKeys, RetireKey(k)
  PROVE  AInv'
<1>1. /\ k \in published /\ published' = published \ {k}
      /\ retired' = [retired EXCEPT ![k] = now]
      /\ UNCHANGED <<deployment, keeps, now, stores, thread, begun, opened, issued, ended,
                     grants, served>>
  BY DEF RetireKey
<1>2. UNCHANGED <<pending, sessions, jwks, fetch, assigned, recorded, operator>>
  BY <1>1 DEF stores
<1>3. /\ now \in Nat /\ retired \in [SigningKeys -> Nat \cup {None}]
      /\ published \subseteq SigningKeys /\ {CacheTTL, FetchTime} \subseteq Nat
      /\ fetch.since \in Nat
      /\ jwks \in [keys : SUBSET SigningKeys, expires : Nat]
  BY SessionsConstants DEF AInv, Tables, Fetch
<1>4. /\ retired' \in [SigningKeys -> Nat \cup {None}] /\ retired'[k] = now
      /\ \A x \in SigningKeys \ {k} : retired'[x] = retired[x]
  BY <1>1, <1>3
<1>5. retired[k] = None /\ now # None
  BY <1>1, <1>3, SessionsConstants DEF AInv, CacheInv
<1>6. Tables'
  BY <1>1, <1>2, <1>3, <1>4 DEF AInv, Tables
<1>7. Mono
  BY <1>1, <1>2, <1>3, <1>4, <1>5 DEF Mono
<1>8. CacheInv'
  <2>1. jwks.expires <= now + CacheTTL /\ fetch.since <= now
    BY DEF AInv, CacheInv
  <2>2. ASSUME NEW x \in SigningKeys
        PROVE  /\ x \in published' => retired'[x] = None
               /\ x \in jwks.keys /\ x \notin published' =>
                    retired'[x] # None /\ jwks.expires <= retired'[x] + FetchTime + CacheTTL
               /\ x \in fetch.keys /\ x \notin published' =>
                    retired'[x] # None /\ fetch.since <= retired'[x]
    <3>1. CASE x = k
      BY <1>1, <1>3, <1>4, <1>5, <2>1, <3>1
    <3>2. CASE x # k
      BY <1>1, <1>4, <3>2 DEF AInv, CacheInv
    <3> QED
      BY <3>1, <3>2
  <2> QED
    BY <1>1, <1>2, <2>1, <2>2 DEF CacheInv
<1>9. LoginInv'
  BY <1>1, <1>2, LoginKept DEF Exchanging
<1>10. SessionInv'
  BY <1>1, <1>2, SessionKept
<1>11. RolesInv' /\ AssignmentsGrounded'
  BY <1>1, <1>2 DEF AInv, RolesInv, AssignmentsGrounded
<1>12. WorkAttributed'
  BY <1>1, <1>7, <1>11, WorkKept
<1>13. \A u \in Threads : thread'[u] = thread[u] \/ Sound(u)'
  BY <1>1
<1> QED
  BY <1>6, <1>7, <1>8, <1>9, <1>10, <1>11, <1>12, <1>13, OtherThreads

(* Time only makes the cache older. *)
LEMMA TickStep ==
  ASSUME AInv, Tick
  PROVE  AInv'
<1>1. /\ now' = now + 1
      /\ UNCHANGED <<deployment, keeps, stores, published, thread, history>>
  BY DEF Tick
<1>2. /\ UNCHANGED <<pending, sessions, jwks, fetch, assigned, recorded, operator>>
      /\ UNCHANGED <<begun, opened, issued, ended, retired, grants, served>>
  BY <1>1 DEF stores, history
<1>3. now \in Nat /\ CacheTTL \in Nat /\ jwks.expires \in Nat /\ fetch.since \in Nat
  BY SessionsConstants DEF AInv, Tables, Fetch
<1>4. Tables'
  BY <1>1, <1>2, <1>3 DEF AInv, Tables
<1>5. Mono
  BY <1>1, <1>2, <1>3 DEF Mono
<1>6. CacheInv'
  BY <1>1, <1>2, <1>3 DEF AInv, CacheInv
<1>7. LoginInv'
  BY <1>1, <1>2, LoginKept DEF Exchanging
<1>8. SessionInv'
  BY <1>2, SessionKept
<1>9. RolesInv' /\ AssignmentsGrounded'
  BY <1>2 DEF AInv, RolesInv, AssignmentsGrounded
<1>10. WorkAttributed'
  BY <1>2, <1>5, <1>9, WorkKept
<1>11. \A u \in Threads : thread'[u] = thread[u] \/ Sound(u)'
  BY <1>1
<1> QED
  BY <1>4, <1>5, <1>6, <1>7, <1>8, <1>9, <1>10, <1>11, OtherThreads

(* A restart forgets threads, cache and what is in memory. *)
LEMMA RestartStep ==
  ASSUME AInv, Restart
  PROVE  AInv'
<1>1. /\ thread' = [t \in Threads |-> Idle]
      /\ jwks' = [keys |-> {}, expires |-> 0] /\ fetch' = NoFetch
      /\ pending' = pending \/ pending' = [l \in Logins |-> None]
      /\ sessions' = sessions \/ sessions' = [s \in Tokens |-> None]
      /\ UNCHANGED <<deployment, keeps, now, assigned, recorded, operator, published, history>>
  BY DEF Restart
<1>2. UNCHANGED <<begun, opened, issued, ended, retired, grants, served>>
  BY <1>1 DEF history
<1>3. now \in Nat /\ CacheTTL \in Nat
  BY SessionsConstants DEF AInv, Tables
<1>4. /\ thread' \in [Threads -> Request] /\ \A u \in Threads : thread'[u] = Idle
      /\ jwks' \in [keys : SUBSET SigningKeys, expires : Nat]
      /\ jwks'.keys = {} /\ jwks'.expires = 0
      /\ fetch' \in Fetch /\ fetch'.keys = {} /\ fetch'.since = 0
  BY <1>1, IdleIsRequest, NoFetchIsFetch
<1>5. /\ pending' \in [Logins -> Nat \cup {None}]
      /\ \A l \in Logins : pending'[l] \in {pending[l], None}
  BY <1>1 DEF AInv, Tables
<1>6. /\ sessions' \in [Tokens -> Session \cup {None}]
      /\ \A s \in Tokens : sessions'[s] \in {sessions[s], None}
  BY <1>1 DEF AInv, Tables
<1>7. Tables'
  BY <1>1, <1>2, <1>4, <1>5, <1>6 DEF AInv, Tables
<1>8. Mono
  BY <1>1, <1>2, <1>3 DEF Mono
<1>9. \A u \in Threads, l \in Logins : ~ Exchanging(u, l)'
  BY <1>4 DEF Exchanging, Idle
<1>10. LoginInv'
  BY <1>2, <1>5, <1>9, LoginKept
<1>11. SessionInv'
  BY <1>2, <1>6, SessionKept
<1>12. CacheInv'
  BY <1>1, <1>2, <1>3, <1>4 DEF AInv, CacheInv
<1>13. RolesInv' /\ AssignmentsGrounded'
  BY <1>1, <1>2 DEF AInv, RolesInv, AssignmentsGrounded
<1>14. WorkAttributed'
  BY <1>2, <1>8, <1>13, WorkKept
<1>15. \A u \in Threads : thread'[u] = thread[u] \/ Sound(u)'
  BY <1>1, <1>3, <1>4, IdleSound
<1> QED
  BY <1>7, <1>8, <1>10, <1>11, <1>12, <1>13, <1>14, <1>15, OtherThreads

-------------------------------------------------------------------------------
(* The theorems *)

(* Nothing is open at the start. *)
LEMMA SessionsInit == Init => AInv
<1> SUFFICES ASSUME Init PROVE AInv
  OBVIOUS
<1>0. CacheTTL \in Nat
  BY SessionsConstants
<1>1. thread \in [Threads -> Request] /\ \A t \in Threads : thread[t] = Idle
  BY IdleIsRequest DEF Init
<1>2. grants \in Seq(Grant) /\ DOMAIN grants = {}
  BY DEF Init
<1>3. Tables
  BY <1>1, <1>2, NoFetchIsFetch DEF Init, Tables
<1>4. \A t \in Threads, l \in Logins : ~ Exchanging(t, l)
  BY <1>1 DEF Exchanging, Idle
<1>5. LoginInv
  BY <1>4 DEF Init, LoginInv
<1>6. SessionInv
  BY DEF Init, SessionInv
<1>7. CacheInv
  BY <1>0, NoFetchIsFetch DEF Init, CacheInv
<1>8. RolesInv /\ WorkAttributed
  BY DEF Init, RolesInv, WorkAttributed
<1>9. AssignmentsGrounded
  BY <1>2 DEF Init, AssignmentsGrounded
<1>10. \A t \in Threads : Sound(t)
  BY <1>1 DEF Init, Sound, Idle
<1> QED
  BY <1>3, <1>5, <1>6, <1>7, <1>8, <1>9, <1>10 DEF AInv

(* Every step keeps it. *)
LEMMA SessionsNext == AInv /\ [Next]_vars => AInv'
<1> SUFFICES ASSUME AInv, [Next]_vars PROVE AInv'
  OBVIOUS
<1>1. CASE UNCHANGED vars
  <2>1. /\ UNCHANGED <<deployment, keeps, now, published, thread>>
        /\ UNCHANGED <<pending, sessions, jwks, fetch, assigned, recorded, operator>>
        /\ UNCHANGED <<begun, opened, issued, ended, retired, grants, served>>
    BY <1>1 DEF vars, stores, history
  <2>2. Tables' /\ now \in Nat
    BY <2>1 DEF AInv, Tables
  <2>3. Mono
    BY <2>1, <2>2 DEF Mono
  <2>4. LoginInv'
    BY <2>1, LoginKept DEF Exchanging
  <2>5. SessionInv'
    BY <2>1, SessionKept
  <2>6. CacheInv' /\ RolesInv' /\ AssignmentsGrounded'
    BY <2>1 DEF AInv, CacheInv, RolesInv, AssignmentsGrounded
  <2>7. WorkAttributed'
    BY <2>1, <2>3, <2>6, WorkKept
  <2>8. \A u \in Threads : thread'[u] = thread[u] \/ Sound(u)'
    BY <2>1
  <2> QED
    BY <2>2, <2>3, <2>4, <2>5, <2>6, <2>7, <2>8, OtherThreads
<1>2. ASSUME NEW t \in Threads,
             \/ \E kind \in Kinds, route \in Routes : Arrive(t, kind, route)
             \/ begin_login(t)
             \/ consume_login(t)
             \/ \E who \in Subjects : exchange_code(t, who)
             \/ \E exp \in 0..MaxTime : create_session(t, exp)
             \/ get_session(t)
             \/ Ask(t)
             \/ \E who \in Subjects : _refresh_locked(t, who)
             \/ \E who \in Subjects : get_jwks(t, who)
             \/ Invalid(t)
             \/ authenticate(t)
             \/ SharedToken(t)
             \/ roles_for(t)
             \/ record_authentication(t)
             \/ logout(t)
             \/ \E to \in Subjects, role \in Roles : assign_role(t, to, role)
             \/ \E o \in OperatorKeys : create(t, o)
             \/ \E o \in OperatorKeys : revoke(t, o)
             \/ Work(t)
      PROVE  AInv'
  BY <1>2, ArriveStep, BeginStep, ConsumeStep, ExchangeStep, CreateSessionStep,
     GetSessionStep, AskStep, RefreshStep, GetJwksStep, InvalidStep,
     AuthenticateStep, SharedTokenStep, RolesForStep, RecordStep, LogoutStep, AssignStep, OperatorKeyStep, WorkStep
<1>3. CASE \E k \in SigningKeys : RetireKey(k)
  BY <1>3, RetireKeyStep
<1>4. CASE Tick
  BY <1>4, TickStep
<1>5. CASE Restart
  BY <1>5, RestartStep
<1> QED
  BY <1>1, <1>2, <1>3, <1>4, <1>5 DEF Next

(* The invariant of sign-in and authorization. *)
THEOREM SessionsInvariant == Spec => []AInv
BY SessionsInit, SessionsNext, PTL DEF Spec

(* A login state opens at most one session, for any number of threads that *)
(* get its callback (_OIDCSessionStore.consume_login).                     *)
THEOREM SessionsOnePerLogin == Spec => []OneSessionPerLogin
<1>1. AInv => OneSessionPerLogin
  BY DEF AInv, LoginInv, OneSessionPerLogin
<1> QED
  BY <1>1, SessionsInvariant, PTL

(* A withdrawn credential authenticates no request that is made after its  *)
(* withdrawal, whatever the delays: of get_session and of                  *)
(* OperatorKeyStore.authenticate at once, of OIDCValidator.validate after  *)
(* the time an answer of the provider takes and the time it is cached.     *)
THEOREM SessionsWithdrawn == Spec => []WithdrawnIsRefused
<1>1. AInv => WithdrawnIsRefused
  BY DEF AInv, Sound, WithdrawnIsRefused
<1> QED
  BY <1>1, SessionsInvariant, PTL

(* Every assigned role goes back to a platform admin by claim              *)
(* (assign_role, behind _admin_required_roles).                            *)
THEOREM SessionsGrounded == Spec => []AssignmentsGrounded
<1>1. AInv => AssignmentsGrounded
  BY DEF AInv
<1> QED
  BY <1>1, SessionsInvariant, PTL

(* Operator work is done with a shared token or an operator key, on the    *)
(* routes it is good for, or for an identity: with an identity store, one  *)
(* whose role is recorded (record_authentication comes before the route);  *)
(* without, one whose claims have it, and nothing is recorded              *)
(* (_enrich_identity).                                                     *)
THEOREM SessionsAttributed == Spec => []WorkAttributed
<1>1. AInv => WorkAttributed
  BY DEF AInv
<1> QED
  BY <1>1, SessionsInvariant, PTL

-------------------------------------------------------------------------------
(* The capacity of the session store *)

Pending == {l \in Logins : pending[l] # None}
Open == {s \in Tokens : sessions[s] # None}

(* Login states and sessions in memory share one capacity.                 *)
CapacityInv ==
  /\ now <= MaxTime
  /\ deployment = "local" => /\ IsFiniteSet(Pending) /\ IsFiniteSet(Open)
                             /\ Cardinality(Pending) + Cardinality(Open) <= MaxEntries

(* The counts are numbers, and so is the capacity. *)
LEMMA CapacityFacts ==
  ASSUME CapacityInv, deployment = "local"
  PROVE  /\ Cardinality(Pending) \in Nat /\ Cardinality(Open) \in Nat
         /\ MaxEntries \in Nat
  BY FS_CardinalityType, SessionsConstants DEF CapacityInv

(* A step that only forgets stays within the capacity. *)
LEMMA CapacityKept ==
  ASSUME CapacityInv, deployment' = deployment, now' <= MaxTime,
         \A l \in Logins : pending'[l] \in {pending[l], None},
         \A s \in Tokens : sessions'[s] \in {sessions[s], None}
  PROVE  CapacityInv'
<1> SUFFICES ASSUME deployment = "local"
             PROVE  /\ IsFiniteSet(Pending') /\ IsFiniteSet(Open')
                    /\ Cardinality(Pending') + Cardinality(Open') <= MaxEntries
  BY DEF CapacityInv
<1>1. Pending' \in SUBSET Pending /\ Open' \in SUBSET Open
  BY DEF Pending, Open
<1>2. /\ IsFiniteSet(Pending) /\ IsFiniteSet(Open)
      /\ Cardinality(Pending) + Cardinality(Open) <= MaxEntries
      /\ Cardinality(Pending) \in Nat /\ Cardinality(Open) \in Nat /\ MaxEntries \in Nat
  BY CapacityFacts DEF CapacityInv
<1>3. /\ IsFiniteSet(Pending') /\ Cardinality(Pending') <= Cardinality(Pending)
      /\ IsFiniteSet(Open') /\ Cardinality(Open') <= Cardinality(Open)
  BY <1>1, <1>2, FS_Subset
<1>4. Cardinality(Pending') \in Nat /\ Cardinality(Open') \in Nat
  BY <1>3, FS_CardinalityType
<1> QED
  BY <1>2, <1>3, <1>4

(* What is left after pruning, and that there is room unless it is full. *)
LEMMA Room ==
  ASSUME AInv, CapacityInv, deployment = "local", NEW read, ~ Full(read)
  PROVE  LET P == {l \in Logins : PrunedPending(read)[l] # None}
             S == {s \in Tokens : PrunedSessions(read)[s] # None}
         IN  /\ IsFiniteSet(P) /\ IsFiniteSet(S)
             /\ Cardinality(P) \in Nat /\ Cardinality(S) \in Nat
             /\ Cardinality(P) + Cardinality(S) < MaxEntries /\ MaxEntries \in Nat
<1> DEFINE P == {l \in Logins : PrunedPending(read)[l] # None}
           S == {s \in Tokens : PrunedSessions(read)[s] # None}
<1>1. P \in SUBSET Pending /\ S \in SUBSET Open
  BY Pruned DEF Pending, Open
<1>2. ~ (Cardinality(P) + Cardinality(S) >= MaxEntries)
  BY DEF Full, Local
<1> HIDE DEF P, S
<1>3. IsFiniteSet(P) /\ IsFiniteSet(S)
  BY <1>1, FS_Subset DEF CapacityInv
<1>4. Cardinality(P) \in Nat /\ Cardinality(S) \in Nat /\ MaxEntries \in Nat
  BY <1>3, FS_CardinalityType, CapacityFacts
<1>5. Cardinality(P) + Cardinality(S) < MaxEntries
  BY <1>2, <1>4
<1> QED
  BY <1>3, <1>4, <1>5 DEF P, S

(* A state handed out takes a place that was free. *)
LEMMA BeginCapacity ==
  ASSUME AInv, CapacityInv, NEW t \in Threads, begin_login(t)
  PROVE  CapacityInv'
<1>1. PICK read \in Readings(t) :
        /\ sessions' = PrunedSessions(read)
        /\ \/ pending' = PrunedPending(read)
           \/ /\ ~ Full(read)
              /\ \E l \in Logins \ begun :
                   pending' = [PrunedPending(read) EXCEPT ![l] = read + StateTTL]
  BY DEF begin_login
<1>2. deployment' = deployment /\ now' = now /\ now' <= MaxTime
  BY DEF begin_login, CapacityInv
<1>3. /\ PrunedPending(read) \in [Logins -> Nat \cup {None}]
      /\ \A l \in Logins : PrunedPending(read)[l] \in {pending[l], None}
      /\ \A s \in Tokens : PrunedSessions(read)[s] \in {sessions[s], None}
  BY Pruned
<1>4. CASE pending' = PrunedPending(read)
  BY <1>1, <1>2, <1>3, <1>4, CapacityKept
<1>5. ASSUME ~ Full(read), NEW l \in Logins,
             pending' = [PrunedPending(read) EXCEPT ![l] = read + StateTTL],
             deployment = "local"
      PROVE  CapacityInv'
  <2> DEFINE P == {m \in Logins : PrunedPending(read)[m] # None}
             S == {s \in Tokens : PrunedSessions(read)[s] # None}
  <2>1. /\ IsFiniteSet(P) /\ IsFiniteSet(S)
        /\ Cardinality(P) \in Nat /\ Cardinality(S) \in Nat
        /\ Cardinality(P) + Cardinality(S) < MaxEntries /\ MaxEntries \in Nat
    BY <1>5, Room
  <2>2. Open' = S
    BY <1>1 DEF Open
  <2>3. Pending' \in SUBSET (P \cup {l})
    BY <1>3, <1>5 DEF Pending
  <2> HIDE DEF P, S
  <2>4. /\ IsFiniteSet(P \cup {l}) /\ Cardinality(P \cup {l}) <= Cardinality(P) + 1
        /\ Cardinality(P \cup {l}) \in Nat
    <3>1. /\ IsFiniteSet(P \cup {l})
          /\ Cardinality(P \cup {l}) = IF l \in P THEN Cardinality(P) ELSE Cardinality(P) + 1
      BY <2>1, FS_AddElement
    <3> QED
      BY <2>1, <3>1
  <2>5. /\ IsFiniteSet(Pending') /\ Cardinality(Pending') <= Cardinality(P \cup {l})
        /\ Cardinality(Pending') \in Nat
    BY <2>3, <2>4, FS_Subset, FS_CardinalityType
  <2>6. Cardinality(Pending') + Cardinality(Open') <= MaxEntries
    BY <2>1, <2>2, <2>4, <2>5
  <2> QED
    BY <1>2, <2>1, <2>2, <2>5, <2>6 DEF CapacityInv
<1>6. CASE deployment # "local"
  BY <1>2, <1>6 DEF CapacityInv
<1> QED
  BY <1>1, <1>4, <1>5, <1>6

(* A session that is opened takes a place that was free, too. *)
LEMMA CreateCapacity ==
  ASSUME AInv, CapacityInv, NEW t \in Threads, NEW exp \in 0..MaxTime,
         create_session(t, exp)
  PROVE  CapacityInv'
<1>1. PICK read \in Readings(t) :
        \/ UNCHANGED <<pending, sessions>>
        \/ pending' = PrunedPending(read) /\ sessions' = PrunedSessions(read)
        \/ /\ ~ Full(read) /\ pending' = PrunedPending(read)
           /\ \E s \in Tokens :
                sessions' = [PrunedSessions(read) EXCEPT ![s] =
                               [who |-> thread[t].who, exp |-> Lifetime(exp, read)]]
  BY DEF create_session
<1>2. deployment' = deployment /\ now' = now /\ now' <= MaxTime
  BY DEF create_session, CapacityInv
<1>3. /\ PrunedSessions(read) \in [Tokens -> Session \cup {None}]
      /\ \A l \in Logins : PrunedPending(read)[l] \in {pending[l], None}
      /\ \A s \in Tokens : PrunedSessions(read)[s] \in {sessions[s], None}
  BY Pruned
<1>4. CASE \/ UNCHANGED <<pending, sessions>>
           \/ pending' = PrunedPending(read) /\ sessions' = PrunedSessions(read)
  BY <1>2, <1>3, <1>4, CapacityKept
<1>5. ASSUME ~ Full(read), pending' = PrunedPending(read), NEW s \in Tokens, NEW x,
             sessions' = [PrunedSessions(read) EXCEPT ![s] = x],
             deployment = "local"
      PROVE  CapacityInv'
  <2> DEFINE P == {l \in Logins : PrunedPending(read)[l] # None}
             S == {u \in Tokens : PrunedSessions(read)[u] # None}
  <2>1. /\ IsFiniteSet(P) /\ IsFiniteSet(S)
        /\ Cardinality(P) \in Nat /\ Cardinality(S) \in Nat
        /\ Cardinality(P) + Cardinality(S) < MaxEntries /\ MaxEntries \in Nat
    BY <1>5, Room
  <2>2. Pending' = P
    BY <1>5 DEF Pending
  <2>3. Open' \in SUBSET (S \cup {s})
    BY <1>3, <1>5 DEF Open
  <2> HIDE DEF P, S
  <2>4. /\ IsFiniteSet(S \cup {s}) /\ Cardinality(S \cup {s}) <= Cardinality(S) + 1
        /\ Cardinality(S \cup {s}) \in Nat
    <3>1. /\ IsFiniteSet(S \cup {s})
          /\ Cardinality(S \cup {s}) = IF s \in S THEN Cardinality(S) ELSE Cardinality(S) + 1
      BY <2>1, FS_AddElement
    <3> QED
      BY <2>1, <3>1
  <2>5. /\ IsFiniteSet(Open') /\ Cardinality(Open') <= Cardinality(S \cup {s})
        /\ Cardinality(Open') \in Nat
    BY <2>3, <2>4, FS_Subset, FS_CardinalityType
  <2>6. Cardinality(Pending') + Cardinality(Open') <= MaxEntries
    BY <2>1, <2>2, <2>4, <2>5
  <2> QED
    BY <1>2, <2>1, <2>2, <2>5, <2>6 DEF CapacityInv
<1>6. CASE deployment # "local"
  BY <1>2, <1>6 DEF CapacityInv
<1> QED
  BY <1>1, <1>4, <1>5, <1>6

(* The other steps hand out neither a state nor a session. *)
LEMMA CapacityNext == AInv /\ CapacityInv /\ [Next]_vars => CapacityInv'
<1> SUFFICES ASSUME AInv, CapacityInv, [Next]_vars PROVE CapacityInv'
  OBVIOUS
<1>0. /\ pending \in [Logins -> Nat \cup {None}]
      /\ sessions \in [Tokens -> Session \cup {None}] /\ now \in Nat /\ now <= MaxTime
      /\ MaxTime \in Nat
  BY SessionsConstants DEF AInv, Tables, CapacityInv
<1>1. ASSUME UNCHANGED <<deployment, keeps, now, pending, sessions>> PROVE CapacityInv'
  BY <1>0, <1>1, CapacityKept
<1>2. ASSUME NEW t \in Threads, begin_login(t) PROVE CapacityInv'
  BY <1>2, BeginCapacity
<1>3. ASSUME NEW t \in Threads, NEW exp \in 0..MaxTime, create_session(t, exp)
      PROVE  CapacityInv'
  BY <1>3, CreateCapacity
<1>4. ASSUME NEW t \in Threads, consume_login(t) PROVE CapacityInv'
  <2>1. PICK l, read : /\ pending' = Consumed(l, read)
                       /\ sessions' = PrunedSessions(read)
    BY <1>4 DEF consume_login
  <2>2. UNCHANGED <<deployment, keeps, now>>
    BY <1>4 DEF consume_login
  <2>3. /\ PrunedPending(read) \in [Logins -> Nat \cup {None}]
        /\ \A m \in Logins : PrunedPending(read)[m] \in {pending[m], None}
        /\ \A s \in Tokens : PrunedSessions(read)[s] \in {sessions[s], None}
    BY Pruned
  <2>4. \A m \in Logins : Consumed(l, read)[m] \in {pending[m], None}
    <3> DEFINE p == PrunedPending(read)
    <3>1. Consumed(l, read) = [p EXCEPT ![l] = None] \/ Consumed(l, read) = pending
      BY DEF Consumed
    <3> HIDE DEF p
    <3>2. p \in [Logins -> Nat \cup {None}] /\ \A m \in Logins : p[m] \in {pending[m], None}
      BY <2>3 DEF p
    <3> QED
      BY <3>1, <3>2
  <2> QED
    BY <1>0, <2>1, <2>2, <2>3, <2>4, CapacityKept
<1>5. ASSUME NEW t \in Threads, get_session(t) \/ logout(t) PROVE CapacityInv'
  <2>1. UNCHANGED <<deployment, keeps, now, pending>>
    BY <1>5 DEF get_session, logout
  <2>2. sessions' = sessions \/ \E s : sessions' = [sessions EXCEPT ![s] = None]
    BY <1>5 DEF get_session, logout
  <2>3. \A s \in Tokens : sessions'[s] \in {sessions[s], None}
    BY <1>0, <2>2
  <2> QED
    BY <1>0, <2>1, <2>3, CapacityKept
<1>6. CASE Restart
  <2>1. UNCHANGED <<deployment, keeps, now>>
    BY <1>6 DEF Restart
  <2>2. /\ \A l \in Logins : pending'[l] \in {pending[l], None}
        /\ \A s \in Tokens : sessions'[s] \in {sessions[s], None}
    BY <1>6 DEF Restart
  <2> QED
    BY <1>0, <2>1, <2>2, CapacityKept
<1>7. CASE Tick
  <2>1. UNCHANGED <<deployment, pending, sessions>> /\ now' <= MaxTime
    BY <1>0, <1>7 DEF Tick, stores
  <2> QED
    BY <2>1, CapacityKept
<1>8. CASE \/ UNCHANGED vars
           \/ \E k \in SigningKeys : RetireKey(k)
  BY <1>1, <1>8 DEF vars, stores, RetireKey
<1>9. ASSUME NEW t \in Threads,
             \/ \E kind \in Kinds, route \in Routes : Arrive(t, kind, route)
             \/ \E who \in Subjects : exchange_code(t, who)
             \/ \E who \in Subjects : _refresh_locked(t, who) \/ get_jwks(t, who)
             \/ Ask(t) \/ Invalid(t)
             \/ authenticate(t) \/ SharedToken(t) \/ roles_for(t)
             \/ record_authentication(t)
             \/ \E to \in Subjects, role \in Roles : assign_role(t, to, role)
             \/ \E o \in OperatorKeys : create(t, o) \/ revoke(t, o)
             \/ Work(t)
      PROVE  CapacityInv'
  <2>1. UNCHANGED <<deployment, keeps, now, pending, sessions>>
    BY <1>9 DEF stores, Arrive, exchange_code, _refresh_locked, get_jwks, Ask,
                Invalid, authenticate, SharedToken,
                roles_for, record_authentication, assign_role, create, revoke, Work
  <2> QED
    BY <1>1, <2>1
<1> QED
  BY <1>2, <1>3, <1>4, <1>5, <1>6, <1>7, <1>8, <1>9 DEF Next

(* Every table has values of its kind, and the login states and sessions   *)
(* that _OIDCSessionStore keeps in memory stay within their one capacity:  *)
(* begin_login and create_session count both, after pruning, under the     *)
(* lock, and all other steps only forget.                                  *)
THEOREM SessionsTyped == Spec => []TypeOK
<1>1. Init => CapacityInv
  <2> SUFFICES ASSUME Init PROVE CapacityInv
    OBVIOUS
  <2>1. Pending = {} /\ Open = {} /\ now = 0
    BY DEF Init, Pending, Open
  <2>2. MaxTime \in Nat /\ MaxEntries \in Nat
    BY SessionsConstants
  <2> QED
    BY <2>1, <2>2, FS_EmptySet DEF CapacityInv
<1>2. AInv /\ CapacityInv => TypeOK
  <2> SUFFICES ASSUME AInv, CapacityInv PROVE TypeOK
    OBVIOUS
  <2>1. now \in 0..MaxTime /\ now \in Nat /\ MaxTime \in Nat
    BY SessionsConstants DEF AInv, Tables, CapacityInv
  <2>2. \A t \in Threads : thread[t] \in Request /\ thread[t].since \in 0..MaxTime
    <3> TAKE t \in Threads
    <3>1. thread[t] \in Request /\ thread[t].since <= now
      BY DEF AInv, Tables, Sound
    <3>2. thread[t].since \in Nat
      BY <3>1 DEF Request
    <3> QED
      BY <2>1, <3>1, <3>2
  <2>5. fetch \in [by : Threads \cup {None}, keys : SUBSET SigningKeys, since : 0..MaxTime]
    <3>1. fetch \in Fetch /\ fetch.since <= now /\ fetch.since \in Nat
      BY DEF AInv, Tables, CacheInv, Fetch
    <3> QED
      BY <2>1, <3>1 DEF Fetch
  <2>3. thread \in [Threads ->
         [at : {"idle", "begin", "consume", "exchange", "create", "authenticate",
                "refresh", "again", "roles", "record", "act"},
          kind : Kinds, cred : Logins \cup Tokens \cup SigningKeys \cup OperatorKeys \cup {None},
          route : Routes, who : Subjects \cup {None}, roles : SUBSET Roles,
          since : 0..MaxTime, void : BOOLEAN]]
    <3>1. thread = [t \in Threads |-> thread[t]]
      BY DEF AInv, Tables
    <3> QED
      BY <2>2, <3>1 DEF Request, Steps
  <2>4. deployment = "local" =>
          Cardinality({l \in Logins : pending[l] # None})
            + Cardinality({s \in Tokens : sessions[s] # None}) <= MaxEntries
    BY DEF CapacityInv, Pending, Open
  <2> QED
    BY <2>1, <2>3, <2>4, <2>5 DEF AInv, Tables, TypeOK
<1> QED
  BY <1>1, <1>2, CapacityNext, SessionsInvariant, PTL DEF Spec
===============================================================================
