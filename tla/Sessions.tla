------------------------------- MODULE Sessions -------------------------------
(***************************************************************************)
(* Who may do what at the HTTP API: browser sign-in through OpenID Connect *)
(* with its single-use login states and sessions, bearer tokens checked    *)
(* against a cached key set, operator API keys and the shared tokens, the  *)
(* roles an identity has from its claims and from the identity store, if   *)
(* there is one, and the routes that require them (http_api.py,            *)
(* identity.py, auth/store.py, operator_auth.py, rbac.py, platform.py).    *)
(*                                                                         *)
(* Several threads serve requests.  A clock reading may be older than the  *)
(* step that uses it.  The identity provider is external: it signs in a    *)
(* user with any expiry, fails, rotates its keys, and answers a request    *)
(* for them some time before the answer is read.  Signatures, cookies      *)
(* and PKCE are ideal: a request presents a state, a session or a key that *)
(* was handed out, and a token is known by the key that signed it.         *)
(***************************************************************************)
EXTENDS Naturals, FiniteSets, Sequences

CONSTANTS Threads,
          Deployments,   \* browser sign-in with sessions "local" or in a
                         \* "repository"; "api": bearer tokens of the
                         \* provider; "shared": tokens and operator keys
          Subjects,
          Claims,        \* roles by subject, as ClaimsMapper maps the claims
          Logins,        \* states of begin_login
          Tokens,        \* session tokens
          SigningKeys,   \* of the identity provider
          OperatorKeys,
          MaxEntries,    \* capacity of the session store
          StateTTL,      \* _LOGIN_STATE_TTL_SECONDS
          MaxSession,    \* _MAX_BROWSER_SESSION_SECONDS
          CacheTTL,      \* UrlJWKSProvider.cache_seconds
          FetchTime,     \* how old an answer of the provider may be when it
                         \* is read: its timeout_seconds
          MaxTime,       \* bound of the clock
          MaxRequests,   \* bound of the requests, by deployment
          MaxRestarts,
          None

Roles == {"platform_admin", "operator"}

ASSUME SessionsConstants ==
  /\ Deployments \subseteq {"local", "repository", "api", "shared"}
  /\ Claims \in [Subjects -> SUBSET Roles]
  /\ {MaxEntries, StateTTL, MaxSession, CacheTTL} \subseteq Nat \ {0}
  /\ {FetchTime, MaxTime, MaxRestarts} \subseteq Nat
  /\ MaxRequests \in [Deployments -> Nat]
  /\ None \notin Threads \cup Subjects \cup Logins \cup Tokens \cup SigningKeys \cup OperatorKeys
  /\ None \notin Nat

VARIABLES deployment,
          keeps,       \* whether there is an identity store
          now,
          pending,     \* expiry of a login state, by state
          sessions,    \* identity and expiry, by session token
          published,   \* keys the provider publishes
          jwks,        \* UrlJWKSProvider: the cached keys and their expiry
          fetch,       \* who holds its lock, for an answer of the provider
          assigned,    \* role_assignments
          recorded,    \* roles in "authenticated" identity_events, by subject
          operator,    \* operator_api_keys
          thread,      \* the request a thread works on
          begun,       \* history: login states handed out
          opened,      \* history: sessions opened, by login state
          issued,      \* history: session tokens and their id token's expiry
          ended,       \* history: sessions logged out
          retired,     \* history: since when a key is not published
          grants,      \* history: role assignments, in order
          served,      \* history: operator work, and for whom
          requests, restarts

stores == <<pending, sessions, jwks, fetch, assigned, recorded, operator>>
history == <<begun, opened, issued, ended, retired, grants, served>>
vars == <<deployment, keeps, now, stores, published, thread, history, requests, restarts>>

Session == [who : Subjects, exp : Nat]

Routes == {"logout", "assign", "addkey", "dropkey", "jobs", "work"}

Idle == [at |-> "idle", kind |-> "login", cred |-> None, route |-> "work",
         who |-> None, roles |-> {}, since |-> 0, void |-> FALSE]

NoFetch == [by |-> None, keys |-> {}, since |-> 0]

Kinds == {"login", "callback", "session", "bearer", "key", "token", "apitoken"}

TypeOK ==
  /\ deployment \in Deployments
  /\ keeps \in BOOLEAN
  /\ now \in 0..MaxTime
  /\ pending \in [Logins -> Nat \cup {None}]
  /\ sessions \in [Tokens -> Session \cup {None}]
  /\ deployment = "local" =>
       Cardinality({l \in Logins : pending[l] # None})
         + Cardinality({s \in Tokens : sessions[s] # None}) <= MaxEntries
  /\ published \subseteq SigningKeys
  /\ jwks \in [keys : SUBSET SigningKeys, expires : Nat]
  /\ fetch \in [by : Threads \cup {None}, keys : SUBSET SigningKeys, since : 0..MaxTime]
  /\ assigned \in [Subjects -> SUBSET Roles]
  /\ recorded \in [Subjects -> SUBSET Roles]
  /\ operator \in [OperatorKeys -> {"absent", "active", "revoked"}]
  /\ thread \in [Threads ->
       [at : {"idle", "begin", "consume", "exchange", "create", "authenticate",
              "refresh", "again", "roles", "record", "act"},
        kind : Kinds, cred : Logins \cup Tokens \cup SigningKeys \cup OperatorKeys \cup {None},
        route : Routes, who : Subjects \cup {None}, roles : SUBSET Roles,
        since : 0..MaxTime, void : BOOLEAN]]

Init ==
  /\ deployment \in Deployments
  /\ keeps \in BOOLEAN
  /\ now = 0
  /\ pending = [l \in Logins |-> None]
  /\ sessions = [s \in Tokens |-> None]
  /\ published = SigningKeys
  /\ jwks = [keys |-> {}, expires |-> 0]
  /\ fetch = NoFetch
  /\ assigned = [u \in Subjects |-> {}]
  /\ recorded = [u \in Subjects |-> {}]
  /\ operator = [o \in OperatorKeys |-> "absent"]
  /\ thread = [t \in Threads |-> Idle]
  /\ begun = {}
  /\ opened = [l \in Logins |-> 0]
  /\ issued = [s \in Tokens |-> None]
  /\ ended = {}
  /\ retired = [k \in SigningKeys |-> None]
  /\ grants = <<>>
  /\ served = {}
  /\ requests = 0
  /\ restarts = 0

(* Any moment since the thread's last step, where a clock is read.         *)
Readings(t) == thread[t].since..now

Become(t, at) ==
  thread' = [thread EXCEPT ![t] = IF at = "idle" THEN Idle
                                     ELSE [thread[t] EXCEPT !.at = at]]

(***************************************************************************)
(* Requests.  `void' notes, for the properties, that the credential was    *)
(* withdrawn before the request was made: the session was logged out or    *)
(* its id token had expired, the operator key was revoked, or the signing  *)
(* key has been out of the published set for as long as an answer with it  *)
(* may be under way and then in the cache.                                 *)
(***************************************************************************)
Void(kind, cred) ==
  CASE kind = "session" -> cred \in ended \/ issued[cred] <= now
    [] kind = "key"     -> operator[cred] = "revoked"
    [] kind = "bearer"  -> retired[cred] # None /\ retired[cred] + FetchTime + CacheTTL <= now
    [] OTHER            -> FALSE

(* What a client can present in this deployment.                           *)
Presentable(kind) ==
  CASE kind = "login"    -> {None}
    [] kind = "callback" -> begun
    [] kind = "session"  -> {s \in Tokens : issued[s] # None}
    [] kind = "bearer"   -> SigningKeys
    [] kind = "key"      -> {o \in OperatorKeys : operator[o] # "absent"}
    [] kind \in {"token", "apitoken"} -> {None}

KindsOf(d) == CASE d = "shared" -> {"key", "token", "apitoken"}
                [] d = "api"    -> {"bearer"}
                [] OTHER        -> {"login", "callback", "session"}

FirstStep(kind) == CASE kind = "login"    -> "begin"
                     [] kind = "callback" -> "consume"
                     [] OTHER             -> "authenticate"

(* The routes asked for: of the administrative ones, those that change     *)
(* what the credentials of this deployment may do.                         *)
RoutesOf(kind) == CASE kind \in {"login", "callback"} -> {"work"}
                    [] kind = "session"               -> {"logout", "assign", "work"}
                    [] kind = "bearer"                -> {"logout", "assign", "work"}
                    [] OTHER                          -> Routes

Arrive(t, kind, route) ==
  /\ thread[t].at = "idle"
  /\ requests < MaxRequests[deployment]
  /\ kind \in KindsOf(deployment)
  /\ route \in RoutesOf(kind)
  /\ \E cred \in Presentable(kind) :
       thread' = [thread EXCEPT ![t] =
         [at |-> FirstStep(kind), kind |-> kind, cred |-> cred, route |-> route,
          who |-> None, roles |-> {},
          since |-> IF kind = "bearer" THEN 0 ELSE now,
          void |-> Void(kind, cred)]]
  /\ requests' = requests + 1
  /\ UNCHANGED <<deployment, keeps, now, stores, published, history, restarts>>

(***************************************************************************)
(* _OIDCSessionStore.  With a repository its own tables stay empty, so     *)
(* nothing is pruned and the capacity is never reached.                    *)
(***************************************************************************)
Local == deployment = "local"

(* _prune: what has expired at the reading leaves the tables.              *)
PrunedPending(read) ==
  [l \in Logins |-> IF Local /\ pending[l] # None /\ pending[l] <= read
                    THEN None ELSE pending[l]]

PrunedSessions(read) ==
  [s \in Tokens |-> IF Local /\ sessions[s] # None /\ sessions[s].exp <= read
                    THEN None ELSE sessions[s]]

Full(read) ==
  /\ Local
  /\ Cardinality({l \in Logins : PrunedPending(read)[l] # None})
       + Cardinality({s \in Tokens : PrunedSessions(read)[s] # None}) >= MaxEntries

(* _handle_oidc_login: a fresh state, unless the store is full.            *)
begin_login(t) ==
  /\ thread[t].at = "begin"
  /\ \E read \in Readings(t) :
       /\ sessions' = PrunedSessions(read)
       /\ \/ Full(read) /\ pending' = PrunedPending(read) /\ UNCHANGED begun
          \/ /\ ~Full(read)
             /\ \E l \in Logins \ begun :
                  /\ pending' = [PrunedPending(read) EXCEPT ![l] = read + StateTTL]
                  /\ begun' = begun \cup {l}
  /\ Become(t, "idle")
  /\ UNCHANGED <<deployment, keeps, now, jwks, fetch, assigned, recorded, operator, published,
                 opened, issued, ended, retired, grants, served, requests, restarts>>

(* Whether the login state is there: popped from the dictionary, or        *)
(* deleted by the repository if it has not expired.                        *)
Found(l, read) == pending[l] # None /\ read < pending[l]

(* Mutant of Consumed: the state is looked up and stays.                   *)
ConsumedKept(l, read) == PrunedPending(read)

Consumed(l, read) == IF Local \/ Found(l, read)
                     THEN [PrunedPending(read) EXCEPT ![l] = None]
                     ELSE pending

(* _handle_oidc_callback: the state, which the code also consumes when the *)
(* provider reports an error.                                              *)
consume_login(t) ==
  LET l == thread[t].cred
  IN /\ thread[t].at = "consume"
     /\ \E read \in Readings(t), error \in BOOLEAN :
          /\ pending' = Consumed(l, read)
          /\ sessions' = PrunedSessions(read)
          /\ IF Found(l, read) /\ ~error
             THEN thread' = [thread EXCEPT ![t].at = "exchange", ![t].since = 0]
             ELSE Become(t, "idle")
     /\ UNCHANGED <<deployment, keeps, now, jwks, fetch, assigned, recorded, operator, published,
                    history, requests, restarts>>

(* exchange_code and the validation of the id token: an identity that has  *)
(* not expired, or a refusal.                                              *)
exchange_code(t, who) ==
  /\ thread[t].at = "exchange"
  /\ \/ thread' = [thread EXCEPT ![t].at = "create", ![t].who = who, ![t].since = now]
     \/ Become(t, "idle")
  /\ UNCHANGED <<deployment, keeps, now, stores, published, history, requests, restarts>>

Earlier(a, b) == IF a < b THEN a ELSE b

(* No longer than the id token.                                            *)
Lifetime(exp, read) == Earlier(exp, read + MaxSession)

(* The id token may have expired by now, and others may have filled the    *)
(* store.                                                                  *)
create_session(t, exp) ==
  /\ thread[t].at = "create"
  /\ \E read \in Readings(t) :
       \/ exp <= read /\ UNCHANGED <<pending, sessions, opened, issued>>
       \/ /\ exp > read
          /\ pending' = PrunedPending(read)
          /\ \/ /\ Full(read)
                /\ sessions' = PrunedSessions(read)
                /\ UNCHANGED <<opened, issued>>
             \/ /\ ~Full(read)
                /\ \E s \in Tokens :
                     /\ issued[s] = None
                     /\ sessions' = [PrunedSessions(read) EXCEPT ![s] =
                          [who |-> thread[t].who, exp |-> Lifetime(exp, read)]]
                     /\ issued' = [issued EXCEPT ![s] = exp]
                     /\ opened' = [opened EXCEPT ![thread[t].cred] = @ + 1]
  /\ Become(t, "idle")
  /\ UNCHANGED <<deployment, keeps, now, jwks, fetch, assigned, recorded, operator, published,
                 begun, ended, retired, grants, served, requests, restarts>>

(***************************************************************************)
(* _authenticated                                                          *)
(***************************************************************************)
Proceed(t, at, who) ==
  thread' = [thread EXCEPT ![t].at = at, ![t].who = who, ![t].since = 0]

(* get_session.  The repository's answer is a _BrowserSession where the    *)
(* caller expects an identity: replace() raises TypeError, and the request *)
(* ends as it does without a session.                                      *)
get_session(t) ==
  LET s == thread[t].cred
      live(read) == sessions[s] # None /\ read < sessions[s].exp
  IN /\ thread[t].at = "authenticate"
     /\ thread[t].kind = "session"
     /\ \E read \in Readings(t) :
          /\ sessions' = IF Local /\ ~live(read) THEN [sessions EXCEPT ![s] = None]
                         ELSE sessions
          /\ IF Local /\ live(read) THEN Proceed(t, "roles", sessions[s].who)
             ELSE Become(t, "idle")
     /\ UNCHANGED <<deployment, keeps, now, pending, jwks, fetch, assigned, recorded, operator,
                    published, history, requests, restarts>>

(***************************************************************************)
(* UrlJWKSProvider: its lock is held while the provider is asked, and the  *)
(* clock is read after the answer.                                         *)
(***************************************************************************)
Stale == jwks.expires <= now

Unlocked == fetch.by = None

(* A thread in OIDCValidator.validate.                                     *)
Validating(t) ==
  thread[t].kind = "bearer" /\ thread[t].at \in {"authenticate", "refresh", "again"}

(* _refresh_locked, up to the provider's answer.                           *)
Ask(t) ==
  /\ Validating(t)
  /\ thread[t].at = "refresh" \/ Stale
  /\ Unlocked
  /\ fetch' = [by |-> t, keys |-> published, since |-> now]
  /\ UNCHANGED <<deployment, keeps, now, pending, sessions, jwks, assigned, recorded,
                 operator, published, thread, history, requests, restarts>>

Fetched == [keys |-> fetch.keys, expires |-> now + CacheTTL]

(* OIDCValidator.validate with the keys it was given: it refreshes once    *)
(* when they lack the token's, and looks again.                            *)
Look(t, keys, who) ==
  IF thread[t].cred \in keys THEN Proceed(t, "roles", who)
  ELSE Become(t, IF thread[t].at = "authenticate" THEN "refresh" ELSE "idle")

(* The answer is read in time.  get_jwks returns it; after refresh the     *)
(* validator asks get_jwks for it.                                         *)
_refresh_locked(t, who) ==
  /\ Validating(t)
  /\ fetch.by = t
  /\ now <= fetch.since + FetchTime
  /\ jwks' = Fetched
  /\ fetch' = NoFetch
  /\ IF thread[t].at = "refresh" THEN Become(t, "again") ELSE Look(t, fetch.keys, who)
  /\ UNCHANGED <<deployment, keeps, now, pending, sessions, assigned, recorded, operator,
                 published, history, requests, restarts>>

(* get_jwks has a copy that is not stale.                                  *)
get_jwks(t, who) ==
  /\ Validating(t)
  /\ thread[t].at # "refresh"
  /\ Unlocked /\ ~ Stale
  /\ Look(t, jwks.keys, who)
  /\ UNCHANGED <<deployment, keeps, now, stores, published, history, requests, restarts>>

(* A fetch that fails refuses the token, also when an older copy is at     *)
(* hand; and other claims may be bad.                                      *)
Invalid(t) ==
  /\ Validating(t)
  /\ Become(t, "idle")
  /\ fetch' = IF fetch.by = t THEN NoFetch ELSE fetch
  /\ UNCHANGED <<deployment, keeps, now, pending, sessions, jwks, assigned, recorded,
                 operator, published, history, requests, restarts>>

(* OperatorKeyStore.authenticate; a key is good for /admin only, where it  *)
(* has the operator role.                                                  *)
authenticate(t) ==
  /\ thread[t].at = "authenticate"
  /\ thread[t].kind = "key"
  /\ IF operator[thread[t].cred] = "active" /\ thread[t].route # "work"
     THEN thread' = [thread EXCEPT ![t].at = "record", ![t].roles = {"operator"},
                                   ![t].since = 0]
     ELSE Become(t, "idle")
  /\ UNCHANGED <<deployment, keeps, now, stores, published, history, requests, restarts>>

(* operator_token or bearer_token, compared as they are.                   *)
SharedToken(t) ==
  /\ thread[t].at = "authenticate"
  /\ thread[t].kind \in {"token", "apitoken"}
  /\ thread' = [thread EXCEPT ![t].at = "record", ![t].since = 0]
  /\ UNCHANGED <<deployment, keeps, now, stores, published, history, requests, restarts>>

(***************************************************************************)
(* _enrich_identity and the roles of a route                               *)
(***************************************************************************)
(* Mutant of roles_for: the query does not ask for the principal.          *)
RolesForAnyone(t) ==
  /\ thread[t].at = "roles"
  /\ thread' = [thread EXCEPT ![t].at = "record",
                  ![t].roles = Claims[thread[t].who] \cup UNION {assigned[u] : u \in Subjects}]
  /\ UNCHANGED <<deployment, keeps, now, stores, published, history, requests, restarts>>

(* _enrich_identity: what the claims say and, if there is an identity      *)
(* store, what was assigned.                                               *)
EnrichedRoles(who) == Claims[who] \cup (IF keeps THEN assigned[who] ELSE {})

roles_for(t) ==
  /\ thread[t].at = "roles"
  /\ thread' = [thread EXCEPT ![t].at = "record",
                  ![t].roles = EnrichedRoles(thread[t].who)]
  /\ UNCHANGED <<deployment, keeps, now, stores, published, history, requests, restarts>>

(* Mutant of RequiredRoles: every route is open to operators.              *)
RequiredRolesLax(route) == {"platform_admin", "operator"}

(* _api_required_roles, of /authorize and /execute; a platform admin may   *)
(* do everything.                                                          *)
ApiRequiredRoles == {"platform_admin", "operator"}

(* _admin_required_roles.                                                  *)
RequiredRoles(route) == CASE route = "work" -> ApiRequiredRoles
                          [] route = "jobs" -> {"platform_admin", "operator"}
                          [] OTHER          -> {"platform_admin"}

(* _api_authorized: a shared token has no identity, and there is no OIDC.  *)
(* _admin_authorized: the operator token may do everything.                *)
HasRole(r) == \/ r.kind = "token"
              \/ r.kind = "apitoken" /\ r.route = "work"
              \/ r.roles \cap RequiredRoles(r.route) # {}

(* The handler of role assignments wants an identity, and a store.         *)
MayAssign(r) == r.who # None /\ keeps

(* Logout comes before the roles, and wants a browser session.             *)
Authorized(r) == IF r.route = "logout" THEN r.kind = "session"
                 ELSE HasRole(r) /\ (r.route = "assign" => MayAssign(r))

(* The identity_events row; both stores write it in one transaction.       *)
Recorded(r) == IF r.who = None \/ ~ keeps THEN recorded
               ELSE [recorded EXCEPT ![r.who] = @ \cup r.roles]

(* record_authentication, for an identity if there is a store, and the     *)
(* decision.  The store may fail, which fails the request.                 *)
record_authentication(t) ==
  LET r == thread[t]
  IN /\ r.at = "record"
     /\ \/ /\ recorded' = Recorded(r)
           /\ Become(t, IF Authorized(r) THEN "act" ELSE "idle")
        \/ keeps /\ r.who # None /\ UNCHANGED recorded /\ Become(t, "idle")
     /\ UNCHANGED <<deployment, keeps, now, pending, sessions, jwks, fetch, assigned, operator,
                    published, history, requests, restarts>>

(***************************************************************************)
(* The routes that change this state                                       *)
(***************************************************************************)
Acts(t, route) == thread[t].at = "act" /\ thread[t].route = route /\ Become(t, "idle")

(* Mutant of logout: only the cookie is cleared.                           *)
LogoutCookie(t) ==
  /\ Acts(t, "logout")
  /\ ended' = ended \cup {thread[t].cred}
  /\ UNCHANGED <<deployment, keeps, now, stores, published, begun, opened, issued,
                 retired, grants, served, requests, restarts>>

(* _revoke_browser_session                                                 *)
logout(t) ==
  /\ Acts(t, "logout")
  /\ sessions' = [sessions EXCEPT ![thread[t].cred] = None]
  /\ ended' = ended \cup {thread[t].cred}
  /\ UNCHANGED <<deployment, keeps, now, pending, jwks, fetch, assigned, recorded, operator,
                 published, begun, opened, issued, retired, grants, served,
                 requests, restarts>>

(* The role_assignments row; both stores keep one that is there.           *)
WithRole(to, role) == [assigned EXCEPT ![to] = @ \cup {role}]

assign_role(t, to, role) ==
  /\ Acts(t, "assign")
  /\ assigned' = WithRole(to, role)
  /\ grants' = Append(grants, [by |-> thread[t].who, to |-> to, role |-> role])
  /\ UNCHANGED <<deployment, keeps, now, pending, sessions, jwks, fetch, recorded, operator,
                 published, begun, opened, issued, ended, retired, served,
                 requests, restarts>>

(* OperatorKeyStore.create: a fresh key.                                   *)
create(t, o) ==
  /\ operator[o] = "absent"
  /\ Acts(t, "addkey")
  /\ operator' = [operator EXCEPT ![o] = "active"]
  /\ UNCHANGED <<deployment, keeps, now, pending, sessions, jwks, fetch, assigned, recorded,
                 published, history, requests, restarts>>

(* OperatorKeyStore.revoke: an error if it is unknown or revoked already.  *)
revoke(t, o) ==
  /\ Acts(t, "dropkey")
  /\ operator' = [operator EXCEPT ![o] = IF @ = "active" THEN "revoked" ELSE @]
  /\ UNCHANGED <<deployment, keeps, now, pending, sessions, jwks, fetch, assigned, recorded,
                 published, history, requests, restarts>>

(* Work of an operator: a job, an authorization or an execution.           *)
Work(t) ==
  /\ \E route \in {"jobs", "work"} : Acts(t, route)
  /\ served' = served \cup {[kind |-> thread[t].kind, cred |-> thread[t].cred,
                             who |-> thread[t].who, route |-> thread[t].route]}
  /\ UNCHANGED <<deployment, keeps, now, stores, published, begun, opened, issued, ended,
                 retired, grants, requests, restarts>>

(***************************************************************************)
(* The provider, time, restarts                                            *)
(***************************************************************************)
RetireKey(k) ==
  /\ deployment = "api"
  /\ published \ {k} # {}
  /\ k \in published
  /\ published' = published \ {k}
  /\ retired' = [retired EXCEPT ![k] = now]
  /\ UNCHANGED <<deployment, keeps, now, stores, thread, begun, opened, issued, ended,
                 grants, served, requests, restarts>>

Tick ==
  /\ now < MaxTime
  /\ now' = now + 1
  /\ UNCHANGED <<deployment, keeps, stores, published, thread, history, requests, restarts>>

(* What is in memory is lost; repository, roles and operator keys are in   *)
(* databases.                                                              *)
Restart ==
  /\ restarts < MaxRestarts
  /\ restarts' = restarts + 1
  /\ thread' = [t \in Threads |-> Idle]
  /\ jwks' = [keys |-> {}, expires |-> 0]
  /\ fetch' = NoFetch
  /\ pending' = IF Local THEN [l \in Logins |-> None] ELSE pending
  /\ sessions' = IF Local THEN [s \in Tokens |-> None] ELSE sessions
  /\ UNCHANGED <<deployment, keeps, now, assigned, recorded, operator, published, history,
                 requests>>

Next ==
  \/ \E t \in Threads :
       \/ \E kind \in Kinds, route \in Routes : Arrive(t, kind, route)
       \/ begin_login(t)
       \/ consume_login(t)
       \/ \E who \in Subjects : exchange_code(t, who)
       \/ \E exp \in 0..MaxTime : create_session(t, exp)
       \/ get_session(t)
       \/ Ask(t)
       \/ \E who \in Subjects : _refresh_locked(t, who)
       \/ \E who \in Subjects : get_jwks(t, who)
       \/ Invalid(t)
       \/ authenticate(t)
       \/ SharedToken(t)
       \/ roles_for(t)
       \/ record_authentication(t)
       \/ logout(t)
       \/ \E to \in Subjects, role \in Roles : assign_role(t, to, role)
       \/ \E o \in OperatorKeys : create(t, o)
       \/ \E o \in OperatorKeys : revoke(t, o)
       \/ Work(t)
  \/ \E k \in SigningKeys : RetireKey(k)
  \/ Tick
  \/ Restart

Spec == Init /\ [][Next]_vars

(***************************************************************************)
(* Properties                                                              *)
(***************************************************************************)
(* A login state opens at most one session, however often and concurrently *)
(* its callback is delivered: consume_login takes the state before the     *)
(* code is exchanged.                                                      *)
OneSessionPerLogin == \A l \in Logins : opened[l] <= 1

(* A credential that was withdrawn before the request was made does not    *)
(* authenticate it: a session that this process keeps, after its logout or *)
(* after its id token's expiry; a revoked operator key; and a token whose  *)
(* signing key was rotated out longer ago than an answer that still had it *)
(* may be under way and UrlJWKSProvider may cache it.  (A session in the   *)
(* repository authenticates nothing.)                                      *)
WithdrawnIsRefused ==
  \A t \in Threads : thread[t].at \in {"roles", "record", "act"} => ~thread[t].void

(* Every role in the identity store goes back to a platform admin by       *)
(* claim: who assigned it was one, or was made one by an earlier           *)
(* assignment.                                                             *)
AssignmentsGrounded ==
  /\ \A u \in Subjects : \A role \in assigned[u] :
       \E i \in DOMAIN grants : grants[i].to = u /\ grants[i].role = role
  /\ \A i \in DOMAIN grants :
       \/ "platform_admin" \in Claims[grants[i].by]
       \/ \E j \in 1..(i - 1) : /\ grants[j].to = grants[i].by
                                /\ grants[j].role = "platform_admin"

(* Operator work was done with the operator token; with the API's bearer   *)
(* token or an operator key, on the routes each is good for; or for an     *)
(* identity.  With an identity store, that identity's recorded             *)
(* authentications show a role that permits it, and only roles that it     *)
(* holds; without one, its claims do, and nothing is recorded of it.       *)
WorkAttributed ==
  \A w \in served :
    \/ w.kind = "token"
    \/ w.kind = "apitoken" /\ w.route = "work"
    \/ w.kind = "key" /\ w.route = "jobs"
    \/ /\ w.who # None
       /\ recorded[w.who] \subseteq Claims[w.who] \cup assigned[w.who]
       /\ (IF keeps THEN recorded ELSE Claims)[w.who] # {}
===============================================================================
