-------------------------------- MODULE Limits --------------------------------
(***************************************************************************)
(* The two tables of an API process that decide by the clock whether a     *)
(* request is taken: the hits of BoundedRateLimiter (deployment.py), asked *)
(* before every request, and the consumed token ids of JWTReplayCache      *)
(* (auth/jwt_validator.py), in memory or in an identity store              *)
(* (auth/store.py), for callers that accept one-time assertions.           *)
(*                                                                         *)
(* The code reads the clock before it takes the table's lock, so a thread  *)
(* may decide on a reading that is old by then: a step at time `now' uses  *)
(* any reading since the thread's previous step.                           *)
(***************************************************************************)
EXTENDS Naturals, FiniteSets

CONSTANTS Threads, Clients,
          Tokens,        \* signed one-time tokens: (issuer, audience, jti)
          Expiry,        \* their exp claim
          TokenStores,   \* of "memory", "database" (both identity stores)
          Limit, Window, MaxClients,   \* BoundedRateLimiter
          MaxEntries,    \* JWTReplayCache
          MaxTime,       \* bound of the clock
          MaxRequests,   \* bound of the requests
          MaxRestarts,
          Absent

(* A stamp carries the number of its request: two stamps of one reading    *)
(* are two entries of the list.                                            *)
Stamp == [read : 0..MaxTime, n : 1..MaxRequests]

ASSUME LimitsConstants ==
  /\ Expiry \in [Tokens -> Nat]
  /\ TokenStores \subseteq {"memory", "database"}
  /\ {Limit, Window, MaxClients, MaxEntries} \subseteq Nat \ {0}
  /\ {MaxTime, MaxRequests, MaxRestarts} \subseteq Nat
  /\ Absent \notin Tokens \cup Clients
  /\ \A stamps \in SUBSET Stamp : stamps # Absent

VARIABLES tokenStore,
          now,
          hits,       \* BoundedRateLimiter._hits: stamps by client
          consumed,   \* JWTReplayCache._expires or consumed_identity_tokens
          thread,     \* the request a thread works on
          admitted,   \* history: requests the limiter of this process let in
          accepted,   \* history: how often a token was accepted before its exp
          requests, restarts

limitsVars == <<tokenStore, now, hits, consumed, thread, admitted, accepted, requests, restarts>>

Idle == [at |-> "idle", client |-> Absent, token |-> Absent, since |-> 0]

LimitsTypeOK ==
  /\ tokenStore \in TokenStores
  /\ now \in 0..MaxTime
  /\ hits \in [Clients -> (SUBSET Stamp) \cup {Absent}]
  /\ Cardinality({c \in Clients : hits[c] # Absent}) <= MaxClients
  /\ consumed \subseteq Tokens
  /\ tokenStore = "memory" => Cardinality(consumed) <= MaxEntries
  /\ thread \in [Threads -> [at : {"idle", "limit", "validate", "consume"},
                             client : Clients \cup {Absent},
                             token : Tokens \cup {Absent}, since : 0..MaxTime]]
  /\ admitted \subseteq [client : Clients, read : 0..MaxTime, at : 0..MaxTime,
                         n : 1..MaxRequests]
  /\ accepted \in [Tokens -> 0..MaxRequests]
  /\ requests \in 0..MaxRequests
  /\ restarts \in 0..MaxRestarts

LimitsInit ==
  /\ tokenStore \in TokenStores
  /\ now = 0
  /\ hits = [c \in Clients |-> Absent]
  /\ consumed = {}
  /\ thread = [t \in Threads |-> Idle]
  /\ admitted = {}
  /\ accepted = [k \in Tokens |-> 0]
  /\ requests = 0
  /\ restarts = 0

(* What the clock may have said between the thread's last step and now.    *)
Readings(t) == thread[t].since..now

Become(t, at) ==
  thread' = [thread EXCEPT ![t] = IF at = "idle" THEN Idle
                                  ELSE [@ EXCEPT !.at = at, !.since = now]]

(* A request comes in; some present a one-time token.                      *)
Arrive(t, c, k) ==
  /\ thread[t].at = "idle"
  /\ requests < MaxRequests
  /\ requests' = requests + 1
  /\ thread' = [thread EXCEPT ![t] = [at |-> "limit", client |-> c,
                                      token |-> k, since |-> now]]
  /\ UNCHANGED <<tokenStore, now, hits, consumed, admitted, accepted, restarts>>

(***************************************************************************)
(* BoundedRateLimiter.allow                                                *)
(***************************************************************************)
Known(c) == hits[c] # Absent

(* No room for a client that is not in the table; none ever leaves it.     *)
TableFull(c) ==
  ~Known(c) /\ Cardinality({d \in Clients : Known(d)}) >= MaxClients

(* Mutant of Recent: a stamp leaves one tick before its window ends.       *)
RecentShort(c, read) == {h \in (IF Known(c) THEN hits[c] ELSE {}) :
                           read + 1 < h.read + Window}

Recent(c, read) == {h \in (IF Known(c) THEN hits[c] ELSE {}) :
                      read < h.read + Window}

Counted(c, read, n) ==
  [hits EXCEPT ![c] = Recent(c, read) \cup {[read |-> read, n |-> n]}]

(* Mutant of Purged: a refused request is counted too.                     *)
PurgedCounts(c, read) == Counted(c, read, requests)

(* The list without the stamps that left the window, which is written back *)
(* also when the request is refused.                                       *)
Purged(c, read) == [hits EXCEPT ![c] = Recent(c, read)]

Admit(t, read) ==
  LET c == thread[t].client
      n == 1 + Cardinality(admitted)
  IN /\ ~TableFull(c)
     /\ Cardinality(Recent(c, read)) < Limit
     /\ hits' = Counted(c, read, n)
     /\ admitted' = admitted \cup {[client |-> c, read |-> read, at |-> now, n |-> n]}
     /\ Become(t, IF thread[t].token = Absent THEN "idle" ELSE "validate")

Refuse(t, read) ==
  LET c == thread[t].client
  IN /\ \/ TableFull(c) /\ hits' = hits
        \/ /\ ~TableFull(c)
           /\ Cardinality(Recent(c, read)) >= Limit
           /\ hits' = Purged(c, read)
     /\ Become(t, "idle")
     /\ UNCHANGED admitted

allow(t) ==
  /\ thread[t].at = "limit"
  /\ \E read \in Readings(t) : Admit(t, read) \/ Refuse(t, read)
  /\ UNCHANGED <<tokenStore, now, consumed, accepted, requests, restarts>>

(***************************************************************************)
(* JWTValidator.validate_once                                              *)
(***************************************************************************)
(* OIDCValidator.validate: signature and claims are good, the rest is the  *)
(* expiry.                                                                 *)
validate(t) ==
  /\ thread[t].at = "validate"
  /\ \E read \in Readings(t) :
       Become(t, IF read < Expiry[thread[t].token] THEN "consume" ELSE "idle")
  /\ UNCHANGED <<tokenStore, now, hits, consumed, admitted, accepted, requests, restarts>>

(* Mutant of Unexpired: entries go one tick before their token expires.    *)
UnexpiredEarly(read) == {k \in consumed : Expiry[k] > read + 1}

(* The entries that a purge at a reading leaves.                           *)
Unexpired(read) == {k \in consumed : Expiry[k] > read}

(* The clock by which the table is purged: the cache's own reading, or a   *)
(* later one of the store.                                                 *)
PurgeReadings(read) == IF tokenStore = "memory" THEN {read} ELSE read..now

(* The table after a purge at `purge', in which token k is entered.  Only  *)
(* the cache in memory is bounded.  A replay rolls the store's purge back, *)
(* while the cache keeps its own.                                          *)
Entered(k, purge) ==
  /\ k \notin Unexpired(purge)
  /\ tokenStore = "memory" => Cardinality(Unexpired(purge)) < MaxEntries
  /\ consumed' = Unexpired(purge) \cup {k}
  /\ accepted' = [accepted EXCEPT ![k] = IF now < Expiry[k] THEN @ + 1 ELSE @]

Replayed(k, purge) ==
  /\ \/ k \in Unexpired(purge)
     \/ tokenStore = "memory" /\ Cardinality(Unexpired(purge)) >= MaxEntries
  /\ consumed' = IF tokenStore = "memory" THEN Unexpired(purge) ELSE consumed
  /\ UNCHANGED accepted

(* JWTReplayCache.consume and the stores' consume_token.                   *)
consume(t) ==
  LET k == thread[t].token
  IN /\ thread[t].at = "consume"
     /\ \E read \in Readings(t) :
          \/ Expiry[k] <= read /\ UNCHANGED <<consumed, accepted>>
          \/ /\ Expiry[k] > read
             /\ \E purge \in PurgeReadings(read) : Entered(k, purge) \/ Replayed(k, purge)
     /\ Become(t, "idle")
     /\ UNCHANGED <<tokenStore, now, hits, admitted, requests, restarts>>

(***************************************************************************)
(* Time and restarts                                                       *)
(***************************************************************************)
Tick ==
  /\ now < MaxTime
  /\ now' = now + 1
  /\ UNCHANGED <<tokenStore, hits, consumed, thread, admitted, accepted, requests, restarts>>

(* The limiter and the cache in memory start empty; an identity store is   *)
(* a database.                                                             *)
Restart ==
  /\ restarts < MaxRestarts
  /\ restarts' = restarts + 1
  /\ hits' = [c \in Clients |-> Absent]
  /\ consumed' = IF tokenStore = "memory" THEN {} ELSE consumed
  /\ thread' = [t \in Threads |-> Idle]
  /\ admitted' = {}
  /\ UNCHANGED <<tokenStore, now, accepted, requests>>

LimitsNext ==
  \/ \E t \in Threads : \/ \E c \in Clients, k \in Tokens \cup {Absent} : Arrive(t, c, k)
                        \/ allow(t)
                        \/ validate(t)
                        \/ consume(t)
  \/ Tick
  \/ Restart

LimitsSpec == LimitsInit /\ [][LimitsNext]_limitsVars

(***************************************************************************)
(* Properties                                                              *)
(***************************************************************************)
Within(c, first) == {a \in admitted : /\ a.client = c
                                      /\ first <= a.read
                                      /\ a.at < first + Window}

(* Of the requests of a client that arrive and are let in within one       *)
(* window, BoundedRateLimiter.allow lets in at most the limit, whatever    *)
(* stale readings other threads purge or count with meanwhile.             *)
RateWindow ==
  \A c \in Clients, first \in 0..MaxTime : Cardinality(Within(c, first)) <= Limit

(* allow refuses a client that is in the table only if the limit was used  *)
(* up by requests it let in during the window: refused requests, and ones  *)
(* that have left the window, do not count against the client.             *)
RefusedForCause ==
  [][\A t \in Threads :
       (thread[t].at = "limit" /\ admitted' = admitted /\ thread'[t] = Idle
          /\ restarts' = restarts /\ ~TableFull(thread[t].client))
       => Cardinality({a \in admitted : /\ a.client = thread[t].client
                                        /\ thread[t].since < a.read + Window}) >= Limit]_limitsVars

(* validate_once accepts a token at most once while it is valid, also when *)
(* threads stall between the clock, the validation and the table, and, in  *)
(* an identity store, across restarts.  (After its expiry a stalled thread *)
(* may accept it once more: the entry is purged by then.)                  *)
OnceWhileValid ==
  (tokenStore = "memory" => restarts = 0) => \A k \in Tokens : accepted[k] <= 1
===============================================================================
