--------------------------- MODULE RequestProofs ---------------------------
(***************************************************************************)
(* Proofs about the path of a request: it is let in by the rate limiter    *)
(* and its one-time token accepted (Limits), its authorization is decided  *)
(* (Decisions), and what it authorizes is queued and run (JobQueue).  Each *)
(* part is proved by itself, for every number of threads, clients, tokens, *)
(* mesh inputs, jobs and workers, and any delays, failures and restarts.   *)
(***************************************************************************)
EXTENDS JobQueue, Limits, Decisions, FiniteSetTheorems, TLAPS

-----------------------------------------------------------------------------
(* The rate limiter and the consumed tokens.                               *)

(* Threads that have not been to the limiter yet, and all that have a      *)
(* request; the clients in the limiter's table.                            *)
Limiting == {t \in Threads : thread[t].at = "limit"}
Busy == {t \in Threads : thread[t].at # "idle"}
KnownClients == {c \in Clients : Known(c)}

(* The kind of a thread's request. *)
Serving == [at : {"idle", "limit", "validate", "consume"},
            client : Clients \cup {Absent}, token : Tokens \cup {Absent},
            since : 0..MaxTime]

(* What a thread that has a request knows of it. *)
RequestsInv ==
  \A t \in Threads :
    /\ thread[t].since <= now
    /\ thread[t].at # "idle" => thread[t].client \in Clients
    /\ thread[t].at \in {"validate", "consume"} => thread[t].token \in Tokens

(* A request is admitted once, and a token accepted once for it. *)
CountInv ==
  /\ IsFiniteSet(Busy) /\ IsFiniteSet(admitted)
  /\ Cardinality(admitted) + Cardinality(Limiting) <= requests
  /\ \A k \in Tokens : accepted[k] + Cardinality(Busy) <= requests

(* The tables are finite: entries are made one at a time. *)
TablesInv == IsFiniteSet(KnownClients) /\ IsFiniteSet(consumed)

StampOf(a) == [read |-> a.read, n |-> a.n]

(* The limiter's stamps are those of admitted requests, and none is gone   *)
(* whose window has not ended by the clock, let alone by an older reading. *)
StampsInv ==
  /\ \A a \in admitted : a.n <= Cardinality(admitted)
  /\ \A a, b \in admitted : a.n = b.n => a = b
  /\ \A a \in admitted : now < a.read + Window =>
       Known(a.client) /\ StampOf(a) \in hits[a.client]
  /\ \A c \in Clients : Known(c) =>
       \A h \in hits[c] : \E a \in admitted : a.client = c /\ StampOf(a) = h

(* A token accepted while valid stays in the table until it expires. *)
TokensInv ==
  (tokenStore = "memory" => restarts = 0) =>
    \A k \in Tokens :
      /\ accepted[k] <= 1
      /\ accepted[k] = 1 /\ now < Expiry[k] => k \in consumed

LInv == /\ LimitsTypeOK /\ RequestsInv /\ CountInv /\ TablesInv
        /\ StampsInv /\ TokensInv /\ RateWindow

(* A thread that goes on, or ends its request, leaves the limiter's queue. *)
LEMMA BecomeFacts ==
  ASSUME LimitsTypeOK, RequestsInv, now' = now, NEW t \in Threads,
         NEW at \in {"idle", "validate", "consume"}, thread[t].at # "idle",
         at # "idle" => thread[t].token \in Tokens, Become(t, at)
  PROVE  /\ thread' \in [Threads -> Serving]
         /\ RequestsInv'
         /\ \A u \in Threads : u # t => thread'[u] = thread[u]
         /\ t \in Busy
         /\ Limiting' = Limiting \ {t}
         /\ Busy' = IF at = "idle" THEN Busy \ {t} ELSE Busy
         /\ at # "idle" => thread'[t].at = at
<1> USE LimitsConstants
<1> DEFINE next == IF at = "idle" THEN Idle
                   ELSE [thread[t] EXCEPT !.at = at, !.since = now]
<1>0. thread' = [thread EXCEPT ![t] = next]
  BY DEF Become
<1>1. /\ \A u \in Threads : u # t => thread'[u] = thread[u]
      /\ thread'[t] = next
      /\ thread' = [u \in Threads |-> thread'[u]]
  <2>1. thread \in [Threads -> Serving]
    BY DEF LimitsTypeOK, Serving
  <2> HIDE DEF next
  <2> QED
    BY <1>0, <2>1
<1>2. /\ thread[t] \in Serving
      /\ now \in 0..MaxTime /\ now \in Nat
  BY DEF LimitsTypeOK, Serving
<1>3. /\ thread'[t] \in Serving
      /\ thread'[t].at = at
      /\ thread'[t].since <= now
      /\ at # "idle" => /\ thread'[t].client = thread[t].client
                        /\ thread'[t].token = thread[t].token
  <2>1. CASE at = "idle"
    BY <1>1, <1>2, <2>1 DEF Idle, Serving
  <2>2. CASE at # "idle"
    <3>1. thread'[t] = [at |-> at, client |-> thread[t].client,
                        token |-> thread[t].token, since |-> now]
      BY <1>1, <1>2, <2>2 DEF Serving
    <3> QED
      BY <1>2, <2>2, <3>1 DEF Serving
  <2> QED
    BY <2>1, <2>2
<1>4. RequestsInv'
  BY <1>1, <1>3 DEF RequestsInv
<1>5. /\ Limiting' = Limiting \ {t}
      /\ Busy' = IF at = "idle" THEN Busy \ {t} ELSE Busy
      /\ t \in Busy
  <2>1. thread'[t].at # "limit"
    BY <1>3
  <2>2. \A u \in Threads : /\ u \in Limiting' <=> thread'[u].at = "limit"
                          /\ u \in Busy' <=> thread'[u].at # "idle"
    BY DEF Limiting, Busy
  <2>3. \A u \in Threads : u \in Limiting' <=> u \in Limiting \ {t}
    BY <1>1, <2>1, <2>2 DEF Limiting
  <2>4. \A u \in Threads : u \in Busy' <=>
                            u \in (IF at = "idle" THEN Busy \ {t} ELSE Busy)
    BY <1>1, <1>3, <2>2 DEF Busy
  <2>5. /\ Limiting \subseteq Threads /\ Limiting' \subseteq Threads
        /\ Busy \subseteq Threads /\ Busy' \subseteq Threads /\ t \in Busy
    BY DEF Limiting, Busy
  <2> QED
    BY <2>3, <2>4, <2>5
<1>6. thread' \in [Threads -> Serving]
  BY <1>1, <1>3 DEF LimitsTypeOK, Serving
<1> QED
  BY <1>1, <1>3, <1>4, <1>5, <1>6

(* The counters of a thread that leaves the limiter, or ends its request. *)
LEMMA CountFacts ==
  ASSUME LInv
  PROVE  /\ Cardinality(admitted) \in Nat /\ Cardinality(Limiting) \in Nat
         /\ Cardinality(Busy) \in Nat /\ IsFiniteSet(Limiting)
         /\ requests \in Nat /\ requests <= MaxRequests /\ MaxRequests \in Nat
         /\ \A k \in Tokens : accepted[k] \in Nat
         /\ \A t \in Limiting : /\ Cardinality(Limiting \ {t}) = Cardinality(Limiting) - 1
                                /\ Cardinality(Limiting) > 0
         /\ \A t \in Busy : /\ IsFiniteSet(Busy \ {t})
                            /\ Cardinality(Busy \ {t}) = Cardinality(Busy) - 1
                            /\ Cardinality(Busy) > 0
<1>1. Limiting \subseteq Busy
  BY DEF Limiting, Busy
<1>2. /\ IsFiniteSet(Limiting) /\ IsFiniteSet(Busy) /\ IsFiniteSet(admitted)
  BY <1>1, FS_Subset DEF LInv, CountInv
<1>3. /\ Cardinality(admitted) \in Nat /\ Cardinality(Limiting) \in Nat
      /\ Cardinality(Busy) \in Nat
  BY <1>2, FS_CardinalityType
<1>4. \A t \in Limiting : /\ Cardinality(Limiting \ {t}) = Cardinality(Limiting) - 1
                          /\ Cardinality(Limiting) > 0
  <2> TAKE t \in Limiting
  <2>1. Cardinality(Limiting \ {t}) = Cardinality(Limiting) - 1
    BY <1>2, FS_RemoveElement
  <2>2. Cardinality(Limiting \ {t}) \in Nat
    BY <1>2, FS_RemoveElement, FS_CardinalityType
  <2> QED
    BY <1>3, <2>1, <2>2
<1>5. \A t \in Busy : /\ IsFiniteSet(Busy \ {t})
                      /\ Cardinality(Busy \ {t}) = Cardinality(Busy) - 1
                      /\ Cardinality(Busy) > 0
  <2> TAKE t \in Busy
  <2>1. IsFiniteSet(Busy \ {t}) /\ Cardinality(Busy \ {t}) = Cardinality(Busy) - 1
    BY <1>2, FS_RemoveElement
  <2>2. Cardinality(Busy \ {t}) \in Nat
    BY <2>1, FS_CardinalityType
  <2> QED
    BY <1>3, <2>1, <2>2
<1>6. /\ requests \in Nat /\ requests <= MaxRequests /\ MaxRequests \in Nat
      /\ \A k \in Tokens : accepted[k] \in Nat
  BY LimitsConstants DEF LInv, LimitsTypeOK
<1> QED
  BY <1>2, <1>3, <1>4, <1>5, <1>6

(* Stamps of admitted requests are no more than these requests. *)
LEMMA CountStamps ==
  ASSUME LInv, NEW H, NEW A \in SUBSET admitted,
         \A h \in H : \E a \in A : StampOf(a) = h
  PROVE  IsFiniteSet(H) /\ Cardinality(H) <= Cardinality(A)
<1> DEFINE f == [h \in H |-> CHOOSE a \in A : StampOf(a) = h]
<1>1. \A h \in H : f[h] \in A /\ StampOf(f[h]) = h
  OBVIOUS
<1> HIDE DEF f
<1>2. f \in [H -> A]
  BY <1>1 DEF f
<1>3. f \in Injection(H, A)
  BY <1>1, <1>2 DEF Injection, IsInjective
<1>4. IsFiniteSet(A)
  BY FS_Subset DEF LInv, CountInv
<1> QED
  BY <1>3, <1>4, FS_Injection

(* Admitted requests are no more than their stamps. *)
LEMMA CountAdmitted ==
  ASSUME LInv, NEW H, IsFiniteSet(H), NEW A \in SUBSET admitted,
         \A a \in A : StampOf(a) \in H
  PROVE  Cardinality(A) <= Cardinality(H)
<1> DEFINE f == [a \in A |-> StampOf(a)]
<1>1. f \in [A -> H]
  OBVIOUS
<1>2. ASSUME NEW a \in A, NEW b \in A, f[a] = f[b] PROVE a = b
  BY <1>2 DEF StampOf, LInv, StampsInv
<1>3. f \in Injection(A, H)
  BY <1>1, <1>2 DEF Injection, IsInjective
<1> QED
  BY <1>3, FS_Injection

(* The limiter's list of a client at a reading of the clock: stamps of     *)
(* requests it let in, among them all whose window is open.                *)
LEMMA RecentFacts ==
  ASSUME LInv, NEW c \in Clients, NEW read \in 0..now
  PROVE  /\ Recent(c, read) \in SUBSET Stamp
         /\ IsFiniteSet(Recent(c, read)) /\ Cardinality(Recent(c, read)) \in Nat
         /\ \A h \in Recent(c, read) :
              /\ read < h.read + Window
              /\ \E a \in admitted : a.client = c /\ StampOf(a) = h
         /\ \A a \in admitted :
              a.client = c /\ now < a.read + Window => StampOf(a) \in Recent(c, read)
<1>1. /\ now \in Nat /\ read \in Nat /\ Window \in Nat
      /\ Known(c) => hits[c] \in SUBSET Stamp
      /\ \A a \in admitted : a.read \in Nat /\ StampOf(a).read = a.read
  <2>1. now \in Nat /\ read \in Nat /\ Window \in Nat
    BY LimitsConstants DEF LInv, LimitsTypeOK
  <2>2. Known(c) => hits[c] \in SUBSET Stamp
    BY DEF LInv, LimitsTypeOK, Known
  <2>3. \A a \in admitted : a.read \in Nat /\ StampOf(a).read = a.read
    BY DEF LInv, LimitsTypeOK, StampOf
  <2> QED
    BY <2>1, <2>2, <2>3
<1>2. \A h \in Recent(c, read) :
        /\ h \in Stamp /\ Known(c) /\ h \in hits[c]
        /\ read < h.read + Window
  BY <1>1 DEF Recent
<1>3. \A h \in Recent(c, read) :
        \E a \in admitted : a.client = c /\ StampOf(a) = h
  BY <1>2 DEF LInv, StampsInv
<1>4. IsFiniteSet(Recent(c, read))
  BY <1>3, CountStamps
<1>5. ASSUME NEW a \in admitted, a.client = c, now < a.read + Window
      PROVE  StampOf(a) \in Recent(c, read)
  <2>1. Known(c) /\ StampOf(a) \in hits[c]
    BY <1>5 DEF LInv, StampsInv
  <2>2. read < StampOf(a).read + Window
    BY <1>1, <1>5
  <2> QED
    BY <2>1, <2>2 DEF Recent
<1> QED
  BY <1>2, <1>3, <1>4, <1>5, FS_CardinalityType

(* The table after the client's list was written back. *)
LEMMA TableFacts ==
  ASSUME LInv, NEW c \in Clients, ~ TableFull(c), NEW R \in SUBSET Stamp,
         hits' = [hits EXCEPT ![c] = R]
  PROVE  /\ hits' \in [Clients -> (SUBSET Stamp) \cup {Absent}]
         /\ hits'[c] = R /\ \A d \in Clients : d # c => hits'[d] = hits[d]
         /\ hits'[c] # Absent
         /\ \A d \in Clients : d # c => (Known(d)' <=> Known(d))
         /\ IsFiniteSet(KnownClients')
         /\ Cardinality(KnownClients') <= MaxClients
<1> USE LimitsConstants
<1>1. /\ hits' \in [Clients -> (SUBSET Stamp) \cup {Absent}]
      /\ hits'[c] = R /\ R # Absent
      /\ \A d \in Clients : d # c => hits'[d] = hits[d]
  BY DEF LInv, LimitsTypeOK
<1>2. hits'[c] # Absent /\ \A d \in Clients : d # c => (Known(d)' <=> Known(d))
  BY <1>1 DEF Known
<1>3. KnownClients' = KnownClients \cup {c}
  BY <1>2 DEF KnownClients, Known
<1>4. /\ IsFiniteSet(KnownClients) /\ Cardinality(KnownClients) <= MaxClients
      /\ Cardinality(KnownClients) \in Nat /\ MaxClients \in Nat
      /\ c \notin KnownClients => Cardinality(KnownClients) < MaxClients
  <2>1. KnownClients = {d \in Clients : hits[d] # Absent}
    BY DEF KnownClients, Known
  <2>2. c \notin KnownClients => ~ (Cardinality(KnownClients) >= MaxClients)
    BY DEF TableFull, KnownClients
  <2>3. IsFiniteSet(KnownClients) /\ Cardinality(KnownClients) <= MaxClients
    BY <2>1 DEF LInv, LimitsTypeOK, TablesInv
  <2>4. Cardinality(KnownClients) \in Nat /\ MaxClients \in Nat
    BY <2>3, FS_CardinalityType
  <2> QED
    BY <2>2, <2>3, <2>4
<1>5. IsFiniteSet(KnownClients') /\ Cardinality(KnownClients') <= MaxClients
  <2>1. /\ IsFiniteSet(KnownClients \cup {c})
        /\ Cardinality(KnownClients \cup {c}) =
             IF c \in KnownClients THEN Cardinality(KnownClients)
             ELSE Cardinality(KnownClients) + 1
    BY <1>4, FS_AddElement
  <2>2. Cardinality(KnownClients \cup {c}) <= MaxClients
    BY <1>4, <2>1
  <2> QED
    BY <1>3, <2>1, <2>2
<1> QED
  BY <1>1, <1>2, <1>5

(* A request is let in. *)
LEMMA AdmitStep ==
  ASSUME LInv, NEW t \in Threads, thread[t].at = "limit",
         NEW read \in Readings(t), Admit(t, read),
         UNCHANGED <<tokenStore, now, consumed, accepted, requests, restarts>>
  PROVE  LInv' /\ admitted' # admitted
<1> USE LimitsConstants
<1> DEFINE c == thread[t].client
           n == 1 + Cardinality(admitted)
           R == Recent(c, read)
           s == [read |-> read, n |-> n]
           a == [client |-> c, read |-> read, at |-> now, n |-> n]
           at == IF thread[t].token = Absent THEN "idle" ELSE "validate"
<1>1. /\ now \in 0..MaxTime /\ now \in Nat /\ c \in Clients
      /\ read \in 0..now /\ read \in 0..MaxTime /\ t \in Limiting /\ t \in Busy
      /\ Limit \in Nat /\ Window \in Nat
  <2>1. /\ now \in 0..MaxTime /\ now \in Nat /\ c \in Clients /\ MaxTime \in Nat
        /\ thread[t].since \in Nat /\ thread[t].since <= now
    BY DEF LInv, LimitsTypeOK, RequestsInv
  <2>2. read \in 0..now /\ read \in 0..MaxTime
    BY <2>1 DEF Readings
  <2> QED
    BY <2>1, <2>2 DEF Limiting, Busy
<1>2. /\ ~ TableFull(c) /\ Cardinality(R) < Limit
      /\ hits' = [hits EXCEPT ![c] = R \cup {s}]
      /\ admitted' = admitted \cup {a}
      /\ Become(t, at)
  BY DEF Admit, Counted
<1>3. /\ R \in SUBSET Stamp /\ IsFiniteSet(R) /\ Cardinality(R) \in Nat
      /\ \A h \in R : \E b \in admitted : b.client = c /\ StampOf(b) = h
      /\ \A b \in admitted :
           b.client = c /\ now < b.read + Window => StampOf(b) \in R
  BY <1>1, RecentFacts
<1>4. /\ n \in 1..MaxRequests /\ Cardinality(admitted) \in Nat
      /\ n + Cardinality(Limiting \ {t}) <= requests
      /\ IsFiniteSet(admitted)
  BY <1>1, CountFacts DEF LInv, CountInv
<1>5. /\ a.client = c /\ a.read = read /\ a.at = now /\ a.n = n
      /\ StampOf(a) = s /\ s \in Stamp
      /\ a \in [client : Clients, read : 0..MaxTime, at : 0..MaxTime,
                n : 1..MaxRequests]
  BY <1>1, <1>4 DEF StampOf, Stamp
<1>6. /\ a \notin admitted /\ \A b \in admitted : b.n # n
      /\ \A b \in admitted : b.n \in Nat /\ b.read \in Nat
  BY <1>4, <1>5 DEF LInv, StampsInv, LimitsTypeOK
<1>7. IsFiniteSet(admitted') /\ Cardinality(admitted') = n
  <2>1. /\ IsFiniteSet(admitted \cup {a})
        /\ Cardinality(admitted \cup {a}) =
             IF a \in admitted THEN Cardinality(admitted) ELSE Cardinality(admitted) + 1
    <3> HIDE DEF a
    <3> QED
      BY <1>4, FS_AddElement
  <2> QED
    BY <1>2, <1>4, <1>6, <2>1
<1> HIDE DEF n, s, a, R
<1>8. /\ hits' \in [Clients -> (SUBSET Stamp) \cup {Absent}]
      /\ hits'[c] = R \cup {s} /\ \A d \in Clients : d # c => hits'[d] = hits[d]
      /\ hits'[c] # Absent /\ \A d \in Clients : d # c => (Known(d)' <=> Known(d))
      /\ IsFiniteSet(KnownClients') /\ Cardinality(KnownClients') <= MaxClients
  <2>1. R \cup {s} \in SUBSET Stamp
    BY <1>3, <1>5
  <2> HIDE DEF c
  <2> QED
    BY <1>1, <1>2, <2>1, TableFacts DEF Known
<1>9. /\ thread' \in [Threads -> Serving] /\ RequestsInv'
      /\ Limiting' = Limiting \ {t}
      /\ Busy' = IF at = "idle" THEN Busy \ {t} ELSE Busy
  <2>1. thread[t].token \in Tokens \cup {Absent}
    BY DEF LInv, LimitsTypeOK
  <2>2. at \in {"idle", "validate", "consume"} /\ (at # "idle" => thread[t].token \in Tokens)
    BY <2>1
  <2> HIDE DEF at
  <2> QED
    BY <1>2, <2>2, BecomeFacts DEF LInv
<1>10. CountInv'
  <2>1. IsFiniteSet(Busy') /\ Cardinality(Busy') <= Cardinality(Busy)
    <3>1. IsFiniteSet(Busy) /\ Cardinality(Busy) \in Nat
      BY CountFacts DEF LInv, CountInv
    <3>2. IsFiniteSet(Busy \ {t}) /\ Cardinality(Busy \ {t}) = Cardinality(Busy) - 1
      BY <1>1, CountFacts
    <3>3. Busy' = Busy \/ Busy' = Busy \ {t}
      BY <1>9
    <3> QED
      BY <3>1, <3>2, <3>3
  <2>2. /\ Cardinality(Busy) \in Nat /\ Cardinality(Busy') \in Nat
        /\ requests \in Nat /\ \A k \in Tokens : accepted[k] \in Nat
    BY <2>1, CountFacts, FS_CardinalityType
  <2>3. \A k \in Tokens : accepted'[k] + Cardinality(Busy') <= requests'
    BY <2>1, <2>2 DEF LInv, CountInv
  <2>4. Cardinality(admitted') + Cardinality(Limiting') <= requests'
    BY <1>4, <1>7, <1>9
  <2> QED
    BY <1>7, <2>1, <2>3, <2>4 DEF CountInv
<1>11. LimitsTypeOK'
  <2>1. KnownClients' = {d \in Clients : hits'[d] # Absent}
    BY DEF KnownClients, Known
  <2> QED
    BY <1>2, <1>5, <1>8, <1>9, <2>1 DEF LInv, LimitsTypeOK, Serving
<1>12. StampsInv'
  <2>1. \A b \in admitted' : b.n <= Cardinality(admitted')
    BY <1>2, <1>4, <1>5, <1>6, <1>7 DEF LInv, StampsInv, n
  <2>2. \A b, d \in admitted' : b.n = d.n => b = d
    BY <1>2, <1>5, <1>6 DEF LInv, StampsInv
  <2>3. ASSUME NEW b \in admitted', now < b.read + Window
        PROVE  hits'[b.client] # Absent /\ StampOf(b) \in hits'[b.client]
    <3>1. CASE b = a
      BY <1>5, <1>8, <3>1
    <3>2. CASE b \in admitted /\ b.client = c
      BY <1>3, <1>8, <2>3, <3>2
    <3>3. CASE b \in admitted /\ b.client # c
      <4>1. b.client \in Clients
        BY <3>3 DEF LInv, LimitsTypeOK
      <4> QED
        BY <1>8, <2>3, <3>3, <4>1 DEF LInv, StampsInv, Known
    <3> QED
      BY <1>2, <3>1, <3>2, <3>3
  <2>4. ASSUME NEW d \in Clients, hits'[d] # Absent, NEW h \in hits'[d]
        PROVE  \E b \in admitted' : b.client = d /\ StampOf(b) = h
    <3>1. CASE d = c
      BY <1>2, <1>3, <1>5, <1>8, <2>4, <3>1
    <3>2. CASE d # c
      <4>1. Known(d) /\ h \in hits[d]
        BY <1>8, <2>4, <3>2 DEF Known
      <4> QED
        BY <1>2, <2>4, <4>1 DEF LInv, StampsInv
    <3> QED
      BY <3>1, <3>2
  <2>5. \A b : StampOf(b)' = StampOf(b)
    BY DEF StampOf
  <2> QED
    BY <2>1, <2>2, <2>3, <2>4, <2>5 DEF StampsInv, Known
<1>13. TokensInv'
  BY DEF LInv, TokensInv
<1>14. RateWindow'
  <2> SUFFICES ASSUME NEW d \in Clients, NEW first \in 0..MaxTime
               PROVE  Cardinality(Within(d, first)') <= Limit
    BY DEF RateWindow
  <2> DEFINE W == Within(d, first)
  <2>1. W \in SUBSET admitted /\ Cardinality(W) <= Limit /\ IsFiniteSet(W)
    BY <1>4, FS_Subset DEF Within, LInv, RateWindow
  <2>2. CASE ~ (d = c /\ first <= read /\ now < first + Window)
    <3>1. Within(d, first)' = W
      BY <1>2, <1>5, <2>2 DEF Within
    <3> QED
      BY <2>1, <3>1
  <2>3. CASE d = c /\ first <= read /\ now < first + Window
    <3>1. Within(d, first)' = W \cup {a}
      BY <1>2, <1>5, <2>3 DEF Within
    <3>2. ASSUME NEW b \in W PROVE StampOf(b) \in R
      <4>1. b \in admitted /\ b.client = c /\ first <= b.read
        BY <2>3 DEF Within
      <4>2. now < b.read + Window
        BY <1>1, <1>6, <2>3, <4>1
      <4> QED
        BY <1>3, <4>1, <4>2
    <3>3. Cardinality(W) <= Cardinality(R)
      BY <1>3, <2>1, <3>2, CountAdmitted
    <3>4. Cardinality(W \cup {a}) <= Cardinality(W) + 1 /\ Cardinality(W) \in Nat
      <4>1. Cardinality(W) \in Nat
        BY <2>1, FS_CardinalityType
      <4>2. Cardinality(W \cup {a}) =
              IF a \in W THEN Cardinality(W) ELSE Cardinality(W) + 1
        BY <2>1, FS_AddElement
      <4> QED
        BY <4>1, <4>2
    <3>5. Cardinality(W) < Limit
      BY <1>1, <1>2, <1>3, <3>3, <3>4
    <3>6. Cardinality(W \cup {a}) \in Nat
      BY <2>1, FS_AddElement, FS_CardinalityType
    <3> QED
      BY <1>1, <3>1, <3>4, <3>5, <3>6
  <2> QED
    BY <2>2, <2>3
<1> QED
  BY <1>2, <1>6, <1>8, <1>9, <1>10, <1>11, <1>12, <1>13, <1>14
     DEF LInv, TablesInv

(* The counters when a thread ends its request, or goes on with it, and    *)
(* nothing is admitted or accepted.                                        *)
LEMMA CountKept ==
  ASSUME LInv, NEW t \in Busy, UNCHANGED <<admitted, accepted, requests>>,
         Limiting' = Limiting \ {t}, Busy' = Busy \/ Busy' = Busy \ {t}
  PROVE  CountInv'
<1>1. /\ IsFiniteSet(Busy') /\ Cardinality(Busy') <= Cardinality(Busy)
      /\ Cardinality(Busy) \in Nat /\ Cardinality(Busy') \in Nat
  <2>1. IsFiniteSet(Busy) /\ Cardinality(Busy) \in Nat
    BY CountFacts DEF LInv, CountInv
  <2>2. IsFiniteSet(Busy \ {t}) /\ Cardinality(Busy \ {t}) = Cardinality(Busy) - 1
    BY CountFacts
  <2>3. IsFiniteSet(Busy') /\ Cardinality(Busy') <= Cardinality(Busy)
    BY <2>1, <2>2
  <2> QED
    BY <2>1, <2>3, FS_CardinalityType
<1>2. Cardinality(Limiting') <= Cardinality(Limiting) /\ Cardinality(Limiting') \in Nat
  <2>1. IsFiniteSet(Limiting) /\ Limiting' \in SUBSET Limiting
    BY CountFacts
  <2> QED
    BY <2>1, FS_Subset, FS_CardinalityType
<1>3. /\ Cardinality(admitted) \in Nat /\ Cardinality(Limiting) \in Nat
      /\ requests \in Nat /\ \A k \in Tokens : accepted[k] \in Nat
  BY CountFacts
<1>4. Cardinality(admitted') + Cardinality(Limiting') <= requests'
  BY <1>2, <1>3 DEF LInv, CountInv
<1>5. \A k \in Tokens : accepted'[k] + Cardinality(Busy') <= requests'
  BY <1>1, <1>3 DEF LInv, CountInv
<1> QED
  BY <1>1, <1>4, <1>5 DEF LInv, CountInv

(* A request is refused, and the client's list may be written back. *)
LEMMA RefuseStep ==
  ASSUME LInv, NEW t \in Threads, thread[t].at = "limit",
         NEW read \in Readings(t), Refuse(t, read),
         UNCHANGED <<tokenStore, now, consumed, accepted, requests, restarts>>
  PROVE  LInv'
<1> USE LimitsConstants
<1> DEFINE c == thread[t].client
           R == Recent(c, read)
<1>1. /\ now \in Nat /\ c \in Clients /\ read \in 0..now /\ t \in Busy
  <2>1. /\ now \in Nat /\ c \in Clients
        /\ thread[t].since \in Nat /\ thread[t].since <= now
    BY DEF LInv, LimitsTypeOK, RequestsInv
  <2> QED
    BY <2>1 DEF Readings, Busy
<1>2. /\ thread' \in [Threads -> Serving] /\ RequestsInv'
      /\ Limiting' = Limiting \ {t} /\ Busy' = Busy \ {t} /\ admitted' = admitted
  BY BecomeFacts DEF LInv, Refuse
<1>3. CountInv'
  BY <1>1, <1>2, CountKept
<1>4. TokensInv' /\ RateWindow'
  BY <1>2 DEF LInv, TokensInv, RateWindow, Within
<1>5. \A b : StampOf(b)' = StampOf(b)
  BY DEF StampOf
<1>6. /\ KnownClients = {d \in Clients : hits[d] # Absent}
      /\ KnownClients' = {d \in Clients : hits'[d] # Absent}
  BY DEF KnownClients, Known
<1>7. CASE hits' = hits
  <2>1. LimitsTypeOK'
    BY <1>2, <1>7 DEF LInv, LimitsTypeOK, Serving
  <2>2. TablesInv'
    BY <1>6, <1>7 DEF LInv, TablesInv
  <2>3. StampsInv'
    BY <1>2, <1>5, <1>7 DEF LInv, StampsInv, Known
  <2> QED
    BY <1>2, <1>3, <1>4, <2>1, <2>2, <2>3 DEF LInv
<1>8. CASE ~ TableFull(c) /\ hits' = [hits EXCEPT ![c] = R]
  <2>1. /\ R \in SUBSET Stamp
        /\ \A h \in R : \E b \in admitted : b.client = c /\ StampOf(b) = h
        /\ \A b \in admitted :
             b.client = c /\ now < b.read + Window => StampOf(b) \in R
    BY <1>1, RecentFacts
  <2> HIDE DEF R
  <2>2. /\ hits' \in [Clients -> (SUBSET Stamp) \cup {Absent}]
        /\ hits'[c] = R /\ \A d \in Clients : d # c => hits'[d] = hits[d]
        /\ hits'[c] # Absent
        /\ IsFiniteSet(KnownClients') /\ Cardinality(KnownClients') <= MaxClients
    <3> HIDE DEF c
    <3> QED
      BY <1>1, <1>8, <2>1, TableFacts
  <2>3. LimitsTypeOK'
    BY <1>2, <1>6, <2>2 DEF LInv, LimitsTypeOK, Serving
  <2>4. ASSUME NEW b \in admitted, now < b.read + Window
        PROVE  hits'[b.client] # Absent /\ StampOf(b) \in hits'[b.client]
    <3>1. b.client \in Clients
      BY DEF LInv, LimitsTypeOK
    <3>2. Known(b.client) /\ StampOf(b) \in hits[b.client]
      BY <2>4 DEF LInv, StampsInv
    <3> QED
      BY <2>1, <2>2, <2>4, <3>1, <3>2 DEF Known
  <2>5. ASSUME NEW d \in Clients, hits'[d] # Absent, NEW h \in hits'[d]
        PROVE  \E b \in admitted : b.client = d /\ StampOf(b) = h
    BY <2>1, <2>2, <2>5 DEF LInv, StampsInv, Known
  <2>6. StampsInv'
    BY <1>2, <1>5, <2>4, <2>5 DEF LInv, StampsInv, Known
  <2> QED
    BY <1>2, <1>3, <1>4, <2>2, <2>3, <2>6 DEF LInv, TablesInv
<1> QED
  BY <1>7, <1>8 DEF Refuse, Purged

(* A request comes in. *)
LEMMA ArriveStep ==
  ASSUME LInv, NEW t \in Threads, NEW c \in Clients,
         NEW k \in Tokens \cup {Absent}, Arrive(t, c, k)
  PROVE  LInv'
<1> USE LimitsConstants
<1> DEFINE w == [at |-> "limit", client |-> c, token |-> k, since |-> now]
<1>1. /\ thread[t].at = "idle" /\ requests < MaxRequests /\ requests' = requests + 1
      /\ thread' = [thread EXCEPT ![t] = w]
      /\ UNCHANGED <<tokenStore, now, hits, consumed, admitted, accepted, restarts>>
  BY DEF Arrive
<1>2. w \in Serving /\ w.at = "limit" /\ w.client = c /\ w.since = now
  BY DEF Serving, LInv, LimitsTypeOK
<1> HIDE DEF w
<1>3. /\ thread' \in [Threads -> Serving] /\ thread'[t] = w
      /\ \A u \in Threads : u # t => thread'[u] = thread[u]
  BY <1>1, <1>2 DEF LInv, LimitsTypeOK, Serving
<1>4. RequestsInv'
  BY <1>1, <1>2, <1>3 DEF LInv, LimitsTypeOK, RequestsInv
<1>5. /\ Limiting' = Limiting \cup {t} /\ t \notin Limiting
      /\ Busy' = Busy \cup {t} /\ t \notin Busy
  BY <1>1, <1>2, <1>3 DEF Limiting, Busy
<1>6. CountInv'
  <2>1. /\ IsFiniteSet(Busy') /\ Cardinality(Busy') = Cardinality(Busy) + 1
        /\ Cardinality(Limiting') = Cardinality(Limiting) + 1
    BY <1>5, CountFacts, FS_AddElement DEF LInv, CountInv
  <2>2. /\ Cardinality(admitted) \in Nat /\ Cardinality(Limiting) \in Nat
        /\ Cardinality(Busy) \in Nat /\ requests \in Nat
        /\ \A j \in Tokens : accepted[j] \in Nat
    BY CountFacts
  <2> QED
    BY <1>1, <2>1, <2>2 DEF LInv, CountInv
<1>7. LimitsTypeOK'
  BY <1>1, <1>3 DEF LInv, LimitsTypeOK, Serving
<1>8. TablesInv' /\ TokensInv' /\ RateWindow'
  BY <1>1 DEF LInv, TablesInv, KnownClients, Known, TokensInv, RateWindow, Within
<1>9. StampsInv'
  BY <1>1 DEF LInv, StampsInv, Known, StampOf
<1> QED
  BY <1>4, <1>6, <1>7, <1>8, <1>9 DEF LInv

(* The expiry of the token is checked. *)
LEMMA ValidateTokenStep ==
  ASSUME LInv, NEW t \in Threads, validate(t)
  PROVE  LInv'
<1> USE LimitsConstants
<1>1. PICK read \in Readings(t) :
        Become(t, IF read < Expiry[thread[t].token] THEN "consume" ELSE "idle")
  BY DEF validate
<1> DEFINE at == IF read < Expiry[thread[t].token] THEN "consume" ELSE "idle"
<1>2. /\ UNCHANGED <<tokenStore, now, hits, consumed, admitted, accepted, requests,
                     restarts>>
      /\ thread[t].at = "validate" /\ thread[t].token \in Tokens
      /\ at \in {"idle", "validate", "consume"}
  BY DEF validate, LInv, RequestsInv
<1>3. /\ thread' \in [Threads -> Serving] /\ RequestsInv' /\ t \in Busy
      /\ Limiting' = Limiting \ {t}
      /\ Busy' = IF at = "idle" THEN Busy \ {t} ELSE Busy
  <2>1. Become(t, at)
    BY <1>1
  <2> HIDE DEF at
  <2> QED
    BY <1>2, <2>1, BecomeFacts DEF LInv
<1>4. CountInv'
  BY <1>2, <1>3, CountKept
<1>5. LimitsTypeOK'
  BY <1>2, <1>3 DEF LInv, LimitsTypeOK, Serving
<1>6. TablesInv' /\ TokensInv' /\ RateWindow'
  BY <1>2 DEF LInv, TablesInv, KnownClients, Known, TokensInv, RateWindow, Within
<1>7. StampsInv'
  BY <1>2 DEF LInv, StampsInv, Known, StampOf
<1> QED
  BY <1>3, <1>4, <1>5, <1>6, <1>7 DEF LInv

(* The token is entered in the table, or found there, or has expired. *)
LEMMA ConsumeStep ==
  ASSUME LInv, NEW t \in Threads, consume(t)
  PROVE  LInv'
<1> USE LimitsConstants
<1> DEFINE k == thread[t].token
<1>1. PICK read \in Readings(t) :
        \/ Expiry[k] <= read /\ UNCHANGED <<consumed, accepted>>
        \/ /\ Expiry[k] > read
           /\ \E purge \in PurgeReadings(read) : Entered(k, purge) \/ Replayed(k, purge)
  BY DEF consume
<1>2. /\ UNCHANGED <<tokenStore, now, hits, admitted, requests, restarts>>
      /\ Become(t, "idle") /\ thread[t].at = "consume" /\ k \in Tokens
      /\ now \in Nat /\ thread[t].since \in Nat /\ Expiry[k] \in Nat
      /\ accepted \in [Tokens -> 0..MaxRequests] /\ accepted[k] \in Nat
  <2>1. /\ UNCHANGED <<tokenStore, now, hits, admitted, requests, restarts>>
        /\ Become(t, "idle") /\ thread[t].at = "consume"
    BY DEF consume
  <2>2. k \in Tokens
    BY <2>1 DEF LInv, RequestsInv
  <2>3. /\ now \in Nat /\ thread[t].since \in Nat
        /\ accepted \in [Tokens -> 0..MaxRequests]
    BY DEF LInv, LimitsTypeOK
  <2> QED
    BY <2>1, <2>2, <2>3
<1>3. /\ thread' \in [Threads -> Serving] /\ RequestsInv' /\ t \in Busy
      /\ Limiting' = Limiting \ {t} /\ Busy' = Busy \ {t}
  BY <1>2, BecomeFacts DEF LInv
<1> HIDE DEF k
<1>4. RateWindow' /\ StampsInv' /\ IsFiniteSet(KnownClients')
  <2>1. RateWindow'
    BY <1>2 DEF LInv, RateWindow, Within
  <2>2. IsFiniteSet(KnownClients')
    BY <1>2 DEF LInv, TablesInv, KnownClients, Known
  <2>3. StampsInv'
    BY <1>2 DEF LInv, StampsInv, Known, StampOf
  <2> QED
    BY <2>1, <2>2, <2>3
<1>5. /\ consumed \subseteq Tokens /\ IsFiniteSet(consumed)
      /\ Cardinality(consumed) \in Nat
      /\ MaxEntries \in Nat
      /\ tokenStore = "memory" => Cardinality(consumed) <= MaxEntries
  BY FS_CardinalityType DEF LInv, LimitsTypeOK, TablesInv
<1>6. ASSUME consumed' \subseteq Tokens, IsFiniteSet(consumed'),
             tokenStore = "memory" => Cardinality(consumed') <= MaxEntries,
             UNCHANGED accepted, TokensInv'
      PROVE  LInv'
  <2>1. CountInv'
    BY <1>2, <1>3, <1>6, CountKept
  <2>2. LimitsTypeOK'
    BY <1>2, <1>3, <1>6 DEF LInv, LimitsTypeOK, Serving
  <2> QED
    BY <1>3, <1>4, <1>6, <2>1, <2>2 DEF LInv, TablesInv
<1>7. CASE UNCHANGED <<consumed, accepted>>
  <2>1. TokensInv'
    BY <1>2, <1>7 DEF LInv, TokensInv
  <2> QED
    BY <1>2, <1>5, <1>6, <1>7, <2>1
<1>8. ASSUME NEW purge \in PurgeReadings(read), Entered(k, purge) \/ Replayed(k, purge)
      PROVE  LInv'
  <2>1. purge \in Nat /\ purge <= now
    BY <1>2 DEF PurgeReadings, Readings
  <2> DEFINE U == Unexpired(purge)
  <2>2. /\ U \subseteq consumed /\ IsFiniteSet(U) /\ Cardinality(U) \in Nat
        /\ Cardinality(U) <= Cardinality(consumed)
        /\ \A j \in consumed : now < Expiry[j] => j \in U
    <3>1. U \in SUBSET consumed
      BY DEF Unexpired
    <3>2. \A j \in consumed : now < Expiry[j] => j \in U
      BY <1>2, <1>5, <2>1 DEF Unexpired
    <3> QED
      BY <1>5, <3>1, <3>2, FS_Subset, FS_CardinalityType
  <2> HIDE DEF U
  <2>3. CASE Replayed(k, purge)
    <3>1. UNCHANGED accepted /\ (consumed' = U \/ consumed' = consumed)
      BY <2>3 DEF Replayed, U
    <3>2. /\ consumed' \subseteq Tokens /\ IsFiniteSet(consumed')
          /\ tokenStore = "memory" => Cardinality(consumed') <= MaxEntries
      BY <1>5, <2>2, <3>1
    <3>3. TokensInv'
      BY <1>2, <2>2, <3>1 DEF LInv, TokensInv
    <3> QED
      BY <1>6, <3>1, <3>2, <3>3
  <2>4. CASE Entered(k, purge)
    <3>1. /\ k \notin U /\ consumed' = U \cup {k}
          /\ tokenStore = "memory" => Cardinality(U) < MaxEntries
          /\ accepted' = [accepted EXCEPT ![k] =
                            IF now < Expiry[k] THEN accepted[k] + 1 ELSE accepted[k]]
      BY <2>4 DEF Entered, U
    <3>2. /\ IsFiniteSet(consumed') /\ Cardinality(consumed') = Cardinality(U) + 1
          /\ consumed' \subseteq Tokens
      BY <1>2, <1>5, <2>2, <3>1, FS_AddElement
    <3>3. tokenStore = "memory" => Cardinality(consumed') <= MaxEntries
      BY <1>5, <2>2, <3>1, <3>2
    <3>4. /\ \A j \in Tokens : j # k => accepted'[j] = accepted[j]
          /\ accepted'[k] = IF now < Expiry[k] THEN accepted[k] + 1 ELSE accepted[k]
          /\ accepted' = [j \in Tokens |-> accepted'[j]]
      BY <1>2, <3>1
    <3>5. CountInv'
      <4>1. /\ Cardinality(Busy') = Cardinality(Busy) - 1 /\ IsFiniteSet(Busy')
            /\ Cardinality(Busy) \in Nat /\ requests \in Nat
            /\ \A j \in Tokens : accepted[j] \in Nat
        BY <1>3, CountFacts
      <4>2. \A j \in Tokens : accepted'[j] + Cardinality(Busy') <= requests'
        <5> TAKE j \in Tokens
        <5>1. accepted[j] + Cardinality(Busy) <= requests /\ requests' = requests
          BY <1>2 DEF LInv, CountInv
        <5>2. accepted'[j] = accepted[j] \/ accepted'[j] = accepted[j] + 1
          BY <3>4
        <5> QED
          BY <4>1, <5>1, <5>2
      <4>3. Limiting' = Limiting
        BY <1>2, <1>3 DEF Limiting
      <4> QED
        BY <1>2, <4>1, <4>2, <4>3 DEF LInv, CountInv
    <3>6. accepted' \in [Tokens -> 0..MaxRequests]
      <4>1. \A j \in Tokens : accepted'[j] \in 0..MaxRequests
        <5> TAKE j \in Tokens
        <5>1. /\ accepted[j] + Cardinality(Busy) <= requests
              /\ Cardinality(Busy) \in Nat /\ Cardinality(Busy) > 0
              /\ requests \in Nat /\ requests <= MaxRequests /\ accepted[j] \in Nat
          BY <1>3, CountFacts DEF LInv, CountInv
        <5>2. accepted'[j] = accepted[j] \/ accepted'[j] = accepted[j] + 1
          BY <3>4
        <5> QED
          BY <5>1, <5>2
      <4> QED
        BY <3>4, <4>1
    <3>7. LimitsTypeOK'
      BY <1>2, <1>3, <3>2, <3>3, <3>6 DEF LInv, LimitsTypeOK, Serving
    <3>8. TokensInv'
      <4> SUFFICES ASSUME tokenStore = "memory" => restarts = 0, NEW j \in Tokens
                   PROVE  /\ accepted'[j] <= 1
                          /\ accepted'[j] = 1 /\ now < Expiry[j] => j \in consumed'
        BY <1>2 DEF TokensInv
      <4>1. /\ accepted[j] <= 1 /\ accepted[j] \in Nat
            /\ accepted[j] = 1 /\ now < Expiry[j] => j \in consumed
        BY <1>2 DEF LInv, TokensInv
      <4>2. CASE j # k
        BY <2>2, <3>1, <3>4, <4>1, <4>2
      <4>3. CASE j = k /\ now < Expiry[k]
        <5>1. accepted[k] # 1
          BY <2>2, <3>1, <4>1, <4>3
        <5> QED
          BY <3>1, <3>4, <4>1, <4>3, <5>1
      <4>4. CASE j = k /\ ~ (now < Expiry[k])
        BY <3>4, <4>1, <4>4
      <4> QED
        BY <4>2, <4>3, <4>4
    <3> QED
      BY <1>3, <1>4, <3>2, <3>5, <3>7, <3>8 DEF LInv, TablesInv
  <2> QED
    BY <1>8, <2>3, <2>4
<1> QED
  BY <1>1, <1>7, <1>8

(* The clock moves: windows end, and no stamp or entry is missed by that. *)
LEMMA LimitsTickStep ==
  ASSUME LInv, Tick
  PROVE  LInv'
<1> USE LimitsConstants
<1>1. /\ now < MaxTime /\ now' = now + 1 /\ now \in Nat /\ now' \in Nat /\ now < now'
      /\ Window \in Nat
      /\ UNCHANGED <<tokenStore, hits, consumed, thread, admitted, accepted, requests,
                     restarts>>
  BY DEF Tick, LInv, LimitsTypeOK
<1>2. LimitsTypeOK'
  BY <1>1 DEF LInv, LimitsTypeOK
<1>3. RequestsInv'
  <2>1. \A t \in Threads : thread[t].since \in Nat
    BY DEF LInv, LimitsTypeOK
  <2> QED
    BY <1>1, <2>1 DEF LInv, RequestsInv
<1>4. CountInv' /\ TablesInv' /\ RateWindow'
  BY <1>1 DEF LInv, CountInv, Busy, Limiting, TablesInv, KnownClients, Known,
              RateWindow, Within
<1>5. StampsInv'
  <2>1. \A a \in admitted : a.read \in Nat
    BY DEF LInv, LimitsTypeOK
  <2>2. \A a \in admitted : now' < a.read + Window => now < a.read + Window
    BY <1>1, <2>1
  <2> QED
    BY <1>1, <2>2 DEF LInv, StampsInv, Known, StampOf
<1>6. TokensInv'
  <2>1. \A k \in Tokens : now' < Expiry[k] => now < Expiry[k]
    BY <1>1
  <2> QED
    BY <1>1, <2>1 DEF LInv, TokensInv
<1> QED
  BY <1>2, <1>3, <1>4, <1>5, <1>6 DEF LInv

(* A restart empties the limiter and, in memory, forgets the tokens. *)
LEMMA LimitsRestartStep ==
  ASSUME LInv, Restart
  PROVE  LInv'
<1> USE LimitsConstants
<1>1. /\ restarts \in Nat /\ restarts < MaxRestarts /\ restarts' = restarts + 1
      /\ hits' = [c \in Clients |-> Absent]
      /\ consumed' = IF tokenStore = "memory" THEN {} ELSE consumed
      /\ thread' = [t \in Threads |-> Idle] /\ admitted' = {}
      /\ UNCHANGED <<tokenStore, now, accepted, requests>>
      /\ now \in Nat /\ requests \in Nat /\ MaxClients \in Nat /\ MaxEntries \in Nat
      /\ \A k \in Tokens : accepted[k] \in Nat
  BY DEF Restart, LInv, LimitsTypeOK
<1>2. /\ IsFiniteSet({}) /\ Cardinality({}) = 0
  BY FS_EmptySet
<1>3. KnownClients' = {} /\ Busy' = {} /\ Limiting' = {}
  BY <1>1 DEF KnownClients, Known, Busy, Limiting, Idle
<1>4. LimitsTypeOK'
  <2>1. {c \in Clients : hits'[c] # Absent} = {}
    BY <1>1
  <2>2. Cardinality({c \in Clients : hits'[c] # Absent}) <= MaxClients
    BY <1>1, <1>2, <2>1
  <2>3. /\ consumed' \subseteq Tokens
        /\ tokenStore' = "memory" => Cardinality(consumed') <= MaxEntries
    BY <1>1, <1>2 DEF LInv, LimitsTypeOK
  <2>4. Idle \in [at : {"idle", "limit", "validate", "consume"},
                  client : Clients \cup {Absent}, token : Tokens \cup {Absent},
                  since : 0..MaxTime]
    BY DEF Idle
  <2> QED
    BY <1>1, <2>2, <2>3, <2>4 DEF LInv, LimitsTypeOK
<1>5. RequestsInv'
  BY <1>1 DEF RequestsInv, Idle
<1>6. CountInv'
  <2>1. \A k \in Tokens : accepted[k] <= requests
    <3> TAKE k \in Tokens
    <3>1. /\ accepted[k] + Cardinality(Busy) <= requests
          /\ Cardinality(Busy) \in Nat
      BY CountFacts DEF LInv, CountInv
    <3> QED
      BY <1>1, <3>1
  <2> QED
    BY <1>1, <1>2, <1>3, <2>1 DEF CountInv
<1>7. TablesInv'
  BY <1>1, <1>2, <1>3 DEF LInv, TablesInv
<1>8. StampsInv'
  BY <1>1 DEF StampsInv, Known
<1>9. TokensInv'
  BY <1>1 DEF LInv, TokensInv
<1>10. RateWindow'
  <2>1. \A c \in Clients, first \in 0..MaxTime : Within(c, first)' = {}
    BY <1>1 DEF Within
  <2> QED
    BY <1>2, <2>1 DEF RateWindow
<1> QED
  BY <1>4, <1>5, <1>6, <1>7, <1>8, <1>9, <1>10 DEF LInv

(* The tables start empty, and the invariant holds. *)
LEMMA LimitsStart == LimitsInit => LInv
<1> SUFFICES ASSUME LimitsInit PROVE LInv
  OBVIOUS
<1> USE LimitsConstants
<1>2. /\ IsFiniteSet({}) /\ Cardinality({}) = 0
  BY FS_EmptySet
<1>3. KnownClients = {} /\ Busy = {} /\ Limiting = {}
  BY DEF LimitsInit, KnownClients, Known, Busy, Limiting, Idle
<1>4. LimitsTypeOK
  <2>1. Cardinality({c \in Clients : hits[c] # Absent}) <= MaxClients
    BY <1>2, <1>3 DEF KnownClients, Known
  <2>2. Idle \in [at : {"idle", "limit", "validate", "consume"},
                  client : Clients \cup {Absent}, token : Tokens \cup {Absent},
                  since : 0..MaxTime]
    BY DEF Idle
  <2> QED
    BY <1>2, <2>1, <2>2 DEF LimitsInit, LimitsTypeOK
<1>5. RequestsInv
  BY DEF LimitsInit, RequestsInv, Idle
<1>6. CountInv /\ TablesInv
  BY <1>2, <1>3 DEF LimitsInit, CountInv, TablesInv
<1>7. StampsInv /\ TokensInv
  BY DEF LimitsInit, StampsInv, Known, TokensInv
<1>8. RateWindow
  <2>1. \A c \in Clients, first \in 0..MaxTime : Within(c, first) = {}
    BY DEF LimitsInit, Within
  <2> QED
    BY <1>2, <2>1 DEF RateWindow
<1> QED
  BY <1>4, <1>5, <1>6, <1>7, <1>8 DEF LInv

(* Every step of the limiter and the token tables keeps the invariant. *)
LEMMA LimitsStep == LInv /\ [LimitsNext]_limitsVars => LInv'
<1> SUFFICES ASSUME LInv, [LimitsNext]_limitsVars PROVE LInv'
  OBVIOUS
<1>1. ASSUME NEW t \in Threads, NEW c \in Clients, NEW k \in Tokens \cup {Absent},
             Arrive(t, c, k)
      PROVE  LInv'
  BY <1>1, ArriveStep
<1>2. ASSUME NEW t \in Threads, allow(t) PROVE LInv'
  <2>1. /\ thread[t].at = "limit"
        /\ UNCHANGED <<tokenStore, now, consumed, accepted, requests, restarts>>
    BY <1>2 DEF allow
  <2>2. PICK read \in Readings(t) : Admit(t, read) \/ Refuse(t, read)
    BY <1>2 DEF allow
  <2> QED
    BY <2>1, <2>2, AdmitStep, RefuseStep
<1>3. ASSUME NEW t \in Threads, validate(t) PROVE LInv'
  BY <1>3, ValidateTokenStep
<1>4. ASSUME NEW t \in Threads, consume(t) PROVE LInv'
  BY <1>4, ConsumeStep
<1>5. CASE Tick
  BY <1>5, LimitsTickStep
<1>6. CASE Restart
  BY <1>6, LimitsRestartStep
<1>7. CASE UNCHANGED limitsVars
  BY <1>7 DEF limitsVars, LInv, LimitsTypeOK, RequestsInv, CountInv, Busy, Limiting,
              TablesInv, KnownClients, Known, StampsInv, StampOf, TokensInv,
              RateWindow, Within
<1> QED
  BY <1>1, <1>2, <1>3, <1>4, <1>5, <1>6, <1>7 DEF LimitsNext

(* LInv is an inductive invariant of the limits. *)
LEMMA LimitsInvariant == LimitsSpec => []LInv
  BY LimitsStart, LimitsStep, PTL DEF LimitsSpec

(* The two tables keep their kinds and stay within MaxClients and, in      *)
(* memory, MaxEntries: BoundedRateLimiter.allow and JWTReplayCache.consume *)
(* check their bounds under the lock that guards the entry.                *)
THEOREM LimitsTyped == LimitsSpec => []LimitsTypeOK
<1>1. LInv => LimitsTypeOK
  BY DEF LInv
<1> QED
  BY <1>1, LimitsInvariant, PTL

(* However the clock readings of threads are delayed, and whoever purges a *)
(* list meanwhile, allow lets in at most Limit requests of a client within *)
(* a window: a purge removes a stamp only after its window has ended.      *)
THEOREM LimitsRateWindow == LimitsSpec => []RateWindow
<1>1. LInv => RateWindow
  BY DEF LInv
<1> QED
  BY <1>1, LimitsInvariant, PTL

(* validate_once accepts a token at most once while it is valid: the entry *)
(* outlives the token, in an identity store also across restarts.          *)
THEOREM LimitsOnceWhileValid == LimitsSpec => []OnceWhileValid
<1>1. LInv => OnceWhileValid
  BY DEF LInv, TokensInv, OnceWhileValid
<1> QED
  BY <1>1, LimitsInvariant, PTL

(* allow refuses a client in the table only for as many requests as the    *)
(* limit that it let in during the window.                                 *)
THEOREM LimitsRefusedForCause == LimitsSpec => RefusedForCause
<1> DEFINE Cause(t) ==
      (thread[t].at = "limit" /\ admitted' = admitted /\ thread'[t] = Idle
         /\ restarts' = restarts /\ ~TableFull(thread[t].client))
      => Cardinality({a \in admitted : /\ a.client = thread[t].client
                                       /\ thread[t].since < a.read + Window}) >= Limit
<1>1. ASSUME LInv, [LimitsNext]_limitsVars, NEW t \in Threads,
             thread[t].at = "limit", admitted' = admitted, thread'[t] = Idle,
             restarts' = restarts, ~ TableFull(thread[t].client)
      PROVE  Cardinality({a \in admitted : /\ a.client = thread[t].client
                                           /\ thread[t].since < a.read + Window}) >= Limit
  <2> USE LimitsConstants
  <2>0. /\ thread[t].at # "idle" /\ thread[t] # Idle /\ thread'[t] # thread[t]
        /\ thread \in [Threads -> Serving]
    BY <1>1 DEF Idle, LInv, LimitsTypeOK, Serving
  <2>1. ~ UNCHANGED limitsVars /\ ~ Tick /\ ~ Restart
    BY <1>1, <2>0 DEF limitsVars, Tick, Restart, LInv, LimitsTypeOK
  <2>2. ASSUME NEW u \in Threads, NEW c \in Clients, NEW k \in Tokens \cup {Absent},
               Arrive(u, c, k)
        PROVE  FALSE
    <3>1. u # t
      BY <1>1, <2>2 DEF Arrive
    <3> QED
      BY <2>0, <2>2, <3>1 DEF Arrive
  <2>3. ASSUME NEW u \in Threads, NEW at, Become(u, at) PROVE u = t
    BY <2>0, <2>3 DEF Become
  <2>4. ASSUME NEW u \in Threads, validate(u) \/ consume(u) PROVE FALSE
    <3>1. u = t
      BY <2>3, <2>4 DEF validate, consume
    <3> QED
      BY <1>1, <2>4, <3>1 DEF validate, consume
  <2>5. allow(t)
    <3>1. PICK u \in Threads : allow(u)
      BY <1>1, <2>1, <2>2, <2>4 DEF LimitsNext
    <3>2. u = t
      BY <2>3, <3>1 DEF allow, Admit, Refuse
    <3> QED
      BY <3>1, <3>2
  <2> DEFINE c == thread[t].client
  <2>6. PICK read \in Readings(t) : Refuse(t, read)
    <3>1. PICK read \in Readings(t) : Admit(t, read) \/ Refuse(t, read)
      BY <2>5 DEF allow
    <3>2. ~ Admit(t, read)
      BY <1>1, <2>5, <3>1, AdmitStep DEF allow
    <3> QED
      BY <3>1, <3>2
  <2>7. Cardinality(Recent(c, read)) >= Limit
    BY <1>1, <2>6 DEF Refuse
  <2>8. /\ c \in Clients /\ thread[t].since \in Nat /\ thread[t].since <= read
        /\ read \in 0..now /\ read \in Nat /\ Window \in Nat /\ Limit \in Nat
    <3>1. /\ c \in Clients /\ thread[t].since \in Nat /\ now \in Nat
      BY <1>1 DEF LInv, LimitsTypeOK, RequestsInv
    <3> QED
      BY <3>1 DEF Readings
  <2> DEFINE A == {a \in admitted : a.client = c /\ thread[t].since < a.read + Window}
  <2>9. ASSUME NEW h \in Recent(c, read) PROVE \E a \in A : StampOf(a) = h
    <3>1. read < h.read + Window /\ \E a \in admitted : a.client = c /\ StampOf(a) = h
      BY <1>1, <2>8, RecentFacts
    <3>2. PICK a \in admitted : a.client = c /\ StampOf(a) = h
      BY <3>1
    <3>3. a.read \in Nat /\ h.read = a.read
      BY <1>1, <3>2 DEF LInv, LimitsTypeOK, StampOf
    <3>4. thread[t].since < a.read + Window
      BY <2>8, <3>1, <3>3
    <3> QED
      BY <3>2, <3>4
  <2>10. IsFiniteSet(A) /\ Cardinality(Recent(c, read)) <= Cardinality(A)
    <3>1. A \in SUBSET admitted /\ IsFiniteSet(admitted)
      BY <1>1 DEF LInv, CountInv
    <3> HIDE DEF A
    <3> QED
      BY <1>1, <2>9, <3>1, CountStamps, FS_Subset
  <2>11. Cardinality(A) \in Nat /\ Cardinality(Recent(c, read)) \in Nat
    BY <1>1, <2>8, <2>10, RecentFacts, FS_CardinalityType
  <2> QED
    BY <2>7, <2>8, <2>10, <2>11
<1>2. LInv /\ [LimitsNext]_limitsVars => [\A t \in Threads : Cause(t)]_limitsVars
  BY <1>1
<1> QED
  BY <1>2, LimitsInvariant, PTL DEF LimitsSpec, RefusedForCause

(* A client for which there is no room in the limiter's table gets none    *)
(* until the process restarts.                                             *)
FullIsForGood ==
  [][restarts' = restarts => \A c \in Clients : TableFull(c) => TableFull(c)']_limitsVars

(* At max_clients the limiter refuses new clients for good: allow makes no *)
(* entry when the table is full, and never drops one, however long the     *)
(* clients in the table have been idle.                                    *)
THEOREM LimitsFullForGood == LimitsSpec => FullIsForGood
<1>1. ASSUME LInv, [LimitsNext]_limitsVars, restarts' = restarts
      PROVE  \A c \in Clients : TableFull(c) => TableFull(c)'
  <2> SUFFICES ASSUME NEW c \in Clients, TableFull(c) PROVE TableFull(c)'
    OBVIOUS
  <2>1. \A d \in Clients : ~ TableFull(d) => Known(d)
    BY DEF TableFull
  <2>2. CASE \A d \in Clients : Known(d)' <=> Known(d)
    <3>1. {d \in Clients : Known(d)'} = {d \in Clients : Known(d)}
      BY <2>2
    <3> QED
      BY <2>2, <3>1 DEF TableFull
  <2>3. CASE hits' = hits
    <3>1. \A d \in Clients : Known(d)' <=> Known(d)
      BY <2>3 DEF Known
    <3> QED
      BY <2>2, <3>1
  <2>4. ASSUME NEW t \in Threads, allow(t) PROVE \A d \in Clients : Known(d)' <=> Known(d)
    <3> DEFINE e == thread[t].client
    <3>1. /\ thread[t].at = "limit" /\ e \in Clients
          /\ now \in Nat /\ thread[t].since \in Nat
      BY <1>1, <2>4 DEF allow, LInv, RequestsInv, LimitsTypeOK
    <3>2. PICK read \in Readings(t) : Admit(t, read) \/ Refuse(t, read)
      BY <2>4 DEF allow
    <3>3. hits' = hits \/ \E R \in SUBSET Stamp :
            ~ TableFull(e) /\ hits' = [hits EXCEPT ![e] = R]
      <4>1. read \in 0..now
        BY <3>1, <3>2 DEF Readings
      <4>2. Recent(e, read) \in SUBSET Stamp
        BY <1>1, <3>1, <4>1, RecentFacts
      <4>3. CASE Refuse(t, read)
        BY <4>2, <4>3 DEF Refuse, Purged
      <4>4. CASE Admit(t, read)
        <5>1. 1 + Cardinality(admitted) \in 1..MaxRequests /\ read \in 0..MaxTime
          <6>1. t \in Limiting /\ now \in 0..MaxTime /\ MaxTime \in Nat
            BY <1>1, <3>1, LimitsConstants DEF Limiting, LInv, LimitsTypeOK
          <6>2. /\ Cardinality(admitted) + Cardinality(Limiting) <= requests
                /\ Cardinality(Limiting) > 0 /\ Cardinality(Limiting) \in Nat
                /\ Cardinality(admitted) \in Nat
                /\ requests \in Nat /\ requests <= MaxRequests /\ MaxRequests \in Nat
            BY <1>1, <6>1, CountFacts DEF LInv, CountInv
          <6> QED
            BY <4>1, <6>1, <6>2
        <5>2. [read |-> read, n |-> 1 + Cardinality(admitted)] \in Stamp
          BY <5>1 DEF Stamp
        <5>3. /\ ~ TableFull(e)
              /\ hits' = [hits EXCEPT ![e] =
                   Recent(e, read) \cup {[read |-> read, n |-> 1 + Cardinality(admitted)]}]
          BY <4>4 DEF Admit, Counted
        <5> QED
          BY <4>2, <5>2, <5>3
      <4> QED
        BY <3>2, <4>3, <4>4
    <3>4. CASE hits' = hits
      BY <3>4 DEF Known
    <3>5. ASSUME NEW R \in SUBSET Stamp, ~ TableFull(e), hits' = [hits EXCEPT ![e] = R]
          PROVE  \A d \in Clients : Known(d)' <=> Known(d)
      <4> HIDE DEF e
      <4>1. /\ hits'[e] # Absent /\ \A d \in Clients : d # e => (Known(d)' <=> Known(d))
        BY <1>1, <3>1, <3>5, TableFacts
      <4>2. Known(e)
        <5>1. Cardinality({d \in Clients : Known(d)}) >= MaxClients
          BY DEF TableFull
        <5> QED
          BY <3>5, <5>1 DEF TableFull
      <4> QED
        BY <4>1, <4>2 DEF Known
    <3> QED
      BY <3>3, <3>4, <3>5
  <2>5. ASSUME NEW t \in Threads, NEW d \in Clients, NEW k \in Tokens \cup {Absent},
               Arrive(t, d, k)
        PROVE  hits' = hits
    BY <2>5 DEF Arrive
  <2>6. ASSUME NEW t \in Threads, validate(t) \/ consume(t) PROVE hits' = hits
    BY <2>6 DEF validate, consume
  <2>7. (Tick \/ UNCHANGED limitsVars) => hits' = hits
    BY DEF Tick, limitsVars
  <2>8. ~ Restart
    BY <1>1 DEF Restart, LInv, LimitsTypeOK
  <2> QED
    BY <1>1, <2>2, <2>3, <2>4, <2>5, <2>6, <2>7, <2>8 DEF LimitsNext
<1>2. LInv /\ [LimitsNext]_limitsVars =>
        [restarts' = restarts => \A c \in Clients : TableFull(c) => TableFull(c)']_limitsVars
  BY <1>1
<1> QED
  BY <1>2, LimitsInvariant, PTL DEF LimitsSpec, FullIsForGood

-----------------------------------------------------------------------------
(* Deciding an authorization.                                              *)

(* The frames that a call of this offer appends. *)
Frame == {MeshFrame} \cup
         [type : {"authorization"}, request : {Effective}, issued : {Issued},
          inputs : {offer.inputs}, barred : SUBSET Sources]

Running == {"bound", "decided", "verified", "preflighted"}

(* What was validated and required stays so: the offer does not change. *)
CheckedInv ==
  /\ step \in Running => DeploymentValid
  /\ step \in Running \ {"bound"} => MeshRequirementsMet

(* The inputs whose source was looked up and is not looked up again. *)
Settled(todo) == {x \in offer.inputs \ todo : \A y \in todo : y.source # x.source}

(* No barred source resolves; none is the source of a settled input. *)
BarredInv ==
  /\ barred \subseteq Gone
  /\ step = "decided" =>
       /\ offer.inputs # {}
       /\ verifies => \A x \in Settled(unverified) : x.source \notin barred
  /\ step = "verified" => offer.inputs # {}
  /\ step \in {"verified", "preflighted"} =>
       /\ verifies => \A x \in offer.inputs : x.source \notin barred
       /\ Cardinality(Provided) = Cardinality(offer.inputs)

(* An authorization frame is one of a call that went all the way.          *)
Backed(i) ==
  /\ DeploymentValid /\ MeshRequirementsMet
  /\ Cardinality(Provided) = Cardinality(offer.inputs)
  /\ verifies => \A x \in offer.inputs : x.source \notin frames[i].barred
  /\ offer.inputs # {} => \E j \in 1..(i - 1) : frames[j] = MeshFrame

LogInv ==
  /\ frames \in Seq(Frame)
  /\ step = "preflighted" /\ offer.inputs # {} => Recorded
  /\ \A i \in DOMAIN frames : frames[i].type = "authorization" => Backed(i)
  /\ UniqueFrames => \A i, j \in DOMAIN frames :
                       frames[i] = MeshFrame /\ frames[j] = MeshFrame => i = j

(* Where frame ids are unique, the authorization comes once after the mesh *)
(* frame.                                                                  *)
OnceInv ==
  UniqueFrames /\ offer.inputs # {} =>
    /\ \A i, j \in AuthorizationFrames : i = j
    /\ step = "preflighted" => AuthorizationFrames = {}

DInv == DecisionsTypeOK /\ CheckedInv /\ BarredInv /\ LogInv /\ OnceInv

(* A finite set of numbers that is not empty has a greatest element, and   *)
(* Max is that element.                                                    *)
LEMMA MaxOf ==
  ASSUME NEW S \in SUBSET Nat, IsFiniteSet(S), S # {}
  PROVE  Max(S) \in S /\ \A y \in S : y <= Max(S)
<1> DEFINE Topped(T) == \E m \in T : \A y \in T : m >= y
           Less == {p \in Nat \X Nat : p[1] < p[2]}
           Bad == {n \in Nat : \E T \in SUBSET Nat :
                     IsFiniteSet(T) /\ T # {} /\ Cardinality(T) = n /\ ~ Topped(T)}
<1>1. IsWellFoundedOn(Less, Nat)
  BY NatLessThanWellFounded DEF OpToRel
<1>2. \A m, n \in Nat : m < n => <<m, n>> \in Less
  OBVIOUS
<1>3. Bad = {}
  <2> SUFFICES ASSUME Bad # {} PROVE FALSE
    OBVIOUS
  <2>1. PICK n \in Bad : \A k \in Bad : ~ (<<k, n>> \in Less)
    <3>1. Bad \subseteq Nat
      OBVIOUS
    <3> HIDE DEF Bad, Less
    <3> QED
      BY <1>1, <3>1, WFMin
  <2>2. PICK T \in SUBSET Nat :
          IsFiniteSet(T) /\ T # {} /\ Cardinality(T) = n /\ ~ Topped(T)
    BY <2>1
  <2>3. PICK x \in T : TRUE
    BY <2>2
  <2>4. /\ IsFiniteSet(T \ {x}) /\ Cardinality(T \ {x}) = n - 1
        /\ Cardinality(T \ {x}) \in Nat
    BY <2>2, FS_RemoveElement, FS_CardinalityType
  <2>5. T \ {x} # {}
    BY <2>2 DEF Topped
  <2>6. Topped(T \ {x})
    <3>1. n \in Nat /\ n - 1 \in Nat /\ n - 1 < n
      BY <2>4
    <3>2. n - 1 \notin Bad
      BY <1>2, <2>1, <3>1
    <3>3. T \ {x} \in SUBSET Nat
      BY <2>2
    <3> QED
      BY <2>4, <2>5, <3>1, <3>2, <3>3
  <2>7. PICK m \in T \ {x} : \A y \in T \ {x} : m >= y
    BY <2>6
  <2>8. Topped(T)
    <3>1. m \in Nat /\ x \in Nat /\ \A y \in T : y \in Nat
      BY <2>2, <2>3, <2>7
    <3>2. CASE x >= m
      <4>1. \A y \in T : x >= y
        BY <2>7, <3>1, <3>2
      <4> QED
        BY <4>1
    <3>3. CASE ~ (x >= m)
      <4>1. \A y \in T : m >= y
        BY <2>7, <3>1, <3>3
      <4> QED
        BY <4>1
    <3> QED
      BY <3>2, <3>3
  <2> QED
    BY <2>2, <2>8
<1>4. Topped(S)
  BY <1>3, FS_CardinalityType
<1>5. Max(S) \in S /\ \A y \in S : Max(S) >= y
  BY <1>4 DEF Max
<1> QED
  BY <1>5

(* The priorities of inputs have a greatest; some input has it. *)
LEMMA Priorities ==
  ASSUME NEW g \in SUBSET Input, IsFiniteSet(g), g # {}
  PROVE  LET m == Max({i.priority : i \in g})
         IN  /\ m \in Nat
             /\ \E i \in g : i.priority = m
             /\ \A i \in g : i.priority \in Nat /\ i.priority <= m
<1> DEFINE P == {i.priority : i \in g}
           f == [i \in g |-> i.priority]
<1>1. P \in SUBSET Nat /\ P # {} /\ \A i \in g : i.priority \in P
  BY DEF Input
<1>2. f \in Surjection(g, P)
  BY <1>1 DEF Surjection
<1>3. IsFiniteSet(P)
  BY <1>2, FS_Surjection
<1>4. Max(P) \in P /\ \A y \in P : y <= Max(P)
  <2> HIDE DEF P
  <2> QED
    BY <1>1, <1>3, MaxOf
<1>5. /\ Max(P) \in Nat
      /\ \E i \in g : i.priority = Max(P)
      /\ \A i \in g : i.priority \in Nat /\ i.priority <= Max(P)
  <2>1. \E i \in g : i.priority = Max(P)
    BY <1>4
  <2> QED
    BY <1>1, <1>4, <2>1
<1> QED
  BY <1>5

(* The inputs of the highest priority. *)
LEMMA TopFacts ==
  ASSUME NEW inputs \in SUBSET Input, IsFiniteSet(inputs), inputs # {}
  PROVE  /\ TopInputs(inputs) \subseteq inputs /\ TopInputs(inputs) # {}
         /\ \A x \in inputs : x \in TopInputs(inputs) <=>
              \A y \in inputs : y.priority <= x.priority
<1> DEFINE m == Max({i.priority : i \in inputs})
<1>1. /\ m \in Nat /\ \E i \in inputs : i.priority = m
      /\ \A i \in inputs : i.priority \in Nat /\ i.priority <= m
  BY Priorities
<1>2. TopInputs(inputs) = {i \in inputs : i.priority = m}
  BY DEF TopInputs
<1> HIDE DEF m
<1> QED
  BY <1>1, <1>2

(* Verdicts of several inputs conflict unless they are one. *)
LEMMA Unanimous ==
  ASSUME NEW g, IsFiniteSet(g), g # {}
  PROVE  Cardinality(Verdict(g)) > 1 <=> ~ \E v : \A i \in g : i.verdict = v
<1> DEFINE V == Verdict(g)
           f == [i \in g |-> i.verdict]
<1>1. V # {} /\ \A i \in g : i.verdict \in V
  BY DEF Verdict
<1>2. \A v \in V : \E i \in g : i.verdict = v
  BY DEF Verdict
<1>3. f \in Surjection(g, V)
  BY <1>1, <1>2 DEF Surjection
<1> HIDE DEF V
<1>4. IsFiniteSet(V) /\ Cardinality(V) \in Nat
  BY <1>3, FS_Surjection, FS_CardinalityType
<1>5. Cardinality(V) # 0
  BY <1>1, <1>4, FS_EmptySet
<1>6. Cardinality(V) = 1 <=> \E v : V = {v}
  BY <1>4, FS_Singleton
<1>7. (\E v : V = {v}) <=> \E v : \A i \in g : i.verdict = v
  BY <1>1, <1>2
<1>8. Cardinality(V) > 1 <=> Cardinality(V) # 1
  BY <1>4, <1>5
<1> QED
  BY <1>6, <1>7, <1>8 DEF V

(* When the highest priority is of one verdict, that verdict's group is    *)
(* the first of the ranking, whatever the weights are.                     *)
LEMMA WinnerIsTop ==
  ASSUME NEW inputs \in SUBSET Input, IsFiniteSet(inputs), inputs # {},
         NEW v, \A i \in TopInputs(inputs) : i.verdict = v
  PROVE  Winner(inputs) = v /\ TopInputs(inputs) \subseteq Group(inputs, v)
<1> DEFINE top == TopInputs(inputs)
<1>1. /\ top \subseteq inputs /\ top # {}
      /\ \A x \in inputs : x \in top <=> \A y \in inputs : y.priority <= x.priority
  BY TopFacts
<1>2. top \subseteq Group(inputs, v) /\ v \in Verdict(inputs)
  BY <1>1 DEF Group, Verdict
<1>3. ASSUME NEW w \in Verdict(inputs)
      PROVE  /\ Group(inputs, w) \in SUBSET Input
             /\ Group(inputs, w) # {} /\ IsFiniteSet(Group(inputs, w))
  <2>1. Group(inputs, w) \in SUBSET inputs
    BY DEF Group
  <2>2. Group(inputs, w) # {}
    BY DEF Group, Verdict
  <2> QED
    BY <2>1, <2>2, FS_Subset
<1>4. ASSUME NEW w \in Verdict(inputs)
      PROVE  /\ Rank(Group(inputs, w)) \in Nat
             /\ \E i \in Group(inputs, w) : i.priority = Rank(Group(inputs, w))
             /\ \A i \in Group(inputs, w) :
                  i.priority \in Nat /\ i.priority <= Rank(Group(inputs, w))
  <2> DEFINE g == Group(inputs, w)
  <2>1. g \in SUBSET Input /\ g # {} /\ IsFiniteSet(g)
    BY <1>3
  <2>2. Rank(g) = Max({i.priority : i \in g})
    BY DEF Rank
  <2> HIDE DEF g
  <2>3. /\ Rank(g) \in Nat
        /\ \E i \in g : i.priority = Rank(g)
        /\ \A i \in g : i.priority \in Nat /\ i.priority <= Rank(g)
    BY <2>1, <2>2, Priorities
  <2> QED
    BY <2>3 DEF g
<1>5. ASSUME NEW w \in Verdict(inputs), w # v
      PROVE  Rank(Group(inputs, v)) > Rank(Group(inputs, w))
  <2>1. PICK i \in Group(inputs, w) : i.priority = Rank(Group(inputs, w))
    BY <1>4
  <2>2. i \in inputs /\ i.verdict = w
    BY DEF Group
  <2>3. i \notin top
    BY <1>5, <2>2
  <2>4. PICK y \in inputs : ~ (y.priority <= i.priority)
    BY <1>1, <2>2, <2>3
  <2>5. PICK x \in top : TRUE
    BY <1>1
  <2>6. /\ y.priority <= x.priority /\ x \in Group(inputs, v)
        /\ x.priority \in Nat /\ y.priority \in Nat /\ i.priority \in Nat
    BY <1>1, <1>2, <2>2, <2>4, <2>5 DEF Input
  <2>7. x.priority <= Rank(Group(inputs, v)) /\ Rank(Group(inputs, v)) \in Nat
    BY <1>2, <1>4, <2>6
  <2> QED
    BY <2>1, <2>4, <2>6, <2>7
<1>6. \A w \in Verdict(inputs) \ {v} : Outranks(inputs, v, w)
  BY <1>5 DEF Outranks
<1>7. ASSUME NEW w \in Verdict(inputs), w # v PROVE ~ Outranks(inputs, w, v)
  <2>1. /\ Rank(Group(inputs, v)) > Rank(Group(inputs, w))
        /\ Rank(Group(inputs, v)) \in Nat /\ Rank(Group(inputs, w)) \in Nat
    BY <1>2, <1>4, <1>5, <1>7
  <2> QED
    BY <2>1 DEF Outranks
<1> QED
  BY <1>2, <1>6, <1>7 DEF Winner

(* The mesh's decision is the verdict of the highest priority. *)
LEMMA PreflightFacts ==
  ASSUME NEW inputs \in SUBSET Input, IsFiniteSet(inputs), inputs # {}
  PROVE  LET top == TopInputs(inputs)
             d == preflight(inputs)
         IN  /\ d.status = "conflict" <=> Cardinality(Verdict(top)) > 1
             /\ d.allow <=> \E v \in Allowing : \A i \in top : i.verdict = v
             /\ d.status # "conflict" => {i.source : i \in top} \subseteq d.selected
<1> DEFINE top == TopInputs(inputs)
           d == preflight(inputs)
<1>1. top \in SUBSET inputs /\ top # {}
  BY TopFacts
<1>2. Cardinality(Verdict(top)) > 1 <=> ~ \E v : \A i \in top : i.verdict = v
  <2>1. IsFiniteSet(top)
    BY <1>1, FS_Subset
  <2> HIDE DEF top
  <2> QED
    BY <1>1, <2>1, Unanimous
<1>3. CASE Cardinality(Verdict(top)) > 1
  <2>1. d = [status |-> "conflict", allow |-> FALSE, selected |-> {}]
    BY <1>3 DEF preflight
  <2>2. d.status = "conflict" /\ d.allow = FALSE
    BY <2>1
  <2> HIDE DEF d
  <2> QED
    BY <1>2, <1>3, <2>2 DEF d
<1>4. CASE ~ (Cardinality(Verdict(top)) > 1)
  <2>1. PICK v : \A i \in top : i.verdict = v
    BY <1>2, <1>4
  <2>2. Winner(inputs) = v /\ top \subseteq Group(inputs, v)
    BY <2>1, WinnerIsTop
  <2>3. d = [status |-> IF v \in Allowing THEN "allow" ELSE "deny",
             allow |-> v \in Allowing,
             selected |-> {i.source : i \in Group(inputs, v)}]
    BY <1>4, <2>2 DEF preflight
  <2>4. /\ d.status = IF v \in Allowing THEN "allow" ELSE "deny"
        /\ d.allow = (v \in Allowing)
        /\ d.selected = {i.source : i \in Group(inputs, v)}
    BY <2>3
  <2> HIDE DEF d
  <2>5. d.status # "conflict"
    BY <2>4
  <2>6. {i.source : i \in top} \subseteq d.selected
    BY <2>2, <2>4
  <2>7. d.allow <=> \E w \in Allowing : \A i \in top : i.verdict = w
    BY <1>1, <2>1, <2>4
  <2> QED
    BY <1>4, <2>5, <2>6, <2>7 DEF d
<1> QED
  BY <1>3, <1>4

(* No two inputs of a source when there are as many sources as inputs. *)
LEMMA OneInputPerSource ==
  ASSUME IsFiniteSet(offer.inputs), Cardinality(Provided) = Cardinality(offer.inputs)
  PROVE  \A x, y \in offer.inputs : x.source = y.source => x = y
<1> DEFINE f == [i \in offer.inputs |-> i.source]
<1>1. f \in Surjection(offer.inputs, Provided)
  BY DEF Surjection, Provided
<1>2. f \in Injection(offer.inputs, Provided)
  BY <1>1, FS_Surjection
<1> QED
  BY <1>2 DEF Injection, IsInjective

(* What is computed from the offer stays as it is. *)
LEMMA OfferKept ==
  ASSUME offer' = offer
  PROVE  /\ MeshFrame' = MeshFrame /\ Frame' = Frame
         /\ DeploymentValid' = DeploymentValid
         /\ MeshRequirementsMet' = MeshRequirementsMet
         /\ Provided' = Provided
<1>1. /\ Context' = Context /\ Effective' = Effective /\ Provided' = Provided
  BY DEF Context, Effective, Provided
<1>2. MeshFrame' = MeshFrame
  BY <1>1 DEF MeshFrame
<1>3. Issued' = Issued
  BY <1>1 DEF Issued, decide, _approval_count
<1>4. Frame' = Frame
  BY <1>1, <1>2, <1>3 DEF Frame
<1>5. DeploymentValid' = DeploymentValid
  BY <1>1 DEF DeploymentValid
<1>6. MeshRequirementsMet' = MeshRequirementsMet
  BY <1>1 DEF MeshRequirementsMet
<1> QED
  BY <1>1, <1>2, <1>4, <1>5, <1>6

(* A frame of the log is the mesh frame or an authorization frame. *)
LEMMA FrameKinds ==
  ASSUME NEW f \in Frame
  PROVE  /\ f.type \in {"mesh", "authorization"}
         /\ f.type = "mesh" <=> f = MeshFrame
         /\ f.type = "authorization" =>
              /\ f.request = Effective /\ f.issued = Issued
              /\ f.inputs = offer.inputs /\ f.barred \in SUBSET Sources
<1>1. MeshFrame.type = "mesh"
  BY DEF MeshFrame
<1>2. CASE f = MeshFrame
  BY <1>1, <1>2
<1>3. CASE f \in [type : {"authorization"}, request : {Effective}, issued : {Issued},
                  inputs : {offer.inputs}, barred : SUBSET Sources]
  BY <1>1, <1>3
<1> QED
  BY <1>2, <1>3 DEF Frame

(* The log after an append. *)
LEMMA Appended ==
  ASSUME frames \in Seq(Frame), NEW f \in Frame, offer' = offer, frames' = Append(frames, f)
  PROVE  /\ frames' \in Seq(Frame')
         /\ Len(frames) \in Nat
         /\ DOMAIN frames = 1..Len(frames) /\ DOMAIN frames' = 1..(Len(frames) + 1)
         /\ frames'[Len(frames) + 1] = f
         /\ \A i \in DOMAIN frames : frames'[i] = frames[i]
<1>1. Frame' = Frame
  BY OfferKept
<1> HIDE DEF Frame
<1> QED
  BY <1>1

(* The log's part of the invariant while nothing is appended. *)
LEMMA LogKept ==
  ASSUME LogInv, OnceInv, offer' = offer, frames' = frames, verifies' = verifies,
         step' = "preflighted" => step = "preflighted" \/ offer.inputs = {}
  PROVE  LogInv' /\ OnceInv'
<1>1. /\ MeshFrame' = MeshFrame /\ Frame' = Frame
      /\ DeploymentValid' = DeploymentValid
      /\ MeshRequirementsMet' = MeshRequirementsMet
      /\ Provided' = Provided
  BY OfferKept
<1>2. frames' \in Seq(Frame')
  BY <1>1 DEF LogInv
<1>3. step' = "preflighted" /\ offer'.inputs # {} => Recorded'
  BY <1>1 DEF LogInv, Recorded
<1>4. \A i \in DOMAIN frames' : frames'[i].type = "authorization" => Backed(i)'
  BY <1>1 DEF LogInv, Backed
<1>5. UniqueFrames => \A i, j \in DOMAIN frames' :
        frames'[i] = MeshFrame' /\ frames'[j] = MeshFrame' => i = j
  BY <1>1 DEF LogInv
<1>6. OnceInv'
  BY DEF OnceInv, AuthorizationFrames
<1> QED
  BY <1>2, <1>3, <1>4, <1>5, <1>6 DEF LogInv

(* The offer's inputs are finitely many, and of their kind. *)
LEMMA OfferTyped ==
  ASSUME DecisionsTypeOK
  PROVE  /\ offer.inputs \in SUBSET Input /\ IsFiniteSet(offer.inputs)
         /\ offer.request \in Request
  BY DecisionConstants DEF DecisionsTypeOK, Offer

(* A call is bound, and runs on only if it is valid. *)
LEMMA BindStep ==
  ASSUME DInv, Bind
  PROVE  DInv'
<1>1. /\ UNCHANGED <<offer, unverified, known, revoked, trusted, verifies, changes, frames>>
      /\ calls < MaxCalls /\ calls' = calls + 1
      /\ barred' = Gone
      /\ step' \in {"bound", "ended"} /\ (step' = "bound" => DeploymentValid)
  BY DEF Bind, sources
<1>2. DecisionsTypeOK'
  BY <1>1, DecisionConstants DEF DInv, DecisionsTypeOK, Steps, Gone
<1>3. CheckedInv'
  BY <1>1, OfferKept DEF CheckedInv, Running
<1>4. BarredInv'
  <2>1. Gone' = Gone
    BY <1>1 DEF Gone
  <2> QED
    BY <1>1, <2>1 DEF BarredInv
<1>5. LogInv' /\ OnceInv'
  BY <1>1, LogKept DEF DInv
<1> QED
  BY <1>2, <1>3, <1>4, <1>5 DEF DInv

(* The mesh requirements are enforced. *)
LEMMA DecideStep ==
  ASSUME DInv, Decide
  PROVE  DInv'
<1>1. /\ UNCHANGED <<offer, calls, known, revoked, trusted, verifies, changes, frames, barred>>
      /\ step = "bound" /\ unverified' = offer.inputs
      /\ step' = CASE ~ MeshRequirementsMet -> "ended"
                   [] MeshRequirementsMet /\ offer.inputs = {} -> "preflighted"
                   [] OTHER -> "decided"
  BY DEF Decide, sources
<1>2. \/ step' = "ended"
      \/ step' = "preflighted" /\ MeshRequirementsMet /\ offer.inputs = {}
      \/ step' = "decided" /\ MeshRequirementsMet /\ offer.inputs # {}
  <2> HIDE DEF MeshRequirementsMet
  <2>1. CASE ~ MeshRequirementsMet
    BY <1>1, <2>1
  <2>2. CASE MeshRequirementsMet /\ offer.inputs = {}
    BY <1>1, <2>2
  <2>3. CASE MeshRequirementsMet /\ offer.inputs # {}
    BY <1>1, <2>3
  <2> QED
    BY <2>1, <2>2, <2>3
<1>3. DecisionsTypeOK'
  BY <1>1, <1>2 DEF DInv, DecisionsTypeOK, Steps
<1>4. CheckedInv'
  BY <1>1, <1>2, OfferKept DEF DInv, CheckedInv, Running
<1>5. BarredInv'
  <2>1. offer.inputs = {} => Provided = {} /\ Provided' = {} /\ offer'.inputs = {}
    BY <1>1 DEF Provided
  <2>2. offer.inputs = {} => Cardinality(Provided') = Cardinality(offer'.inputs)
    BY <2>1
  <2>3. barred' \subseteq Gone'
    BY <1>1 DEF DInv, BarredInv, Gone
  <2> QED
    BY <1>1, <1>2, <2>2, <2>3 DEF BarredInv, Settled
<1>6. LogInv' /\ OnceInv'
  BY <1>1, <1>2, LogKept DEF DInv
<1> QED
  BY <1>3, <1>4, <1>5, <1>6 DEF DInv

(* A source is looked up: if it resolves, it is not barred. *)
LEMMA VerifySourceStep ==
  ASSUME DInv, NEW x \in offer.inputs, VerifySource(x)
  PROVE  DInv'
<1>1. /\ UNCHANGED <<offer, calls, known, revoked, trusted, verifies, changes, frames, barred>>
      /\ step = "decided" /\ x \in unverified /\ unverified' = unverified \ {x}
      /\ step' = CASE ~ Attested(x) -> "ended"
                   [] Attested(x) /\ unverified' # {} -> "decided"
                   [] OTHER -> IF Cardinality(Provided) = Cardinality(offer.inputs)
                               THEN "verified" ELSE "ended"
  BY DEF VerifySource, sources
<1>2. \/ step' = "ended"
      \/ step' = "decided" /\ Attested(x)
      \/ /\ step' = "verified" /\ Attested(x) /\ unverified' = {}
         /\ Cardinality(Provided) = Cardinality(offer.inputs)
  <2> HIDE DEF Attested
  <2>1. CASE ~ Attested(x)
    BY <1>1, <2>1
  <2>2. CASE Attested(x) /\ unverified' # {}
    BY <1>1, <2>2
  <2>3. CASE Attested(x) /\ unverified' = {}
    BY <1>1, <2>3
  <2> QED
    BY <2>1, <2>2, <2>3
<1>3. Attested(x) /\ verifies => x.source \notin barred
  <2>1. barred \subseteq Gone
    BY DEF DInv, BarredInv
  <2> QED
    BY <2>1 DEF Attested, resolve, Gone
<1>4. DecisionsTypeOK'
  BY <1>1, <1>2 DEF DInv, DecisionsTypeOK, Steps
<1>5. CheckedInv'
  BY <1>1, <1>2, OfferKept DEF DInv, CheckedInv, Running
<1>6. BarredInv'
  <2>1. /\ offer.inputs # {}
        /\ verifies => \A y \in Settled(unverified) : y.source \notin barred
    BY <1>1 DEF DInv, BarredInv
  <2>2. ASSUME Attested(x), verifies, NEW y \in Settled(unverified \ {x})
        PROVE  y.source \notin barred
    <3>1. CASE y.source = x.source
      BY <1>3, <2>2, <3>1
    <3>2. CASE y.source # x.source
      BY <2>1, <2>2, <3>2 DEF Settled
    <3> QED
      BY <3>1, <3>2
  <2>3. Provided' = Provided /\ barred' \subseteq Gone'
    BY <1>1, OfferKept DEF DInv, BarredInv, Gone
  <2>4. CASE step' = "ended"
    BY <2>3, <2>4 DEF BarredInv
  <2>5. CASE step' = "decided" /\ Attested(x)
    <3>1. Settled(unverified)' = Settled(unverified \ {x})
      BY <1>1 DEF Settled
    <3> QED
      BY <1>1, <2>1, <2>2, <2>3, <2>5, <3>1 DEF BarredInv
  <2>6. CASE /\ step' = "verified" /\ Attested(x) /\ unverified' = {}
             /\ Cardinality(Provided) = Cardinality(offer.inputs)
    <3>1. Settled(unverified \ {x}) = offer.inputs
      BY <1>1, <2>6 DEF Settled
    <3> QED
      BY <1>1, <2>1, <2>2, <2>3, <2>6, <3>1 DEF BarredInv
  <2> QED
    BY <1>2, <2>4, <2>5, <2>6
<1>7. LogInv' /\ OnceInv'
  BY <1>1, <1>2, LogKept DEF DInv
<1> QED
  BY <1>4, <1>5, <1>6, <1>7 DEF DInv

(* The decision of the mesh is appended, or refused as recorded already. *)
LEMMA PreflightStep ==
  ASSUME DInv, Preflight
  PROVE  DInv'
<1>1. /\ UNCHANGED <<offer, unverified, calls, known, revoked, trusted, verifies, changes, barred>>
      /\ step = "verified"
      /\ \/ step' = "ended" /\ frames' = frames
         \/ /\ ~ (UniqueFrames /\ Recorded)
            /\ step' = "preflighted" /\ frames' = Append(frames, MeshFrame)
  BY DEF Preflight, sources
<1>2. /\ MeshFrame' = MeshFrame /\ Frame' = Frame
      /\ DeploymentValid' = DeploymentValid
      /\ MeshRequirementsMet' = MeshRequirementsMet
      /\ Provided' = Provided
  BY <1>1, OfferKept
<1>3. CheckedInv'
  BY <1>1, <1>2 DEF DInv, CheckedInv, Running
<1>4. BarredInv'
  BY <1>1, <1>2 DEF DInv, BarredInv, Gone
<1>5. CASE frames' = frames /\ step' = "ended"
  <2>1. DecisionsTypeOK'
    BY <1>1, <1>5 DEF DInv, DecisionsTypeOK, Steps
  <2>2. LogInv' /\ OnceInv'
    BY <1>1, <1>5, LogKept DEF DInv
  <2> QED
    BY <1>3, <1>4, <2>1, <2>2 DEF DInv
<1>6. CASE /\ ~ (UniqueFrames /\ Recorded)
           /\ step' = "preflighted" /\ frames' = Append(frames, MeshFrame)
  <2> DEFINE n == Len(frames) + 1
  <2>1. /\ frames' \in Seq(Frame') /\ Len(frames) \in Nat
        /\ DOMAIN frames = 1..Len(frames) /\ DOMAIN frames' = 1..n
        /\ frames'[n] = MeshFrame
        /\ \A i \in DOMAIN frames : frames'[i] = frames[i]
    <3>1. frames \in Seq(Frame) /\ MeshFrame \in Frame
      BY DEF DInv, LogInv, Frame
    <3> QED
      BY <1>1, <1>6, <3>1, Appended
  <2>2. MeshFrame.type = "mesh"
    BY DEF MeshFrame
  <2>3. DecisionsTypeOK'
    <3>1. \A i \in DOMAIN frames' : frames'[i].type \in {"mesh", "authorization"}
      BY <2>1, <2>2 DEF DInv, DecisionsTypeOK
    <3> QED
      BY <1>1, <1>6, <3>1 DEF DInv, DecisionsTypeOK, Steps
  <2>4. Recorded'
    BY <1>2, <2>1 DEF Recorded
  <2>5. ASSUME NEW i \in DOMAIN frames', frames'[i].type = "authorization"
        PROVE  Backed(i)'
    <3>1. i \in DOMAIN frames /\ frames[i].type = "authorization"
      BY <2>1, <2>2, <2>5
    <3>2. Backed(i)
      BY <3>1 DEF DInv, LogInv
    <3>3. \A j \in 1..(i - 1) : j \in DOMAIN frames
      BY <2>1, <3>1
    <3> QED
      BY <1>1, <1>2, <2>1, <3>1, <3>2, <3>3 DEF Backed
  <2>6. UniqueFrames => \A i, j \in DOMAIN frames' :
          frames'[i] = MeshFrame' /\ frames'[j] = MeshFrame' => i = j
    <3>1. UniqueFrames => \A i \in DOMAIN frames : frames'[i] # MeshFrame
      BY <1>6, <2>1 DEF Recorded
    <3> QED
      BY <1>2, <2>1, <3>1
  <2>7. LogInv'
    BY <2>1, <2>4, <2>5, <2>6 DEF LogInv
  <2>8. OnceInv'
    <3> SUFFICES ASSUME UniqueFrames, offer.inputs # {} PROVE AuthorizationFrames' = {}
      BY <1>1 DEF OnceInv
    <3>1. \A i \in DOMAIN frames : frames[i].type # "authorization"
      <4> SUFFICES ASSUME NEW i \in DOMAIN frames, frames[i].type = "authorization"
                   PROVE  FALSE
        OBVIOUS
      <4>1. PICK j \in 1..(i - 1) : frames[j] = MeshFrame
        BY DEF DInv, LogInv, Backed
      <4>2. j \in DOMAIN frames
        BY <2>1
      <4> QED
        BY <1>6, <4>1, <4>2 DEF Recorded
    <3> QED
      BY <2>1, <2>2, <3>1 DEF AuthorizationFrames
  <2> QED
    BY <1>3, <1>4, <2>3, <2>7, <2>8 DEF DInv
<1> QED
  BY <1>1, <1>5, <1>6

(* The authorization frame is appended, after the mesh frame if there are  *)
(* inputs.                                                                 *)
LEMMA IssueStep ==
  ASSUME DInv, Issue
  PROVE  DInv'
<1>1. /\ UNCHANGED <<offer, unverified, calls, known, revoked, trusted, verifies, changes, barred>>
      /\ step = "preflighted" /\ step' = "ended"
      /\ frames' = Append(frames, AuthorizationFrame)
  BY DEF Issue, sources
<1>2. /\ MeshFrame' = MeshFrame /\ Frame' = Frame
      /\ DeploymentValid' = DeploymentValid
      /\ MeshRequirementsMet' = MeshRequirementsMet
      /\ Provided' = Provided
  BY <1>1, OfferKept
<1>3. CheckedInv' /\ BarredInv'
  BY <1>1 DEF DInv, CheckedInv, Running, BarredInv, Gone
<1>4. /\ AuthorizationFrame \in Frame /\ AuthorizationFrame.type = "authorization"
      /\ AuthorizationFrame.barred = barred /\ AuthorizationFrame # MeshFrame
  <2>1. barred \in SUBSET Sources
    BY DEF DInv, DecisionsTypeOK
  <2>2. AuthorizationFrame.type = "authorization" /\ AuthorizationFrame.barred = barred
    BY DEF AuthorizationFrame
  <2>3. AuthorizationFrame \in Frame
    BY <2>1 DEF AuthorizationFrame, Frame
  <2>4. MeshFrame.type = "mesh"
    BY DEF MeshFrame
  <2> QED
    BY <2>2, <2>3, <2>4
<1> DEFINE n == Len(frames) + 1
<1>5. /\ frames' \in Seq(Frame') /\ Len(frames) \in Nat
      /\ DOMAIN frames = 1..Len(frames) /\ DOMAIN frames' = 1..n
      /\ frames'[n] = AuthorizationFrame
      /\ \A i \in DOMAIN frames : frames'[i] = frames[i]
  <2>1. frames \in Seq(Frame)
    BY DEF DInv, LogInv
  <2> QED
    BY <1>1, <1>4, <2>1, Appended
<1>6. DecisionsTypeOK'
  <2>1. \A i \in DOMAIN frames' : frames'[i].type \in {"mesh", "authorization"}
    BY <1>4, <1>5 DEF DInv, DecisionsTypeOK
  <2> QED
    BY <1>1, <2>1 DEF DInv, DecisionsTypeOK, Steps
<1>7. ASSUME NEW i \in DOMAIN frames', frames'[i].type = "authorization"
      PROVE  Backed(i)'
  <2>1. CASE i \in DOMAIN frames
    <3>1. Backed(i)
      BY <1>5, <1>7, <2>1 DEF DInv, LogInv
    <3>2. \A j \in 1..(i - 1) : j \in DOMAIN frames
      BY <1>5, <2>1
    <3> QED
      BY <1>1, <1>2, <1>5, <2>1, <3>1, <3>2 DEF Backed
  <2>2. CASE i = n
    <3>1. DeploymentValid /\ MeshRequirementsMet
      BY <1>1 DEF DInv, CheckedInv, Running
    <3>2. /\ verifies => \A x \in offer.inputs : x.source \notin barred
          /\ Cardinality(Provided) = Cardinality(offer.inputs)
      BY <1>1 DEF DInv, BarredInv
    <3>3. offer.inputs # {} => \E j \in 1..(n - 1) : frames'[j] = MeshFrame
      <4>1. n - 1 = Len(frames)
        BY <1>5
      <4>2. offer.inputs # {} => \E j \in DOMAIN frames : frames[j] = MeshFrame
        BY <1>1 DEF DInv, LogInv, Recorded
      <4> QED
        BY <1>5, <4>1, <4>2
    <3> QED
      BY <1>1, <1>2, <1>4, <1>5, <2>2, <3>1, <3>2, <3>3 DEF Backed
  <2> QED
    BY <1>5, <2>1, <2>2
<1>8. UniqueFrames => \A i, j \in DOMAIN frames' :
        frames'[i] = MeshFrame' /\ frames'[j] = MeshFrame' => i = j
  <2>1. \A i \in DOMAIN frames' : frames'[i] = MeshFrame =>
          i \in DOMAIN frames /\ frames[i] = MeshFrame
    BY <1>4, <1>5
  <2> QED
    BY <1>2, <2>1 DEF DInv, LogInv
<1>9. LogInv'
  BY <1>1, <1>5, <1>7, <1>8 DEF LogInv
<1>10. OnceInv'
  <2> SUFFICES ASSUME UniqueFrames, offer.inputs # {}
               PROVE  \A i, j \in AuthorizationFrames' : i = j
    BY <1>1 DEF OnceInv
  <2>1. AuthorizationFrames = {}
    BY <1>1 DEF DInv, OnceInv
  <2>2. \A i \in AuthorizationFrames' : i = n
    BY <1>5, <2>1 DEF AuthorizationFrames
  <2> QED
    BY <2>2
<1> QED
  BY <1>3, <1>6, <1>9, <1>10 DEF DInv

(* A call ends, or the caller makes it again. *)
LEMMA CallEndsStep ==
  ASSUME DInv, Fail \/ CallAgain
  PROVE  DInv'
<1>1. /\ UNCHANGED <<offer, calls, known, revoked, trusted, verifies, changes, frames, barred>>
      /\ step' \in {"ready", "ended"}
      /\ unverified' = unverified \/ unverified' = {}
  BY DEF Fail, CallAgain, sources
<1>2. DecisionsTypeOK'
  BY <1>1 DEF DInv, DecisionsTypeOK, Steps
<1>3. CheckedInv' /\ BarredInv'
  BY <1>1 DEF DInv, CheckedInv, Running, BarredInv, Gone
<1>4. LogInv' /\ OnceInv'
  BY <1>1, LogKept DEF DInv
<1> QED
  BY <1>2, <1>3, <1>4 DEF DInv

(* The operator changes the registry of sources, or its trust store: a     *)
(* source is barred that stops to resolve with an input still to be        *)
(* verified.                                                               *)
LEMMA SourcesStep ==
  ASSUME DInv, NEW s \in Sources, register(s) \/ revoke(s) \/ add(s) \/ withdraw(s)
  PROVE  DInv'
<1>1. /\ UNCHANGED <<offer, step, unverified, calls, verifies, frames>>
      /\ changes < MaxChanges /\ changes' = changes + 1
      /\ barred' = (barred \cup Awaited) \cap Gone'
  BY DEF register, revoke, add, withdraw, Change
<1>2. known' \subseteq Sources /\ revoked' \subseteq known' /\ trusted' \subseteq Sources
  <2>1. known \subseteq Sources /\ revoked \subseteq known /\ trusted \subseteq Sources
    BY DEF DInv, DecisionsTypeOK
  <2>2. CASE register(s)
    BY <2>1, <2>2 DEF register
  <2>3. CASE revoke(s)
    BY <2>1, <2>3 DEF revoke
  <2>4. CASE add(s) \/ withdraw(s)
    BY <2>1, <2>4 DEF add, withdraw
  <2> QED
    BY <2>2, <2>3, <2>4
<1>3. barred' \subseteq Sources
  BY <1>1, <1>2 DEF Gone
<1>4. DecisionsTypeOK'
  BY <1>1, <1>2, <1>3, DecisionConstants DEF DInv, DecisionsTypeOK
<1>5. CheckedInv' /\ BarredInv'
  <2>1. /\ Provided' = Provided /\ DeploymentValid' = DeploymentValid
        /\ MeshRequirementsMet' = MeshRequirementsMet
    BY <1>1, OfferKept
  <2>2. CheckedInv'
    BY <1>1, <2>1 DEF DInv, CheckedInv
  <2>3. barred' \subseteq Gone'
    BY <1>1
  <2>4. CASE step = "decided"
    <3>1. Awaited = {i.source : i \in unverified}
      BY <2>4 DEF Awaited
    <3>2. \A x \in Settled(unverified) : x.source \notin Awaited
      BY <3>1 DEF Settled
    <3>3. Settled(unverified)' = Settled(unverified)
      BY <1>1 DEF Settled
    <3> QED
      BY <1>1, <2>2, <2>3, <2>4, <3>2, <3>3 DEF DInv, BarredInv
  <2>5. CASE step \in {"verified", "preflighted"}
    <3>1. Awaited = {}
      BY <2>5 DEF Awaited
    <3>2. barred' \subseteq barred
      BY <1>1, <3>1
    <3> QED
      BY <1>1, <2>1, <2>2, <2>3, <2>5, <3>2 DEF DInv, BarredInv
  <2>6. CASE step \notin {"decided", "verified", "preflighted"}
    BY <1>1, <2>2, <2>3, <2>6 DEF BarredInv
  <2> QED
    BY <2>2, <2>4, <2>5, <2>6
<1>6. LogInv' /\ OnceInv'
  BY <1>1, LogKept DEF DInv
<1> QED
  BY <1>4, <1>5, <1>6 DEF DInv

(* The invariant holds before the first call. *)
LEMMA DecisionsStart == DecisionsInit => DInv
<1> SUFFICES ASSUME DecisionsInit PROVE DInv
  OBVIOUS
<1>1. DecisionsTypeOK
  BY DecisionConstants DEF DecisionsInit, DecisionsTypeOK, Steps
<1>2. CheckedInv /\ BarredInv
  BY DEF DecisionsInit, CheckedInv, Running, BarredInv
<1>3. LogInv
  <2>1. frames = <<>> /\ step = "ready"
    BY DEF DecisionsInit
  <2>2. frames \in Seq(Frame) /\ DOMAIN frames = {}
    BY <2>1
  <2> QED
    BY <2>1, <2>2 DEF LogInv
<1>4. OnceInv
  BY DEF DecisionsInit, OnceInv, AuthorizationFrames
<1> QED
  BY <1>1, <1>2, <1>3, <1>4 DEF DInv

(* Every step of a call and of the operator keeps the invariant. *)
LEMMA DecisionsStep == DInv /\ [DecisionsNext]_decisionsVars => DInv'
<1> SUFFICES ASSUME DInv, [DecisionsNext]_decisionsVars PROVE DInv'
  OBVIOUS
<1>1. CASE UNCHANGED decisionsVars
  <2>1. /\ offer' = offer /\ frames' = frames /\ step' = step
        /\ unverified' = unverified /\ calls' = calls /\ known' = known
        /\ revoked' = revoked /\ trusted' = trusted /\ verifies' = verifies
        /\ changes' = changes /\ barred' = barred
    BY <1>1 DEF decisionsVars, sources
  <2>2. /\ Provided' = Provided /\ DeploymentValid' = DeploymentValid
        /\ MeshRequirementsMet' = MeshRequirementsMet
    BY <2>1, OfferKept
  <2>3. LogInv' /\ OnceInv'
    BY <2>1, LogKept DEF DInv
  <2>4. DecisionsTypeOK' /\ CheckedInv'
    BY <2>1, <2>2 DEF DInv, DecisionsTypeOK, CheckedInv
  <2>5. BarredInv'
    BY <2>1, <2>2 DEF DInv, BarredInv, Settled, Gone
  <2> QED
    BY <2>3, <2>4, <2>5 DEF DInv
<1>2. CASE Bind
  BY <1>2, BindStep
<1>3. CASE Decide
  BY <1>3, DecideStep
<1>4. CASE Preflight
  BY <1>4, PreflightStep
<1>5. CASE Issue
  BY <1>5, IssueStep
<1>6. CASE Fail \/ CallAgain
  BY <1>6, CallEndsStep
<1>7. ASSUME NEW x \in offer.inputs, VerifySource(x) PROVE DInv'
  BY <1>7, VerifySourceStep
<1>8. ASSUME NEW s \in Sources, register(s) \/ revoke(s) \/ add(s) \/ withdraw(s)
      PROVE  DInv'
  BY <1>8, SourcesStep
<1> QED
  BY <1>1, <1>2, <1>3, <1>4, <1>5, <1>6, <1>7, <1>8 DEF DecisionsNext

(* DInv is an inductive invariant of deciding an authorization. *)
LEMMA DecisionsInvariant == DecisionsSpec => []DInv
  BY DecisionsStart, DecisionsStep, PTL DEF DecisionsSpec

(* The registry of sources, its trust store, the call and the log keep     *)
(* their kinds; only known sources are revoked, and only inputs of the     *)
(* offer are verified.                                                     *)
THEOREM DecisionsTyped == DecisionsSpec => []DecisionsTypeOK
<1>1. DInv => DecisionsTypeOK
  BY DEF DInv
<1> QED
  BY <1>1, DecisionsInvariant, PTL

(* GovernanceMesh.preflight ranks groups, and yet decides by the highest   *)
(* priority alone: for any number of inputs, weights and priorities, the   *)
(* decision is the one verdict of that priority, or a conflict.            *)
THEOREM DecisionsPreflight == DecisionsSpec => []PreflightIsTopVerdict
<1>1. DInv => PreflightIsTopVerdict
  BY OfferTyped, PreflightFacts DEF DInv, PreflightIsTopVerdict
<1> QED
  BY <1>1, DecisionsInvariant, PTL

(* AuthorizationIssuer.authorize with a source registry gives no say to a  *)
(* source that did not resolve when the call began, or that was revoked    *)
(* before its input was verified, unless it was given back since: each     *)
(* source is looked up at a time of its own, in the registry and in the    *)
(* trust store, while both change.                                         *)
THEOREM DecisionsRevokedSource == DecisionsSpec => []RevokedSourceHasNoSay
<1>1. ASSUME DInv PROVE RevokedSourceHasNoSay
  <2> SUFFICES ASSUME verifies, NEW i \in DOMAIN frames,
                      frames[i].type = "authorization", NEW x \in frames[i].inputs
               PROVE  x.source \notin frames[i].barred
    BY DEF RevokedSourceHasNoSay, IssuedFrames, AuthorizationFrames
  <2>1. Backed(i) /\ frames[i] \in Frame
    BY <1>1 DEF DInv, LogInv
  <2>2. frames[i].inputs = offer.inputs
    BY <2>1, FrameKinds
  <2> QED
    BY <2>1, <2>2 DEF Backed
<1> QED
  BY <1>1, DecisionsInvariant, PTL

(* An issued authorization is bound to the identity's tenant, has every    *)
(* required source, one input per source, and an allowing verdict of the   *)
(* highest priority, whatever happened between the checks and the append.  *)
THEOREM DecisionsIssuedIsGoverned == DecisionsSpec => []IssuedIsGoverned
<1>1. ASSUME DInv PROVE IssuedIsGoverned
  <2> SUFFICES ASSUME NEW i \in DOMAIN frames, frames[i].type = "authorization",
                      frames[i].issued
               PROVE  /\ offer.identity.tenant # Unset =>
                           frames[i].request.tenant = offer.identity.tenant
                      /\ Policy.required_mesh_sources[frames[i].request.action]
                           \cup Deployment.mesh_required_sources
                           \subseteq {x.source : x \in frames[i].inputs}
                      /\ \A x, y \in frames[i].inputs : x.source = y.source => x = y
                      /\ \A x \in frames[i].inputs :
                           (\A y \in frames[i].inputs : y.priority <= x.priority)
                           => x.verdict \in Allowing
    BY DEF IssuedIsGoverned, IssuedFrames, AuthorizationFrames
  <2>1. Backed(i) /\ frames[i] \in Frame
    BY <1>1 DEF DInv, LogInv
  <2>2. /\ frames[i].request = Effective /\ frames[i].issued = Issued
        /\ frames[i].inputs = offer.inputs
    BY <2>1, FrameKinds
  <2>3. /\ offer.inputs \in SUBSET Input /\ IsFiniteSet(offer.inputs)
        /\ offer.request \in Request
    BY <1>1, OfferTyped DEF DInv
  <2>4. /\ Effective.action = offer.request.action
        /\ offer.identity.tenant # Unset => Effective.tenant = offer.identity.tenant
    BY <2>3 DEF Effective, Context, Request
  <2>5. Policy.required_mesh_sources[offer.request.action]
          \cup Deployment.mesh_required_sources \subseteq Provided
    BY <2>1 DEF Backed, DeploymentValid, MeshRequirementsMet
  <2>6. Provided = {x.source : x \in frames[i].inputs}
    BY <2>2 DEF Provided
  <2>7. \A x, y \in offer.inputs : x.source = y.source => x = y
    BY <2>1, <2>3, OneInputPerSource DEF Backed
  <2>8. ASSUME NEW x \in offer.inputs, \A y \in offer.inputs : y.priority <= x.priority
        PROVE  x.verdict \in Allowing
    <3>1. offer.inputs # {} /\ preflight(offer.inputs).allow
      BY <2>2 DEF Issued
    <3>2. \E v \in Allowing : \A y \in TopInputs(offer.inputs) : y.verdict = v
      BY <2>3, <3>1, PreflightFacts
    <3>3. x \in TopInputs(offer.inputs)
      BY <2>3, <2>8, <3>1, TopFacts
    <3> QED
      BY <3>2, <3>3
  <2> QED
    BY <2>2, <2>4, <2>5, <2>6, <2>7, <2>8
<1> QED
  BY <1>1, DecisionsInvariant, PTL

(* Through every failure and retry an authorization frame of a request     *)
(* with inputs follows the mesh frame of its decision; where the store     *)
(* refuses a frame id twice there is one of each.                          *)
THEOREM DecisionsAuditOrder == DecisionsSpec => []AuthorizationFollowsMesh
<1>1. ASSUME DInv PROVE AuthorizationFollowsMesh
  <2> SUFFICES ASSUME NEW i \in DOMAIN frames, frames[i].type = "authorization",
                      frames[i].inputs # {}
               PROVE  LET mesh == {j \in 1..(i - 1) :
                                     /\ frames[j].type = "mesh"
                                     /\ frames[j].request = frames[i].request
                                     /\ frames[i].issued => frames[j].decision.allow}
                      IN  /\ Cardinality(mesh) >= 1
                          /\ UniqueFrames => /\ Cardinality(mesh) <= 1
                                             /\ \A k \in AuthorizationFrames : k = i
    BY DEF AuthorizationFollowsMesh, AuthorizationFrames
  <2> DEFINE mesh == {j \in 1..(i - 1) :
                        /\ frames[j].type = "mesh"
                        /\ frames[j].request = frames[i].request
                        /\ frames[i].issued => frames[j].decision.allow}
  <2>1. /\ Backed(i) /\ frames \in Seq(Frame) /\ i \in Nat
        /\ \A j \in 1..(i - 1) : j \in DOMAIN frames
        /\ \A j \in DOMAIN frames : frames[j] \in Frame
    <3>1. frames \in Seq(Frame)
      BY <1>1 DEF DInv, LogInv
    <3>2. DOMAIN frames = 1..Len(frames) /\ Len(frames) \in Nat
      BY <3>1
    <3>3. \A j \in DOMAIN frames : frames[j] \in Frame
      BY <3>1, <3>2
    <3> QED
      BY <1>1, <3>1, <3>2, <3>3 DEF DInv, LogInv
  <2>2. /\ frames[i].request = Effective /\ frames[i].issued = Issued
        /\ frames[i].inputs = offer.inputs
    BY <2>1, FrameKinds
  <2>3. PICK j \in 1..(i - 1) : frames[j] = MeshFrame
    BY <2>1, <2>2 DEF Backed
  <2>4. j \in mesh
    <3>1. /\ MeshFrame.type = "mesh" /\ MeshFrame.request = Effective
          /\ MeshFrame.decision = preflight(offer.inputs)
      BY DEF MeshFrame
    <3>2. Issued => preflight(offer.inputs).allow
      BY <2>2 DEF Issued
    <3> QED
      BY <2>2, <2>3, <3>1, <3>2
  <2>5. IsFiniteSet(mesh) /\ Cardinality(mesh) \in Nat
    <3>1. mesh \in SUBSET (1..(i - 1)) /\ i - 1 \in Int
      BY <2>1
    <3>2. IsFiniteSet(1..(i - 1))
      BY <3>1, FS_Interval
    <3> HIDE DEF mesh
    <3> QED
      BY <3>1, <3>2, FS_Subset, FS_CardinalityType
  <2>6. UniqueFrames => mesh = {j}
    <3> SUFFICES ASSUME UniqueFrames, NEW k \in mesh PROVE k = j
      BY <2>4
    <3>1. k \in DOMAIN frames /\ j \in DOMAIN frames /\ frames[k].type = "mesh"
      BY <2>1, <2>3
    <3>2. frames[k] = MeshFrame
      BY <2>1, <3>1, FrameKinds
    <3> QED
      BY <1>1, <2>3, <3>1, <3>2 DEF DInv, LogInv
  <2> HIDE DEF mesh
  <2>7. Cardinality(mesh) >= 1
    <3>1. Cardinality(mesh) # 0
      BY <2>4, <2>5, FS_EmptySet
    <3> QED
      BY <2>5, <3>1
  <2>8. UniqueFrames => Cardinality(mesh) <= 1
    BY <2>6, FS_Singleton
  <2>9. UniqueFrames => \A k \in AuthorizationFrames : k = i
    BY <1>1, <2>2 DEF DInv, OnceInv, AuthorizationFrames
  <2> QED
    BY <2>7, <2>8, <2>9 DEF mesh
<1> QED
  BY <1>1, DecisionsInvariant, PTL

-----------------------------------------------------------------------------
(* The job queue.                                                          *)

USE JobQueueConstants

(* The type invariant of the queue: whatever order claims, late settlements *)
(* and crashes come in, a busy worker has a submitted job with an artifact. *)
THEOREM JobsTyped == Spec => []TypeOK
<1>1. Init => TypeOK
  BY DEF Init, TypeOK, Statuses
<1>2. TypeOK /\ [Next]_vars => TypeOK'
  <2> SUFFICES ASSUME TypeOK, [Next]_vars PROVE TypeOK'
    OBVIOUS
  <2>1. ASSUME NEW j \in Jobs, NEW a \in Artifacts, NEW delayed \in BOOLEAN,
               enqueue(j, a, delayed)
        PROVE TypeOK'
    BY <2>1 DEF enqueue, TypeOK, Statuses, workerVars
  <2>2. ASSUME NEW w \in Workers, Claim(w) PROVE TypeOK'
    <3>1. CASE ClaimPostgres(w)
      <4> PICK j \in Jobs : Claimable(j) /\ MarkRunning(j)
                              /\ Begin(w, j, "authorize")
        BY <3>1 DEF ClaimPostgres
      <4>1. status[j] # "absent" /\ payload[j] \in Artifacts
        BY DEF Claimable, TypeOK
      <4> QED
        BY <3>1, <4>1 DEF ClaimPostgres, MarkRunning, Begin, TypeOK, Statuses
    <3>2. CASE SelectSQLite(w)
      <4> PICK j \in Jobs : Claimable(j) /\ Begin(w, j, "selected")
        BY <3>2 DEF SelectSQLite
      <4>1. status[j] # "absent" /\ payload[j] \in Artifacts
        BY DEF Claimable, TypeOK
      <4> QED
        BY <3>2, <4>1 DEF SelectSQLite, Begin, TypeOK, jobVars
    <3> QED
      BY <2>2, <3>1, <3>2 DEF Claim
  <2>3. ASSUME NEW w \in Workers, Work(w) PROVE TypeOK'
    <3>0. pc[w] # "idle" /\ job[w] \in Jobs /\ payload[job[w]] \in Artifacts
          /\ status[job[w]] # "absent"
      BY <2>3 DEF Work, UpdateSQLite, Authorize, Unrunnable, Sandbox,
                  complete, FailPostgres, FailReadSQLite, FailWriteSQLite,
                  TypeOK
    <3>1. CASE UpdateSQLite(w)
      BY <3>0, <3>1 DEF UpdateSQLite, MarkRunning, TypeOK, Statuses
    <3>2. CASE Authorize(w)
      BY <3>0, <3>2 DEF Authorize, TypeOK, jobVars
    <3>3. CASE Unrunnable(w)
      BY <3>0, <3>3 DEF Unrunnable, TypeOK, jobVars
    <3>4. ASSUME NEW ok \in BOOLEAN, Sandbox(w, ok) PROVE TypeOK'
      BY <3>0, <3>4 DEF Sandbox, TypeOK, jobVars
    <3>5. CASE complete(w)
      BY <3>0, <3>5 DEF complete, Rest, TypeOK, Statuses
    <3>6. CASE FailPostgres(w)
      BY <3>0, <3>6 DEF FailPostgres, Settle, Retry, Rest, TypeOK, Statuses
    <3>7. CASE FailReadSQLite(w)
      BY <3>0, <3>7 DEF FailReadSQLite, Retry, TypeOK, jobVars
    <3>8. CASE FailWriteSQLite(w)
      <4>1. verdict[w] \in {"queued", "dead_letter"}
        BY <3>8 DEF FailWriteSQLite, TypeOK
      <4> QED
        BY <3>0, <3>8, <4>1 DEF FailWriteSQLite, Settle, Rest, TypeOK, Statuses
    <3> QED
      BY <2>3, <3>1, <3>2, <3>3, <3>4, <3>5, <3>6, <3>7, <3>8 DEF Work
  <2>4. ASSUME NEW w \in Workers, Crash(w) PROVE TypeOK'
    BY <2>4 DEF Crash, Rest, TypeOK, jobVars
  <2>5. ASSUME NEW a \in Artifacts, Invalidate(a) PROVE TypeOK'
    BY <2>5 DEF Invalidate, TypeOK, jobVars, workerVars
  <2>6. ASSUME NEW j \in Jobs, RetryDelayPasses(j) \/ LeaseExpires(j)
        PROVE TypeOK'
    <3>1. CASE RetryDelayPasses(j)
      BY <3>1 DEF RetryDelayPasses, TypeOK, workerVars
    <3>2. CASE LeaseExpires(j)
      BY <3>2 DEF LeaseExpires, TypeOK
    <3> QED
      BY <2>6, <3>1, <3>2
  <2>7. CASE UNCHANGED vars
    BY <2>7 DEF vars, TypeOK
  <2> QED
    BY <2>1, <2>2, <2>3, <2>4, <2>5, <2>6, <2>7 DEF Next, Time
<1> QED
  BY <1>1, <1>2, PTL DEF Spec

-----------------------------------------------------------------------------
(* A step that starts no sandbox and reports no success keeps JobsInv, if   *)
(* it only moves workers away from the sandbox and completed artifacts stay *)
(* completed.                                                               *)
LEMMA QuietJobStep ==
  ASSUME JobsInv, TypeOK',
         UNCHANGED <<ran, good>>,
         \A j \in Jobs : payload[j] # None => payload'[j] = payload[j],
         \A a \in Artifacts : stage[a] = "completed" => stage'[a] = "completed",
         \A j \in Jobs : status'[j] = "succeeded" => j \in good,
         \A w \in Workers :
            \/ pc'[w] = pc[w] /\ job'[w] = job[w]
            \/ pc'[w] \notin {"sandbox", "complete"}
  PROVE  JobsInv'
<1>1. \A w \in Workers : pc'[w] \in {"sandbox", "complete"} =>
        /\ pc'[w] = pc[w] /\ job'[w] = job[w] /\ job[w] \in Jobs
        /\ payload[job[w]] \in Artifacts
        /\ payload'[job[w]] = payload[job[w]]
  BY DEF JobsInv, TypeOK
<1>2. SandboxInv'
  BY <1>1 DEF JobsInv, SandboxInv
<1>3. \A j \in good : payload'[j] = payload[j]
  BY DEF JobsInv, TypeOK, SuccessInv
<1>4. SuccessInv'
  BY <1>1, <1>3 DEF JobsInv, SuccessInv
<1> QED
  BY <1>2, <1>4 DEF JobsInv

(* The barrier hands the specification out: nobody else has it, and no      *)
(* sandbox has run under it.                                                *)
LEMMA AuthorizeStep ==
  ASSUME JobsInv, TypeOK', NEW w \in Workers, Authorize(w)
  PROVE  JobsInv'
<1> DEFINE a == payload[job[w]]
<1>0. /\ pc[w] = "authorize" /\ a \in Artifacts /\ job[w] \in Jobs
      /\ UNCHANGED <<status, payload, job, ran, good>>
      /\ \A u \in Workers \ {w} : pc'[u] = pc[u]
  BY DEF Authorize, JobsInv, TypeOK, jobVars
<1>1. CASE pc'[w] = "sandbox"
  <2>1. stage[a] = "granted" /\ stage' = [stage EXCEPT ![a] = "completed"]
    BY <1>0, <1>1 DEF Authorize, JobsInv, TypeOK
  <2>2. ran[a] = 0
    BY <1>0, <2>1 DEF JobsInv, SandboxInv
  <2>3. \A u \in Workers \ {w} : pc[u] = "sandbox" => payload[job[u]] # a
    BY <2>1 DEF JobsInv, SandboxInv
  <2>4. SandboxInv'
    BY <1>0, <1>1, <2>1, <2>2, <2>3 DEF JobsInv, SandboxInv, TypeOK
  <2>5. SuccessInv'
    BY <1>0, <1>1 DEF JobsInv, SuccessInv
  <2> QED
    BY <2>4, <2>5 DEF JobsInv
<1>2. CASE pc'[w] # "sandbox"
  <2>1. pc'[w] = "fail"
    BY <1>0, <1>2 DEF Authorize, JobsInv, TypeOK
  <2>2. \A b \in Artifacts : stage[b] = "completed" => stage'[b] = "completed"
    BY <1>0 DEF Authorize, JobsInv, TypeOK
  <2> QED
    BY <1>0, <2>1, <2>2, QuietJobStep DEF JobsInv, SuccessInv
<1> QED
  BY <1>1, <1>2

(* The sandbox runs once. *)
LEMMA SandboxStep ==
  ASSUME JobsInv, TypeOK', NEW w \in Workers, NEW ok \in BOOLEAN,
         Sandbox(w, ok)
  PROVE  JobsInv'
<1> DEFINE a == payload[job[w]]
<1>0. /\ pc[w] = "sandbox" /\ a \in Artifacts /\ job[w] \in Jobs
      /\ UNCHANGED <<status, payload, job, stage>>
      /\ \A u \in Workers \ {w} : pc'[u] = pc[u]
      /\ pc'[w] = IF ok THEN "complete" ELSE "fail"
      /\ good' = IF ok THEN good \cup {job[w]} ELSE good
  BY DEF Sandbox, JobsInv, TypeOK, jobVars
<1>1. ran[a] = 0 /\ stage[a] = "completed"
  BY <1>0 DEF JobsInv, SandboxInv
<1>2. ran'[a] = 1 /\ \A b \in Artifacts \ {a} : ran'[b] = ran[b]
  BY <1>0, <1>1 DEF Sandbox, JobsInv, TypeOK
<1>3. \A u \in Workers : pc'[u] = "sandbox" =>
        u # w /\ pc[u] = "sandbox" /\ payload[job[u]] # a
        /\ payload[job[u]] \in Artifacts
  BY <1>0 DEF JobsInv, SandboxInv, TypeOK
<1>4. SandboxInv'
  BY <1>0, <1>1, <1>2, <1>3 DEF JobsInv, SandboxInv
<1>5. \A j \in good' : payload[j] \in Artifacts /\ ran'[payload[j]] = 1
  BY <1>0, <1>2 DEF JobsInv, SuccessInv
<1>6. SuccessInv'
  BY <1>0, <1>5 DEF JobsInv, SuccessInv
<1> QED
  BY <1>4, <1>6 DEF JobsInv

(* Both stores, any number of late, duplicated and crashed workers: the     *)
(* sandbox runs at most once per artifact, and a job is only reported       *)
(* succeeded after its own sandbox ended with exit code 0.                  *)
LEMMA JobsInvariant == Spec => []JobsInv
<1>1. Init => JobsInv
  BY DEF Init, JobsInv, TypeOK, Statuses, SandboxInv, SuccessInv
<1>2. JobsInv /\ TypeOK' /\ [Next]_vars => JobsInv'
  <2> SUFFICES ASSUME JobsInv, TypeOK', [Next]_vars PROVE JobsInv'
    OBVIOUS
  <2>1. ASSUME NEW j \in Jobs, NEW a \in Artifacts, NEW delayed \in BOOLEAN,
               enqueue(j, a, delayed)
        PROVE JobsInv'
    BY <2>1, QuietJobStep DEF enqueue, JobsInv, TypeOK, SuccessInv, workerVars
  <2>2. ASSUME NEW w \in Workers, Claim(w) PROVE JobsInv'
    BY <2>2, QuietJobStep
       DEF Claim, ClaimPostgres, SelectSQLite, MarkRunning, Begin, JobsInv,
           TypeOK, SuccessInv, jobVars
  <2>3. ASSUME NEW w \in Workers, Work(w) PROVE JobsInv'
    <3>1. CASE UpdateSQLite(w)
      BY <3>1, QuietJobStep
         DEF UpdateSQLite, MarkRunning, JobsInv, TypeOK, SuccessInv
    <3>2. CASE Authorize(w)
      BY <3>2, AuthorizeStep
    <3>3. CASE Unrunnable(w)
      BY <3>3, QuietJobStep DEF Unrunnable, JobsInv, TypeOK, SuccessInv,
                                jobVars
    <3>4. ASSUME NEW ok \in BOOLEAN, Sandbox(w, ok) PROVE JobsInv'
      BY <3>4, SandboxStep
    <3>5. CASE complete(w)
      BY <3>5, QuietJobStep DEF complete, Rest, JobsInv, TypeOK, SuccessInv
    <3>6. CASE FailPostgres(w)
      BY <3>6, QuietJobStep DEF FailPostgres, Settle, Retry, Rest, JobsInv,
                                TypeOK, SuccessInv
    <3>7. CASE FailReadSQLite(w)
      BY <3>7, QuietJobStep DEF FailReadSQLite, JobsInv, TypeOK, SuccessInv,
                                jobVars
    <3>8. CASE FailWriteSQLite(w)
      <4>1. verdict[w] \in {"queued", "dead_letter"}
        BY <3>8 DEF FailWriteSQLite, JobsInv, TypeOK
      <4> QED
        BY <3>8, <4>1, QuietJobStep DEF FailWriteSQLite, Settle, Rest, JobsInv,
                                        TypeOK, SuccessInv
    <3> QED
      BY <2>3, <3>1, <3>2, <3>3, <3>4, <3>5, <3>6, <3>7, <3>8 DEF Work
  <2>4. ASSUME NEW w \in Workers, Crash(w) PROVE JobsInv'
    BY <2>4, QuietJobStep DEF Crash, Rest, JobsInv, TypeOK, SuccessInv, jobVars
  <2>5. ASSUME NEW a \in Artifacts, Invalidate(a) PROVE JobsInv'
    BY <2>5, QuietJobStep DEF Invalidate, JobsInv, TypeOK, SuccessInv, jobVars,
                              workerVars
  <2>6. ASSUME NEW j \in Jobs, RetryDelayPasses(j) \/ LeaseExpires(j)
        PROVE JobsInv'
    BY <2>6, QuietJobStep DEF RetryDelayPasses, LeaseExpires, JobsInv, TypeOK,
                              SuccessInv, workerVars
  <2>7. CASE UNCHANGED vars
    BY <2>7, QuietJobStep DEF vars, JobsInv, TypeOK, SuccessInv
  <2> QED
    BY <2>1, <2>2, <2>3, <2>4, <2>5, <2>6, <2>7 DEF Next, Time
<1> QED
  BY <1>1, <1>2, JobsTyped, PTL DEF Spec

(* The sandbox starts at most once per artifact: retries, reclaimed leases *)
(* and late workers are all stopped by the barrier's consumption.          *)
THEOREM JobsSandboxAtMostOnce == Spec => []SandboxAtMostOnce
<1>1. JobsInv => SandboxAtMostOnce
  BY DEF JobsInv, SandboxInv, SandboxAtMostOnce
<1> QED
  BY <1>1, JobsInvariant, PTL

(* A job that is reported succeeded has run, once, with exit code 0. *)
THEOREM JobsSucceededRan == Spec => []SucceededRan
<1>1. JobsInv => SucceededRan
  BY DEF JobsInv, SandboxInv, SuccessInv, SucceededRan
<1> QED
  BY <1>1, JobsInvariant, PTL

(* A job of the PostgreSQL store is running just as long as it has a lease, *)
(* live or expired: there is always something to reclaim it by.             *)
RunningIsLeased ==
  store = "postgres" => \A j \in Jobs : status[j] = "running" <=> lease[j] # "none"

(* What JobsSettle rests on, for any number of workers and crashes: claim  *)
(* sets a lease with the status, and complete and fail take both back, so  *)
(* no job is left running for a worker that is gone.                       *)
THEOREM JobsRunningLeased == Spec => []RunningIsLeased
<1>1. Init => RunningIsLeased
  BY DEF Init, RunningIsLeased
<1>2. TypeOK /\ RunningIsLeased /\ [Next]_vars => RunningIsLeased'
  <2> SUFFICES ASSUME TypeOK, RunningIsLeased, [Next]_vars, store = "postgres",
                      NEW j \in Jobs
               PROVE  status'[j] = "running" <=> lease'[j] # "none"
    <3>1. ASSUME NEW w \in Workers, Claim(w) \/ Work(w) \/ Crash(w)
          PROVE  store' = store
      <4>1. CASE Claim(w)
        BY <4>1 DEF Claim, ClaimPostgres, SelectSQLite
      <4>2. CASE Work(w)
        <5>1. CASE UpdateSQLite(w) \/ Authorize(w) \/ Unrunnable(w)
          BY <5>1 DEF UpdateSQLite, Authorize, Unrunnable
        <5>2. CASE \E ok \in BOOLEAN : Sandbox(w, ok)
          BY <5>2 DEF Sandbox
        <5>3. CASE complete(w) \/ FailPostgres(w) \/ FailReadSQLite(w) \/ FailWriteSQLite(w)
          BY <5>3 DEF complete, FailPostgres, FailReadSQLite, FailWriteSQLite
        <5> QED
          BY <4>2, <5>1, <5>2, <5>3 DEF Work
      <4>3. CASE Crash(w)
        BY <4>3 DEF Crash
      <4> QED
        BY <3>1, <4>1, <4>2, <4>3
    <3>2. ASSUME NEW i \in Jobs, RetryDelayPasses(i) \/ LeaseExpires(i)
          PROVE  store' = store
      BY <3>2 DEF RetryDelayPasses, LeaseExpires
    <3>3. ASSUME NEW i \in Jobs, NEW a \in Artifacts, NEW delayed \in BOOLEAN,
                 enqueue(i, a, delayed)
          PROVE  store' = store
      BY <3>3 DEF enqueue
    <3>4. ASSUME NEW a \in Artifacts, Invalidate(a)
          PROVE  store' = store
      BY <3>4 DEF Invalidate
    <3>5. UNCHANGED vars => store' = store
      BY DEF vars
    <3>6. ASSUME [Next]_vars
          PROVE  store' = store
      BY <3>1, <3>2, <3>3, <3>4, <3>5, <3>6 DEF Next, Time
    <3> QED
      BY <3>6 DEF RunningIsLeased
  <2>0. /\ status \in [Jobs -> Statuses] /\ lease \in [Jobs -> {"none", "live", "expired"}]
        /\ status[j] = "running" <=> lease[j] # "none"
    BY DEF TypeOK, RunningIsLeased
  <2>1. ASSUME UNCHANGED <<status, lease>>
        PROVE  status'[j] = "running" <=> lease'[j] # "none"
    BY <2>0, <2>1
  <2>2. ASSUME NEW i \in Jobs, MarkRunning(i)
        PROVE  status'[j] = "running" <=> lease'[j] # "none"
    BY <2>0, <2>2 DEF MarkRunning
  <2>3. ASSUME NEW i \in Jobs, NEW a \in Artifacts, NEW delayed \in BOOLEAN,
               enqueue(i, a, delayed)
        PROVE  status'[j] = "running" <=> lease'[j] # "none"
    BY <2>0, <2>3 DEF enqueue
  <2>4. ASSUME NEW w \in Workers, Claim(w)
        PROVE  status'[j] = "running" <=> lease'[j] # "none"
    BY <2>1, <2>2, <2>4 DEF Claim, ClaimPostgres, SelectSQLite, jobVars
  <2>5. ASSUME NEW w \in Workers, Work(w)
        PROVE  status'[j] = "running" <=> lease'[j] # "none"
    <3>0. pc[w] # "idle" => job[w] \in Jobs
      BY DEF TypeOK
    <3>1. CASE UpdateSQLite(w)
      <4>1. job[w] \in Jobs
        BY <3>0, <3>1 DEF UpdateSQLite
      <4> QED
        BY <2>1, <2>2, <3>1, <4>1 DEF UpdateSQLite
    <3>2. CASE complete(w)
      BY <2>0, <3>0, <3>2 DEF complete
    <3>3. CASE FailPostgres(w)
      BY <2>0, <3>0, <3>3 DEF FailPostgres, Settle, Retry
    <3>4. CASE FailWriteSQLite(w)
      <4>1. /\ job[w] \in Jobs
            /\ verdict[w] \in {"queued", "dead_letter", None} /\ verdict[w] # None
        BY <3>4 DEF FailWriteSQLite, TypeOK
      <4> QED
        BY <2>0, <3>4, <4>1 DEF FailWriteSQLite, Settle
    <3>5. CASE \/ Authorize(w) \/ Unrunnable(w) \/ \E ok \in BOOLEAN : Sandbox(w, ok)
               \/ FailReadSQLite(w)
      BY <2>1, <3>5 DEF Authorize, Unrunnable, Sandbox, FailReadSQLite, jobVars
    <3> QED
      BY <2>5, <3>1, <3>2, <3>3, <3>4, <3>5 DEF Work
  <2>6. ASSUME \/ \E w \in Workers : Crash(w)
               \/ \E a \in Artifacts : Invalidate(a)
               \/ \E i \in Jobs : RetryDelayPasses(i)
               \/ UNCHANGED vars
        PROVE  status'[j] = "running" <=> lease'[j] # "none"
    BY <2>1, <2>6 DEF Crash, Invalidate, RetryDelayPasses, vars, jobVars
  <2>7. ASSUME NEW i \in Jobs, LeaseExpires(i)
        PROVE  status'[j] = "running" <=> lease'[j] # "none"
    BY <2>0, <2>7 DEF LeaseExpires
  <2> QED
    BY <2>3, <2>4, <2>5, <2>6, <2>7 DEF Next, Time
<1> QED
  BY <1>1, <1>2, JobsTyped, PTL DEF Spec
=============================================================================
