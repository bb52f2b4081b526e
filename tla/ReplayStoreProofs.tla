-------------------------- MODULE ReplayStoreProofs --------------------------
(***************************************************************************)
(* Proofs about the stores behind the barrier, for every backend and every *)
(* number of processes, frames, nonces, keys, requests and faults.         *)
(***************************************************************************)
EXTENDS ReplayStore, SequenceTheorems, FiniteSetTheorems, TLAPS

Typed ==
  /\ backend \in Backends
  /\ table \in Seq(Frame \cup {Torn})
  /\ backend # "jsonl" => table \in Seq(Frame)
  /\ consumed \subseteq Nonces
  /\ trust \in [TrustKeys -> {"unknown", "trusted", "revoked"}]
  /\ locks \in [Ops -> Replicas \cup {None}]
  /\ pending \in [Replicas -> SUBSET Write]
  /\ view \in [Replicas -> Seq(Frame)]
  /\ log \in [Replicas -> LogState]
  /\ \A r \in Replicas : log[r].step # "idle" =>
       log[r].id \in (IF log[r].op = "append" THEN FrameIds ELSE Nonces)
  /\ admin \in [Replicas -> AdminState]
  /\ \A r \in Replicas : admin[r].step # "idle" => admin[r].id \in TrustKeys
  /\ acked \subseteq Write
  /\ grants \in [Nonces -> Nat]
  /\ backend # "postgres" =>
       \A r \in Replicas : /\ log[r].step = "idle" /\ pending[r] = {}
                           /\ admin[r].step = "idle"

(* What is pending on a connection.  A frame, a nonce or a key is there    *)
(* only from its write to the commit, and a nonce is pending on one        *)
(* connection, and not yet consumed.  Nothing is pending on an aborted     *)
(* connection.                                                             *)
PendingInv ==
  \A r \in Replicas :
    /\ r \in aborted => log[r].step \in {"idle", "lock"} /\ pending[r] = {}
    /\ \A w \in pending[r] :
         /\ w.kind # "key" =>
              log[r].step = "commit" /\ w = NewWrite(r)
         /\ w.kind = "key" => admin[r].step = "commit" /\ w = NewKey(r)
         /\ w.kind = "nonce" =>
              /\ w.id \notin consumed
              /\ \A q \in Replicas \ {r} : \A x \in pending[q] :
                   x.kind = "nonce" => x.id # w.id

(* As long as neither store has ended a transaction of the other: who is   *)
(* past the lock holds it, the head that an append read is still the head, *)
(* and what is about to be committed is pending.                           *)
LockInv ==
  disturbed = {} =>
    \A r \in Replicas :
      /\ InLog(r) => locks[log[r].op] = r
      /\ log[r].step \in {"insert", "commit"} /\ log[r].op = "append" =>
           view[r] = table
      /\ log[r].step = "commit" => NewWrite(r) \in pending[r]
      /\ admin[r].step = "commit" => r \notin aborted /\ NewKey(r) \in pending[r]

StoredInv ==
  disturbed = {} =>
    /\ backend # "jsonl" =>
         \A n \in Nonces : /\ grants[n] <= 1
                           /\ grants[n] > 0 => n \in consumed
    /\ \A w \in acked : Durable(w)
    /\ backend # "jsonl" => verify_chain(table)

SInv == Typed /\ PendingInv /\ LockInv /\ StoredInv

-------------------------------------------------------------------------------
(* Frames and chains *)

(* The hash of a chain's last frame is a chain again. *)
LEMMA HeadType ==
  ASSUME NEW s \in Seq(Frame)
  PROVE  head(s) \in Chain
<1>1. CASE s = <<>>
  BY <1>1 DEF head, Chain
<1>2. CASE s # <<>>
  <2>1. Len(s) \in 1..Len(s)
    BY <1>2, EmptySeq
  <2>2. s[Len(s)] \in Frame
    BY <2>1
  <2> QED
    BY <1>2, <2>2 DEF head, hash, Last, Frame, Chain
<1> QED
  BY <1>1, <1>2

(* A torn line is not taken for a frame. *)
LEMMA TornIsNoFrame == Torn \notin Frame
BY ReplayConstants DEF Torn, Frame

(* The elements of an extended sequence. *)
LEMMA AppendToSet ==
  ASSUME NEW S, NEW s \in Seq(S), NEW e \in S
  PROVE  ToSet(Append(s, e)) = ToSet(s) \cup {e}
<1>1. /\ Append(s, e) \in Seq(S)
      /\ Len(Append(s, e)) = Len(s) + 1
      /\ \A i \in 1..Len(s) : Append(s, e)[i] = s[i]
      /\ Append(s, e)[Len(s) + 1] = e
      /\ Len(s) \in Nat
  OBVIOUS
<1>2. DOMAIN s = 1..Len(s) /\ DOMAIN Append(s, e) = 1..(Len(s) + 1)
  BY <1>1
<1> QED
  BY <1>1, <1>2 DEF ToSet

(* A frame that is linked to the head extends a valid chain. *)
LEMMA ChainExtends ==
  ASSUME NEW s \in Seq(Frame), verify_chain(s),
         NEW f \in Frame, f.prev = head(s)
  PROVE  verify_chain(Append(s, f))
<1> DEFINE u == Append(s, f)
<1>1. /\ u \in Seq(Frame) /\ Len(u) = Len(s) + 1 /\ Len(s) \in Nat
      /\ \A i \in 1..Len(s) : u[i] = s[i]
      /\ u[Len(s) + 1] = f
  OBVIOUS
<1>2. DOMAIN u = 1..(Len(s) + 1) /\ DOMAIN s = 1..Len(s)
  BY <1>1
<1> HIDE DEF u
<1>3. ASSUME NEW i \in 1..(Len(s) + 1)
      PROVE  SubSeq(u, 1, i - 1) = SubSeq(s, 1, i - 1)
  <2>1. /\ SubSeq(u, 1, i - 1) \in Seq(Frame)
        /\ Len(SubSeq(u, 1, i - 1)) = IF 1 <= i - 1 THEN i - 1 ELSE 0
        /\ \A j \in 1..(i - 1) : SubSeq(u, 1, i - 1)[j] = u[j]
    <3>1. \A j \in 1..(i - 1) : u[j] \in Frame
      BY <1>1
    <3>2. 1 \in Int /\ i - 1 \in Int
      BY <1>1
    <3>3. /\ SubSeq(u, 1, i - 1) \in Seq(Frame)
          /\ Len(SubSeq(u, 1, i - 1)) = IF 1 <= i-1 THEN i-1-1+1 ELSE 0
          /\ \A j \in 1..(i-1-1+1) : SubSeq(u, 1, i - 1)[j] = u[1+j-1]
      BY <3>1, <3>2, SubSeqProperties
    <3> QED
      BY <1>1, <3>3
  <2>2. /\ SubSeq(s, 1, i - 1) \in Seq(Frame)
        /\ Len(SubSeq(s, 1, i - 1)) = IF 1 <= i - 1 THEN i - 1 ELSE 0
        /\ \A j \in 1..(i - 1) : SubSeq(s, 1, i - 1)[j] = s[j]
    <3>1. \A j \in 1..(i - 1) : s[j] \in Frame
      BY <1>1
    <3>2. 1 \in Int /\ i - 1 \in Int
      BY <1>1
    <3>3. /\ SubSeq(s, 1, i - 1) \in Seq(Frame)
          /\ Len(SubSeq(s, 1, i - 1)) = IF 1 <= i-1 THEN i-1-1+1 ELSE 0
          /\ \A j \in 1..(i-1-1+1) : SubSeq(s, 1, i - 1)[j] = s[1+j-1]
      BY <3>1, <3>2, SubSeqProperties
    <3> QED
      BY <1>1, <3>3
  <2>3. \A j \in 1..Len(SubSeq(u, 1, i - 1)) :
          SubSeq(u, 1, i - 1)[j] = SubSeq(s, 1, i - 1)[j]
    BY <1>1, <2>1, <2>2
  <2> QED
    BY <2>1, <2>2, <2>3, SeqEqual
<1>4. ASSUME NEW i \in DOMAIN u
      PROVE  u[i] # Torn /\ u[i].prev = head(SubSeq(u, 1, i - 1))
  <2>1. u[i] # Torn
    BY <1>1, <1>2, TornIsNoFrame
  <2>2. CASE i \in 1..Len(s)
    BY <1>1, <1>2, <1>3, <2>1, <2>2 DEF verify_chain
  <2>3. CASE i = Len(s) + 1
    <3>1. SubSeq(s, 1, i - 1) = s
      BY <1>1, <2>3, SubSeqFull
    <3> QED
      BY <1>1, <1>2, <1>3, <2>1, <2>3, <3>1
  <2> QED
    BY <1>1, <1>2, <2>2, <2>3
<1> QED
  BY <1>4 DEF u, verify_chain

(* A table that verifies has no torn line. *)
LEMMA VerifiedIsWhole ==
  ASSUME table \in Seq(Frame \cup {Torn}), verify_chain(table)
  PROVE  table \in Seq(Frame)
<1>1. \A i \in 1..Len(table) : table[i] \in Frame
  BY DEF verify_chain
<1>2. table = [i \in 1..Len(table) |-> table[i]] /\ Len(table) \in Nat
  OBVIOUS
<1> QED
  BY <1>1, <1>2

-------------------------------------------------------------------------------
(* Transactions *)

(* The row that an operation inserts, and its key. *)
LEMMA NewWriteType ==
  ASSUME Typed, NEW r \in Replicas, log[r].step # "idle"
  PROVE  /\ NewWrite(r) \in Write
         /\ NewWrite(r).kind = IF log[r].op = "append" THEN "frame" ELSE "nonce"
         /\ NewWrite(r).id = log[r].id
<1>1. CASE log[r].op = "append"
  <2>1. head(view[r]) \in Chain /\ log[r].id \in FrameIds
    BY <1>1, HeadType DEF Typed
  <2> QED
    BY <1>1, <2>1 DEF NewWrite, Write
<1>2. CASE log[r].op # "append"
  <2>1. log[r].id \in Nonces
    BY <1>2 DEF Typed
  <2> QED
    BY <1>2, <2>1 DEF NewWrite, Write
<1> QED
  BY <1>1, <1>2

(* What a transaction applies: the tables grow, by all of its writes. *)
LEMMA AppliedFacts ==
  ASSUME SInv, NEW r \in Replicas, Applied(pending[r])
  PROVE  /\ backend' = backend
         /\ table' \in Seq(Frame \cup {Torn})
         /\ backend # "jsonl" => table' \in Seq(Frame)
         /\ consumed' \subseteq Nonces
         /\ trust' \in [TrustKeys -> {"unknown", "trusted", "revoked"}]
         /\ consumed' = consumed \cup
              {w.id : w \in {x \in pending[r] : x.kind = "nonce"}}
         /\ \A w \in Write : w.kind # "key" /\ Durable(w) => Durable(w)'
         /\ \A w \in pending[r] : Durable(w)'
         /\ (\A w \in pending[r] : w.kind # "key") => trust' = trust
         /\ \A w \in pending[r] : w.kind = "key" =>
              trust' = [trust EXCEPT ![w.id] = w.state]
         /\ (\A w \in pending[r] : w.kind # "frame") => table' = table
         /\ \A w \in pending[r] : w.kind = "frame" =>
              table' = Append(table, [id |-> w.id, prev |-> w.prev])
<1> DEFINE ws == pending[r]
<1>1. ws \subseteq Write
  BY DEF SInv, Typed
<1>2. /\ consumed' = consumed \cup {w.id : w \in {x \in ws : x.kind = "nonce"}}
      /\ backend' = backend
  BY DEF Applied
<1>3. \A w \in ws : /\ w.kind = "nonce" => w.id \in Nonces
                    /\ w.kind = "key" => /\ w.id \in TrustKeys
                                         /\ w.state \in {"trusted", "revoked"}
                    /\ w.kind = "frame" =>
                         [id |-> w.id, prev |-> w.prev] \in Frame
                    /\ w.kind \in {"frame", "nonce", "key"}
  BY <1>1 DEF Write, Frame
<1>4. consumed' \subseteq Nonces
  BY <1>2, <1>3 DEF SInv, Typed
<1>5. \A w, x \in ws : w.kind = x.kind => w = x
  BY DEF SInv, PendingInv
<1>11. (\A w \in ws : w.kind # "key") => trust' = trust
  BY DEF Applied, KeysIn
<1>12. ASSUME NEW w \in ws, w.kind = "key"
       PROVE  trust' = [trust EXCEPT ![w.id] = w.state]
  <2>1. KeysIn(ws) = {w}
    BY <1>5, <1>12 DEF KeysIn
  <2>2. (CHOOSE x \in KeysIn(ws) : TRUE) = w
    BY <2>1
  <2> QED
    BY <2>1, <2>2 DEF Applied
<1>13. trust' \in [TrustKeys -> {"unknown", "trusted", "revoked"}]
  <2>1. CASE \A w \in ws : w.kind # "key"
    BY <1>11, <2>1 DEF SInv, Typed
  <2>2. ASSUME NEW w \in ws, w.kind = "key"
        PROVE  trust' \in [TrustKeys -> {"unknown", "trusted", "revoked"}]
    BY <1>3, <1>12, <2>2 DEF SInv, Typed
  <2> QED
    BY <2>1, <2>2
<1>14. \A w \in ws : w.kind = "key" => trust'[w.id] = w.state
  BY <1>3, <1>12 DEF SInv, Typed
<1>6. (\A w \in ws : w.kind # "frame") => table' = table
  BY DEF Applied, FramesIn
<1>7. ASSUME NEW w \in ws, w.kind = "frame"
      PROVE  table' = Append(table, [id |-> w.id, prev |-> w.prev])
  <2>1. FramesIn(ws) = {w}
    BY <1>5, <1>7 DEF FramesIn
  <2>2. (CHOOSE x \in FramesIn(ws) : TRUE) = w
    BY <2>1
  <2> QED
    BY <2>1, <2>2 DEF Applied
<1>8. /\ table' \in Seq(Frame \cup {Torn})
      /\ backend # "jsonl" => table' \in Seq(Frame)
      /\ \A f \in ToSet(table) : f \in ToSet(table')
      /\ \A w \in ws : w.kind = "frame" =>
           [id |-> w.id, prev |-> w.prev] \in ToSet(table')
  <2>1. CASE \A w \in ws : w.kind # "frame"
    BY <1>6, <2>1 DEF SInv, Typed
  <2>2. ASSUME NEW w \in ws, w.kind = "frame"
        PROVE  /\ table' \in Seq(Frame \cup {Torn})
               /\ backend # "jsonl" => table' \in Seq(Frame)
               /\ \A f \in ToSet(table) : f \in ToSet(table')
               /\ \A x \in ws : x.kind = "frame" =>
                    [id |-> x.id, prev |-> x.prev] \in ToSet(table')
    <3> DEFINE f == [id |-> w.id, prev |-> w.prev]
    <3>1. f \in Frame /\ table' = Append(table, f)
      BY <1>3, <1>7, <2>2
    <3> HIDE DEF f
    <3>2. ToSet(table') = ToSet(table) \cup {f}
      BY <3>1, AppendToSet DEF SInv, Typed
    <3>3. /\ table' \in Seq(Frame \cup {Torn})
          /\ backend # "jsonl" => table' \in Seq(Frame)
      BY <3>1 DEF SInv, Typed
    <3>4. \A x \in ws : x.kind = "frame" => [id |-> x.id, prev |-> x.prev] = f
      BY <1>5, <2>2 DEF f
    <3> QED
      BY <3>2, <3>3, <3>4
  <2> QED
    BY <2>1, <2>2
<1>9. \A w \in Write : w.kind # "key" /\ Durable(w) => Durable(w)'
  BY <1>2, <1>8 DEF Durable, Write
<1>10. \A w \in ws : Durable(w)'
  BY <1>2, <1>3, <1>8, <1>14 DEF Durable
<1> QED
  BY <1>2, <1>4, <1>6, <1>7, <1>8, <1>9, <1>10, <1>11, <1>12, <1>13

(* Only one's own locks are released. *)
LEMMA ReleasedFacts ==
  ASSUME SInv, NEW r \in Replicas, Released(r)
  PROVE  /\ locks' \in [Ops -> Replicas \cup {None}]
         /\ \A o \in Ops, q \in Replicas \ {r} : locks[o] = q => locks'[o] = q
BY DEF SInv, Typed, Released

(* A transaction that is given up, and whatever ends with it: the databases *)
(* are as they were, and unless a disturbance is noted neither store was    *)
(* in the middle of something.                                              *)
LEMMA GiveUpStep ==
  ASSUME SInv, NEW r \in Replicas,
         pending' = [pending EXCEPT ![r] = {}], Released(r),
         aborted' \in {aborted \ {r}, aborted \cup {r}},
         UNCHANGED <<databases, acked, grants>>,
         disturbed \subseteq disturbed',
         view' \in [Replicas -> Seq(Frame)],
         \A q \in Replicas \ {r} :
           view'[q] = view[q] /\ log'[q] = log[q] /\ admin'[q] = admin[q],
         log' = log \/ log' = [log EXCEPT ![r] = Idle],
         \/ log'[r].step = "idle"
         \/ aborted' = aborted \ {r} /\ view'[r] = view[r],
         admin' \in [Replicas -> AdminState],
         admin'[r].step # "idle" =>
           admin'[r].id \in TrustKeys /\ backend = "postgres",
         InLog(r)' => disturbed' # {},
         WritingTrust(r)' => disturbed' # {}
  PROVE  SInv'
<1>0. UNCHANGED <<backend, table, consumed, trust>>
  BY DEF databases
<1>1. /\ log' \in [Replicas -> LogState]
      /\ log'[r] = log[r] \/ log'[r].step = "idle"
  <2>1. Idle.step = "idle" /\ Idle \in LogState
    BY DEF Idle, Ops, LogState
  <2> QED
    BY <2>1 DEF SInv, Typed
<1>2. \A q \in Replicas : admin'[q].step # "idle" => admin'[q].id \in TrustKeys
  BY DEF SInv, Typed
<1>3. /\ pending' \in [Replicas -> SUBSET Write] /\ pending'[r] = {}
      /\ \A q \in Replicas \ {r} : pending'[q] = pending[q]
  BY DEF SInv, Typed
<1>4. \A q \in Replicas \ {r} :
        /\ NewWrite(q)' = NewWrite(q) /\ InLog(q)' = InLog(q)
        /\ NewKey(q)' = NewKey(q)
        /\ q \in aborted' <=> q \in aborted
  BY DEF NewWrite, InLog, NewKey
<1>5. Typed'
  <2>1. \A q \in Replicas : log'[q].step # "idle" => log'[q] = log[q]
    BY <1>1
  <2>2. \A q \in Replicas : log'[q].step # "idle" =>
          log'[q].id \in (IF log'[q].op = "append" THEN FrameIds ELSE Nonces)
    BY <2>1 DEF SInv, Typed
  <2>3. backend' # "postgres" =>
          \A q \in Replicas : /\ log'[q].step = "idle" /\ pending'[q] = {}
                              /\ admin'[q].step = "idle"
    <3> SUFFICES ASSUME backend' # "postgres", NEW q \in Replicas
                 PROVE  /\ log'[q].step = "idle" /\ pending'[q] = {}
                        /\ admin'[q].step = "idle"
      OBVIOUS
    <3>1. log[q].step = "idle" /\ pending[q] = {} /\ admin[q].step = "idle"
      BY <1>0 DEF SInv, Typed
    <3>2. admin'[q].step = "idle"
      <4>1. CASE q = r
        BY <1>0, <4>1
      <4>2. CASE q # r
        BY <3>1, <4>2
      <4> QED
        BY <4>1, <4>2
    <3> QED
      BY <1>1, <1>3, <3>1, <3>2
  <2>4. locks' \in [Ops -> Replicas \cup {None}]
    BY ReleasedFacts
  <2> QED
    BY <1>0, <1>1, <1>2, <1>3, <2>2, <2>3, <2>4 DEF SInv, Typed
<1>6. PendingInv'
  BY <1>0, <1>1, <1>3, <1>4 DEF SInv, PendingInv, Typed
<1>9. \A o \in Ops, q \in Replicas \ {r} : locks[o] = q => locks'[o] = q
  BY ReleasedFacts
<1>7. LockInv'
  <2> SUFFICES ASSUME disturbed' = {}, NEW q \in Replicas
               PROVE  /\ InLog(q)' => locks'[log'[q].op] = q
                      /\ log'[q].step \in {"insert", "commit"}
                           /\ log'[q].op = "append" => view'[q] = table'
                      /\ log'[q].step = "commit" =>
                           NewWrite(q)' \in pending'[q]
                      /\ admin'[q].step = "commit" =>
                           q \notin aborted' /\ NewKey(q)' \in pending'[q]
    BY DEF LockInv
  <2>1. CASE q = r
    BY <2>1 DEF InLog, WritingTrust
  <2>2. CASE q # r
    <3>1. log[q].op \in Ops
      BY DEF SInv, Typed, LogState
    <3>2. locks[log[q].op] = q => locks'[log[q].op] = q
      BY <1>9, <2>2, <3>1
    <3>3. /\ log'[q] = log[q] /\ view'[q] = view[q] /\ admin'[q] = admin[q]
          /\ pending'[q] = pending[q] /\ table' = table /\ disturbed = {}
          /\ NewWrite(q)' = NewWrite(q) /\ InLog(q)' = InLog(q)
          /\ NewKey(q)' = NewKey(q)
          /\ q \in aborted' <=> q \in aborted
      BY <1>0, <1>3, <1>4, <2>2
    <3> QED
      BY <3>2, <3>3 DEF SInv, LockInv
  <2> QED
    BY <2>1, <2>2
<1>8. StoredInv'
  BY <1>0 DEF SInv, StoredInv, Durable
<1> QED
  BY <1>5, <1>6, <1>7, <1>8 DEF SInv

(* What the invariant says of one process, as PendingInv and LockInv do. *)
Mine(r) ==
  /\ log[r].step # "idle" =>
       log[r].id \in (IF log[r].op = "append" THEN FrameIds ELSE Nonces)
  /\ admin[r].step # "idle" => admin[r].id \in TrustKeys
  /\ r \in aborted => log[r].step \in {"idle", "lock"} /\ pending[r] = {}
  /\ \A w \in pending[r] :
       /\ w.kind # "key" => log[r].step = "commit" /\ w = NewWrite(r)
       /\ w.kind = "key" => admin[r].step = "commit" /\ w = NewKey(r)

Locked(r) ==
  /\ InLog(r) => locks[log[r].op] = r
  /\ log[r].step \in {"insert", "commit"} /\ log[r].op = "append" =>
       view[r] = table
  /\ log[r].step = "commit" => NewWrite(r) \in pending[r]
  /\ admin[r].step = "commit" => r \notin aborted /\ NewKey(r) \in pending[r]

(* A statement on a connection that writes nothing to the databases yet. *)
LEMMA LocalStep ==
  ASSUME SInv, NEW r \in Replicas, backend = "postgres",
         UNCHANGED <<databases, aborted, history>>,
         log' \in [Replicas -> LogState], view' \in [Replicas -> Seq(Frame)],
         pending' \in [Replicas -> SUBSET Write],
         admin' \in [Replicas -> AdminState],
         locks' \in [Ops -> Replicas \cup {None}],
         \A q \in Replicas \ {r} :
           /\ view'[q] = view[q] /\ log'[q] = log[q]
           /\ admin'[q] = admin[q] /\ pending'[q] = pending[q]
           /\ \A o \in Ops : locks[o] = q => locks'[o] = q,
         Mine(r)', disturbed = {} => Locked(r)',
         \A w \in pending'[r] : w.kind = "nonce" =>
           /\ w.id \notin consumed
           /\ \A q \in Replicas \ {r} : \A x \in pending[q] :
                x.kind = "nonce" => x.id # w.id
  PROVE  SInv'
<1>0. UNCHANGED <<backend, table, consumed, trust, acked, grants, disturbed>>
  BY DEF databases, history
<1>1. \A q \in Replicas \ {r} :
        /\ NewWrite(q)' = NewWrite(q) /\ InLog(q)' = InLog(q)
        /\ NewKey(q)' = NewKey(q)
  BY DEF NewWrite, InLog, NewKey
<1>2. Typed'
  <2>1. \A q \in Replicas : log'[q].step # "idle" =>
          log'[q].id \in (IF log'[q].op = "append" THEN FrameIds ELSE Nonces)
    <3> SUFFICES ASSUME NEW q \in Replicas, log'[q].step # "idle"
                 PROVE  log'[q].id \in (IF log'[q].op = "append" THEN FrameIds
                                        ELSE Nonces)
      OBVIOUS
    <3>1. CASE q = r
      BY <3>1 DEF Mine
    <3>2. CASE q # r
      <4>1. log'[q] = log[q]
        BY <3>2
      <4> QED
        BY <4>1 DEF SInv, Typed
    <3> QED
      BY <3>1, <3>2
  <2>2. \A q \in Replicas : admin'[q].step # "idle" => admin'[q].id \in TrustKeys
    BY DEF SInv, Typed, Mine
  <2> QED
    BY <1>0, <2>1, <2>2 DEF SInv, Typed
<1>3. PendingInv'
  <2> SUFFICES ASSUME NEW q \in Replicas
               PROVE  /\ q \in aborted' => /\ log'[q].step \in {"idle", "lock"}
                                           /\ pending'[q] = {}
                      /\ \A w \in pending'[q] :
                           /\ w.kind # "key" =>
                                log'[q].step = "commit" /\ w = NewWrite(q)'
                           /\ w.kind = "key" =>
                                admin'[q].step = "commit" /\ w = NewKey(q)'
                           /\ w.kind = "nonce" =>
                                /\ w.id \notin consumed'
                                /\ \A p \in Replicas \ {q} : \A x \in pending'[p] :
                                     x.kind = "nonce" => x.id # w.id
    BY DEF PendingInv
  <2>1. CASE q = r
    <3>1. \A p \in Replicas \ {q} : pending'[p] = pending[p]
      BY <2>1
    <3>2. \A w \in pending'[q] : w.kind = "nonce" =>
            /\ w.id \notin consumed'
            /\ \A p \in Replicas \ {q} : \A x \in pending'[p] :
                 x.kind = "nonce" => x.id # w.id
      <4> SUFFICES ASSUME NEW w \in pending'[r], w.kind = "nonce"
                   PROVE  /\ w.id \notin consumed'
                          /\ \A p \in Replicas \ {r} : \A x \in pending'[p] :
                               x.kind = "nonce" => x.id # w.id
        BY <2>1
      <4>1. w.id \notin consumed'
        BY <1>0
      <4>2. ASSUME NEW p \in Replicas \ {r}, NEW x \in pending'[p],
                   x.kind = "nonce"
            PROVE  x.id # w.id
        <5>1. x \in pending[p]
          BY <2>1, <3>1, <4>2
        <5> QED
          BY <4>2, <5>1
      <4> QED
        BY <4>1, <4>2
    <3> QED
      BY <2>1, <3>2 DEF Mine
  <2>2. CASE q # r
    <3>1. /\ log'[q] = log[q] /\ pending'[q] = pending[q]
          /\ q \in aborted' <=> q \in aborted
          /\ NewWrite(q)' = NewWrite(q)
          /\ NewKey(q)' = NewKey(q) /\ admin'[q] = admin[q]
      BY <1>1, <2>2
    <3>2. ASSUME NEW w \in pending[q], w.kind = "nonce",
                 NEW p \in Replicas \ {q}, NEW x \in pending'[p],
                 x.kind = "nonce"
          PROVE  x.id # w.id
      <4>1. CASE p = r
        BY <2>2, <3>2, <4>1
      <4>2. CASE p # r
        <5>1. pending'[p] = pending[p]
          BY <4>2
        <5> QED
          BY <3>2, <5>1 DEF SInv, PendingInv
      <4> QED
        BY <4>1, <4>2
    <3>3. /\ q \in aborted => log[q].step \in {"idle", "lock"} /\ pending[q] = {}
          /\ \A w \in pending[q] :
               /\ w.kind # "key" => log[q].step = "commit" /\ w = NewWrite(q)
               /\ w.kind = "key" => admin[q].step = "commit" /\ w = NewKey(q)
               /\ w.kind = "nonce" => w.id \notin consumed
      BY DEF SInv, PendingInv
    <3> QED
      BY <1>0, <3>1, <3>2, <3>3
  <2> QED
    BY <2>1, <2>2
<1>4. LockInv'
  <2> SUFFICES ASSUME disturbed' = {}, NEW q \in Replicas
               PROVE  Locked(q)'
    BY DEF LockInv, Locked
  <2>1. CASE q = r
    BY <1>0, <2>1
  <2>2. CASE q # r
    <3>1. log[q].op \in Ops
      BY DEF SInv, Typed, LogState
    <3>2. locks[log[q].op] = q => locks'[log[q].op] = q
      BY <2>2, <3>1
    <3>3. Locked(q)
      BY <1>0 DEF SInv, LockInv, Locked
    <3> QED
      BY <1>0, <1>1, <2>2, <3>2, <3>3 DEF Locked
  <2> QED
    BY <2>1, <2>2
<1>5. StoredInv'
  BY <1>0 DEF SInv, StoredInv, Durable
<1> QED
  BY <1>2, <1>3, <1>4, <1>5 DEF SInv

(* What the invariant gives for the process that takes a step. *)
LEMMA MineFacts ==
  ASSUME SInv, NEW r \in Replicas
  PROVE  /\ Mine(r) /\ (disturbed = {} => Locked(r))
         /\ log[r] \in LogState /\ log[r].op \in Ops
         /\ log[r].step # "idle" \/ admin[r].step # "idle" =>
              backend = "postgres"
         /\ backend # "jsonl" => table \in Seq(Frame)
BY DEF SInv, Typed, PendingInv, LockInv, Mine, Locked, LogState

-------------------------------------------------------------------------------
(* The steps of append and claim_nonce, and of revoke, up to the commit *)

(* A request begins: nothing of an earlier one is pending. *)
LEMMA StartStep ==
  ASSUME SInv, NEW r \in Replicas, NEW o \in Ops,
         NEW id \in (IF o = "append" THEN FrameIds ELSE Nonces), Start(r, o, id)
  PROVE  SInv'
<1> DEFINE l == [step |-> "lock", op |-> o, id |-> id]
<1>1. l \in LogState
  BY DEF LogState, Ops
<1>2. /\ log' = [log EXCEPT ![r] = l] /\ backend = "postgres"
      /\ log[r].step = "idle"
      /\ UNCHANGED <<locks, aborted, pending, view, admin, databases, history>>
  BY DEF Start, sessions
<1>3. log' \in [Replicas -> LogState] /\ log'[r] = l
  BY <1>1, <1>2 DEF SInv, Typed
<1>4. Mine(r)'
  BY <1>2, <1>3, MineFacts DEF Mine, NewKey
<1>5. disturbed = {} => Locked(r)'
  BY <1>2, <1>3, MineFacts DEF Locked, InLog, NewKey
<1>6. \A w \in pending'[r] : w.kind # "nonce"
  BY <1>2, MineFacts DEF Mine
<1> QED
  BY <1>2, <1>3, <1>4, <1>5, <1>6, LocalStep DEF SInv, Typed

(* The lock was free, or this session's already: nobody else loses it. *)
LEMMA TakeLockStep ==
  ASSUME SInv, NEW r \in Replicas, TakeLock(r)
  PROVE  SInv'
<1> DEFINE op == log[r].op
           next == IF op = "append" THEN "refresh" ELSE "insert"
<1>1. /\ log[r].step = "lock" /\ r \notin aborted /\ locks[op] \in {None, r}
      /\ locks' = [locks EXCEPT ![op] = r]
      /\ log' = [log EXCEPT ![r].step = next]
      /\ UNCHANGED <<aborted, pending, view, admin, databases, history, table>>
  BY DEF TakeLock, Proceed, databases
<1>2. /\ log' \in [Replicas -> LogState]
      /\ log'[r].step = next /\ log'[r].op = op /\ log'[r].id = log[r].id
      /\ \A q \in Replicas \ {r} : log'[q] = log[q]
  BY <1>1 DEF SInv, Typed, LogState
<1>3. /\ locks' \in [Ops -> Replicas \cup {None}] /\ locks'[op] = r
      /\ \A q \in Replicas \ {r}, o \in Ops : locks[o] = q => locks'[o] = q
  BY <1>1, MineFacts, ReplayConstants DEF SInv, Typed
<1>4. \A w \in pending[r] : w.kind = "key"
  BY <1>1, MineFacts DEF Mine
<1>5. Mine(r)'
  BY <1>1, <1>2, <1>4, MineFacts DEF Mine, NewKey
<1>6. disturbed = {} => Locked(r)'
  BY <1>1, <1>2, <1>3, MineFacts DEF Locked, InLog, NewKey, Ops
<1> QED
  BY <1>1, <1>2, <1>3, <1>4, <1>5, <1>6, LocalStep, MineFacts DEF SInv, Typed

(* Under the lock the copy in memory becomes the table. *)
LEMMA RefreshStep ==
  ASSUME SInv, NEW r \in Replicas, _refresh(r)
  PROVE  SInv'
<1>1. /\ log[r].step = "refresh" /\ r \notin aborted
      /\ view' = [view EXCEPT ![r] = table]
      /\ log' = [log EXCEPT ![r].step = "insert"]
      /\ UNCHANGED <<locks, aborted, pending, admin, databases, history, table>>
  BY DEF _refresh, Proceed, databases, sessions
<1>2. /\ log' \in [Replicas -> LogState]
      /\ log'[r].step = "insert" /\ log'[r].op = log[r].op
      /\ log'[r].id = log[r].id
      /\ \A q \in Replicas \ {r} : log'[q] = log[q]
  BY <1>1 DEF SInv, Typed, LogState
<1>3. /\ view' \in [Replicas -> Seq(Frame)] /\ view'[r] = table
      /\ \A q \in Replicas \ {r} : view'[q] = view[q]
  BY <1>1, MineFacts DEF SInv, Typed
<1>4. \A w \in pending[r] : w.kind = "key"
  BY <1>1, MineFacts DEF Mine
<1>5. Mine(r)'
  BY <1>1, <1>2, <1>4, MineFacts DEF Mine, NewKey
<1>6. disturbed = {} => Locked(r)'
  BY <1>1, <1>2, <1>3, MineFacts DEF Locked, InLog, NewKey
<1> QED
  BY <1>1, <1>2, <1>3, <1>4, <1>5, <1>6, LocalStep, MineFacts DEF SInv, Typed

(* The row is neither in the table nor pending anywhere else. *)
LEMMA InsertStep ==
  ASSUME SInv, NEW r \in Replicas, Insert(r)
  PROVE  SInv'
<1> DEFINE w == NewWrite(r)
<1>1. /\ log[r].step = "insert" /\ r \notin aborted /\ ~ Waits(r) /\ ~ Taken(r)
      /\ pending' = [pending EXCEPT ![r] = @ \cup {w}]
      /\ log' = [log EXCEPT ![r].step = "commit"]
      /\ UNCHANGED <<locks, aborted, view, admin, databases, history, table>>
  BY DEF Insert, Proceed, databases
<1>2. /\ log' \in [Replicas -> LogState]
      /\ log'[r].step = "commit" /\ log'[r].op = log[r].op
      /\ log'[r].id = log[r].id
      /\ \A q \in Replicas \ {r} : log'[q] = log[q]
  BY <1>1 DEF SInv, Typed, LogState
<1>3. /\ w \in Write /\ w.id = log[r].id
      /\ w.kind = IF log[r].op = "append" THEN "frame" ELSE "nonce"
  BY <1>1, NewWriteType DEF SInv
<1>4. w = NewWrite(r)'
  BY <1>1, <1>2 DEF NewWrite
<1> HIDE DEF w
<1>5. /\ pending' \in [Replicas -> SUBSET Write]
      /\ pending'[r] = pending[r] \cup {w}
      /\ \A q \in Replicas \ {r} : pending'[q] = pending[q]
  BY <1>1, <1>3 DEF SInv, Typed
<1>6. \A x \in pending[r] : x.kind = "key"
  BY <1>1, MineFacts DEF Mine
<1>13. NewKey(r)' = NewKey(r)
  BY <1>1 DEF NewKey
<1>14. w.kind # "key"
  BY <1>3
<1>7. Mine(r)'
  BY <1>1, <1>2, <1>4, <1>5, <1>6, <1>13, <1>14, MineFacts DEF Mine
<1>8. disturbed = {} => Locked(r)'
  BY <1>1, <1>2, <1>4, <1>5, MineFacts DEF Locked, InLog, NewKey
<1>9. w.kind = "nonce" =>
        /\ w.id \notin consumed
        /\ \A q \in Replicas \ {r} : \A x \in pending[q] :
             x.kind = "nonce" => x.id # w.id
  BY <1>1, <1>3 DEF Taken, Waits, w
<1>10. \A y \in pending'[r] : y.kind = "nonce" =>
        /\ y.id \notin consumed
        /\ \A q \in Replicas \ {r} : \A x \in pending[q] :
             x.kind = "nonce" => x.id # y.id
  BY <1>5, <1>6, <1>9
<1>11. backend = "postgres"
  BY <1>1, MineFacts
<1>12. /\ UNCHANGED <<databases, aborted, history>>
       /\ view' \in [Replicas -> Seq(Frame)]
       /\ admin' \in [Replicas -> AdminState]
       /\ locks' \in [Ops -> Replicas \cup {None}]
       /\ \A q \in Replicas \ {r} :
            /\ view'[q] = view[q] /\ log'[q] = log[q]
            /\ admin'[q] = admin[q] /\ pending'[q] = pending[q]
            /\ \A o \in Ops : locks[o] = q => locks'[o] = q
  BY <1>1, <1>2, <1>5 DEF SInv, Typed
<1> QED
  BY <1>2, <1>5, <1>7, <1>8, <1>10, <1>11, <1>12, LocalStep

(* The trust store's thread goes on without a write. *)
LEMMA TrustGoesOn ==
  ASSUME SInv, NEW r \in Replicas, NEW a \in AdminState,
         admin' = [admin EXCEPT ![r] = a], backend = "postgres",
         admin[r].step # "commit", a.step # "commit",
         a.step # "idle" => a.id \in TrustKeys,
         UNCHANGED <<databases, sessions, view, log, history>>
  PROVE  SInv'
<1>1. UNCHANGED <<locks, aborted, pending, table>>
  BY DEF sessions, databases
<1>2. /\ admin' \in [Replicas -> AdminState] /\ admin'[r] = a
      /\ \A q \in Replicas \ {r} : admin'[q] = admin[q]
  BY DEF SInv, Typed
<1>3. NewWrite(r)' = NewWrite(r) /\ InLog(r)' = InLog(r)
  BY DEF NewWrite, InLog
<1>4. Mine(r)'
  BY <1>1, <1>2, <1>3, MineFacts DEF Mine
<1>5. disturbed = {} => Locked(r)'
  BY <1>1, <1>2, <1>3, MineFacts DEF Locked
<1>6. \A x \in pending'[r] : x.kind = "nonce" =>
        /\ x.id \notin consumed
        /\ \A q \in Replicas \ {r} : \A y \in pending[q] :
             y.kind = "nonce" => y.id # x.id
  BY <1>1 DEF SInv, PendingInv
<1> QED
  BY <1>1, <1>2, <1>4, <1>5, <1>6, LocalStep DEF SInv, Typed

(* Its steps before the write, at an operator's request or at a start. *)
LEMMA TrustStartStep ==
  ASSUME SInv, NEW r \in Replicas, NEW k \in TrustKeys,
         NEW o \in {"add", "revoke"}, TrustStart(r, o, k)
  PROVE  SInv'
<1> DEFINE a == [step |-> IF o = "add" THEN "select" ELSE "write",
                 op |-> o, id |-> k]
<1>1. a \in AdminState /\ a.step # "commit" /\ a.id \in TrustKeys
  BY DEF AdminState
<1>2. /\ admin' = [admin EXCEPT ![r] = a] /\ backend = "postgres"
      /\ admin[r].step # "commit"
      /\ UNCHANGED <<databases, sessions, view, log, history>>
  BY DEF TrustStart
<1> HIDE DEF a
<1> QED
  BY <1>1, <1>2, TrustGoesOn

LEMMA TrustLooks ==
  ASSUME SInv, NEW r \in Replicas, Resolve(r) \/ TrustSelect(r)
  PROVE  SInv'
<1>1. /\ admin[r].step \in {"resolve", "select"}
      /\ admin[r] \in AdminState /\ admin[r].id \in TrustKeys
      /\ backend = "postgres"
      /\ UNCHANGED <<databases, sessions, view, log, history>>
  BY MineFacts DEF Resolve, TrustSelect, Mine, SInv, Typed
<1>2. \/ admin' = [admin EXCEPT ![r] = AtRest]
      \/ \E st \in {"select", "write"} : admin' = [admin EXCEPT ![r].step = st]
  BY DEF Resolve, TrustSelect, AdminRests, AdminAt
<1>3. CASE admin' = [admin EXCEPT ![r] = AtRest]
  <2>1. AtRest \in AdminState /\ AtRest.step = "idle"
    BY DEF AtRest, AdminState
  <2> QED
    BY <1>1, <1>3, <2>1, TrustGoesOn
<1>4. ASSUME NEW st \in {"select", "write"},
             admin' = [admin EXCEPT ![r].step = st]
      PROVE  SInv'
  <2> DEFINE a == [admin[r] EXCEPT !.step = st]
  <2>1. a \in AdminState /\ a.step = st /\ a.id = admin[r].id
    BY <1>1 DEF AdminState
  <2>2. admin' = [admin EXCEPT ![r] = a]
    BY <1>4
  <2> HIDE DEF a
  <2> QED
    BY <1>1, <2>1, <2>2, TrustGoesOn
<1> QED
  BY <1>2, <1>3, <1>4

(* The row that add or revoke writes. *)
LEMMA NewKeyType ==
  ASSUME Typed, NEW r \in Replicas, admin[r].step # "idle"
  PROVE  /\ NewKey(r) \in Write /\ NewKey(r).kind = "key"
         /\ NewKey(r).id = admin[r].id /\ admin[r].id \in TrustKeys
         /\ NewKey(r).state \in {"trusted", "revoked"}
BY DEF NewKey, Write, Typed

(* The trust store adds its row to whatever transaction is open. *)
LEMMA TrustWriteStep ==
  ASSUME SInv, NEW r \in Replicas, TrustWrite(r)
  PROVE  SInv'
<1> DEFINE w == NewKey(r)
<1>1. /\ admin[r].step = "write" /\ r \notin aborted
      /\ admin' = [admin EXCEPT ![r].step = "commit"]
      /\ pending' = [pending EXCEPT ![r] = @ \cup {w}]
      /\ UNCHANGED <<locks, aborted, view, log, databases, history, table>>
  BY DEF TrustWrite, AdminAt, databases
<1>2. w \in Write /\ w.kind = "key"
  BY <1>1, NewKeyType DEF SInv
<1>3. backend = "postgres"
  BY <1>1, MineFacts
<1>4. /\ admin' \in [Replicas -> AdminState]
      /\ admin'[r].step = "commit" /\ admin'[r].id = admin[r].id
      /\ admin'[r].op = admin[r].op
      /\ \A q \in Replicas \ {r} : admin'[q] = admin[q]
  BY <1>1 DEF SInv, Typed, AdminState
<1>5. /\ NewWrite(r)' = NewWrite(r) /\ InLog(r)' = InLog(r)
      /\ w = NewKey(r)'
  BY <1>1, <1>4 DEF NewWrite, InLog, NewKey
<1> HIDE DEF w
<1>6. /\ pending' \in [Replicas -> SUBSET Write]
      /\ pending'[r] = pending[r] \cup {w}
      /\ \A q \in Replicas \ {r} : pending'[q] = pending[q]
  BY <1>1, <1>2 DEF SInv, Typed
<1>7. Mine(r)'
  BY <1>1, <1>2, <1>4, <1>5, <1>6, MineFacts DEF Mine
<1>8. disturbed = {} => Locked(r)'
  BY <1>1, <1>4, <1>5, <1>6, MineFacts DEF Locked
<1>9. \A x \in pending'[r] : x.kind = "nonce" =>
        /\ x.id \notin consumed
        /\ \A q \in Replicas \ {r} : \A y \in pending[q] :
             y.kind = "nonce" => y.id # x.id
  BY <1>2, <1>6 DEF SInv, PendingInv
<1>10. /\ log' \in [Replicas -> LogState] /\ view' \in [Replicas -> Seq(Frame)]
       /\ locks' \in [Ops -> Replicas \cup {None}]
       /\ UNCHANGED <<databases, aborted, history>>
       /\ \A q \in Replicas \ {r} :
            /\ view'[q] = view[q] /\ log'[q] = log[q]
            /\ admin'[q] = admin[q] /\ pending'[q] = pending[q]
            /\ \A o \in Ops : locks[o] = q => locks'[o] = q
  BY <1>1, <1>4, <1>6 DEF SInv, Typed
<1> QED
  BY <1>3, <1>4, <1>6, <1>7, <1>8, <1>9, <1>10, LocalStep

-------------------------------------------------------------------------------
(* Transactions that are given up *)

(* Disturb notes the other store's work, if it had any. *)
LEMMA DisturbFacts ==
  ASSUME NEW r, NEW other, Disturb(r, other)
  PROVE  /\ disturbed \subseteq disturbed'
         /\ other => r \in disturbed'
         /\ disturbed' = {} => ~ other
BY DEF Disturb

(* The log's thread gives up: whichever of the two kinds of rollback it    *)
(* was, the trust store was idle, or is noted as disturbed.                *)
LEMMA LogGivesUp ==
  ASSUME SInv, NEW r \in Replicas,
         RollbackTxn(r) \/ AbortTxn(r),
         Disturb(r, WritingTrust(r)) \/ (r \in aborted /\ UNCHANGED disturbed),
         Finish(r), UNCHANGED <<view, admin, acked, grants>>
  PROVE  SInv'
<1>1. /\ pending' = [pending EXCEPT ![r] = {}] /\ Released(r)
      /\ aborted' \in {aborted \ {r}, aborted \cup {r}}
      /\ UNCHANGED <<databases, acked, grants>>
  BY DEF RollbackTxn, AbortTxn
<1>2. log' = [log EXCEPT ![r] = Idle]
  BY DEF Finish
<1>3. log'[r].step = "idle" /\ \A q \in Replicas \ {r} : log'[q] = log[q]
  BY <1>2 DEF SInv, Typed, Idle
<1>4. ~ InLog(r)'
  BY <1>3 DEF InLog
<1>5. disturbed \subseteq disturbed'
  BY DisturbFacts
<1>6. WritingTrust(r)' => disturbed' # {}
  <2>1. CASE Disturb(r, WritingTrust(r))
    BY <2>1, DisturbFacts DEF WritingTrust
  <2>2. CASE r \in aborted /\ UNCHANGED disturbed
    BY <2>2, MineFacts DEF Locked, WritingTrust
  <2> QED
    BY <2>1, <2>2
<1>7. /\ admin' \in [Replicas -> AdminState]
      /\ admin'[r].step # "idle" =>
           admin'[r].id \in TrustKeys /\ backend = "postgres"
  BY MineFacts DEF SInv, Typed
<1> QED
  BY <1>1, <1>2, <1>3, <1>4, <1>5, <1>6, <1>7, GiveUpStep DEF SInv, Typed

(* The trust store's thread gives up. *)
LEMMA TrustGivesUp ==
  ASSUME SInv, NEW r \in Replicas, RollbackTxn(r),
         Disturb(r, InLog(r)) \/ (r \in aborted /\ UNCHANGED disturbed),
         AdminRests(r), UNCHANGED <<view, log, acked, grants>>
  PROVE  SInv'
<1>1. /\ pending' = [pending EXCEPT ![r] = {}] /\ Released(r)
      /\ aborted' = aborted \ {r}
      /\ UNCHANGED <<databases, acked, grants>>
  BY DEF RollbackTxn
<1>2. /\ \A q \in Replicas \ {r} : admin'[q] = admin[q]
      /\ admin' \in [Replicas -> AdminState] /\ admin'[r].step = "idle"
  <2>1. AtRest \in AdminState /\ AtRest.step = "idle"
    BY DEF AtRest, AdminState
  <2> QED
    BY <2>1 DEF AdminRests, SInv, Typed
<1>3. disturbed \subseteq disturbed'
  BY DisturbFacts
<1>4. InLog(r)' => disturbed' # {}
  <2>1. InLog(r)' = InLog(r)
    BY DEF InLog
  <2>2. CASE Disturb(r, InLog(r))
    BY <2>1, <2>2, DisturbFacts
  <2>3. CASE r \in aborted /\ UNCHANGED disturbed
    BY <2>1, <2>3, MineFacts DEF Mine, InLog
  <2> QED
    BY <2>2, <2>3
<1> QED
  BY <1>1, <1>2, <1>3, <1>4, GiveUpStep DEF SInv, Typed, WritingTrust

(* A process that restarts has given up whatever it was doing. *)
LEMMA RestartStep ==
  ASSUME SInv, NEW r \in Replicas, Restart(r)
  PROVE  SInv'
<1>1. /\ pending' = [pending EXCEPT ![r] = {}] /\ Released(r)
      /\ aborted' = aborted \ {r}
      /\ UNCHANGED <<databases, acked, grants, disturbed>>
  BY DEF Restart, RollbackTxn, history
<1> DEFINE a == [step |-> "resolve", op |-> "add", id |-> Signer]
<1>2. /\ log' = [log EXCEPT ![r] = Idle]
      /\ \/ admin' = [admin EXCEPT ![r] = AtRest]
         \/ admin' = [admin EXCEPT ![r] = a] /\ backend = "postgres"
  BY DEF Restart, Finish, AdminRests
<1>6. /\ a \in AdminState /\ a.step = "resolve" /\ a.id \in TrustKeys
      /\ AtRest \in AdminState /\ AtRest.step = "idle"
  BY ReplayConstants DEF AtRest, AdminState
<1> HIDE DEF a
<1>3. /\ log'[r].step = "idle" /\ \A q \in Replicas \ {r} : log'[q] = log[q]
      /\ \A q \in Replicas \ {r} : admin'[q] = admin[q]
  BY <1>2 DEF SInv, Typed, Idle
<1>7. /\ admin' \in [Replicas -> AdminState]
      /\ admin'[r].step # "idle" =>
           admin'[r].id \in TrustKeys /\ backend = "postgres"
      /\ ~ WritingTrust(r)'
  BY <1>2, <1>6 DEF SInv, Typed, WritingTrust
<1>4. ~ InLog(r)'
  BY <1>3 DEF InLog
<1>5. /\ view' \in [Replicas -> Seq(Frame)]
      /\ \A q \in Replicas \ {r} : view'[q] = view[q]
  <2>1. CASE verify_chain(table)
    <3>1. table \in Seq(Frame)
      BY <2>1, VerifiedIsWhole DEF SInv, Typed
    <3>2. view' = [view EXCEPT ![r] = table]
      BY <2>1 DEF Restart
    <3> QED
      BY <3>1, <3>2 DEF SInv, Typed
  <2>2. CASE ~ verify_chain(table)
    BY <2>2 DEF Restart, SInv, Typed
  <2> QED
    BY <2>1, <2>2
<1> QED
  BY <1>1, <1>2, <1>3, <1>4, <1>5, <1>7, GiveUpStep

(* append leaves a refused transaction to the next user of the connection. *)
LEMMA LeavesAborted ==
  ASSUME SInv, NEW r \in Replicas, log[r].step # "idle", r \in aborted,
         UNCHANGED <<databases, sessions, view, admin, history>>, Finish(r)
  PROVE  SInv'
<1>1. UNCHANGED <<locks, aborted, pending, view, admin, databases, history, table>>
  BY DEF sessions, databases
<1>2. Idle.step = "idle" /\ Idle \in LogState
  BY DEF Idle, Ops, LogState
<1>3. /\ log' \in [Replicas -> LogState] /\ log'[r].step = "idle"
      /\ \A q \in Replicas \ {r} : log'[q] = log[q]
  BY <1>2 DEF Finish, SInv, Typed
<1>4. pending[r] = {}
  BY MineFacts DEF Mine
<1>5. Mine(r)'
  BY <1>1, <1>3, <1>4, MineFacts DEF Mine
<1>6. disturbed = {} => Locked(r)'
  BY <1>1, <1>3, MineFacts DEF Locked, InLog
<1> QED
  BY <1>1, <1>3, <1>4, <1>5, <1>6, LocalStep, MineFacts DEF SInv, Typed

-------------------------------------------------------------------------------
(* Transactions that are committed *)

(* What a commit means for the other processes: their writes stay pending, *)
(* and who is past the lock still holds it, with the head it read.  The    *)
(* frame that was committed, if any, was this process's, which then held   *)
(* the append lock.                                                        *)
LEMMA CommitOthers ==
  ASSUME SInv, NEW r \in Replicas, CommitTxn(r), r \notin aborted,
         disturbed \subseteq disturbed',
         \A q \in Replicas \ {r} :
           view'[q] = view[q] /\ log'[q] = log[q] /\ admin'[q] = admin[q],
         Mine(r)', disturbed' = {} => Locked(r)'
  PROVE  PendingInv' /\ LockInv'
<1>1. /\ Applied(pending[r]) /\ pending' = [pending EXCEPT ![r] = {}]
      /\ Released(r) /\ aborted' = aborted
  BY DEF CommitTxn
<1>2. /\ pending'[r] = {}
      /\ \A q \in Replicas \ {r} : pending'[q] = pending[q]
  BY <1>1 DEF SInv, Typed
<1>3. \A q \in Replicas \ {r} :
        /\ NewWrite(q)' = NewWrite(q) /\ InLog(q)' = InLog(q)
        /\ NewKey(q)' = NewKey(q)
  BY DEF NewWrite, InLog, NewKey
<1>4. PendingInv'
  <2> SUFFICES ASSUME NEW q \in Replicas
               PROVE  /\ q \in aborted' => /\ log'[q].step \in {"idle", "lock"}
                                           /\ pending'[q] = {}
                      /\ \A w \in pending'[q] :
                           /\ w.kind # "key" =>
                                log'[q].step = "commit" /\ w = NewWrite(q)'
                           /\ w.kind = "key" =>
                                admin'[q].step = "commit" /\ w = NewKey(q)'
                           /\ w.kind = "nonce" =>
                                /\ w.id \notin consumed'
                                /\ \A p \in Replicas \ {q} : \A x \in pending'[p] :
                                     x.kind = "nonce" => x.id # w.id
    BY DEF PendingInv
  <2>1. CASE q = r
    BY <1>1, <1>2, <2>1
  <2>2. CASE q # r
    <3>1. /\ log'[q] = log[q] /\ pending'[q] = pending[q]
          /\ q \in aborted' <=> q \in aborted
          /\ NewWrite(q)' = NewWrite(q)
          /\ NewKey(q)' = NewKey(q) /\ admin'[q] = admin[q]
      BY <1>1, <1>2, <1>3, <2>2
    <3>2. \A p \in Replicas : pending'[p] \subseteq pending[p]
      BY <1>2
    <3>3. consumed' = consumed \cup
            {w.id : w \in {x \in pending[r] : x.kind = "nonce"}}
      BY <1>1, AppliedFacts
    <3>4. \A w \in pending[q] : w.kind = "nonce" =>
            /\ w.id \notin consumed
            /\ \A p \in Replicas \ {q} : \A x \in pending[p] :
                 x.kind = "nonce" => x.id # w.id
      BY DEF SInv, PendingInv
    <3>5. \A w \in pending[q] : w.kind = "nonce" => w.id \notin consumed'
      BY <2>2, <3>3, <3>4
    <3>6. Mine(q)
      BY MineFacts
    <3> QED
      BY <3>1, <3>2, <3>4, <3>5, <3>6 DEF Mine
  <2> QED
    BY <2>1, <2>2
<1>5. LockInv'
  <2> SUFFICES ASSUME disturbed' = {}, NEW q \in Replicas
               PROVE  Locked(q)'
    BY DEF LockInv, Locked
  <2>1. CASE q = r
    BY <2>1
  <2>2. CASE q # r
    <3>1. disturbed = {} /\ Locked(q) /\ Locked(r) /\ log[q].op \in Ops
      BY MineFacts
    <3>2. locks[log[q].op] = q => locks'[log[q].op] = q
      BY <1>1, <2>2, <3>1, ReleasedFacts
    <3>3. log[q].step \in {"insert", "commit"} /\ log[q].op = "append" =>
            table' = table
      <4> SUFFICES ASSUME log[q].step \in {"insert", "commit"},
                          log[q].op = "append"
                   PROVE  table' = table
        OBVIOUS
      <4>1. locks["append"] = q
        BY <3>1 DEF Locked, InLog
      <4>2. ASSUME NEW w \in pending[r] PROVE w.kind # "frame"
        <5> SUFFICES ASSUME w.kind = "frame" PROVE FALSE
          OBVIOUS
        <5>1. log[r].step = "commit" /\ w = NewWrite(r)
          BY MineFacts DEF Mine
        <5>2. log[r].op = "append"
          BY <5>1, NewWriteType DEF SInv
        <5> QED
          BY <2>2, <3>1, <4>1, <5>1, <5>2 DEF Locked, InLog
      <4> QED
        BY <1>1, <4>2, AppliedFacts
    <3> QED
      BY <1>1, <1>2, <1>3, <2>2, <3>1, <3>2, <3>3 DEF Locked
  <2> QED
    BY <2>1, <2>2
<1> QED
  BY <1>4, <1>5

(* The commit of an append links its frame to the head, which the lock has *)
(* kept in place; that of a claim is the first for its nonce.              *)
LEMMA CommitStep ==
  ASSUME SInv, NEW r \in Replicas, Commit(r)
  PROVE  SInv'
<1> DEFINE w == NewWrite(r)
<1>1. /\ log[r].step = "commit" /\ r \notin aborted /\ CommitTxn(r)
      /\ Disturb(r, WritingTrust(r)) /\ acked' = acked \cup {w}
      /\ log' = [log EXCEPT ![r] = Idle] /\ admin' = admin
  BY DEF Commit, Finish
<1>2. /\ w \in Write /\ w.id = log[r].id
      /\ w.kind = IF log[r].op = "append" THEN "frame" ELSE "nonce"
  BY <1>1, NewWriteType DEF SInv
<1>3. /\ log[r].op = "append" =>
           /\ w = [kind |-> "frame", id |-> log[r].id, prev |-> head(view[r])]
           /\ view' = [view EXCEPT ![r] =
                         Append(view[r], create(log[r].id, view[r]))]
           /\ grants' = grants
      /\ log[r].op # "append" =>
           /\ grants' = [grants EXCEPT ![log[r].id] = grants[log[r].id] + 1]
           /\ view' = view
  BY DEF Commit, NewWrite
<1>4. /\ log[r].op = "append" => log[r].id \in FrameIds
      /\ log[r].op # "append" => log[r].id \in Nonces
      /\ backend = "postgres"
  BY <1>1, MineFacts DEF Mine
<1>5. Idle.step = "idle" /\ Idle \in LogState
  BY DEF Idle, Ops, LogState
<1>6. /\ log' \in [Replicas -> LogState] /\ log'[r].step = "idle"
      /\ \A q \in Replicas \ {r} : log'[q] = log[q]
  BY <1>1, <1>5 DEF SInv, Typed
<1>7. /\ Applied(pending[r]) /\ Released(r) /\ aborted' = aborted
      /\ pending' \in [Replicas -> SUBSET Write] /\ pending'[r] = {}
  BY <1>1 DEF CommitTxn, SInv, Typed
<1>8. /\ disturbed \subseteq disturbed'
      /\ disturbed' = {} => disturbed = {} /\ admin[r].step # "commit"
  BY <1>1, DisturbFacts DEF WritingTrust
<1>9. /\ view' \in [Replicas -> Seq(Frame)]
      /\ \A q \in Replicas \ {r} : view'[q] = view[q]
  <2>1. CASE log[r].op = "append"
    <3>1. create(log[r].id, view[r]) \in Frame
      BY <1>4, <2>1, HeadType DEF create, Frame, SInv, Typed
    <3> DEFINE s == Append(view[r], create(log[r].id, view[r]))
    <3>2. s \in Seq(Frame)
      BY <3>1, AppendProperties DEF SInv, Typed
    <3>3. view' = [view EXCEPT ![r] = s]
      BY <1>3, <2>1
    <3> HIDE DEF s
    <3> QED
      BY <3>2, <3>3 DEF SInv, Typed
  <2>2. CASE log[r].op # "append"
    BY <1>3, <2>2 DEF SInv, Typed
  <2> QED
    BY <2>1, <2>2
<1>10. Mine(r)'
  BY <1>6, <1>7, <1>1, MineFacts DEF Mine
<1>11. disturbed' = {} => Locked(r)'
  BY <1>1, <1>6, <1>8 DEF Locked, InLog
<1>12. PendingInv' /\ LockInv'
  BY <1>1, <1>6, <1>8, <1>9, <1>10, <1>11, CommitOthers
<1>13. grants' \in [Nonces -> Nat]
  BY <1>3, <1>4 DEF SInv, Typed
<1>14. Typed'
  <2>1. \A q \in Replicas : log'[q].step # "idle" =>
          log'[q].id \in (IF log'[q].op = "append" THEN FrameIds ELSE Nonces)
    BY <1>6 DEF SInv, Typed
  <2>2. /\ backend' = backend
        /\ table' \in Seq(Frame \cup {Torn})
        /\ backend # "jsonl" => table' \in Seq(Frame)
        /\ consumed' \subseteq Nonces
        /\ trust' \in [TrustKeys -> {"unknown", "trusted", "revoked"}]
    BY <1>7, AppliedFacts
  <2>3. locks' \in [Ops -> Replicas \cup {None}]
    BY <1>7, ReleasedFacts
  <2> QED
    BY <1>1, <1>2, <1>4, <1>6, <1>7, <1>9, <1>13, <2>1, <2>2, <2>3
       DEF SInv, Typed
<1>15. StoredInv'
  <2> SUFFICES ASSUME disturbed' = {}
               PROVE  /\ \A n \in Nonces : /\ grants'[n] <= 1
                                           /\ grants'[n] > 0 => n \in consumed'
                      /\ \A x \in acked' : Durable(x)'
                      /\ backend' # "jsonl" => verify_chain(table)'
    BY DEF StoredInv
  <2>1. /\ w \in pending[r] /\ disturbed = {}
        /\ log[r].op = "append" => view[r] = table
    BY <1>1, <1>8, MineFacts DEF Locked
  <2>2. /\ \A n \in Nonces : grants[n] <= 1 /\ (grants[n] > 0 => n \in consumed)
        /\ \A x \in acked : Durable(x)
        /\ verify_chain(table)
    BY <1>4, <2>1 DEF SInv, StoredInv
  <2>3. /\ consumed' = consumed \cup
             {x.id : x \in {y \in pending[r] : y.kind = "nonce"}}
        /\ \A x \in Write : x.kind # "key" /\ Durable(x) => Durable(x)'
        /\ \A x \in pending[r] : Durable(x)'
        /\ (\A x \in pending[r] : x.kind # "key") => trust' = trust
        /\ (\A x \in pending[r] : x.kind # "frame") => table' = table
        /\ w.kind = "frame" =>
             table' = Append(table, [id |-> w.id, prev |-> w.prev])
    BY <1>7, <2>1, AppliedFacts
  <2>7. trust' = trust
    BY <1>8, <2>3, MineFacts DEF Mine
  <2>8. \A x \in Write : Durable(x) => Durable(x)'
    BY <2>3, <2>7 DEF Durable
  <2>4. \A x \in acked' : Durable(x)'
    BY <1>1, <2>1, <2>2, <2>3, <2>8 DEF SInv, Typed
  <2>5. CASE log[r].op = "append"
    <3> DEFINE f == [id |-> log[r].id, prev |-> head(view[r])]
    <3>1. f \in Frame /\ f.prev = head(table)
      BY <1>4, <2>1, <2>5, HeadType DEF Frame, SInv, Typed
    <3>2. table' = Append(table, f)
      BY <1>2, <1>3, <2>3, <2>5
    <3>3. table \in Seq(Frame)
      BY <1>4, MineFacts
    <3> HIDE DEF f
    <3>4. verify_chain(Append(table, f))
      BY <2>2, <3>1, <3>3, ChainExtends
    <3>5. verify_chain(table)'
      BY <3>2, <3>4 DEF verify_chain
    <3>6. grants' = grants /\ consumed \subseteq consumed'
      BY <1>3, <2>3, <2>5
    <3> QED
      BY <2>2, <2>4, <3>5, <3>6
  <2>6. CASE log[r].op # "append"
    <3>1. w.kind = "nonce" /\ w.id = log[r].id /\ log[r].id \in Nonces
      BY <1>2, <1>4, <2>6
    <3>2. log[r].id \notin consumed /\ log[r].id \in consumed'
      BY <2>1, <2>3, <3>1 DEF SInv, PendingInv
    <3>3. grants[log[r].id] = 0
      BY <2>2, <3>1, <3>2 DEF SInv, Typed
    <3>4. \A n \in Nonces : /\ grants'[n] <= 1
                            /\ grants'[n] > 0 => n \in consumed'
      <4> SUFFICES ASSUME NEW n \in Nonces
                   PROVE  grants'[n] <= 1 /\ (grants'[n] > 0 => n \in consumed')
        OBVIOUS
      <4>1. CASE n = log[r].id
        BY <1>3, <2>6, <3>1, <3>2, <3>3, <4>1 DEF SInv, Typed
      <4>2. CASE n # log[r].id
        <5>1. grants'[n] = grants[n] /\ (n \in consumed => n \in consumed')
          BY <1>3, <2>3, <2>6, <4>2 DEF SInv, Typed
        <5> QED
          BY <2>2, <5>1
      <4> QED
        BY <4>1, <4>2
    <3>5. \A x \in pending[r] : x.kind # "frame"
      BY <3>1, MineFacts DEF Mine
    <3>6. verify_chain(table)'
      BY <2>2, <2>3, <3>5 DEF verify_chain
    <3> QED
      BY <2>4, <3>4, <3>6
  <2> QED
    BY <2>5, <2>6
<1> QED
  BY <1>12, <1>14, <1>15 DEF SInv

(* The trust store's commit carries its key only, unless it is noted as a  *)
(* disturbance, and what was reported of the key before is forgotten.      *)
LEMMA TrustCommitStep ==
  ASSUME SInv, NEW r \in Replicas, TrustCommit(r)
  PROVE  SInv'
<1> DEFINE w == NewKey(r)
<1>1. /\ admin[r].step = "commit" /\ r \notin aborted /\ CommitTxn(r)
      /\ Disturb(r, InLog(r))
      /\ acked' = {x \in acked : x.kind = "key" => x.id # admin[r].id} \cup {w}
      /\ admin' = [admin EXCEPT ![r] = AtRest]
      /\ UNCHANGED <<view, log, grants>>
  BY DEF TrustCommit, AdminRests
<1>2. /\ w \in Write /\ w.kind = "key" /\ w.id = admin[r].id
      /\ backend = "postgres"
  BY <1>1, MineFacts, NewKeyType DEF SInv
<1>3. /\ admin' \in [Replicas -> AdminState] /\ admin'[r].step = "idle"
      /\ \A q \in Replicas \ {r} : admin'[q] = admin[q]
  <2>1. AtRest \in AdminState /\ AtRest.step = "idle"
    BY DEF AtRest, AdminState
  <2> QED
    BY <1>1, <2>1 DEF SInv, Typed
<1>4. /\ Applied(pending[r]) /\ Released(r) /\ aborted' = aborted
      /\ pending' \in [Replicas -> SUBSET Write] /\ pending'[r] = {}
  BY <1>1 DEF CommitTxn, SInv, Typed
<1>5. /\ disturbed \subseteq disturbed'
      /\ disturbed' = {} => disturbed = {} /\ ~ InLog(r)
  BY <1>1, DisturbFacts
<1>6. Mine(r)'
  BY <1>1, <1>3, <1>4, MineFacts DEF Mine
<1>7. InLog(r)' = InLog(r)
  BY <1>1 DEF InLog
<1>8. disturbed' = {} => Locked(r)'
  BY <1>1, <1>3, <1>5, <1>7 DEF Locked, InLog
<1>9. PendingInv' /\ LockInv'
  BY <1>1, <1>3, <1>5, <1>6, <1>8, CommitOthers
<1>10. Typed'
  <2>1. /\ backend' = backend
        /\ table' \in Seq(Frame \cup {Torn})
        /\ backend # "jsonl" => table' \in Seq(Frame)
        /\ consumed' \subseteq Nonces
        /\ trust' \in [TrustKeys -> {"unknown", "trusted", "revoked"}]
    BY <1>4, AppliedFacts
  <2>2. locks' \in [Ops -> Replicas \cup {None}]
    BY <1>4, ReleasedFacts
  <2>3. \A q \in Replicas : admin'[q].step # "idle" => admin'[q].id \in TrustKeys
    BY <1>3 DEF SInv, Typed
  <2> HIDE DEF w
  <2>4. acked' \subseteq Write
    BY <1>1, <1>2 DEF SInv, Typed
  <2> QED
    BY <1>1, <1>2, <1>3, <1>4, <2>1, <2>2, <2>3, <2>4 DEF SInv, Typed
<1>11. StoredInv'
  <2> SUFFICES ASSUME disturbed' = {}
               PROVE  /\ \A n \in Nonces : /\ grants'[n] <= 1
                                           /\ grants'[n] > 0 => n \in consumed'
                      /\ \A x \in acked' : Durable(x)'
                      /\ backend' # "jsonl" => verify_chain(table)'
    BY DEF StoredInv
  <2>1. w \in pending[r] /\ disturbed = {} /\ ~ InLog(r)
    BY <1>1, <1>5, MineFacts DEF Locked
  <2>2. /\ \A n \in Nonces : grants[n] <= 1 /\ (grants[n] > 0 => n \in consumed)
        /\ \A x \in acked : Durable(x)
        /\ verify_chain(table)
    BY <1>2, <2>1 DEF SInv, StoredInv
  <2>3. \A x \in pending[r] : x.kind = "key"
    BY <2>1, MineFacts DEF Mine, InLog
  <2>4. /\ consumed \subseteq consumed' /\ table' = table
        /\ \A x \in Write : x.kind # "key" /\ Durable(x) => Durable(x)'
        /\ \A x \in pending[r] : Durable(x)'
        /\ trust' = [trust EXCEPT ![w.id] = w.state]
    <3>1. w \in pending[r] /\ w.kind = "key" /\ \A x \in pending[r] : x.kind # "frame"
      BY <1>2, <2>1, <2>3
    <3> HIDE DEF w
    <3>2. consumed \subseteq consumed' /\ table' = table
      BY <1>4, <3>1, AppliedFacts
    <3>3. \A x \in Write : x.kind # "key" /\ Durable(x) => Durable(x)'
      BY <1>4, AppliedFacts
    <3>4. \A x \in pending[r] : Durable(x)'
      BY <1>4, AppliedFacts
    <3>5. trust' = [trust EXCEPT ![w.id] = w.state]
      BY <1>4, <3>1, AppliedFacts
    <3> QED
      BY <3>2, <3>3, <3>4, <3>5
  <2> HIDE DEF w
  <2>7. ASSUME NEW x \in acked, x.kind = "key", x.id # w.id
        PROVE  Durable(x)'
    <3>1. trust[x.id] = x.state /\ x.id \in TrustKeys
      BY <2>2, <2>7 DEF Durable, SInv, Typed, Write
    <3>2. trust'[x.id] = trust[x.id]
      BY <2>4, <2>7, <3>1 DEF SInv, Typed
    <3> QED
      BY <2>7, <3>1, <3>2 DEF Durable
  <2>8. \A x \in acked : x \in Write
    BY DEF SInv, Typed
  <2>5. \A x \in acked' : Durable(x)'
    <3>1. \A x \in acked' :
            x = w \/ (x \in acked /\ (x.kind = "key" => x.id # w.id))
      BY <1>1, <1>2
    <3> SUFFICES ASSUME NEW x \in acked' PROVE Durable(x)'
      OBVIOUS
    <3>2. CASE x = w
      BY <2>1, <2>4, <3>2
    <3>3. CASE x \in acked /\ x.kind = "key" /\ x.id # w.id
      BY <2>7, <3>3
    <3>4. CASE x \in acked /\ x.kind # "key"
      BY <2>2, <2>4, <2>8, <3>4
    <3> QED
      BY <3>1, <3>2, <3>3, <3>4
  <2>6. verify_chain(table)'
    BY <2>2, <2>4 DEF verify_chain
  <2> QED
    BY <1>1, <2>2, <2>4, <2>5, <2>6
<1> QED
  BY <1>9, <1>10, <1>11 DEF SInv

-------------------------------------------------------------------------------
(* The logs without transactions of their own: nothing is pending, nobody  *)
(* is in the middle of anything.                                           *)
LEMMA FileStep ==
  ASSUME SInv, NEW r \in Replicas, backend # "postgres",
         UNCHANGED <<backend, trust, sessions, log, admin>>,
         disturbed \subseteq disturbed', acked' \subseteq Write,
         consumed' \subseteq Nonces, grants' \in [Nonces -> Nat],
         view' \in [Replicas -> Seq(Frame)],
         table' \in Seq(Frame \cup {Torn}),
         backend # "jsonl" => table' \in Seq(Frame),
         disturbed' = {} =>
           /\ \A w \in acked' : Durable(w)'
           /\ backend # "jsonl" =>
                /\ verify_chain(table')
                /\ \A n \in Nonces : /\ grants'[n] <= 1
                                     /\ grants'[n] > 0 => n \in consumed'
  PROVE  SInv'
<1>1. UNCHANGED <<locks, aborted, pending>>
  BY DEF sessions
<1>2. \A q \in Replicas : /\ log[q].step = "idle" /\ pending[q] = {}
                         /\ admin[q].step = "idle"
  BY DEF SInv, Typed
<1>3. Typed'
  BY <1>1, <1>2 DEF SInv, Typed
<1>4. PendingInv'
  BY <1>1, <1>2 DEF PendingInv
<1>5. LockInv'
  BY <1>2 DEF LockInv, InLog
<1>6. StoredInv'
  <2>1. disturbed' = {} => disturbed = {}
    OBVIOUS
  <2>2. verify_chain(table') <=> verify_chain(table)'
    BY DEF verify_chain
  <2> QED
    BY <2>1, <2>2 DEF SInv, StoredInv
<1> QED
  BY <1>3, <1>4, <1>5, <1>6 DEF SInv

(* The frame an append makes, and the caller's copy with it. *)
LEMMA NewFrame ==
  ASSUME SInv, NEW r \in Replicas, NEW id \in FrameIds
  PROVE  /\ create(id, view[r]) \in Frame
         /\ create(id, view[r]).id = id
         /\ create(id, view[r]).prev = head(view[r])
         /\ [view EXCEPT ![r] = Append(view[r], create(id, view[r]))]
              \in [Replicas -> Seq(Frame)]
         /\ [kind |-> "frame", id |-> id, prev |-> create(id, view[r]).prev]
              \in Write
<1>1. view[r] \in Seq(Frame) /\ view \in [Replicas -> Seq(Frame)]
  BY DEF SInv, Typed
<1>2. head(view[r]) \in Chain
  BY <1>1, HeadType
<1>3. /\ create(id, view[r]) \in Frame /\ create(id, view[r]).id = id
      /\ create(id, view[r]).prev = head(view[r])
  BY <1>2 DEF create, Frame
<1>4. Append(view[r], create(id, view[r])) \in Seq(Frame)
  BY <1>1, <1>3, AppendProperties
<1>5. [kind |-> "frame", id |-> id, prev |-> head(view[r])] \in Write
  BY <1>2 DEF Write
<1> QED
  BY <1>1, <1>3, <1>4, <1>5

(* What a write of a frame leaves durable. *)
LEMMA FrameDurable ==
  ASSUME SInv, NEW f \in Frame, table' = Append(table, f),
         UNCHANGED <<backend, consumed, trust>>
  PROVE  /\ table' \in Seq(Frame \cup {Torn})
         /\ backend # "jsonl" => table' \in Seq(Frame)
         /\ \A w \in Write : Durable(w) => Durable(w)'
         /\ \A w \in Write : /\ w.kind = "frame"
                             /\ [id |-> w.id, prev |-> w.prev] = f
                             => Durable(w)'
<1>1. table \in Seq(Frame \cup {Torn}) /\ (backend # "jsonl" => table \in Seq(Frame))
  BY DEF SInv, Typed
<1>2. ToSet(table') = ToSet(table) \cup {f}
  BY <1>1, AppendToSet
<1>3. /\ table' \in Seq(Frame \cup {Torn})
      /\ backend # "jsonl" => table' \in Seq(Frame)
  BY <1>1, AppendProperties
<1> QED
  BY <1>2, <1>3 DEF Durable, Write

(* A SQLite append keeps the chain if the head in memory is the table's. *)
LEMMA AppendSqliteStep ==
  ASSUME SInv, NEW r \in Replicas, NEW id \in FrameIds, AppendSqlite(r, id)
  PROVE  SInv'
<1> DEFINE f == create(id, view[r])
           w == [kind |-> "frame", id |-> id, prev |-> f.prev]
<1>1. /\ f \in Frame /\ f.id = id /\ f.prev = head(view[r]) /\ w \in Write
      /\ [view EXCEPT ![r] = Append(view[r], f)] \in [Replicas -> Seq(Frame)]
  BY NewFrame
<1>2. /\ backend = "sqlite" /\ table' = Append(table, f)
      /\ view' = [view EXCEPT ![r] = Append(view[r], f)]
      /\ acked' = acked \cup {w}
      /\ disturbed' = IF view[r] # table THEN disturbed \cup {r} ELSE disturbed
      /\ UNCHANGED <<backend, consumed, trust, sessions, log, admin, grants>>
  BY DEF AppendSqlite
<1>3. [id |-> w.id, prev |-> w.prev] = f
  BY <1>1 DEF Frame
<1>4. w.kind = "frame"
  OBVIOUS
<1> HIDE DEF f, w
<1>5. /\ table' \in Seq(Frame \cup {Torn}) /\ table' \in Seq(Frame)
      /\ \A x \in Write : Durable(x) => Durable(x)'
      /\ \A x \in Write : x = w => Durable(x)'
  BY <1>1, <1>2, <1>3, <1>4, FrameDurable
<1>6. disturbed' = {} =>
        /\ \A x \in acked' : Durable(x)'
        /\ verify_chain(table')
        /\ \A n \in Nonces : grants[n] <= 1 /\ (grants[n] > 0 => n \in consumed)
  <2> SUFFICES ASSUME disturbed' = {}
               PROVE  /\ \A x \in acked' : Durable(x)'
                      /\ verify_chain(table')
                      /\ \A n \in Nonces : /\ grants[n] <= 1
                                           /\ grants[n] > 0 => n \in consumed
    OBVIOUS
  <2>1. disturbed = {} /\ view[r] = table
    BY <1>2
  <2>2. /\ verify_chain(table) /\ \A x \in acked : Durable(x)
        /\ \A n \in Nonces : grants[n] <= 1 /\ (grants[n] > 0 => n \in consumed)
    BY <1>2, <2>1 DEF SInv, StoredInv
  <2>3. table \in Seq(Frame)
    BY <1>2 DEF SInv, Typed
  <2>4. verify_chain(Append(table, f))
    BY <1>1, <2>1, <2>2, <2>3, ChainExtends
  <2>5. \A x \in acked' : x \in Write /\ (x \in acked \/ x = w)
    BY <1>1, <1>2 DEF SInv, Typed
  <2> QED
    BY <1>2, <1>5, <2>2, <2>4, <2>5
<1>7. /\ acked' \subseteq Write /\ disturbed \subseteq disturbed'
      /\ consumed' \subseteq Nonces /\ grants' \in [Nonces -> Nat]
  BY <1>1, <1>2 DEF SInv, Typed
<1> QED
  BY <1>1, <1>2, <1>5, <1>6, <1>7, FileStep

(* A SQLite claim is the first of its nonce. *)
LEMMA ClaimSqliteStep ==
  ASSUME SInv, NEW r \in Replicas, NEW n \in Nonces, ClaimSqlite(r, n)
  PROVE  SInv'
<1> DEFINE w == [kind |-> "nonce", id |-> n]
<1>1. /\ backend = "sqlite" /\ n \notin consumed
      /\ consumed' = consumed \cup {n} /\ acked' = acked \cup {w}
      /\ grants' = [grants EXCEPT ![n] = grants[n] + 1]
      /\ UNCHANGED <<backend, table, trust, sessions, view, log, admin, disturbed>>
  BY DEF ClaimSqlite
<1>2. w \in Write /\ w.kind = "nonce" /\ w.id = n
  BY DEF Write
<1> HIDE DEF w
<1>3. /\ acked' \subseteq Write /\ consumed' \subseteq Nonces
      /\ grants' \in [Nonces -> Nat]
      /\ view' \in [Replicas -> Seq(Frame)]
      /\ table' \in Seq(Frame \cup {Torn}) /\ table' \in Seq(Frame)
  BY <1>1, <1>2 DEF SInv, Typed
<1>4. ASSUME disturbed' = {}
      PROVE  /\ \A x \in acked' : Durable(x)'
             /\ verify_chain(table')
             /\ \A m \in Nonces : /\ grants'[m] <= 1
                                  /\ grants'[m] > 0 => m \in consumed'
  <2>1. /\ verify_chain(table) /\ \A x \in acked : Durable(x)
        /\ \A m \in Nonces : grants[m] <= 1 /\ (grants[m] > 0 => m \in consumed)
    BY <1>1, <1>4 DEF SInv, StoredInv
  <2>2. \A x \in Write : Durable(x) => Durable(x)'
    BY <1>1 DEF Durable, Write
  <2>3. Durable(w)'
    BY <1>1, <1>2 DEF Durable
  <2>4. \A x \in acked' : Durable(x)'
    BY <1>1, <2>1, <2>2, <2>3 DEF SInv, Typed
  <2>5. \A m \in Nonces : grants'[m] <= 1 /\ (grants'[m] > 0 => m \in consumed')
    <3>1. grants[n] = 0
      BY <1>1, <2>1 DEF SInv, Typed
    <3> QED
      BY <1>1, <2>1, <3>1 DEF SInv, Typed
  <2> QED
    BY <1>1, <2>1, <2>4, <2>5
<1> QED
  BY <1>1, <1>3, <1>4, FileStep

(* A JSONL claim leaves the file alone. *)
LEMMA ClaimJsonlStep ==
  ASSUME SInv, NEW r \in Replicas, NEW n \in Nonces, ClaimJsonl(r, n)
  PROVE  SInv'
<1> DEFINE w == [kind |-> "nonce", id |-> n]
<1>1. /\ backend = "jsonl" /\ acked' = acked \cup {w}
      /\ grants' = [grants EXCEPT ![n] = grants[n] + 1]
      /\ UNCHANGED <<backend, table, consumed, trust, sessions, view, log, admin,
                     disturbed>>
  BY DEF ClaimJsonl, databases
<1>2. w \in Write /\ w.kind = "nonce"
  BY DEF Write
<1> HIDE DEF w
<1>3. /\ acked' \subseteq Write /\ consumed' \subseteq Nonces
      /\ grants' \in [Nonces -> Nat]
      /\ view' \in [Replicas -> Seq(Frame)]
      /\ table' \in Seq(Frame \cup {Torn})
  BY <1>1, <1>2 DEF SInv, Typed
<1>4. disturbed' = {} => \A x \in acked' : Durable(x)'
  <2>1. \A x \in Write : Durable(x) => Durable(x)'
    BY <1>1 DEF Durable
  <2>2. Durable(w)'
    BY <1>1, <1>2 DEF Durable
  <2> QED
    BY <1>1, <2>1, <2>2 DEF SInv, StoredInv, Typed
<1> QED
  BY <1>1, <1>3, <1>4, FileStep

(* In the JSONL log a torn line, or a frame that only memory has, loses    *)
(* nothing that was acknowledged.                                          *)
LEMMA AppendJsonlStep ==
  ASSUME SInv, NEW r \in Replicas, NEW id \in FrameIds, AppendJsonl(r, id)
  PROVE  SInv'
<1> DEFINE f == create(id, view[r])
           w == [kind |-> "frame", id |-> id, prev |-> f.prev]
<1>1. /\ f \in Frame /\ f.id = id /\ f.prev = head(view[r]) /\ w \in Write
      /\ [view EXCEPT ![r] = Append(view[r], f)] \in [Replicas -> Seq(Frame)]
  BY NewFrame
<1>2. /\ backend = "jsonl"
      /\ view' = [view EXCEPT ![r] = Append(view[r], f)]
      /\ \/ table' = Append(table, f) /\ acked' = acked \cup {w}
         \/ table' = table /\ acked' = acked
         \/ table' = Append(table, Torn) /\ acked' = acked
      /\ disturbed' = IF view[r] # table THEN disturbed \cup {r} ELSE disturbed
      /\ UNCHANGED <<backend, consumed, trust, sessions, log, admin, grants>>
  BY DEF AppendJsonl
<1>3. [id |-> w.id, prev |-> w.prev] = f
  BY <1>1 DEF Frame
<1>4. w.kind = "frame"
  OBVIOUS
<1> HIDE DEF f, w
<1>5. /\ acked' \subseteq Write /\ disturbed \subseteq disturbed'
      /\ consumed' \subseteq Nonces /\ grants' \in [Nonces -> Nat]
  BY <1>1, <1>2 DEF SInv, Typed
<1>6. /\ table' \in Seq(Frame \cup {Torn})
      /\ \A x \in Write : Durable(x) => Durable(x)'
      /\ \A x \in Write : x = w => x \notin acked' \ acked \/ Durable(x)'
  <2>1. CASE table' = Append(table, f) /\ acked' = acked \cup {w}
    BY <1>1, <1>2, <1>3, <1>4, <2>1, FrameDurable
  <2>2. CASE table' = table /\ acked' = acked
    BY <1>2, <2>2 DEF Durable, SInv, Typed
  <2>3. CASE table' = Append(table, Torn) /\ acked' = acked
    <3>1. table \in Seq(Frame \cup {Torn}) /\ Torn \in Frame \cup {Torn}
      BY DEF SInv, Typed
    <3>2. ToSet(table') = ToSet(table) \cup {Torn}
      BY <2>3, <3>1, AppendToSet
    <3>3. table' \in Seq(Frame \cup {Torn})
      BY <2>3, <3>1, AppendProperties
    <3> QED
      BY <1>2, <2>3, <3>2, <3>3 DEF Durable, Write
  <2> QED
    BY <1>2, <2>1, <2>2, <2>3
<1>7. disturbed' = {} => \A x \in acked' : Durable(x)'
  <2> SUFFICES ASSUME disturbed' = {}, NEW x \in acked'
               PROVE  Durable(x)'
    OBVIOUS
  <2>1. disturbed = {}
    BY <1>5
  <2>2. CASE x \in acked
    BY <1>6, <2>1, <2>2 DEF SInv, StoredInv, Typed
  <2>3. CASE x \notin acked
    <3>1. x = w /\ x \in Write
      BY <1>2, <1>5, <2>3
    <3> QED
      BY <1>6, <2>3, <3>1
  <2> QED
    BY <2>2, <2>3
<1> QED
  BY <1>1, <1>2, <1>5, <1>6, <1>7, FileStep

-------------------------------------------------------------------------------
(* The invariant that all of the following rest on: row locks, the append  *)
(* lock and the copies in memory of every process agree with the tables.   *)
THEOREM StoreInvariant == Spec => []SInv
<1>1. Init => SInv
  <2> SUFFICES ASSUME Init PROVE SInv
    OBVIOUS
  <2>1. Idle.step = "idle" /\ Idle \in LogState
    BY DEF Idle, Ops, LogState
  <2>7. AtRest \in AdminState /\ AtRest.step = "idle"
    BY DEF AtRest, AdminState
  <2>2. \A r \in Replicas : /\ log[r].step = "idle" /\ pending[r] = {}
                           /\ admin[r].step = "idle"
    BY <2>1, <2>7 DEF Init
  <2>3. Typed
    BY <2>1, <2>2, <2>7 DEF Init, Typed
  <2>4. PendingInv /\ LockInv
    BY <2>2 DEF Init, PendingInv, LockInv, InLog
  <2>5. verify_chain(table)
    BY DEF Init, verify_chain
  <2>6. StoredInv
    BY <2>5 DEF Init, StoredInv
  <2> QED
    BY <2>3, <2>4, <2>6 DEF SInv
<1>2. SInv /\ [Next]_vars => SInv'
  <2> SUFFICES ASSUME SInv, [Next]_vars PROVE SInv'
    OBVIOUS
  <2>1. CASE UNCHANGED vars
    <3>1. UNCHANGED <<backend, table, consumed, trust, locks, aborted, pending,
                      view, log, admin, acked, grants, disturbed>>
      BY <2>1 DEF vars, databases, sessions, history
    <3>2. /\ Typed' /\ StoredInv'
      BY <3>1 DEF SInv, Typed, StoredInv, Durable, verify_chain
    <3>3. PendingInv' /\ LockInv'
      BY <3>1 DEF SInv, PendingInv, LockInv, NewWrite, NewKey, InLog
    <3> QED
      BY <3>2, <3>3 DEF SInv
  <2>2. ASSUME NEW r \in Replicas, NEW id \in FrameIds,
               \/ Start(r, "append", id) \/ AppendSqlite(r, id)
               \/ AppendJsonl(r, id)
        PROVE  SInv'
    BY <2>2, StartStep, AppendSqliteStep, AppendJsonlStep DEF Ops
  <2>3. ASSUME NEW r \in Replicas, NEW n \in Nonces,
               \/ Start(r, "claim", n) \/ ClaimSqlite(r, n) \/ ClaimJsonl(r, n)
        PROVE  SInv'
    BY <2>3, StartStep, ClaimSqliteStep, ClaimJsonlStep DEF Ops
  <2>4. ASSUME NEW r \in Replicas, NEW k \in TrustKeys,
               NEW o \in {"add", "revoke"}, TrustStart(r, o, k)
        PROVE  SInv'
    BY <2>4, TrustStartStep
  <2>5. ASSUME NEW r \in Replicas, TrustFails(r)
        PROVE  SInv'
    BY <2>5, TrustGivesUp DEF TrustFails
  <2>6. ASSUME NEW r \in Replicas, LogStep(r)
        PROVE  SInv'
    <3>1. CASE InsertRefused(r)
      BY <3>1, LogGivesUp DEF InsertRefused
    <3>2. CASE MeetsAborted(r)
      <4>1. CASE RollsBack(r)
        BY <3>2, <4>1, LogGivesUp DEF MeetsAborted, history
      <4>2. CASE ~ RollsBack(r)
        BY <3>2, <4>2, LeavesAborted DEF MeetsAborted
      <4> QED
        BY <4>1, <4>2
    <3> QED
      BY <2>6, <3>1, <3>2, TakeLockStep, RefreshStep, InsertStep, CommitStep
         DEF LogStep
  <2>7. ASSUME NEW r \in Replicas, TrustStep(r)
        PROVE  SInv'
    <3>1. CASE TrustMeetsAborted(r)
      BY <3>1, TrustGivesUp DEF TrustMeetsAborted, history
    <3>2. CASE TrustRefused(r)
      BY <3>2, TrustGivesUp DEF TrustRefused
    <3> QED
      BY <2>7, <3>1, <3>2, TrustLooks, TrustWriteStep, TrustCommitStep
         DEF TrustStep
  <2>8. ASSUME NEW r \in Replicas, StatementFails(r)
        PROVE  SInv'
    BY <2>8, LogGivesUp DEF StatementFails
  <2>9. ASSUME NEW r \in Replicas, Restart(r)
        PROVE  SInv'
    BY <2>9, RestartStep
  <2> QED
    BY <2>1, <2>2, <2>3, <2>4, <2>5, <2>6, <2>7, <2>8, <2>9 DEF Next
<1> QED
  BY <1>1, <1>2, PTL DEF Spec

(* What no step of a process leaves: its processes, its bounds. *)
Bounded ==
  /\ aborted \subseteq Replicas
  /\ down \subseteq Replicas
  /\ disturbed \subseteq Replicas
  /\ requests \in 0..MaxRequests
  /\ faults \in 0..MaxFaults

(* The claims in the memory of the processes, on the JSONL log: each was   *)
(* granted once, and is counted when it is forgotten.                      *)
Claimants(n) == {r \in Replicas : n \in used[r]}

MemoryInv ==
  /\ used \in [Replicas -> SUBSET Nonces]
  /\ lost \in [Nonces -> Nat]
  /\ \A n \in Nonces : backend = "jsonl" =>
       grants[n] <= Cardinality(Claimants(n)) + lost[n]

(* Where the memory of the other processes stays as it is. *)
LEMMA ClaimantsOf ==
  ASSUME MemoryInv, NEW r \in Replicas, NEW n \in Nonces,
         NEW s \in SUBSET Nonces, used' = [used EXCEPT ![r] = s]
  PROVE  /\ IsFiniteSet(Claimants(n)) /\ Cardinality(Claimants(n)) \in Nat
         /\ n \in s => Claimants(n)' = Claimants(n) \cup {r}
         /\ n \notin s => Claimants(n)' = Claimants(n) \ {r}
         /\ n \in used[r] <=> r \in Claimants(n)
<1>1. Claimants(n) \subseteq Replicas
  BY DEF Claimants
<1>2. IsFiniteSet(Claimants(n))
  BY <1>1, ReplayConstants, FS_Subset
<1>3. \A q \in Replicas : n \in used'[q] <=> IF q = r THEN n \in s ELSE n \in used[q]
  BY DEF MemoryInv
<1> QED
  BY <1>2, <1>3, FS_CardinalityType DEF Claimants

(* A claim makes one claimant more. *)
LEMMA ClaimJsonlMemory ==
  ASSUME SInv, MemoryInv, NEW r \in Replicas, NEW n \in Nonces, ClaimJsonl(r, n)
  PROVE  MemoryInv'
<1> DEFINE s == used[r] \cup {n}
<1>1. /\ n \notin used[r] /\ used' = [used EXCEPT ![r] = s] /\ lost' = lost
      /\ grants' = [grants EXCEPT ![n] = grants[n] + 1] /\ backend' = backend
  BY DEF ClaimJsonl, databases
<1>2. s \in SUBSET Nonces /\ n \in s /\ \A m \in Nonces \ {n} : m \in s <=> m \in used[r]
  BY DEF MemoryInv
<1> HIDE DEF s
<1>3. used' \in [Replicas -> SUBSET Nonces] /\ lost' \in [Nonces -> Nat]
  BY <1>1, <1>2 DEF MemoryInv
<1>4. ASSUME NEW m \in Nonces, backend = "jsonl"
      PROVE  grants'[m] <= Cardinality(Claimants(m)') + lost[m]
  <2>1. /\ IsFiniteSet(Claimants(m)) /\ Cardinality(Claimants(m)) \in Nat
        /\ m \in s => Claimants(m)' = Claimants(m) \cup {r}
        /\ m \notin s => Claimants(m)' = Claimants(m) \ {r}
        /\ m \in used[r] <=> r \in Claimants(m)
    BY <1>1, <1>2, ClaimantsOf
  <2>2. /\ grants[m] <= Cardinality(Claimants(m)) + lost[m]
        /\ grants[m] \in Nat /\ lost[m] \in Nat
    BY <1>4 DEF MemoryInv, SInv, Typed
  <2>3. CASE m = n
    <3>1. Cardinality(Claimants(m)') = Cardinality(Claimants(m)) + 1
      BY <1>1, <1>2, <2>1, <2>3, FS_AddElement
    <3>2. grants'[m] = grants[m] + 1
      BY <1>1, <2>3 DEF SInv, Typed
    <3> QED
      BY <2>1, <2>2, <3>1, <3>2
  <2>4. CASE m # n
    <3>1. Claimants(m)' = Claimants(m)
      BY <1>2, <2>1, <2>4
    <3>2. grants'[m] = grants[m]
      BY <1>1, <2>4 DEF SInv, Typed
    <3> QED
      BY <2>2, <3>1, <3>2
  <2> QED
    BY <2>3, <2>4
<1> QED
  BY <1>1, <1>3, <1>4 DEF MemoryInv

(* A restart forgets the claims without a frame, and counts them. *)
LEMMA RestartMemory ==
  ASSUME SInv, MemoryInv, NEW r \in Replicas, Restart(r)
  PROVE  MemoryInv'
<1> DEFINE s == load_jsonl
<1>1. /\ used' = [used EXCEPT ![r] = s] /\ grants' = grants
      /\ lost' = [n \in Nonces |->
                   IF n \in used[r] \ s THEN lost[n] + 1 ELSE lost[n]]
      /\ backend' = backend
  BY DEF Restart, history, RollbackTxn, databases
<1>2. s \in SUBSET Nonces
  <2>1. CASE backend = "jsonl" /\ verify_chain(table)
    <3>1. table \in Seq(Frame)
      BY <2>1, VerifiedIsWhole DEF SInv, Typed
    <3>2. ASSUME NEW i \in DOMAIN table
          PROVE  ExecutionOf[table[i].id] \in Nonces \cup {None}
      <4>1. table[i] \in Frame
        BY <3>1
      <4>2. table[i].id \in FrameIds
        BY <4>1 DEF Frame
      <4> QED
        BY <4>2, ReplayConstants
    <3> QED
      BY <2>1, <3>2 DEF load_jsonl
  <2>2. CASE ~ (backend = "jsonl" /\ verify_chain(table))
    BY <2>2 DEF load_jsonl
  <2> QED
    BY <2>1, <2>2
<1> HIDE DEF s
<1>3. used' \in [Replicas -> SUBSET Nonces] /\ lost' \in [Nonces -> Nat]
  BY <1>1, <1>2 DEF MemoryInv
<1>4. ASSUME NEW m \in Nonces, backend = "jsonl"
      PROVE  grants[m] <= Cardinality(Claimants(m)') + lost'[m]
  <2>1. /\ IsFiniteSet(Claimants(m)) /\ Cardinality(Claimants(m)) \in Nat
        /\ m \in s => Claimants(m)' = Claimants(m) \cup {r}
        /\ m \notin s => Claimants(m)' = Claimants(m) \ {r}
        /\ m \in used[r] <=> r \in Claimants(m)
    BY <1>1, <1>2, ClaimantsOf
  <2>2. /\ grants[m] <= Cardinality(Claimants(m)) + lost[m]
        /\ grants[m] \in Nat /\ lost[m] \in Nat
    BY <1>4 DEF MemoryInv, SInv, Typed
  <2>3. CASE m \in s
    <3>1. Cardinality(Claimants(m)') = Cardinality(Claimants(m))
             \/ Cardinality(Claimants(m)') = Cardinality(Claimants(m)) + 1
      BY <2>1, <2>3, FS_AddElement
    <3>2. lost'[m] = lost[m]
      BY <1>1, <2>3
    <3> QED
      BY <2>1, <2>2, <3>1, <3>2
  <2>4. CASE m \notin s /\ m \in used[r]
    <3>1. Cardinality(Claimants(m)') = Cardinality(Claimants(m)) - 1
      BY <2>1, <2>4, FS_RemoveElement
    <3>2. lost'[m] = lost[m] + 1
      BY <1>1, <2>4
    <3> QED
      BY <2>1, <2>2, <3>1, <3>2
  <2>5. CASE m \notin s /\ m \notin used[r]
    <3>1. Claimants(m)' = Claimants(m)
      BY <2>1, <2>5
    <3>2. lost'[m] = lost[m]
      BY <1>1, <2>5
    <3> QED
      BY <2>2, <3>1, <3>2
  <2> QED
    BY <2>3, <2>4, <2>5
<1> QED
  BY <1>1, <1>3, <1>4 DEF MemoryInv

(* No other step claims in memory, or grants a claim on the JSONL log. *)
LEMMA OtherMemory ==
  ASSUME MemoryInv, UNCHANGED <<used, lost, backend>>,
         backend = "jsonl" => UNCHANGED grants
  PROVE  MemoryInv'
BY DEF MemoryInv, Claimants

(* Claims in memory, and what the processes and the bounds are. *)
THEOREM StoreMemory == Spec => [](MemoryInv /\ Bounded)
<1>1. Init => MemoryInv /\ Bounded
  <2> SUFFICES ASSUME Init PROVE MemoryInv /\ Bounded
    OBVIOUS
  <2>1. \A n \in Nonces : Claimants(n) = {}
    BY DEF Init, Claimants
  <2>3. Cardinality({}) = 0
    BY FS_EmptySet
  <2>4. \A n \in Nonces : grants[n] = 0 /\ lost[n] = 0
    BY DEF Init
  <2>5. used \in [Replicas -> SUBSET Nonces] /\ lost \in [Nonces -> Nat]
    BY DEF Init
  <2>2. MemoryInv
    <3>1. ASSUME NEW n \in Nonces
          PROVE  grants[n] <= Cardinality(Claimants(n)) + lost[n]
      <4>1. Cardinality(Claimants(n)) = 0
        BY <2>1, <2>3
      <4> QED
        BY <2>4, <4>1
    <3> QED
      BY <2>5, <3>1 DEF MemoryInv
  <2> QED
    BY <2>2, ReplayConstants DEF Init, Bounded
<1>2. SInv /\ MemoryInv /\ Bounded /\ [Next]_vars => MemoryInv' /\ Bounded'
  <2> SUFFICES ASSUME SInv, MemoryInv, Bounded, [Next]_vars
               PROVE  MemoryInv' /\ Bounded'
    OBVIOUS
  <2> USE ReplayConstants DEF Bounded
  <2>1. CASE UNCHANGED vars
    BY <2>1, OtherMemory DEF vars, databases, memory, sessions, history, bounds
  <2>2. ASSUME NEW r \in Replicas, NEW o, NEW id, Start(r, o, id)
        PROVE  MemoryInv' /\ Bounded'
    BY <2>2, OtherMemory
       DEF Start, Request, databases, memory, sessions, history
  <2>3. ASSUME NEW r \in Replicas, NEW id,
               AppendSqlite(r, id) \/ AppendJsonl(r, id)
        PROVE  MemoryInv' /\ Bounded'
    BY <2>3, OtherMemory
       DEF AppendSqlite, AppendJsonl, Request, Fault, memory, sessions
  <2>4. ASSUME NEW r \in Replicas, NEW o, NEW k, TrustStart(r, o, k)
        PROVE  MemoryInv' /\ Bounded'
    BY <2>4, OtherMemory
       DEF TrustStart, Request, databases, memory, sessions, history
  <2>5. ASSUME NEW r \in Replicas, TrustFails(r)
        PROVE  MemoryInv' /\ Bounded'
    BY <2>5, OtherMemory
       DEF TrustFails, RollbackTxn, Disturb, Fault, databases, memory
  <2>6. ASSUME NEW r \in Replicas, LogStep(r)
        PROVE  MemoryInv' /\ Bounded'
    <3>1. CASE Commit(r)
      <4>1. backend = "postgres"
        BY <3>1, MineFacts DEF Commit
      <4> QED
        BY <3>1, <4>1, OtherMemory
           DEF Commit, CommitTxn, Applied, Disturb, memory, bounds
    <3>2. CASE MeetsAborted(r)
      BY <3>2, OtherMemory DEF MeetsAborted, RollbackTxn, databases, memory,
                               sessions, history, bounds
    <3>3. CASE TakeLock(r) \/ _refresh(r) \/ Insert(r) \/ InsertRefused(r)
      BY <3>3, OtherMemory
         DEF TakeLock, _refresh, Insert, InsertRefused, RollbackTxn, Disturb,
             databases, memory, sessions, history, bounds
    <3> QED
      BY <2>6, <3>1, <3>2, <3>3 DEF LogStep
  <2>7. ASSUME NEW r \in Replicas, TrustStep(r)
        PROVE  MemoryInv' /\ Bounded'
    <3>1. CASE TrustCommit(r)
      BY <3>1, OtherMemory
         DEF TrustCommit, CommitTxn, Applied, Disturb, memory, bounds
    <3>2. CASE Resolve(r) \/ TrustSelect(r) \/ TrustWrite(r)
      BY <3>2, OtherMemory DEF Resolve, TrustSelect, TrustWrite, databases,
                               memory, sessions, history, bounds
    <3>3. CASE TrustRefused(r) \/ TrustMeetsAborted(r)
      BY <3>3, OtherMemory
         DEF TrustRefused, TrustMeetsAborted, RollbackTxn, Disturb, databases,
             memory, history, bounds
    <3> QED
      BY <2>7, <3>1, <3>2, <3>3 DEF TrustStep
  <2>8. ASSUME NEW r \in Replicas, StatementFails(r)
        PROVE  MemoryInv' /\ Bounded'
    BY <2>8, OtherMemory
       DEF StatementFails, RollbackTxn, AbortTxn, Disturb, Fault, databases,
           memory
  <2>9. ASSUME NEW r \in Replicas, Restart(r)
        PROVE  MemoryInv' /\ Bounded'
    <3>1. MemoryInv'
      BY <2>9, RestartMemory
    <3>2. /\ aborted' = aborted \ {r} /\ down' \in {down \ {r}, down \cup {r}}
          /\ disturbed' = disturbed /\ requests' = requests
          /\ faults < MaxFaults /\ faults' = faults + 1
      BY <2>9 DEF Restart, RollbackTxn, Fault, history
    <3> QED
      BY <3>1, <3>2
  <2>10. ASSUME NEW r \in Replicas, NEW n \in Nonces, ClaimSqlite(r, n)
         PROVE  MemoryInv' /\ Bounded'
    BY <2>10, OtherMemory DEF ClaimSqlite, Request, memory, sessions
  <2>11. ASSUME NEW r \in Replicas, NEW n \in Nonces, ClaimJsonl(r, n)
         PROVE  MemoryInv' /\ Bounded'
    <3>1. MemoryInv'
      BY <2>11, ClaimJsonlMemory
    <3>2. /\ UNCHANGED <<aborted, down, disturbed, faults>>
          /\ requests < MaxRequests /\ requests' = requests + 1
      BY <2>11 DEF ClaimJsonl, Request, sessions
    <3> QED
      BY <3>1, <3>2
  <2> QED
    BY <2>1, <2>2, <2>3, <2>4, <2>5, <2>6, <2>7, <2>8, <2>9, <2>10, <2>11
       DEF Next
<1> QED
  BY <1>1, <1>2, StoreInvariant, PTL DEF Spec

(* The stores' variables keep their types on every backend. *)
THEOREM ReplayTyped == Spec => []TypeOK
<1>1. SInv /\ MemoryInv /\ Bounded => TypeOK
  BY DEF SInv, Typed, MemoryInv, Bounded, TypeOK
<1> QED
  BY <1>1, StoreInvariant, StoreMemory, PTL

(* The shared chain never forks, on any number of processes: appends are   *)
(* serialised by the advisory lock of PostgresReplayLog.append, and in     *)
(* SQLite as long as no process appends on a head that another moved.      *)
THEOREM ReplayChainLinear == Spec => []ChainLinear
<1>1. SInv => ChainLinear
  BY DEF SInv, StoredInv, ChainLinear
<1> QED
  BY <1>1, StoreInvariant, PTL

(* What append, or claim_nonce in SQL, reported as done is in the store    *)
(* for good, and a trust key is as the last reported change left it,       *)
(* whatever fails or restarts, as long as neither store on a shared        *)
(* connection ended a transaction of the other.                            *)
THEOREM ReplayNoSilentLoss == Spec => []NoSilentLoss
<1>1. SInv => NoSilentLoss
  BY DEF SInv, StoredInv, NoSilentLoss
<1> QED
  BY <1>1, StoreInvariant, PTL

(* claim_nonce in SQL grants a nonce once, to one of any number of         *)
(* processes; on the JSONL log as often as a process held it in memory.    *)
THEOREM ReplayGrantedOnce == Spec => []GrantedOnce
<1>1. SInv /\ MemoryInv => GrantedOnce
  BY DEF SInv, StoredInv, MemoryInv, Claimants, GrantedOnce
<1> QED
  BY <1>1, StoreInvariant, StoreMemory, PTL
===============================================================================
