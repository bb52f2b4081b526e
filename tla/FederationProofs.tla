--------------------------- MODULE FederationProofs ---------------------------
(***************************************************************************)
(* Proofs about policy federation, for every number of organizations,      *)
(* policies, envelopes, keys, restarts and failed saves.                   *)
(***************************************************************************)
EXTENDS Federation, FiniteSetTheorems, TLAPS

(* The registry in memory has what the file has, with the same content. *)
MemoryCovers ==
  \A o \in Orgs, p \in Policies : file[o][p] # None =>
    registry[o][p] # None /\ registry[o][p].content = file[o][p].content

(* A reconciliation goes over the policies of its envelope; without a      *)
(* conflict, the ones that it has passed are here.                         *)
PassedIsHere ==
  \A o \in Orgs : task[o] # None =>
    /\ task[o].todo \subseteq Ids(task[o].envelope.policies)
    /\ ~task[o].conflict =>
         \A p \in Ids(task[o].envelope.policies) \ task[o].todo :
           /\ registry[o][p] # None
           /\ registry[o][p].content = task[o].envelope.policies[p].content

FInv == /\ TypeOK
        /\ IsFiniteSet(sent)
        /\ MemoryCovers
        /\ PassedIsHere
        /\ AdoptedIsDurable

(* What a step may do to a registry: entries keep their content, and their *)
(* version does not go back unless the registry is read from the file.     *)
Keeps(o) == \A p \in Policies : registry[o][p] # None =>
              /\ registry'[o][p] # None
              /\ registry'[o][p].content = registry[o][p].content
              /\ registry'[o][p].version >= registry[o][p].version

Immutable == \A o \in Orgs : \A p \in Ids(registry[o]) : registry'[o][p] # None =>
               /\ registry'[o][p].content = registry[o][p].content
               /\ registry'[o][p].version >= registry[o][p].version
                    \/ registry'[o] = file[o]

(* A registry that only gains entries, and a file that is the old one or a *)
(* copy of it, lose nothing.                                               *)
LEMMA GrowStep ==
  ASSUME FInv, TypeOK', IsFiniteSet(sent'),
         \A o \in Orgs : Keeps(o),
         \A o \in Orgs : file'[o] = file[o] \/ file'[o] = registry'[o],
         \A o \in Orgs : \A m \in adopted'[o] \ adopted[o] :
           \A p \in Ids(m.policies) :
             file'[o][p] # None /\ file'[o][p].content = m.policies[p].content,
         PassedIsHere'
  PROVE  FInv' /\ Immutable
<1>1. \A o \in Orgs, p \in Policies : file[o][p] # None =>
        file'[o][p] # None /\ file'[o][p].content = file[o][p].content
  BY DEF FInv, MemoryCovers, Keeps
<1>2. MemoryCovers'
  <2> SUFFICES ASSUME NEW o \in Orgs, NEW p \in Policies, file'[o][p] # None
               PROVE  /\ registry'[o][p] # None
                      /\ registry'[o][p].content = file'[o][p].content
    BY DEF MemoryCovers
  <2>1. CASE file'[o] = registry'[o]
    BY <2>1
  <2>2. CASE file'[o] = file[o]
    BY <2>2 DEF FInv, MemoryCovers, Keeps
  <2> QED
    BY <2>1, <2>2
<1>3. AdoptedIsDurable'
  <2> SUFFICES ASSUME NEW o \in Orgs, NEW m \in adopted'[o],
                      NEW p \in Ids(m.policies)
               PROVE  /\ file'[o][p] # None
                      /\ file'[o][p].content = m.policies[p].content
    BY DEF AdoptedIsDurable, Ids
  <2>1. p \in Policies
    BY DEF Ids
  <2> QED
    BY <1>1, <2>1 DEF FInv, AdoptedIsDurable
<1>4. Immutable
  BY DEF Immutable, Keeps, Ids
<1> QED
  BY <1>2, <1>3, <1>4 DEF FInv

(* An entry put under a new id, or one that keeps the content. *)
LEMMA RegisteredKeeps ==
  ASSUME TypeOK, NEW o \in Orgs, NEW p \in Policies, NEW e \in Entry,
         registry' = Registered(o, p, e),
         registry[o][p] # None =>
           e.content = registry[o][p].content /\ e.version > registry[o][p].version
  PROVE  /\ registry' \in [Orgs -> Registry]
         /\ \A q \in Orgs : Keeps(q)
         /\ registry'[o][p] = e
         /\ \A q \in Orgs \ {o} : registry'[q] = registry[q]
<1>1. registry' \in [Orgs -> Registry]
  BY DEF TypeOK, Registered, Registry
<1>2. \A q \in Orgs, r \in Policies :
        registry'[q][r] = IF q = o /\ r = p THEN e ELSE registry[q][r]
  BY DEF TypeOK, Registered, Registry
<1>3. \A q \in Orgs, r \in Policies : registry[q][r] # None =>
        registry[q][r].version \in 1..MaxVersion
  BY DEF TypeOK, Registry, Entry
<1>4. e.version \in 1..MaxVersion /\ e # None
  BY FederationConstants DEF Entry
<1>5. ASSUME NEW q \in Orgs PROVE Keeps(q)
  BY <1>2, <1>3, <1>4, FederationConstants DEF Keeps
<1>6. \A q \in Orgs \ {o} : registry'[q] = registry[q]
  BY DEF TypeOK, Registered, Registry
<1> QED
  BY <1>1, <1>2, <1>5, <1>6

(* A step that leaves the registries alone keeps every entry of them. *)
LEMMA KeepsUnchanged ==
  ASSUME TypeOK, UNCHANGED registry
  PROVE  \A o \in Orgs : Keeps(o)
<1>1. \A q \in Orgs, r \in Policies : registry[q][r] # None =>
        registry[q][r].version \in 1..MaxVersion
  BY DEF TypeOK, Registry, Entry
<1> QED
  BY <1>1, FederationConstants DEF Keeps

-------------------------------------------------------------------------------
(* An organization registers an entry of its own. *)
LEMMA LocalStep ==
  ASSUME FInv, NEW o \in Orgs, NEW e \in Local[o],
         register(o, e.policy, e.entry) \/ register_signed(o, e.policy, e.entry)
  PROVE  FInv' /\ Immutable
<1> DEFINE p == e.policy
<1>1. p \in Policies /\ e.entry \in Entry
  BY FederationConstants
<1>2. /\ registry' = Registered(o, p, e.entry)
      /\ task[o] = None
      /\ file' = file \/ file' = [file EXCEPT ![o] = registry'[o]]
      /\ UNCHANGED faults \/ Fault
      /\ UNCHANGED <<trusted, sent, seen, task, down, now, adopted>>
  BY DEF register, register_signed, Ready
<1>3. registry[o][p] # None => /\ e.entry.content = registry[o][p].content
                               /\ e.entry.version > registry[o][p].version
  BY DEF register, register_signed, Acceptable
<1>4. /\ registry' \in [Orgs -> Registry] /\ \A q \in Orgs : Keeps(q)
      /\ \A q \in Orgs \ {o} : registry'[q] = registry[q]
  BY <1>1, <1>2, <1>3, RegisteredKeeps DEF FInv
<1>5. /\ file' \in [Orgs -> Registry]
      /\ \A q \in Orgs : file'[q] = file[q] \/ file'[q] = registry'[q]
  BY <1>2, <1>4 DEF FInv, TypeOK
<1>6. faults' \in 0..MaxFaults
  BY <1>2, FederationConstants DEF FInv, TypeOK, Fault
<1>7. TypeOK' /\ IsFiniteSet(sent')
  BY <1>2, <1>4, <1>5, <1>6 DEF FInv, TypeOK
<1>8. PassedIsHere'
  BY <1>2, <1>4 DEF FInv, PassedIsHere
<1> QED
  BY <1>2, <1>4, <1>5, <1>7, <1>8, GrowStep

(* A step that leaves the registries and files alone. *)
LEMMA QuietStep ==
  ASSUME FInv, TypeOK', IsFiniteSet(sent'), PassedIsHere',
         UNCHANGED <<registry, file, adopted>>
  PROVE  FInv' /\ Immutable
BY KeepsUnchanged, GrowStep DEF FInv

(* Exporting a snapshot puts it in flight and changes no registry. *)
LEMMA SendStep ==
  ASSUME FInv, NEW o \in Orgs, NEW q \in Orgs, Send(o, q)
  PROVE  FInv' /\ Immutable
<1> DEFINE m == [source |-> o, target |-> q, nonce |-> Cardinality(sent) + 1,
                 issued_at |-> now, policies |-> from_registry(o)]
<1>1. /\ sent' = sent \cup {m} /\ Cardinality(sent) < MaxSent
      /\ UNCHANGED <<registry, file, trusted, seen, task, down, now, faults,
                     adopted>>
  BY DEF Send
<1>2. m \in Envelope
  <2>1. Cardinality(sent) + 1 \in 1..MaxSent
    BY <1>1, FS_CardinalityType, FederationConstants DEF FInv
  <2> QED
    BY <2>1 DEF FInv, TypeOK, Envelope, from_registry
<1>3. IsFiniteSet(sent')
  BY <1>1, FS_AddElement DEF FInv
<1>4. TypeOK'
  BY <1>1, <1>2 DEF FInv, TypeOK
<1>5. PassedIsHere'
  BY <1>1 DEF FInv, PassedIsHere
<1> QED
  BY <1>1, <1>3, <1>4, <1>5, QuietStep

(* Starting an import marks the snapshot's nonce; no entry has been passed yet. *)
LEMMA BeginStep ==
  ASSUME FInv, NEW o \in Orgs, NEW m \in sent, Begin(o, m)
  PROVE  FInv' /\ Immutable
<1> DEFINE n == IF m.policies = registry[o] THEN None
                ELSE [envelope |-> m, todo |-> Ids(m.policies),
                      conflict |-> FALSE]
<1>1. /\ seen' = [seen EXCEPT ![o] = @ \cup {ReplayKey(m)}]
      /\ task' = [task EXCEPT ![o] = n]
      /\ UNCHANGED <<registry, file, trusted, sent, down, now, faults, adopted>>
  BY DEF Begin
<1>2. m \in Envelope /\ ReplayKey(m) \in Orgs \X (1..MaxSent)
  BY DEF FInv, TypeOK, Envelope, ReplayKey
<1>3. n \in Task \cup {None} /\ Ids(m.policies) \subseteq Policies
  BY <1>2 DEF Task, Ids
<1>4. TypeOK'
  <2>1. seen' \in [Orgs -> SUBSET (Orgs \X (1..MaxSent))]
    BY <1>1, <1>2 DEF FInv, TypeOK
  <2>2. task' \in [Orgs -> Task \cup {None}]
    BY <1>1, <1>3 DEF FInv, TypeOK
  <2> QED
    BY <1>1, <2>1, <2>2 DEF FInv, TypeOK
<1>5. PassedIsHere'
  <2>1. task'[o] = n /\ \A q \in Orgs \ {o} : task'[q] = task[q]
    BY <1>1 DEF FInv, TypeOK
  <2> QED
    BY <1>1, <2>1 DEF FInv, PassedIsHere
<1>6. IsFiniteSet(sent')
  BY <1>1 DEF FInv
<1> QED
  BY <1>1, <1>4, <1>5, <1>6, QuietStep

(* The end of a reconciliation that leaves no trace in the registry. *)
LEMMA EndedStep ==
  ASSUME FInv, NEW o \in Orgs, task' = [task EXCEPT ![o] = None],
         UNCHANGED <<registry, file, trusted, sent, seen, down, now, adopted>>,
         UNCHANGED faults \/ Fault
  PROVE  FInv' /\ Immutable
<1>1. faults' \in 0..MaxFaults
  BY FederationConstants DEF FInv, TypeOK, Fault
<1>2. TypeOK' /\ IsFiniteSet(sent')
  BY <1>1 DEF FInv, TypeOK
<1>3. task'[o] = None /\ \A q \in Orgs \ {o} : task'[q] = task[q]
  BY DEF FInv, TypeOK
<1>4. PassedIsHere'
  BY <1>3 DEF FInv, PassedIsHere
<1> QED
  BY <1>2, <1>4, QuietStep

(* A pass of the loop that goes on to the next policy. *)
LEMMA AdvanceFacts ==
  ASSUME TypeOK, NEW o \in Orgs, task[o] # None, NEW p \in Policies,
         NEW conflict \in BOOLEAN, Advance(o, p, conflict)
  PROVE  /\ task' \in [Orgs -> Task \cup {None}]
         /\ task'[o].envelope = task[o].envelope
         /\ task'[o].todo = task[o].todo \ {p}
         /\ task'[o].conflict = (task[o].conflict \/ conflict)
         /\ \A q \in Orgs \ {o} : task'[q] = task[q]
<1> DEFINE a == task[o]
           n == [envelope |-> a.envelope, todo |-> a.todo \ {p},
                 conflict |-> a.conflict \/ conflict]
<1>1. a \in Task
  BY DEF TypeOK
<1>2. n \in Task
  BY <1>1 DEF Task
<1>3. task' = [task EXCEPT ![o] = n]
  BY DEF Advance
<1> QED
  BY <1>2, <1>3 DEF TypeOK

(* One entry of an import: kept, adopted, or found in conflict. *)
LEMMA ReconcileStep ==
  ASSUME FInv, NEW o \in Orgs, NEW p \in Policies, Reconcile(o, p)
  PROVE  FInv' /\ Immutable
<1> DEFINE a == task[o]
           e == Remote(o, p)
<1>1. /\ a # None /\ p \in a.todo
      /\ UNCHANGED <<trusted, sent, seen, down, now, adopted>>
  BY DEF Reconcile
<1>2. /\ a \in Task /\ a.envelope.policies \in Registry
      /\ e = a.envelope.policies[p]
  BY <1>1 DEF FInv, TypeOK, Task, Envelope, Remote
<1>3. ASSUME NEW conflict \in BOOLEAN, Advance(o, p, conflict),
             \A q \in Orgs : Keeps(q),
             ~conflict /\ e # None =>
               registry'[o][p] # None /\ registry'[o][p].content = e.content
      PROVE  PassedIsHere' /\ task' \in [Orgs -> Task \cup {None}]
  <2>1. /\ task' \in [Orgs -> Task \cup {None}]
        /\ task'[o].envelope = a.envelope
        /\ task'[o].todo = a.todo \ {p}
        /\ task'[o].conflict = (a.conflict \/ conflict)
        /\ \A q \in Orgs \ {o} : task'[q] = task[q]
    BY <1>1, <1>3, AdvanceFacts DEF FInv
  <2>2. ASSUME NEW q \in Orgs, task'[q] # None, ~task'[q].conflict,
               NEW r \in Ids(task'[q].envelope.policies) \ task'[q].todo
        PROVE  /\ registry'[q][r] # None
               /\ registry'[q][r].content = task'[q].envelope.policies[r].content
    <3>1. r \in Policies
      BY DEF Ids
    <3>2. CASE q # o
      BY <1>3, <2>1, <2>2, <3>1, <3>2 DEF FInv, PassedIsHere, Keeps
    <3>3. CASE q = o /\ r # p
      <4>1. /\ task'[q].envelope = a.envelope /\ ~a.conflict
            /\ r \in Ids(a.envelope.policies) \ a.todo
        BY <2>1, <2>2, <3>3
      <4>2. /\ registry[o][r] # None
            /\ registry[o][r].content = a.envelope.policies[r].content
        BY <1>1, <4>1 DEF FInv, PassedIsHere
      <4>3. Keeps(o)
        BY <1>3
      <4>4. registry'[o][r] # None /\ registry'[o][r].content = registry[o][r].content
        BY <3>1, <4>2, <4>3 DEF Keeps
      <4> QED
        BY <3>3, <4>1, <4>2, <4>4
    <3>4. CASE q = o /\ r = p
      BY <1>2, <1>3, <2>1, <2>2, <3>4 DEF Ids
    <3> QED
      BY <3>2, <3>3, <3>4
  <2>3. ASSUME NEW q \in Orgs, task'[q] # None
        PROVE  task'[q].todo \subseteq Ids(task'[q].envelope.policies)
    BY <1>1, <2>1, <2>3 DEF FInv, PassedIsHere
  <2> QED
    BY <2>1, <2>2, <2>3 DEF PassedIsHere
<1>4. CASE Keep(o, p)
  <2>1. /\ registry[o][p] # None
        /\ Advance(o, p, registry[o][p].content # e.content)
        /\ UNCHANGED <<registry, file, faults>>
    BY <1>4 DEF Keep
  <2>2. \A q \in Orgs : Keeps(q)
    BY <2>1, KeepsUnchanged DEF FInv
  <2>3. PassedIsHere' /\ task' \in [Orgs -> Task \cup {None}]
    BY <1>3, <2>1, <2>2
  <2>4. TypeOK' /\ IsFiniteSet(sent')
    BY <1>1, <2>1, <2>3 DEF FInv, TypeOK
  <2> QED
    BY <1>1, <2>1, <2>3, <2>4, QuietStep
<1>5. CASE RefuseNew(o, p)
  BY <1>1, <1>5, EndedStep DEF RefuseNew
<1>6. CASE ImportNew(o, p)
  <2>1. /\ registry[o][p] = None /\ e.signer # None
        /\ e.signer \in trusted[o]
        /\ registry' = Registered(o, p, e)
        /\ \/ /\ file' = [file EXCEPT ![o] = registry'[o]]
              /\ Advance(o, p, FALSE)
              /\ UNCHANGED faults
           \/ /\ Fault
              /\ task' = [task EXCEPT ![o] = None]
              /\ UNCHANGED file
    BY <1>6 DEF ImportNew, Acceptable
  <2>2. e \in Entry
    BY <1>1, <1>2 DEF FInv, PassedIsHere, Ids, Registry
  <2>3. /\ registry' \in [Orgs -> Registry] /\ \A q \in Orgs : Keeps(q)
        /\ registry'[o][p] = e
    BY <2>1, <2>2, RegisteredKeeps DEF FInv
  <2>4. e # None
    BY <2>2, FederationConstants
  <2>5. /\ file' \in [Orgs -> Registry]
        /\ \A q \in Orgs : file'[q] = file[q] \/ file'[q] = registry'[q]
    BY <2>1, <2>3 DEF FInv, TypeOK
  <2>6. faults' \in 0..MaxFaults
    <3>1. UNCHANGED faults \/ Fault
      BY <2>1
    <3> QED
      BY <3>1, FederationConstants DEF FInv, TypeOK, Fault
  <2>7. PassedIsHere' /\ task' \in [Orgs -> Task \cup {None}]
    <3>1. CASE Advance(o, p, FALSE)
      BY <1>3, <2>3, <2>4, <3>1
    <3>2. CASE task' = [task EXCEPT ![o] = None]
      <4>1. task'[o] = None /\ \A q \in Orgs \ {o} : task'[q] = task[q]
        BY <3>2 DEF FInv, TypeOK
      <4>2. task' \in [Orgs -> Task \cup {None}]
        BY <3>2 DEF FInv, TypeOK
      <4>3. ASSUME NEW q \in Orgs, task'[q] # None, ~task'[q].conflict,
                   NEW r \in Ids(task'[q].envelope.policies) \ task'[q].todo
            PROVE  /\ registry'[q][r] # None
                   /\ registry'[q][r].content
                        = task'[q].envelope.policies[r].content
        <5>1. r \in Policies /\ task'[q] = task[q]
          BY <4>1, <4>3 DEF Ids
        <5> QED
          BY <2>3, <4>3, <5>1 DEF FInv, PassedIsHere, Keeps
      <4>4. ASSUME NEW q \in Orgs, task'[q] # None
            PROVE  task'[q].todo \subseteq Ids(task'[q].envelope.policies)
        BY <4>1, <4>4 DEF FInv, PassedIsHere
      <4> QED
        BY <4>2, <4>3, <4>4 DEF PassedIsHere
    <3> QED
      BY <2>1, <3>1, <3>2
  <2>8. TypeOK' /\ IsFiniteSet(sent')
    BY <1>1, <2>3, <2>5, <2>6, <2>7 DEF FInv, TypeOK
  <2> QED
    BY <1>1, <2>3, <2>5, <2>7, <2>8, GrowStep
<1> QED
  BY <1>4, <1>5, <1>6 DEF Reconcile

(* "adopted" is reported once the file holds every policy of the snapshot. *)
LEMMA AdoptStep ==
  ASSUME FInv, NEW o \in Orgs, Adopt(o)
  PROVE  FInv' /\ Immutable
<1> DEFINE a == task[o]
<1>1. /\ a # None /\ a.todo = {} /\ ~a.conflict
      /\ task' = [task EXCEPT ![o] = None]
      /\ UNCHANGED <<registry, trusted, sent, seen, down, now>>
  BY DEF Adopt
<1>2. CASE Fault /\ UNCHANGED <<file, adopted>>
  BY <1>1, <1>2, EndedStep
<1>3. CASE /\ file' = [file EXCEPT ![o] = registry[o]]
           /\ adopted' = [adopted EXCEPT ![o] = @ \cup {a.envelope}]
           /\ UNCHANGED faults
  <2>1. a \in Task /\ a.envelope \in Envelope
    BY <1>1 DEF FInv, TypeOK, Task
  <2>2. \A p \in Ids(a.envelope.policies) :
          /\ registry[o][p] # None
          /\ registry[o][p].content = a.envelope.policies[p].content
    BY <1>1 DEF FInv, PassedIsHere
  <2>3. /\ file' \in [Orgs -> Registry] /\ file'[o] = registry[o]
        /\ \A q \in Orgs : file'[q] = file[q] \/ file'[q] = registry'[q]
    BY <1>1, <1>3 DEF FInv, TypeOK
  <2>4. adopted' \in [Orgs -> SUBSET Envelope]
    BY <1>3, <2>1 DEF FInv, TypeOK
  <2>5. \A q \in Orgs : \A m \in adopted'[q] \ adopted[q] :
          q = o /\ m = a.envelope
    BY <1>3 DEF FInv, TypeOK
  <2>6. /\ task' \in [Orgs -> Task \cup {None}] /\ task'[o] = None
        /\ \A q \in Orgs \ {o} : task'[q] = task[q]
    BY <1>1 DEF FInv, TypeOK
  <2>7. TypeOK' /\ IsFiniteSet(sent')
    BY <1>1, <1>3, <2>3, <2>4, <2>6 DEF FInv, TypeOK
  <2>8. PassedIsHere'
    BY <1>1, <2>6 DEF FInv, PassedIsHere
  <2>9. \A q \in Orgs : Keeps(q)
    BY <1>1, KeepsUnchanged DEF FInv
  <2> QED
    BY <2>2, <2>3, <2>5, <2>7, <2>8, <2>9, GrowStep
<1> QED
  BY <1>2, <1>3 DEF Adopt

(* A restart reads the file, or refuses to. *)
LEMMA RestartStep ==
  ASSUME FInv, NEW o \in Orgs, Restart(o)
  PROVE  FInv' /\ Immutable
<1>1. /\ UNCHANGED <<file, trusted, sent, now, adopted>>
      /\ registry' = registry \/ registry' = [registry EXCEPT ![o] = file[o]]
      /\ down' \subseteq Orgs
      /\ seen' = [seen EXCEPT ![o] = {}]
      /\ task' = [task EXCEPT ![o] = None]
      /\ Fault
  BY DEF Restart, FInv, TypeOK
<1>2. faults' \in 0..MaxFaults
  BY <1>1, FederationConstants DEF FInv, TypeOK, Fault
<1>3. TypeOK' /\ IsFiniteSet(sent')
  <2>1. registry' \in [Orgs -> Registry]
    BY <1>1 DEF FInv, TypeOK
  <2>2. /\ seen' \in [Orgs -> SUBSET (Orgs \X (1..MaxSent))]
        /\ task' \in [Orgs -> Task \cup {None}]
    BY <1>1 DEF FInv, TypeOK
  <2> QED
    BY <1>1, <1>2, <2>1, <2>2 DEF FInv, TypeOK
<1>4. /\ registry'[o] \in {registry[o], file[o]}
      /\ \A q \in Orgs \ {o} : registry'[q] = registry[q]
      /\ task'[o] = None /\ \A q \in Orgs \ {o} : task'[q] = task[q]
  BY <1>1 DEF FInv, TypeOK
<1>5. MemoryCovers'
  BY <1>1, <1>4 DEF FInv, MemoryCovers
<1>6. PassedIsHere'
  BY <1>4 DEF FInv, PassedIsHere
<1>7. AdoptedIsDurable'
  BY <1>1 DEF FInv, AdoptedIsDurable
<1>8. Immutable
  <2> SUFFICES ASSUME NEW q \in Orgs, NEW p \in Ids(registry[q]),
                      registry'[q][p] # None
               PROVE  /\ registry'[q][p].content = registry[q][p].content
                      /\ \/ registry'[q][p].version >= registry[q][p].version
                         \/ registry'[q] = file[q]
    BY DEF Immutable
  <2>1. p \in Policies /\ registry[q][p] # None
    BY DEF Ids
  <2>2. registry[q][p].version \in Nat
    BY <2>1, FederationConstants DEF FInv, TypeOK, Registry, Entry
  <2> QED
    BY <1>4, <2>1, <2>2 DEF FInv, MemoryCovers
<1> QED
  BY <1>3, <1>5, <1>6, <1>7, <1>8 DEF FInv

-------------------------------------------------------------------------------
(* Every step keeps the invariant and rewrites no entry. *)
LEMMA FederationStep ==
  ASSUME FInv, [Next]_vars
  PROVE  FInv' /\ Immutable
<1>1. ASSUME NEW o \in Orgs, Conflicted(o) PROVE FInv' /\ Immutable
  BY <1>1, EndedStep DEF Conflicted
<1>2. CASE \/ \E o \in Orgs, k \in Keys : RevokeTrust(o, k)
           \/ Tick
           \/ UNCHANGED vars
  <2>1. UNCHANGED <<registry, file, sent, seen, task, down, faults, adopted>>
    BY <1>2 DEF RevokeTrust, Tick, vars
  <2>2. trusted' \in [Orgs -> SUBSET Keys] /\ now' \in 0..MaxTime
    BY <1>2, FederationConstants DEF RevokeTrust, Tick, vars, FInv, TypeOK
  <2>3. TypeOK' /\ IsFiniteSet(sent')
    BY <2>1, <2>2 DEF FInv, TypeOK
  <2>4. PassedIsHere'
    BY <2>1 DEF FInv, PassedIsHere
  <2> QED
    BY <2>1, <2>3, <2>4, QuietStep
<1> QED
  BY <1>1, <1>2, LocalStep, SendStep, BeginStep, ReconcileStep, AdoptStep,
     RestartStep DEF Next

(* The inductive invariant holds of every reachable state. *)
LEMMA FederationInvariant == Spec => []FInv
<1>1. Init => FInv
  <2> SUFFICES ASSUME Init PROVE FInv
    OBVIOUS
  <2>1. EmptyRegistry \in Registry
    BY DEF EmptyRegistry, Registry
  <2>2. TypeOK
    BY <2>1, FederationConstants DEF Init, TypeOK
  <2>3. IsFiniteSet(sent)
    BY FS_EmptySet DEF Init
  <2>4. MemoryCovers /\ PassedIsHere /\ AdoptedIsDurable
    BY DEF Init, MemoryCovers, PassedIsHere, AdoptedIsDurable, EmptyRegistry
  <2> QED
    BY <2>2, <2>3, <2>4 DEF FInv
<1>2. FInv /\ [Next]_vars => FInv'
  BY FederationStep
<1> QED
  BY <1>1, <1>2, PTL DEF Spec

(* The variables keep their types. *)
THEOREM FederationTyped == Spec => []TypeOK
<1>1. FInv => TypeOK
  BY DEF FInv
<1> QED
  BY <1>1, FederationInvariant, PTL

(* A snapshot that reconcile reports "adopted" is in the file for good. *)
THEOREM FederationAdopted == Spec => []AdoptedIsDurable
<1>1. FInv => AdoptedIsDurable
  BY DEF FInv
<1> QED
  BY <1>1, FederationInvariant, PTL

(* An adopted envelope that is delivered again after a restart finds all   *)
(* its policies here.                                                      *)
THEOREM FederationReplay == Spec => []ReplayImportsNothing
<1>1. FInv => ReplayImportsNothing
  BY DEF FInv, MemoryCovers, AdoptedIsDurable, ReplayImportsNothing, Ids
<1> QED
  BY <1>1, FederationInvariant, PTL

(* The content under a policy id never changes. *)
THEOREM FederationImmutable == Spec => ImmutableById
<1>1. FInv /\ [Next]_vars =>
        [\A o \in Orgs : \A p \in Ids(registry[o]) : registry'[o][p] # None =>
           /\ registry'[o][p].content = registry[o][p].content
           /\ registry'[o][p].version >= registry[o][p].version
                \/ registry'[o] = file[o]]_vars
  BY FederationStep DEF Immutable
<1> QED
  BY <1>1, FederationInvariant, PTL DEF Spec, ImmutableById

===============================================================================
