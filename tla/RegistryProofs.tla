---------------------------- MODULE RegistryProofs ----------------------------
(***************************************************************************)
(* Proofs about the key lifecycle and the versioned policy registry, for   *)
(* every number of keys, versions, processes, requests and faults.         *)
(***************************************************************************)
EXTENDS PolicyRegistry, SequenceTheorems, TLAPS

-------------------------------------------------------------------------------
(* The key lifecycle.  What the operation in progress has done already is  *)
(* what makes the row it is about to write true: a key is marked REVOKED   *)
(* after both stores of trust have it revoked, and a row appears after     *)
(* both trust the key.                                                     *)
OpInv ==
  /\ keyOp.step = "mark" =>
       /\ keyOp.key \in trust.revoked
       /\ keyOp.key \in trustFile.revoked
       /\ keyOp.key \in asked
  /\ keyOp.step = "insert" =>
       /\ resolve(trust, keyOp.key)
       /\ resolve(trustFile, keyOp.key)
       /\ rows[keyOp.key] = None
       /\ keyOp.old # None => rows[keyOp.old] = "ACTIVE"
  /\ keyOp.step = "rotate" => rows[keyOp.key] = "ACTIVE"

KeyInv == KeyTypeOK /\ RevokedIsUntrusted /\ ListedIsTrusted /\ OpInv

(* A row that is REVOKED stays so. *)
RevokedRowsStay == \A k \in Keys : rows[k] = "REVOKED" => rows'[k] = "REVOKED"

(* Adding a key that has no row, with the file written or not. *)
LEMMA RegisterStep ==
  ASSUME KeyInv, NEW k \in Keys, NEW old \in Keys \cup {None},
         old # None => rows[old] = "ACTIVE",
         register(k, old)
  PROVE  KeyInv' /\ RevokedRowsStay
<1> USE KeyConstants DEF Status
<1> DEFINE new == [known |-> trust.known \cup {k},
                   revoked |-> trust.revoked \ {k}]
<1>1. /\ trust' = new /\ rows' = rows /\ asked' = asked /\ rows[k] = None
      /\ requests' = requests + 1 /\ requests < MaxRequests
  BY DEF register, addTrust, Store, Request
<1>2. new \in TrustState /\ resolve(new, k)
  BY DEF KeyInv, KeyTypeOK, TrustState, resolve
<1>3. \/ /\ trustFile' = new /\ UNCHANGED faults
         /\ keyOp' = [step |-> "insert", key |-> k, old |-> old]
      \/ UNCHANGED trustFile /\ keyOp' = Idle /\ Fault
  BY DEF register, addTrust, Store
<1>4. KeyTypeOK'
  <2>1. trustFile' \in TrustState
    BY <1>2, <1>3 DEF KeyInv, KeyTypeOK
  <2>3. keyOp' \in KeyOps
    BY <1>3 DEF KeyOps
  <2>2. faults' \in 0..MaxFaults /\ requests' \in 0..MaxRequests
    BY <1>1, <1>3 DEF KeyInv, KeyTypeOK, Fault
  <2> QED
    BY <1>1, <1>2, <2>1, <2>2, <2>3 DEF KeyInv, KeyTypeOK
<1>5. \A j \in Keys : rows[j] # None => j # k
  BY <1>1
<1>6. RevokedIsUntrusted'
  BY <1>1, <1>3, <1>5 DEF KeyInv, RevokedIsUntrusted
<1>7. ListedIsTrusted'
  BY <1>1, <1>3, <1>5 DEF KeyInv, ListedIsTrusted, trust_list, resolve
<1>8. OpInv'
  <2>1. CASE trustFile' = new /\ keyOp' = [step |-> "insert", key |-> k, old |-> old]
    <3>1. resolve(trust', k) /\ resolve(trustFile', k) /\ rows'[k] = None
      BY <1>1, <1>2, <2>1
    <3>2. old # None => rows'[old] = "ACTIVE"
      BY <1>1
    <3> QED
      BY <2>1, <3>1, <3>2 DEF OpInv
  <2>2. CASE keyOp' = Idle
    BY <2>2 DEF OpInv, Idle
  <2> QED
    BY <1>3, <2>1, <2>2
<1> QED
  BY <1>1, <1>4, <1>6, <1>7, <1>8 DEF KeyInv, RevokedRowsStay

(* Revoking a key in the trust store, with the file written or not. *)
LEMMA RevokeKeyStep ==
  ASSUME KeyInv, NEW k \in Keys, RevokeKey(k)
  PROVE  KeyInv' /\ RevokedRowsStay
<1> USE KeyConstants DEF Status
<1> DEFINE new == [trust EXCEPT !.revoked = @ \cup {k}]
<1>1. /\ trust' = new /\ rows' = rows /\ asked' = asked \cup {k}
      /\ requests' = requests + 1 /\ requests < MaxRequests
  BY DEF RevokeKey, revokeTrust, Store, Request
<1>2. /\ new \in TrustState
      /\ new.known = trust.known
      /\ new.revoked = trust.revoked \cup {k}
  BY DEF KeyInv, KeyTypeOK, TrustState
<1>3. \/ /\ trustFile' = new /\ UNCHANGED faults
         /\ keyOp' = [step |-> "mark", key |-> k]
      \/ UNCHANGED trustFile /\ keyOp' = Idle /\ Fault
  BY DEF RevokeKey, revokeTrust, Store
<1>4. KeyTypeOK'
  <2>1. trustFile' \in TrustState
    BY <1>2, <1>3 DEF KeyInv, KeyTypeOK
  <2>3. keyOp' \in KeyOps
    BY <1>3 DEF KeyOps
  <2>2. faults' \in 0..MaxFaults /\ requests' \in 0..MaxRequests
    BY <1>1, <1>3 DEF KeyInv, KeyTypeOK, Fault
  <2> QED
    BY <1>1, <1>2, <2>1, <2>2, <2>3 DEF KeyInv, KeyTypeOK
<1>6. RevokedIsUntrusted'
  BY <1>1, <1>2, <1>3 DEF KeyInv, RevokedIsUntrusted
<1>7. ListedIsTrusted'
  BY <1>1, <1>2, <1>3 DEF KeyInv, ListedIsTrusted, trust_list, resolve
<1>8. OpInv'
  <2>1. CASE trustFile' = new /\ keyOp' = [step |-> "mark", key |-> k]
    <3>1. k \in trust'.revoked /\ k \in trustFile'.revoked /\ k \in asked'
      BY <1>1, <1>2, <2>1
    <3> QED
      BY <2>1, <3>1 DEF OpInv
  <2>2. CASE keyOp' = Idle
    BY <2>2 DEF OpInv, Idle
  <2> QED
    BY <1>3, <2>1, <2>2
<1> QED
  BY <1>1, <1>4, <1>6, <1>7, <1>8 DEF KeyInv, RevokedRowsStay

(* The row that ends an operation. *)
LEMMA RowStep ==
  ASSUME KeyInv, InsertRow \/ UpdateRow
  PROVE  KeyInv' /\ RevokedRowsStay
<1> USE KeyConstants DEF Status
<1> DEFINE k == keyOp.key
<1>1. UNCHANGED <<trust, trustFile, asked, requests, faults>>
  BY DEF InsertRow, UpdateRow
<1>2. CASE InsertRow
  <2>1. k \in Keys /\ keyOp.old \in Keys \cup {None}
    BY <1>2 DEF InsertRow, KeyInv, KeyTypeOK, KeyOps, Idle
  <2>2. /\ rows' = [rows EXCEPT ![k] = "ACTIVE"]
        /\ rows[k] = None
        /\ resolve(trust, k) /\ resolve(trustFile, k)
        /\ keyOp.old # None => rows[keyOp.old] = "ACTIVE"
        /\ keyOp' = IF keyOp.old = None THEN Idle
                    ELSE [step |-> "rotate", key |-> keyOp.old]
    BY <1>2 DEF InsertRow, KeyInv, OpInv
  <2>3. KeyTypeOK'
    BY <1>1, <2>1, <2>2 DEF KeyInv, KeyTypeOK, KeyOps, Status
  <2>4. RevokedIsUntrusted' /\ ListedIsTrusted' /\ RevokedRowsStay
    BY <1>1, <2>1, <2>2
       DEF KeyInv, KeyTypeOK, RevokedIsUntrusted, ListedIsTrusted, trust_list,
           resolve, RevokedRowsStay
  <2>5. OpInv'
    <3>1. CASE keyOp.old = None
      BY <2>2, <3>1 DEF OpInv, Idle
    <3>2. CASE keyOp.old # None
      <4>1. rows'[keyOp.old] = "ACTIVE"
        BY <2>1, <2>2, <3>2 DEF KeyInv, KeyTypeOK
      <4> QED
        BY <2>2, <3>2, <4>1 DEF OpInv
    <3> QED
      BY <3>1, <3>2
  <2> QED
    BY <2>3, <2>4, <2>5 DEF KeyInv
<1>3. CASE UpdateRow
  <2>1. k \in Keys
    BY <1>3 DEF UpdateRow, KeyInv, KeyTypeOK, KeyOps, Idle
  <2>2. /\ keyOp' = Idle
        /\ rows' = [rows EXCEPT ![k] =
                      IF keyOp.step = "rotate" THEN "ROTATED" ELSE "REVOKED"]
        /\ \/ keyOp.step = "rotate" /\ rows[k] = "ACTIVE"
           \/ /\ keyOp.step = "mark" /\ k \in trust.revoked
              /\ k \in trustFile.revoked /\ k \in asked
    BY <1>3 DEF UpdateRow, KeyInv, OpInv
  <2>3. KeyTypeOK'
    BY <1>1, <2>1, <2>2 DEF KeyInv, KeyTypeOK, KeyOps, Status
  <2>4. RevokedIsUntrusted' /\ ListedIsTrusted' /\ RevokedRowsStay
    BY <1>1, <2>1, <2>2
       DEF KeyInv, KeyTypeOK, RevokedIsUntrusted, ListedIsTrusted, trust_list,
           resolve, RevokedRowsStay
  <2>5. OpInv'
    BY <2>2 DEF OpInv, Idle
  <2> QED
    BY <2>3, <2>4, <2>5 DEF KeyInv
<1> QED
  BY <1>2, <1>3

(* The end of an operation, and a restart from the file. *)
LEMMA KeyFaultStep ==
  ASSUME KeyInv, RowFails \/ KeyRestart
  PROVE  KeyInv' /\ RevokedRowsStay
<1>1. /\ keyOp' = Idle /\ trust' \in {trust, trustFile}
      /\ UNCHANGED <<trustFile, rows, asked, requests>> /\ Fault
  BY DEF RowFails, KeyRestart
<1>2. faults' \in 0..MaxFaults
  BY <1>1, KeyConstants DEF Fault, KeyInv, KeyTypeOK
<1>3. KeyTypeOK'
  BY <1>1, <1>2 DEF KeyInv, KeyTypeOK, KeyOps
<1>4. RevokedIsUntrusted' /\ ListedIsTrusted' /\ OpInv'
  BY <1>1 DEF KeyInv, RevokedIsUntrusted, ListedIsTrusted, trust_list,
              resolve, OpInv, Idle
<1> QED
  BY <1>1, <1>3, <1>4 DEF KeyInv, RevokedRowsStay

(* The steps that use up a request or a fault for something else. *)
LEMMA KeyQuietStep ==
  ASSUME KeyInv, UNCHANGED keyStores,
         UNCHANGED requests \/ Request, UNCHANGED faults \/ Fault
  PROVE  KeyInv' /\ RevokedRowsStay
<1>1. requests' \in 0..MaxRequests /\ faults' \in 0..MaxFaults
  BY KeyConstants DEF KeyInv, KeyTypeOK, Request, Fault
<1>2. KeyTypeOK'
  BY <1>1 DEF KeyInv, KeyTypeOK, keyStores
<1>3. RevokedIsUntrusted' /\ ListedIsTrusted' /\ OpInv' /\ RevokedRowsStay
  BY DEF KeyInv, RevokedIsUntrusted, ListedIsTrusted, trust_list, resolve,
         OpInv, keyStores, RevokedRowsStay
<1> QED
  BY <1>2, <1>3 DEF KeyInv

(* Every step of the key lifecycle keeps its invariant, and REVOKED rows stay. *)
LEMMA KeyStepInv ==
  ASSUME KeyInv, KeyStep
  PROVE  KeyInv' /\ RevokedRowsStay
<1>1. ASSUME NEW k \in Keys, RegisterKey(k) PROVE KeyInv' /\ RevokedRowsStay
  BY <1>1, RegisterStep DEF RegisterKey
<1>2. ASSUME NEW old \in Keys, NEW new \in Keys, RotateKey(old, new)
      PROVE  KeyInv' /\ RevokedRowsStay
  BY <1>2, RegisterStep DEF RotateKey
<1> QED
  BY <1>1, <1>2, RevokeKeyStep, RowStep, KeyFaultStep DEF KeyStep

(* The key lifecycle starts in its invariant. *)
LEMMA KeyInitInv ==
  ASSUME KeyInit PROVE KeyInv
<1>1. KeyTypeOK
  BY KeyConstants DEF KeyInit, KeyTypeOK, TrustState, Status, KeyOps
<1>2. RevokedIsUntrusted /\ ListedIsTrusted /\ OpInv
  BY KeyConstants DEF Status, KeyInit, RevokedIsUntrusted, ListedIsTrusted, trust_list,
                      resolve, OpInv, Idle
<1> QED
  BY <1>1, <1>2 DEF KeyInv

-------------------------------------------------------------------------------
(* The registry.  A version without a record is PUBLISHED everywhere (that *)
(* is how an unknown version reads), so is one that its process is about   *)
(* to put, and what an operation or the history says was revoked is        *)
(* REVOKED in the memory of its process.                                   *)
LifecycleInv ==
  /\ \A v \in Versions : records[v] = None =>
       /\ file.states[v] = "PUBLISHED"
       /\ \A p \in Processes : mem[p].states[v] = "PUBLISHED"
  /\ \A p \in Processes :
       /\ op[p].step = "put" => mem[p].states[op[p].version] = "PUBLISHED"
       /\ op[p].step = "save" =>
            \A v \in op[p].revoked : mem[p].states[v] = "REVOKED"
       /\ \A v \in standing[p] : /\ file.states[v] = "REVOKED"
                                 /\ mem[p].states[v] = "REVOKED"

(* The keys that were revoked when a reader began are so still. *)
KnownRevoked(p) == IF p = Admin THEN {k \in Keys : rows[k] = "REVOKED"}
                   ELSE loaded[p].revoked

ReaderInv ==
  \A p \in Processes :
    LET r == reader[p]
    IN  /\ r.step # "idle" =>
             /\ r.version \in Versions
             /\ \A v \in r.revokedVersions : mem[p].states[v] = "REVOKED"
             /\ r.revokedKeys \subseteq KnownRevoked(p)
        /\ r.step \in {"verify", "get"} =>
             /\ records[r.version] # None
             /\ r.version \notin r.revokedVersions
        /\ r.step = "get" =>
             records[r.version].signer \notin r.revokedKeys \cup {None}

RegistryTypeOK ==
  /\ records \in [Versions -> StoredPolicy \cup {None}]
  /\ file \in Snapshot
  /\ loaded \in [Processes -> TrustState]
  /\ mem \in [Processes -> Snapshot]
  /\ op \in [Processes -> Ops]
  /\ reader \in [Processes -> Reader]
  /\ standing \in [Processes -> SUBSET Versions]

RInv == /\ KeyInv
        /\ RegistryTypeOK
        /\ SelectionCoherent
        /\ LifecycleInv
        /\ ReaderInv

(* What a step does to the memory of a process, as far as REVOKED goes. *)
Final(p) == \A v \in Versions :
              mem[p].states[v] = "REVOKED" => mem'[p].states[v] = "REVOKED"

(* What a step may do to the records: they appear, they are damaged, and   *)
(* they keep their signer.                                                 *)
RecordsGrow ==
  \A v \in Versions : records[v] # None =>
    records'[v] # None /\ records'[v].signer = records[v].signer

(* The blank selection is not a version. *)
LEMMA BlankIsNoVersion == Blank \notin Versions
BY RegistryConstants DEF Blank

(* Activation keeps a snapshot well typed and coherent, and revives no     *)
(* revoked version.                                                        *)
LEMMA SelectedFacts ==
  ASSUME NEW m \in Snapshot, Coherent(m), NEW v \in Versions, Activatable(m, v)
  PROVE  /\ Selected(m, v) \in Snapshot
         /\ Coherent(Selected(m, v))
         /\ \A w \in Versions : m.states[w] = "REVOKED" =>
              Selected(m, v).states[w] = "REVOKED"
         /\ \A w \in Versions : w # v /\ m.states[w] = "PUBLISHED" =>
              Selected(m, v).states[w] = "PUBLISHED"
<1> DEFINE e == [previous |-> m.active, selected |-> v,
                 revision |-> m.revision + 1]
           s == Selected(m, v)
<1>1. /\ m.history \in Seq(Event) /\ m.revision \in Nat
      /\ m.active \in Versions \cup {Blank}
      /\ m.states \in [Versions -> Lifecycle]
  BY DEF Snapshot
<1>2. e \in Event
  BY <1>1 DEF Event
<1>3. /\ s.states = [w \in Versions |-> CASE w = v -> "ACTIVE"
                                          [] w = m.active -> "PUBLISHED"
                                          [] OTHER -> m.states[w]]
      /\ s.active = v
      /\ s.revision = m.revision + 1
      /\ s.history = Append(m.history, e)
  BY DEF Selected
<1>4. /\ s.history \in Seq(Event)
      /\ Len(s.history) = Len(m.history) + 1
      /\ s.history[Len(s.history)] = e
      /\ s.history # <<>>
  <2>1. s.history \in Seq(Event) /\ Len(s.history) = Len(m.history) + 1
    BY <1>1, <1>2, <1>3
  <2>2. s.history[Len(m.history) + 1] = e
    BY <1>1, <1>2, <1>3
  <2>3. Len(m.history) \in Nat /\ Len(s.history) # 0
    BY <1>1, <2>1
  <2> QED
    BY <2>1, <2>2, <2>3
<1>5. s.states \in [Versions -> Lifecycle]
  BY <1>1, <1>3 DEF Lifecycle
<1>6. s \in Snapshot
  BY <1>1, <1>3, <1>4, <1>5 DEF Snapshot, Selected
<1>7. Coherent(s)
  <2>1. \A w \in Versions : s.states[w] = "ACTIVE" <=> s.active = w
    BY <1>1, <1>3 DEF Coherent, Activatable
  <2> QED
    BY <1>3, <1>4, <2>1 DEF Coherent
<1>8. \A w \in Versions : m.states[w] = "REVOKED" => w # v /\ w # m.active
  BY DEF Coherent, Activatable
<1> QED
  BY <1>1, <1>3, <1>6, <1>7, <1>8

(* Revocation does too. *)
LEMMA WithdrawnFacts ==
  ASSUME NEW m \in Snapshot, Coherent(m), NEW v \in Versions
  PROVE  /\ Withdrawn(m, v) \in Snapshot
         /\ Coherent(Withdrawn(m, v))
         /\ Withdrawn(m, v).states[v] = "REVOKED"
         /\ \A w \in Versions : w # v =>
              Withdrawn(m, v).states[w] = m.states[w]
<1> DEFINE s == Withdrawn(m, v)
<1>1. /\ m.history \in Seq(Event) /\ m.revision \in Nat
      /\ m.active \in Versions \cup {Blank}
      /\ m.states \in [Versions -> Lifecycle]
      /\ m = [states |-> m.states, active |-> m.active,
              revision |-> m.revision, history |-> m.history]
  BY DEF Snapshot
<1>2. /\ s.states = [m.states EXCEPT ![v] = "REVOKED"]
      /\ s.active = IF m.active = v THEN Blank ELSE m.active
      /\ s.revision = IF m.active = v THEN m.revision + 1 ELSE m.revision
      /\ s.history = m.history
      /\ s = [states |-> s.states, active |-> s.active,
              revision |-> s.revision, history |-> s.history]
  <2> DEFINE m1 == [m EXCEPT !.states[v] = "REVOKED"]
  <2>1. m1 = [states |-> [m.states EXCEPT ![v] = "REVOKED"],
              active |-> m.active, revision |-> m.revision,
              history |-> m.history]
    BY <1>1
  <2>2. m1.active = m.active /\ m1.revision = m.revision
    BY <2>1
  <2>3. s = [[m1 EXCEPT !.active = IF @ = v THEN Blank ELSE @]
              EXCEPT !.revision = IF m.active = v THEN @ + 1 ELSE @]
    BY DEF Withdrawn
  <2> QED
    BY <2>1, <2>2, <2>3
<1>3. s.states \in [Versions -> Lifecycle]
  BY <1>1, <1>2 DEF Lifecycle
<1>4. s \in Snapshot
  BY <1>1, <1>2, <1>3 DEF Snapshot
<1>5. Coherent(s)
  BY <1>1, <1>2, BlankIsNoVersion DEF Coherent
<1> QED
  BY <1>1, <1>2, <1>4, <1>5

(* Setting the state of a version that is not selected. *)
LEMMA SetStateFacts ==
  ASSUME NEW m \in Snapshot, Coherent(m), NEW v \in Versions,
         m.states[v] # "ACTIVE", NEW st \in Lifecycle \ {"ACTIVE"}
  PROVE  LET s == [m EXCEPT !.states[v] = st]
         IN  /\ s \in Snapshot
             /\ Coherent(s)
             /\ s.states[v] = st
             /\ \A w \in Versions : w # v => s.states[w] = m.states[w]
<1> DEFINE s == [m EXCEPT !.states[v] = st]
<1>1. /\ m.history \in Seq(Event) /\ m.revision \in Nat
      /\ m.active \in Versions \cup {Blank}
      /\ m.states \in [Versions -> Lifecycle]
      /\ m = [states |-> m.states, active |-> m.active,
              revision |-> m.revision, history |-> m.history]
  BY DEF Snapshot
<1>2. /\ s.states = [m.states EXCEPT ![v] = st]
      /\ s.active = m.active
      /\ s.revision = m.revision
      /\ s.history = m.history
      /\ s = [states |-> s.states, active |-> s.active,
              revision |-> s.revision, history |-> s.history]
  BY <1>1
<1>3. s.states \in [Versions -> Lifecycle]
  BY <1>1, <1>2 DEF Lifecycle
<1>4. s \in Snapshot
  BY <1>1, <1>2, <1>3 DEF Snapshot
<1>5. Coherent(s)
  BY <1>1, <1>2 DEF Coherent
<1> QED
  BY <1>1, <1>2, <1>4, <1>5

(* What every step achieves: the invariant, and that REVOKED is final. *)
Preserved == RInv' /\ \A q \in Processes : Final(q) \/ mem'[q] = file

(* A reader in progress is not disturbed by what the other actions do. *)
LEMMA ReaderUndisturbed ==
  ASSUME RInv, RegistryTypeOK', RevokedRowsStay, RecordsGrow,
         \A q \in Processes :
           \/ reader'[q].step = "idle"
           \/ /\ reader'[q] = reader[q] /\ loaded'[q] = loaded[q]
              /\ Final(q)
  PROVE  ReaderInv'
<1> SUFFICES ASSUME NEW q \in Processes, reader'[q].step # "idle"
             PROVE  LET r == reader'[q]
                    IN  /\ r.version \in Versions
                        /\ \A v \in r.revokedVersions :
                             mem'[q].states[v] = "REVOKED"
                        /\ r.revokedKeys \subseteq KnownRevoked(q)'
                        /\ r.step \in {"verify", "get"} =>
                             /\ records'[r.version] # None
                             /\ r.version \notin r.revokedVersions
                        /\ r.step = "get" =>
                             records'[r.version].signer
                               \notin r.revokedKeys \cup {None}
  BY DEF ReaderInv
<1> DEFINE r == reader[q]
<1>1. /\ reader'[q] = r /\ loaded'[q] = loaded[q] /\ Final(q)
      /\ r.step # "idle"
  OBVIOUS
<1>2. /\ r.version \in Versions
      /\ \A v \in r.revokedVersions : mem[q].states[v] = "REVOKED"
      /\ r.revokedKeys \subseteq KnownRevoked(q)
      /\ r.step \in {"verify", "get"} => /\ records[r.version] # None
                                         /\ r.version \notin r.revokedVersions
      /\ r.step = "get" =>
           records[r.version].signer \notin r.revokedKeys \cup {None}
  BY <1>1 DEF RInv, ReaderInv
<1>3. r.revokedVersions \subseteq Versions
  BY DEF RInv, RegistryTypeOK, Reader
<1>4. KnownRevoked(q) \subseteq KnownRevoked(q)'
  BY <1>1 DEF KnownRevoked, RevokedRowsStay
<1>5. /\ \A v \in r.revokedVersions : mem'[q].states[v] = "REVOKED"
      /\ r.revokedKeys \subseteq KnownRevoked(q)'
  BY <1>1, <1>2, <1>3, <1>4 DEF Final
<1>6. /\ r.step \in {"verify", "get"} => records'[r.version] # None
      /\ r.step = "get" => records'[r.version].signer
                             = records[r.version].signer
  BY <1>2 DEF RecordsGrow
<1> QED
  BY <1>1, <1>2, <1>5, <1>6

(* A mutation that changes the memory of its process. *)
LEMMA MutationStep ==
  ASSUME RInv, KeyInv', RevokedRowsStay,
         NEW p \in Processes, NEW m \in Snapshot, NEW o \in Ops,
         mem' = [mem EXCEPT ![p] = m], op' = [op EXCEPT ![p] = o],
         UNCHANGED <<file, loaded, reader, standing>>,
         records' \in [Versions -> StoredPolicy \cup {None}], RecordsGrow,
         Coherent(m),
         \A v \in Versions :
           /\ mem[p].states[v] = "REVOKED" => m.states[v] = "REVOKED"
           /\ records'[v] = None => m.states[v] = "PUBLISHED",
         o.step = "put" => m.states[o.version] = "PUBLISHED",
         o.step = "save" => \A v \in o.revoked : m.states[v] = "REVOKED"
  PROVE  Preserved
<1>1. RegistryTypeOK'
  BY DEF RInv, RegistryTypeOK
<1>2. /\ mem'[p] = m /\ op'[p] = o
      /\ \A q \in Processes \ {p} : mem'[q] = mem[q] /\ op'[q] = op[q]
  BY DEF RInv, RegistryTypeOK
<1>3. \A q \in Processes : Final(q)
  BY <1>2 DEF Final
<1>4. SelectionCoherent'
  BY <1>2 DEF RInv, SelectionCoherent, Coherent
<1>5. LifecycleInv'
  <2>1. \A v \in Versions : records'[v] = None =>
          /\ file'.states[v] = "PUBLISHED"
          /\ \A q \in Processes : mem'[q].states[v] = "PUBLISHED"
    BY <1>2 DEF RInv, LifecycleInv, RecordsGrow
  <2>2. ASSUME NEW q \in Processes
        PROVE  /\ op'[q].step = "put" =>
                    mem'[q].states[op'[q].version] = "PUBLISHED"
               /\ op'[q].step = "save" =>
                    \A v \in op'[q].revoked : mem'[q].states[v] = "REVOKED"
               /\ \A v \in standing'[q] : /\ file'.states[v] = "REVOKED"
                                          /\ mem'[q].states[v] = "REVOKED"
    <3>1. standing[q] \subseteq Versions
      BY DEF RInv, RegistryTypeOK
    <3>2. \A v \in standing'[q] : /\ file'.states[v] = "REVOKED"
                                  /\ mem'[q].states[v] = "REVOKED"
      BY <1>3, <3>1 DEF RInv, LifecycleInv, Final
    <3>3. CASE q = p
      BY <1>2, <3>2, <3>3
    <3>4. CASE q # p
      BY <1>2, <3>2, <3>4 DEF RInv, LifecycleInv
    <3> QED
      BY <3>3, <3>4
  <2> QED
    BY <2>1, <2>2 DEF LifecycleInv
<1>6. ReaderInv'
  BY <1>1, <1>3, ReaderUndisturbed
<1> QED
  BY <1>1, <1>3, <1>4, <1>5, <1>6 DEF Preserved, RInv

(* A step that leaves the registry's memory, file and readers alone. *)
LEMMA AsideStep ==
  ASSUME RInv, KeyInv', RevokedRowsStay,
         UNCHANGED <<file, loaded, mem, reader, standing>>,
         records' \in [Versions -> StoredPolicy \cup {None}], RecordsGrow,
         op' \in [Processes -> Ops],
         \A q \in Processes :
           \/ op'[q] = op[q]
           \/ op'[q].step = "idle"
           \/ op'[q].step = "put" /\ records[op'[q].version] = None
  PROVE  Preserved
<1>1. RegistryTypeOK'
  BY DEF RInv, RegistryTypeOK
<1>2. \A q \in Processes : Final(q)
  BY DEF Final
<1>3. SelectionCoherent'
  BY DEF RInv, SelectionCoherent, Coherent
<1>4. LifecycleInv'
  <2>1. \A v \in Versions : records'[v] = None =>
          /\ file'.states[v] = "PUBLISHED"
          /\ \A q \in Processes : mem'[q].states[v] = "PUBLISHED"
    BY DEF RInv, LifecycleInv, RecordsGrow
  <2>2. ASSUME NEW q \in Processes
        PROVE  /\ op'[q].step = "put" =>
                    mem'[q].states[op'[q].version] = "PUBLISHED"
               /\ op'[q].step = "save" =>
                    \A v \in op'[q].revoked : mem'[q].states[v] = "REVOKED"
               /\ \A v \in standing'[q] : /\ file'.states[v] = "REVOKED"
                                          /\ mem'[q].states[v] = "REVOKED"
    <3>1. op'[q].step = "put" => op'[q].version \in Versions
      BY DEF Ops, Idle
    <3> QED
      BY <3>1 DEF RInv, LifecycleInv
  <2> QED
    BY <2>1, <2>2 DEF LifecycleInv
<1>5. ReaderInv'
  BY <1>1, <1>2, ReaderUndisturbed
<1> QED
  BY <1>1, <1>2, <1>3, <1>4, <1>5 DEF Preserved, RInv

(* A record is never None, nor is what damages it. *)
LEMMA RecordIsNotNone == \A r \in StoredPolicy : r # None
BY RegistryConstants

(* register and publish, up to the record. *)
LEMMA PublishStep ==
  ASSUME RInv, KeyInv', RevokedRowsStay, NEW p \in Processes,
         NEW v \in Versions, NEW c \in Contents, NEW k \in Keys \cup {None},
         records[v] = None,
         op' = [op EXCEPT ![p] = [step |-> "put", version |-> v,
                                  record |-> new_stored(c, k)]],
         UNCHANGED <<records, file, loaded, mem, reader, standing>>
  PROVE  Preserved
<1> DEFINE o == [step |-> "put", version |-> v, record |-> new_stored(c, k)]
<1>1. o \in Ops
  <2>1. new_stored(c, k) \in StoredPolicy
    BY DEF new_stored, StoredPolicy
  <2> QED
    BY <2>1 DEF Ops
<1>2. /\ op' \in [Processes -> Ops] /\ op'[p] = o
      /\ \A q \in Processes \ {p} : op'[q] = op[q]
  BY <1>1 DEF RInv, RegistryTypeOK
<1>3. RecordsGrow
  BY DEF RecordsGrow
<1>4. records' \in [Versions -> StoredPolicy \cup {None}]
  BY DEF RInv, RegistryTypeOK
<1> HIDE DEF o
<1>5. o.step = "put" /\ o.version = v
  BY DEF o
<1> QED
  BY <1>2, <1>3, <1>4, <1>5, AsideStep

(* activate, deprecate and revoke, up to the save. *)
LEMMA ChangeStep ==
  ASSUME RInv, KeyInv', RevokedRowsStay, NEW p \in Processes,
         NEW v \in Versions, UNCHANGED loaded,
         \/ \E expected \in 0..MaxRevision \cup {None} : activate(p, v, expected)
         \/ deprecate(p, v)
         \/ revoke(p, v)
  PROVE  Preserved
<1>1. /\ UNCHANGED <<records, file, loaded, reader, standing>>
      /\ records[v] # None
  BY DEF activate, deprecate, revoke, get
<1>2. /\ mem[p] \in Snapshot /\ Coherent(mem[p])
      /\ records' \in [Versions -> StoredPolicy \cup {None}]
      /\ RecordsGrow
      /\ \A w \in Versions : records'[w] = None =>
           w # v /\ mem[p].states[w] = "PUBLISHED"
  BY <1>1 DEF RInv, RegistryTypeOK, SelectionCoherent, LifecycleInv, RecordsGrow
<1>3. \A R \in SUBSET Versions : [step |-> "save", revoked |-> R] \in Ops
  BY DEF Ops
<1>4. CASE \E expected \in 0..MaxRevision \cup {None} : activate(p, v, expected)
  <2>1. /\ Activatable(mem[p], v)
        /\ mem' = [mem EXCEPT ![p] = Selected(mem[p], v)]
        /\ op' = [op EXCEPT ![p] = [step |-> "save", revoked |-> {}]]
    BY <1>4 DEF activate
  <2> DEFINE m == Selected(mem[p], v)
             o == [step |-> "save", revoked |-> {}]
  <2>2. /\ m \in Snapshot /\ Coherent(m)
        /\ \A w \in Versions :
             /\ mem[p].states[w] = "REVOKED" => m.states[w] = "REVOKED"
             /\ records'[w] = None => m.states[w] = "PUBLISHED"
    BY <1>2, <2>1, SelectedFacts
  <2>3. o \in Ops /\ o.step = "save" /\ o.revoked = {}
    BY <1>3
  <2>4. /\ mem' = [mem EXCEPT ![p] = m]
        /\ op' = [op EXCEPT ![p] = o]
    BY <2>1
  <2> HIDE DEF m, o
  <2> QED
    BY <1>1, <1>2, <2>2, <2>3, <2>4, MutationStep
<1>5. CASE deprecate(p, v)
  <2> DEFINE m == [mem[p] EXCEPT !.states[v] = "DEPRECATED"]
             o == [step |-> "save", revoked |-> {}]
  <2>1. /\ mem[p].states[v] \notin {"ACTIVE", "REVOKED"}
        /\ mem' = [mem EXCEPT ![p] = m]
        /\ op' = [op EXCEPT ![p] = o]
    BY <1>5 DEF deprecate
  <2>2. /\ m \in Snapshot /\ Coherent(m)
        /\ \A w \in Versions : w # v => m.states[w] = mem[p].states[w]
    <3>1. "DEPRECATED" \in Lifecycle \ {"ACTIVE"}
      BY DEF Lifecycle
    <3>2. mem[p] \in Snapshot /\ Coherent(mem[p]) /\ mem[p].states[v] # "ACTIVE"
      BY <1>2, <2>1
    <3> QED
      BY <3>1, <3>2, SetStateFacts
  <2>3. o \in Ops /\ o.step = "save" /\ o.revoked = {}
    BY <1>3
  <2> HIDE DEF m, o
  <2>4. \A w \in Versions :
          /\ mem[p].states[w] = "REVOKED" => m.states[w] = "REVOKED"
          /\ records'[w] = None => m.states[w] = "PUBLISHED"
    BY <1>2, <2>1, <2>2
  <2> QED
    BY <1>1, <1>2, <2>1, <2>2, <2>3, <2>4, MutationStep
<1>6. CASE revoke(p, v)
  <2> DEFINE m == Withdrawn(mem[p], v)
             o == [step |-> "save", revoked |-> {v}]
  <2>1. /\ mem' = [mem EXCEPT ![p] = m]
        /\ op' = [op EXCEPT ![p] = o]
    BY <1>6 DEF revoke
  <2>2. /\ m \in Snapshot /\ Coherent(m)
        /\ m.states[v] = "REVOKED"
        /\ \A w \in Versions : w # v => m.states[w] = mem[p].states[w]
    BY <1>2, WithdrawnFacts
  <2>3. o \in Ops /\ o.step = "save" /\ o.revoked = {v}
    BY <1>3
  <2> HIDE DEF m, o
  <2>4. \A w \in Versions :
          /\ mem[p].states[w] = "REVOKED" => m.states[w] = "REVOKED"
          /\ records'[w] = None => m.states[w] = "PUBLISHED"
    BY <1>2, <2>2
  <2> QED
    BY <1>1, <1>2, <2>1, <2>2, <2>3, <2>4, MutationStep
<1> QED
  BY <1>4, <1>5, <1>6

(* The record is linked, or its version turns out to be taken. *)
LEMMA PutStep ==
  ASSUME RInv, KeyInv', RevokedRowsStay, NEW p \in Processes, Put(p),
         UNCHANGED loaded
  PROVE  Preserved
<1> DEFINE v == op[p].version
           r == op[p].record
<1>1. v \in Versions /\ r \in StoredPolicy /\ op[p].step = "put"
  BY DEF Put, RInv, RegistryTypeOK, Ops, Idle
<1>2. UNCHANGED <<file, loaded, reader, standing>>
  BY DEF Put
<1> DEFINE m == [mem[p] EXCEPT !.states[v] = "PUBLISHED"]
           o == [step |-> "save", revoked |-> {}]
<1>3. CASE ~(records[v] = None \/ (records[v] = r /\ r.signer = None))
  <2>1. op' = [op EXCEPT ![p] = Idle] /\ UNCHANGED <<records, mem>>
    BY <1>3 DEF Put
  <2>2. Idle \in Ops /\ Idle.step = "idle"
    BY DEF Ops, Idle
  <2>3. /\ op' \in [Processes -> Ops]
        /\ \A q \in Processes : op'[q] = op[q] \/ op'[q].step = "idle"
    BY <2>1, <2>2 DEF RInv, RegistryTypeOK
  <2>4. RecordsGrow /\ records' \in [Versions -> StoredPolicy \cup {None}]
    BY <2>1 DEF RecordsGrow, RInv, RegistryTypeOK
  <2> QED
    BY <1>2, <2>1, <2>3, <2>4, AsideStep
<1>4. CASE records[v] = None \/ (records[v] = r /\ r.signer = None)
  <2>1. /\ records' = [records EXCEPT ![v] = r]
        /\ mem' = [mem EXCEPT ![p] = m]
        /\ op' = [op EXCEPT ![p] = o]
    BY <1>4 DEF Put
  <2>2. /\ mem[p] \in Snapshot /\ Coherent(mem[p])
        /\ mem[p].states[v] = "PUBLISHED"
    BY <1>1 DEF RInv, RegistryTypeOK, SelectionCoherent, LifecycleInv
  <2>3. /\ m \in Snapshot /\ Coherent(m)
        /\ m.states[v] = "PUBLISHED"
        /\ \A w \in Versions : w # v => m.states[w] = mem[p].states[w]
    <3>1. "PUBLISHED" \in Lifecycle \ {"ACTIVE"}
      BY DEF Lifecycle
    <3> QED
      BY <1>1, <2>2, <3>1, SetStateFacts
  <2>4. o \in Ops /\ o.step = "save" /\ o.revoked = {}
    BY DEF Ops
  <2>5. /\ records' \in [Versions -> StoredPolicy \cup {None}]
        /\ \A w \in Versions : records'[w] = IF w = v THEN r ELSE records[w]
    BY <1>1, <2>1 DEF RInv, RegistryTypeOK
  <2> HIDE DEF m, o
  <2>6. RecordsGrow
    BY <1>1, <1>4, <2>5, RecordIsNotNone DEF RecordsGrow
  <2>7. \A w \in Versions :
          /\ mem[p].states[w] = "REVOKED" => m.states[w] = "REVOKED"
          /\ records'[w] = None => m.states[w] = "PUBLISHED"
    BY <2>2, <2>3, <2>5 DEF RInv, LifecycleInv
  <2> QED
    BY <1>2, <2>1, <2>3, <2>4, <2>5, <2>6, <2>7, MutationStep
<1> QED
  BY <1>3, <1>4

(* The snapshot replaces the file: what stands is what is saved. *)
LEMMA SaveStep ==
  ASSUME RInv, KeyInv', RevokedRowsStay, NEW p \in Processes, Save(p),
         UNCHANGED loaded
  PROVE  Preserved
<1>1. /\ op[p].step = "save"
      /\ file' = mem[p]
      /\ standing' = [q \in Processes |->
                        IF q = p THEN standing[p] \cup op[p].revoked ELSE {}]
      /\ op' = [op EXCEPT ![p] = Idle]
      /\ UNCHANGED <<records, mem, reader, loaded>>
  BY DEF Save
<1>2. op[p].revoked \subseteq Versions
  BY <1>1 DEF RInv, RegistryTypeOK, Ops, Idle
<1>3. RegistryTypeOK'
  <2>1. Idle \in Ops
    BY DEF Ops
  <2>2. standing' \in [Processes -> SUBSET Versions]
    BY <1>1, <1>2 DEF RInv, RegistryTypeOK
  <2>3. file' \in Snapshot /\ op' \in [Processes -> Ops]
    BY <1>1, <2>1 DEF RInv, RegistryTypeOK
  <2> QED
    BY <1>1, <2>2, <2>3 DEF RInv, RegistryTypeOK
<1>4. SelectionCoherent'
  BY <1>1 DEF RInv, SelectionCoherent, Coherent
<1>5. LifecycleInv'
  <2>1. \A v \in Versions : records'[v] = None =>
          /\ file'.states[v] = "PUBLISHED"
          /\ \A q \in Processes : mem'[q].states[v] = "PUBLISHED"
    BY <1>1 DEF RInv, LifecycleInv
  <2>2. ASSUME NEW q \in Processes
        PROVE  /\ op'[q].step = "put" =>
                    mem'[q].states[op'[q].version] = "PUBLISHED"
               /\ op'[q].step = "save" =>
                    \A v \in op'[q].revoked : mem'[q].states[v] = "REVOKED"
               /\ \A v \in standing'[q] : /\ file'.states[v] = "REVOKED"
                                          /\ mem'[q].states[v] = "REVOKED"
    <3>1. CASE q = p
      <4>1. op'[q].step = "idle"
        BY <1>1, <3>1 DEF Idle, RInv, RegistryTypeOK
      <4>2. standing'[q] = standing[p] \cup op[p].revoked
        BY <1>1, <3>1
      <4> QED
        BY <1>1, <3>1, <4>1, <4>2 DEF RInv, LifecycleInv
    <3>2. CASE q # p
      <4>1. op'[q] = op[q] /\ standing'[q] = {}
        BY <1>1, <3>2 DEF RInv, RegistryTypeOK
      <4> QED
        BY <1>1, <4>1 DEF RInv, LifecycleInv
    <3> QED
      BY <3>1, <3>2
  <2> QED
    BY <2>1, <2>2 DEF LifecycleInv
<1>6. \A q \in Processes : Final(q)
  BY <1>1 DEF Final
<1>7. ReaderInv'
  <2>1. RecordsGrow
    BY <1>1 DEF RecordsGrow
  <2> QED
    BY <1>1, <1>3, <1>6, <2>1, ReaderUndisturbed
<1> QED
  BY <1>3, <1>4, <1>5, <1>6, <1>7 DEF Preserved, RInv

(* The reads of get_active. *)
LEMMA ReadStep ==
  ASSUME RInv, UNCHANGED <<keyVars, loaded>>, NEW p \in Processes,
         ReadActive(p) \/ ReadOn(p) \/ Answer(p)
  PROVE  Preserved
<1>1. UNCHANGED <<records, file, mem, op, standing>>
  BY DEF ReadActive, ReadOn, Answer
<1>2. KeyInv' /\ rows' = rows /\ trust' = trust
  <2>1. UNCHANGED keyStores /\ UNCHANGED requests /\ UNCHANGED faults
    BY DEF keyVars, keyStores
  <2> QED
    BY <2>1, KeyQuietStep DEF RInv, keyStores
<1>3. NoReader \in Reader
  BY DEF NoReader, Reader
<1>4. ASSUME NEW n \in Reader, reader' = [reader EXCEPT ![p] = n],
             n.step # "idle" =>
               /\ n.version \in Versions
               /\ \A v \in n.revokedVersions : mem[p].states[v] = "REVOKED"
               /\ n.revokedKeys \subseteq KnownRevoked(p),
             n.step \in {"verify", "get"} =>
               /\ records[n.version] # None
               /\ n.version \notin n.revokedVersions,
             n.step = "get" =>
               records[n.version].signer \notin n.revokedKeys \cup {None}
      PROVE  Preserved
  <2>1. reader' \in [Processes -> Reader] /\ reader'[p] = n
    BY <1>4 DEF RInv, RegistryTypeOK
  <2>2. \A q \in Processes \ {p} : reader'[q] = reader[q]
    BY <1>4 DEF RInv, RegistryTypeOK
  <2>3. RegistryTypeOK'
    BY <1>1, <2>1 DEF RInv, RegistryTypeOK
  <2>4. SelectionCoherent' /\ LifecycleInv'
    BY <1>1 DEF RInv, SelectionCoherent, Coherent, LifecycleInv
  <2>5. \A q \in Processes : KnownRevoked(q)' = KnownRevoked(q)
    BY <1>2 DEF KnownRevoked
  <2>6. ReaderInv'
    BY <1>1, <1>4, <2>1, <2>2, <2>5 DEF RInv, ReaderInv
  <2>7. \A q \in Processes : Final(q)
    BY <1>1 DEF Final
  <2> QED
    BY <1>2, <2>3, <2>4, <2>6, <2>7 DEF Preserved, RInv
<1>5. ASSUME reader' = [reader EXCEPT ![p] = NoReader] PROVE Preserved
  BY <1>3, <1>4, <1>5 DEF NoReader
<1>6. CASE ReadActive(p)
  <2> DEFINE n == [step |-> "lifecycle", version |-> mem[p].active,
                   revokedVersions |->
                     {v \in Versions : mem[p].states[v] = "REVOKED"},
                   revokedKeys |->
                     IF p = Admin THEN {k \in Keys : rows[k] = "REVOKED"}
                     ELSE loaded[p].revoked]
  <2>1. mem[p].active \in Versions
    BY <1>6 DEF ReadActive, RInv, RegistryTypeOK, Snapshot
  <2>2. loaded[p].revoked \subseteq Keys
    BY DEF RInv, RegistryTypeOK, TrustState
  <2>3. n \in Reader
    BY <2>1, <2>2 DEF Reader
  <2>4. reader' = [reader EXCEPT ![p] = n]
    BY <1>6 DEF ReadActive
  <2>5. /\ n.step = "lifecycle" /\ n.version \in Versions
        /\ \A v \in n.revokedVersions : mem[p].states[v] = "REVOKED"
        /\ n.revokedKeys = KnownRevoked(p)
    BY <2>1 DEF KnownRevoked
  <2> HIDE DEF n
  <2> QED
    BY <1>4, <2>3, <2>4, <2>5
<1>7. CASE ReadOn(p) /\ Usable(p)
  <2> DEFINE r == reader[p]
             n == [r EXCEPT !.step = IF r.step = "lifecycle" THEN "verify"
                                     ELSE "get"]
  <2>1. r \in Reader /\ r.step \in {"lifecycle", "verify"}
    BY <1>7 DEF ReadOn, RInv, RegistryTypeOK
  <2>2. reader' = [reader EXCEPT ![p] = n]
    <3>1. reader' = [reader EXCEPT ![p] = IF Usable(p) THEN n ELSE NoReader]
      BY <1>7 DEF ReadOn
    <3> QED
      BY <1>7, <3>1
  <2>3. /\ n \in Reader
        /\ n.step = IF r.step = "lifecycle" THEN "verify" ELSE "get"
        /\ n.version = r.version
        /\ n.revokedVersions = r.revokedVersions
        /\ n.revokedKeys = r.revokedKeys
    BY <2>1 DEF Reader
  <2>4. /\ r.version \in Versions
        /\ \A v \in r.revokedVersions : mem[p].states[v] = "REVOKED"
        /\ r.revokedKeys \subseteq KnownRevoked(p)
        /\ r.step = "verify" => /\ records[r.version] # None
                                /\ r.version \notin r.revokedVersions
    BY <2>1 DEF RInv, ReaderInv
  <2> HIDE DEF n
  <2>5. CASE r.step = "lifecycle"
    <3>1. records[r.version] # None /\ mem[p].states[r.version] = "ACTIVE"
      BY <1>7, <2>5 DEF Usable, get
    <3> QED
      BY <1>4, <2>2, <2>3, <2>4, <2>5, <3>1
  <2>6. CASE r.step = "verify"
    <3>1. signature_valid(p, records[r.version])
      BY <1>7, <2>6 DEF Usable, valid
    <3>2. KnownRevoked(p) \subseteq TrustOf(p).revoked
      BY DEF KnownRevoked, TrustOf, RInv, KeyInv, RevokedIsUntrusted
    <3>3. records[r.version].signer \notin r.revokedKeys \cup {None}
      BY <2>4, <3>1, <3>2 DEF signature_valid, resolve
    <3> QED
      BY <1>4, <2>2, <2>3, <2>4, <2>6, <3>3
  <2> QED
    BY <2>1, <2>5, <2>6
<1>8. CASE ReadOn(p) /\ ~Usable(p)
  BY <1>5, <1>8 DEF ReadOn
<1>9. CASE Answer(p)
  BY <1>5, <1>9 DEF Answer
<1> QED
  BY <1>6, <1>7, <1>8, <1>9

(* A damaged record keeps its signer. *)
LEMMA DamageStep ==
  ASSUME RInv, NEW v \in Versions, Damage(v)
  PROVE  Preserved
<1>1. /\ UNCHANGED <<file, loaded, mem, op, reader, standing>>
      /\ UNCHANGED keyStores /\ UNCHANGED requests /\ Fault
      /\ records[v] # None
      /\ records' = [records EXCEPT ![v] = [@ EXCEPT !.content = None]]
  BY DEF Damage
<1>2. KeyInv' /\ RevokedRowsStay
  BY <1>1, KeyQuietStep DEF RInv
<1> DEFINE r == records[v]
           d == [r EXCEPT !.content = None]
<1>3. r \in StoredPolicy
  BY <1>1 DEF RInv, RegistryTypeOK
<1>4. d \in StoredPolicy /\ d.signer = r.signer
  BY <1>3 DEF StoredPolicy
<1>5. \A w \in Versions : records'[w] = IF w = v THEN d ELSE records[w]
  BY <1>1 DEF RInv, RegistryTypeOK
<1>6. records' \in [Versions -> StoredPolicy \cup {None}]
  BY <1>1, <1>4 DEF RInv, RegistryTypeOK
<1> HIDE DEF d
<1>7. RecordsGrow
  BY <1>4, <1>5, RecordIsNotNone DEF RecordsGrow
<1>8. op' \in [Processes -> Ops]
  BY <1>1 DEF RInv, RegistryTypeOK
<1> QED
  BY <1>1, <1>2, <1>6, <1>7, <1>8, AsideStep

(* A restart reads the snapshot back. *)
LEMMA RestartStep ==
  ASSUME RInv, NEW p \in Processes, Restart(p)
  PROVE  Preserved
<1>1. /\ mem' = [mem EXCEPT ![p] = file]
      /\ op' = [op EXCEPT ![p] = Idle]
      /\ reader' = [reader EXCEPT ![p] = NoReader]
      /\ UNCHANGED <<records, file, standing>>
  BY DEF Restart
<1>2. KeyInv' /\ RevokedRowsStay
  <2>1. CASE p = Admin
    BY <2>1, KeyFaultStep DEF Restart, RInv
  <2>2. CASE p # Admin
    BY <2>2, KeyQuietStep DEF Restart, RInv
  <2> QED
    BY <2>1, <2>2
<1>3. /\ loaded' \in [Processes -> TrustState]
      /\ \A q \in Processes \ {p} : loaded'[q] = loaded[q]
  BY DEF Restart, RInv, RegistryTypeOK, KeyInv, KeyTypeOK
<1>4. RegistryTypeOK'
  <2>1. Idle \in Ops /\ NoReader \in Reader
    BY DEF Ops, NoReader, Reader
  <2> QED
    BY <1>1, <1>3, <2>1 DEF RInv, RegistryTypeOK
<1>5. /\ mem'[p] = file /\ op'[p] = Idle /\ reader'[p] = NoReader
      /\ \A q \in Processes \ {p} :
           mem'[q] = mem[q] /\ op'[q] = op[q] /\ reader'[q] = reader[q]
  BY <1>1 DEF RInv, RegistryTypeOK
<1>6. SelectionCoherent'
  BY <1>1, <1>5 DEF RInv, SelectionCoherent, Coherent
<1>7. LifecycleInv'
  BY <1>1, <1>5 DEF RInv, LifecycleInv, Idle
<1>8. \A q \in Processes : q # p => Final(q)
  BY <1>5 DEF Final
<1>9. ReaderInv'
  <2>1. RecordsGrow /\ reader'[p].step = "idle"
    BY <1>1, <1>5 DEF RecordsGrow, NoReader
  <2> QED
    BY <1>2, <1>3, <1>4, <1>5, <1>8, <2>1, ReaderUndisturbed
<1> QED
  BY <1>2, <1>4, <1>5, <1>6, <1>7, <1>8, <1>9 DEF Preserved, RInv

-------------------------------------------------------------------------------
(* Every step of the registry keeps the invariant, and within a process    *)
(* REVOKED is final.                                                       *)
LEMMA RegistryStep ==
  ASSUME RInv, [Next]_vars
  PROVE  Preserved
<1>1. ASSUME NEW p \in Processes,
             Requested(p) /\ UNCHANGED <<keyStores, faults, loaded>>
      PROVE  Preserved
  <2>1. Request
    BY <1>1 DEF Requested, RegisterUnsigned, publish, activate, deprecate,
                revoke
  <2>2. KeyInv' /\ RevokedRowsStay
    BY <1>1, <2>1, KeyQuietStep DEF RInv
  <2>3. ASSUME NEW v \in Versions, NEW c \in Contents,
               RegisterUnsigned(p, v, c)
        PROVE  Preserved
    BY <1>1, <2>2, <2>3, PublishStep DEF RegisterUnsigned
  <2>4. ASSUME NEW v \in Versions, NEW c \in Contents, NEW k \in Keys,
               publish(p, v, c, k)
        PROVE  Preserved
    BY <1>1, <2>2, <2>4, PublishStep DEF publish
  <2> QED
    BY <1>1, <2>2, <2>3, <2>4, ChangeStep DEF Requested
<1>2. ASSUME NEW p \in Processes,
             Continued(p) /\ UNCHANGED <<keyVars, loaded>>
      PROVE  Preserved
  <2>1. KeyInv' /\ RevokedRowsStay
    <3>1. UNCHANGED keyStores /\ UNCHANGED requests /\ UNCHANGED faults
      BY <1>2 DEF keyVars, keyStores
    <3> QED
      BY <3>1, KeyQuietStep DEF RInv
  <2> QED
    BY <1>2, <2>1, PutStep, SaveStep, ReadStep DEF Continued
<1>3. ASSUME NEW p \in Processes, SaveFails(p) PROVE Preserved
  <2>1. /\ UNCHANGED keyStores /\ UNCHANGED requests /\ Fault
        /\ UNCHANGED <<records, file, loaded, mem, reader, standing>>
        /\ op' = [op EXCEPT ![p] = Idle]
    BY <1>3 DEF SaveFails
  <2>2. KeyInv' /\ RevokedRowsStay
    BY <2>1, KeyQuietStep DEF RInv
  <2>3. Idle \in Ops /\ Idle.step = "idle"
    BY DEF Ops, Idle
  <2>4. /\ op' \in [Processes -> Ops]
        /\ \A q \in Processes : op'[q] = op[q] \/ op'[q].step = "idle"
    BY <2>1, <2>3 DEF RInv, RegistryTypeOK
  <2>5. RecordsGrow /\ records' \in [Versions -> StoredPolicy \cup {None}]
    BY <2>1 DEF RecordsGrow, RInv, RegistryTypeOK
  <2> QED
    BY <2>1, <2>2, <2>4, <2>5, AsideStep
<1>4. CASE UNCHANGED registryVars /\ (KeyStep \/ UNCHANGED keyVars)
  <2>1. KeyInv' /\ RevokedRowsStay
    <3>1. CASE KeyStep
      BY <3>1, KeyStepInv DEF RInv
    <3>2. CASE UNCHANGED keyVars
      <4>1. UNCHANGED keyStores /\ UNCHANGED requests /\ UNCHANGED faults
        BY <3>2 DEF keyVars, keyStores
      <4> QED
        BY <4>1, KeyQuietStep DEF RInv
    <3> QED
      BY <1>4, <3>1, <3>2
  <2>2. UNCHANGED <<records, file, loaded, mem, op, reader, standing>>
    BY <1>4 DEF registryVars
  <2>3. /\ RecordsGrow /\ records' \in [Versions -> StoredPolicy \cup {None}]
        /\ op' \in [Processes -> Ops]
    BY <2>2 DEF RecordsGrow, RInv, RegistryTypeOK
  <2> QED
    BY <2>1, <2>2, <2>3, AsideStep
<1> QED
  BY <1>1, <1>2, <1>3, <1>4, RestartStep, DamageStep DEF Next, vars

(* The registry starts in its invariant. *)
LEMMA RegistryInit == Init => RInv
<1> SUFFICES ASSUME Init PROVE RInv
  OBVIOUS
<1>1. KeyInv
  BY KeyInitInv DEF Init
<1>2. Empty \in Snapshot /\ Coherent(Empty)
  <2>1. /\ Empty.states = [v \in Versions |-> "PUBLISHED"]
        /\ Empty.active = Blank
    BY DEF Empty
  <2>2. Empty \in Snapshot
    BY DEF Empty, Snapshot, Lifecycle
  <2> QED
    BY <2>1, <2>2, BlankIsNoVersion DEF Coherent
<1>3. RegistryTypeOK
  <2>1. Idle \in Ops /\ NoReader \in Reader
    BY DEF Ops, NoReader, Reader
  <2> QED
    BY <1>1, <1>2, <2>1 DEF Init, RegistryTypeOK, KeyInv, KeyTypeOK
<1>4. SelectionCoherent
  BY <1>2 DEF Init, SelectionCoherent
<1>5. LifecycleInv
  BY DEF Init, LifecycleInv, Empty, Idle
<1>6. ReaderInv
  BY DEF Init, ReaderInv, NoReader
<1> QED
  BY <1>1, <1>3, <1>4, <1>5, <1>6 DEF RInv

(* The inductive invariant holds of every reachable state. *)
LEMMA RegistryInvariant == Spec => []RInv
<1>1. RInv /\ [Next]_vars => RInv'
  BY RegistryStep DEF Preserved
<1> QED
  BY <1>1, RegistryInit, PTL DEF Spec

(* The variables keep their types, whatever number of requests and faults. *)
THEOREM RegistryTyped == Spec => []TypeOK
<1>1. RInv => TypeOK
  BY DEF RInv, KeyInv, RegistryTypeOK, TypeOK
<1> QED
  BY <1>1, RegistryInvariant, PTL

(* A key whose row says REVOKED resolves neither in the process nor after  *)
(* a restart, whichever write failed (KeyLifecycleManager.revoke).         *)
THEOREM KeysRevokedUntrusted == Spec => []RevokedIsUntrusted
<1>1. RInv => RevokedIsUntrusted
  BY DEF RInv, KeyInv
<1> QED
  BY <1>1, RegistryInvariant, PTL

(* A listed key that nobody asked to revoke is trusted, rotated or not     *)
(* (KeyLifecycleManager.rotate, trust_list).                               *)
THEOREM KeysListedTrusted == Spec => []ListedIsTrusted
<1>1. RInv => ListedIsTrusted
  BY DEF RInv, KeyInv
<1> QED
  BY <1>1, RegistryInvariant, PTL

(* Selection, states and history agree in every process and in the file    *)
(* (VersionedPolicyRegistry.activate, revoke, _save_state, _load_state).   *)
THEOREM RegistryCoherent == Spec => []SelectionCoherent
<1>1. RInv => SelectionCoherent
  BY DEF RInv
<1> QED
  BY <1>1, RegistryInvariant, PTL

(* An acknowledged revocation is in the file until another process saves   *)
(* its own snapshot (VersionedPolicyRegistry.revoke).                      *)
THEOREM RegistryRevocationStands == Spec => []RevocationStands
<1>1. RInv => RevocationStands
  BY DEF RInv, LifecycleInv, RevocationStands
<1> QED
  BY <1>1, RegistryInvariant, PTL

(* What get_active returns is neither revoked nor signed by a key that was *)
(* revoked when it began, nor damaged.                                     *)
THEOREM RegistryServesUsable == Spec => []ServedIsUsable
<1>1. RInv => ServedIsUsable
  <2> SUFFICES ASSUME RInv, NEW p \in Processes,
                      reader[p].step = "get", Usable(p)
               PROVE  LET r == records[reader[p].version]
                      IN  /\ reader[p].version
                               \notin reader[p].revokedVersions
                          /\ r.signer \notin reader[p].revokedKeys \cup {None}
                          /\ r.content = r.content_hash
    BY DEF ServedIsUsable
  <2>1. get(reader[p].version)
    BY DEF Usable
  <2> QED
    BY <2>1 DEF RInv, ReaderInv, get, digest_valid
<1> QED
  BY <1>1, RegistryInvariant, PTL

(* Within a process a REVOKED version stays REVOKED until the process      *)
(* restarts from the snapshot.                                             *)
THEOREM RegistryRevokedFinal == Spec => RevokedIsFinal
<1>1. RInv /\ [Next]_vars =>
        [\A p \in Processes, v \in Versions :
           mem[p].states[v] = "REVOKED" =>
             mem'[p].states[v] = "REVOKED" \/ mem'[p] = file]_vars
  BY RegistryStep DEF Preserved, Final
<1> QED
  BY <1>1, RegistryInvariant, PTL DEF Spec, RevokedIsFinal

===============================================================================
