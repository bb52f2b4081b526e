---------------------------- MODULE PolicyRegistry ----------------------------
(***************************************************************************)
(* VersionedPolicyRegistry and FilePolicyStorage (policy_registry.py) for  *)
(* one policy id, verified with TrustStorePolicyVerifier against the keys  *)
(* of KeyLifecycle, behind the /admin/policy-registry routes (http_api.py).*)
(*                                                                         *)
(* Every process has its own copy of the lifecycle state and holds its     *)
(* lock from the first check of a mutation to the end of _save_state, so a *)
(* process has one mutation in progress; the record file and the state     *)
(* snapshot are shared.  get_active takes no lock and runs beside the      *)
(* mutation.  A mutation's dictionary writes are one step: a reader that   *)
(* meets them half done finds a version that is not ACTIVE and refuses, as *)
(* it also does just after them.                                           *)
(*                                                                         *)
(* A version is its place in SemVer order (semver_key), its digest is its  *)
(* content, and a signature verifies when its signer resolves and the      *)
(* digest is the signed one.                                               *)
(***************************************************************************)
EXTENDS KeyLifecycle, FiniteSets, Sequences

CONSTANTS Versions,     \* positive naturals
          Contents,
          Processes,
          Admin,        \* the process that runs the KeyLifecycleManager
          MaxRevision   \* bound of the active revision

StoredPolicy == [content : Contents \cup {None}, content_hash : Contents,
                 signer : Keys \cup {None}]

ASSUME RegistryConstants ==
  /\ Versions \subseteq Nat \ {0}
  /\ IsFiniteSet(Versions)
  /\ None \notin Contents \cup StoredPolicy
  /\ Admin \in Processes
  /\ MaxRevision \in Nat

VARIABLES records,  \* <root>/<id>/<version>.json
          file,     \* .policy-registry-state.json
          loaded,   \* the trust store of a process other than Admin, read
                    \* from the trust file when the process started
          mem,      \* a process's _states, _active and _history
          op,       \* its mutation in progress
          reader,   \* its get_active call in progress
          standing  \* history: revocations a process acknowledged that no
                    \* snapshot of another process has been saved over

registryVars == <<records, file, loaded, mem, op, reader, standing>>
vars == <<keyVars, registryVars>>

(* No version: the "" of _active after the active version was revoked, and *)
(* the missing entry before the first activation.                          *)
Blank == 0

Lifecycle == {"PUBLISHED", "ACTIVE", "DEPRECATED", "REVOKED"}

Event == [previous : Versions \cup {Blank}, selected : Versions,
          revision : Nat]

Snapshot == [states : [Versions -> Lifecycle], active : Versions \cup {Blank},
             revision : Nat, history : Seq(Event)]

Reader == [step : {"idle", "lifecycle", "verify", "get"},
           version : Versions \cup {Blank},
           revokedVersions : SUBSET Versions, revokedKeys : SUBSET Keys]

NoReader == [step |-> "idle", version |-> Blank, revokedVersions |-> {},
             revokedKeys |-> {}]

Ops == {Idle} \cup [step : {"put"}, version : Versions, record : StoredPolicy]
       \cup [step : {"save"}, revoked : SUBSET Versions]

TypeOK == /\ KeyTypeOK
          /\ records \in [Versions -> StoredPolicy \cup {None}]
          /\ file \in Snapshot
          /\ loaded \in [Processes -> TrustState]
          /\ mem \in [Processes -> Snapshot]
          /\ op \in [Processes -> Ops]
          /\ reader \in [Processes -> Reader]
          /\ standing \in [Processes -> SUBSET Versions]

(* _states has no entry for an unknown version: lifecycle() reads it as    *)
(* PUBLISHED, and so does the model.                                       *)
Empty == [states |-> [v \in Versions |-> "PUBLISHED"], active |-> Blank,
          revision |-> 0, history |-> <<>>]

Init == /\ KeyInit
        /\ records = [v \in Versions |-> None]
        /\ file = Empty
        /\ loaded = [p \in Processes |-> trustFile]
        /\ mem = [p \in Processes |-> Empty]
        /\ op = [p \in Processes |-> Idle]
        /\ reader = [p \in Processes |-> NoReader]
        /\ standing = [p \in Processes |-> {}]

(* _verification: the recomputed digest, then the signature.               *)
digest_valid(r) == r.content = r.content_hash

TrustOf(p) == IF p = Admin THEN trust ELSE loaded[p]

signature_valid(p, r) == r.signer # None /\ resolve(TrustOf(p), r.signer)

valid(p, r) == digest_valid(r) /\ signature_valid(p, r)

(* get: the record exists and its digest matches.                          *)
get(v) == records[v] # None /\ digest_valid(records[v])

(* _new_stored; register() signs nothing.                                  *)
new_stored(c, k) == [content |-> c, content_hash |-> c, signer |-> k]

(* publish refuses every duplicate and every record that does not verify.  *)
publish(p, v, c, k) ==
  /\ op[p] = Idle
  /\ Request
  /\ records[v] = None
  /\ valid(p, new_stored(c, k))
  /\ op' = [op EXCEPT ![p] = [step |-> "put", version |-> v,
                              record |-> new_stored(c, k)]]
  /\ UNCHANGED <<records, file, mem, reader, standing>>

(* register() of a known version answers without a change: it is a step    *)
(* only for an unknown one.                                                *)
RegisterUnsigned(p, v, c) ==
  /\ op[p] = Idle
  /\ Request
  /\ records[v] = None
  /\ op' = [op EXCEPT ![p] = [step |-> "put", version |-> v,
                              record |-> new_stored(c, None)]]
  /\ UNCHANGED <<records, file, mem, reader, standing>>

(* FilePolicyStorage.put links the record in place; the link fails when    *)
(* another process published the version since the check, and then only an *)
(* equal record is accepted.  Two signatures carry their own timestamps.   *)
Put(p) ==
  /\ op[p].step = "put"
  /\ LET v == op[p].version
         r == op[p].record
     IN  IF records[v] = None \/ (records[v] = r /\ r.signer = None)
         THEN /\ records' = [records EXCEPT ![v] = r]
              /\ mem' = [mem EXCEPT ![p].states[v] = "PUBLISHED"]
              /\ op' = [op EXCEPT ![p] = [step |-> "save", revoked |-> {}]]
         ELSE /\ op' = [op EXCEPT ![p] = Idle]
              /\ UNCHANGED <<records, mem>>
  /\ UNCHANGED <<file, reader, standing>>

(* The part of activate that runs once its checks passed; the previous     *)
(* version becomes PUBLISHED again.  rollback is activate under another    *)
(* name.                                                                   *)
Selected(m, v) ==
  [states |-> [w \in Versions |-> CASE w = v        -> "ACTIVE"
                                    [] w = m.active -> "PUBLISHED"
                                    [] OTHER        -> m.states[w]],
   active |-> v,
   revision |-> m.revision + 1,
   history |-> Append(m.history, [previous |-> m.active, selected |-> v,
                                  revision |-> m.revision + 1])]

Activatable(m, v) == m.states[v] \in {"PUBLISHED", "ACTIVE"} /\ m.active # v

(* expected is expected_revision, None when the caller gives none.         *)
activate(p, v, expected) ==
  /\ op[p] = Idle
  /\ Request
  /\ get(v)
  /\ valid(p, records[v])
  /\ Activatable(mem[p], v)
  /\ expected \in {None, mem[p].revision}
  /\ mem[p].revision < MaxRevision
  /\ mem' = [mem EXCEPT ![p] = Selected(mem[p], v)]
  /\ op' = [op EXCEPT ![p] = [step |-> "save", revoked |-> {}]]
  /\ UNCHANGED <<records, file, reader, standing>>

(* Mutant of deprecate: a revoked version can be deprecated.               *)
DeprecateRevoked(p, v) ==
  /\ op[p] = Idle
  /\ Request
  /\ get(v)
  /\ mem[p].states[v] # "ACTIVE"
  /\ mem' = [mem EXCEPT ![p].states[v] = "DEPRECATED"]
  /\ op' = [op EXCEPT ![p] = [step |-> "save", revoked |-> {}]]
  /\ UNCHANGED <<records, file, reader, standing>>

deprecate(p, v) ==
  /\ op[p] = Idle
  /\ Request
  /\ get(v)
  /\ mem[p].states[v] \notin {"ACTIVE", "REVOKED"}
  /\ mem' = [mem EXCEPT ![p].states[v] = "DEPRECATED"]
  /\ op' = [op EXCEPT ![p] = [step |-> "save", revoked |-> {}]]
  /\ UNCHANGED <<records, file, reader, standing>>

(* Mutant of Withdrawn: the revoked version stays selected.                *)
WithdrawnSelected(m, v) == [m EXCEPT !.states[v] = "REVOKED"]

(* revoke verifies the digest only: a version of an untrusted signer can   *)
(* be revoked.                                                             *)
Withdrawn(m, v) ==
  [m EXCEPT !.states[v] = "REVOKED",
            !.active = IF @ = v THEN Blank ELSE @,
            !.revision = IF m.active = v THEN @ + 1 ELSE @]

revoke(p, v) ==
  /\ op[p] = Idle
  /\ Request
  /\ get(v)
  /\ mem' = [mem EXCEPT ![p] = Withdrawn(mem[p], v)]
  /\ op' = [op EXCEPT ![p] = [step |-> "save", revoked |-> {v}]]
  /\ UNCHANGED <<records, file, reader, standing>>

(* Mutant of Save: a revocation is not saved.                              *)
SaveUnlessRevoked(p) ==
  /\ op[p].step = "save"
  /\ file' = IF op[p].revoked = {} THEN mem[p] ELSE file
  /\ standing' = [q \in Processes |->
                    IF q = p THEN standing[p] \cup op[p].revoked ELSE {}]
  /\ op' = [op EXCEPT ![p] = Idle]
  /\ UNCHANGED <<records, mem, reader>>

(* _save_state replaces the file with the process's whole state, and the   *)
(* handler answers.                                                        *)
Save(p) ==
  /\ op[p].step = "save"
  /\ file' = mem[p]
  /\ standing' = [q \in Processes |->
                    IF q = p THEN standing[p] \cup op[p].revoked ELSE {}]
  /\ op' = [op EXCEPT ![p] = Idle]
  /\ UNCHANGED <<records, mem, reader>>

(* The save fails: the caller sees an error, the memory stays changed.     *)
SaveFails(p) ==
  /\ op[p].step = "save"
  /\ Fault
  /\ op' = [op EXCEPT ![p] = Idle]
  /\ UNCHANGED <<keyStores, requests, records, file, loaded, mem, reader,
                 standing>>

(* get_active: the selection, its lifecycle, the verification and the      *)
(* record are four reads.                                                  *)
ReadActive(p) ==
  /\ reader[p].step = "idle"
  /\ mem[p].active # Blank
  /\ reader' = [reader EXCEPT ![p] =
       [step |-> "lifecycle", version |-> mem[p].active,
        revokedVersions |-> {v \in Versions : mem[p].states[v] = "REVOKED"},
        revokedKeys |-> IF p = Admin THEN {k \in Keys : rows[k] = "REVOKED"}
                        ELSE loaded[p].revoked]]
  /\ UNCHANGED <<records, file, mem, op, standing>>

(* Mutant of Usable: the selected version is not verified again.           *)
UsableUnverified(p) ==
  reader[p].step = "lifecycle" => get(reader[p].version)

Usable(p) ==
  LET v == reader[p].version
  IN  CASE reader[p].step = "lifecycle" ->
             get(v) /\ mem[p].states[v] = "ACTIVE"
        [] reader[p].step = "verify" -> valid(p, records[v])
        [] reader[p].step = "get" -> get(v)

ReadOn(p) ==
  /\ reader[p].step \in {"lifecycle", "verify"}
  /\ reader' = [reader EXCEPT ![p] =
       IF Usable(p)
       THEN [reader[p] EXCEPT !.step =
               IF reader[p].step = "lifecycle" THEN "verify" ELSE "get"]
       ELSE NoReader]
  /\ UNCHANGED <<records, file, mem, op, standing>>

(* The last read: the caller gets the record, or an error.                 *)
Answer(p) ==
  /\ reader[p].step = "get"
  /\ reader' = [reader EXCEPT ![p] = NoReader]
  /\ UNCHANGED <<records, file, mem, op, standing>>

(* A record file is damaged after it was written: its content is no longer *)
(* that of the digest (None).                                              *)
Damage(v) ==
  /\ records[v] # None
  /\ Fault
  /\ records' = [records EXCEPT ![v].content = None]
  /\ UNCHANGED <<keyStores, requests, file, loaded, mem, op, reader, standing>>

(* A process restarts: _load_state reads the snapshot, TrustStore its file.*)
Restart(p) ==
  /\ IF p = Admin THEN KeyRestart /\ UNCHANGED loaded
     ELSE /\ Fault
          /\ loaded' = [loaded EXCEPT ![p] = trustFile]
          /\ UNCHANGED <<keyStores, requests>>
  /\ mem' = [mem EXCEPT ![p] = file]
  /\ op' = [op EXCEPT ![p] = Idle]
  /\ reader' = [reader EXCEPT ![p] = NoReader]
  /\ UNCHANGED <<records, file, standing>>

Requested(p) ==
  \/ \E v \in Versions, c \in Contents :
       \/ RegisterUnsigned(p, v, c)
       \/ \E k \in Keys : publish(p, v, c, k)
  \/ \E v \in Versions :
       \/ \E expected \in 0..MaxRevision \cup {None} : activate(p, v, expected)
       \/ deprecate(p, v)
       \/ revoke(p, v)

Continued(p) == \/ Put(p)
                \/ Save(p)
                \/ ReadActive(p)
                \/ ReadOn(p)
                \/ Answer(p)

Next == \/ \E p \in Processes :
             \/ Requested(p) /\ UNCHANGED <<keyStores, faults, loaded>>
             \/ Continued(p) /\ UNCHANGED <<keyVars, loaded>>
             \/ SaveFails(p)
             \/ Restart(p)
        \/ \E v \in Versions : Damage(v)
        \/ KeyStep /\ UNCHANGED registryVars

Spec == Init /\ [][Next]_vars

-------------------------------------------------------------------------------
(* What get_active returns.  Its four unlocked reads interleave with       *)
(* activations, revocations of versions and of keys, and damage to the     *)
(* record; still it never returns a version whose revocation this process  *)
(* had finished when the call began, nor one signed by a key revoked then, *)
(* nor content other than the content that was published.                  *)
ServedIsUsable ==
  \A p \in Processes : reader[p].step = "get" /\ Usable(p) =>
    LET r == records[reader[p].version]
    IN  /\ reader[p].version \notin reader[p].revokedVersions
        /\ r.signer \notin reader[p].revokedKeys \cup {None}
        /\ r.content = r.content_hash

(* The selected version, the state machine and the activation history of   *)
(* every process, and of the snapshot it will restart from, agree: exactly *)
(* the selected version is ACTIVE, and it is the one the last event        *)
(* selected, at the current revision.                                      *)
Coherent(m) ==
  /\ \A v \in Versions : m.states[v] = "ACTIVE" <=> m.active = v
  /\ m.active # Blank =>
       /\ m.history # <<>>
       /\ m.history[Len(m.history)].selected = m.active
       /\ m.history[Len(m.history)].revision = m.revision

SelectionCoherent == Coherent(file) /\ \A p \in Processes : Coherent(mem[p])

(* An acknowledged revocation is in the snapshot, so that it survives      *)
(* restarts and failed saves, until a process with an older copy of the    *)
(* state saves its own snapshot over it.                                   *)
RevocationStands ==
  \A p \in Processes : \A v \in standing[p] : file.states[v] = "REVOKED"

(* "revoked versions cannot be activated" (docs/policy-schema.md): within  *)
(* a process REVOKED is final, until it restarts from the snapshot.        *)
RevokedIsFinal ==
  [][\A p \in Processes, v \in Versions :
       mem[p].states[v] = "REVOKED" =>
         mem'[p].states[v] = "REVOKED" \/ mem'[p] = file]_vars
===============================================================================
