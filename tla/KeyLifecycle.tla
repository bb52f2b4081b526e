----------------------------- MODULE KeyLifecycle -----------------------------
(***************************************************************************)
(* KeyLifecycleManager (key_lifecycle.py) over the file-backed TrustStore  *)
(* (trust.py) of the same process.  The trust store keeps its keys in      *)
(* memory and rewrites its file at every change; the manager keeps one row *)
(* per key in SQLite.  An operation writes the two one after the other, so *)
(* either write may fail, and the process may stop, in between.  The       *)
(* manager's lock serialises its operations.  The trust store here has no  *)
(* other writer; Governance.tla and Barrier.tla model the ones it has.     *)
(***************************************************************************)
EXTENDS Naturals

CONSTANTS Keys,
          InitialKeys,  \* the keys registered so far
          MaxRequests,  \* bound of the requests that change something
          MaxFaults,    \* bound of failed writes and restarts
          None

Status == {"ACTIVE", "ROTATED", "REVOKED"}

ASSUME KeyConstants ==
  /\ InitialKeys \subseteq Keys
  /\ None \notin Keys \cup Status
  /\ MaxRequests \in Nat
  /\ MaxFaults \in Nat

VARIABLES trust,      \* TrustStore in memory: known and revoked key ids
          trustFile,  \* what its file holds
          rows,       \* key_lifecycle table: status of a key, or None
          keyOp,      \* the operation in progress
          asked,      \* history: keys whose revocation was requested
          requests,   \* counts the requests
          faults      \* counts what goes wrong

keyStores == <<trust, trustFile, rows, keyOp, asked>>
keyVars == <<trust, trustFile, rows, keyOp, asked, requests, faults>>

TrustState == [known : SUBSET Keys, revoked : SUBSET Keys]

Idle == [step |-> "idle"]

KeyOps == {Idle}
          \cup [step : {"insert"}, key : Keys, old : Keys \cup {None}]
          \cup [step : {"rotate", "mark"}, key : Keys]

KeyTypeOK == /\ trust \in TrustState
             /\ trustFile \in TrustState
             /\ rows \in [Keys -> Status \cup {None}]
             /\ keyOp \in KeyOps
             /\ asked \subseteq Keys
             /\ requests \in 0..MaxRequests
             /\ faults \in 0..MaxFaults

KeyInit == /\ trust = [known |-> InitialKeys, revoked |-> {}]
           /\ trustFile = trust
           /\ rows = [k \in Keys |-> IF k \in InitialKeys THEN "ACTIVE"
                                    ELSE None]
           /\ keyOp = Idle
           /\ asked = {}
           /\ requests = 0
           /\ faults = 0

Request == requests < MaxRequests /\ requests' = requests + 1

Fault == faults < MaxFaults /\ faults' = faults + 1

resolve(t, k) == k \in t.known /\ k \notin t.revoked

(* Mutant of Store: an error of _save is swallowed.                        *)
StoreUnchecked(new, next) ==
  /\ trust' = new
  /\ keyOp' = next
  /\ \/ trustFile' = new /\ UNCHANGED faults
     \/ UNCHANGED trustFile /\ Fault

(* TrustStore.add gives a revoked key a new start.  _save runs after the   *)
(* memory changed: when it fails the caller sees an error, and the memory  *)
(* keeps the change.                                                       *)
Store(new, next) ==
  /\ trust' = new
  /\ \/ trustFile' = new /\ keyOp' = next /\ UNCHANGED faults
     \/ UNCHANGED trustFile /\ keyOp' = Idle /\ Fault

addTrust(k, next) ==
  /\ ~ resolve(trust, k)
  /\ Store([known |-> trust.known \cup {k}, revoked |-> trust.revoked \ {k}],
           next)

revokeTrust(k, next) ==
  /\ k \in trust.known
  /\ Store([trust EXCEPT !.revoked = @ \cup {k}], next)

(* register refuses a key that has a row, or that the trust store trusts.  *)
register(k, old) ==
  /\ keyOp = Idle
  /\ Request
  /\ rows[k] = None
  /\ addTrust(k, [step |-> "insert", key |-> k, old |-> old])
  /\ UNCHANGED <<rows, asked>>

RegisterKey(k) == register(k, None)

(* rotate registers the new key before it marks the old one.               *)
RotateKey(old, new) ==
  /\ rows[old] = "ACTIVE"
  /\ register(new, old)

InsertRow ==
  /\ keyOp.step = "insert"
  /\ rows' = [rows EXCEPT ![keyOp.key] = "ACTIVE"]
  /\ keyOp' = IF keyOp.old = None THEN Idle
              ELSE [step |-> "rotate", key |-> keyOp.old]
  /\ UNCHANGED <<trust, trustFile, asked, requests, faults>>

RevokeKey(k) ==
  /\ keyOp = Idle
  /\ Request
  /\ rows[k] # None
  /\ asked' = asked \cup {k}
  /\ revokeTrust(k, [step |-> "mark", key |-> k])
  /\ UNCHANGED rows

(* Mutant of UpdateRow: rotate takes the trust from the old key.           *)
UpdateRowUntrusts ==
  /\ keyOp.step \in {"rotate", "mark"}
  /\ rows' = [rows EXCEPT ![keyOp.key] =
                IF keyOp.step = "rotate" THEN "ROTATED" ELSE "REVOKED"]
  /\ trust' = [trust EXCEPT !.revoked = @ \cup {keyOp.key}]
  /\ keyOp' = Idle
  /\ UNCHANGED <<trustFile, asked, requests, faults>>

(* The closing UPDATE of rotate and of revoke.                             *)
UpdateRow ==
  /\ keyOp.step \in {"rotate", "mark"}
  /\ rows' = [rows EXCEPT ![keyOp.key] =
                IF keyOp.step = "rotate" THEN "ROTATED" ELSE "REVOKED"]
  /\ keyOp' = Idle
  /\ UNCHANGED <<trust, trustFile, asked, requests, faults>>

(* A SQLite error in INSERT or UPDATE leaves the trust store as it is.     *)
RowFails ==
  /\ keyOp # Idle
  /\ Fault
  /\ keyOp' = Idle
  /\ UNCHANGED <<trust, trustFile, rows, asked, requests>>

(* The process stops; the next one loads the file.                         *)
KeyRestart ==
  /\ Fault
  /\ trust' = trustFile
  /\ keyOp' = Idle
  /\ UNCHANGED <<trustFile, rows, asked, requests>>

trust_list == {k \in Keys : rows[k] \in {"ACTIVE", "ROTATED"}}

KeyStep == \/ \E k \in Keys : RegisterKey(k) \/ RevokeKey(k)
           \/ \E old, new \in Keys : RotateKey(old, new)
           \/ InsertRow
           \/ UpdateRow
           \/ RowFails

KeyNext == KeyStep \/ KeyRestart

KeySpec == KeyInit /\ [][KeyNext]_keyVars

(* "revoked keys are removed from trust immediately" (key_lifecycle.py:4): *)
(* a REVOKED row means that the key resolves neither now nor after a       *)
(* restart, whatever writes failed on the way there.                       *)
RevokedIsUntrusted ==
  \A k \in Keys : rows[k] = "REVOKED" =>
    k \in trust.revoked /\ k \in trustFile.revoked

(* "Rotated keys stay trusted so previously issued artifacts remain        *)
(* verifiable" (key_lifecycle.py:3): only a call of revoke takes the trust *)
(* from a key that trust_list names; a failed rotation, a crash and a      *)
(* reload do not.                                                          *)
ListedIsTrusted ==
  \A k \in trust_list \ asked :
    resolve(trust, k) /\ resolve(trustFile, k)
===============================================================================
