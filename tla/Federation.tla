------------------------------ MODULE Federation ------------------------------
(***************************************************************************)
(* Policy federation between organizations: GovernanceSyncEnvelope and     *)
(* GovernanceReconciler (federation.py) over the PolicyRegistry with       *)
(* signed manifests (policy.py) that every organization keeps in a file.   *)
(*                                                                         *)
(* An envelope, once sent, may be delivered late, repeatedly, out of order *)
(* or never.  A reconciliation imports one policy at a time and saves the  *)
(* registry after each, so it may fail, and the process may stop, half     *)
(* way.  The nonces it has seen are kept in memory only.  The registry is  *)
(* not changed by anyone else during a reconciliation.                     *)
(*                                                                         *)
(* A policy's digest is its content, Ed25519 is ideal, and a snapshot's    *)
(* digest is what from_registry digests: the entries, not the sender.      *)
(***************************************************************************)
EXTENDS Naturals, FiniteSets

CONSTANTS Orgs, Policies, Contents, Keys,
          OrgKey,       \* organization_keys: the signing key of an org
          Local,        \* entries an organization may register itself
          MaxVersion,   \* bound of manifest versions
          MaxSent,      \* bound of envelopes
          MaxTime, MaxAge,
          MaxFaults,    \* bound of restarts and failed saves
          MaxRevoked,   \* bound of revoked keys
          None

Entry == [content : Contents, version : 1..MaxVersion,
          signer : Keys \cup {None}]

Registry == [Policies -> Entry \cup {None}]

ASSUME FederationConstants ==
  /\ OrgKey \in [Orgs -> Keys]
  /\ Local \in [Orgs -> SUBSET [policy : Policies, entry : Entry]]
  /\ \A e \in UNION {Local[o] : o \in Orgs} :
       e.entry.signer = None => e.entry.version = 1
  /\ None \notin Keys /\ None \notin Entry
  /\ MaxVersion \in Nat /\ MaxSent \in Nat /\ MaxTime \in Nat
  /\ MaxAge \in Nat /\ MaxFaults \in Nat /\ MaxRevoked \in Nat

Envelope == [source : Orgs, target : Orgs, nonce : 1..MaxSent,
             issued_at : 0..MaxTime, policies : Registry]

VARIABLES registry,  \* PolicyRegistry of an organization
          file,      \* what its file holds
          trusted,   \* keys its trust store resolves
          sent,      \* envelopes in the network
          seen,      \* _seen_nonces of its reconciler
          task,      \* its reconciliation in progress, or None
          down,      \* organizations whose registry refused to load
          now,
          faults,
          adopted    \* history: envelopes reported "adopted"

vars == <<registry, file, trusted, sent, seen, task, down, now, faults, adopted>>

Task == [envelope : Envelope, todo : SUBSET Policies, conflict : BOOLEAN]

TypeOK == /\ registry \in [Orgs -> Registry]
          /\ file \in [Orgs -> Registry]
          /\ trusted \in [Orgs -> SUBSET Keys]
          /\ sent \subseteq Envelope
          /\ seen \in [Orgs -> SUBSET (Orgs \X (1..MaxSent))]
          /\ task \in [Orgs -> Task \cup {None}]
          /\ down \subseteq Orgs
          /\ now \in 0..MaxTime
          /\ faults \in 0..MaxFaults
          /\ adopted \in [Orgs -> SUBSET Envelope]

EmptyRegistry == [p \in Policies |-> None]

Init == /\ registry = [o \in Orgs |-> EmptyRegistry]
        /\ file = registry
        /\ trusted = [o \in Orgs |-> Keys]
        /\ sent = {}
        /\ seen = [o \in Orgs |-> {}]
        /\ task = [o \in Orgs |-> None]
        /\ down = {}
        /\ now = 0
        /\ faults = 0
        /\ adopted = [o \in Orgs |-> {}]

Ready(o) == o \notin down /\ task[o] = None

Fault == faults < MaxFaults /\ faults' = faults + 1

Registered(o, p, e) == [registry EXCEPT ![o][p] = e]

(* PolicyRegistry.register: in memory only.  A known id is left as it is.  *)
register(o, p, e) ==
  /\ Ready(o)
  /\ e.signer = None
  /\ registry[o][p] = None
  /\ registry' = Registered(o, p, e)
  /\ UNCHANGED <<file, trusted, sent, seen, task, down, now, faults, adopted>>

(* Mutant of Acceptable: a higher version may change the content.          *)
AcceptableNewer(o, p, e) ==
  /\ e.signer \in trusted[o]
  /\ registry[o][p] # None => e.version > registry[o][p].version

(* register_signed: a verified manifest, a new id or a higher version of   *)
(* the same content; then the file is saved, unless the save fails.        *)
Acceptable(o, p, e) ==
  /\ e.signer \in trusted[o]
  /\ registry[o][p] # None =>
       e.version > registry[o][p].version /\ e.content = registry[o][p].content

register_signed(o, p, e) ==
  /\ Ready(o)
  /\ Acceptable(o, p, e)
  /\ registry' = Registered(o, p, e)
  /\ \/ file' = [file EXCEPT ![o] = registry'[o]] /\ UNCHANGED faults
     \/ Fault /\ UNCHANGED file
  /\ UNCHANGED <<trusted, sent, seen, task, down, now, adopted>>

(* RegistrySnapshot: every entry, with its manifest when it has one.       *)
from_registry(o) == registry[o]

(* SignedSyncEvent.issue and GovernanceSyncEnvelope.issue, with a fresh    *)
(* nonce.                                                                  *)
Send(o, q) ==
  /\ Ready(o)
  /\ o # q
  /\ Cardinality(sent) < MaxSent
  /\ sent' = sent \cup {[source |-> o, target |-> q,
                         nonce |-> Cardinality(sent) + 1, issued_at |-> now,
                         policies |-> from_registry(o)]}
  /\ UNCHANGED <<registry, file, trusted, seen, task, down, now, faults, adopted>>

ReplayKey(m) == <<m.source, m.nonce>>

Ids(r) == {p \in Policies : r[p] # None}

(* GovernanceSyncEnvelope.verify: the signature binds the event to its     *)
(* snapshot, and event and envelope have one signer.                       *)
EnvelopeVerified(o, m) == OrgKey[m.source] \in trusted[o]

(* What reconcile checks before it marks the nonce.                        *)
Verified(o, m) == /\ m.target = o
                  /\ ReplayKey(m) \notin seen[o]
                  /\ now - m.issued_at <= MaxAge
                  /\ EnvelopeVerified(o, m)

Begin(o, m) ==
  /\ Ready(o)
  /\ m \in sent
  /\ Verified(o, m)
  /\ seen' = [seen EXCEPT ![o] = @ \cup {ReplayKey(m)}]
  /\ task' = [task EXCEPT ![o] =
       IF m.policies = registry[o] THEN None   \* "identical"
       ELSE [envelope |-> m, todo |-> Ids(m.policies), conflict |-> FALSE]]
  /\ UNCHANGED <<registry, file, trusted, sent, down, now, faults, adopted>>

(* One pass of the loop over the remote policies.                          *)
Remote(o, p) == task[o].envelope.policies[p]

Advance(o, p, conflict) ==
  task' = [task EXCEPT ![o] =
             [envelope |-> task[o].envelope, todo |-> task[o].todo \ {p},
              conflict |-> task[o].conflict \/ conflict]]

(* The id is known here: it is kept, and a different content is a conflict.*)
Keep(o, p) ==
  /\ registry[o][p] # None
  /\ Advance(o, p, registry[o][p].content # Remote(o, p).content)
  /\ UNCHANGED <<registry, file, faults>>

(* The id is new and its manifest verifies.  When the save fails the error *)
(* ends the reconciliation, the memory keeps the import.                   *)
ImportNew(o, p) ==
  /\ registry[o][p] = None
  /\ Remote(o, p).signer # None /\ Acceptable(o, p, Remote(o, p))
  /\ registry' = Registered(o, p, Remote(o, p))
  /\ \/ /\ file' = [file EXCEPT ![o] = registry'[o]]
        /\ Advance(o, p, FALSE)
        /\ UNCHANGED faults
     \/ /\ Fault
        /\ task' = [task EXCEPT ![o] = None]
        /\ UNCHANGED file

(* The id is new and unsigned, or its signer is not trusted: the error     *)
(* ends the reconciliation; what it imported so far stays.                 *)
RefuseNew(o, p) ==
  /\ registry[o][p] = None
  /\ ~ (Remote(o, p).signer # None /\ Acceptable(o, p, Remote(o, p)))
  /\ task' = [task EXCEPT ![o] = None]
  /\ UNCHANGED <<registry, file, faults>>

Reconcile(o, p) ==
  /\ task[o] # None
  /\ p \in task[o].todo
  /\ Keep(o, p) \/ ImportNew(o, p) \/ RefuseNew(o, p)
  /\ UNCHANGED <<trusted, sent, seen, down, now, adopted>>

(* The end of the loop.  "conflict" returns without the final save.        *)
Conflicted(o) ==
  /\ task[o] # None /\ task[o].todo = {} /\ task[o].conflict
  /\ task' = [task EXCEPT ![o] = None]
  /\ UNCHANGED <<registry, file, trusted, sent, seen, down, now, faults, adopted>>

(* Mutant of Adopt: no final save.                                         *)
AdoptUnsaved(o) ==
  /\ task[o] # None /\ task[o].todo = {} /\ ~ task[o].conflict
  /\ adopted' = [adopted EXCEPT ![o] = @ \cup {task[o].envelope}]
  /\ task' = [task EXCEPT ![o] = None]
  /\ UNCHANGED <<registry, file, trusted, sent, seen, down, now, faults>>

Adopt(o) ==
  /\ task[o] # None /\ task[o].todo = {} /\ ~ task[o].conflict
  /\ \/ /\ file' = [file EXCEPT ![o] = registry[o]]
        /\ adopted' = [adopted EXCEPT ![o] = @ \cup {task[o].envelope}]
        /\ UNCHANGED faults
     \/ Fault /\ UNCHANGED <<file, adopted>>
  /\ task' = [task EXCEPT ![o] = None]
  /\ UNCHANGED <<registry, trusted, sent, seen, down, now>>

Revoked == {x \in Orgs \X Keys : x[2] \notin trusted[x[1]]}

RevokeTrust(o, k) ==
  /\ Cardinality(Revoked) < MaxRevoked
  /\ trusted' = [trusted EXCEPT ![o] = @ \ {k}]
  /\ UNCHANGED <<registry, file, sent, seen, task, down, now, faults, adopted>>

(* A restart: _load refuses the whole file when one manifest's signer is   *)
(* no longer trusted.                                                      *)
Loadable(o) == \A p \in Ids(file[o]) :
                 file[o][p].signer # None => file[o][p].signer \in trusted[o]

(* Mutant of Restart: the registry starts empty.                           *)
RestartEmpty(o) ==
  /\ Fault
  /\ registry' = [registry EXCEPT ![o] = EmptyRegistry]
  /\ seen' = [seen EXCEPT ![o] = {}]
  /\ task' = [task EXCEPT ![o] = None]
  /\ UNCHANGED <<file, trusted, sent, down, now, adopted>>

Restart(o) ==
  /\ Fault
  /\ IF Loadable(o)
     THEN registry' = [registry EXCEPT ![o] = file[o]] /\ down' = down \ {o}
     ELSE down' = down \cup {o} /\ UNCHANGED registry
  /\ seen' = [seen EXCEPT ![o] = {}]
  /\ task' = [task EXCEPT ![o] = None]
  /\ UNCHANGED <<file, trusted, sent, now, adopted>>

Tick == /\ now < MaxTime
        /\ now' = now + 1
        /\ UNCHANGED <<registry, file, trusted, sent, seen, task, down, faults,
                       adopted>>

Next == \/ \E o \in Orgs :
             \/ \E e \in Local[o] : \/ register(o, e.policy, e.entry)
                                    \/ register_signed(o, e.policy, e.entry)
             \/ \E q \in Orgs : Send(o, q)
             \/ \E m \in sent : Begin(o, m)
             \/ \E p \in Policies : Reconcile(o, p)
             \/ Conflicted(o)
             \/ Adopt(o)
             \/ \E k \in Keys : RevokeTrust(o, k)
             \/ Restart(o)
        \/ Tick

Spec == Init /\ [][Next]_vars

-------------------------------------------------------------------------------
(* A snapshot reported "adopted" stays adopted: each of its policies is in *)
(* the file with the content that was sent, after every later delivery,    *)
(* conflict, failed save and restart.                                      *)
AdoptedIsDurable ==
  \A o \in Orgs : \A m \in adopted[o] : \A p \in Ids(m.policies) :
    file[o][p] # None /\ file[o][p].content = m.policies[p].content

(* Losing _seen_nonces in a restart does no harm: an envelope that was     *)
(* adopted before and is accepted again has nothing to import.             *)
ReplayImportsNothing ==
  \A o \in Orgs \ down : task[o] # None /\ task[o].envelope \in adopted[o] =>
    Ids(task[o].envelope.policies) \subseteq Ids(registry[o])

(* "In-process immutable-by-ID policy registry" (policy.py:278): the       *)
(* content under an id never changes, neither by a delayed or conflicting  *)
(* snapshot nor by a reload, and without a restart its version never goes  *)
(* back.                                                                   *)
ImmutableById ==
  [][\A o \in Orgs : \A p \in Ids(registry[o]) : registry'[o][p] # None =>
       /\ registry'[o][p].content = registry[o][p].content
       /\ registry'[o][p].version >= registry[o][p].version
            \/ registry'[o] = file[o]]_vars
===============================================================================
