--------------------------- MODULE NonceLifecycle ---------------------------
(***************************************************************************)
(* What the execution barrier promises about one authorization nonce, as a *)
(* specification of its own.  A nonce is granted for one request or denied *)
(* for good; a granted nonce may be consumed once; a consumed nonce may    *)
(* have its effect once, for exactly the request it was granted for; the   *)
(* outcome of that effect may be recorded once.  Nothing returns a nonce   *)
(* to an earlier stage.  Dying at any stage is allowed: it is stuttering.  *)
(*                                                                         *)
(* SPEC.md section 13 and docs/security-model.md ("At-most-once            *)
(* authorization, not exactly-once effects") state this in prose; module   *)
(* Barrier implements it.                                                  *)
(***************************************************************************)
CONSTANTS Nonces, Requests, NoRequest

VARIABLES stage,    \* stage of every nonce
          granted,  \* the request a nonce was granted for
          effect    \* the request that was carried out under a nonce

vars == <<stage, granted, effect>>

Stages == {"fresh", "denied", "granted", "consumed", "performed",
           "completed", "failed"}

Init == /\ stage = [n \in Nonces |-> "fresh"]
        /\ granted = [n \in Nonces |-> NoRequest]
        /\ effect = [n \in Nonces |-> NoRequest]

Move(n, from, to) == /\ stage[n] = from
                     /\ stage' = [stage EXCEPT ![n] = to]

Deny(n) == Move(n, "fresh", "denied") /\ UNCHANGED <<granted, effect>>

Grant(n, r) == /\ Move(n, "fresh", "granted")
               /\ granted' = [granted EXCEPT ![n] = r]
               /\ UNCHANGED effect

Consume(n) == Move(n, "granted", "consumed") /\ UNCHANGED <<granted, effect>>

Perform(n) == /\ Move(n, "consumed", "performed")
              /\ effect' = [effect EXCEPT ![n] = granted[n]]
              /\ UNCHANGED granted

Record(n, outcome) == /\ Move(n, "performed", outcome)
                      /\ UNCHANGED <<granted, effect>>

(* A step moves one nonce on. *)
Next == \E n \in Nonces :
          /\ stage'[n] # stage[n]
          /\ \/ Deny(n)
             \/ \E r \in Requests : Grant(n, r)
             \/ Consume(n)
             \/ Perform(n)
             \/ \E outcome \in {"completed", "failed"} : Record(n, outcome)

Spec == Init /\ [][Next]_vars
=============================================================================
