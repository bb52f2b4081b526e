----------------------------- MODULE MCFederation -----------------------------
(* Instances of Federation for TLC.                                        *)
EXTENDS Federation, TLC

CONSTANTS east, west, p, q, x, y, ke, kw

MCOrgKey == east :> ke @@ west :> kw

Own(id, c, v, k) == [policy |-> id,
                     entry |-> [content |-> c, version |-> v, signer |-> k]]

(* east signs p and q; west has an own q, signed or not, in two contents.  *)
MCLocal == east :> {Own(p, x, 1, ke), Own(q, x, 1, ke), Own(q, x, 2, ke)}
           @@ west :> {Own(q, y, 1, kw), Own(q, x, 1, None)}
===============================================================================
