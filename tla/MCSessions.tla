------------------------------ MODULE MCSessions ------------------------------
EXTENDS Sessions, TLC

CONSTANTS ann, bob

MCClaims == (ann :> {"platform_admin"}) @@ (bob :> {})
(* Long enough for two logins and what follows a logout.                   *)
MCMaxRequests == [d \in Deployments |-> CASE d = "local" -> 5
                                         [] d = "api"   -> 3
                                         [] OTHER       -> 4]
===============================================================================
