---------------------------- MODULE MCBotGateway ----------------------------
(* Three deliveries of two messages.                                           *)
EXTENDS BotGateway

CONSTANTS e1, e2, e3, k1, k2

MCKey == (e1 :> k1) @@ (e2 :> k2) @@ (e3 :> k1)
=============================================================================
