-------------------------- MODULE MCGatewayServer --------------------------
(***************************************************************************)
(* GatewayServer for TLC: every object is a model value; one wallet can be *)
(* left and come back to, so that its keys meet a second Store.            *)
(***************************************************************************)
EXTENDS GatewayServer, TLC

CONSTANTS w1, w2, s1, s2, s3

Files == s1 :> w1 @@ s2 :> w2 @@ s3 :> w1
=============================================================================
