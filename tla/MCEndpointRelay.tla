--------------------------- MODULE MCEndpointRelay ---------------------------
(***************************************************************************)
(* EndpointRelay for TLC: the bounds are given in the configuration.       *)
(***************************************************************************)
EXTENDS EndpointRelay
=============================================================================
