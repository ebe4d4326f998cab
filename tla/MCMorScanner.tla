---------------------------- MODULE MCMorScanner ----------------------------
(***************************************************************************)
(* MorScanner for TLC: its constants take their values in the cfg.         *)
(***************************************************************************)
EXTENDS MorScanner
=============================================================================
