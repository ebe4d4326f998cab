---------------------------- MODULE MCAppLifecycle ----------------------------
(***************************************************************************)
(* AppLifecycle for TLC: wallets and RPC settings are model values, and    *)
(* wallets, and ways to write a key, are interchangeable.                  *)
(***************************************************************************)
EXTENDS AppLifecycle, TLC

Symmetry == Permutations(Wallets) \cup Permutations(Forms)
=============================================================================
