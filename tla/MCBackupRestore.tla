--------------------------- MODULE MCBackupRestore ---------------------------
(***************************************************************************)
(* BackupRestore for TLC: ids are model values and interchangeable within  *)
(* a table, and so are the wallets.                                        *)
(***************************************************************************)
EXTENDS BackupRestore, TLC

Symmetry == Permutations(Wallets) \cup Permutations(Messages)
=============================================================================
