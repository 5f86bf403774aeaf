----------------------------- MODULE MCSimpleFS -----------------------------
(* SimpleFS on a disk with a handful of sectors.  Names and sector values  *)
(* are only compared, so they may be permuted.                             *)
EXTENDS SimpleFS, TLC

Symmetry == Permutations(Name) \cup Permutations(Data)
=============================================================================
