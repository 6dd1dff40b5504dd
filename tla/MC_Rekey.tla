------------------------------ MODULE MC_Rekey ------------------------------
(* An instance of Rekey for TLC.                                           *)
EXTENDS Rekey, TLC

Symmetry == Permutations(File) \cup Permutations(Key)
=============================================================================
