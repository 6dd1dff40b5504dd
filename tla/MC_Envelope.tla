----------------------------- MODULE MC_Envelope -----------------------------
(* An instance of Envelope for TLC.                                        *)
EXTENDS Envelope, TLC

Symmetry == Permutations(Key) \cup Permutations(Label) \cup Permutations(Cek)
                \cup Permutations(Plain) \cup Permutations(Stamp)
=============================================================================
