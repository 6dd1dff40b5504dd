------------------------------- MODULE MC_Sync -------------------------------
(* Instances of Sync for TLC.                                              *)
EXTENDS Sync, TLC

\* Devices and dates are interchangeable.
Symmetry == Permutations(Device) \cup Permutations(Date)

\* No id ends another, as with fresh UUIDs.
Plain == {<<id, id>> : id \in Id}

\* One id is the tail of another, as "b" is of "x_b".
Tailed == Plain \cup {CHOOSE p \in Id \X Id : p[1] # p[2]}
=============================================================================
