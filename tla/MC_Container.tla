---------------------------- MODULE MC_Container ----------------------------
(* Instances of Container for TLC.                                         *)
EXTENDS Container, TLC

\* No id ends another, as with fresh UUIDs.
Plain == {<<id, id>> : id \in Id}
=============================================================================
