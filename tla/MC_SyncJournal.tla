--------------------------- MODULE MC_SyncJournal ---------------------------
(* Instances of SyncJournal for TLC.                                       *)
EXTENDS SyncJournal

Plain == {<<id, id>> : id \in Id}
=============================================================================
