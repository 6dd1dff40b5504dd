----------------------------- MODULE SyncJournal -----------------------------
(***************************************************************************)
(* Sync, as long as one pass runs at a time, is the journal of Journal.tla *)
(* in which every directory is a replica.                                  *)
(***************************************************************************)
EXTENDS Sync

Gone == MaxStamp + 1

\* A tombstone outranks whatever envelopes are left; of those the newest
\* counts, which is what scan keeps.
View ==
    [x \in Dir |-> [id \in Id |->
        IF id \in tomb[x] THEN Gone
        ELSE CHOOSE s \in 0 .. MaxStamp :
               /\ \A n \in Vouched(x) : n[2] = id => entries[x][n].created <= s
               /\ s = 0 \/ \E n \in Vouched(x) : n[2] = id /\ entries[x][n].created = s]]

J == INSTANCE Journal WITH Replica <- Dir, Writer <- Device, view <- View

\* Every step of the devices is a step of the journal or changes no view.
ImplementsJournal == J!Spec

\* All directories end up with the same view of every id.
ViewsMeet == J!Meet
=============================================================================
