------------------------------- MODULE Journal -------------------------------
(***************************************************************************)
(* What replicas promise to whoever writes on them: for every id a replica *)
(* shows nothing, one version, or that the entry is gone for good.         *)
(* Versions are numbered by their stamps, "gone" is above every version,   *)
(* and a replica only ever moves up, to a version fresh from its own       *)
(* writer or to what some other replica shows.                             *)
(***************************************************************************)
EXTENDS Naturals

CONSTANTS
    Replica,  \* every directory
    Writer,   \* the replicas a user writes on
    Id,
    Gone      \* above every stamp

VARIABLE view  \* replica -> id -> 0 for nothing, a stamp, or Gone

Init == view = [x \in Replica |-> [id \in Id |-> 0]]

\* A version newer than any replica shows of the id, over one the writer has;
\* or the first of all.
Write(d, id) ==
    /\ view[d][id] # 0 \/ \A x \in Replica : view[x][id] = 0
    /\ view[d][id] < Gone
    /\ \E s \in 1 .. Gone - 1 :
         /\ \A x \in Replica : view[x][id] < Gone => s > view[x][id]
         /\ view' = [view EXCEPT ![d][id] = s]

Remove(d, id) ==
    /\ view[d][id] \in 1 .. Gone - 1
    /\ view' = [view EXCEPT ![d][id] = Gone]

\* x catches up with y.
Adopt(x, y, id) ==
    /\ view[y][id] > view[x][id]
    /\ view' = [view EXCEPT ![x][id] = view[y][id]]

Next ==
    \/ \E d \in Writer, id \in Id : Write(d, id) \/ Remove(d, id)
    \/ \E x, y \in Replica, id \in Id : Adopt(x, y, id)

Spec == Init /\ [][Next]_view

-----------------------------------------------------------------------------
\* The replicas end up showing the same.
Meet == <>[](\A x, y \in Replica : view[x] = view[y])
=============================================================================
