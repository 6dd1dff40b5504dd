------------------------------ MODULE Container ------------------------------
(***************************************************************************)
(* Migrating a journal to envelope version 2 while its devices synchronise *)
(* it.  A device upgrades its own files on launch (migrate_to_v2), the     *)
(* container is upgraded in place by the migrate_v2 tool, and an upgraded  *)
(* file ties with the version 1 copy of it, because `created` is kept      *)
(* (FORMAT.md 9.2).  The tool reads all files first and renames them one   *)
(* by one later, while devices push, purge and delete in the container.    *)
(*                                                                         *)
(* Sync says everything about passes, those that end early included; here  *)
(* it is joined by the version of each file and by the tool.  Rekey has    *)
(* the phases and failures of one migration in detail.                     *)
(***************************************************************************)
EXTENDS Sync

VARIABLES
    build,  \* the envelope version every device's build writes
    old,    \* directory -> the names that hold a version 1 envelope
    held    \* name -> the upgrade the tool has still to rename there, or NoFile

upgradeVars == <<build, old, held>>
allVars == <<vars, upgradeVars>>

Nothing == [n \in Name |-> NoFile]
Pending == {n \in Name : held[n] # NoFile}

TypeOKUpgrade ==
    /\ build \in {1, 2}
    /\ old \in [Dir -> SUBSET Name] /\ \A x \in Dir : old[x] \subseteq Present(x)
    /\ held \in [Name -> Envelope \cup {NoFile}]

InitUpgrade ==
    /\ Init
    /\ build = 1
    /\ old = [x \in Dir |-> {}]
    /\ held = Nothing

-----------------------------------------------------------------------------
(* Passes and the user, as in Sync, with the version of what they move.    *)

UntouchedNames(x) == old[x]

\* The version 1 files a step leaves as they were.
Untouched(x) == {n \in old[x] : entries'[x][n] = entries[x][n]}

SaveIn(d, id, date) ==
    /\ Save(d, id, date)
    /\ old' = [old EXCEPT ![d] =
           Untouched(d) \cup (IF build = 1 THEN {<<date, id>>} ELSE {})]
    /\ UNCHANGED <<build, held>>

\* A copy takes its version with it; the failed ones are the faults.
CopyIn(d, m) ==
    LET n   == <<m.date, m.id>>
        src == Place(d, m.from)
        dst == Place(d, Opposite(m.from))
    IN  /\ Copy(d, m)
        /\ old' = IF entries[src][n] = NoFile \/ faults' # faults THEN old
                  ELSE [old EXCEPT ![dst] = (@ \ {n}) \cup (old[src] \cap {n})]
        /\ UNCHANGED <<build, held>>

\* Nothing else a pass or the user does makes a file of either version.
Carry ==
    /\ old' = [x \in Dir |-> Untouched(x)]
    /\ UNCHANGED <<build, held>>

PassStepIn(d) ==
    \/ /\ \/ BeginPass(d) \/ Scan(d) \/ Purge(d) \/ Finish(d)
          \/ \E id \in Id : ApplyTomb(d, id)
       /\ Carry
    \/ \E m \in Move : CopyIn(d, m)

-----------------------------------------------------------------------------
(* The upgrade.                                                            *)

\* Every device moves to the build that writes version 2.
Install ==
    /\ build = 1
    /\ \A d \in Device : pc[d] = "idle"
    /\ build' = 2
    /\ UNCHANGED <<vars, old, held>>

OutdatedUnlessMixed(x) == IF old[x] = Present(x) THEN old[x] ELSE {}

\* The files a migration of a directory upgrades: it looks at every one, so a
\* directory that has both versions is finished.
Outdated(x) == old[x]

Restamped(e) == [e EXCEPT !.created = now]

\* migrate_v1_to_v2 seals the record again and keeps its header's fields.
Resealed(e) == e

\* migrate_to_v2, when the app starts.
Launch(d) ==
    /\ build = 2
    /\ pc[d] = "idle"
    /\ Outdated(d) # {}
    /\ entries' = [entries EXCEPT ![d] =
           [n \in Name |-> IF n \in Outdated(d) THEN Resealed(@[n]) ELSE @[n]]]
    /\ old' = [old EXCEPT ![d] = @ \ Outdated(d)]
    /\ UNCHANGED <<tomb, now, newest, deleted, passVars, faults, build, held>>

\* The tool's passphrase has opened some file (they all are under one key), it
\* has read every version 1 file of the container and written the upgrades to
\* temps.  With nothing to upgrade it stops before that.
BeginUpgrade ==
    /\ build = 2
    /\ Pending = {}
    /\ Outdated(Container) # {}
    /\ held' = [n \in Name |-> IF n \in Outdated(Container)
                               THEN Resealed(entries[Container][n]) ELSE NoFile]
    /\ UNCHANGED <<vars, build, old>>

\* It renames a temp over whatever has its name by then, or nothing.
Upgrade(n) ==
    /\ n \in Pending
    /\ entries' = [entries EXCEPT ![Container][n] = held[n]]
    /\ old' = [old EXCEPT ![Container] = @ \ {n}]
    /\ held' = [held EXCEPT ![n] = NoFile]
    /\ UNCHANGED <<tomb, now, newest, deleted, passVars, faults, build>>

\* A rename fails, or the process ends; the tool can be run again.
UpgradeStops ==
    /\ Pending # {}
    /\ held' = Nothing
    /\ UNCHANGED <<vars, build, old>>

NextUpgrade ==
    \/ \E d \in Device, id \in Id, date \in Date : SaveIn(d, id, date)
    \/ \E d \in Device, id \in Id : Delete(d, id) /\ Carry
    \/ \E d \in Device : PassStepIn(d)
    \/ Install
    \/ \E d \in Device : Launch(d)
    \/ BeginUpgrade
    \/ \E n \in Name : Upgrade(n)
    \/ UpgradeStops

SpecUpgrade == InitUpgrade /\ [][NextUpgrade]_allVars

\* Passes as in Sync; apps are started and the tool is run again and again, and
\* now and then a run of it gets through.
FairSpecUpgrade ==
    /\ SpecUpgrade
    /\ \A d \in Device :
         /\ SF_allVars(BeginPass(d) /\ Carry)
         /\ WF_allVars(PassStepIn(d) /\ pc[d] # "idle")
         /\ SF_allVars(Launch(d))
    /\ SF_allVars(BeginUpgrade)
    /\ SF_allVars(\E n \in Name : Upgrade(n))

-----------------------------------------------------------------------------
\* Once the new build is installed, no version 1 file is left or comes back,
\* in whatever order devices and container are upgraded and pushed.
AllUpgraded == <>[](build = 2 => \A x \in Dir : old[x] = {})
=============================================================================
