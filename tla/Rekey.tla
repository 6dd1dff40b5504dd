------------------------------- MODULE Rekey -------------------------------
(***************************************************************************)
(* Two operations that rewrite a whole vault: enroll_to_master, which      *)
(* wraps every record's content key under a new root key, and              *)
(* migrate_files_to_v2, which seals every version 1 record again           *)
(* (store.rs).  Both compute in memory, write temp files, then rename one  *)
(* file at a time; enrollment rewrites the manifest last.                  *)
(*                                                                         *)
(* A file keeps its version, the root key its content key is wrapped       *)
(* under, the number of the save whose text it holds, and what of it is    *)
(* intact.  What a wrap or a payload binds is the subject of Envelope.     *)
(* All files are read in one step: of a file only the time between its     *)
(* reading and its renaming matters.                                       *)
(***************************************************************************)
EXTENDS Naturals, FiniteSets

CONSTANTS
    File,       \* entries/*.hlj and media/*.hla of one vault
    Key,        \* root keys: the device's, and masters derived later
    MaxSave,    \* bound: how often each file is saved
    Env,        \* what the environment may do: see EnvKind
    MaxFaults,  \* bound: how many things go wrong in one behaviour
    NoFile      \* no temp file; nothing to write

EnvKind ==
    { "stage",   \* before the first rename: a temp cannot be written, a crash
      "commit",  \* from the first rename on: a rename or the manifest fails,
                 \* a crash
      "remove",  \* a temp cannot be removed
      "damage",  \* a stored file is damaged
      "busy" }   \* a save during a migration, which takes the store shared

ASSUME FileAssumption  == IsFiniteSet(File) /\ File # {}
ASSUME BoundAssumption == MaxSave \in Nat /\ MaxFaults \in Nat
ASSUME EnvAssumption   == Env \subseteq EnvKind

\* "payload": only the payload is damaged, the content key still unwraps.
Form == {"sound", "payload", "wrap"}

Version == [v : {1, 2}, key : Key, save : 0 .. MaxSave, form : Form]

ASSUME SentinelAssumption == NoFile \notin Version

Job == {"enroll", "migrate"}

VARIABLES
    disk,      \* file -> Version
    temp,      \* job -> file -> its ".rekey" or ".v2" temp, or NoFile
    live,      \* the key of the open Store
    manifest,  \* the key a restart finds, through vault.json
    job,       \* the operation under way, or "none"
    phase,     \* where it is
    pending,   \* what it computed for each file
    todo,      \* the files its phase has still to write or rename
    target,    \* the key of the last enrollment that got past its reading
    before,    \* the files as the operation found them (history)
    saves,     \* file -> its last save (history)
    faults     \* how many things went wrong so far

jobVars == <<job, phase, pending, todo>>
vars == <<disk, temp, live, manifest, job, phase, pending, todo, target,
          before, saves, faults>>

Maybe == [File -> Version \cup {NoFile}]

TypeOK ==
    /\ disk \in [File -> Version]
    /\ temp \in [Job -> Maybe]
    /\ live \in Key /\ manifest \in Key /\ target \in Key
    /\ job \in Job \cup {"none"}
    /\ phase \in {"idle", "stage", "commit", "manifest"}
    /\ pending \in Maybe
    /\ todo \subseteq File
    /\ before \in [File -> Version]
    /\ saves \in [File -> 0 .. MaxSave]
    /\ faults \in 0 .. MaxFaults

Nothing == [f \in File |-> NoFile]
Listed(files) == {f \in File : files[f] # NoFile}

Spend(n) == faults + n <= MaxFaults /\ faults' = faults + n

\* An earlier build left version 1 files, this one version 2 files.
Init ==
    /\ \E k \in Key, ver \in [File -> {1, 2}] :
         /\ disk = [f \in File |-> [v |-> ver[f], key |-> k, save |-> 0, form |-> "sound"]]
         /\ live = k /\ manifest = k /\ target = k
    /\ before = disk
    /\ temp = [j \in Job |-> Nothing]
    /\ job = "none" /\ phase = "idle"
    /\ pending = Nothing /\ todo = {}
    /\ saves = [f \in File |-> 0]
    /\ faults = 0

-----------------------------------------------------------------------------
(* What an operation computes from the files, and when it refuses to.      *)

\* reseal_key never opens the payload.
Unwraps(f) == disk[f].key = live /\ disk[f].form # "wrap"
Opens(f)   == disk[f].key = live /\ disk[f].form = "sound"

CanEnrollSkipping == TRUE

CanEnroll == \A f \in File : Unwraps(f)

Rewrapped(k) ==
    [f \in File |-> IF Unwraps(f) THEN [disk[f] EXCEPT !.key = k] ELSE NoFile]

CanMigrateOnce == \A f \in File : disk[f].v = 1 /\ Opens(f)

\* A file already upgraded is counted, not opened.
CanMigrate == \A f \in File : disk[f].v = 1 => Opens(f)

UpgradedAgain == [f \in File |-> [disk[f] EXCEPT !.v = @ + 1]]

Upgraded ==
    [f \in File |-> IF disk[f].v = 1 THEN [disk[f] EXCEPT !.v = 2] ELSE NoFile]

Start(j, out) ==
    /\ job' = j
    /\ phase' = "stage"
    /\ pending' = out
    /\ todo' = Listed(out)
    /\ before' = disk

Stop ==
    /\ job' = "none"
    /\ phase' = "idle"
    /\ pending' = Nothing
    /\ todo' = {}

BeginEnroll(k) ==
    /\ job = "none"
    /\ k # live
    /\ CanEnroll
    /\ Start("enroll", Rewrapped(k))
    /\ target' = k
    /\ UNCHANGED <<disk, temp, live, manifest, saves, faults>>

\* With nothing left to upgrade the call returns at once.
BeginMigrate ==
    /\ job = "none"
    /\ CanMigrate
    /\ Listed(Upgraded) # {}
    /\ Start("migrate", Upgraded)
    /\ UNCHANGED <<disk, temp, live, manifest, target, saves, faults>>

-----------------------------------------------------------------------------
(* Staging and commit.                                                     *)

StagedOnce(f) == IF temp[job][f] # NoFile THEN temp[job][f] ELSE pending[f]

\* fs::write truncates what an earlier attempt left behind.
Staged(f) == pending[f]

ReadyAtOnce(left) == TRUE

\* The first rename waits for the last temp.
Ready(left) == left = {}

Stage(f) ==
    /\ phase = "stage"
    /\ f \in todo
    /\ temp' = [temp EXCEPT ![job][f] = Staged(f)]
    /\ IF Ready(todo \ {f})
       THEN phase' = "commit" /\ todo' = Listed(temp'[job]) \cap Listed(pending)
       ELSE phase' = phase /\ todo' = todo \ {f}
    /\ UNCHANGED <<disk, live, manifest, job, pending, target, before, saves, faults>>

\* The temps written so far are removed, and the call fails.
StageFails(f) ==
    /\ "stage" \in Env
    /\ phase = "stage"
    /\ f \in todo
    /\ LET mine == (Listed(pending) \ todo) \cup {f}
       IN  \E kept \in SUBSET (Listed(temp[job]) \cap mine) :
             /\ kept # {} => "remove" \in Env
             /\ Spend(1 + Cardinality(kept))
             /\ temp' = [temp EXCEPT ![job] =
                    [g \in File |-> IF g \in mine \ kept THEN NoFile ELSE @[g]]]
    /\ Stop
    /\ UNCHANGED <<disk, live, manifest, target, before, saves>>

\* Rename one temp over its file.  After the last rename a migration is done;
\* an enrollment has its manifest to write.
Commit(f) ==
    /\ phase = "commit"
    /\ f \in todo
    /\ disk' = [disk EXCEPT ![f] = temp[job][f]]
    /\ temp' = [temp EXCEPT ![job][f] = NoFile]
    /\ IF todo # {f}
       THEN todo' = todo \ {f} /\ UNCHANGED <<job, phase, pending>>
       ELSE IF job = "enroll"
            THEN todo' = {} /\ phase' = "manifest" /\ UNCHANGED <<job, pending>>
            ELSE Stop
    /\ UNCHANGED <<live, manifest, target, before, saves, faults>>

WriteManifest ==
    /\ phase = "manifest"
    /\ manifest' = target
    /\ live' = target
    /\ Stop
    /\ UNCHANGED <<disk, temp, target, before, saves, faults>>

\* A rename, or the manifest, fails: `?` returns the error and undoes nothing.
CommitFails ==
    /\ "commit" \in Env
    /\ phase \in {"commit", "manifest"}
    /\ Stop
    /\ Spend(1)
    /\ UNCHANGED <<disk, temp, live, manifest, target, before, saves>>

-----------------------------------------------------------------------------
\* A restart opens the vault with the key its manifest leads to.
Reopen ==
    /\ phase = "idle"
    /\ live' = manifest
    /\ UNCHANGED <<disk, temp, manifest, jobVars, target, before, saves, faults>>

Crash ==
    /\ \/ phase = "stage" /\ "stage" \in Env
       \/ phase \in {"commit", "manifest"} /\ "commit" \in Env
    /\ Stop
    /\ live' = manifest
    /\ Spend(1)
    /\ UNCHANGED <<disk, temp, manifest, target, before, saves>>

\* save_entry and save_media.  An enrollment has the store to itself.
Save(f) ==
    /\ job = "none" \/ (job = "migrate" /\ "busy" \in Env)
    /\ saves[f] < MaxSave
    /\ saves' = [saves EXCEPT ![f] = @ + 1]
    /\ disk' = [disk EXCEPT ![f] =
           [v |-> 2, key |-> live, save |-> saves[f] + 1, form |-> "sound"]]
    /\ UNCHANGED <<temp, live, manifest, jobVars, target, before, faults>>

Damage(f) ==
    /\ "damage" \in Env
    /\ job = "none"
    /\ disk[f].form = "sound"
    /\ \E form \in {"payload", "wrap"} : disk' = [disk EXCEPT ![f].form = form]
    /\ Spend(1)
    /\ UNCHANGED <<temp, live, manifest, jobVars, target, before, saves>>

Next ==
    \/ \E k \in Key : BeginEnroll(k)
    \/ BeginMigrate
    \/ \E f \in File : Stage(f) \/ StageFails(f) \/ Commit(f)
    \/ WriteManifest
    \/ CommitFails
    \/ Reopen
    \/ Crash
    \/ \E f \in File : Save(f) \/ Damage(f)

Spec == Init /\ [][Next]_vars

\* A migration is "safe to run on every launch": callers keep asking for it,
\* whatever re-keys come between, and an operation that runs is not held up.
Fairness ==
    /\ SF_vars(BeginMigrate)
    /\ WF_vars(\E f \in File : Stage(f) \/ Commit(f))
    /\ WF_vars(WriteManifest)

FairSpec == Spec /\ Fairness

-----------------------------------------------------------------------------
\* Every file is wrapped under the key a restart finds or the key of the last
\* enrollment, whatever failed and however often it was tried again: a second
\* re-key never starts from a vault the first one left half done.
Recoverable == \A f \in File : disk[f].key \in {manifest, target}

\* "Can never leave a half-re-keyed vault": between two calls every file, the
\* manifest and the open store agree on the key.
KeysAgree ==
    job = "none" => live = manifest /\ \A f \in File : disk[f].key = live

\* No re-key and no migration brings an older text back, not even with the
\* temps an interrupted one left behind.
LatestKept == \A f \in File : disk[f].save = saves[f]

\* "Atomic as a group": a call that ends, in whatever way, has rewritten all
\* the files it had to, or none.
AllOrNothing ==
    [][job # "none" /\ job' = "none" =>
          \/ disk' = before
          \/ \A f \in Listed(pending) : disk'[f] = pending[f]]_vars

\* A version 1 record that does not open stops every migration.
Blocked == \E f \in File : disk[f].v = 1 /\ ~Opens(f)

\* "Idempotent": migrations, interrupted anywhere and called again, leave no
\* version 1 file behind, unless a damaged record or a half-done re-key stays
\* in their way.
Completes ==
    []<>(job = "none" /\ ~Blocked) => <>[](\A f \in File : disk[f].v = 2)
=============================================================================
