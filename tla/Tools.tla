-------------------------------- MODULE Tools --------------------------------
(***************************************************************************)
(* The programs that read a vault another program is using: read_vault,    *)
(* which writes the entries out in plain, and export_bundle, which copies  *)
(* them as they are.  They take no lock: they list entries/ once and then  *)
(* read file by file, while the app saves, deletes and re-keys.            *)
(*                                                                         *)
(* The output directory maps an entry's name to what was written for it:   *)
(* export copies the file's name, read_vault makes one from the record.    *)
(***************************************************************************)
EXTENDS Paths, FiniteSets

CONSTANTS
    Id, Date,
    Key,        \* the keys a vault can be under; Dek has no passphrase
    Dek,
    WrongKey,   \* what a mistyped passphrase gives
    NoKey,      \* no re-key under way
    Cwd, Asked, \* working directories, and the output directories asked for
    Env,        \* what may happen: see EnvKind
    MaxSave,    \* bound: how many saves and deletes there are
    MaxRun,     \* bound: how often export is run
    MaxFaults,  \* bound: how many things go wrong in one behaviour
    NoFile

EnvKind ==
    { "crash",    \* the app ends between two removals
      "damage",   \* the payload of a stored file is damaged
      "write",    \* the tool cannot write a file
      "bare",     \* export is given a destination without a parent to look at
      "nested" }  \* or one whose `entries` is the vault, or a link into it

Name == Date \X Id

File == [save : 1 .. MaxSave, key : Key, sealed : BOOLEAN, sound : BOOLEAN]

ASSUME AskedAssumption    == Cwd \subseteq Dirs /\ Asked \subseteq Path
ASSUME KeyAssumption      == Dek \in Key /\ {WrongKey, NoKey} \cap Key = {}
ASSUME EnvAssumption      == Env \subseteq EnvKind
ASSUME SentinelAssumption == NoFile \notin File
ASSUME BoundAssumption    == {MaxSave, MaxRun, MaxFaults} \subseteq Nat /\ MaxRun > 0

VARIABLES
    files,   \* the vault: name -> File or NoFile
    kdf,     \* the key its manifest leads to
    next,    \* the key it is being moved to, or NoKey
    purge,   \* the names a save or delete has still to remove
    saves, faults,
    tool,    \* the program that is run
    pc,
    refused, \* its output directory is one it refuses to write to
    place,   \* where its output goes: "inside" or "outside" the vault
    key,     \* the key it derived; for export, the one kdf.json leads to
    listed,  \* the names it found
    todo,    \* of these, the ones it has still to read
    out,     \* its output: name -> File or NoFile
    told,    \* the names it reports as unreadable
    man,     \* the bundle's manifest: name -> the File that was hashed
    run,     \* how often export was started
    steady,  \* ids that had a file at every instant since the listing (history)
    hushed,  \* ids sealed by a save that was complete before the tool was
             \* started, and not saved since (history)
    crossed, \* a re-key was under way after kdf was read (history)
    mixed    \* or since anything was first written to the output (history)

vaultVars == <<files, kdf, next, purge, saves>>
asked     == <<tool, refused, place>>
toolVars  == <<asked, pc, key, listed, todo, out, told, man, run>>
history   == <<steady, hushed, crossed, mixed>>
vars == <<vaultVars, faults, toolVars, history>>

Nothing == [n \in Name |-> NoFile]
Present == {n \in Name : files[n] # NoFile}
Of(id)  == {n \in Name : n[2] = id}

TypeOK ==
    /\ files \in [Name -> File \cup {NoFile}]
    /\ {kdf} \cup ({next} \ {NoKey}) \subseteq Key
    /\ purge \subseteq Name
    /\ saves \in 0 .. MaxSave
    /\ faults \in 0 .. MaxFaults
    /\ run \in 0 .. MaxRun
    /\ tool \in {"read", "export"}
    /\ pc \in {"idle", "refused", "kdf", "list", "probe", "work", "failed", "done"}
    /\ refused \in BOOLEAN /\ place \in {"inside", "outside"}
    /\ key \in (Key \ {Dek}) \cup {WrongKey}
    /\ todo \subseteq listed /\ listed \subseteq Name /\ told \subseteq listed
    /\ out \in [Name -> File \cup {NoFile}]
    /\ man \in [Name -> File \cup {NoFile}]
    /\ steady \subseteq Id /\ hushed \subseteq Id
    /\ crossed \in BOOLEAN /\ mixed \in BOOLEAN

-----------------------------------------------------------------------------
Refuses(t, cwd, path) ==
    IF t = "read" THEN ReaderRefuses(cwd, path) ELSE ExportRefuses(cwd, path)

MayAsk(t, cwd, path) ==
    t = "export" => /\ "bare" \in Env \/ Anchored(cwd, path)
                    /\ "nested" \in Env \/ ~ Nested(cwd, path)

\* read_vault writes into the directory it is given, export also into its
\* `entries`.
WritesInside(t, cwd, path) ==
    \/ LandsInside(cwd, path)
    \/ t = "export" /\ LandsInside(cwd, Bundle(path))

\* A tool is started with some output directory, from some working directory.
Init ==
    /\ files = Nothing
    /\ kdf = Dek /\ next = NoKey
    /\ purge = {}
    /\ saves = 0 /\ faults = 0 /\ run = 0
    /\ tool \in {"read", "export"}
    /\ pc = "idle"
    /\ \E cwd \in Cwd, path \in Asked :
         /\ MayAsk(tool, cwd, path)
         /\ refused = Refuses(tool, cwd, path)
         /\ place = IF WritesInside(tool, cwd, path) THEN "inside" ELSE "outside"
    /\ key = WrongKey
    /\ listed = {} /\ todo = {} /\ told = {}
    /\ out = Nothing /\ man = Nothing
    /\ steady = {} /\ hushed = {} /\ crossed = FALSE /\ mixed = FALSE

Spend == faults < MaxFaults /\ faults' = faults + 1

-----------------------------------------------------------------------------
(* The app.  Its operations do not overlap each other.                     *)

Free == purge = {} /\ next = NoKey

Watch ==
    steady' = {id \in steady : \E n \in Of(id) : files'[n] # NoFile}

\* save_entry writes the file and then removes the others of its id.
Save(id, date, sealed) ==
    /\ Free
    /\ saves < MaxSave
    /\ saves' = saves + 1
    /\ files' = [files EXCEPT ![<<date, id>>] =
           [save |-> saves + 1, key |-> kdf, sealed |-> sealed, sound |-> TRUE]]
    /\ purge' = (Present \cap Of(id)) \ {<<date, id>>}
    /\ hushed' = IF sealed /\ pc = "idle"
                 THEN hushed \cup {id} ELSE hushed \ {id}
    /\ Watch
    /\ UNCHANGED <<kdf, next, faults, toolVars, crossed, mixed>>

Delete(id) ==
    /\ Free
    /\ saves < MaxSave
    /\ Present \cap Of(id) # {}
    /\ saves' = saves + 1
    /\ purge' = Present \cap Of(id)
    /\ UNCHANGED <<files, kdf, next, faults, toolVars, history>>

Unlink(n) ==
    /\ n \in purge
    /\ files' = [files EXCEPT ![n] = NoFile]
    /\ purge' = purge \ {n}
    /\ Watch
    /\ UNCHANGED <<kdf, next, saves, faults, toolVars, hushed, crossed, mixed>>

\* The app ends, or a removal fails: what is left to remove stays.
Leave ==
    /\ "crash" \in Env
    /\ purge # {}
    /\ Spend
    /\ purge' = {}
    /\ hushed' = hushed \ {n[2] : n \in purge}
    /\ UNCHANGED <<files, kdf, next, saves, toolVars, steady, crossed,
                   mixed>>

\* enroll_to_master rewraps content keys, which damage to a payload does not
\* prevent: it renames every file under the new key, then the manifest.
BeginRekey(k) ==
    /\ Free
    /\ k \notin {Dek, kdf}
    /\ next' = k
    /\ crossed' = TRUE /\ mixed' = TRUE
    /\ UNCHANGED <<files, kdf, purge, saves, faults, toolVars, steady, hushed>>

Rewrap(n) ==
    /\ next # NoKey
    /\ n \in Present
    /\ files[n].key # next
    /\ files' = [files EXCEPT ![n].key = next]
    /\ UNCHANGED <<kdf, next, purge, saves, faults, toolVars, history>>

EndRekey ==
    /\ next # NoKey
    /\ \A n \in Present : files[n].key = next
    /\ kdf' = next
    /\ next' = NoKey
    /\ UNCHANGED <<files, purge, saves, faults, toolVars, history>>

Damage(n) ==
    /\ "damage" \in Env
    /\ n \in Present
    /\ files[n].sound
    /\ Spend
    /\ files' = [files EXCEPT ![n].sound = FALSE]
    /\ UNCHANGED <<kdf, next, purge, saves, toolVars, history>>

App ==
    \/ \E id \in Id, date \in Date, sealed \in BOOLEAN : Save(id, date, sealed)
    \/ \E id \in Id : Delete(id)
    \/ \E n \in Name : Unlink(n) \/ Rewrap(n) \/ Damage(n)
    \/ Leave
    \/ \E k \in Key : BeginRekey(k)
    \/ EndRekey

-----------------------------------------------------------------------------
(* The tools.                                                              *)

\* The first thing a tool does is to look at its output directory.
Start ==
    /\ pc = "idle"
    /\ run' = run + 1
    /\ pc' = IF refused THEN "refused" ELSE "kdf"
    /\ hushed' = hushed \ {n[2] : n \in purge}
    /\ UNCHANGED <<vaultVars, faults, asked, key, listed, todo, out, told, man,
                   steady, crossed, mixed>>

\* export is run again into the same directory.
Again ==
    /\ tool = "export" /\ place = "outside"
    /\ pc \in {"failed", "done"}
    /\ run < MaxRun
    /\ run' = run + 1
    /\ pc' = "kdf"
    /\ listed' = {} /\ todo' = {}
    /\ UNCHANGED <<vaultVars, faults, asked, key, out, told, man, steady,
                   hushed, crossed, mixed>>

DerivedOnce == IF key = WrongKey THEN {kdf} ELSE {key}

\* What the manifest's parameters give: export writes them to kdf.json, and
\* read_vault derives a key from them with the passphrase that is typed in.
Derived == IF tool = "read" THEN {kdf, WrongKey} ELSE {kdf}

HasManifest == TRUE

HasKdf == kdf # Dek

ReadKdf ==
    /\ pc = "kdf"
    /\ IF HasKdf
       THEN key' \in Derived /\ pc' = "list"
       ELSE pc' = "failed" /\ UNCHANGED key
    /\ crossed' = (next # NoKey)
    /\ mixed' = (next # NoKey \/ (mixed /\ out # Nothing))
    /\ UNCHANGED <<vaultVars, faults, asked, listed, todo, out, told, man, run,
                   steady, hushed>>

List ==
    /\ pc = "list"
    /\ listed' = Present
    /\ todo' = Present
    /\ steady' = {n[2] : n \in Present}
    /\ pc' = CASE tool = "export" -> "work"
               [] Present = {}    -> "failed"
               [] OTHER           -> "probe"
    /\ UNCHANGED <<vaultVars, faults, asked, key, out, told, man, run, hushed,
                   crossed, mixed>>

\* read_vault decrypts a file, whatever its layout.
Opens(n) == files[n] # NoFile /\ files[n].sound /\ files[n].key = key

\* It goes on if the key opens some file (one step: what it reads here decides
\* nothing else).
Probe ==
    /\ pc = "probe"
    /\ pc' = IF \E n \in listed : Opens(n) THEN "work" ELSE "failed"
    /\ UNCHANGED <<vaultVars, faults, asked, key, listed, todo, out, told, man,
                   run, history>>

BodyAlways(f) == [f EXCEPT !.sealed = FALSE]

\* render_markdown and render_json: of a sealed entry the notice, else its text.
Body(f) == f

ReportedIfThere(n) == IF files[n] = NoFile THEN told ELSE told \cup {n}

Reported(n) == told \cup {n}

Emit(n) ==
    /\ tool = "read" /\ pc = "work"
    /\ n \in todo
    /\ todo' = todo \ {n}
    /\ IF Opens(n)
       THEN out' = [out EXCEPT ![n] = Body(files[n])] /\ UNCHANGED told
       ELSE told' = Reported(n) /\ UNCHANGED out
    /\ UNCHANGED <<vaultVars, faults, asked, pc, key, listed, man, run,
                   history>>

GoneNever(n) == FALSE

Gone(n) == files[n] = NoFile

\* A file that is gone by now ends the export, before it has a manifest.
CopyOut(n) ==
    /\ tool = "export" /\ pc = "work"
    /\ n \in todo
    /\ IF Gone(n)
       THEN pc' = "failed" /\ UNCHANGED <<todo, out>>
       ELSE /\ todo' = todo \ {n}
            /\ out' = [out EXCEPT ![n] = files[n]]
            /\ UNCHANGED pc
    /\ UNCHANGED <<vaultVars, faults, asked, key, listed, told, man, run,
                   history>>

\* Writing fails, or the tool is stopped.
ToolFails ==
    /\ "write" \in Env
    /\ pc = "work"
    /\ Spend
    /\ pc' = "failed"
    /\ UNCHANGED <<vaultVars, asked, key, listed, todo, out, told, man, run,
                   history>>

End ==
    /\ pc = "work"
    /\ todo = {}
    /\ pc' = "done"
    /\ man' = IF tool = "export"
              THEN [n \in Name |-> IF n \in listed THEN out[n] ELSE NoFile]
              ELSE man
    /\ UNCHANGED <<vaultVars, faults, asked, key, listed, todo, out, told, run,
                   history>>

Tool ==
    \/ Start \/ Again \/ ReadKdf \/ List \/ Probe
    \/ \E n \in Name : Emit(n) \/ CopyOut(n)
    \/ ToolFails \/ End

Next == App \/ Tool

Spec == Init /\ [][Next]_vars

-----------------------------------------------------------------------------
\* "The tool never writes inside the vault directory", "the tool refuses
\* otherwise": with links, "..", relative paths and directories that are not
\* there yet, whatever is not refused ends up outside.
StaysOutside == pc \notin {"idle", "refused"} => place = "outside"

\* "Sealed entries are reported, not exported": no text of an entry whose seal
\* was saved, and its older files removed, before the reader was started.  A
\* save that was interrupted leaves an older file, which the reader exports.
SealKept ==
    tool = "read" =>
        \A n \in Name : n[2] \in hushed /\ out[n] # NoFile => out[n].sealed

\* Whatever the app does meanwhile, an entry that is in the vault all along is
\* exported or one of its files is reported.
ReaderAccounts ==
    tool = "read" /\ pc = "done" =>
        \A id \in steady : \E n \in Of(id) : out[n] # NoFile \/ n \in told

\* A bundle with a manifest is whole: it names every entry that was in the
\* vault all along; into a fresh directory, it is all there is.
BundleWhole ==
    tool = "export" /\ pc = "done" =>
        /\ \A id \in steady : \E n \in Of(id) : man[n] # NoFile
        /\ run = 1 => man = out

\* The passphrase of kdf.json opens the files the manifest names, unless a
\* re-key came in between; and every file in the bundle, what an earlier
\* export left there included, unless a re-key came since the first of them
\* was written.
BundleOpens ==
    tool = "export" /\ pc = "done" =>
        /\ ~crossed => \A n \in Name : man[n] # NoFile => man[n].key = key
        /\ ~mixed   => \A n \in Name : out[n] # NoFile => out[n].key = key
=============================================================================
