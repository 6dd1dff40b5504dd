------------------------------- MODULE Vault -------------------------------
(***************************************************************************)
(* One device's vault between two passes: save_entry, save_media,          *)
(* delete_entry, import_desktop_dir and what all_entries shows (store.rs). *)
(* Sync takes a save and a delete as one step each; here every file is     *)
(* written or removed in a step of its own and the process may end in      *)
(* between.                                                                *)
(*                                                                         *)
(* "<date>_<id>.hlj" is the pair <<date, id>>.  No id ends in "_" and      *)
(* another (Sync has the case where one does).                             *)
(***************************************************************************)
EXTENDS Naturals, FiniteSets

CONSTANTS
    Id, Date,
    Audio,      \* ids of voice notes
    Legacy,     \* the <<date, id>> names in the v0 directory to import
    LegacyVoice,\* the voice note each of these files names
    MaxStamp,   \* bound: how many entries are written
    Env,        \* "crash": the process may end; "remove": a file cannot be
                \* removed; "read": a legacy file cannot be imported
    MaxFaults,  \* bound: how many things go wrong in one behaviour
    NoFile, NoVoice

Name == Date \X Id

ASSUME NameAssumption  == Date \subseteq Nat /\ Id # {} /\ Legacy \subseteq Name
ASSUME LegacyAssumption == IsFiniteSet(Legacy)
ASSUME BoundAssumption == MaxStamp \in Nat /\ MaxFaults \in Nat
ASSUME EnvAssumption   == Env \subseteq {"crash", "remove", "read"}
ASSUME VoiceAssumption ==   \* v0 too has a voice note belong to one entry
    /\ NoVoice \notin Audio
    /\ LegacyVoice \in [Legacy -> Audio \cup {NoVoice}]
    /\ \A m, n \in Legacy :
         LegacyVoice[m] = LegacyVoice[n] /\ LegacyVoice[n] # NoVoice => m[2] = n[2]

\* An entry: when it was stamped, what it says (the number of the user's save,
\* 0 for an imported text) and its voice note.
Entry == [stamp : 1 .. MaxStamp, text : 0 .. MaxStamp, voice : Audio \cup {NoVoice}]

ASSUME SentinelAssumption == NoFile \notin Entry \cup (Name \X Entry)

VARIABLES
    files,     \* entries/: name -> Entry or NoFile
    media,     \* media/: the voice notes stored
    tomb,      \* ids with a tombstone in entries/
    now,       \* the latest stamp
    op,        \* the operation under way
    id,        \* the id it is about
    purge,     \* the other files of that id a save has still to remove
    todo,      \* files a delete has still to remove, an import to read
    audio,     \* the voice note a delete has learned of
    existing,  \* the ids an import found at its start
    recorded,  \* the voice notes recorded so far (history)
    want,      \* id -> <<name, entry>> as its user saved it last, or as it was
               \* imported if the user never did (history)
    doomed,    \* ids a delete was asked for since their last save (history)
    gone,      \* ids a delete returned for, not saved or imported since (history)
    stuck,     \* files that could not be removed when they had to go (history)
    faults     \* how many things went wrong so far

opVars == <<op, id, purge, todo, audio, existing>>
vars == <<files, media, tomb, now, op, id, purge, todo, audio, existing,
          recorded, want, doomed, gone, stuck, faults>>

Present == {n \in Name : files[n] # NoFile}

TypeOK ==
    /\ files \in [Name -> Entry \cup {NoFile}]
    /\ media \subseteq recorded /\ recorded \subseteq Audio
    /\ tomb \subseteq Id
    /\ now \in 0 .. MaxStamp
    /\ op \in {"none", "save", "delete", "mark", "import"}
    /\ id \in Id
    /\ purge \subseteq Name /\ todo \subseteq Name
    /\ audio \in Audio \cup {NoVoice}
    /\ existing \subseteq Id
    /\ want \in [Id -> (Name \X Entry) \cup {NoFile}]
    /\ gone \subseteq doomed /\ doomed \subseteq Id
    /\ stuck \subseteq Present
    /\ faults \in 0 .. MaxFaults

Init ==
    /\ files = [n \in Name |-> NoFile]
    /\ media = {} /\ tomb = {} /\ now = 0
    /\ op = "none" /\ id = CHOOSE i \in Id : TRUE
    /\ purge = {} /\ todo = {} /\ audio = NoVoice /\ existing = {}
    /\ recorded = {} /\ want = [i \in Id |-> NoFile]
    /\ doomed = {} /\ gone = {} /\ stuck = {} /\ faults = 0

-----------------------------------------------------------------------------
Matching(i) == {n \in Present : n[2] = i}

StaleToo(n) == Matching(n[2]) \cup {n}

\* What purge_other_entry_files_for_id removes after the write of n.
Stale(n) == Matching(n[2]) \ {n}

\* all_entries sorts by journal date, latest first, and keeps the first of
\* each id.
Shown(i) == {n \in Matching(i) : \A m \in Matching(i) : m[1] <= n[1]}

ShownIds == {n[2] : n \in Present}

ExistingImported == {n[2] : n \in {m \in Present : files[m].text = 0}}
ExistingFiles == Present

\* The ids import_desktop_dir leaves alone.
Existing == ShownIds

Spend(n) == faults + n <= MaxFaults /\ faults' = faults + n

\* remove_file, whose result is ignored.
Remove(n) ==
    \/ /\ files' = [files EXCEPT ![n] = NoFile]
       /\ stuck' = stuck \ {n}
       /\ UNCHANGED faults
    \/ /\ "remove" \in Env
       /\ stuck' = stuck \cup {n}
       /\ Spend(1)
       /\ UNCHANGED files

-----------------------------------------------------------------------------
SaveMedia(a) ==
    /\ op = "none"
    /\ a \notin recorded
    /\ media' = media \cup {a}
    /\ recorded' = recorded \cup {a}
    /\ UNCHANGED <<files, tomb, now, opVars, want, doomed, gone, stuck, faults>>

\* What an entry may name: no voice note; the one it has, which an edit keeps
\* even if it is not there; or one of the vault's that no other entry names.
Attachable(i, voice) ==
    \/ voice = NoVoice
    \/ \E n \in Shown(i) : files[n].voice = voice
    \/ /\ voice \in media
       /\ \A n \in Present : files[n].voice = voice => n[2] = i
       /\ \A n \in Legacy : LegacyVoice[n] = voice => n[2] = i

\* save_entry: the new file is there before the others of its id go.
Save(i, date, voice) ==
    LET n == <<date, i>>
        e == [stamp |-> now + 1, text |-> now + 1, voice |-> voice]
    IN  /\ op = "none"
        /\ now < MaxStamp
        /\ want[i] = NoFile \/ i \in ShownIds
        /\ Attachable(i, voice)
        /\ files' = [files EXCEPT ![n] = e] /\ stuck' = stuck \ {n}
        /\ now' = now + 1
        /\ op' = "save" /\ id' = i /\ purge' = Stale(n)
        /\ want' = [want EXCEPT ![i] = <<n, e>>]
        /\ doomed' = doomed \ {i} /\ gone' = gone \ {i}
        /\ UNCHANGED <<media, tomb, todo, audio, existing, recorded, faults>>

Purge(n) ==
    /\ n \in purge
    /\ Remove(n)
    /\ purge' = purge \ {n}
    /\ UNCHANGED <<media, tomb, now, op, id, todo, audio, existing, recorded,
                   want, doomed, gone>>

\* A save returns when its purge is through, an import with its last file.
Return ==
    /\ op = "save" \/ (op = "import" /\ todo = {})
    /\ purge = {}
    /\ op' = "none"
    /\ UNCHANGED <<files, media, tomb, now, id, purge, todo, audio, existing,
                   recorded, want, doomed, gone, stuck, faults>>

-----------------------------------------------------------------------------
DoomedShown(i) == Shown(i)

\* The files delete_entry removes.
Doomed(i) == Matching(i)

\* Also asked again for an id that is gone already.
Delete(i) ==
    /\ op = "none"
    /\ want[i] # NoFile
    /\ op' = "delete" /\ id' = i /\ todo' = Doomed(i) /\ audio' = NoVoice
    /\ doomed' = doomed \cup {i}
    /\ UNCHANGED <<files, media, tomb, now, purge, existing, recorded, want,
                   gone, stuck, faults>>

\* The voice note is that of the first file that names one, in whatever order
\* the directory is listed.
Unlink(n) ==
    /\ op = "delete"
    /\ n \in todo
    /\ audio' = IF audio = NoVoice THEN files[n].voice ELSE audio
    /\ Remove(n)
    /\ todo' = todo \ {n}
    /\ UNCHANGED <<media, tomb, now, op, id, purge, existing, recorded, want,
                   doomed, gone>>

UnlinkedOne == audio # NoVoice \/ todo = {}

\* The voice note goes after the last file.
Unlinked == todo = {}

DropMedia ==
    /\ op = "delete"
    /\ Unlinked
    /\ media' = media \ {audio}
    /\ op' = "mark" /\ todo' = {}
    /\ UNCHANGED <<files, tomb, now, id, purge, audio, existing, recorded, want,
                   doomed, gone, stuck, faults>>

Mark ==
    /\ op = "mark"
    /\ tomb' = tomb \cup {id}
    /\ gone' = gone \cup {id}
    /\ op' = "none"
    /\ UNCHANGED <<files, media, now, id, purge, todo, audio, existing,
                   recorded, want, doomed, stuck, faults>>

-----------------------------------------------------------------------------
\* import_desktop_dir looks once at what is there.
Import ==
    /\ op = "none"
    /\ Legacy # {}
    /\ now + Cardinality(Legacy) <= MaxStamp
    /\ op' = "import"
    /\ existing' = Existing
    /\ todo' = Legacy
    /\ UNCHANGED <<files, media, tomb, now, id, purge, audio, recorded, want,
                   doomed, gone, stuck, faults>>

\* One v0 file, saved as if its user had just written it, with the name of its
\* voice note: the note itself is not imported.
ImportOne(n) ==
    LET e == [stamp |-> now + 1, text |-> 0, voice |-> LegacyVoice[n]]
    IN  /\ op = "import"
        /\ purge = {}
        /\ n \in todo
        /\ n[2] \notin existing
        /\ files' = [files EXCEPT ![n] = e] /\ stuck' = stuck \ {n}
        /\ now' = now + 1
        /\ id' = n[2] /\ purge' = Stale(n) /\ todo' = todo \ {n}
        /\ want' = [want EXCEPT ![n[2]] =
                       IF @ = NoFile \/ @[2].text = 0 THEN <<n, e>> ELSE @]
        /\ gone' = gone \ {n[2]}
        /\ UNCHANGED <<media, tomb, op, audio, existing, recorded, doomed, faults>>

\* An id that is there is skipped; a file that cannot be read is counted.
ImportSkips(n) ==
    /\ op = "import"
    /\ purge = {}
    /\ n \in todo
    /\ \/ n[2] \in existing /\ UNCHANGED faults
       \/ n[2] \notin existing /\ "read" \in Env /\ Spend(1)
    /\ todo' = todo \ {n}
    /\ UNCHANGED <<files, media, tomb, now, op, id, purge, audio, existing,
                   recorded, want, doomed, gone, stuck>>

-----------------------------------------------------------------------------
Crash ==
    /\ "crash" \in Env
    /\ op # "none"
    /\ op' = "none" /\ purge' = {} /\ todo' = {} /\ audio' = NoVoice
    /\ Spend(1)
    /\ UNCHANGED <<files, media, tomb, now, id, existing, recorded, want,
                   doomed, gone, stuck>>

Next ==
    \/ \E a \in Audio : SaveMedia(a)
    \/ \E i \in Id, date \in Date, voice \in Audio \cup {NoVoice} : Save(i, date, voice)
    \/ \E n \in Name : Purge(n) \/ Unlink(n) \/ ImportOne(n) \/ ImportSkips(n)
    \/ Return
    \/ \E i \in Id : Delete(i)
    \/ DropMedia
    \/ Mark
    \/ Import
    \/ Crash

Spec == Init /\ [][Next]_vars

-----------------------------------------------------------------------------
\* Until its delete is asked for, an entry is on disk as its user saved it
\* last, at every instant: also between the write and the purge of a save,
\* and through an import that holds an older text of it ("never clobbers a
\* local edit").
SavedIsKept ==
    \A i \in Id : want[i] # NoFile /\ i \notin doomed =>
        files[want[i][1]] = want[i][2]

\* What delete_entry has returned for is gone, with every stale duplicate an
\* earlier crash left, until someone saves or imports it again; all but a file
\* that could not be removed.
DeletedStaysDeleted ==
    op = "none" => \A i \in gone : Matching(i) \subseteq stuck

\* No step takes a voice note away while a file on disk still names it, also
\* in the middle of a delete ("learn the audio id before unlinking, so the
\* blob goes too"), with duplicates, imported names and notes of other entries
\* about; all but a file that could not be removed.
VoiceKept ==
    [][\A n \in Present' \ stuck' :
          files'[n].voice \in media => files'[n].voice \in media']_vars

\* store.rs:116: "The sort put the newest first, so the first occurrence per
\* id is the keeper."
ShowsLatest ==
    op = "none" =>
        \A i \in Id \ doomed : want[i] # NoFile => Shown(i) = {want[i][1]}
=============================================================================
