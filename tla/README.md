# hl-core in TLA+

hl-core keeps a private journal as a directory of encrypted files, one per
entry, and synchronises it between devices through a shared directory that
holds no key and no index. This directory models the parts of it whose
correctness depends on order: passes of several devices over one container,
saves and deletes with a crash in between, re-keying a vault file by file, and
tools that read a vault while it changes.

TLC checks every module on small instances; TLAPS proves every invariant and
action property the passing runs check, and that Sync implements Journal, for
every value of the constants. Liveness stays with TLC.

## The system

| Part | Source | State | Operations | Talks to |
|---|---|---|---|---|
| Reconcile | `sync.rs` | none of its own: two directories, local and container, and what a pass has scanned | `reconcile_with`: apply tombstones, scan both sides, copy the newer, purge duplicates | tombstone, envelope header, the file system, an optional verifier |
| Tombstones | `tombstone.rs` | `<id>.tomb` files next to the entries | `mark`, `read_all`, `remove_envelopes`, `reconcile_pair` | called first by every pass, and last by `delete_entry` |
| Store | `store.rs` | `entries/`, `media/`, `vault.json`, the live key and its label | `save_entry`, `save_media`, `delete_entry`, `all_entries`, `import_desktop_dir`, `enroll_to_master`, `migrate_to_v2`, `export_bundle` | envelope, tombstone |
| Envelope | `envelope.rs` | one file: header, wrapped content key, payload | `seal_envelope`, `open_envelope`, `reseal_key`, `migrate_v1_to_v2` | crypto |
| Crypto | `crypto.rs` | none | AEAD, Argon2id, subkeys | libraries |
| Reader | `examples/read_vault.rs` | an output directory | decrypts the entries into plain files | envelope, crypto, the vault's files |
| Exporter | `examples/export.rs`, `export_bundle` | a bundle: `kdf.json`, `entries/`, `manifest.json` | copies the vault as it is | the vault's files |
| Migration tool | `examples/migrate_v2.rs` | none | upgrades a vault or a container | `migrate_files_to_v2` |

What is hard about it:

* **Stale decisions.** A pass decides on its copies from two scans and makes
  them later. In between other devices replace, remove or tombstone files in
  the container, and nothing locks it.
* **Ties and order.** Versions are ordered by a millisecond stamp in the
  header. The whole of convergence rests on every copy moving a directory to a
  strictly newer stamp.
* **Deletions.** A deletion is a marker file, and it must outrank every copy of
  the entry wherever one is, including those still in the plan of some pass.
* **Partial failure.** Most results of `remove_file` and of `tombstone::mark`
  are dropped on purpose. What stays behind must not do harm later.
* **Crashes.** Every operation is a sequence of renames and unlinks with no
  journal: a save is write-then-purge, a delete is unlink, unlink, mark, a
  re-key is as many renames as there are files and then the manifest.
* **No locks.** The reader, the exporter and the migration tool list a
  directory once and work through it while an app, or other devices, change it;
  two devices that mark a deletion write one temp file.
* **Paths.** The tools promise not to write inside the vault, whatever they are
  given: links, `..`, relative paths, directories that do not exist yet.
* **What a tag binds.** A re-key rewrites the header that, in version 2, is
  itself the associated data of the wrap.

What makes each part correct: for reconcile, that the newest save survives,
that no directory goes back, that deletions are final and that everyone
converges; for the store, that what was saved last is on disk at every instant
and shown, and that a delete is complete; for enrollment and migration, that
they happen as a whole and that no failure loses a key; for the envelope, that
what opens is what was sealed; for markers, that no deletion is forgotten and
that they meet; for the tools, that they write where they may, lose nothing
unnoticed and give out nothing that is sealed.

`PROJECT.json` lists under `hazards` the places where this can go wrong, each
at its line, with the properties that look there.

## Modules

| Module | What it is |
|---|---|
| `Sync` | devices, user and passes over one container |
| `MC_Sync` | its instances |
| `Journal` | abstract: replicas that only move up |
| `SyncJournal` | Sync implements Journal (refinement mapping), `MC_SyncJournal` its instance |
| `SyncProofs` | TLAPS proofs about Sync: types, and that no save is lost |
| `SyncJournalProofs` | TLAPS proofs about Sync with one pass at a time: what no step does, and that it implements Journal |
| `Marks` | the marker of one deletion, system call by system call |
| `MarksProofs` | TLAPS proofs about Marks |
| `Container`, `MC_Container` | Sync, with devices and container upgraded to version 2 meanwhile |
| `ContainerProofs` | TLAPS proofs about Container |
| `Vault`, `MC_Vault` | one device's directory, file by file, with crashes |
| `VaultProofs` | TLAPS proofs about Vault |
| `Rekey`, `MC_Rekey` | enrollment and migration of a whole vault |
| `RekeyProofs` | TLAPS proofs about Rekey |
| `Envelope`, `MC_Envelope` | one record's file: seal, re-wrap, upgrade |
| `EnvelopeProofs` | TLAPS proofs about Envelope |
| `Paths` | where the tools write and what they refuse, over a directory tree |
| `Tools`, `MC_Tools` | the reader and the exporter beside an app, EXTENDS Paths |
| `ToolsProofs` | TLAPS proofs about Tools and Paths |

### Sync

`entries[x]` is the directory `x`: a function from names `<<date, id>>` to the
envelope stored there or `NoFile`. Every device has one, and so has the
container. Of an envelope Sync keeps `created`, the device that sealed it (two
contents with the same stamp are still two contents) and `form`: `sound`,
`altered` (parses but does not open) or `junk` (does not parse). `tomb[x]` is
the set of ids with a marker; the stamp inside it decides nothing in a pass.

A device's pass is `pc` with `known` (tombstoned ids still to apply), `plan`
(copies still to make), `cur` (the copy whose purge is due) and `shield` (files
the scan could not vouch for):

| Action | Code |
|---|---|
| `BeginPass` | `reconcile_pair` reads both sides' markers |
| `ApplyTomb` | one round of its loop: mark both sides, remove on both |
| `Scan` | `scan` of both sides and the decisions of the `match` in `reconcile_with` |
| `Copy`, `Purge` | `atomic_copy`, then `purge_other` where that arm of the match calls it |
| `Finish`, `Abandon` | the pass returns, or ends early |
| `Save`, `Delete` | `save_entry`, `delete_entry`, one step each (Vault takes them apart) |
| `Corrupt` | a stored file is damaged |

Reading the two directories is one step. `read_dir` is not atomic in the code;
an entry that is renamed away and re-created while it runs could be seen twice
or not at all, which is not modelled. The order of the copies is free, as it is
in the code (a `HashSet`). Which of several newest files with one stamp is
kept is free too (the order of `read_dir`). The header's id is taken to be the
id in the file name, which every writer in the library guarantees.

What may go wrong is a set `Env` of kinds and a budget `MaxFaults`, so a run
says precisely which environment it is about: overlapping passes (`overlap`),
a user who writes during the device's own pass (`busy`), clocks that repeat or
fall behind (`skew`), files that cannot be read, written or removed (`read`,
`tombread`, `write`, `remove`), passes that end early (`crash`), damage
(`corrupt`). `newest` and `deleted` are history: the latest stamp of each id
and the ids some user deleted.

### Journal and SyncJournal

`Journal` is what the replicas promise: of every id a replica shows nothing, a
version or that it is gone, and it only moves up, to a version newer than any
or to what another replica shows. `SyncJournal` maps Sync to it: a tombstone
shows as gone, else the newest trusted file counts. With one pass at a time and
a single fault (a pass that ends early, a removal that fails, a tombstone that
cannot be read), every step of Sync is a step of Journal or changes no view.
Two faults are too many: a file whose removal failed is pushed by a pass that
cannot read the tombstone beside it, and the container, which may not have the
tombstone yet, shows the deleted entry again. With overlapping passes an old
version may return to the container for a while, and a deleted entry beside its
tombstone, which is why the properties of the overlapping runs are stated over
the devices or over what comes out in the end.

### Marks

Sync takes `mark` as one step and forgets the stamp; Marks is that step in
detail. A call reads the marker (`Check`), creates or truncates the temp
(`Open`), writes it (`Write`) and renames it (`Rename`). All devices use the
temp name `<id>.tomb.tmp`, so in the container they share the file: `fd` says
which name the file a device has open carries by now, since a rename by another
one publishes it, perhaps empty, and a write then goes to the marker itself.

A device's own directory has no other writer, and there the marker only moves
forward (`OnlyAdvances`). In the container it may go back to an earlier instant
or be empty, which `read_all` takes for no marker. While calls of two devices
overlap for ever they can keep it so; `MarkersMeet` asks that in the end they do
not. FORMAT.md section 9 rests on "two devices never write the same path" and
on markers that are "written once"; both are true only of devices that agree on
the instant. The protocol of `atomic_copy` and `atomic_write` is the same, and
two devices that push versions of one name share a temp too.

### Container

Container EXTENDS Sync with the version of each file (`old`: the names that hold
a version 1 envelope), the build the devices run and the migration tool's temps
(`held`). Its actions are Sync's with what they do to the versions, and
`Install`, `Launch` (`migrate_to_v2` when the app starts, one step, as Rekey has
its phases), `BeginUpgrade`, `Upgrade`, `UpgradeStops` (the tool on the
container: all files are read at once and renamed one by one, among passes that
push, purge and delete there). An upgrade keeps `created`, so it ties with the
copy it was made from and no pass exchanges the two.

The code's comment wants the container migrated "directly, once". A device that
upgrades late and has something to push brings version 1 back, so `AllUpgraded`
is about a tool that is run until nothing is left.

### Vault

The same directory from inside one device. `Save` writes the new file and
leaves in `purge` what is still to be removed; `Delete` leaves in `todo` the
files still to unlink, then `DropMedia` and `Mark`; `Import` looks at the ids
once and then saves file by file. `Crash` ends any of them between two steps.
`Shown` is the choice `all_entries` makes. `want`, `doomed`, `gone` and
`stuck` are history: the version saved last (of an id that was only ever
imported, the file read last), the deletes asked for, the deletes
that returned and were not followed by another save or import of the id, and
the files that could not be removed. The properties of a delete exempt the
stuck ones: `delete_entry` drops the error, and `true` means it tried.

An imported entry keeps the name of its voice note (`LegacyVoice`), but the note
is not imported with it. A file may therefore name a note that is not there, and
so may an edit of it or an import of an id whose delete dropped the note. What
`VoiceKept` says is that no step takes a note away that a file still names. It is
assumed that the app records a note for one entry, in version 0 too.

### Rekey

`disk[f]` has the version, the key its content key is wrapped under, the number
of the save it holds and what of it is intact. An operation goes through
`stage` (temps), `commit` (renames) and, for an enrollment, `manifest`. `Env`
separates failures before the first rename (`stage`) from those after it
(`commit`), because that is the line the documentation draws. `Reopen` and
`Crash` return to the key the manifest leads to.

An enrollment of a vault without any file, and one to the key already in use,
change nothing but the manifest and are left out. The order of temps and
renames is free.

### Envelope

Sealed boxes are records of key, associated data and content, which is the
usual ideal model of authenticated encryption: a box opens under exactly the
key and data it was sealed with. `wrap_aad` and `payload_aad` say what each
version binds. `Garble` mixes headers, wraps and payloads of the current file
and of the version before. `born` is history: what each content key was drawn
for.

### Paths and Tools

A directory in Paths is the sequence of names from the root, a path a sequence
of names, links and `..`. `Route` is where `create_dir_all` takes a path, name
by name: the reference against which `ReaderRefuses` (`resolve_out` and the test
in `run`) and `ExportRefuses` (`dest_inside_vault`) are checked. The tree is any
set of directories that has every directory's parent, each link lies in one of
them and leads to one, and the vault is one of them; a link that leads nowhere
or to another link is not modelled, and neither is a file in the output directory
that is a link itself, which `fs::write` follows.

read_vault writes into the directory it is given, export also makes `entries`
in it (`Bundle`), and `WritesInside` asks where both lead. `dest_inside_vault`
looks at the destination alone: a vault that is named `entries` can be exported
into its own parent, and a destination whose `entries` is a link into the vault
is not refused either (`Nested`). The environment kind `nested` allows such
destinations, `bare` those without a parent to look at. What an export that
lands in the vault does to it there is not modelled.

In Tools an app saves (write, then remove the others), deletes and re-keys (file
by file, then the manifest) while one of two programs runs:

| Action | read_vault | export |
|---|---|---|
| `Start` | refuses or goes on | the same |
| `ReadKdf` | parameters, from which a right or wrong key is derived | parameters, written to `kdf.json` |
| `List`, `Probe` | the listing; something must open | the listing |
| `Emit`, `CopyOut` | the text, the notice of a seal, or a report | a copy; a file that is gone ends it |
| `End`, `ToolFails`, `Again` | | the manifest; again into the same directory |

`steady`, `hushed`, `crossed` and `mixed` are history: ids that had a file at
every instant since the listing, ids whose seal was saved before the tool
started, whether a re-key came in between, and whether one came since the first
export that left something in the output directory. The output directory is chosen in the initial
state, from every path of up to four steps from three working directories.

## Runs

`PROJECT.json` gives every run with its properties. The passing ones:

| Run | Instance | Shows |
|---|---|---|
| `sync_overlap` | 2 devices, 2 dates, 1 id, 3 stamps, overlap, 2 faults of 4 kinds, fair | `NewestSurvives`, `PullsAreBehind`, `Converges`, `DeletesConverge` |
| `sync_damage` | the same with a verifier and one pass at a time, 2 faults: damage or abandoned passes, fair | `Converges`, `DamageStaysPut`, `DeletedNeverReturns` |
| `sync_journal` | one pass at a time, a fault of 3 kinds, fair | `NewestWins`, `QuietOnceInSync`, `ImplementsJournal`, `ViewsMeet` |
| `vault` | 2 ids, 2 dates, 2 voice notes, 2 files of one id to import (one names a note), 4 stamps, 2 faults of 3 kinds | `SavedIsKept`, `DeletedStaysDeleted`, `VoiceKept` |
| `rekey_stage` | 2 files, 3 keys, 3 faults: before the first rename, removals, damage | `KeysAgree`, `AllOrNothing`, `LatestKept` |
| `rekey_commit` | 2 files, 3 keys, 2 faults of any kind, saves beside a migration, fair | `Recoverable`, `Completes` |
| `container` | 2 devices, 2 dates, 1 id, 2 stamps, overlap, an upgrade that may stop at any time, fair | `NewestSurvives`, `Converges`, `DeletesConverge`, `AllUpgraded` |
| `marks` | 3 devices, 2 deletes, overlap, a crash or a failed write, fair | `OnlyAdvances`, `QuietOnceAgreed`, `MarkersMeet` |
| `tools` | 1 id, 2 dates, 3 keys, 4 saves, 2 exports, 1 fault; 4 path steps, 2 links, a vault named `entries` | `StaysOutside`, `SealKept`, `ReaderAccounts`, `BundleWhole`, `BundleOpens` |
| `envelope` | 2 keys, labels, ids, stamps, texts and content keys | `Readable`, `Authentic` |

The bounds. Two devices and the container are the smallest system with a stale
decision. What a third device adds is a party that pushes what neither of the
others knows; the proofs cover any number. Two dates give the duplicate of a
date edit. One id is enough where no id ends in another, as the files of
different ids then never meet. With three stamps one device saves twice and the
other once in between, so that a version is overtaken during a pass and again
after it; two are enough in Container, where the tool is what lags behind: one
version it has read and one that is pushed or moved to another date meanwhile.
Three devices in Marks let one publish the temp that a second truncates and a
third still writes. Two files of one id are what a reader or exporter can
confuse, four saves let it find, lose and find again a file, and two exports
give a bundle with something left over; other ids would only add files that are
treated alike. Two faults let one fault hit
the repair of another. The three keys of Rekey are the device key, a first
master and a second one after a first attempt got stuck; of two files one is
renamed when the other is not. The four stamps of Vault are two
imports of one id, with a save and an edit before or after them. `MaxStamp`, `MaxSave`, `MaxRun`, `MaxFaults` and
the number of content keys are the only bounds, all of them guards; the proofs have
them as arbitrary numbers.

Deadlock is checked in every run except `envelope`, where the content keys run
out, and `tools`, where a program ends and the saves are used up: there is
nothing left to do. Symmetry is over model values only, and
no run with a liveness property uses it.

### Fairness

The library schedules nothing: an app calls `reconcile_with` whenever it likes.
`Sync!Fairness` assumes that every device keeps asking for a pass (strong
fairness, as another device's pass may be in the way when passes do not
overlap) and that a pass once begun runs on, which is what a single-threaded
function does. Saves, deletes and faults have no fairness: they may stop, and
in the bounded model they must. `Rekey!Fairness` assumes that callers go on
asking for a migration, as its comment invites ("safe to run on every launch"),
with strong fairness because a re-key may be in the way, and that a call is not
suspended for ever. `Completes` still has a premise: again and again there must
be a moment between two calls at which every version 1 file opens.
`Container!FairSpecUpgrade` adds that apps are started and that the tool is run
again and again, and that it now and then comes to its renames. `Marks!Fairness`
is Sync's: passes are asked for, and a call runs on.

### Where the documents say more than the code

The `_v_` runs state a sentence of the repository as a property, and TLC shows
how the code breaks it. `PROJECT.json` quotes the sentence of each under
`findings`.

| Run | Sentence | What happens |
|---|---|---|
| `sync_v_unreadable` | an unreadable file is protected and retried | an older copy of the same name is renamed over it |
| `vault_v_stale` | the newest file of an id is the one shown | the one with the latest journal date is |

The same rename replaces a quarantined file that has the copy's name, although
sync.rs:62 says that it is left exactly as it is; and an interruption between
two renames of a migration leaves a mixed directory, although migrate_v2.rs:18
says that every record is as it was (`AllOrNothing` and `KeysAgree` with
`commit`, below).

Each property of the passing runs holds in the environment of its run. Where a
wider one breaks it, adding the kind to `Env` makes TLC show how:

| Property | Fails with | Because |
|---|---|---|
| `NewestSurvives` | `busy` | a save made during the device's own pass is replaced by a copy decided before it |
| `NewestSurvives` | `skew` | a save by a clock that fell behind loses to an older text, or ties with another |
| `NewestSurvives` | `corrupt` | the damaged file was the only copy |
| `NewestSurvives` | `Suffix <- Tailed` | saving `b` purges the file of `x_b` |
| `Converges` | `skew` | two versions with one stamp are left alone |
| `DeletedNeverReturns` | `overlap` or `remove` | a pass that scanned before the deletion, or could not carry it out, copies the entry back |
| `DamageStaysPut` | `overlap` beside `corrupt` | the bytes copied are read again after they were verified |
| `KeysAgree`, `AllOrNothing` | `commit` | the renames are not undone |
| `StaysOutside` | `bare` | `dest_inside_vault` compares a destination without an existing parent as it was typed: in the vault, `export . copy` is not refused, nor is `export v v/new/copy` beside it |
| `StaysOutside` | `nested` | `dest_inside_vault` does not look at the destination's `entries`, which may be the vault itself or a link into it; export.rs:11 says that the tool refuses |
| `LatestKept` | `busy` | the upgrade of the older text is renamed over the save |

Four properties have an exemption that TLC shows to be needed. `DeletesConverge`
speaks of ids with a marker: one that could not be written is not reported, and
the entry comes back. `SealKept` speaks of saves that were complete: an
interrupted one leaves an older file, which the reader exports although the
newer one is sealed. `BundleOpens` says that the files a manifest names open if
no re-key overlapped that export, and that everything in the directory, what
earlier exports left there included, opens if none came since the first of them.
`BundleWhole` says of the first export only that the directory holds nothing but
what the manifest names; an export that fails leaves the manifest of the one
before it, and neither property says anything then.

## Proofs

The eight proof modules are checked to the last leaf by `tlapm`. They hold for
any sets of devices, dates, ids, files and keys (finite where something counts
them), any bounds and, unless said otherwise, any environment.

**Sync.** `TypeCorrect` needs nothing but the constants' assumptions.
`NoSaveIsLost` proves `NewestSurvives` and `PullsStayBehind` proves
`PullsAreBehind`, under two assumptions named in the module: `Undisturbed` (no
unreadable file, no save during the device's own pass, clocks that run
forward, no damage; passes may overlap, be abandoned and fail in every other
way) and `SuffixFree` (no id ends in another). None of the assumptions is idle:
`sync_v_unreadable` shows the first, the table above the others.

`NewestSurvives` alone is not inductive: the latest save might sit on one
device under a pull that was decided long ago. The strengthening says what a
decision may rely on: every stamp on disk is at most `newest`; a pull that is
planned, or copied and not yet purged after, is strictly behind every file of
its id on the local side that carries the latest stamp (`PullsAreBehind`); and
a local side only changes under its own pass. A pull therefore never touches
the last copy of the newest version, whatever happened to the container since
the scan. One lemma per part has one step per action.

**Rekey.** `IInv` is the conjunction of seven parts: types, which phases go
with which job (`Shape`), temps hold what was computed (`TempsHold`), where
each key may be (`Keys`), which text each file holds (`Texts`), that outside
an enrollment's commit there is one key (`OneKey`) and how far the files are
between what was found and what was computed (`Half`). From it follow
`NoKeyIsLost` (`Recoverable`, in any environment), `NeverHalfRekeyed`
(`KeysAgree`) if nothing fails after the first rename, `TextsStayLatest`
(`LatestKept`) if no save runs beside a migration, and `AtomicAsAGroup`
(`AllOrNothing`) under both conditions. `Recoverable` is not inductive by
itself because a third key could be brought in while files are under the
second; what prevents it is that enrollment reads every file first and gives
up at one that does not unwrap (`CanEnroll`).

**Vault.** `NothingSavedIsLost` (`SavedIsKept`), `DeletesHold`
(`DeletedStaysDeleted`) and `VoicesAreKept` (`VoiceKept`) need no more than the
constants' assumptions; the v0 directory is a finite set, because an import
counts its files. The invariant adds what each operation has still to go
through (`Work`): a purge only ever holds other files of the id just written, a
delete that is under way holds every file of its id that is not stuck already,
and an import that began with the user's ids in `existing` can only meet an id
outside it if it is deleted or was itself imported (`Wanted`). Without the last
part the purge that follows an imported file might reach a local edit. For
voice notes it adds that two ids never name the same one, be it in files or in
the v0 directory (`Voices`), which is where the assumption that the app records a
note for one entry is used. One lemma per action; `OnlyUnnamedGo` is the step
that `VoiceKept` is about.

**Marks.** `MarkersNeverGoBack` (`OnlyAdvances`) is not inductive: a rename
publishes whatever the temp holds. The invariant (`OwnDirectory`) says that in
its own directory a device finds the temp as it wrote it, under its name, and a
marker no later than its stamp, however the others' temps change hands in the
container. `AgreementIsQuiet` (`QuietOnceAgreed`) needs the types alone. What
the proofs need is that no other device writes in a device's own directory;
for the container, where all do, nothing like it holds.

**Envelope.** The invariant says of the current file and of the older copy that
every part is `Genuine`: a wrap is bound to what its content key was drawn for,
and a payload too. Storage can mix genuine parts and headers and cannot make
one, so the parts stay genuine while the file need not open; that they fit if it
does open is `AlwaysAuthentic` (`Authentic`). It holds for any root key, and for
version 1 it claims no date or stamp, since its wrap binds none.
`AlwaysReadable` (`Readable`) is inductive by itself.

**Sync, one pass at a time** (`SyncJournalProofs`). Overlapping passes act on
stale decisions; passes that take turns do not, and these theorems say what
that gives. Each has the weakest environment its argument needs:

| Theorem | Property | Assumes |
|---|---|---|
| `DecisionsStayRight` | `Orderly`, the invariant below | `Exclusive` (no overlap, no save in the device's own pass, every file readable), `SuffixFree` |
| `InSyncIsQuiet` | `QuietOnceInSync` | the same |
| `NoDirectoryGoesBack` | `NewestWins` | `Exclusive`, `Undisturbed`, `SuffixFree`, writes do not fail |
| `DeletesAreFinal` | `DeletedNeverReturns` | `Thorough` (no overlap, no save in the device's own pass, tombstones can be read, files removed); clocks, damage, unreadable files and failed writes are free |
| `DamageDoesNotSpread` | `DamageStaysPut` | `Guarded` (a verifier; no overlap if there is damage); everything else is free |
| `SyncImplementsJournal` | `ImplementsJournal` | `Reliable` (passes may end early and removals fail, nothing else), `SuffixFree` |

`Orderly` is what makes a decision safe to carry out: one device is in a pass
(`OnePass`), it decides once per id, a copy still to be made takes a newest file
of its id to a side that has only older ones (`Ahead`), and a copy that was made
is the newest file of its side until the purge is over (`Landed`). For
`DeletesAreFinal` the invariant (`Final`) says instead that no pass holds a copy
of an id with a tombstone on either side, for `DamageDoesNotSpread` that the
source of each decided copy opens or is gone.

The refinement needs one part more, `Settled`: after its tombstone phase a pass
has the same tombstones on both sides, as it is in the middle of that phase that
the two sides show different things. The proof goes step by step: a save is a
`Write` of Journal, or shows nothing where the id is gone
(`SaveWrites`); a delete is a `Remove` (`DeleteRemoves`); a tombstone carried
over (`TombAdopts`) and a copy (`CopyAdopts`) are an `Adopt` of what another
replica shows; a purge, scan or end shows nothing.

`Reliable` is as wide as it can be without counting faults: with any other kind in `Env` and two faults TLC shows a
step that is none of Journal's, and with one already for every kind but
`tombread`. An unreadable tombstone and a removal that failed bring a deleted
entry back, as described above. `sync_journal` allows one unreadable tombstone
and holds; that case is model-checked only.

**Container.** The invariant is that of Sync with what the tool holds: a held
upgrade opens and is no newer than the latest save of its id (`HeldSound`).
Every step but `Upgrade` is a step of Sync or leaves Sync's variables alone
(`StepOfSync`; an app that upgrades its own files reseals them under the same
stamp, `LaunchStutters`), so Sync's lemmas apply as they are. A rename by the
tool changes the container only, and no part of Sync's invariant rests on what
is in the container except that it opens and is not from the future. Hence
`NoSaveIsLostUpgrading` (`NewestSurvives`) and `PullsStayBehindUpgrading`
(`PullsAreBehind`) under `Undisturbed` and `SuffixFree`; `TypeCorrectUpgrade`
needs neither.

**Tools.** One invariant (`ToolsInv`) carries `SealsAreKept` (`SealKept`),
`NothingIsSkipped` (`ReaderAccounts`), `BundlesAreWhole` (`BundleWhole`) and
`BundlesOpen` (`BundleOpens`), with no assumption on the environment. What they
rest on: a seal that was saved holds for every file of its id (`SealsHold`),
between two re-keys there is one key (`OneKey`), an entry that stays has a file
that was listed, and what was listed is still to do, written or reported
(`Accounted`), what this run copied is under the key of its `kdf.json`
(`Copied`), and what all runs copied is under the manifest's key as long as no
re-key came since (`OneWrite`).

`WritesStayOutside` (`StaysOutside`) assumes only that `bare` and `nested` are not
allowed. It rests on two theorems that mention no state: `ReaderIsRight` and
`ExporterIsRight` say, for every tree of directories and links, every vault and
every path of any length, that a path which is not refused neither leads into
the vault nor makes a directory there; the second says so of the destination and
of its `entries`, under the two conditions that `bare` and `nested` name. `Route` is a recursive function, and what it computes is
proved without an induction theorem: a set of bad positions that is not empty
has a least one (`Least`, from the library's well-founded minimum), and the
position before it leads to a contradiction. The lemma behind `ReaderIsRight` is
that past the first name that does not exist nothing exists, no link is met and,
with `..` refused, the route grows by the names as they are typed, which is what
`resolve_out` appends.

Only model-checked: liveness (`Converges`, `DeletesConverge`, `ViewsMeet`,
`Completes`, `AllUpgraded`, `MarkersMeet`), which needs fairness and is out of
the prover's reach; and the refinement with an unreadable tombstone.

## Not modelled

* The ciphers, Argon2id and the byte layout of `encode` and `decode`; Envelope
  takes encryption as ideal.
* `models.rs`, `error.rs`: data types. `recent`, `search`, `load_*`: reads.
* The command lines, the dry run of the migration tool, and what the reader's
  Markdown and JSON look like beyond text or notice. Two records whose id or
  date differ only in characters a file name cannot have would share a name;
  ids are UUIDs and dates are dates.
* The import of a bundle: Vault has `import_desktop_dir` from any directory.
* A version 2 file whose header does not parse: Rekey's files always tell their
  version. Such a file stops a migration (envelope.rs:246) until it is removed,
  and `Completes` says nothing of it.
* Torn copies of envelopes: `atomic_copy` is one step of Sync, though two
  devices share its temp name (Marks has the same protocol for a marker).
* Directories read while they change, and writes that reach the disk out of
  order (there is no `fsync` in the code).
* Leftover temp files, other than those of a re-key or a migration: nothing in
  the library reads them.

## Plan

1. Done: Sync, Journal, Vault, Rekey, Envelope, the proofs about Sync and Rekey;
   then Marks, Container, Paths and Tools.
2. Done: the proofs about Marks, Envelope and Vault.
3. Done: the action properties of Sync with one pass at a time, the refinement
   of Journal, and the proofs about Container, Tools and Paths.
4. Proofs, next: the refinement with a single unreadable tombstone, and the
   safety half of convergence (what a pass that is not disturbed has achieved
   when it ends).
