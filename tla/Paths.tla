-------------------------------- MODULE Paths --------------------------------
(***************************************************************************)
(* Where read_vault --out and export write, and when they refuse to:       *)
(* resolve_out (read_vault.rs) and dest_inside_vault (export.rs), over a   *)
(* small directory tree.                                                   *)
(*                                                                         *)
(* A directory is the sequence of names that leads to it from the root,    *)
(* with no link and no "..".  A path as it is typed is such a sequence of  *)
(* names, links and "..", from the root or from the working directory.     *)
(***************************************************************************)
EXTENDS Naturals, Sequences, SequencesExt

CONSTANTS
    Tree,   \* the directories there are, without the root
    Link,   \* a function from where a link is to the directory it leads to
    Vault   \* the vault's directory

Root == <<>>
Up   == ".."
Entries == "entries"    \* the directory of the entry files, in a vault or a bundle
Dirs == Tree \cup {Root}

ASSUME TreeAssumption  ==
    \A d \in Tree : d \in Seq(STRING) /\ d # Root /\ Front(d) \in Dirs
ASSUME LinkAssumption  ==
    /\ DOMAIN Link \cap Dirs = {}
    /\ \A l \in DOMAIN Link : Front(l) \in Dirs /\ Link[l] \in Dirs
ASSUME VaultAssumption == Vault \in Tree
ASSUME NameAssumption  == Entries \in STRING    \* which the provers do not know

\* A path as it is typed: from the root, or from the working directory.
Path == [abs : BOOLEAN, names : Seq(STRING)]

\* One name further, links followed.
Enter(dir, name) ==
    IF name = Up THEN (IF dir = Root THEN Root ELSE Front(dir))
    ELSE LET d == Append(dir, name) IN IF d \in DOMAIN Link THEN Link[d] ELSE d

From(cwd, path) == IF path.abs THEN Root ELSE cwd

\* The directories a path passes through, in order, as create_dir_all makes
\* those that are not there yet.
Route(cwd, path) ==
    LET dir[k \in 0 .. Len(path.names)] ==
          IF k = 0 THEN From(cwd, path) ELSE Enter(dir[k - 1], path.names[k])
    IN  dir

\* How many names of a path lead to directories that exist.
Reach(cwd, path) ==
    CHOOSE k \in 0 .. Len(path.names) :
        /\ \A i \in 0 .. k : Route(cwd, path)[i] \in Dirs
        /\ k = Len(path.names) \/ Route(cwd, path)[k + 1] \notin Dirs

Exists(cwd, path) == Reach(cwd, path) = Len(path.names)

canonicalize(cwd, path) == Route(cwd, path)[Len(path.names)]

Parent(path) == [path EXCEPT !.names = Front(@)]

\* The directory of a bundle that gets the entry files.
Bundle(dest) == [dest EXCEPT !.names = Append(@, Entries)]

Within(dir) == IsPrefix(Vault, dir)

-----------------------------------------------------------------------------
\* What of a path is not there yet.
Rest(cwd, path) == SubSeq(path.names, Reach(cwd, path) + 1, Len(path.names))

ResolvedAsTyped(cwd, path) == path.names

\* resolve_out: the nearest ancestor that exists, and the rest appended to it.
\* It gives up at a "..", which has no file name.
Resolved(cwd, path) ==
    Route(cwd, path)[Reach(cwd, path)] \o Rest(cwd, path)

ReaderRefuses(cwd, out) ==
    \/ \E i \in DOMAIN Rest(cwd, out) : Rest(cwd, out)[i] = Up
    \/ Within(Resolved(cwd, out))

\* The path has a parent that can be looked at: not the empty path.
Anchored(cwd, path) ==
    \/ Exists(cwd, path)
    \/ /\ path.names # <<>>
       /\ Last(path.names) # Up
       /\ path.abs \/ Len(path.names) > 1
       /\ Exists(cwd, Parent(path))

\* dest_inside_vault: the parent and the last name, or what was typed, as it
\* is; a relative path is under no absolute one.
ExportRefuses(cwd, dest) ==
    IF Exists(cwd, dest) THEN Within(canonicalize(cwd, dest))
    ELSE IF Anchored(cwd, dest)
    THEN Within(Append(canonicalize(cwd, Parent(dest)), Last(dest.names)))
    ELSE dest.abs /\ IsPrefix(Vault, dest.names)

\* The `entries` of a destination is the vault itself, or a link into it.
Nested(cwd, dest) ==
    LET d == Append(canonicalize(cwd, dest), Entries)
    IN  d = Vault \/ (d \in DOMAIN Link /\ Within(Link[d]))

-----------------------------------------------------------------------------
\* Writing at the end of a path makes or uses a directory of the vault.
LandsInside(cwd, path) ==
    \/ Within(canonicalize(cwd, path))
    \/ \E k \in DOMAIN Route(cwd, path) :
         Within(Route(cwd, path)[k]) /\ Route(cwd, path)[k] \notin Dirs
=============================================================================
