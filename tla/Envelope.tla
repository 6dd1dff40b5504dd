------------------------------ MODULE Envelope ------------------------------
(***************************************************************************)
(* The life of one record's file: sealed by a save, re-wrapped when the    *)
(* vault changes its root key, upgraded from version 1 to version 2, and   *)
(* garbled in storage (envelope.rs).                                       *)
(*                                                                         *)
(* Authenticated encryption is taken as ideal: a sealed box opens exactly  *)
(* under the key and the associated data it was sealed with.  A content    *)
(* key is drawn at random for every seal, hence never drawn twice.         *)
(***************************************************************************)
EXTENDS Naturals

CONSTANTS
    Key,      \* root keys
    Label,    \* header key labels
    Id, Date, Stamp, Plain,
    Cek,      \* content keys
    None      \* no record sealed with a content key; a field no tag covers

ASSUME NoneAssumption == None \notin Date \cup Stamp

Header == [v : {1, 2}, id : Id, date : Date, key : Label, created : Stamp]

\* What one seal fixed: the header but for the key label, and the text.
Sealing == [v : {1, 2}, id : Id, date : Date, created : Stamp, plain : Plain]

ASSUME SealingAssumption == None \notin Sealing

wrap_aadIdOnly(h) == [h EXCEPT !.date = None, !.created = None]

\* The associated data of the wrap.  Version 2 binds the stored header whole,
\* version 1 only the id and the key label.
wrap_aad(h) == IF h.v = 1 THEN [h EXCEPT !.date = None, !.created = None] ELSE h

payload_aadDated(h) == <<h.v, h.id, h.date>>

\* The payload is bound to the version and the id, which no re-key changes.
payload_aad(h) == <<h.v, h.id>>

seal(k, aad, content) == [key |-> k, aad |-> aad, content |-> content]
opens(k, aad, box)    == box.key = k /\ box.aad = aad

seal_envelope(root, h, cek, plain) ==
    [header  |-> h,
     wrapped |-> seal(root, wrap_aad(h), cek),
     payload |-> seal(cek, payload_aad(h), plain)]

\* The content key unwraps.
Unwraps(root, e) == opens(root, wrap_aad(e.header), e.wrapped)

\* open_envelope succeeds, and returns the payload's content.
Opens(root, e) ==
    Unwraps(root, e) /\ opens(e.wrapped.content, payload_aad(e.header), e.payload)

RelabelLate(new, label, e) ==
    [e EXCEPT !.header.key = label,
              !.wrapped = seal(new, wrap_aad(e.header), e.wrapped.content)]

\* The label goes into the header before the wrap is sealed under it.
reseal_key(new, label, e) ==
    LET h == [e.header EXCEPT !.key = label]
    IN  [header  |-> h,
         wrapped |-> seal(new, wrap_aad(h), e.wrapped.content),
         payload |-> e.payload]

\* The header a version 1 file is sealed again under.
Upgraded(e) == [e.header EXCEPT !.v = 2]

VARIABLES
    file,    \* the record's file
    stale,   \* the version before, as a copy elsewhere may still hold it
    root,    \* the vault's root key
    label,   \* and its label
    born,    \* content key -> the Sealing it was drawn for, or None (history)
    saved,   \* the text saved last, and its stamp (history)
    garbled  \* the file was not left as the library wrote it (history)

vars == <<file, stale, root, label, born, saved, garbled>>

Box(keys, aads, contents) == [key : keys, aad : aads, content : contents]
WrapAad == {wrap_aad(h) : h \in Header}
PayloadAad == {1, 2} \X Id
File == [header  : Header,
         wrapped : Box(Key, WrapAad, Cek),
         payload : Box(Cek, PayloadAad, Plain)]

TypeOK ==
    /\ file \in File /\ stale \in File
    /\ root \in Key /\ label \in Label
    /\ born \in [Cek -> Sealing \cup {None}]
    /\ saved \in [plain : Plain, created : Stamp]
    /\ garbled \in BOOLEAN

Fresh == {c \in Cek : born[c] = None}

SealingOf(h, plain) ==
    [v |-> h.v, id |-> h.id, date |-> h.date, created |-> h.created, plain |-> plain]

\* A vault holds version 1 files of an earlier build, or version 2 files.
Init ==
    \E h \in Header, c \in Cek, p \in Plain, k \in Key :
        /\ file = seal_envelope(k, h, c, p)
        /\ stale = file
        /\ root = k
        /\ label = h.key
        /\ born = [x \in Cek |-> IF x = c THEN SealingOf(h, p) ELSE None]
        /\ saved = [plain |-> p, created |-> h.created]
        /\ garbled = FALSE

-----------------------------------------------------------------------------
\* save_entry seals version 2 under the live key.
Save(date, created, p, c) ==
    LET h == [v |-> 2, id |-> file.header.id, date |-> date, key |-> label,
              created |-> created]
    IN  /\ c \in Fresh
        /\ file' = seal_envelope(root, h, c, p)
        /\ stale' = file
        /\ born' = [born EXCEPT ![c] = SealingOf(h, p)]
        /\ saved' = [plain |-> p, created |-> created]
        /\ garbled' = FALSE
        /\ UNCHANGED <<root, label>>

\* enroll_to_master, for this file: a wrap that does not open leaves the
\* whole vault under the old key.
Enroll(new, newLabel) ==
    /\ new # root
    /\ Unwraps(root, file)
    /\ file' = reseal_key(new, newLabel, file)
    /\ root' = new
    /\ label' = newLabel
    /\ UNCHANGED <<stale, born, saved, garbled>>

\* migrate_v1_to_v2: the payload is sealed again under a new content key, the
\* other header fields stay.
Migrate(c) ==
    LET h == Upgraded(file)
    IN  /\ file.header.v = 1
        /\ Opens(root, file)
        /\ c \in Fresh
        /\ file' = seal_envelope(root, h, c, file.payload.content)
        /\ born' = [born EXCEPT ![c] = SealingOf(h, file.payload.content)]
        /\ UNCHANGED <<stale, root, label, saved, garbled>>

\* Storage hands back another header, or parts of two versions.
Garble ==
    /\ \/ \E h \in Header : file' = [file EXCEPT !.header = h]
       \/ file' = [file EXCEPT !.wrapped = stale.wrapped]
       \/ file' = [file EXCEPT !.payload = stale.payload]
       \/ file' = stale
    /\ file' # file
    /\ garbled' = TRUE
    /\ UNCHANGED <<stale, root, label, born, saved>>

Next ==
    \/ \E d \in Date, s \in Stamp, p \in Plain, c \in Cek : Save(d, s, p, c)
    \/ \E k \in Key, l \in Label : Enroll(k, l)
    \/ \E c \in Cek : Migrate(c)
    \/ Garble

Spec == Init /\ [][Next]_vars

-----------------------------------------------------------------------------
\* Whatever saves, re-keys and upgrades came before, a file that storage left
\* alone opens under the live key, holds the text saved last and still carries
\* the stamp of that save ("reconcile orders records by `created`").
Readable ==
    ~garbled => /\ Opens(root, file)
                /\ file.payload.content = saved.plain
                /\ file.header.created = saved.created

\* A file that opens tells the truth: its text was sealed for its id and, in
\* version 2, with just that date and stamp, however the parts of versions
\* and headers were mixed.
Authentic ==
    Opens(root, file) =>
        \E c \in Cek :
            /\ born[c] # None
            /\ born[c].v = file.header.v
            /\ born[c].id = file.header.id
            /\ born[c].plain = file.payload.content
            /\ file.header.v = 2 => /\ born[c].date = file.header.date
                                    /\ born[c].created = file.header.created
=============================================================================
