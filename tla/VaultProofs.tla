---------------------------- MODULE VaultProofs ----------------------------
(***************************************************************************)
(* What holds of Vault for any ids, dates and voice notes, any directory   *)
(* to import, and any number of saves and failures.                        *)
(***************************************************************************)
EXTENDS Vault, FiniteSetTheorems, TLAPS

\* Which files each operation has still to go through.
Work ==
    /\ op \in {"none", "delete", "mark"} => purge = {}
    /\ op \in {"none", "save", "mark"} => todo = {}
    /\ purge \subseteq Matching(id)
    /\ op = "delete" => todo \subseteq Matching(id) /\ Matching(id) \subseteq todo \cup stuck
    /\ op = "mark" => Matching(id) \subseteq stuck
    /\ op = "import" =>
         /\ todo \subseteq Legacy /\ IsFiniteSet(todo)
         /\ now + Cardinality(todo) <= MaxStamp

\* What the user saved last stays out of the way of every purge and delete;
\* an import may only replace what was imported.
Wanted ==
    /\ \A i \in Id : want[i] # NoFile => want[i][1][2] = i
    /\ SavedIsKept
    /\ want[id] # NoFile /\ id \notin doomed => want[id][1] \notin purge
    /\ op \in {"delete", "mark"} => id \in doomed
    /\ op = "import" =>
         \A i \in Id \ existing :
            want[i] # NoFile /\ i \notin doomed => want[i][2].text = 0

\* Of what is gone, only files that could not be removed are left, also
\* during an operation.
GoneStays == \A i \in gone : Matching(i) \subseteq stuck

\* A voice note belongs to one entry, imported or not, so the delete that
\* learned of it drops nobody else's.
Voices ==
    /\ \A n, m \in Present :
         files[n].voice = files[m].voice /\ files[n].voice # NoVoice => n[2] = m[2]
    /\ \A n \in Present, m \in Legacy :
         files[n].voice = LegacyVoice[m] /\ files[n].voice # NoVoice => n[2] = m[2]
    /\ op = "delete" /\ audio # NoVoice =>
         \A n \in Present : files[n].voice = audio => n[2] = id

IInv == TypeOK /\ Work /\ Wanted /\ GoneStays /\ Voices

-----------------------------------------------------------------------------
\* A name is a pair.
LEMMA Names ==
    /\ \A n \in Name : n[1] \in Date /\ n[2] \in Id /\ n = <<n[1], n[2]>>
    /\ \A date \in Date, i \in Id : <<date, i>> \in Name
                                    /\ <<date, i>>[1] = date /\ <<date, i>>[2] = i
    /\ \A n \in Legacy : n \in Name
  BY NameAssumption DEF Name

\* A file is none of the sentinels.
LEMMA EntryIsFile ==
    /\ \A e \in Entry : e # NoFile
    /\ \A n \in Name, e \in Entry : <<n, e>> # NoFile /\ <<n, e>> \in Name \X Entry
                                    /\ <<n, e>>[1] = n /\ <<n, e>>[2] = e
  BY SentinelAssumption

\* The effect of writing a file.
LEMMA WriteFacts ==
    ASSUME TypeOK, NEW n \in Name, NEW e \in Entry, files' = [files EXCEPT ![n] = e]
    PROVE  /\ files' \in [Name -> Entry \cup {NoFile}]
           /\ Present' = Present \cup {n}
           /\ files'[n] = e
           /\ \A m \in Name : m # n => files'[m] = files[m]
  BY EntryIsFile DEF TypeOK, Present

\* The effect of removing a file, which may fail.
LEMMA RemoveFacts ==
    ASSUME TypeOK, NEW n \in Present, Remove(n)
    PROVE  /\ files' \in [Name -> Entry \cup {NoFile}]
           /\ \A m \in Name : m # n => files'[m] = files[m]
           /\ \/ files'[n] = NoFile /\ Present' = Present \ {n} /\ stuck' = stuck \ {n}
              \/ UNCHANGED files /\ Present' = Present /\ stuck' = stuck \cup {n}
           /\ stuck' \subseteq Present'
           /\ faults' \in 0 .. MaxFaults
<1>1. n \in Name
  BY DEF Present
<1>2. CASE files' = [files EXCEPT ![n] = NoFile] /\ stuck' = stuck \ {n} /\ UNCHANGED faults
  BY <1>1, <1>2 DEF TypeOK, Present
<1>3. CASE stuck' = stuck \cup {n} /\ Spend(1) /\ UNCHANGED files
  BY <1>1, <1>3, BoundAssumption DEF TypeOK, Present, Spend
<1> QED
  BY <1>2, <1>3 DEF Remove

\* A vault freshly opened has nothing.
LEMMA InitGood == Init => IInv
<1> SUFFICES ASSUME Init PROVE IInv
  OBVIOUS
<1>1. id \in Id
  BY NameAssumption DEF Init
<1>2. Present = {}
  BY DEF Init, Present
<1>3. Matching(id) = {} /\ \A i : Matching(i) = {}
  BY <1>2 DEF Matching
<1>4. TypeOK
  BY <1>1, BoundAssumption DEF Init, TypeOK
<1>5. Work /\ GoneStays
  BY <1>3 DEF Init, Work, GoneStays
<1>6. Wanted
  BY DEF Init, Wanted, SavedIsKept
<1>7. Voices
  BY <1>2 DEF Init, Voices
<1> QED
  BY <1>4, <1>5, <1>6, <1>7 DEF IInv

-----------------------------------------------------------------------------
(* One lemma for each step.                                                *)

\* The removal of a file that is not the one its user saved last.
LEMMA RemovalKeeps ==
    ASSUME IInv, NEW n \in Present, Remove(n),
           UNCHANGED <<media, want, doomed, gone, recorded>>,
           n[2] \in doomed \/ want[n[2]] = NoFile \/ want[n[2]][1] # n
    PROVE  /\ SavedIsKept' /\ GoneStays'
           /\ \A k, m \in Present' :
                files'[k].voice = files'[m].voice /\ files'[k].voice # NoVoice => k[2] = m[2]
           /\ \A k \in Present', m \in Legacy :
                files'[k].voice = LegacyVoice[m] /\ files'[k].voice # NoVoice => k[2] = m[2]
<1>1. /\ \A m \in Name : m # n => files'[m] = files[m]
      /\ \/ files'[n] = NoFile /\ Present' = Present \ {n} /\ stuck' = stuck \ {n}
         \/ UNCHANGED files /\ Present' = Present /\ stuck' = stuck \cup {n}
  BY RemoveFacts DEF IInv
<1>2. \A m \in Present' : m \in Present /\ m \in Name /\ files'[m] = files[m]
  BY <1>1 DEF Present
<1>3. SavedIsKept'
  <2> SUFFICES ASSUME NEW i \in Id, want[i] # NoFile, i \notin doomed
               PROVE files'[want[i][1]] = want[i][2]
    BY DEF SavedIsKept
  <2>1. files[want[i][1]] = want[i][2] /\ want[i][1][2] = i /\ want[i][1] \in Name
    BY DEF IInv, Wanted, SavedIsKept, TypeOK
  <2> QED
    BY <1>1, <2>1
<1>4. GoneStays'
  <2> SUFFICES ASSUME NEW i \in gone, NEW m \in Present', m[2] = i
               PROVE m \in stuck'
    BY DEF GoneStays, Matching
  <2>1. m \in stuck
    BY <1>2 DEF IInv, GoneStays, Matching
  <2> QED
    BY <1>1, <2>1
<1> QED
  BY <1>2, <1>3, <1>4 DEF IInv, Voices

\* What a write of one file leaves true of the other ids.
LEMMA WriteKeeps ==
    ASSUME IInv, NEW n \in Name, NEW e \in Entry,
           files' = [files EXCEPT ![n] = e], stuck' = stuck \ {n},
           gone' = gone \ {n[2]}, UNCHANGED media,
           e.voice = NoVoice \/
              /\ \A m \in Present : files[m].voice = e.voice => m[2] = n[2]
              /\ \A m \in Legacy : LegacyVoice[m] = e.voice => m[2] = n[2]
    PROVE  /\ GoneStays'
           /\ \A k, m \in Present' :
                files'[k].voice = files'[m].voice /\ files'[k].voice # NoVoice => k[2] = m[2]
           /\ \A k \in Present', m \in Legacy :
                files'[k].voice = LegacyVoice[m] /\ files'[k].voice # NoVoice => k[2] = m[2]
           /\ stuck' \subseteq Present'
<1>1. /\ Present' = Present \cup {n} /\ files'[n] = e
      /\ \A m \in Name : m # n => files'[m] = files[m]
  BY WriteFacts DEF IInv
<1>2. \A m \in Present' : m # n => m \in Present /\ files'[m] = files[m]
  BY <1>1 DEF Present
<1>3. GoneStays'
  <2> SUFFICES ASSUME NEW i \in gone', NEW m \in Present', m[2] = i
               PROVE m \in stuck'
    BY DEF GoneStays, Matching
  <2>1. i \in gone /\ i # n[2] /\ m # n
    OBVIOUS
  <2> QED
    BY <1>2, <2>1 DEF IInv, GoneStays, Matching
<1>4. ASSUME NEW k \in Present', NEW m \in Present',
             files'[k].voice = files'[m].voice, files'[k].voice # NoVoice
      PROVE k[2] = m[2]
  BY <1>1, <1>2, <1>4 DEF IInv, Voices
<1>5. ASSUME NEW k \in Present', NEW m \in Legacy,
             files'[k].voice = LegacyVoice[m], files'[k].voice # NoVoice
      PROVE k[2] = m[2]
  BY <1>1, <1>2, <1>5 DEF IInv, Voices
<1>6. stuck' \subseteq Present'
  BY <1>1 DEF IInv, TypeOK
<1> QED
  BY <1>3, <1>4, <1>5, <1>6

\* A new voice note is named by no file yet.
LEMMA SaveMediaGood ==
    ASSUME IInv, NEW a \in Audio, SaveMedia(a)
    PROVE  IInv'
<1>1. /\ media' = media \cup {a} /\ recorded' = recorded \cup {a}
      /\ UNCHANGED <<files, tomb, now, op, id, purge, todo, audio, existing,
                     want, doomed, gone, stuck, faults>>
  BY DEF SaveMedia, opVars
<1>2. TypeOK'
  BY <1>1 DEF IInv, TypeOK, Present
<1>3. Work' /\ GoneStays'
  BY <1>1 DEF IInv, Work, GoneStays, Matching, Present
<1>4. Wanted'
  BY <1>1 DEF IInv, Wanted, SavedIsKept
<1>5. Voices'
  BY <1>1 DEF IInv, Voices, Present
<1> QED
  BY <1>2, <1>3, <1>4, <1>5 DEF IInv

\* A save puts the new file where its purge does not reach.
LEMMA SaveGood ==
    ASSUME IInv, NEW i \in Id, NEW date \in Date, NEW voice \in Audio \cup {NoVoice},
           Save(i, date, voice)
    PROVE  IInv'
<1> DEFINE n == <<date, i>>
           e == [stamp |-> now + 1, text |-> now + 1, voice |-> voice]
<1>1. n \in Name /\ n[2] = i /\ e \in Entry /\ e.voice = voice
  BY Names, BoundAssumption DEF IInv, TypeOK, Save, Entry
<1>2. /\ files' = [files EXCEPT ![n] = e] /\ stuck' = stuck \ {n}
      /\ now' = now + 1 /\ now < MaxStamp
      /\ op = "none" /\ op' = "save" /\ id' = i /\ purge' = Stale(n)
      /\ want' = [want EXCEPT ![i] = <<n, e>>]
      /\ doomed' = doomed \ {i} /\ gone' = gone \ {i}
      /\ UNCHANGED <<media, tomb, todo, audio, existing, recorded, faults>>
      /\ Attachable(i, voice)
  BY DEF Save
<1> HIDE DEF n, e
<1>3. /\ GoneStays'
      /\ \A k, m \in Present' :
           files'[k].voice = files'[m].voice /\ files'[k].voice # NoVoice => k[2] = m[2]
      /\ \A k \in Present', m \in Legacy :
           files'[k].voice = LegacyVoice[m] /\ files'[k].voice # NoVoice => k[2] = m[2]
      /\ stuck' \subseteq Present'
  <2>1. voice = NoVoice \/
           /\ \A m \in Present : files[m].voice = voice => m[2] = i
           /\ \A m \in Legacy : LegacyVoice[m] = voice => m[2] = i
    BY <1>2 DEF Attachable, Shown, Matching, IInv, Voices
  <2> QED
    BY <1>1, <1>2, <2>1, WriteKeeps
<1>4. /\ files' \in [Name -> Entry \cup {NoFile}]
      /\ Present' = Present \cup {n} /\ files'[n] = e
      /\ \A m \in Name : m # n => files'[m] = files[m]
  BY <1>1, <1>2, WriteFacts DEF IInv
<1>5. /\ <<n, e>> \in Name \X Entry
      /\ want'[i] = <<n, e>> /\ want'[i][1] = n /\ want'[i][2] = e
      /\ \A j \in Id : j # i => want'[j] = want[j]
  BY <1>1, <1>2, EntryIsFile DEF IInv, TypeOK
<1>6. Stale(n) \subseteq Present /\ n \notin Stale(n) /\ Stale(n) \subseteq Matching(i)'
  BY <1>1, <1>4 DEF Stale, Matching
<1>7. TypeOK'
  <2>1. want' \in [Id -> (Name \X Entry) \cup {NoFile}]
    BY <1>2, <1>5 DEF IInv, TypeOK
  <2>2. now' \in 0 .. MaxStamp /\ purge' \subseteq Name
    BY <1>2, <1>6, BoundAssumption DEF IInv, TypeOK, Present
  <2> QED
    BY <1>2, <1>3, <1>4, <2>1, <2>2 DEF IInv, TypeOK
<1>8. Work'
  BY <1>2, <1>6 DEF IInv, Work
<1>9. Wanted'
  <2>1. ASSUME NEW j \in Id, want'[j] # NoFile
        PROVE /\ want'[j][1][2] = j
              /\ j \notin doomed' => files'[want'[j][1]] = want'[j][2]
    <3>1. CASE j = i
      BY <1>1, <1>4, <1>5, <3>1
    <3>2. CASE j # i
      <4>1. want[j] # NoFile /\ want[j][1][2] = j /\ want[j][1] \in Name
        BY <1>5, <2>1, <3>2 DEF IInv, Wanted, TypeOK
      <4>2. want[j][1] # n
        BY <1>1, <3>2, <4>1
      <4> QED
        BY <1>2, <1>4, <1>5, <3>2, <4>1, <4>2 DEF IInv, Wanted, SavedIsKept
    <3> QED
      BY <3>1, <3>2
  <2>2. want'[id'][1] \notin purge'
    BY <1>2, <1>5, <1>6
  <2> QED
    BY <1>2, <2>1, <2>2 DEF Wanted, SavedIsKept
<1>10. Voices'
  BY <1>2, <1>3 DEF Voices
<1> QED
  BY <1>3, <1>7, <1>8, <1>9, <1>10 DEF IInv

\* A purge removes what the save replaced, and nothing the user saved last.
LEMMA PurgeGood ==
    ASSUME IInv, NEW n \in Name, Purge(n)
    PROVE  IInv'
<1>1. /\ n \in purge /\ Remove(n) /\ purge' = purge \ {n}
      /\ UNCHANGED <<media, tomb, now, op, id, todo, audio, existing, recorded,
                     want, doomed, gone>>
  BY DEF Purge
<1>2. n \in Present /\ n[2] = id /\ op \in {"save", "import"}
  BY <1>1 DEF IInv, TypeOK, Work, Matching
<1>3. /\ SavedIsKept' /\ GoneStays'
      /\ \A k, m \in Present' :
           files'[k].voice = files'[m].voice /\ files'[k].voice # NoVoice => k[2] = m[2]
      /\ \A k \in Present', m \in Legacy :
           files'[k].voice = LegacyVoice[m] /\ files'[k].voice # NoVoice => k[2] = m[2]
  BY <1>1, <1>2, RemovalKeeps DEF IInv, Wanted
<1>4. /\ files' \in [Name -> Entry \cup {NoFile}]
      /\ stuck' \subseteq Present' /\ faults' \in 0 .. MaxFaults
      /\ Present \ {n} \subseteq Present'
  BY <1>1, <1>2, RemoveFacts DEF IInv
<1>5. TypeOK'
  BY <1>1, <1>4 DEF IInv, TypeOK
<1>6. Work'
  BY <1>1, <1>2, <1>4 DEF IInv, Work, Matching
<1>7. Wanted'
  BY <1>1, <1>3 DEF IInv, Wanted
<1>8. Voices'
  BY <1>1, <1>2, <1>3 DEF IInv, Voices
<1> QED
  BY <1>3, <1>5, <1>6, <1>7, <1>8 DEF IInv

\* An operation that returns has nothing left to remove.
LEMMA ReturnGood ==
    ASSUME IInv, Return
    PROVE  IInv'
<1>1. /\ op \in {"save", "import"} /\ op' = "none" /\ purge = {} /\ todo = {}
      /\ UNCHANGED <<files, media, tomb, now, id, purge, todo, audio, existing,
                     recorded, want, doomed, gone, stuck, faults>>
  BY DEF Return, IInv, Work
<1> QED
  BY <1>1 DEF IInv, TypeOK, Work, Wanted, SavedIsKept, GoneStays, Voices,
              Matching, Present

\* A delete has every file of its id before it, and their removal is wanted.
LEMMA DeleteGood ==
    ASSUME IInv, NEW i \in Id, Delete(i)
    PROVE  IInv'
<1>1. /\ op = "none" /\ op' = "delete" /\ id' = i /\ todo' = Matching(i)
      /\ audio' = NoVoice /\ doomed' = doomed \cup {i} /\ purge = {}
      /\ UNCHANGED <<files, media, tomb, now, purge, existing, recorded, want,
                     gone, stuck, faults>>
  BY DEF Delete, Doomed, IInv, Work
<1>2. UNCHANGED Present /\ \A j : Matching(j)' = Matching(j)
  BY <1>1 DEF Present, Matching
<1>3. TypeOK'
  BY <1>1, <1>2 DEF IInv, TypeOK, Matching, Present
<1>4. Work' /\ GoneStays'
  BY <1>1, <1>2 DEF IInv, Work, GoneStays
<1>5. Wanted'
  BY <1>1 DEF IInv, Wanted, SavedIsKept
<1>6. Voices'
  BY <1>1, <1>2 DEF IInv, Voices
<1> QED
  BY <1>3, <1>4, <1>5, <1>6 DEF IInv

\* Each unlink leaves behind only what it failed to remove; the voice note it
\* learns of is that of no other id.
LEMMA UnlinkGood ==
    ASSUME IInv, NEW n \in Name, Unlink(n)
    PROVE  IInv'
<1>1. /\ op = "delete" /\ n \in todo /\ Remove(n) /\ todo' = todo \ {n}
      /\ audio' = IF audio = NoVoice THEN files[n].voice ELSE audio
      /\ UNCHANGED <<media, tomb, now, op, id, purge, existing, recorded, want,
                     doomed, gone>>
  BY DEF Unlink
<1>2. n \in Present /\ n[2] = id /\ id \in doomed /\ files[n] \in Entry
  BY <1>1 DEF IInv, TypeOK, Work, Wanted, Matching, Present
<1>3. /\ SavedIsKept' /\ GoneStays'
      /\ \A k, m \in Present' :
           files'[k].voice = files'[m].voice /\ files'[k].voice # NoVoice => k[2] = m[2]
      /\ \A k \in Present', m \in Legacy :
           files'[k].voice = LegacyVoice[m] /\ files'[k].voice # NoVoice => k[2] = m[2]
  BY <1>1, <1>2, RemovalKeeps
<1>4. /\ files' \in [Name -> Entry \cup {NoFile}]
      /\ stuck' \subseteq Present' /\ faults' \in 0 .. MaxFaults
      /\ \A m \in Present' : m \in Present /\ files'[m] = files[m]
      /\ Present \ {n} \subseteq Present'
      /\ n \notin Present' \/ n \in stuck'
      /\ stuck \ {n} \subseteq stuck'
  <2>1. /\ files' \in [Name -> Entry \cup {NoFile}]
        /\ \A m \in Name : m # n => files'[m] = files[m]
        /\ \/ files'[n] = NoFile /\ Present' = Present \ {n} /\ stuck' = stuck \ {n}
           \/ UNCHANGED files /\ Present' = Present /\ stuck' = stuck \cup {n}
        /\ stuck' \subseteq Present'
        /\ faults' \in 0 .. MaxFaults
    BY <1>1, <1>2, RemoveFacts DEF IInv
  <2> QED
    BY <2>1 DEF Present
<1>5. TypeOK'
  BY <1>1, <1>2, <1>4 DEF IInv, TypeOK, Entry
<1>6. Work'
  <2>1. purge = {}
    BY <1>1 DEF IInv, Work
  <2>2. todo' \subseteq Matching(id)'
    BY <1>1, <1>4 DEF IInv, Work, Matching
  <2>3. Matching(id)' \subseteq todo' \cup stuck'
    BY <1>1, <1>4 DEF IInv, Work, Matching
  <2> QED
    BY <1>1, <2>1, <2>2, <2>3 DEF Work
<1>7. Wanted'
  BY <1>1, <1>3 DEF IInv, Wanted
<1>8. Voices'
  <2>1. \A m \in Present' : audio' # NoVoice /\ files'[m].voice = audio' => m[2] = id'
    BY <1>1, <1>2, <1>4 DEF IInv, Voices
  <2> QED
    BY <1>3, <2>1 DEF Voices
<1> QED
  BY <1>3, <1>5, <1>6, <1>7, <1>8 DEF IInv

\* A delete that drops the voice note has gone through its files.
LEMMA DropMediaGood ==
    ASSUME IInv, DropMedia
    PROVE  IInv'
<1>1. /\ op = "delete" /\ todo = {} /\ media' = media \ {audio}
      /\ op' = "mark" /\ todo' = {}
      /\ UNCHANGED <<files, tomb, now, id, purge, audio, existing, recorded, want,
                     doomed, gone, stuck, faults>>
  BY DEF DropMedia, Unlinked
<1>2. UNCHANGED Present /\ \A j : Matching(j)' = Matching(j)
  BY <1>1 DEF Present, Matching
<1>3. TypeOK'
  BY <1>1, <1>2 DEF IInv, TypeOK
<1>4. Work' /\ GoneStays'
  BY <1>1, <1>2 DEF IInv, Work, GoneStays
<1>5. Wanted'
  BY <1>1 DEF IInv, Wanted, SavedIsKept
<1>6. Voices'
  BY <1>1, <1>2 DEF IInv, Voices
<1> QED
  BY <1>3, <1>4, <1>5, <1>6 DEF IInv

\* A delete returns with nothing of its id left but stuck files.
LEMMA MarkGood ==
    ASSUME IInv, Mark
    PROVE  IInv'
<1>1. /\ op = "mark" /\ op' = "none" /\ tomb' = tomb \cup {id} /\ gone' = gone \cup {id}
      /\ UNCHANGED <<files, media, now, id, purge, todo, audio, existing,
                     recorded, want, doomed, stuck, faults>>
  BY DEF Mark
<1>2. UNCHANGED Present /\ \A j : Matching(j)' = Matching(j)
  BY <1>1 DEF Present, Matching
<1>3. TypeOK'
  BY <1>1, <1>2 DEF IInv, TypeOK, Wanted
<1>4. Work' /\ GoneStays'
  BY <1>1, <1>2 DEF IInv, Work, GoneStays
<1>5. Wanted'
  BY <1>1 DEF IInv, Wanted, SavedIsKept
<1>6. Voices'
  BY <1>1, <1>2 DEF IInv, Voices
<1> QED
  BY <1>3, <1>4, <1>5, <1>6 DEF IInv

\* What the user has is on disk, and therefore among the ids an import skips.
LEMMA ImportGood ==
    ASSUME IInv, Import
    PROVE  IInv'
<1>1. /\ op = "none" /\ op' = "import" /\ existing' = ShownIds /\ todo' = Legacy
      /\ now + Cardinality(Legacy) <= MaxStamp
      /\ UNCHANGED <<files, media, tomb, now, id, purge, audio, recorded, want,
                     doomed, gone, stuck, faults>>
  BY DEF Import, Existing
<1>2. UNCHANGED Present /\ \A j : Matching(j)' = Matching(j)
  BY <1>1 DEF Present, Matching
<1>3. ShownIds \subseteq Id
  BY Names DEF ShownIds, Present
<1>4. TypeOK'
  BY <1>1, <1>2, <1>3, NameAssumption DEF IInv, TypeOK
<1>5. Work' /\ GoneStays'
  BY <1>1, <1>2, LegacyAssumption DEF IInv, Work, GoneStays
<1>6. ASSUME NEW i \in Id \ ShownIds, want[i] # NoFile, i \notin doomed
      PROVE FALSE
  <2>1. want[i][1] \in Name /\ want[i][2] \in Entry /\ want[i][1][2] = i
    BY <1>6 DEF IInv, TypeOK, Wanted
  <2>2. want[i][1] \in Present
    BY <1>6, <2>1, EntryIsFile DEF IInv, Wanted, SavedIsKept, Present
  <2> QED
    BY <1>6, <2>1, <2>2 DEF ShownIds
<1>7. Wanted'
  BY <1>1, <1>6 DEF IInv, Wanted, SavedIsKept
<1>8. Voices'
  BY <1>1, <1>2 DEF IInv, Voices
<1> QED
  BY <1>4, <1>5, <1>7, <1>8 DEF IInv

\* An import has one file less to read.
LEMMA OneLess ==
    ASSUME IInv, op = "import", NEW n \in todo
    PROVE  /\ IsFiniteSet(todo \ {n}) /\ now < MaxStamp
           /\ now + 1 + Cardinality(todo \ {n}) <= MaxStamp
<1>1. IsFiniteSet(todo) /\ now + Cardinality(todo) <= MaxStamp /\ now \in Nat
  BY BoundAssumption DEF IInv, Work, TypeOK
<1>2. /\ IsFiniteSet(todo \ {n}) /\ Cardinality(todo \ {n}) = Cardinality(todo) - 1
      /\ Cardinality(todo \ {n}) \in Nat /\ Cardinality(todo) \in Nat
  BY <1>1, FS_RemoveElement, FS_CardinalityType
<1> QED
  BY <1>1, <1>2, BoundAssumption

\* An import of a file replaces at most what another one imported.
LEMMA ImportOneGood ==
    ASSUME IInv, NEW n \in Name, ImportOne(n)
    PROVE  IInv'
<1> DEFINE i == n[2]
           e == [stamp |-> now + 1, text |-> 0, voice |-> LegacyVoice[n]]
           kept == want[i] # NoFile /\ want[i][2].text # 0
<1>1. /\ files' = [files EXCEPT ![n] = e] /\ stuck' = stuck \ {n}
      /\ n \in todo /\ i \notin existing /\ now' = now + 1
      /\ op = "import" /\ UNCHANGED op /\ id' = i /\ purge' = Stale(n)
      /\ todo' = todo \ {n} /\ gone' = gone \ {i}
      /\ want' = [want EXCEPT ![i] =
                     IF want[i] = NoFile \/ want[i][2].text = 0 THEN <<n, e>> ELSE want[i]]
      /\ UNCHANGED <<media, tomb, audio, existing, recorded, doomed, faults>>
  BY DEF ImportOne
<1>2. /\ IsFiniteSet(todo') /\ now < MaxStamp /\ now' + Cardinality(todo') <= MaxStamp
  BY <1>1, OneLess
<1>3. i \in Id /\ n \in Legacy /\ e \in Entry /\ e.voice = LegacyVoice[n] /\ e.text = 0
  BY <1>1, <1>2, Names, BoundAssumption, VoiceAssumption DEF IInv, TypeOK, Entry, Work
<1> HIDE DEF e
<1>4. /\ GoneStays'
      /\ \A k, m \in Present' :
           files'[k].voice = files'[m].voice /\ files'[k].voice # NoVoice => k[2] = m[2]
      /\ \A k \in Present', m \in Legacy :
           files'[k].voice = LegacyVoice[m] /\ files'[k].voice # NoVoice => k[2] = m[2]
      /\ stuck' \subseteq Present'
  <2>1. e.voice = NoVoice \/
           /\ \A m \in Present : files[m].voice = e.voice => m[2] = i
           /\ \A m \in Legacy : LegacyVoice[m] = e.voice => m[2] = i
    BY <1>3, VoiceAssumption DEF IInv, Voices
  <2> QED
    BY <1>1, <1>3, <2>1, WriteKeeps
<1>5. /\ files' \in [Name -> Entry \cup {NoFile}]
      /\ Present' = Present \cup {n} /\ files'[n] = e
      /\ \A m \in Name : m # n => files'[m] = files[m]
  BY <1>1, <1>3, WriteFacts DEF IInv
<1>6. /\ <<n, e>> \in Name \X Entry
      /\ ~ kept => want'[i] = <<n, e>> /\ want'[i][1] = n /\ want'[i][2] = e
      /\ kept => want'[i] = want[i] /\ i \in doomed
      /\ \A j \in Id : j # i => want'[j] = want[j]
  <2>1. kept => i \in doomed
    BY <1>1, <1>3 DEF IInv, Wanted
  <2> QED
    BY <1>1, <1>3, <2>1, EntryIsFile DEF IInv, TypeOK
<1>7. Stale(n) \subseteq Present /\ n \notin Stale(n) /\ Stale(n) \subseteq Matching(i)'
  BY <1>5 DEF Stale, Matching
<1>8. TypeOK'
  <2>1. want' \in [Id -> (Name \X Entry) \cup {NoFile}]
    BY <1>1, <1>3, <1>6 DEF IInv, TypeOK
  <2>2. now' \in 0 .. MaxStamp /\ purge' \subseteq Name
    BY <1>1, <1>2, <1>7, BoundAssumption DEF IInv, TypeOK, Present
  <2> QED
    BY <1>1, <1>3, <1>4, <1>5, <2>1, <2>2 DEF IInv, TypeOK
<1>9. Work'
  BY <1>1, <1>2, <1>7 DEF IInv, Work
<1>10. Wanted'
  <2>1. ASSUME NEW j \in Id, want'[j] # NoFile
        PROVE /\ want'[j][1][2] = j
              /\ j \notin doomed' => files'[want'[j][1]] = want'[j][2]
              /\ j \in Id \ existing' /\ j \notin doomed' => want'[j][2].text = 0
    <3>1. CASE j = i /\ ~ kept
      BY <1>3, <1>5, <1>6, <3>1
    <3>2. CASE j = i /\ kept
      BY <1>1, <1>6, <3>2 DEF IInv, Wanted
    <3>3. CASE j # i
      <4>1. want[j] # NoFile /\ want[j][1][2] = j /\ want[j][1] \in Name
        BY <1>6, <2>1, <3>3 DEF IInv, Wanted, TypeOK
      <4>2. want[j][1] # n
        BY <3>3, <4>1
      <4> QED
        BY <1>1, <1>5, <1>6, <3>3, <4>1, <4>2 DEF IInv, Wanted, SavedIsKept
    <3> QED
      BY <3>1, <3>2, <3>3
  <2>2. id' \notin doomed' => want'[id'][1] \notin purge'
    BY <1>1, <1>6, <1>7
  <2> QED
    BY <1>1, <2>1, <2>2 DEF Wanted, SavedIsKept
<1>11. Voices'
  BY <1>1, <1>4 DEF Voices
<1> QED
  BY <1>4, <1>8, <1>9, <1>10, <1>11 DEF IInv

\* A file an import skips or cannot read changes nothing.
LEMMA ImportSkipsGood ==
    ASSUME IInv, NEW n \in Name, ImportSkips(n)
    PROVE  IInv'
<1>1. /\ op = "import" /\ n \in todo /\ todo' = todo \ {n}
      /\ UNCHANGED <<files, media, tomb, now, op, id, purge, audio, existing,
                     recorded, want, doomed, gone, stuck>>
      /\ faults' \in 0 .. MaxFaults
  BY BoundAssumption DEF ImportSkips, Spend, IInv, TypeOK
<1>2. UNCHANGED Present /\ \A j : Matching(j)' = Matching(j)
  BY <1>1 DEF Present, Matching
<1>3. TypeOK'
  BY <1>1, <1>2 DEF IInv, TypeOK
<1>4. IsFiniteSet(todo') /\ now' + Cardinality(todo') <= MaxStamp
  <2>1. Cardinality(todo') \in Nat
    BY <1>1, OneLess, FS_CardinalityType
  <2> QED
    BY <1>1, <2>1, OneLess, BoundAssumption DEF IInv, TypeOK
<1>5. Work' /\ GoneStays'
  BY <1>1, <1>2, <1>4 DEF IInv, Work, GoneStays
<1>6. Wanted'
  BY <1>1 DEF IInv, Wanted, SavedIsKept
<1>7. Voices'
  BY <1>1, <1>2 DEF IInv, Voices
<1> QED
  BY <1>3, <1>5, <1>6, <1>7 DEF IInv

\* The process may end at any point.
LEMMA CrashGood ==
    ASSUME IInv, Crash
    PROVE  IInv'
<1>1. /\ op' = "none" /\ purge' = {} /\ todo' = {} /\ audio' = NoVoice
      /\ UNCHANGED <<files, media, tomb, now, id, existing, recorded, want,
                     doomed, gone, stuck>>
      /\ faults' \in 0 .. MaxFaults
  BY BoundAssumption DEF Crash, Spend, IInv, TypeOK
<1>2. UNCHANGED Present /\ \A j : Matching(j)' = Matching(j)
  BY <1>1 DEF Present, Matching
<1>3. TypeOK'
  BY <1>1, <1>2 DEF IInv, TypeOK
<1>4. Work' /\ GoneStays'
  BY <1>1, <1>2 DEF IInv, Work, GoneStays
<1>5. Wanted'
  BY <1>1 DEF IInv, Wanted, SavedIsKept
<1>6. Voices'
  BY <1>1, <1>2 DEF IInv, Voices
<1> QED
  BY <1>3, <1>4, <1>5, <1>6 DEF IInv

\* The invariant is inductive.
LEMMA StepGood == IInv /\ [Next]_vars => IInv'
<1> SUFFICES ASSUME IInv, [Next]_vars PROVE IInv'
  OBVIOUS
<1>1. CASE UNCHANGED vars
  BY <1>1 DEF vars, IInv, TypeOK, Work, Wanted, SavedIsKept, GoneStays, Voices,
              Matching, Present
<1> QED
  BY <1>1, SaveMediaGood, SaveGood, PurgeGood, ReturnGood, DeleteGood, UnlinkGood,
     DropMediaGood, MarkGood, ImportGood, ImportOneGood, ImportSkipsGood, CrashGood
     DEF Next

-----------------------------------------------------------------------------
\* The state of Vault always has its type.
THEOREM TypeCorrect == Spec => []TypeOK
<1>1. IInv => TypeOK
  BY DEF IInv
<1> QED
  BY <1>1, InitGood, StepGood, PTL DEF Spec

\* No crash, no failed removal and no import, at whatever point, takes from
\* the disk what the user saved last and did not delete.
THEOREM NothingSavedIsLost == Spec => []SavedIsKept
<1>1. IInv => SavedIsKept
  BY DEF IInv, Wanted
<1> QED
  BY <1>1, InitGood, StepGood, PTL DEF Spec

\* A delete that returned has removed every file of its id that could be.
THEOREM DeletesHold == Spec => []DeletedStaysDeleted
<1>1. IInv => DeletedStaysDeleted
  BY DEF IInv, GoneStays, DeletedStaysDeleted
<1> QED
  BY <1>1, InitGood, StepGood, PTL DEF Spec

\* A voice note that a step drops is named by no file but stuck ones.
LEMMA OnlyUnnamedGo ==
    ASSUME IInv, [Next]_vars
    PROVE  [\A n \in Present' \ stuck' :
               files'[n].voice \in media => files'[n].voice \in media']_vars
<1>1. CASE DropMedia
  <2>1. /\ op = "delete" /\ todo = {} /\ media' = media \ {audio}
        /\ UNCHANGED <<files, stuck>> /\ media \subseteq Audio
    BY <1>1 DEF DropMedia, Unlinked, IInv, TypeOK
  <2> SUFFICES ASSUME NEW n \in Present, n \notin stuck, files[n].voice \in media
               PROVE  files[n].voice # audio
    BY <2>1 DEF Present
  <2>2. n \notin Matching(id)
    BY <2>1 DEF IInv, Work
  <2> QED
    BY <2>1, <2>2, VoiceAssumption DEF IInv, Voices, Matching
<1>2. CASE UNCHANGED vars
  BY <1>2
<1>3. CASE media \subseteq media'
  BY <1>3
<1> QED
  BY <1>1, <1>2, <1>3
     DEF Next, SaveMedia, Save, Purge, Return, Delete, Unlink, Mark, Import, ImportOne,
         ImportSkips, Crash

\* No delete, whatever duplicates, stuck files and imported names it meets,
\* takes away a voice note that a file left on disk names.
THEOREM VoicesAreKept == Spec => VoiceKept
<1>1. IInv /\ [Next]_vars =>
        [\A n \in Present' \ stuck' :
            files'[n].voice \in media => files'[n].voice \in media']_vars
  BY OnlyUnnamedGo
<1> QED
  BY <1>1, InitGood, StepGood, PTL DEF Spec, VoiceKept
=============================================================================
