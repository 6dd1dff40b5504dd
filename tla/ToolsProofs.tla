---------------------------- MODULE ToolsProofs ----------------------------
(***************************************************************************)
(* Proofs about Tools: what a reader or an exporter gets out of a vault    *)
(* that is being written, and where it writes.                             *)
(***************************************************************************)
EXTENDS Tools, SequenceTheorems, WellFoundedInduction, TLAPS

\* A seal that was saved holds for every file of its id, but for the older
\* files whose save is not complete; while the tool runs, for all.
SealsHold ==
    \A n \in Present : n[2] \in hushed => files[n].sealed \/ (pc = "idle" /\ n \in purge)

\* Between two re-keys every file is under the manifest's key.
OneKey == next = NoKey => \A n \in Present : files[n].key = kdf

\* Nothing is written before the listing of the first run.
FirstRun ==
    /\ IF pc = "idle" THEN run = 0 ELSE run > 0
    /\ run <= 1 /\ pc \in {"idle", "refused", "kdf", "list"} => out = Nothing
    /\ pc \in {"idle", "refused", "kdf", "list"} => told = {}
    /\ tool = "export" => told = {} /\ pc # "probe"

\* Once listed, an entry that stays in the vault has a file that was found,
\* and a file that was found is still to do, or was written or reported.
Accounted ==
    pc \in {"probe", "work", "done"} =>
        /\ \A id \in steady : \E n \in listed : n[2] = id
        /\ \A n \in listed : n \in todo \/ out[n] # NoFile \/ n \in told
        /\ pc = "done" => todo = {}
        /\ run = 1 => \A n \in Name : out[n] # NoFile => n \in listed

\* What the export has copied in this run is under the key of its kdf.json.
Copied ==
    tool = "export" /\ ~crossed /\ pc \in {"list", "work", "done"} =>
        /\ next = NoKey /\ key = kdf
        /\ pc # "list" => \A n \in listed \ todo : out[n] # NoFile => out[n].key = key

\* All that any export wrote is under the manifest's key, as long as no re-key
\* came since.
OneWrite ==
    /\ crossed => mixed
    /\ tool = "export" /\ ~mixed =>
         /\ pc \in {"list", "work", "done"} \/ out # Nothing => next = NoKey
         /\ \A n \in Name : out[n] # NoFile => out[n].key = kdf

\* The inductive invariant behind the properties of both tools.
ToolsInv ==
    /\ TypeOK
    /\ SealsHold
    /\ OneKey
    /\ FirstRun
    /\ Accounted
    /\ Copied
    /\ OneWrite
    /\ SealKept
    /\ BundleWhole
    /\ BundleOpens

-----------------------------------------------------------------------------
(* Files.                                                                  *)

\* A file re-wrapped or damaged is a file.
LEMMA FileChanges ==
    ASSUME NEW f \in File, NEW k \in Key
    PROVE  /\ [f EXCEPT !.key = k] \in File
           /\ [f EXCEPT !.key = k].key = k
           /\ [f EXCEPT !.key = k].sealed = f.sealed
           /\ [f EXCEPT !.sound = FALSE] \in File
           /\ [f EXCEPT !.sound = FALSE].key = f.key
           /\ [f EXCEPT !.sound = FALSE].sealed = f.sealed
  BY DEF File

\* A re-wrap changes the key of one file.
LEMMA RewrapEffect ==
    ASSUME TypeOK, NEW n \in Name, Rewrap(n)
    PROVE  /\ next \in Key /\ n \in Present
           /\ files' \in [Name -> File \cup {NoFile}]
           /\ files'[n] \in File /\ files'[n].key = next
           /\ files'[n].sealed = files[n].sealed
           /\ \A m \in Name : m # n => files'[m] = files[m]
  <1>1. files[n] \in File /\ next \in Key /\ n \in Present
    BY DEF TypeOK, Rewrap, Present
  <1> DEFINE f == [files[n] EXCEPT !.key = next]
  <1>2. f \in File /\ f.key = next /\ f.sealed = files[n].sealed
    BY <1>1, FileChanges
  <1>3. files' = [files EXCEPT ![n] = f]
    BY DEF Rewrap
  <1> HIDE DEF f
  <1> QED
    BY <1>1, <1>2, <1>3 DEF TypeOK

\* Damage changes neither the key nor the seal of a file.
LEMMA DamageEffect ==
    ASSUME TypeOK, NEW n \in Name, Damage(n)
    PROVE  /\ n \in Present
           /\ files' \in [Name -> File \cup {NoFile}]
           /\ files'[n] \in File /\ files'[n].key = files[n].key
           /\ files'[n].sealed = files[n].sealed
           /\ \A m \in Name : m # n => files'[m] = files[m]
  <1>1. files[n] \in File /\ n \in Present
    BY DEF TypeOK, Damage, Present
  <1> DEFINE f == [files[n] EXCEPT !.sound = FALSE]
  <1>2. f \in File /\ f.key = files[n].key /\ f.sealed = files[n].sealed
    <2>1. files[n].key \in Key
      BY <1>1 DEF File
    <2> QED BY <1>1, <2>1, FileChanges
  <1>3. files' = [files EXCEPT ![n] = f]
    BY DEF Damage
  <1> HIDE DEF f
  <1> QED
    BY <1>1, <1>2, <1>3 DEF TypeOK

\* A save writes one file under the manifest's key.
LEMMA SaveEffect ==
    ASSUME TypeOK, NEW id \in Id, NEW date \in Date, NEW sealed \in BOOLEAN,
           Save(id, date, sealed)
    PROVE  /\ <<date, id>> \in Name
           /\ files' \in [Name -> File \cup {NoFile}]
           /\ files'[<<date, id>>] \in File
           /\ files'[<<date, id>>].key = kdf
           /\ files'[<<date, id>>].sealed = sealed
           /\ \A m \in Name : m # <<date, id>> => files'[m] = files[m]
  <1> DEFINE f == [save |-> saves + 1, key |-> kdf, sealed |-> sealed, sound |-> TRUE]
  <1>1. saves + 1 \in 1 .. MaxSave /\ kdf \in Key
    BY BoundAssumption DEF TypeOK, Save
  <1>2. f \in File
    BY <1>1 DEF File
  <1>3. files' = [files EXCEPT ![<<date, id>>] = f]
    BY DEF Save
  <1>4. <<date, id>> \in Name
    BY DEF Name
  <1> HIDE DEF f
  <1>5. /\ files' \in [Name -> File \cup {NoFile}]
        /\ files'[<<date, id>>] = f
        /\ \A m \in Name : m # <<date, id>> => files'[m] = files[m]
    BY <1>2, <1>3, <1>4 DEF TypeOK
  <1>6. f.key = kdf /\ f.sealed = sealed
    BY DEF f
  <1> QED
    BY <1>2, <1>4, <1>5, <1>6

-----------------------------------------------------------------------------
(* Types.                                                                  *)

\* What the app does leaves every variable its type.
LEMMA AppTypes ==
    ASSUME TypeOK, App
    PROVE  TypeOK'
  <1> USE DEF TypeOK
  <1>1. ASSUME NEW id \in Id, NEW date \in Date, NEW sealed \in BOOLEAN,
               Save(id, date, sealed)
        PROVE  TypeOK'
    <2>1. files' \in [Name -> File \cup {NoFile}]
      BY <1>1, SaveEffect
    <2>2. saves' \in 0 .. MaxSave /\ purge' \subseteq Name
      BY <1>1, BoundAssumption DEF Save, Present
    <2>3. steady' \subseteq Id /\ hushed' \subseteq Id
      BY <1>1 DEF Save, Watch
    <2> QED BY <1>1, <2>1, <2>2, <2>3 DEF Save, toolVars, asked
  <1>2. ASSUME NEW id \in Id, Delete(id)
        PROVE  TypeOK'
    <2>1. saves' \in 0 .. MaxSave /\ purge' \subseteq Name
      BY <1>2, BoundAssumption DEF Delete, Present
    <2> QED BY <1>2, <2>1 DEF Delete, toolVars, asked, history
  <1>3. ASSUME NEW n \in Name, Unlink(n)
        PROVE  TypeOK'
    BY <1>3 DEF Unlink, Watch, toolVars, asked
  <1>4. ASSUME NEW n \in Name, Rewrap(n)
        PROVE  TypeOK'
    <2>1. files' \in [Name -> File \cup {NoFile}]
      BY <1>4, RewrapEffect
    <2> QED BY <1>4, <2>1 DEF Rewrap, toolVars, asked, history
  <1>5. ASSUME NEW n \in Name, Damage(n)
        PROVE  TypeOK'
    <2>1. files' \in [Name -> File \cup {NoFile}]
      BY <1>5, DamageEffect
    <2>2. faults' \in 0 .. MaxFaults
      BY <1>5, BoundAssumption DEF Damage, Spend
    <2> QED BY <1>5, <2>1, <2>2 DEF Damage, toolVars, asked, history
  <1>6. CASE Leave
    <2>1. faults' \in 0 .. MaxFaults
      BY <1>6, BoundAssumption DEF Leave, Spend
    <2> QED BY <1>6, <2>1 DEF Leave, toolVars, asked
  <1>7. ASSUME NEW k \in Key, BeginRekey(k)
        PROVE  TypeOK'
    BY <1>7 DEF BeginRekey, toolVars, asked
  <1>8. CASE EndRekey
    BY <1>8 DEF EndRekey, toolVars, asked, history
  <1> QED
    BY <1>1, <1>2, <1>3, <1>4, <1>5, <1>6, <1>7, <1>8 DEF App

\* So does what the tools do.
LEMMA ToolTypes ==
    ASSUME TypeOK, FirstRun, Tool
    PROVE  TypeOK'
  <1> USE DEF TypeOK, vaultVars, asked, history
  <1>1. CASE Start
    <2>1. run' \in 0 .. MaxRun
      BY <1>1, BoundAssumption DEF Start, FirstRun
    <2> QED BY <1>1, <2>1 DEF Start
  <1>2. CASE Again
    <2>1. run' \in 0 .. MaxRun
      BY <1>2, BoundAssumption DEF Again
    <2>2. told = {}
      BY <1>2 DEF Again, FirstRun
    <2> QED BY <1>2, <2>1, <2>2 DEF Again
  <1>3. CASE ReadKdf
    BY <1>3 DEF ReadKdf, Derived, HasKdf
  <1>4. CASE List
    <2>1. told = {}
      BY <1>4 DEF List, FirstRun
    <2>2. Present \subseteq Name /\ steady' \subseteq Id
      BY <1>4 DEF List, Present, Name
    <2>3. pc' \in {"work", "failed", "probe"}
      BY <1>4 DEF List
    <2> QED BY <1>4, <2>1, <2>2, <2>3 DEF List
  <1>5. CASE Probe
    BY <1>5 DEF Probe
  <1>6. ASSUME NEW n \in Name, Emit(n)
        PROVE  TypeOK'
    <2>1. told' \subseteq listed
      BY <1>6 DEF Emit, Reported
    <2>2. out' \in [Name -> File \cup {NoFile}]
      BY <1>6 DEF Emit, Body
    <2> QED BY <1>6, <2>1, <2>2 DEF Emit
  <1>7. ASSUME NEW n \in Name, CopyOut(n)
        PROVE  TypeOK'
    BY <1>7 DEF CopyOut
  <1>8. CASE ToolFails
    <2>1. faults' \in 0 .. MaxFaults
      BY <1>8, BoundAssumption DEF ToolFails, Spend
    <2> QED BY <1>8, <2>1 DEF ToolFails
  <1>9. CASE End
    <2>1. man' \in [Name -> File \cup {NoFile}]
      BY <1>9 DEF End
    <2> QED BY <1>9, <2>1 DEF End
  <1> QED
    BY <1>1, <1>2, <1>3, <1>4, <1>5, <1>6, <1>7, <1>8, <1>9 DEF Tool

-----------------------------------------------------------------------------
(* The app, beside a tool.                                                 *)

\* The app touches nothing of the tool's, and an id that loses its files does
\* not come back into `steady`.
LEMMA AppLeaves ==
    ASSUME App
    PROVE  /\ UNCHANGED toolVars /\ steady' \subseteq steady
           /\ crossed => crossed'
           /\ mixed => mixed'
  <1>1. UNCHANGED toolVars /\ steady' \subseteq steady
    BY DEF App, Save, Delete, Unlink, Rewrap, Damage, Leave, BeginRekey, EndRekey,
           Watch, history
  <1>2. crossed' = crossed \/ crossed'
    BY DEF App, Save, Delete, Unlink, Rewrap, Damage, Leave, BeginRekey, EndRekey,
           history
  <1>3. mixed' = mixed \/ mixed'
    BY DEF App, Save, Delete, Unlink, Rewrap, Damage, Leave, BeginRekey, EndRekey,
           history
  <1>4. crossed => crossed'
    <2>1. CASE crossed' = crossed
      BY <2>1
    <2>2. CASE crossed'
      BY <2>2
    <2> QED BY <1>2, <2>1, <2>2
  <1>5. mixed => mixed'
    <2>1. CASE mixed' = mixed
      BY <2>1
    <2>2. CASE mixed'
      BY <2>2
    <2> QED BY <1>3, <2>1, <2>2
  <1> QED
    BY <1>1, <1>4, <1>5

\* Saves that seal, and interrupted ones, keep the promise of `hushed`.
LEMMA SealsStep ==
    ASSUME TypeOK, SealsHold, [Next]_vars
    PROVE  SealsHold'
  <1>0. SUFFICES ASSUME NEW n \in Name, files'[n] # NoFile, n[2] \in hushed'
                 PROVE  files'[n].sealed \/ (pc' = "idle" /\ n \in purge')
    BY DEF SealsHold, Present
  <1>1. \A m \in Name : files[m] # NoFile /\ m[2] \in hushed
                           => files[m].sealed \/ (pc = "idle" /\ m \in purge)
    BY DEF SealsHold, Present
  <1> DEFINE Goal == files'[n].sealed \/ (pc' = "idle" /\ n \in purge')
  <1>2. ASSUME NEW id \in Id, NEW date \in Date, NEW sealed \in BOOLEAN,
               Save(id, date, sealed)
        PROVE  Goal
    <2>1. purge = {} /\ pc' = pc
      BY <1>2 DEF Save, Free, toolVars
    <2>2. CASE n = <<date, id>>
      <3>1. files'[n].sealed = sealed
        BY <1>2, <2>2, SaveEffect
      <3>2. sealed = TRUE
        BY <1>0, <1>2, <2>2 DEF Save
      <3> QED BY <3>1, <3>2
    <2>3. CASE n # <<date, id>>
      <3>1. files'[n] = files[n]
        BY <1>2, <2>3, SaveEffect
      <3>2. CASE n[2] = id
        <4>1. n \in purge'
          BY <1>0, <1>2, <2>3, <3>1, <3>2 DEF Save, Present, Of
        <4>2. pc = "idle"
          BY <1>0, <1>2, <3>2 DEF Save
        <4> QED BY <2>1, <4>1, <4>2
      <3>3. CASE n[2] # id
        <4>1. n[2] \in hushed
          BY <1>0, <1>2, <3>3 DEF Save
        <4> QED BY <1>0, <1>1, <2>1, <3>1, <4>1
      <3> QED BY <3>2, <3>3
    <2> QED BY <2>2, <2>3
  <1>3. ASSUME NEW id \in Id, Delete(id)
        PROVE  Goal
    BY <1>0, <1>1, <1>3 DEF Delete, Free, toolVars, history
  <1>4. ASSUME NEW m \in Name, Unlink(m)
        PROVE  Goal
    <2>1. n # m /\ files'[n] = files[n]
      BY <1>0, <1>4 DEF Unlink, TypeOK
    <2> QED BY <1>0, <1>1, <1>4, <2>1 DEF Unlink, toolVars
  <1>5. ASSUME NEW m \in Name, Rewrap(m) \/ Damage(m)
        PROVE  Goal
    <2>1. files[n] # NoFile /\ files'[n].sealed = files[n].sealed
      BY <1>0, <1>5, RewrapEffect, DamageEffect DEF Present
    <2> QED BY <1>0, <1>1, <1>5, <2>1 DEF Rewrap, Damage, toolVars, vaultVars, history
  <1>6. CASE Leave
    <2>1. n \notin purge
      BY <1>0, <1>6 DEF Leave
    <2> QED BY <1>0, <1>1, <1>6, <2>1 DEF Leave, toolVars
  <1>7. CASE (\E k \in Key : BeginRekey(k)) \/ EndRekey
    BY <1>0, <1>1, <1>7 DEF BeginRekey, EndRekey, toolVars, history
  <1>8. CASE Start
    <2>1. n \notin purge
      BY <1>0, <1>8 DEF Start
    <2> QED BY <1>0, <1>1, <1>8, <2>1 DEF Start, vaultVars
  <1>9. CASE Tool /\ ~Start
    BY <1>0, <1>1, <1>9
       DEF Tool, Again, ReadKdf, List, Probe, Emit, CopyOut, ToolFails, End,
           vaultVars, history
  <1>10. CASE UNCHANGED vars
    BY <1>0, <1>1, <1>10 DEF vars, vaultVars, toolVars, history
  <1> QED
    BY <1>2, <1>3, <1>4, <1>5, <1>6, <1>7, <1>8, <1>9, <1>10 DEF Next, App

\* Between two re-keys no file is under another key.
LEMMA OneKeyStep ==
    ASSUME TypeOK, OneKey, [Next]_vars
    PROVE  OneKey'
  <1>0. SUFFICES ASSUME next' = NoKey, NEW n \in Name, files'[n] # NoFile
                 PROVE  files'[n].key = kdf'
    BY DEF OneKey, Present
  <1>1. next = NoKey => \A m \in Name : files[m] # NoFile => files[m].key = kdf
    BY DEF OneKey, Present
  <1>2. ASSUME NEW id \in Id, NEW date \in Date, NEW sealed \in BOOLEAN,
               Save(id, date, sealed)
        PROVE  files'[n].key = kdf'
    <2>1. next = NoKey /\ kdf' = kdf
      BY <1>2 DEF Save, Free
    <2>2. CASE n = <<date, id>>
      BY <1>2, <2>1, <2>2, SaveEffect
    <2>3. CASE n # <<date, id>>
      BY <1>0, <1>1, <1>2, <2>1, <2>3, SaveEffect
    <2> QED BY <2>2, <2>3
  <1>3. ASSUME NEW id \in Id, Delete(id)
        PROVE  files'[n].key = kdf'
    BY <1>0, <1>1, <1>3 DEF Delete
  <1>4. ASSUME NEW m \in Name, Unlink(m)
        PROVE  files'[n].key = kdf'
    BY <1>0, <1>1, <1>4 DEF Unlink, TypeOK
  <1>5. ASSUME NEW m \in Name, Rewrap(m)
        PROVE  files'[n].key = kdf'
    BY <1>0, <1>5 DEF Rewrap
  <1>6. ASSUME NEW m \in Name, Damage(m)
        PROVE  files'[n].key = kdf'
    <2>1. files[n] # NoFile /\ files'[n].key = files[n].key
      BY <1>0, <1>6, DamageEffect DEF Present
    <2> QED BY <1>0, <1>1, <1>6, <2>1 DEF Damage
  <1>7. CASE Leave
    BY <1>0, <1>1, <1>7 DEF Leave
  <1>8. ASSUME NEW k \in Key, BeginRekey(k)
        PROVE  files'[n].key = kdf'
    BY <1>0, <1>8, KeyAssumption DEF BeginRekey
  <1>9. CASE EndRekey
    BY <1>0, <1>9 DEF EndRekey, Present
  <1>10. CASE UNCHANGED vaultVars
    BY <1>0, <1>1, <1>10 DEF vaultVars
  <1> QED
    BY <1>2, <1>3, <1>4, <1>5, <1>6, <1>7, <1>8, <1>9, <1>10
       DEF Next, App, Tool, Start, Again, ReadKdf, List, Probe, Emit, CopyOut,
           ToolFails, End, vars

\* Nothing is written or reported before there is a listing.
LEMMA FirstRunStep ==
    ASSUME TypeOK, FirstRun, [Next]_vars
    PROVE  FirstRun'
  <1>1. CASE UNCHANGED toolVars
    BY <1>1 DEF FirstRun, toolVars, asked
  <1>2. CASE Start
    BY <1>2 DEF Start, FirstRun, TypeOK, asked
  <1>3. CASE Again
    <2>1. run > 0 /\ run \in Nat /\ run' = run + 1
      BY <1>3 DEF Again, FirstRun, TypeOK
    <2>2. run' > 1
      BY <2>1
    <2> QED BY <1>3, <2>1, <2>2 DEF Again, FirstRun, asked
  <1>4. CASE ReadKdf
    BY <1>4 DEF ReadKdf, FirstRun, asked
  <1>5. CASE List
    BY <1>5 DEF List, FirstRun, asked, TypeOK
  <1>6. CASE Probe
    BY <1>6 DEF Probe, FirstRun, asked
  <1>7. ASSUME NEW n \in Name, Emit(n) \/ CopyOut(n)
        PROVE  FirstRun'
    BY <1>7 DEF Emit, CopyOut, FirstRun, asked
  <1>8. CASE ToolFails \/ End
    BY <1>8 DEF ToolFails, End, FirstRun, asked
  <1> QED
    BY <1>1, <1>2, <1>3, <1>4, <1>5, <1>6, <1>7, <1>8, AppLeaves
       DEF Next, Tool, vars

-----------------------------------------------------------------------------
(* What a tool has read.                                                   *)

\* What is listed stays accounted for.
LEMMA AccountedStep ==
    ASSUME TypeOK, FirstRun, Accounted, [Next]_vars
    PROVE  Accounted'
  <1>1. CASE App
    BY <1>1, AppLeaves DEF Accounted, toolVars
  <1>2. CASE Start \/ Again \/ ReadKdf \/ ToolFails
    BY <1>2 DEF Start, Again, ReadKdf, ToolFails, Accounted
  <1>3. CASE List
    <2>1. /\ pc = "list" /\ pc' # "done" /\ run' = run /\ out' = out
          /\ listed' = Present /\ todo' = Present
          /\ steady' = {n[2] : n \in Present}
      BY <1>3 DEF List
    <2>2. \A id \in steady' : \E n \in listed' : n[2] = id
      BY <2>1
    <2>3. run = 1 => \A n \in Name : out[n] = NoFile
      BY <2>1 DEF FirstRun, Nothing
    <2> QED BY <2>1, <2>2, <2>3 DEF Accounted
  <1>4. CASE Probe
    BY <1>4 DEF Probe, Accounted, history
  <1>5. ASSUME NEW n \in Name, Emit(n)
        PROVE  Accounted'
    <2>1. /\ pc = "work" /\ pc' = pc /\ run' = run /\ listed' = listed
          /\ steady' = steady /\ todo' = todo \ {n} /\ n \in listed
      BY <1>5 DEF Emit, history, TypeOK
    <2>2. CASE Opens(n)
      <3>1. out' = [out EXCEPT ![n] = files[n]] /\ told' = told /\ files[n] # NoFile
        BY <1>5, <2>2 DEF Emit, Body, Opens
      <3> QED BY <2>1, <3>1 DEF Accounted, TypeOK
    <2>3. CASE ~Opens(n)
      <3>1. out' = out /\ told' = told \cup {n}
        BY <1>5, <2>3 DEF Emit, Reported
      <3> QED BY <2>1, <3>1 DEF Accounted
    <2> QED BY <2>2, <2>3
  <1>6. ASSUME NEW n \in Name, CopyOut(n)
        PROVE  Accounted'
    BY <1>6 DEF CopyOut, Gone, Accounted, TypeOK, history
  <1>7. CASE End
    BY <1>7 DEF End, Accounted, history
  <1>8. CASE UNCHANGED vars
    BY <1>8 DEF vars, toolVars, history, Accounted
  <1> QED
    BY <1>1, <1>2, <1>3, <1>4, <1>5, <1>6, <1>7, <1>8 DEF Next, Tool

\* What is copied while no re-key comes in between is under one key.
LEMMA CopiedStep ==
    ASSUME TypeOK, OneKey, FirstRun, Copied, [Next]_vars
    PROVE  Copied'
  <1>0. SUFFICES ASSUME tool' = "export", ~crossed', pc' \in {"list", "work", "done"}
                 PROVE  /\ next' = NoKey /\ key' = kdf'
                        /\ pc' # "list" =>
                              \A n \in listed' \ todo' : out'[n] # NoFile => out'[n].key = key'
    BY DEF Copied
  <1> DEFINE Goal == /\ next' = NoKey /\ key' = kdf'
                     /\ pc' # "list" =>
                           \A n \in listed' \ todo' : out'[n] # NoFile => out'[n].key = key'
  <1>1. CASE App
    <2>1. UNCHANGED toolVars /\ ~crossed
      BY <1>0, <1>1, AppLeaves
    <2>2. next = NoKey
      BY <1>0, <2>1 DEF Copied, toolVars, asked
    <2>3. next' = next /\ kdf' = kdf
      BY <1>0, <1>1, <2>2
         DEF App, Save, Delete, Unlink, Rewrap, Damage, Leave, BeginRekey, EndRekey
    <2> QED BY <1>0, <2>1, <2>2, <2>3 DEF Copied, toolVars, asked
  <1>2. CASE ReadKdf
    BY <1>0, <1>2 DEF ReadKdf, Derived, vaultVars, asked
  <1>3. CASE List
    BY <1>0, <1>3 DEF List, Copied, vaultVars, asked
  <1>4. ASSUME NEW n \in Name, CopyOut(n)
        PROVE  Goal
    <2>1. /\ tool = "export" /\ ~crossed /\ pc = "work" /\ pc' = "work"
          /\ UNCHANGED <<next, kdf, key, listed>>
          /\ ~ Gone(n) /\ todo' = todo \ {n} /\ out' = [out EXCEPT ![n] = files[n]]
      BY <1>0, <1>4 DEF CopyOut, vaultVars, asked, history
    <2>2. next = NoKey /\ key = kdf /\ files[n].key = kdf
      BY <2>1 DEF Copied, OneKey, Present, Gone
    <2> QED BY <2>1, <2>2 DEF Copied, TypeOK
  <1>5. CASE End
    BY <1>0, <1>5 DEF End, Copied, vaultVars, asked, history
  <1>6. CASE Start \/ Again \/ ToolFails
    BY <1>0, <1>6 DEF Start, Again, ToolFails
  <1>7. CASE Probe
    BY <1>0, <1>7 DEF Probe, FirstRun, asked
  <1>8. ASSUME NEW n \in Name, Emit(n)
        PROVE  Goal
    BY <1>0, <1>8 DEF Emit, asked
  <1>9. CASE UNCHANGED vars
    BY <1>0, <1>9 DEF vars, vaultVars, toolVars, asked, history, Copied
  <1> QED
    BY <1>1, <1>2, <1>3, <1>4, <1>5, <1>6, <1>7, <1>8, <1>9 DEF Next, Tool

\* What all exports wrote while no re-key came in between is under one key.
LEMMA OneWriteStep ==
    ASSUME TypeOK, OneKey, FirstRun, OneWrite, [Next]_vars
    PROVE  OneWrite'
  <1>1. crossed' => mixed'
    <2>1. CASE crossed' = crossed /\ mixed' = mixed
      BY <2>1 DEF OneWrite
    <2>2. CASE \E k \in Key : BeginRekey(k)
      BY <2>2 DEF BeginRekey
    <2>3. CASE ReadKdf
      BY <2>3 DEF ReadKdf
    <2> QED
      BY <2>1, <2>2, <2>3
         DEF Next, App, Save, Delete, Unlink, Rewrap, Damage, Leave, EndRekey, Tool,
             Start, Again, List, Probe, Emit, CopyOut, ToolFails, End, vars, history
  <1>2. SUFFICES ASSUME tool' = "export", ~mixed'
                 PROVE  /\ pc' \in {"list", "work", "done"} \/ out' # Nothing => next' = NoKey
                        /\ \A n \in Name : out'[n] # NoFile => out'[n].key = kdf'
    BY <1>1 DEF OneWrite, Nothing
  <1> DEFINE Goal == /\ pc' \in {"list", "work", "done"} \/ out' # Nothing => next' = NoKey
                     /\ \A n \in Name : out'[n] # NoFile => out'[n].key = kdf'
  <1>3. CASE App
    <2>1. UNCHANGED toolVars /\ ~mixed
      BY <1>2, <1>3, AppLeaves
    <2>2. ASSUME next = NoKey
          PROVE  next' = next /\ kdf' = kdf
      BY <1>2, <1>3, <2>2
         DEF App, Save, Delete, Unlink, Rewrap, Damage, Leave, BeginRekey, EndRekey
    <2>3. ASSUME next # NoKey
          PROVE  out = Nothing /\ pc \notin {"list", "work", "done"}
      BY <1>2, <2>1, <2>3 DEF OneWrite, toolVars, asked
    <2>4. CASE next = NoKey
      BY <1>2, <2>1, <2>2, <2>4 DEF OneWrite, toolVars, asked
    <2>5. CASE next # NoKey
      BY <2>1, <2>3, <2>5 DEF Nothing, toolVars
    <2> QED BY <2>4, <2>5
  <1>4. CASE ReadKdf
    <2>1. next = NoKey /\ UNCHANGED <<next, kdf, out, tool>> /\ (~mixed \/ out = Nothing)
      BY <1>2, <1>4 DEF ReadKdf, vaultVars, asked
    <2> QED BY <1>2, <2>1 DEF OneWrite, Nothing
  <1>5. CASE Start \/ Again \/ List \/ ToolFails \/ End
    <2>1. UNCHANGED <<next, kdf, out, tool, mixed>>
      BY <1>5 DEF Start, Again, List, ToolFails, End, vaultVars, asked, history
    <2>2. pc' \in {"list", "work", "done"} => pc \in {"list", "work"}
      BY <1>5 DEF Start, Again, List, ToolFails, End
    <2> QED BY <1>2, <2>1, <2>2 DEF OneWrite
  <1>6. CASE Probe
    BY <1>2, <1>6 DEF Probe, FirstRun, asked
  <1>7. ASSUME NEW n \in Name, Emit(n)
        PROVE  Goal
    BY <1>2, <1>7 DEF Emit, asked
  <1>8. ASSUME NEW n \in Name, CopyOut(n)
        PROVE  Goal
    <2>1. /\ tool = "export" /\ ~mixed /\ pc = "work"
          /\ UNCHANGED <<next, kdf>>
          /\ UNCHANGED out \/ (~ Gone(n) /\ out' = [out EXCEPT ![n] = files[n]])
      BY <1>2, <1>8 DEF CopyOut, vaultVars, asked, history
    <2>2. next = NoKey /\ (~ Gone(n) => files[n].key = kdf)
      BY <2>1 DEF OneWrite, OneKey, Present, Gone
    <2> QED BY <2>1, <2>2 DEF OneWrite, TypeOK
  <1>9. CASE UNCHANGED vars
    BY <1>2, <1>9 DEF vars, vaultVars, toolVars, asked, history, OneWrite
  <1> QED
    BY <1>3, <1>4, <1>5, <1>6, <1>7, <1>8, <1>9 DEF Next, Tool

\* The reader writes no text under a seal.
LEMMA SealKeptStep ==
    ASSUME TypeOK, SealsHold, FirstRun, SealKept, [Next]_vars
    PROVE  SealKept'
  <1>0. SUFFICES ASSUME tool' = "read", NEW n \in Name, n[2] \in hushed', out'[n] # NoFile
                 PROVE  out'[n].sealed
    BY DEF SealKept
  <1>1. ASSUME tool' = tool, out' = out, hushed' \subseteq hushed
        PROVE  out'[n].sealed
    BY <1>0, <1>1 DEF SealKept
  <1>2. ASSUME NEW id \in Id, NEW date \in Date, NEW sealed \in BOOLEAN,
               Save(id, date, sealed)
        PROVE  out'[n].sealed
    <2>1. tool' = tool /\ out' = out
      BY <1>2 DEF Save, toolVars, asked
    <2>2. pc # "idle"
      <3>1. pc = "idle" => out = Nothing
        BY DEF FirstRun
      <3> QED BY <1>0, <2>1, <3>1 DEF Nothing
    <2>3. hushed' \subseteq hushed
      BY <1>2, <2>2 DEF Save
    <2> QED BY <1>1, <2>1, <2>3
  <1>3. CASE App /\ ~ \E id \in Id, date \in Date, sealed \in BOOLEAN :
                        Save(id, date, sealed)
    BY <1>1, <1>3 DEF App, Delete, Unlink, Rewrap, Damage, Leave, BeginRekey,
                      EndRekey, toolVars, asked, history
  <1>4. ASSUME NEW m \in Name, Emit(m)
        PROVE  out'[n].sealed
    <2>1. tool' = tool /\ hushed' = hushed /\ pc = "work"
      BY <1>4 DEF Emit, asked, history
    <2>2. CASE out' = out
      BY <1>1, <2>1, <2>2
    <2>3. CASE out' = [out EXCEPT ![m] = files[m]] /\ Opens(m)
      <3>1. CASE n = m
        <4>1. n \in Present /\ out'[n] = files[n]
          BY <2>3, <3>1 DEF Opens, Present, TypeOK
        <4> QED BY <1>0, <2>1, <4>1 DEF SealsHold
      <3>2. CASE n # m
        BY <1>0, <2>1, <2>3, <3>2 DEF SealKept, TypeOK
      <3> QED BY <3>1, <3>2
    <2> QED BY <1>4, <2>2, <2>3 DEF Emit, Body
  <1>5. ASSUME NEW m \in Name, CopyOut(m)
        PROVE  out'[n].sealed
    BY <1>0, <1>5 DEF CopyOut, asked
  <1>6. CASE Start \/ Again \/ ReadKdf \/ List \/ Probe \/ ToolFails \/ End
    BY <1>1, <1>6 DEF Start, Again, ReadKdf, List, Probe, ToolFails, End, asked, history
  <1>7. CASE UNCHANGED vars
    BY <1>1, <1>7 DEF vars, toolVars, asked, history
  <1> QED
    BY <1>2, <1>3, <1>4, <1>5, <1>6, <1>7 DEF Next, Tool

\* A bundle that gets a manifest is whole and opens, and stays so.
LEMMA BundleStep ==
    ASSUME TypeOK, FirstRun, Accounted, Copied, BundleWhole, BundleOpens, [Next]_vars,
           Copied', OneWrite'
    PROVE  BundleWhole' /\ BundleOpens'
  <1> DEFINE NamedOpen == ~crossed => \A n \in Name : man[n] # NoFile => man[n].key = key
  <1>0. SUFFICES ASSUME tool' = "export", pc' = "done"
                 PROVE  BundleWhole' /\ NamedOpen'
    <2>1. SUFFICES ASSUME tool' = "export", pc' = "done"
                   PROVE  /\ BundleWhole' /\ NamedOpen'
                          /\ ~mixed' => \A n \in Name : out'[n] # NoFile => out'[n].key = key'
      BY DEF BundleWhole, BundleOpens
    <2>2. ~mixed' => key' = kdf' /\ \A n \in Name : out'[n] # NoFile => out'[n].key = kdf'
      BY <2>1 DEF Copied, OneWrite
    <2> QED BY <2>1, <2>2
  <1>1. CASE App
    <2>1. UNCHANGED toolVars /\ steady' \subseteq steady /\ (crossed => crossed')
      BY <1>1, AppLeaves
    <2> QED BY <1>0, <2>1 DEF BundleWhole, BundleOpens, toolVars, asked
  <1>2. CASE End
    <2>1. /\ tool = "export" /\ pc = "work" /\ todo = {} /\ told = {}
          /\ man' = [n \in Name |-> IF n \in listed THEN out[n] ELSE NoFile]
          /\ UNCHANGED <<listed, out, key, run, steady, crossed>>
      BY <1>0, <1>2 DEF End, FirstRun, asked, history
    <2>2. BundleWhole'
      <3>1. ASSUME NEW id \in steady
            PROVE  \E n \in Of(id) : man'[n] # NoFile
        <4>1. PICK n \in listed : n[2] = id
          BY <2>1 DEF Accounted
        <4>2. n \in Of(id) /\ man'[n] = out[n]
          BY <2>1, <4>1 DEF Of, TypeOK
        <4>3. out[n] # NoFile
          BY <2>1 DEF Accounted
        <4> QED BY <4>2, <4>3
      <3>2. run = 1 => man' = out
        <4>1. ASSUME run = 1 PROVE \A n \in Name : man'[n] = out[n]
          BY <2>1, <4>1 DEF Accounted
        <4> QED BY <2>1, <4>1 DEF TypeOK
      <3> QED BY <2>1, <3>1, <3>2 DEF BundleWhole
    <2>3. NamedOpen'
      BY <2>1 DEF Copied
    <2> QED BY <2>2, <2>3
  <1>3. CASE Tool /\ ~End
    BY <1>0, <1>3 DEF Tool, Start, Again, ReadKdf, List, Probe, Emit, CopyOut,
                      ToolFails, asked
  <1>4. CASE UNCHANGED vars
    BY <1>0, <1>4 DEF vars, toolVars, asked, history, BundleWhole, BundleOpens
  <1> QED
    BY <1>1, <1>2, <1>3, <1>4 DEF Next

-----------------------------------------------------------------------------
(* The invariant and what it says.                                         *)

\* A reader that is done has accounted for every entry.
LEMMA AllAccounted == TypeOK /\ Accounted => ReaderAccounts
  BY DEF TypeOK, Accounted, ReaderAccounts, Of

\* A tool refuses or it does not.
LEMMA RefusalType ==
    \A t, cwd, path : Refuses(t, cwd, path) \in BOOLEAN
  <1>1. \A cwd, path : ReaderRefuses(cwd, path) \in BOOLEAN
    BY DEF ReaderRefuses
  <1>2. \A dir : Within(dir) \in BOOLEAN
    BY DEF Within, IsPrefix
  <1>3. \A cwd, path : ExportRefuses(cwd, path) \in BOOLEAN
    BY <1>2 DEF ExportRefuses
  <1> QED
    BY <1>1, <1>3 DEF Refuses

\* Every step of the app and of the tools preserves the invariant.
LEMMA ToolsInductive == Spec => []ToolsInv
  <1>1. Init => ToolsInv
    <2> SUFFICES ASSUME Init PROVE ToolsInv
      OBVIOUS
    <2>1. Present = {} /\ \A n \in Name : out[n] = NoFile
      BY DEF Init, Present, Nothing
    <2>2. refused \in BOOLEAN /\ place \in {"inside", "outside"}
      BY RefusalType DEF Init
    <2>3. TypeOK
      <3>1. files \in [Name -> File \cup {NoFile}] /\ out = files /\ man = files
        BY DEF Init, Nothing
      <3>2. 0 \in 0 .. MaxSave /\ 0 \in 0 .. MaxFaults /\ 0 \in 0 .. MaxRun
        BY BoundAssumption
      <3> QED BY <2>2, <3>1, <3>2, KeyAssumption DEF Init, TypeOK
    <2> QED
      BY <2>1, <2>3
         DEF Init, ToolsInv, SealsHold, OneKey, FirstRun, Accounted, Copied,
             OneWrite, SealKept, BundleWhole, BundleOpens
  <1>2. TypeOK /\ FirstRun /\ [Next]_vars => TypeOK'
    <2>1. TypeOK /\ UNCHANGED vars => TypeOK'
      BY DEF TypeOK, vars, vaultVars, toolVars, asked, history
    <2> QED
      BY <2>1, AppTypes, ToolTypes DEF Next
  <1>3. ToolsInv /\ [Next]_vars => ToolsInv'
    BY <1>2, SealsStep, OneKeyStep, FirstRunStep, AccountedStep, CopiedStep,
       OneWriteStep, SealKeptStep, BundleStep DEF ToolsInv
  <1> QED
    BY <1>1, <1>3, PTL DEF Spec

\* Every variable of Tools has its type in every reachable state.
THEOREM TypeCorrect == Spec => []TypeOK
  <1>1. ToolsInv => TypeOK
    BY DEF ToolsInv
  <1> QED
    BY <1>1, ToolsInductive, PTL

\* "Sealed entries are reported, not exported": however the app saves,
\* deletes and re-keys beside it, the reader writes no text of an entry whose
\* seal was complete when it was started.
THEOREM SealsAreKept == Spec => []SealKept
  <1>1. ToolsInv => SealKept
    BY DEF ToolsInv
  <1> QED
    BY <1>1, ToolsInductive, PTL

\* A reader that gets to its end has written or reported every entry that was
\* in the vault all along.
THEOREM NothingIsSkipped == Spec => []ReaderAccounts
  <1>1. ToolsInv => ReaderAccounts
    BY AllAccounted DEF ToolsInv
  <1> QED
    BY <1>1, ToolsInductive, PTL

\* A bundle with a manifest has every entry that was in the vault all along,
\* and the manifest names all of a fresh bundle.
THEOREM BundlesAreWhole == Spec => []BundleWhole
  <1>1. ToolsInv => BundleWhole
    BY DEF ToolsInv
  <1> QED
    BY <1>1, ToolsInductive, PTL

\* The key of kdf.json opens the files a bundle's manifest names, unless a
\* re-key came in between; and all that is in it, what earlier exports left
\* included, unless one came since the first of them.
THEOREM BundlesOpen == Spec => []BundleOpens
  <1>1. ToolsInv => BundleOpens
    BY DEF ToolsInv
  <1> QED
    BY <1>1, ToolsInductive, PTL
-----------------------------------------------------------------------------
(* Where a path leads.                                                     *)

\* Of some numbers one is the least.
LEMMA Least ==
    ASSUME NEW S, S \subseteq Nat, S # {}
    PROVE  \E m \in S : \A n \in S : m <= n
  <1>1. PICK m \in S : \A n \in S : ~ (<<n, m>> \in OpToRel(<, Nat))
    BY NatLessThanWellFounded, WFMin
  <1>2. ASSUME NEW n \in S PROVE ~ (n < m)
    BY <1>1, <1>2 DEF OpToRel
  <1> QED
    BY <1>2

\* A path is followed name by name.
LEMMA Followed ==
    ASSUME NEW cwd, NEW path \in Path
    PROVE  /\ DOMAIN Route(cwd, path) = 0 .. Len(path.names)
           /\ Route(cwd, path)[0] = From(cwd, path)
           /\ \A k \in 1 .. Len(path.names) :
                 Route(cwd, path)[k] = Enter(Route(cwd, path)[k - 1], path.names[k])
  <1> DEFINE N == Len(path.names)
             Upto(m, g) == g = [k \in 0 .. m |-> IF k = 0 THEN From(cwd, path)
                                                 ELSE Enter(g[k - 1], path.names[k])]
             Good(m) == \E g : Upto(m, g)
             Bad == {m \in 0 .. N : ~ Good(m)}
  <1>1. N \in Nat
    BY DEF Path
  <1>2. Bad = {}
    <2> SUFFICES ASSUME Bad # {} PROVE FALSE
      OBVIOUS
    <2>1. PICK m \in Bad : \A n \in Bad : m <= n
      <3>1. Bad \subseteq Nat
        BY <1>1
      <3> HIDE DEF Bad
      <3> QED BY <3>1, Least
    <2>2. m \in 0 .. N /\ ~ Good(m)
      OBVIOUS
    <2>3. CASE m = 0
      <3>1. Upto(0, [k \in 0 .. 0 |-> From(cwd, path)])
        OBVIOUS
      <3> QED BY <2>2, <2>3, <3>1
    <2>4. CASE m # 0
      <3>1. m - 1 \in 0 .. N /\ Good(m - 1)
        <4> HIDE DEF Good, N
        <4>1. m - 1 \in 0 .. N /\ m - 1 \notin Bad
          BY <1>1, <2>1, <2>2, <2>4
        <4> QED BY <4>1
      <3>2. PICK g : Upto(m - 1, g)
        BY <3>1
      <3> DEFINE h == [k \in 0 .. m |-> IF k = m THEN Enter(g[m - 1], path.names[m]) ELSE g[k]]
      <3>3. \A k \in 0 .. m : h[k] = IF k = 0 THEN From(cwd, path)
                                     ELSE Enter(h[k - 1], path.names[k])
        <4> TAKE k \in 0 .. m
        <4>1. CASE k = m
          BY <1>1, <2>2, <2>4, <4>1
        <4>2. CASE k # m /\ k = 0
          BY <1>1, <2>2, <2>4, <3>2, <4>2
        <4>3. CASE k # m /\ k # 0
          <5>1. k - 1 \in 0 .. m /\ k - 1 # m /\ k \in 0 .. m - 1
            BY <1>1, <2>2, <4>3
          <5>2. h[k - 1] = g[k - 1] /\ h[k] = g[k]
            BY <4>3, <5>1
          <5> QED BY <3>2, <4>3, <5>1, <5>2
        <4> QED BY <4>1, <4>2, <4>3
      <3>4. Upto(m, h)
        BY <3>3
      <3> QED BY <2>2, <3>4
    <2> QED BY <2>3, <2>4
  <1>3. N \in 0 .. N /\ N \notin Bad
    <2> HIDE DEF Bad
    <2> QED BY <1>1, <1>2
  <1>4. PICK g : Upto(N, g)
    BY <1>3
  <1>5. Upto(N, Route(cwd, path))
    BY <1>4 DEF Route
  <1>6. \A k \in 1 .. N : k \in 0 .. N /\ k # 0
    BY <1>1
  <1> QED
    BY <1>1, <1>5, <1>6
\* Every directory is a sequence of names.
LEMMA DirsType == Dirs \subseteq Seq(STRING) /\ Root \in Dirs
  <1>1. Root \in Seq(STRING)
    BY EmptySeq DEF Root
  <1>2. Tree \subseteq Seq(STRING)
    BY TreeAssumption
  <1> QED
    BY <1>1, <1>2 DEF Dirs

\* One name further is a sequence of names.
LEMMA EnterType ==
    ASSUME NEW dir \in Seq(STRING), NEW name \in STRING
    PROVE  Enter(dir, name) \in Seq(STRING)
  <1>1. Dirs \subseteq Seq(STRING) /\ Root \in Seq(STRING)
    BY DirsType
  <1>2. CASE name = Up
    <2>1. Front(dir) \in Seq(STRING)
      <3>1. Len(dir) \in Nat /\ \A i \in 1 .. Len(dir) - 1 : dir[i] \in STRING
        BY ElementOfSeq, LenProperties
      <3> QED BY <3>1, SubSeqProperties DEF Front
    <2> QED BY <1>1, <1>2, <2>1 DEF Enter
  <1>3. CASE name # Up
    <2>1. Append(dir, name) \in Seq(STRING)
      BY AppendProperties
    <2>2. \A l \in DOMAIN Link : Link[l] \in Dirs
      BY LinkAssumption
    <2> QED BY <1>1, <1>3, <2>1, <2>2 DEF Enter
  <1> QED
    BY <1>2, <1>3

\* So is every directory a path passes through.
LEMMA RouteType ==
    ASSUME NEW cwd \in Dirs, NEW path \in Path
    PROVE  \A k \in 0 .. Len(path.names) : Route(cwd, path)[k] \in Seq(STRING)
  <1> DEFINE N == Len(path.names)
             r == Route(cwd, path)
             Bad == {k \in 0 .. N : r[k] \notin Seq(STRING)}
  <1>1. N \in Nat /\ \A k \in 1 .. N : path.names[k] \in STRING
    BY DEF Path
  <1>2. /\ r[0] = From(cwd, path)
        /\ \A k \in 1 .. N : r[k] = Enter(r[k - 1], path.names[k])
    BY Followed
  <1>3. r[0] \in Seq(STRING)
    BY <1>2, DirsType DEF From
  <1> HIDE DEF r, N
  <1>4. SUFFICES ASSUME Bad # {} PROVE FALSE
    BY DEF r, N
  <1>5. PICK m \in Bad : \A n \in Bad : m <= n
    <2>1. Bad \subseteq Nat
      BY <1>1
    <2> HIDE DEF Bad
    <2> QED BY <1>4, <2>1, Least
  <1>6. m \in 1 .. N /\ m - 1 \in 0 .. N /\ m - 1 \notin Bad
    BY <1>1, <1>3, <1>5
  <1>7. r[m - 1] \in Seq(STRING)
    BY <1>6
  <1>8. r[m] \in Seq(STRING)
    BY <1>1, <1>2, <1>6, <1>7, EnterType
  <1> QED
    BY <1>5, <1>8

\* A path passes through existing directories up to Reach, and not beyond it.
LEMMA ReachFacts ==
    ASSUME NEW cwd \in Dirs, NEW path \in Path
    PROVE  /\ Reach(cwd, path) \in 0 .. Len(path.names)
           /\ \A i \in 0 .. Reach(cwd, path) : Route(cwd, path)[i] \in Dirs
           /\ \/ Reach(cwd, path) = Len(path.names)
              \/ Route(cwd, path)[Reach(cwd, path) + 1] \notin Dirs
  <1> DEFINE N == Len(path.names)
             r == Route(cwd, path)
             Missing == {k \in 1 .. N : r[k] \notin Dirs}
             Ends(k) == /\ \A i \in 0 .. k : r[i] \in Dirs
                        /\ k = N \/ r[k + 1] \notin Dirs
  <1>1. N \in Nat
    BY DEF Path
  <1>2. r[0] \in Dirs
    BY Followed DEF From, Dirs
  <1>3. Reach(cwd, path) = CHOOSE k \in 0 .. N : Ends(k)
    BY DEF Reach
  <1> HIDE DEF r, N
  <1>4. \E k \in 0 .. N : Ends(k)
    <2>1. CASE Missing = {}
      <3>1. \A i \in 0 .. N : r[i] \in Dirs
        <4> TAKE i \in 0 .. N
        <4>1. CASE i = 0
          BY <1>2, <4>1
        <4>2. CASE i # 0
          BY <1>1, <2>1, <4>2
        <4> QED BY <4>1, <4>2
      <3>2. N \in 0 .. N /\ Ends(N)
        BY <1>1, <3>1
      <3> QED BY <3>2
    <2>2. CASE Missing # {}
      <3>1. PICK m \in Missing : \A n \in Missing : m <= n
        <4>1. Missing \subseteq Nat
          BY <1>1
        <4> HIDE DEF Missing
        <4> QED BY <2>2, <4>1, Least
      <3>2. m \in 1 .. N /\ r[m] \notin Dirs
        OBVIOUS
      <3>3. \A i \in 0 .. m - 1 : r[i] \in Dirs
        <4> TAKE i \in 0 .. m - 1
        <4>1. CASE i = 0
          BY <1>2, <4>1
        <4>2. CASE i # 0
          BY <1>1, <3>1, <3>2, <4>2
        <4> QED BY <4>1, <4>2
      <3>4. m - 1 \in 0 .. N /\ (m - 1) + 1 = m
        BY <1>1, <3>2
      <3>5. Ends(m - 1)
        BY <3>2, <3>3, <3>4
      <3> QED BY <3>4, <3>5
    <2> QED BY <2>1, <2>2
  <1>5. Reach(cwd, path) \in 0 .. N /\ Ends(Reach(cwd, path))
    <2> HIDE DEF Ends
    <2> QED BY <1>3, <1>4
  <1> QED
    BY <1>5 DEF r, N

\* What two paths have in common they start with.
LEMMA SamePrefix ==
    ASSUME NEW s \in Seq(STRING), NEW t \in Seq(STRING), NEW n \in Nat,
           n <= Len(s), n <= Len(t), \A i \in 1 .. n : s[i] = t[i]
    PROVE  SubSeq(s, 1, n) = SubSeq(t, 1, n)
  <1>1. \A i \in 1 .. n : s[i] \in STRING /\ t[i] \in STRING
    BY ElementOfSeq, LenProperties
  <1>2. /\ SubSeq(s, 1, n) \in Seq(STRING) /\ SubSeq(t, 1, n) \in Seq(STRING)
        /\ Len(SubSeq(s, 1, n)) = n /\ Len(SubSeq(t, 1, n)) = n
        /\ \A i \in 1 .. n : SubSeq(s, 1, n)[i] = s[i] /\ SubSeq(t, 1, n)[i] = t[i]
    BY <1>1, SubSeqProperties
  <1> QED
    BY <1>2, SeqEqual

\* Beyond them there are neither directories nor links.
LEMMA NothingBeyond ==
    ASSUME NEW dir \in Seq(STRING), NEW name \in STRING
    PROVE  /\ Append(dir, name) \in Seq(STRING)
           /\ dir \notin Dirs => /\ Append(dir, name) \notin Dirs
                                 /\ Append(dir, name) \notin DOMAIN Link
           /\ Within(dir) => Within(Append(dir, name))
           /\ Front(Append(dir, name)) = dir
  <1> DEFINE further == Append(dir, name)
  <1>1. /\ further \in Seq(STRING) /\ further # Root
        /\ Len(dir) \in Nat /\ Len(further) = Len(dir) + 1
        /\ \A i \in 1 .. Len(dir) : further[i] = dir[i]
    <2>1. Len(dir) \in Nat
      BY LenProperties
    <2>2. further \in Seq(STRING)
      BY AppendProperties
    <2>3. further # Root
      BY AppendProperties DEF Root
    <2>4. Len(further) = Len(dir) + 1
      BY AppendProperties
    <2>5. \A i \in 1 .. Len(dir) : further[i] = dir[i]
      BY AppendProperties
    <2> HIDE DEF further
    <2> QED BY <2>1, <2>2, <2>3, <2>4, <2>5
  <1> HIDE DEF further
  <1>2. Front(further) = dir
    <2>1. SubSeq(further, 1, Len(dir)) = SubSeq(dir, 1, Len(dir))
      BY <1>1, SamePrefix
    <2>2. SubSeq(dir, 1, Len(dir)) = dir
      BY SubSeqFull
    <2>3. Len(further) - 1 = Len(dir)
      BY <1>1
    <2> QED BY <2>1, <2>2, <2>3 DEF Front
  <1>3. dir \notin Dirs => further \notin Dirs /\ further \notin DOMAIN Link
    BY <1>1, <1>2, TreeAssumption, LinkAssumption DEF Dirs
  <1>4. ASSUME Within(dir) PROVE Within(further)
    <2>1. Vault \in Seq(STRING)
      BY VaultAssumption, TreeAssumption
    <2>2. Len(Vault) \in Nat
      BY <2>1, LenProperties
    <2> DEFINE n == Len(Vault)
    <2>3. n \in Nat /\ n <= Len(dir) /\ n <= Len(further)
          /\ \A i \in 1 .. n : further[i] = dir[i]
      BY <1>1, <1>4, <2>2 DEF Within, IsPrefix
    <2>4. SubSeq(further, 1, n) = SubSeq(dir, 1, n)
      <3> HIDE DEF n
      <3> QED BY <1>1, <2>3, SamePrefix
    <2> QED BY <1>4, <2>3, <2>4 DEF Within, IsPrefix
  <1> QED
    BY <1>1, <1>2, <1>3, <1>4 DEF further
\* What follows the last existing directory, if no ".." does, is appended to it.
LEMMA AppendedBeyond ==
    ASSUME NEW cwd \in Dirs, NEW path \in Path, NEW j \in Reach(cwd, path) + 1 .. Len(path.names),
           \A i \in Reach(cwd, path) + 1 .. Len(path.names) : path.names[i] # Up
    PROVE  /\ Route(cwd, path)[j] = Append(Route(cwd, path)[j - 1], path.names[j])
           /\ Route(cwd, path)[j] \notin Dirs
  <1> DEFINE N == Len(path.names)
             r == Route(cwd, path)
             c == Reach(cwd, path)
             Good(i) == r[i] = Append(r[i - 1], path.names[i]) /\ r[i] \notin Dirs
             Bad == {i \in c + 1 .. N : ~ Good(i)}
  <1>1. N \in Nat /\ \A i \in 1 .. N : path.names[i] \in STRING
    BY DEF Path
  <1>2. \A i \in 1 .. N : r[i] = Enter(r[i - 1], path.names[i])
    BY Followed
  <1>3. \A i \in 0 .. N : r[i] \in Seq(STRING)
    BY RouteType
  <1>4. c \in 0 .. N /\ (c = N \/ r[c + 1] \notin Dirs)
    BY ReachFacts
  <1>5. \A i \in c + 1 .. N : path.names[i] # Up
    OBVIOUS
  <1>6. j \in c + 1 .. N
    OBVIOUS
  <1> HIDE DEF r, N, c
  <1>7. ASSUME NEW i \in c + 1 .. N, r[i] \notin Dirs
        PROVE  Good(i)
    <2>1. i \in 1 .. N /\ r[i] = Enter(r[i - 1], path.names[i]) /\ path.names[i] # Up
      BY <1>1, <1>2, <1>4, <1>5
    <2>2. Append(r[i - 1], path.names[i]) \notin DOMAIN Link
      BY <1>7, <2>1, LinkAssumption DEF Enter
    <2> QED BY <1>7, <2>1, <2>2 DEF Enter
  <1>8. Bad = {}
    <2> SUFFICES ASSUME Bad # {} PROVE FALSE
      OBVIOUS
    <2>1. PICK m \in Bad : \A n \in Bad : m <= n
      <3>1. Bad \subseteq Nat
        BY <1>1, <1>4
      <3> HIDE DEF Bad
      <3> QED BY <3>1, Least
    <2>2. m \in c + 1 .. N /\ ~ Good(m)
      OBVIOUS
    <2>3. CASE m = c + 1
      <3>1. c # N
        BY <1>1, <1>4, <2>2, <2>3
      <3>2. r[m] \notin Dirs
        BY <1>4, <2>3, <3>1
      <3> HIDE DEF Good
      <3> QED BY <1>7, <2>2, <3>2
    <2>4. CASE m # c + 1
      <3>1. m - 1 \in c + 1 .. N /\ m - 1 \notin Bad
        BY <1>1, <1>4, <2>1, <2>2, <2>4
      <3>2. r[m - 1] \notin Dirs
        BY <3>1
      <3>3. /\ m - 1 \in 0 .. N /\ m \in 1 .. N
            /\ r[m] = Enter(r[m - 1], path.names[m]) /\ path.names[m] # Up
            /\ r[m - 1] \in Seq(STRING) /\ path.names[m] \in STRING
        <4>1. m - 1 \in 0 .. N /\ m \in 1 .. N
          BY <1>1, <1>4, <2>2
        <4> QED BY <1>1, <1>2, <1>3, <1>5, <2>2, <4>1
      <3>4. /\ Append(r[m - 1], path.names[m]) \notin Dirs
            /\ Append(r[m - 1], path.names[m]) \notin DOMAIN Link
        BY <3>2, <3>3, NothingBeyond
      <3>5. r[m] \notin Dirs
        BY <3>3, <3>4 DEF Enter
      <3> HIDE DEF Good
      <3> QED BY <1>7, <2>2, <3>5
    <2> QED BY <2>3, <2>4
  <1>9. Good(j)
    BY <1>6, <1>8
  <1> QED
    BY <1>9 DEF r, N, c

\* Names can be appended together or one after the other.
LEMMA Regrouped ==
    \A s, t, u \in Seq(STRING) : (s \o t) \o u = s \o (t \o u)
  BY ConcatAssociative

\* resolve_out is right about where the reader's output goes: if it does not
\* refuse, no directory inside the vault is used or made.
THEOREM ReaderIsRight ==
    ASSUME NEW cwd \in Dirs, NEW path \in Path, ~ ReaderRefuses(cwd, path)
    PROVE  ~ LandsInside(cwd, path)
  <1> DEFINE N == Len(path.names)
             r == Route(cwd, path)
             c == Reach(cwd, path)
             names == path.names
             rest(j) == SubSeq(names, c + 1, j)
  <1>1. /\ N \in Nat /\ names \in Seq(STRING) /\ N = Len(names)
        /\ \A i \in 1 .. N : names[i] \in STRING
    BY DEF Path
  <1>2. \A i \in 0 .. N : r[i] \in Seq(STRING)
    BY RouteType
  <1>3. c \in 0 .. N /\ \A i \in 0 .. c : r[i] \in Dirs
    BY ReachFacts
  <1>4. \A j \in c .. N :
           /\ rest(j) \in Seq(STRING)
           /\ Len(rest(j)) = j - c
           /\ \A i \in 1 .. j - c : rest(j)[i] = names[c + i]
    <2> TAKE j \in c .. N
    <2> HIDE DEF c, N, names
    <2>1. /\ c + 1 \in Int /\ j \in Int /\ (j - (c + 1)) + 1 = j - c
          /\ \A i \in c + 1 .. j : names[i] \in STRING
          /\ \A i \in 1 .. j - c : ((c + 1) + i) - 1 = c + i
          /\ (c + 1 <= j \/ j - c = 0)
      BY <1>1, <1>3
    <2>2. /\ rest(j) \in Seq(STRING)
          /\ Len(rest(j)) = IF c + 1 <= j THEN (j - (c + 1)) + 1 ELSE 0
          /\ \A i \in 1 .. (j - (c + 1)) + 1 : rest(j)[i] = names[((c + 1) + i) - 1]
      BY <2>1, SubSeqProperties
    <2> HIDE DEF rest
    <2>3. Len(rest(j)) = j - c
      BY <2>1, <2>2
    <2> QED BY <2>1, <2>2, <2>3
  <1>5. \A i \in c + 1 .. N : names[i] # Up
    <2>1. Rest(cwd, path) = rest(N)
      BY DEF Rest
    <2>2. \A i \in DOMAIN rest(N) : rest(N)[i] # Up
      BY <2>1 DEF ReaderRefuses
    <2> HIDE DEF rest, c, N, names
    <2>3. N \in c .. N
      BY <1>1, <1>3
    <2>4. DOMAIN rest(N) = 1 .. N - c
      BY <1>4, <2>3, LenProperties
    <2> TAKE i \in c + 1 .. N
    <2>5. i - c \in 1 .. N - c /\ c + (i - c) = i
      BY <1>1, <1>3
    <2> QED BY <1>4, <2>2, <2>3, <2>4, <2>5
  <1>6. \A j \in c + 1 .. N : r[j] = Append(r[j - 1], names[j]) /\ r[j] \notin Dirs
    BY <1>5, AppendedBeyond
  <1>7. Resolved(cwd, path) = r[c] \o rest(N)
    BY DEF Resolved, Rest
  <1>8. /\ LandsInside(cwd, path) =>
             \/ Within(r[N])
             \/ \E k \in 0 .. N : Within(r[k]) /\ r[k] \notin Dirs
        /\ ~ Within(Resolved(cwd, path))
    BY Followed DEF LandsInside, canonicalize, ReaderRefuses
  <1> HIDE DEF r, N, c, names
  <1>9. ASSUME NEW j \in c .. N
        PROVE  r[j] = r[c] \o rest(j)
    <2> DEFINE Good(i) == r[i] = r[c] \o rest(i)
               Bad == {i \in c .. N : ~ Good(i)}
    <2> SUFFICES ASSUME Bad # {} PROVE FALSE
      OBVIOUS
    <2> HIDE DEF Good
    <2>1. PICK m \in Bad : \A n \in Bad : m <= n
      <3>1. Bad \subseteq Nat
        BY <1>1, <1>3
      <3> HIDE DEF Bad
      <3> QED BY <3>1, Least
    <2>2. m \in c .. N /\ ~ Good(m)
      OBVIOUS
    <2>3. r[c] \in Seq(STRING)
      BY <1>2, <1>3
    <2>4. CASE m = c
      <3>1. rest(c) = <<>>
        BY <1>3, SubSeqEmpty
      <3>2. r[c] \o <<>> = r[c]
        BY <2>3, ConcatEmptySeq
      <3> QED BY <2>2, <2>4, <3>1, <3>2 DEF Good
    <2>5. CASE m # c
      <3>1. m - 1 \in c .. N /\ m - 1 \notin Bad /\ m \in c + 1 .. N /\ m \in 1 .. N
        BY <1>1, <1>3, <2>1, <2>2, <2>5
      <3>2. r[m - 1] = r[c] \o rest(m - 1) /\ r[m - 1] \in Seq(STRING)
        <4>1. m - 1 \in 0 .. N /\ Good(m - 1)
          BY <1>1, <1>3, <3>1
        <4> QED BY <1>2, <4>1 DEF Good
      <3>3. r[m] = r[m - 1] \o <<names[m]>>
        BY <1>1, <1>6, <3>1, <3>2, AppendIsConcat
      <3>4. rest(m) = rest(m - 1) \o <<names[m]>>
        <4>1. c + 1 \in 1 .. Len(names) /\ m \in c + 1 .. Len(names)
          BY <1>1, <1>3, <3>1
        <4> QED BY <1>1, <4>1, SubSeqRecursiveSecond
      <3>5. (r[c] \o rest(m - 1)) \o <<names[m]>> = r[c] \o (rest(m - 1) \o <<names[m]>>)
        <4>1. rest(m - 1) \in Seq(STRING) /\ <<names[m]>> \in Seq(STRING)
          BY <1>1, <1>4, <3>1
        <4> HIDE DEF rest
        <4> QED BY <2>3, <4>1, Regrouped, Zenon
      <3> HIDE DEF rest
      <3> QED BY <2>2, <3>2, <3>3, <3>4, <3>5 DEF Good
    <2> QED BY <2>4, <2>5
  <1>10. ~ Within(r[N])
    <2>1. N \in c .. N
      BY <1>1, <1>3
    <2> HIDE DEF rest
    <2> QED BY <1>7, <1>8, <1>9, <2>1
  <1>11. ASSUME NEW k \in 0 .. N, Within(r[k]), r[k] \notin Dirs
         PROVE  FALSE
    <2> DEFINE Bad == {i \in k .. N : ~ Within(r[i])}
    <2>1. k > c /\ N \in Bad
      BY <1>1, <1>3, <1>10, <1>11
    <2>2. PICK m \in Bad : \A n \in Bad : m <= n
      <3>1. Bad \subseteq Nat /\ Bad # {}
        BY <1>1, <2>1
      <3> HIDE DEF Bad
      <3> QED BY <3>1, Least
    <2>3. m # k /\ m \in k .. N
      BY <1>11
    <2>4. m - 1 \in k .. N /\ m - 1 \notin Bad /\ m \in c + 1 .. N
          /\ m \in 1 .. N /\ m - 1 \in 0 .. N
      BY <1>1, <1>3, <2>1, <2>2, <2>3
    <2>5. Within(r[m - 1]) /\ r[m - 1] \in Seq(STRING) /\ names[m] \in STRING
      BY <1>1, <1>2, <2>4
    <2>6. Within(r[m])
      BY <1>6, <2>4, <2>5, NothingBeyond
    <2> QED BY <2>2, <2>6
  <1> QED
    BY <1>8, <1>10, <1>11
\* Up to its last name a path leads where its parent does.
LEMMA ParentRoute ==
    ASSUME NEW cwd \in Dirs, NEW path \in Path, path.names # <<>>
    PROVE  /\ Parent(path) \in Path
           /\ Len(Parent(path).names) = Len(path.names) - 1
           /\ \A k \in 0 .. Len(path.names) - 1 :
                 Route(cwd, Parent(path))[k] = Route(cwd, path)[k]
  <1> DEFINE N == Len(path.names)
             p == Parent(path)
             r == Route(cwd, path)
             q == Route(cwd, p)
  <1>1. N \in Nat /\ N > 0 /\ path.names \in Seq(STRING)
        /\ \A i \in 1 .. N : path.names[i] \in STRING
    <2>1. path.names \in Seq(STRING)
      BY DEF Path
    <2>2. N \in Nat \ {0}
      BY <2>1, EmptySeq
    <2>3. \A i \in 1 .. N : path.names[i] \in STRING
      BY <2>1, ElementOfSeq
    <2> QED BY <2>1, <2>2, <2>3
  <1>2. /\ Front(path.names) \in Seq(STRING)
        /\ Len(Front(path.names)) = N - 1
        /\ \A i \in 1 .. N - 1 : Front(path.names)[i] = path.names[i]
    <2> DEFINE names == path.names
    <2> HIDE DEF names
    <2>1. names \in Seq(STRING) /\ N \in Nat /\ N > 0 /\ N = Len(names)
          /\ \A i \in 1 .. N : names[i] \in STRING
      BY <1>1 DEF names
    <2> HIDE DEF N
    <2>2. 1 \in Int /\ N - 1 \in Int /\ (N - 1 >= 1 \/ N - 1 = 0)
          /\ \A i \in 1 .. N - 1 : names[i] \in STRING
      BY <2>1
    <2>3. /\ SubSeq(names, 1, N - 1) \in Seq(STRING)
          /\ Len(SubSeq(names, 1, N - 1)) = IF 1 <= N - 1 THEN (N - 1) - 1 + 1 ELSE 0
          /\ \A i \in 1 .. (N - 1) - 1 + 1 : SubSeq(names, 1, N - 1)[i] = names[1 + i - 1]
      BY <2>2, SubSeqProperties
    <2>4. Front(names) = SubSeq(names, 1, N - 1)
      BY <2>1 DEF Front
    <2> DEFINE front == Front(names)
    <2> HIDE DEF front
    <2>5. /\ front \in Seq(STRING)
          /\ Len(front) = IF 1 <= N - 1 THEN (N - 1) - 1 + 1 ELSE 0
          /\ \A i \in 1 .. (N - 1) - 1 + 1 : front[i] = names[1 + i - 1]
      BY <2>3, <2>4 DEF front
    <2>6. front \in Seq(STRING) /\ Len(front) = N - 1 /\ \A i \in 1 .. N - 1 : front[i] = names[i]
      BY <2>1, <2>2, <2>5
    <2> QED BY <2>6 DEF front, names
  <1>3. p \in Path /\ p.abs = path.abs /\ p.names = Front(path.names)
    <2> DEFINE f == Front(path.names)
    <2>1. p = [path EXCEPT !.names = f] /\ f \in Seq(STRING)
      BY <1>2 DEF Parent
    <2> HIDE DEF f, p
    <2> QED BY <2>1 DEF Path, f
  <1>4. From(cwd, p) = From(cwd, path)
    BY <1>3 DEF From
  <1>5. q[0] = r[0] /\ \A i \in 1 .. N : r[i] = Enter(r[i - 1], path.names[i])
    BY <1>4, Followed, <1>3
  <1>6. \A i \in 1 .. N - 1 : q[i] = Enter(q[i - 1], path.names[i])
    <2>1. Len(p.names) = N - 1 /\ \A i \in 1 .. N - 1 : p.names[i] = path.names[i]
      BY <1>2, <1>3
    <2>2. \A i \in 1 .. Len(p.names) : q[i] = Enter(q[i - 1], p.names[i])
      BY <1>3, Followed
    <2> QED BY <2>1, <2>2
  <1> DEFINE Bad == {i \in 0 .. N - 1 : q[i] # r[i]}
  <1>7. Bad = {}
    <2> HIDE DEF r, q, N
    <2> SUFFICES ASSUME Bad # {} PROVE FALSE
      OBVIOUS
    <2>1. PICK m \in Bad : \A n \in Bad : m <= n
      <3>1. Bad \subseteq Nat
        BY <1>1
      <3> HIDE DEF Bad
      <3> QED BY <3>1, Least
    <2>2. m # 0 /\ m \in 1 .. N - 1 /\ m \in 1 .. N /\ m - 1 \in 0 .. N - 1 /\ m - 1 \notin Bad
      BY <1>1, <1>5, <2>1
    <2>3. q[m] = r[m]
      BY <1>5, <1>6, <2>2
    <2> QED BY <2>3
  <1>8. Len(p.names) = N - 1
    BY <1>2, <1>3
  <1>9. \A k \in 0 .. N - 1 : q[k] = r[k]
    BY <1>7
  <1> QED
    BY <1>3, <1>8, <1>9

\* dest_inside_vault is right about the destination itself, if it can look at
\* its parent.
LEMMA DestinationIsOutside ==
    ASSUME NEW cwd \in Dirs, NEW path \in Path,
           Anchored(cwd, path), ~ ExportRefuses(cwd, path)
    PROVE  ~ LandsInside(cwd, path)
  <1> DEFINE N == Len(path.names)
             r == Route(cwd, path)
             c == Reach(cwd, path)
  <1>1. N \in Nat
    BY DEF Path
  <1>2. c \in 0 .. N /\ (\A i \in 0 .. c : r[i] \in Dirs) /\ (c = N \/ r[c + 1] \notin Dirs)
    BY ReachFacts
  <1>3. LandsInside(cwd, path) =>
             \/ Within(r[N])
             \/ \E k \in 0 .. N : Within(r[k]) /\ r[k] \notin Dirs
    BY Followed DEF LandsInside, canonicalize
  <1>4. CASE Exists(cwd, path)
    <2>1. c = N /\ ~ Within(r[N])
      BY <1>4 DEF Exists, ExportRefuses, canonicalize
    <2> HIDE DEF c, N, r
    <2> QED BY <1>1, <1>2, <1>3, <2>1
  <1>5. CASE ~ Exists(cwd, path)
    <2> DEFINE p == Parent(path)
               last == path.names[N]
    <2>1. path.names # <<>> /\ last # Up /\ Exists(cwd, p)
      BY <1>5 DEF Anchored, Last
    <2>2. N > 0 /\ last \in STRING
      <3>1. path.names \in Seq(STRING)
        BY DEF Path
      <3>2. N \in Nat \ {0}
        BY <2>1, <3>1, EmptySeq
      <3>3. N \in 1 .. Len(path.names)
        BY <3>2
      <3>4. last \in STRING
        BY <3>1, <3>3, ElementOfSeq
      <3> QED BY <3>2, <3>4
    <2>3. /\ p \in Path /\ Len(p.names) = N - 1
          /\ \A k \in 0 .. N - 1 : Route(cwd, p)[k] = r[k]
      BY <2>1, ParentRoute
    <2>4. \A k \in 0 .. N - 1 : r[k] \in Dirs
      <3>1. Reach(cwd, p) = N - 1
        BY <2>1, <2>3 DEF Exists
      <3>2. \A i \in 0 .. N - 1 : Route(cwd, p)[i] \in Dirs
        BY <2>3, <3>1, ReachFacts
      <3> QED BY <2>3, <3>2
    <2>5. c # N
      BY <1>5 DEF Exists
    <2>6. canonicalize(cwd, p) = r[N - 1]
      <3>1. N - 1 \in 0 .. N - 1
        BY <1>1, <2>2
      <3> QED BY <2>3, <3>1 DEF canonicalize
    <2>7. ~ Within(Append(r[N - 1], last))
      BY <1>5, <2>6 DEF ExportRefuses, Last
    <2>8. r[N] = Enter(r[N - 1], last)
      <3>1. N \in 1 .. N
        BY <1>1, <2>2
      <3> QED BY <3>1, Followed
    <2> HIDE DEF r, c, N, last
    <2>9. r[N] \notin Dirs
      <3>1. c + 1 \in 0 .. N /\ r[c + 1] \notin Dirs
        BY <1>1, <1>2, <2>5
      <3>2. c + 1 = N
        BY <1>1, <2>4, <3>1
      <3> QED BY <3>1, <3>2
    <2>10. r[N] = Append(r[N - 1], last)
      BY <2>1, <2>8, <2>9, LinkAssumption DEF Enter
    <2>11. \A k \in 0 .. N : r[k] \notin Dirs => k = N
      BY <1>1, <2>4
    <2> QED BY <1>3, <2>7, <2>10, <2>11
  <1> QED
    BY <1>4, <1>5

\* A directory that is neither the vault nor within it has no directory of the
\* vault in it, but for the vault itself.
LEMMA OneFurther ==
    ASSUME NEW dir \in Seq(STRING), NEW name \in STRING,
           ~ Within(dir), Within(Append(dir, name))
    PROVE  Append(dir, name) = Vault
  <1> DEFINE further == Append(dir, name)
  <1>1. /\ further \in Seq(STRING) /\ Len(dir) \in Nat /\ Len(further) = Len(dir) + 1
        /\ \A i \in 1 .. Len(dir) : further[i] = dir[i]
    <2>1. Len(dir) \in Nat /\ further \in Seq(STRING)
      BY LenProperties, AppendProperties
    <2>2. Len(further) = Len(dir) + 1
      BY AppendProperties
    <2>3. \A i \in 1 .. Len(dir) : further[i] = dir[i]
      BY AppendProperties
    <2> HIDE DEF further
    <2> QED BY <2>1, <2>2, <2>3
  <1>2. Vault \in Seq(STRING) /\ Len(Vault) \in Nat
    BY VaultAssumption, TreeAssumption, LenProperties
  <1> DEFINE n == Len(Vault)
  <1>3. n <= Len(further) /\ Vault = SubSeq(further, 1, n)
    <2>1. SubSeq(Vault, 1, n) = Vault
      BY <1>2, SubSeqFull
    <2>2. Len(Vault) <= Len(further) /\ SubSeq(Vault, 1, n) = SubSeq(further, 1, n)
      BY DEF Within, IsPrefix
    <2> QED BY <2>1, <2>2
  <1> HIDE DEF further
  <1>4. CASE n <= Len(dir)
    <2>1. SubSeq(further, 1, n) = SubSeq(dir, 1, n)
      <3>1. n \in Nat /\ n <= Len(further) /\ \A i \in 1 .. n : further[i] = dir[i]
        BY <1>1, <1>2, <1>3, <1>4
      <3> HIDE DEF n
      <3> QED BY <1>1, <1>4, <3>1, SamePrefix
    <2>2. SubSeq(Vault, 1, n) = Vault
      BY <1>2, SubSeqFull
    <2>3. Within(dir)
      BY <1>3, <1>4, <2>1, <2>2 DEF Within, IsPrefix
    <2> QED BY <2>3
  <1>5. CASE n = Len(further)
    <2>1. SubSeq(further, 1, Len(further)) = further
      BY <1>1, SubSeqFull
    <2> QED BY <1>3, <1>5, <2>1 DEF further
  <1>6. n <= Len(dir) \/ n = Len(further)
    <2>1. n \in Nat /\ Len(dir) \in Nat /\ n <= Len(dir) + 1
      BY <1>1, <1>2, <1>3
    <2>2. n <= Len(dir) \/ n = Len(dir) + 1
      <3> HIDE DEF n
      <3> QED BY <2>1
    <2> QED BY <1>1, <2>2
  <1> QED
    BY <1>4, <1>5, <1>6

\* The path to where a bundle's entries go is that of the destination, and one
\* name more.
LEMMA BundleRoute ==
    ASSUME NEW cwd \in Dirs, NEW path \in Path
    PROVE  /\ Bundle(path) \in Path
           /\ Len(Bundle(path).names) = Len(path.names) + 1
           /\ \A k \in 0 .. Len(path.names) :
                 Route(cwd, Bundle(path))[k] = Route(cwd, path)[k]
           /\ Route(cwd, Bundle(path))[Len(path.names) + 1] =
                 Enter(canonicalize(cwd, path), Entries)
  <1> DEFINE N == Len(path.names)
             more == Append(path.names, Entries)
             b == Bundle(path)
  <1>1. /\ path.names \in Seq(STRING) /\ path.abs \in BOOLEAN /\ N \in Nat
        /\ path = [abs |-> path.abs, names |-> path.names]
    BY DEF Path
  <1>2. /\ more \in Seq(STRING) /\ Len(more) = N + 1
        /\ more # <<>> /\ more[N + 1] = Entries
    <2>1. \A name \in STRING : /\ Append(path.names, name) \in Seq(STRING)
                               /\ Append(path.names, name) # <<>>
      BY <1>1, AppendProperties
    <2>2. \A name \in STRING : /\ Len(Append(path.names, name)) = N + 1
                               /\ Append(path.names, name)[N + 1] = name
      BY <1>1, AppendProperties
    <2>3. Entries \in STRING
      BY NameAssumption
    <2> QED BY <2>1, <2>2, <2>3
  <1>3. /\ b \in Path /\ b.abs = path.abs /\ b.names = more
        /\ b = [abs |-> path.abs, names |-> more]
    <2>1. b = [path EXCEPT !.names = more]
      BY DEF Bundle
    <2> HIDE DEF b, more
    <2> QED BY <1>1, <1>2, <2>1 DEF Path
  <1>4. Parent(b) = path
    <2>1. Front(more) = path.names
      <3>1. \A name \in STRING : Front(Append(path.names, name)) = path.names
        BY <1>1, NothingBeyond
      <3>2. Entries \in STRING
        BY NameAssumption
      <3> QED BY <3>1, <3>2
    <2>2. Parent(b) = [b EXCEPT !.names = Front(more)]
      BY <1>3 DEF Parent
    <2> HIDE DEF b, more
    <2>3. Parent(b) = [abs |-> path.abs, names |-> path.names]
      BY <1>3, <2>1, <2>2
    <2> QED BY <1>1, <2>3
  <1>5. /\ \A k \in 0 .. N : Route(cwd, path)[k] = Route(cwd, b)[k]
        /\ Len(b.names) = N + 1
    <2>1. b.names # <<>> /\ Len(b.names) - 1 = N /\ Len(b.names) = N + 1
      <3> HIDE DEF more, b, N
      <3> QED BY <1>1, <1>2, <1>3
    <2>2. \A k \in 0 .. Len(b.names) - 1 : Route(cwd, Parent(b))[k] = Route(cwd, b)[k]
      <3> HIDE DEF b
      <3> QED BY <1>3, <2>1, ParentRoute
    <2> HIDE DEF b
    <2> QED BY <1>4, <2>1, <2>2
  <1>6. Route(cwd, b)[N + 1] = Enter(Route(cwd, b)[N], Entries)
    <2>1. N + 1 \in 1 .. Len(b.names) /\ (N + 1) - 1 = N
      <3> HIDE DEF b, N
      <3> QED BY <1>1, <1>5
    <2>2. Route(cwd, b)[N + 1] = Enter(Route(cwd, b)[(N + 1) - 1], b.names[N + 1])
      <3> HIDE DEF b, N
      <3> QED BY <1>3, <2>1, Followed
    <2> HIDE DEF b, N, more
    <2> QED BY <1>2, <1>3, <2>1, <2>2
  <1>7. N \in 0 .. N
    <2> HIDE DEF N
    <2> QED BY <1>1
  <1> HIDE DEF b
  <1> QED
    BY <1>3, <1>5, <1>6, <1>7 DEF canonicalize, b

\* dest_inside_vault is right about a destination whose parent it can look at,
\* and whose `entries`, where the files go, is neither the vault nor a link
\* into it.
THEOREM ExporterIsRight ==
    ASSUME NEW cwd \in Dirs, NEW path \in Path,
           Anchored(cwd, path), ~ ExportRefuses(cwd, path), ~ Nested(cwd, path)
    PROVE  ~ LandsInside(cwd, path) /\ ~ LandsInside(cwd, Bundle(path))
  <1> DEFINE N == Len(path.names)
             r == Route(cwd, path)
             b == Bundle(path)
             c == canonicalize(cwd, path)
             e == Append(c, Entries)
  <1>1. ~ LandsInside(cwd, path)
    BY DestinationIsOutside
  <1>2. N \in Nat /\ c \in Seq(STRING) /\ c = r[N]
    <2>1. N \in Nat
      BY DEF Path
    <2>2. c = r[N]
      BY DEF canonicalize
    <2>3. r[N] \in Seq(STRING)
      BY <2>1, RouteType
    <2> QED BY <2>1, <2>2, <2>3
  <1>3. ~ Within(c) /\ \A k \in 0 .. N : Within(r[k]) => r[k] \in Dirs
    <2>1. DOMAIN r = 0 .. N
      BY Followed
    <2> QED BY <1>1, <2>1 DEF LandsInside
  <1>4. /\ b \in Path /\ Len(b.names) = N + 1
        /\ \A k \in 0 .. N : Route(cwd, b)[k] = r[k]
        /\ Route(cwd, b)[N + 1] = Enter(c, Entries)
    BY BundleRoute
  <1>5. ~ Within(Enter(c, Entries))
    <2>1. CASE e \in DOMAIN Link
      BY <2>1 DEF Enter, Nested, Up, Entries
    <2>2. CASE e \notin DOMAIN Link
      <3>1. Enter(c, Entries) = e
        BY <2>2 DEF Enter, Up, Entries
      <3>2. e # Vault
        BY DEF Nested
      <3> HIDE DEF c
      <3>3. \A name \in STRING : Within(Append(c, name)) => Append(c, name) = Vault
        BY <1>2, <1>3, OneFurther
      <3>4. Entries \in STRING
        BY NameAssumption
      <3> QED BY <3>1, <3>2, <3>3, <3>4
    <2> QED BY <2>1, <2>2
  <1>6. ~ LandsInside(cwd, b)
    <2>1. /\ DOMAIN Route(cwd, b) = 0 .. N + 1
          /\ canonicalize(cwd, b) = Enter(c, Entries)
      BY <1>4, Followed DEF canonicalize
    <2>2. \A k \in 0 .. N + 1 : k \in 0 .. N \/ k = N + 1
      BY <1>2
    <2> HIDE DEF b, c, r, N
    <2> QED BY <1>3, <1>4, <1>5, <2>1, <2>2 DEF LandsInside
  <1> QED
    BY <1>1, <1>6

\* "The tool never writes inside the vault directory": wherever they are
\* started and whatever output directory they are asked for, what they do not
\* refuse ends up outside, an export's `entries` too, as long as export can
\* look at the parent of its destination and that `entries` is not the vault or
\* a link into it.
THEOREM WritesStayOutside ==
    ASSUME "bare" \notin Env, "nested" \notin Env
    PROVE  Spec => []StaysOutside
  <1> DEFINE Inv == (pc = "idle" /\ ~ refused => place = "outside") /\ StaysOutside
  <1>1. Init => Inv
    <2> SUFFICES ASSUME Init PROVE Inv
      OBVIOUS
    <2>1. pc = "idle"
      BY DEF Init
    <2>2. PICK cwd \in Cwd, path \in Asked :
             /\ MayAsk(tool, cwd, path)
             /\ refused = Refuses(tool, cwd, path)
             /\ place = IF WritesInside(tool, cwd, path) THEN "inside" ELSE "outside"
      BY DEF Init
    <2>3. cwd \in Dirs /\ path \in Path
      BY AskedAssumption
    <2>4. ASSUME ~ Refuses(tool, cwd, path)
          PROVE  ~ WritesInside(tool, cwd, path)
      <3>1. CASE tool = "read"
        BY <2>3, <2>4, <3>1, ReaderIsRight DEF Refuses, WritesInside
      <3>2. CASE tool = "export"
        <4>1. Anchored(cwd, path) /\ ~ Nested(cwd, path)
          BY <2>2, <3>2 DEF MayAsk
        <4>2. ~ ExportRefuses(cwd, path)
          BY <2>4, <3>2 DEF Refuses
        <4> QED BY <2>3, <4>1, <4>2, ExporterIsRight DEF WritesInside
      <3> QED BY <3>1, <3>2 DEF Init
    <2>5. ASSUME ~ refused PROVE place = "outside"
      BY <2>2, <2>4, <2>5
    <2> QED BY <2>1, <2>5 DEF StaysOutside
  <1>2. Inv /\ [Next]_vars => Inv'
    <2> SUFFICES ASSUME Inv, [Next]_vars PROVE Inv'
      OBVIOUS
    <2>1. CASE App
      <3>1. UNCHANGED toolVars
        BY <2>1, AppLeaves
      <3> QED BY <3>1 DEF toolVars, asked, StaysOutside
    <2>2. CASE Tool
      <3>1. UNCHANGED asked
        BY <2>2 DEF Tool, Start, Again, ReadKdf, List, Probe, Emit, CopyOut, ToolFails, End
      <3>2. pc' # "idle"
        BY <2>2 DEF Tool, Start, Again, ReadKdf, List, Probe, Emit, CopyOut, ToolFails, End
      <3>3. pc = "idle" => (refused => pc' = "refused")
        BY <2>2 DEF Tool, Start, Again, ReadKdf, List, Probe, Emit, CopyOut, ToolFails, End
      <3>4. pc # "refused"
        BY <2>2 DEF Tool, Start, Again, ReadKdf, List, Probe, Emit, CopyOut, ToolFails, End
      <3> QED BY <3>1, <3>2, <3>3, <3>4 DEF asked, StaysOutside
    <2>3. CASE UNCHANGED vars
      BY <2>3 DEF vars, toolVars, asked, StaysOutside
    <2> QED BY <2>1, <2>2, <2>3 DEF Next
  <1> QED
    BY <1>1, <1>2, PTL DEF Spec
=============================================================================
