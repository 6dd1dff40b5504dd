--------------------------- MODULE ContainerProofs ---------------------------
(***************************************************************************)
(* Theorems about Container: no save is lost while a journal moves to      *)
(* envelope version 2 and its devices go on synchronising.                 *)
(***************************************************************************)
EXTENDS Container, SyncProofs

\* An upgrade the tool holds back is an envelope of some earlier moment: it
\* opens, and it is not newer than the latest save of its id.
HeldSound ==
    \A n \in Pending : held[n].form = "sound" /\ held[n].created <= newest[n[2]]

\* The inductive invariant: that of Sync, and what the tool holds.
UInv == IInv /\ TypeOKUpgrade /\ HeldSound

-----------------------------------------------------------------------------
(* Steps of Sync.                                                          *)

\* Sealing a record again changes nothing that Sync knows of: an app that
\* upgrades its own files leaves the files of Sync as they are.
LEMMA LaunchStutters ==
    ASSUME TypeOK, NEW d \in Device, Launch(d)
    PROVE  UNCHANGED vars
  <1>1. entries' = [entries EXCEPT ![d] = [n \in Name |-> entries[d][n]]]
    BY DEF Launch, Resealed
  <1>2. [n \in Name |-> entries[d][n]] = entries[d] /\ d \in Dir
    BY DEF TypeOK, Dir
  <1>3. entries' = entries
    BY <1>1, <1>2 DEF TypeOK
  <1> QED
    BY <1>3 DEF Launch, passVars, vars

\* Every step but the tool's renames is a step of Sync.
LEMMA StepOfSync ==
    ASSUME TypeOK, [NextUpgrade]_allVars, ~ \E n \in Name : Upgrade(n)
    PROVE  [Next]_vars
  <1>1. ASSUME NEW d \in Device, Launch(d)
        PROVE  [Next]_vars
    BY <1>1, LaunchStutters
  <1>2. ASSUME NEW d \in Device, PassStepIn(d)
        PROVE  Next
    BY <1>2 DEF PassStepIn, CopyIn, PassStep, Next
  <1>3. CASE (\E d \in Device, id \in Id, date \in Date : SaveIn(d, id, date))
                \/ (\E d \in Device, id \in Id : Delete(d, id) /\ Carry)
    BY <1>3 DEF SaveIn, Next
  <1>4. CASE Install \/ BeginUpgrade \/ UpgradeStops \/ UNCHANGED allVars
    BY <1>4 DEF Install, BeginUpgrade, UpgradeStops, allVars
  <1> QED
    BY <1>1, <1>2, <1>3, <1>4 DEF NextUpgrade

\* The tool renames one held envelope into the container.
LEMMA UpgradeEffect ==
    ASSUME TypeOK, TypeOKUpgrade, NEW n \in Name, Upgrade(n)
    PROVE  /\ held[n] \in Envelope /\ n \in Pending
           /\ entries' \in [Dir -> [Name -> Envelope \cup {NoFile}]]
           /\ entries'[Container][n] = held[n]
           /\ \A x \in Dir, m \in Name :
                 (x = Container /\ m = n) \/ entries'[x][m] = entries[x][m]
           /\ UNCHANGED <<tomb, now, newest, deleted, pc, known, plan, cur, shield, faults>>
  <1>1. held[n] \in Envelope /\ n \in Pending /\ Container \in Dir
    BY DEF Upgrade, Pending, TypeOKUpgrade, Dir
  <1>2. entries' = [entries EXCEPT ![Container][n] = held[n]]
    BY DEF Upgrade
  <1> QED
    BY <1>1, <1>2 DEF TypeOK, Upgrade, passVars

\* A rename in the container disturbs nothing that Sync relies on, however
\* much happened there since the file was read.
LEMMA UpgradeStep ==
    ASSUME UInv, NEW n \in Name, Upgrade(n)
    PROVE  IInv'
  <1> USE DEF UInv, IInv
  <1>1. /\ held[n] \in Envelope /\ n \in Pending
        /\ entries' \in [Dir -> [Name -> Envelope \cup {NoFile}]]
        /\ entries'[Container][n] = held[n]
        /\ \A x \in Dir, m \in Name :
              (x = Container /\ m = n) \/ entries'[x][m] = entries[x][m]
        /\ UNCHANGED <<tomb, now, newest, deleted, pc, known, plan, cur, shield, faults>>
    BY UpgradeEffect
  <1>2. TypeOK'
    BY <1>1 DEF TypeOK
  <1>3. AllSound' /\ Stamped'
    <2>1. \A x \in Dir, m \in Name : entries'[x][m] # NoFile =>
             /\ entries'[x][m].form = "sound"
             /\ entries'[x][m].created <= newest[m[2]]
      <3> TAKE x \in Dir, m \in Name
      <3>1. CASE x = Container /\ m = n
        BY <1>1, <3>1 DEF HeldSound
      <3>2. CASE entries'[x][m] = entries[x][m]
        BY <3>2 DEF AllSound, Stamped, Present
      <3> QED BY <1>1, <3>1, <3>2
    <2> QED BY <1>1, <2>1 DEF AllSound, Stamped, Present
  <1>4. \A d \in Device, m \in Name : entries'[d][m] = entries[d][m]
    BY <1>1, DirAssumption DEF Dir
  <1>5. TombsDeleted' /\ DecidedOnce'
    BY <1>1 DEF TombsDeleted, DecidedOnce
  <1>6. PullsAreBehind'
    <2> SUFFICES ASSUME NEW d \in Device, NEW m \in plan'[d] \cup ({cur'[d]} \ {NoMove}),
                        m.from = "remote",
                        NEW k \in Name, entries'[d][k] # NoFile, k[2] = m.id,
                        m = cur'[d] => k # <<m.date, m.id>>
                 PROVE  entries'[d][k].created < newest'[m.id]
      BY DEF PullsAreBehind, Present
    <2>1. /\ plan' = plan /\ cur' = cur /\ newest' = newest
          /\ entries'[d][k] = entries[d][k]
      BY <1>1, <1>4
    <2>2. k \in Present(d) /\ m \in plan[d] \cup ({cur[d]} \ {NoMove})
      BY <2>1 DEF Present
    <2> QED BY <2>1, <2>2 DEF PullsAreBehind
  <1>7. NewestSurvives'
    <2> SUFFICES ASSUME NEW id \in Id, newest'[id] > 0, id \notin deleted'
                 PROVE  \E d \in Device, date \in Date :
                           LET e == entries'[d][<<date, id>>]
                           IN  e # NoFile /\ e.created = newest'[id] /\ e.form = "sound"
      BY DEF NewestSurvives
    <2>1. PICK d \in Device, date \in Date :
             LET e == entries[d][<<date, id>>]
             IN  e # NoFile /\ e.created = newest[id] /\ e.form = "sound"
      BY <1>1 DEF NewestSurvives
    <2>2. entries'[d][<<date, id>>] = entries[d][<<date, id>>] /\ newest' = newest
      BY <1>1, <1>4 DEF Name
    <2> QED BY <2>1, <2>2
  <1> QED
    BY <1>2, <1>3, <1>5, <1>6, <1>7

-----------------------------------------------------------------------------
(* The versions of the files.                                              *)

\* A file is version 1 only while it is there.
LEMMA OldStep ==
    ASSUME TypeOK, TypeOK', TypeOKUpgrade, [NextUpgrade]_allVars
    PROVE  /\ old' \in [Dir -> SUBSET Name]
           /\ \A x \in Dir : old'[x] \subseteq Present(x)'
  <1> DEFINE Goal == /\ old' \in [Dir -> SUBSET Name]
                     /\ \A x \in Dir : \A k \in old'[x] : entries'[x][k] # NoFile
  <1>1. \A x \in Dir, k \in Name : k \in old[x] => entries[x][k] # NoFile
    BY DEF TypeOKUpgrade, Present
  <1>2. old \in [Dir -> SUBSET Name]
    BY DEF TypeOKUpgrade
  <1>3. ASSUME Goal
        PROVE  /\ old' \in [Dir -> SUBSET Name]
               /\ \A x \in Dir : old'[x] \subseteq Present(x)'
    BY <1>3 DEF Present
  <1>4. ASSUME Carry
        PROVE  Goal
    BY <1>1, <1>2, <1>4 DEF Carry, Untouched
  <1>5. ASSUME NEW d \in Device, NEW id \in Id, NEW date \in Date, SaveIn(d, id, date)
        PROVE  Goal
    <2> DEFINE n == <<date, id>>
    <2>1. /\ d \in Dir /\ n \in Name
          /\ \A x \in Dir : x # d => entries'[x] = entries[x]
      BY <1>5 DEF SaveIn, Save, TypeOK, Dir, Name
    <2>2. entries'[d][n] # NoFile
      <3>1. PICK s \in Reading : entries'[d][n] = [created |-> s, by |-> d, form |-> "sound"]
        BY <1>5, <2>1 DEF SaveIn, Save, Without, TypeOK
      <3>2. entries'[d][n] \in Envelope
        BY <3>1 DEF Reading, Envelope, Form
      <3> QED BY <3>2, SentinelAssumption
    <2> HIDE DEF n
    <2>3. PICK own \in SUBSET {n} : old' = [old EXCEPT ![d] = Untouched(d) \cup own]
      BY <1>5 DEF SaveIn, n
    <2>4. Untouched(d) \subseteq Name /\ \A k \in Untouched(d) : entries'[d][k] # NoFile
      BY <1>1, <1>2, <2>1 DEF Untouched
    <2> HIDE DEF Untouched
    <2> QED BY <1>1, <1>2, <2>1, <2>2, <2>3, <2>4
  <1>6. ASSUME NEW d \in Device, NEW m \in Move, CopyIn(d, m)
        PROVE  Goal
    <2> DEFINE n   == <<m.date, m.id>>
               src == Place(d, m.from)
               dst == Place(d, Opposite(m.from))
    <2>1. /\ m.from \in Side /\ n \in Name
          /\ src \in Dir /\ dst \in Dir
      <3>1. m.from \in Side
        BY DEF Move
      <3>2. n \in Name
        BY DEF Move, Name
      <3> QED BY <3>1, <3>2, PlaceType
    <2>2. \A x \in Dir, k \in Name :
             entries'[x][k] = entries[x][k] \/ entries'[x][k] # NoFile
      BY <1>6, CopyEffect DEF CopyIn
    <2>3. CASE old' = old
      BY <1>1, <1>2, <2>2, <2>3
    <2>4. CASE /\ entries[src][n] # NoFile /\ faults' = faults
               /\ old' = [old EXCEPT ![dst] = (@ \ {n}) \cup (old[src] \cap {n})]
      <3>1. entries'[dst][n] # NoFile
        <4>1. PICK fail \in Faulty("write", {m}) :
                 /\ Spend(Cardinality(fail))
                 /\ fail = {} => entries' = [entries EXCEPT ![dst][n] = entries[src][n]]
          BY <1>6, <2>4 DEF CopyIn, Copy
        <4>2. fail = {}
          <5>1. IsFiniteSet({m})
            BY FS_Singleton
          <5>2. fail \subseteq {m} /\ Cardinality(fail) \in Nat
            BY <5>1, FaultyFacts
          <5>3. Cardinality(fail) = 0
            <6>1. faults \in Nat /\ faults' = faults
              BY <2>4, BoundAssumption DEF TypeOK
            <6>2. faults' = faults + Cardinality(fail)
              BY <4>1 DEF Spend
            <6> QED BY <5>2, <6>1, <6>2
          <5>4. IsFiniteSet(fail)
            BY <5>1, <5>2, FS_Subset
          <5> QED BY <5>3, <5>4, FS_EmptySet
        <4>3. entries' = [entries EXCEPT ![dst][n] = entries[src][n]]
          BY <4>1, <4>2
        <4> HIDE DEF n, src, dst
        <4>4. entries'[dst][n] = entries[src][n]
          BY <2>1, <4>3 DEF TypeOK
        <4> QED BY <2>4, <4>4
      <3> HIDE DEF n, src, dst
      <3>2. old' \in [Dir -> SUBSET Name]
        BY <1>2, <2>1, <2>4
      <3>3. ASSUME NEW x \in Dir, NEW k \in old'[x]
            PROVE  entries'[x][k] # NoFile
        <4>1. k \in Name /\ (k \in old[x] \/ (x = dst /\ k = n))
          BY <1>2, <2>1, <2>4, <3>3
        <4> QED BY <1>1, <2>2, <3>1, <4>1
      <3> QED BY <3>2, <3>3
    <2> QED BY <1>6, <2>3, <2>4 DEF CopyIn
  <1>7. ASSUME NEW d \in Device, Launch(d)
        PROVE  Goal
    <2>1. entries' = entries /\ d \in Dir
      BY <1>7, LaunchStutters DEF vars, Dir
    <2>2. old' = [old EXCEPT ![d] = @ \ Outdated(d)]
      BY <1>7 DEF Launch
    <2> QED BY <1>1, <1>2, <2>1, <2>2
  <1>8. ASSUME NEW n \in Name, Upgrade(n)
        PROVE  Goal
    <2>1. \A x \in Dir, m \in Name :
             (x = Container /\ m = n) \/ entries'[x][m] = entries[x][m]
      BY <1>8, UpgradeEffect
    <2>2. old' = [old EXCEPT ![Container] = @ \ {n}] /\ Container \in Dir
      BY <1>8 DEF Upgrade, Dir
    <2> QED BY <1>1, <1>2, <2>1, <2>2
  <1>9. ASSUME Install \/ BeginUpgrade \/ UpgradeStops \/ UNCHANGED allVars
        PROVE  Goal
    <2>1. old' = old /\ entries' = entries
      BY <1>9 DEF Install, BeginUpgrade, UpgradeStops, allVars, vars, upgradeVars
    <2>2. \A x \in Dir : \A k \in old[x] : entries[x][k] # NoFile
      BY <1>1, <1>2
    <2> QED BY <1>2, <2>1, <2>2
  <1> QED
    BY <1>3, <1>4, <1>5, <1>6, <1>7, <1>8, <1>9 DEF NextUpgrade, PassStepIn

\* The tool holds back envelopes and nothing else.
LEMMA HeldTypes ==
    ASSUME TypeOK, TypeOKUpgrade, [NextUpgrade]_allVars
    PROVE  build' \in {1, 2} /\ held' \in [Name -> Envelope \cup {NoFile}]
  <1>1. /\ build \in {1, 2} /\ held \in [Name -> Envelope \cup {NoFile}]
        /\ entries \in [Dir -> [Name -> Envelope \cup {NoFile}]] /\ Container \in Dir
    BY DEF TypeOKUpgrade, TypeOK, Dir
  <1>2. CASE UNCHANGED <<build, held>>
    BY <1>1, <1>2
  <1>3. CASE Install
    BY <1>1, <1>3 DEF Install
  <1>4. CASE BeginUpgrade
    <2>1. /\ build' = build
          /\ held' = [n \in Name |-> IF n \in old[Container]
                                     THEN entries[Container][n] ELSE NoFile]
      BY <1>4 DEF BeginUpgrade, Outdated, Resealed
    <2> QED BY <1>1, <2>1
  <1>5. CASE UpgradeStops
    BY <1>1, <1>5 DEF UpgradeStops, Nothing
  <1>6. ASSUME NEW n \in Name, Upgrade(n)
        PROVE  build' \in {1, 2} /\ held' \in [Name -> Envelope \cup {NoFile}]
    BY <1>1, <1>6 DEF Upgrade
  <1>7. ASSUME NEW d \in Device,
               \/ Launch(d)
               \/ PassStepIn(d)
               \/ \E id \in Id : Delete(d, id) /\ Carry
               \/ \E id \in Id, date \in Date : SaveIn(d, id, date)
        PROVE  UNCHANGED <<build, held>>
    BY <1>7 DEF Launch, PassStepIn, CopyIn, Carry, SaveIn
  <1>8. CASE UNCHANGED allVars
    BY <1>2, <1>8 DEF allVars, upgradeVars
  <1> QED
    BY <1>1, <1>2, <1>3, <1>4, <1>5, <1>6, <1>7, <1>8 DEF NextUpgrade

\* What the tool holds opens, and no step makes it newer than the latest save.
LEMMA HeldStep ==
    ASSUME UInv, [NextUpgrade]_allVars
    PROVE  HeldSound'
  <1> USE DEF UInv, IInv
  <1>1. /\ held \in [Name -> Envelope \cup {NoFile}]
        /\ \A n \in Name : held[n] # NoFile =>
              held[n].form = "sound" /\ held[n].created <= newest[n[2]]
    BY DEF TypeOKUpgrade, HeldSound, Pending
  <1> DEFINE Good == \A n \in Name : held'[n] # NoFile =>
                        held'[n].form = "sound" /\ held'[n].created <= newest'[n[2]]
  <1>2. Good => HeldSound'
    BY DEF HeldSound, Pending
  <1>3. CASE UNCHANGED <<held, newest>>
    BY <1>1, <1>2, <1>3
  <1>4. ASSUME NEW d \in Device, NEW id \in Id, NEW date \in Date, SaveIn(d, id, date)
        PROVE  HeldSound'
    <2>1. held' = held
      BY <1>4 DEF SaveIn
    <2>2. ASSUME NEW i \in Id
          PROVE  newest[i] \in Nat /\ newest'[i] \in Nat /\ newest[i] <= newest'[i]
      <3>1. PICK s \in Reading : newest' = [newest EXCEPT ![id] = Max2(@, s)]
        BY <1>4 DEF SaveIn, Save
      <3>2. newest[i] \in Nat /\ s \in Nat
        BY <3>1, BoundAssumption DEF TypeOK, Reading
      <3>3. newest'[i] = newest[i] \/ newest'[i] = Max2(newest[i], s)
        BY <3>1 DEF TypeOK
      <3> QED BY <3>2, <3>3 DEF Max2
    <2>3. ASSUME NEW n \in Name, held[n] # NoFile
          PROVE  held[n].form = "sound" /\ held[n].created <= newest'[n[2]]
      <3>1. n[2] \in Id /\ held[n].created \in Nat
        BY <1>1, <2>3, BoundAssumption DEF Name, Envelope
      <3>2. newest[n[2]] \in Nat /\ newest'[n[2]] \in Nat /\ newest[n[2]] <= newest'[n[2]]
        BY <2>2, <3>1
      <3>3. held[n].form = "sound" /\ held[n].created <= newest[n[2]]
        BY <1>1, <2>3
      <3> QED BY <3>1, <3>2, <3>3
    <2> QED BY <1>2, <2>1, <2>3
  <1>5. CASE BeginUpgrade
    <2>1. /\ newest' = newest /\ Container \in Dir
          /\ held' = [n \in Name |-> IF n \in old[Container]
                                     THEN entries[Container][n] ELSE NoFile]
      BY <1>5 DEF BeginUpgrade, Outdated, Resealed, vars, Dir
    <2>2. Good
      BY <2>1 DEF AllSound, Stamped, Present
    <2> QED BY <1>2, <2>2
  <1>6. CASE UpgradeStops
    <2>1. \A n \in Name : held'[n] = NoFile
      BY <1>6 DEF UpgradeStops, Nothing
    <2> QED BY <1>2, <2>1
  <1>7. ASSUME NEW n \in Name, Upgrade(n)
        PROVE  HeldSound'
    <2>1. newest' = newest /\ held' = [held EXCEPT ![n] = NoFile]
      BY <1>7 DEF Upgrade
    <2>2. \A m \in Name : held'[m] = held[m] \/ held'[m] = NoFile
      BY <1>1, <2>1
    <2> QED BY <1>1, <1>2, <2>1, <2>2
  <1>8. ASSUME NEW d \in Device, Launch(d)
        PROVE  UNCHANGED <<held, newest>>
    BY <1>8 DEF Launch
  <1>9. ASSUME NEW d \in Device, PassStepIn(d)
        PROVE  UNCHANGED <<held, newest>>
    BY <1>9 DEF PassStepIn, CopyIn, Carry, BeginPass, Scan, Purge, Finish, EndPass,
                ApplyTomb, Copy
  <1>10. ASSUME NEW d \in Device, NEW id \in Id, Delete(d, id), Carry
         PROVE  UNCHANGED <<held, newest>>
    BY <1>10 DEF Delete, Carry
  <1>11. CASE Install \/ UNCHANGED allVars
    BY <1>3, <1>11 DEF Install, allVars, vars, upgradeVars
  <1> QED
    BY <1>3, <1>4, <1>5, <1>6, <1>7, <1>8, <1>9, <1>10, <1>11 DEF NextUpgrade

-----------------------------------------------------------------------------
(* The theorems.                                                           *)

\* Every step leaves every variable its type: the tool's rename too, and the
\* rest as steps of Sync.
LEMMA AllTypes ==
    ASSUME TypeOK, TypeOKUpgrade, [NextUpgrade]_allVars
    PROVE  TypeOK' /\ TypeOKUpgrade'
  <1>1. TypeOK'
    <2>1. ASSUME NEW n \in Name, Upgrade(n) PROVE TypeOK'
      <3>1. /\ entries' \in [Dir -> [Name -> Envelope \cup {NoFile}]]
            /\ UNCHANGED <<tomb, now, newest, deleted, pc, known, plan, cur, shield, faults>>
        BY <2>1, UpgradeEffect
      <3> QED BY <3>1 DEF TypeOK
    <2>2. CASE ~ \E n \in Name : Upgrade(n)
      <3>1. [Next]_vars
        BY <2>2, StepOfSync
      <3> QED BY <3>1, TypeStep
    <2> QED BY <2>1, <2>2
  <1>2. /\ old' \in [Dir -> SUBSET Name]
        /\ \A x \in Dir : old'[x] \subseteq Present(x)'
    BY <1>1, OldStep
  <1> QED BY <1>1, <1>2, HeldTypes DEF TypeOKUpgrade

\* Where every journal starts.
LEMMA InitTypes ==
    ASSUME InitUpgrade
    PROVE  TypeOK /\ TypeOKUpgrade
  <1>1. TypeOK
    BY BoundAssumption DEF InitUpgrade, Init, TypeOK
  <1> QED BY <1>1 DEF InitUpgrade, TypeOKUpgrade, Nothing

\* Every variable of Container has its type in every reachable state, and a
\* file counts as version 1 only as long as it is there, whatever the
\* environment does.
THEOREM TypeCorrectUpgrade == SpecUpgrade => []TypeOKUpgrade
  <1>1. InitUpgrade => TypeOK /\ TypeOKUpgrade
    BY InitTypes
  <1>2. (TypeOK /\ TypeOKUpgrade) /\ [NextUpgrade]_allVars => (TypeOK /\ TypeOKUpgrade)'
    BY AllTypes
  <1> QED
    BY <1>1, <1>2, PTL DEF SpecUpgrade

\* The invariant is inductive: what Sync proves of its own steps holds of them
\* here, and a rename by the tool disturbs none of it.
THEOREM UpgradeInductive ==
    ASSUME Undisturbed, SuffixFree
    PROVE  SpecUpgrade => []UInv
  <1>1. InitUpgrade => UInv
    <2> SUFFICES ASSUME InitUpgrade PROVE UInv
      OBVIOUS
    <2>1. TypeOK /\ TypeOKUpgrade
      BY InitTypes
    <2>2. \A x \in Dir : Present(x) = {}
      BY DEF InitUpgrade, Init, Present
    <2>3. IInv
      BY <2>1, <2>2, BoundAssumption
         DEF InitUpgrade, Init, IInv, AllSound, Stamped, TombsDeleted, DecidedOnce,
             PullsAreBehind, NewestSurvives, Dir
    <2>4. HeldSound
      BY DEF InitUpgrade, HeldSound, Pending, Nothing
    <2> QED BY <2>1, <2>3, <2>4 DEF UInv
  <1>2. UInv /\ [NextUpgrade]_allVars => UInv'
    <2> SUFFICES ASSUME UInv, [NextUpgrade]_allVars PROVE UInv'
      OBVIOUS
    <2>1. TypeOK' /\ TypeOKUpgrade'
      BY AllTypes DEF UInv, IInv
    <2>2. IInv'
      <3>1. ASSUME NEW n \in Name, Upgrade(n) PROVE IInv'
        BY <3>1, UpgradeStep
      <3>2. CASE ~ \E n \in Name : Upgrade(n)
        <4>1. IInv /\ [Next]_vars
          BY <3>2, StepOfSync DEF UInv, IInv
        <4> QED BY <4>1, <2>1, FilesStep, TombsStep, DecidedStep, BehindStep,
                   SurvivesStep DEF IInv
      <3> QED BY <3>1, <3>2
    <2> QED BY <2>1, <2>2, HeldStep DEF UInv
  <1> QED
    BY <1>1, <1>2, PTL DEF SpecUpgrade

\* Upgrading devices and container while they synchronise loses no save, though
\* the tool puts files back that a device has replaced meanwhile.
THEOREM NoSaveIsLostUpgrading ==
    ASSUME Undisturbed, SuffixFree
    PROVE  SpecUpgrade => []NewestSurvives
  <1>1. UInv => NewestSurvives
    BY DEF UInv, IInv
  <1> QED
    BY <1>1, UpgradeInductive, PTL

\* Nor does it bring a pull that was decided on in front of a newer save.
THEOREM PullsStayBehindUpgrading ==
    ASSUME Undisturbed, SuffixFree
    PROVE  SpecUpgrade => []PullsAreBehind
  <1>1. UInv => PullsAreBehind
    BY DEF UInv, IInv
  <1> QED
    BY <1>1, UpgradeInductive, PTL
=============================================================================
