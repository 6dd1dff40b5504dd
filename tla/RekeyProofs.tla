---------------------------- MODULE RekeyProofs ----------------------------
(***************************************************************************)
(* What holds of Rekey for every vault, every set of keys, any number of   *)
(* saves and of failures.                                                  *)
(***************************************************************************)
EXTENDS Rekey, FiniteSetTheorems, TLAPS

(* The inductive invariant.                                                *)

\* Which phases go with which job, and what a job that waits has computed.
Shape ==
    /\ job = "none" <=> phase = "idle"
    /\ phase = "manifest" => job = "enroll" /\ todo = {}
    /\ phase = "idle" => pending = Nothing
    /\ todo \subseteq Listed(pending)
    /\ job = "enroll" => Listed(pending) = File
    /\ live = manifest

\* A temp that was written and not yet renamed is what was computed.
TempsHold ==
    \A f \in Listed(pending) :
        (phase = "stage" /\ f \notin todo) \/ (phase = "commit" /\ f \in todo)
            => temp[job][f] = pending[f]

\* Where each key may be: Recoverable, and what the commit is about to do.
Keys ==
    /\ Recoverable
    /\ \A f \in Listed(pending) :
          pending[f].key = IF job = "enroll" THEN target ELSE live
    /\ job = "enroll" /\ phase \in {"commit", "manifest"} =>
          \A f \in File \ todo : disk[f].key = target

\* The computed texts are the latest ones, unless saves run beside.
Texts ==
    "busy" \notin Env =>
        /\ LatestKept
        /\ \A f \in Listed(pending) : pending[f].save = saves[f]

\* Without failures past the first rename, only an enrollment under way
\* holds files under two keys.
OneKey ==
    "commit" \notin Env =>
        (job # "enroll" \/ phase = "stage" => \A f \in File : disk[f].key = live)

\* How far the files are from what the job found to what it computed.
Half ==
    "commit" \notin Env /\ "busy" \notin Env =>
        /\ phase = "stage" => disk = before
        /\ phase \in {"commit", "manifest"} =>
              \A f \in Listed(pending) \ todo : disk[f] = pending[f]

IInv == TypeOK /\ Shape /\ TempsHold /\ Keys /\ Texts /\ OneKey /\ Half
-----------------------------------------------------------------------------
\* What enroll computes for a file it can unwrap is a file.
LEMMA RewrappedIsVersion ==
    ASSUME TypeOK, NEW k \in Key, NEW f \in File, Unwraps(f)
    PROVE  /\ Rewrapped(k)[f] \in Version
           /\ Rewrapped(k)[f] # NoFile
           /\ Rewrapped(k)[f].key = k
           /\ Rewrapped(k)[f].save = disk[f].save
<1>1. disk[f] \in Version
  BY DEF TypeOK
<1>2. Rewrapped(k)[f] = [disk[f] EXCEPT !.key = k]
  BY DEF Rewrapped
<1>3. [disk[f] EXCEPT !.key = k] \in Version
  BY <1>1 DEF Version
<1> QED
  BY <1>1, <1>2, <1>3, SentinelAssumption DEF Version

\* The temps that stay behind are finitely many, so the budget is a number.
LEMMA BudgetKept ==
    ASSUME TypeOK, NEW S \in SUBSET File, Spend(1 + Cardinality(S))
    PROVE  faults' \in 0 .. MaxFaults
<1>1. Cardinality(S) \in Nat
  BY FileAssumption, FS_Subset, FS_CardinalityType
<1> QED
  BY <1>1, BoundAssumption DEF Spend, TypeOK

\* A vault freshly opened satisfies the invariant.
LEMMA InitGood == Init => IInv
  BY SentinelAssumption, BoundAssumption
     DEF Init, IInv, TypeOK, Shape, TempsHold, Keys, Texts, OneKey, Half, Nothing, Listed,
         Recoverable, LatestKept, Maybe, Version, Form, Job

\* Every step keeps the type invariant.
LEMMA TypeStep ==
    ASSUME TypeOK, Shape, TempsHold, [Next]_vars
    PROVE  TypeOK'
<1>1. ASSUME NEW k \in Key, BeginEnroll(k)
      PROVE TypeOK'
  <2>1. \A g \in File : Rewrapped(k)[g] \in Version
    BY <1>1, RewrappedIsVersion DEF BeginEnroll, CanEnroll
  <2>2. Rewrapped(k) \in Maybe
    BY <2>1 DEF Rewrapped, Maybe
  <2> QED
    BY <1>1, <2>2 DEF BeginEnroll, Start, Listed, Job, TypeOK
<1>2. CASE BeginMigrate
  BY <1>2 DEF BeginMigrate, CanMigrate, Upgraded, Start, Opens, TypeOK, Maybe, Nothing, Listed, Job, Version, Form
<1>3. ASSUME NEW f \in File, Stage(f)
      PROVE TypeOK'
  BY <1>3 DEF Stage, Staged, Ready, TypeOK, Maybe, Nothing, Listed, Job, Version, Form
<1>4. ASSUME NEW f \in File, StageFails(f)
      PROVE TypeOK'
  <2>1. faults' \in 0 .. MaxFaults
    BY <1>4, BudgetKept DEF StageFails, Listed
  <2>2. temp' \in [Job -> Maybe]
    <3> DEFINE mine == (Listed(pending) \ todo) \cup {f}
    <3>1. PICK kept \in SUBSET (Listed(temp[job]) \cap mine) :
             temp' = [temp EXCEPT ![job] =
                         [g \in File |-> IF g \in mine \ kept THEN NoFile ELSE @[g]]]
      BY <1>4, Zenon DEF StageFails
    <3>2. job \in Job
      BY <1>4 DEF StageFails, Shape, TypeOK
    <3>3. [g \in File |-> IF g \in mine \ kept THEN NoFile ELSE temp[job][g]] \in Maybe
      BY <3>2 DEF TypeOK, Maybe
    <3> QED
      BY <3>1, <3>2, <3>3 DEF TypeOK
  <2> QED
    BY <1>4, <2>1, <2>2 DEF StageFails, Stop, Nothing, Maybe, TypeOK
<1>5. ASSUME NEW f \in File, Commit(f)
      PROVE TypeOK'
  <2>1. temp[job][f] \in Version
    BY <1>5 DEF Commit, Shape, TempsHold, Listed, TypeOK, Maybe
  <2> QED
    BY <1>5, <2>1 DEF Commit, Stop, TypeOK, Maybe, Nothing
<1>6. CASE WriteManifest
  BY <1>6 DEF WriteManifest, Stop, TypeOK, Maybe, Nothing, Listed, Job, Version, Form
<1>7. CASE CommitFails
  BY <1>7 DEF CommitFails, Stop, Spend, TypeOK, Maybe, Nothing, Listed, Job, Version, Form
<1>8. CASE Reopen
  BY <1>8 DEF Reopen, jobVars, TypeOK, Maybe, Nothing, Listed, Job, Version, Form
<1>9. CASE Crash
  BY <1>9 DEF Crash, Stop, Spend, TypeOK, Maybe, Nothing, Listed, Job, Version, Form
<1>10. ASSUME NEW f \in File, Save(f)
      PROVE TypeOK'
  <2>1. saves[f] + 1 \in 0 .. MaxSave
    BY <1>10, BoundAssumption DEF Save, TypeOK
  <2>2. [v |-> 2, key |-> live, save |-> saves[f] + 1, form |-> "sound"] \in Version
    BY <2>1 DEF Version, Form, TypeOK
  <2> QED
    BY <1>10, <2>1, <2>2 DEF Save, jobVars, TypeOK
<1>11. ASSUME NEW f \in File, Damage(f)
      PROVE TypeOK'
  <2>1. PICK form \in {"payload", "wrap"} : disk' = [disk EXCEPT ![f].form = form]
    BY <1>11 DEF Damage
  <2>2. disk[f] \in Version
    BY DEF TypeOK
  <2>3. [disk[f] EXCEPT !.form = form] \in Version
    BY <2>2 DEF Version, Form
  <2>4. disk' \in [File -> Version]
    BY <2>1, <2>3 DEF TypeOK
  <2>5. faults' \in 0 .. MaxFaults
    BY <1>11, BoundAssumption DEF Damage, Spend, TypeOK
  <2> QED
    BY <1>11, <2>4, <2>5 DEF Damage, jobVars, TypeOK
<1>12. CASE UNCHANGED vars
  BY <1>12 DEF vars, TypeOK, Maybe, Nothing, Listed, Job, Version, Form
<1> QED
  BY <1>1, <1>2, <1>3, <1>4, <1>5, <1>6, <1>7, <1>8, <1>9, <1>10, <1>11, <1>12 DEF Next

\* Every step keeps jobs and phases together.
LEMMA ShapeStep ==
    ASSUME TypeOK, TypeOK', Shape, [Next]_vars
    PROVE  Shape'
<1>1. ASSUME NEW k \in Key, BeginEnroll(k)
      PROVE Shape'
  <2>1. Listed(Rewrapped(k)) = File
    BY <1>1, RewrappedIsVersion DEF BeginEnroll, CanEnroll, Listed
  <2> QED
    BY <1>1, <2>1 DEF BeginEnroll, Start, Shape, Listed
<1>2. CASE BeginMigrate
  BY <1>2 DEF BeginMigrate, CanMigrate, Upgraded, Start, Opens, TypeOK, Shape, Nothing, Listed, Maybe, Job
<1>3. ASSUME NEW f \in File, Stage(f)
      PROVE Shape'
  BY <1>3 DEF Stage, Staged, Ready, TypeOK, Shape, Nothing, Listed, Maybe, Job
<1>4. ASSUME NEW f \in File, StageFails(f)
      PROVE Shape'
  BY <1>4 DEF StageFails, Stop, Spend, TypeOK, Shape, Nothing, Listed, Maybe, Job
<1>5. ASSUME NEW f \in File, Commit(f)
      PROVE Shape'
  BY <1>5 DEF Commit, Stop, TypeOK, Shape, Nothing, Listed, Maybe, Job
<1>6. CASE WriteManifest
  BY <1>6 DEF WriteManifest, Stop, TypeOK, Shape, Nothing, Listed, Maybe, Job
<1>7. CASE CommitFails
  BY <1>7 DEF CommitFails, Stop, Spend, TypeOK, Shape, Nothing, Listed, Maybe, Job
<1>8. CASE Reopen
  BY <1>8 DEF Reopen, jobVars, TypeOK, Shape, Nothing, Listed, Maybe, Job
<1>9. CASE Crash
  BY <1>9 DEF Crash, Stop, Spend, TypeOK, Shape, Nothing, Listed, Maybe, Job
<1>10. ASSUME NEW f \in File, Save(f)
      PROVE Shape'
  BY <1>10 DEF Save, jobVars, TypeOK, Shape, Nothing, Listed, Maybe, Job
<1>11. ASSUME NEW f \in File, Damage(f)
      PROVE Shape'
  BY <1>11 DEF Damage, jobVars, Spend, TypeOK, Shape, Nothing, Listed, Maybe, Job
<1>12. CASE UNCHANGED vars
  BY <1>12 DEF vars, TypeOK, Shape, Nothing, Listed, Maybe, Job
<1> QED
  BY <1>1, <1>2, <1>3, <1>4, <1>5, <1>6, <1>7, <1>8, <1>9, <1>10, <1>11, <1>12 DEF Next

\* Every step keeps the temps.
LEMMA TempsStep ==
    ASSUME TypeOK, Shape, TempsHold, [Next]_vars
    PROVE  TempsHold'
<1>1. ASSUME NEW k \in Key, BeginEnroll(k)
      PROVE TempsHold'
  BY <1>1 DEF BeginEnroll, CanEnroll, Rewrapped, Start, Unwraps, TypeOK, Shape, TempsHold, Nothing, Listed, Maybe, Job
<1>2. CASE BeginMigrate
  BY <1>2 DEF BeginMigrate, CanMigrate, Upgraded, Start, Opens, TypeOK, Shape, TempsHold, Nothing, Listed, Maybe, Job
<1>3. ASSUME NEW f \in File, Stage(f)
      PROVE TempsHold'
  BY <1>3 DEF Stage, Staged, Ready, TypeOK, Shape, TempsHold, Nothing, Listed, Maybe, Job
<1>4. ASSUME NEW f \in File, StageFails(f)
      PROVE TempsHold'
  BY <1>4 DEF StageFails, Stop, Spend, TypeOK, Shape, TempsHold, Nothing, Listed, Maybe, Job
<1>5. ASSUME NEW f \in File, Commit(f)
      PROVE TempsHold'
  BY <1>5 DEF Commit, Stop, TypeOK, Shape, TempsHold, Nothing, Listed, Maybe, Job
<1>6. CASE WriteManifest
  BY <1>6 DEF WriteManifest, Stop, TypeOK, Shape, TempsHold, Nothing, Listed, Maybe, Job
<1>7. CASE CommitFails
  BY <1>7 DEF CommitFails, Stop, Spend, TypeOK, Shape, TempsHold, Nothing, Listed, Maybe, Job
<1>8. CASE Reopen
  BY <1>8 DEF Reopen, jobVars, TypeOK, Shape, TempsHold, Nothing, Listed, Maybe, Job
<1>9. CASE Crash
  BY <1>9 DEF Crash, Stop, Spend, TypeOK, Shape, TempsHold, Nothing, Listed, Maybe, Job
<1>10. ASSUME NEW f \in File, Save(f)
      PROVE TempsHold'
  BY <1>10 DEF Save, jobVars, TypeOK, Shape, TempsHold, Nothing, Listed, Maybe, Job
<1>11. ASSUME NEW f \in File, Damage(f)
      PROVE TempsHold'
  BY <1>11 DEF Damage, jobVars, Spend, TypeOK, Shape, TempsHold, Nothing, Listed, Maybe, Job
<1>12. CASE UNCHANGED vars
  BY <1>12 DEF vars, TypeOK, Shape, TempsHold, Nothing, Listed, Maybe, Job
<1> QED
  BY <1>1, <1>2, <1>3, <1>4, <1>5, <1>6, <1>7, <1>8, <1>9, <1>10, <1>11, <1>12 DEF Next

\* Every step keeps the keys.
LEMMA KeysStep ==
    ASSUME TypeOK, Shape, TempsHold, Keys, [Next]_vars
    PROVE  Keys'
<1>1. ASSUME NEW k \in Key, BeginEnroll(k)
      PROVE Keys'
  BY <1>1 DEF BeginEnroll, CanEnroll, Rewrapped, Start, Unwraps, TypeOK, Shape, TempsHold, Keys, Recoverable, Nothing, Listed, Maybe, Job, Version
<1>2. CASE BeginMigrate
  BY <1>2 DEF BeginMigrate, CanMigrate, Upgraded, Start, Opens, TypeOK, Shape, TempsHold, Keys, Recoverable, Nothing, Listed, Maybe, Job, Version
<1>3. ASSUME NEW f \in File, Stage(f)
      PROVE Keys'
  BY <1>3 DEF Stage, Staged, Ready, TypeOK, Shape, TempsHold, Keys, Recoverable, Nothing, Listed, Maybe, Job, Version
<1>4. ASSUME NEW f \in File, StageFails(f)
      PROVE Keys'
  BY <1>4 DEF StageFails, Stop, Spend, TypeOK, Shape, TempsHold, Keys, Recoverable, Nothing, Listed, Maybe, Job, Version
<1>5. ASSUME NEW f \in File, Commit(f)
      PROVE Keys'
  BY <1>5 DEF Commit, Stop, TypeOK, Shape, TempsHold, Keys, Recoverable, Nothing, Listed, Maybe, Job, Version
<1>6. CASE WriteManifest
  BY <1>6 DEF WriteManifest, Stop, TypeOK, Shape, TempsHold, Keys, Recoverable, Nothing, Listed, Maybe, Job, Version
<1>7. CASE CommitFails
  BY <1>7 DEF CommitFails, Stop, Spend, TypeOK, Shape, TempsHold, Keys, Recoverable, Nothing, Listed, Maybe, Job, Version
<1>8. CASE Reopen
  BY <1>8 DEF Reopen, jobVars, TypeOK, Shape, TempsHold, Keys, Recoverable, Nothing, Listed, Maybe, Job, Version
<1>9. CASE Crash
  BY <1>9 DEF Crash, Stop, Spend, TypeOK, Shape, TempsHold, Keys, Recoverable, Nothing, Listed, Maybe, Job, Version
<1>10. ASSUME NEW f \in File, Save(f)
      PROVE Keys'
  BY <1>10 DEF Save, jobVars, TypeOK, Shape, TempsHold, Keys, Recoverable, Nothing, Listed, Maybe, Job, Version
<1>11. ASSUME NEW f \in File, Damage(f)
      PROVE Keys'
  BY <1>11 DEF Damage, jobVars, Spend, TypeOK, Shape, TempsHold, Keys, Recoverable, Nothing, Listed, Maybe, Job, Version
<1>12. CASE UNCHANGED vars
  BY <1>12 DEF vars, TypeOK, Shape, TempsHold, Keys, Recoverable, Nothing, Listed, Maybe, Job, Version
<1> QED
  BY <1>1, <1>2, <1>3, <1>4, <1>5, <1>6, <1>7, <1>8, <1>9, <1>10, <1>11, <1>12 DEF Next

\* Every step keeps the texts.
LEMMA TextsStep ==
    ASSUME TypeOK, Shape, TempsHold, Texts, [Next]_vars
    PROVE  Texts'
<1>1. ASSUME NEW k \in Key, BeginEnroll(k)
      PROVE Texts'
  BY <1>1 DEF BeginEnroll, CanEnroll, Rewrapped, Start, Unwraps, TypeOK, Shape, TempsHold, Texts, LatestKept, Nothing, Listed, Maybe, Job, Version
<1>2. CASE BeginMigrate
  BY <1>2 DEF BeginMigrate, CanMigrate, Upgraded, Start, Opens, TypeOK, Shape, TempsHold, Texts, LatestKept, Nothing, Listed, Maybe, Job, Version
<1>3. ASSUME NEW f \in File, Stage(f)
      PROVE Texts'
  BY <1>3 DEF Stage, Staged, Ready, TypeOK, Shape, TempsHold, Texts, LatestKept, Nothing, Listed, Maybe, Job, Version
<1>4. ASSUME NEW f \in File, StageFails(f)
      PROVE Texts'
  BY <1>4 DEF StageFails, Stop, Spend, TypeOK, Shape, TempsHold, Texts, LatestKept, Nothing, Listed, Maybe, Job, Version
<1>5. ASSUME NEW f \in File, Commit(f)
      PROVE Texts'
  BY <1>5 DEF Commit, Stop, TypeOK, Shape, TempsHold, Texts, LatestKept, Nothing, Listed, Maybe, Job, Version
<1>6. CASE WriteManifest
  BY <1>6 DEF WriteManifest, Stop, TypeOK, Shape, TempsHold, Texts, LatestKept, Nothing, Listed, Maybe, Job, Version
<1>7. CASE CommitFails
  BY <1>7 DEF CommitFails, Stop, Spend, TypeOK, Shape, TempsHold, Texts, LatestKept, Nothing, Listed, Maybe, Job, Version
<1>8. CASE Reopen
  BY <1>8 DEF Reopen, jobVars, TypeOK, Shape, TempsHold, Texts, LatestKept, Nothing, Listed, Maybe, Job, Version
<1>9. CASE Crash
  BY <1>9 DEF Crash, Stop, Spend, TypeOK, Shape, TempsHold, Texts, LatestKept, Nothing, Listed, Maybe, Job, Version
<1>10. ASSUME NEW f \in File, Save(f)
      PROVE Texts'
  BY <1>10 DEF Save, jobVars, TypeOK, Shape, TempsHold, Texts, LatestKept, Nothing, Listed, Maybe, Job, Version
<1>11. ASSUME NEW f \in File, Damage(f)
      PROVE Texts'
  BY <1>11 DEF Damage, jobVars, Spend, TypeOK, Shape, TempsHold, Texts, LatestKept, Nothing, Listed, Maybe, Job, Version
<1>12. CASE UNCHANGED vars
  BY <1>12 DEF vars, TypeOK, Shape, TempsHold, Texts, LatestKept, Nothing, Listed, Maybe, Job, Version
<1> QED
  BY <1>1, <1>2, <1>3, <1>4, <1>5, <1>6, <1>7, <1>8, <1>9, <1>10, <1>11, <1>12 DEF Next

\* Every step keeps one key.
LEMMA OneKeyStep ==
    ASSUME TypeOK, Shape, TempsHold, Keys, OneKey, [Next]_vars
    PROVE  OneKey'
<1>1. ASSUME NEW k \in Key, BeginEnroll(k)
      PROVE OneKey'
  BY <1>1 DEF BeginEnroll, CanEnroll, Rewrapped, Start, Unwraps, TypeOK, Shape, TempsHold, Keys, OneKey, Nothing, Listed, Maybe, Job, Version
<1>2. CASE BeginMigrate
  BY <1>2 DEF BeginMigrate, CanMigrate, Upgraded, Start, Opens, TypeOK, Shape, TempsHold, Keys, OneKey, Nothing, Listed, Maybe, Job, Version
<1>3. ASSUME NEW f \in File, Stage(f)
      PROVE OneKey'
  BY <1>3 DEF Stage, Staged, Ready, TypeOK, Shape, TempsHold, Keys, OneKey, Nothing, Listed, Maybe, Job, Version
<1>4. ASSUME NEW f \in File, StageFails(f)
      PROVE OneKey'
  BY <1>4 DEF StageFails, Stop, Spend, TypeOK, Shape, TempsHold, Keys, OneKey, Nothing, Listed, Maybe, Job, Version
<1>5. ASSUME NEW f \in File, Commit(f)
      PROVE OneKey'
  BY <1>5 DEF Commit, Stop, TypeOK, Shape, TempsHold, Keys, OneKey, Nothing, Listed, Maybe, Job, Version
<1>6. CASE WriteManifest
  BY <1>6 DEF WriteManifest, Stop, TypeOK, Shape, TempsHold, Keys, OneKey, Nothing, Listed, Maybe, Job, Version
<1>7. CASE CommitFails
  BY <1>7 DEF CommitFails, Stop, Spend, TypeOK, Shape, TempsHold, Keys, OneKey, Nothing, Listed, Maybe, Job, Version
<1>8. CASE Reopen
  BY <1>8 DEF Reopen, jobVars, TypeOK, Shape, TempsHold, Keys, OneKey, Nothing, Listed, Maybe, Job, Version
<1>9. CASE Crash
  BY <1>9 DEF Crash, Stop, Spend, TypeOK, Shape, TempsHold, Keys, OneKey, Nothing, Listed, Maybe, Job, Version
<1>10. ASSUME NEW f \in File, Save(f)
      PROVE OneKey'
  BY <1>10 DEF Save, jobVars, TypeOK, Shape, TempsHold, Keys, OneKey, Nothing, Listed, Maybe, Job, Version
<1>11. ASSUME NEW f \in File, Damage(f)
      PROVE OneKey'
  BY <1>11 DEF Damage, jobVars, Spend, TypeOK, Shape, TempsHold, Keys, OneKey, Nothing, Listed, Maybe, Job, Version
<1>12. CASE UNCHANGED vars
  BY <1>12 DEF vars, TypeOK, Shape, TempsHold, Keys, OneKey, Nothing, Listed, Maybe, Job, Version
<1> QED
  BY <1>1, <1>2, <1>3, <1>4, <1>5, <1>6, <1>7, <1>8, <1>9, <1>10, <1>11, <1>12 DEF Next

\* Every step keeps what is known of a job under way.
LEMMA HalfStep ==
    ASSUME TypeOK, Shape, TempsHold, Half, [Next]_vars
    PROVE  Half'
<1>1. ASSUME NEW k \in Key, BeginEnroll(k)
      PROVE Half'
  BY <1>1 DEF BeginEnroll, CanEnroll, Rewrapped, Start, Unwraps, TypeOK, Shape, TempsHold, Half, Nothing, Listed, Maybe, Job, Version
<1>2. CASE BeginMigrate
  BY <1>2 DEF BeginMigrate, CanMigrate, Upgraded, Start, Opens, TypeOK, Shape, TempsHold, Half, Nothing, Listed, Maybe, Job, Version
<1>3. ASSUME NEW f \in File, Stage(f)
      PROVE Half'
  BY <1>3 DEF Stage, Staged, Ready, TypeOK, Shape, TempsHold, Half, Nothing, Listed, Maybe, Job, Version
<1>4. ASSUME NEW f \in File, StageFails(f)
      PROVE Half'
  BY <1>4 DEF StageFails, Stop, Spend, TypeOK, Shape, TempsHold, Half, Nothing, Listed, Maybe, Job, Version
<1>5. ASSUME NEW f \in File, Commit(f)
      PROVE Half'
  BY <1>5 DEF Commit, Stop, TypeOK, Shape, TempsHold, Half, Nothing, Listed, Maybe, Job, Version
<1>6. CASE WriteManifest
  BY <1>6 DEF WriteManifest, Stop, TypeOK, Shape, TempsHold, Half, Nothing, Listed, Maybe, Job, Version
<1>7. CASE CommitFails
  BY <1>7 DEF CommitFails, Stop, Spend, TypeOK, Shape, TempsHold, Half, Nothing, Listed, Maybe, Job, Version
<1>8. CASE Reopen
  BY <1>8 DEF Reopen, jobVars, TypeOK, Shape, TempsHold, Half, Nothing, Listed, Maybe, Job, Version
<1>9. CASE Crash
  BY <1>9 DEF Crash, Stop, Spend, TypeOK, Shape, TempsHold, Half, Nothing, Listed, Maybe, Job, Version
<1>10. ASSUME NEW f \in File, Save(f)
      PROVE Half'
  BY <1>10 DEF Save, jobVars, TypeOK, Shape, TempsHold, Half, Nothing, Listed, Maybe, Job, Version
<1>11. ASSUME NEW f \in File, Damage(f)
      PROVE Half'
  BY <1>11 DEF Damage, jobVars, Spend, TypeOK, Shape, TempsHold, Half, Nothing, Listed, Maybe, Job, Version
<1>12. CASE UNCHANGED vars
  BY <1>12 DEF vars, TypeOK, Shape, TempsHold, Half, Nothing, Listed, Maybe, Job, Version
<1> QED
  BY <1>1, <1>2, <1>3, <1>4, <1>5, <1>6, <1>7, <1>8, <1>9, <1>10, <1>11, <1>12 DEF Next

-----------------------------------------------------------------------------
\* The invariant is inductive.
THEOREM Inductive == Spec => []IInv
<1>1. ASSUME IInv, [Next]_vars
      PROVE  IInv'
  BY <1>1, TypeStep, ShapeStep, TempsStep, KeysStep, TextsStep, OneKeyStep, HalfStep
     DEF IInv
<1> QED
  BY <1>1, InitGood, PTL DEF Spec

\* Every variable of a vault being rewritten keeps its type.
THEOREM TypeCorrect == Spec => []TypeOK
  BY Inductive, PTL DEF IInv

\* Whatever fails, in the staging, the renames or the manifest, and however
\* often a re-key is tried again, no file's key is lost.
THEOREM NoKeyIsLost == Spec => []Recoverable
  BY Inductive, PTL DEF IInv, Keys

\* Failures before the first rename never leave a half-re-keyed vault.
THEOREM NeverHalfRekeyed ==
    ASSUME "commit" \notin Env
    PROVE  Spec => []KeysAgree
<1>1. IInv => KeysAgree
  BY DEF IInv, Shape, OneKey, KeysAgree
<1> QED
  BY <1>1, Inductive, PTL

\* A rewrite never brings an older text back, as long as no save runs beside.
THEOREM TextsStayLatest ==
    ASSUME "busy" \notin Env
    PROVE  Spec => []LatestKept
<1>1. IInv => LatestKept
  BY DEF IInv, Texts
<1> QED
  BY <1>1, Inductive, PTL

\* Before the first rename a failure undoes the whole; past it none happens.
THEOREM AtomicAsAGroup ==
    ASSUME "commit" \notin Env, "busy" \notin Env
    PROVE  Spec => AllOrNothing
<1> DEFINE A == job # "none" /\ job' = "none" =>
                  \/ disk' = before
                  \/ \A f \in Listed(pending) : disk'[f] = pending[f]
<1>1. ASSUME IInv, [Next]_vars
      PROVE  A
  BY <1>1 DEF IInv, TypeOK, Shape, TempsHold, Half, Listed, Maybe, Next, vars,
         BeginEnroll, BeginMigrate, Start, Stage, StageFails, Commit, Stop, WriteManifest,
         CommitFails, Reopen, jobVars, Crash, Save, Damage
<1>2. IInv /\ [Next]_vars => [A]_vars
  BY <1>1
<1> QED
  BY <1>2, Inductive, PTL DEF Spec, AllOrNothing
=============================================================================
