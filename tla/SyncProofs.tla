----------------------------- MODULE SyncProofs -----------------------------
(***************************************************************************)
(* Theorems about Sync, for every set of devices, dates and ids and every  *)
(* bound: its type invariant, and that no save is lost.                    *)
(***************************************************************************)
EXTENDS Sync, FiniteSetTheorems, TLAPS

-----------------------------------------------------------------------------
(* The fault budget.                                                       *)

\* A fault of any kind hits some of the things it may hit, finitely many.
LEMMA FaultyFacts ==
    ASSUME NEW kind, NEW S, IsFiniteSet(S), NEW F \in Faulty(kind, S)
    PROVE  F \subseteq S /\ Cardinality(F) \in Nat
  <1>1. F \subseteq S
    BY DEF Faulty
  <1> QED
    BY <1>1, FS_Subset, FS_CardinalityType

\* A fault that the environment does not know happens to nothing.
LEMMA FaultyNever ==
    ASSUME NEW kind, kind \notin Env, NEW S, NEW F \in Faulty(kind, S)
    PROVE  F = {}
  BY DEF Faulty

\* The budget of faults stays a number within its bound.
LEMMA SpendType ==
    ASSUME TypeOK, NEW n \in Nat, Spend(n)
    PROVE  faults' \in 0 .. MaxFaults
  BY BoundAssumption DEF Spend, TypeOK

-----------------------------------------------------------------------------
(* Directories.                                                            *)

\* Names, ids and the two directories of a pass are finite sets, so that
\* failures among them can be counted.
LEMMA FiniteNames ==
    IsFiniteSet(Name) /\ IsFiniteSet(Id) /\ \A d : IsFiniteSet({d, Container})
  <1>1. IsFiniteSet(Date \X Id)
    BY FiniteAssumption, FS_Product
  <1>2. \A d : IsFiniteSet({d, Container})
    <2> TAKE d
    <2>1. IsFiniteSet({d} \cup {Container})
      <3>1. IsFiniteSet({d})
        BY FS_Singleton
      <3> QED BY <3>1, FS_AddElement
    <2>2. {d, Container} = {d} \cup {Container}
      OBVIOUS
    <2> QED BY <2>1, <2>2
  <1> QED BY <1>1, <1>2, FiniteAssumption DEF Name

\* What a pattern selects is a finite set of names.
LEMMA MatchingFacts ==
    ASSUME NEW x, NEW id
    PROVE  Matching(x, id) \subseteq Name /\ Present(x) \subseteq Name
           /\ IsFiniteSet(Matching(x, id)) /\ IsFiniteSet(Present(x))
  <1>1. Matching(x, id) \subseteq Name /\ Present(x) \subseteq Name
    BY DEF Matching, Present
  <1> QED
    BY <1>1, FiniteNames, FS_Subset

\* What a purge removes is a finite set of names.
LEMMA OthersFacts ==
    ASSUME NEW x, NEW m, NEW spared
    PROVE  Others(x, m, spared) \subseteq Name /\ IsFiniteSet(Others(x, m, spared))
  <1>1. Others(x, m, spared) \subseteq Matching(x, m[2])
    BY DEF Others
  <1> QED
    BY <1>1, MatchingFacts, FS_Subset

\* A directory with files removed is a directory.
LEMMA WithoutType ==
    ASSUME TypeOK
    PROVE  \A x \in Dir : \A gone :
              Without(entries[x], gone) \in [Name -> Envelope \cup {NoFile}]
  BY DEF Without, TypeOK

\* Both sides of a pass are directories.
LEMMA PlaceType ==
    ASSUME NEW d \in Device, NEW s \in Side
    PROVE  /\ Place(d, s) \in Dir /\ Opposite(s) \in Side
           /\ Place(d, Opposite(s)) \in Dir
  BY DEF Place, Opposite, Side, Dir

-----------------------------------------------------------------------------
\* Every step leaves every variable its type.
LEMMA TypeStep ==
    ASSUME TypeOK, [Next]_vars
    PROVE  TypeOK'
  <1>1. ASSUME NEW d \in Device, NEW id \in Id, NEW date \in Date, Save(d, id, date)
        PROVE  TypeOK'
    <2> DEFINE old == Others(d, <<date, id>>, {})
    <2>1. PICK s \in Reading, kept \in Faulty("remove", old) :
             /\ Spend(Cardinality(kept))
             /\ entries' = [entries EXCEPT ![d] =
                  [Without(@, old \ kept) EXCEPT ![<<date, id>>] =
                      [created |-> s, by |-> d, form |-> "sound"]]]
             /\ newest' = [newest EXCEPT ![id] = Max2(@, s)]
             /\ now' = Max2(now, s)
      BY <1>1 DEF Save
    <2>2. faults' \in 0 .. MaxFaults
      BY <2>1, OthersFacts, FaultyFacts, SpendType
    <2>3. [created |-> s, by |-> d, form |-> "sound"] \in Envelope
      BY DEF Envelope, Form, Reading
    <2>4. Without(entries[d], old \ kept) \in [Name -> Envelope \cup {NoFile}]
      BY WithoutType DEF TypeOK, Dir
    <2>5. entries' \in [Dir -> [Name -> Envelope \cup {NoFile}]]
      BY <2>1, <2>3, <2>4 DEF TypeOK, Dir, Name
    <2>6. newest' \in [Id -> 0 .. MaxStamp] /\ now' \in 0 .. MaxStamp
      BY <2>1 DEF TypeOK, Reading, Max2
    <2> QED
      BY <1>1, <2>2, <2>5, <2>6 DEF Save, TypeOK
  <1>2. ASSUME NEW d \in Device, NEW id \in Id, Delete(d, id)
        PROVE  TypeOK'
    <2>1. PICK kept \in Faulty("remove", Matching(d, id)), miss \in Faulty("write", {id}) :
             /\ Spend(Cardinality(kept) + Cardinality(miss))
             /\ entries' = [entries EXCEPT ![d] = Without(@, Matching(d, id) \ kept)]
             /\ tomb' = [tomb EXCEPT ![d] = @ \cup ({id} \ miss)]
             /\ deleted' = deleted \cup {id}
      BY <1>2 DEF Delete
    <2>2. faults' \in 0 .. MaxFaults
      <3>1. Cardinality(kept) \in Nat /\ Cardinality(miss) \in Nat
        BY MatchingFacts, FaultyFacts, FS_Singleton
      <3> QED BY <2>1, <3>1, SpendType
    <2>3. Without(entries[d], Matching(d, id) \ kept) \in [Name -> Envelope \cup {NoFile}]
      BY WithoutType DEF TypeOK, Dir
    <2>4. entries' \in [Dir -> [Name -> Envelope \cup {NoFile}]]
      BY <2>1, <2>3 DEF TypeOK, Dir
    <2> QED
      BY <1>2, <2>1, <2>2, <2>4 DEF Delete, TypeOK
  <1>3. ASSUME NEW d \in Device, BeginPass(d)
        PROVE  TypeOK'
    <2>1. PICK blindL \in Faulty("tombread", tomb[d]),
               blindR \in Faulty("tombread", tomb[Container]) :
             /\ Spend(Cardinality(blindL) + Cardinality(blindR))
             /\ known' = [known EXCEPT ![d] =
                   (tomb[d] \ blindL) \cup (tomb[Container] \ blindR)]
      BY <1>3 DEF BeginPass
    <2>2. tomb[d] \subseteq Id /\ tomb[Container] \subseteq Id
      BY DEF TypeOK, Dir
    <2>3. faults' \in 0 .. MaxFaults
      <3>1. Cardinality(blindL) \in Nat /\ Cardinality(blindR) \in Nat
        BY <2>2, FiniteNames, FS_Subset, FaultyFacts
      <3> QED BY <2>1, <3>1, SpendType
    <2> QED
      BY <1>3, <2>1, <2>2, <2>3 DEF BeginPass, TypeOK
  <1>4. ASSUME NEW d \in Device, NEW id \in Id, ApplyTomb(d, id)
        PROVE  TypeOK'
    <2>1. PICK miss \in Faulty("write", {x \in {d, Container} : id \notin tomb[x]}),
               keptL \in Faulty("remove", Buried(d, id)),
               keptR \in Faulty("remove", Buried(Container, id)) :
             /\ Spend(Cardinality(miss) + Cardinality(keptL) + Cardinality(keptR))
             /\ tomb' = [x \in Dir |-> IF x \in {d, Container} \ miss
                                       THEN tomb[x] \cup {id} ELSE tomb[x]]
             /\ entries' = [entries EXCEPT
                    ![d] = Without(@, Buried(d, id) \ keptL),
                    ![Container] = Without(@, Buried(Container, id) \ keptR)]
      BY <1>4 DEF ApplyTomb
    <2>2. faults' \in 0 .. MaxFaults
      <3>1. Cardinality(keptL) \in Nat /\ Cardinality(keptR) \in Nat
        BY MatchingFacts, FaultyFacts DEF Buried
      <3>2. IsFiniteSet({x \in {d, Container} : id \notin tomb[x]})
        <4>1. {x \in {d, Container} : id \notin tomb[x]} \subseteq {d, Container}
          OBVIOUS
        <4> QED BY <4>1, FiniteNames, FS_Subset
      <3>3. Cardinality(miss) \in Nat
        BY <3>2, FaultyFacts
      <3> QED BY <2>1, <3>1, <3>3, SpendType
    <2>4. entries' \in [Dir -> [Name -> Envelope \cup {NoFile}]]
      BY <2>1, WithoutType, DirAssumption DEF TypeOK, Dir
    <2>5. tomb' \in [Dir -> SUBSET Id] /\ known' \in [Device -> SUBSET Id]
      BY <1>4, <2>1 DEF ApplyTomb, TypeOK
    <2> QED
      BY <1>4, <2>2, <2>4, <2>5 DEF ApplyTomb, TypeOK
  <1>5. ASSUME NEW d \in Device, Scan(d)
        PROVE  TypeOK'
    <2>1. PICK lostL \in Faulty("read", Present(d)),
               lostR \in Faulty("read", Present(Container)) :
             Spend(Cardinality(lostL) + Cardinality(lostR))
      BY <1>5 DEF Scan
    <2>2. faults' \in 0 .. MaxFaults
      <3>1. Cardinality(lostL) \in Nat /\ Cardinality(lostR) \in Nat
        BY MatchingFacts, FaultyFacts
      <3> QED BY <2>1, <3>1, SpendType
    <2>3. shield' \in [Device -> SUBSET (Side \X Name)]
      BY <1>5 DEF Scan, TypeOK, Unvouched
    <2>4. plan' \in [Device -> SUBSET Move]
      BY <1>5 DEF Scan, TypeOK, Wanted
    <2> QED
      BY <1>5, <2>2, <2>3, <2>4 DEF Scan, TypeOK
  <1>6. ASSUME NEW d \in Device, NEW m \in Move, Copy(d, m)
        PROVE  TypeOK'
    <2> DEFINE n == <<m.date, m.id>>
               bytes == entries[Place(d, m.from)][n]
    <2>1. PICK fail \in Faulty("write", {m}) :
             /\ Spend(Cardinality(fail))
             /\ IF bytes = NoFile \/ fail # {}
                THEN UNCHANGED <<entries, cur>>
                ELSE /\ entries' = [entries EXCEPT
                            ![Place(d, Opposite(m.from))][n] = bytes]
                     /\ cur' = [cur EXCEPT ![d] = IF m.purge THEN m ELSE NoMove]
      BY <1>6 DEF Copy
    <2>2. faults' \in 0 .. MaxFaults
      BY <2>1, FaultyFacts, FS_Singleton, SpendType
    <2>3. n \in Name /\ Place(d, m.from) \in Dir /\ Place(d, Opposite(m.from)) \in Dir
      BY PlaceType DEF Move, Name
    <2>4. bytes \in Envelope \cup {NoFile}
      BY <2>3 DEF TypeOK
    <2>5. entries' \in [Dir -> [Name -> Envelope \cup {NoFile}]]
      <3>1. CASE entries' = entries
        BY <3>1 DEF TypeOK
      <3>2. CASE entries' = [entries EXCEPT ![Place(d, Opposite(m.from))][n] = bytes]
        <4> HIDE DEF n, bytes
        <4> QED BY <3>2, <2>3, <2>4 DEF TypeOK
      <3> QED BY <2>1, <3>1, <3>2
    <2>6. cur' \in [Device -> Move \cup {NoMove}]
      BY <2>1 DEF TypeOK
    <2> QED
      BY <1>6, <2>2, <2>5, <2>6 DEF Copy, TypeOK
  <1>7. ASSUME NEW d \in Device, Purge(d)
        PROVE  TypeOK'
    <2> DEFINE side == Opposite(cur[d].from)
               x == Place(d, side)
               old == Others(x, <<cur[d].date, cur[d].id>>, Shielded(d, side))
    <2>1. PICK kept \in Faulty("remove", old) :
             /\ Spend(Cardinality(kept))
             /\ entries' = [entries EXCEPT ![x] = Without(@, old \ kept)]
      BY <1>7 DEF Purge
    <2>2. faults' \in 0 .. MaxFaults
      BY <2>1, OthersFacts, FaultyFacts, SpendType
    <2>3. x \in Dir
      BY DEF Place, Opposite, Dir
    <2>4. entries' \in [Dir -> [Name -> Envelope \cup {NoFile}]]
      BY <2>1, <2>3, WithoutType DEF TypeOK
    <2> QED
      BY <1>7, <2>2, <2>4 DEF Purge, TypeOK
  <1>8. ASSUME NEW d \in Device, Finish(d) \/ Abandon(d)
        PROVE  TypeOK'
    BY <1>8, SpendType DEF Finish, Abandon, EndPass, TypeOK
  <1>9. ASSUME NEW x \in Dir, NEW n \in Name, Corrupt(x, n)
        PROVE  TypeOK'
    <2>1. entries' \in [Dir -> [Name -> Envelope \cup {NoFile}]]
      BY <1>9 DEF Corrupt, TypeOK
    <2>2. faults' \in 0 .. MaxFaults
      BY <1>9, SpendType DEF Corrupt
    <2> QED
      BY <1>9, <2>1, <2>2 DEF Corrupt, TypeOK
  <1>10. CASE UNCHANGED vars
    BY <1>10 DEF vars, TypeOK
  <1> QED
    BY <1>1, <1>2, <1>3, <1>4, <1>5, <1>6, <1>7, <1>8, <1>9, <1>10
       DEF Next, PassStep

\* Every variable has its type in every reachable state (the state of
\* reconcile_with, save_entry and delete_entry).
THEOREM TypeCorrect == Spec => []TypeOK
  <1>1. Init => TypeOK
    BY BoundAssumption DEF Init, TypeOK
  <1>2. TypeOK /\ [Next]_vars => TypeOK'
    BY TypeStep
  <1> QED
    BY <1>1, <1>2, PTL DEF Spec

-----------------------------------------------------------------------------
(* No save is lost.  The environment may overlap passes, end them, fail to *)
(* write, to remove and to read tombstones; it may not hide an envelope    *)
(* from a scan, damage one, turn a clock back, or let the user write in    *)
(* the middle of the device's own pass, and no id is the tail of another.  *)

Undisturbed == {"read", "busy", "skew", "corrupt"} \cap Env = {}
SuffixFree  == \A p \in Suffix : p[1] = p[2]

\* Every stored envelope opens, and none is newer than the latest save.
AllSound == \A x \in Dir : \A n \in Present(x) : entries[x][n].form = "sound"
Stamped ==
    /\ \A x \in Dir : \A n \in Present(x) : entries[x][n].created <= newest[n[2]]
    /\ \A id \in Id : newest[id] <= now

\* A tombstone anywhere means that a user deleted the entry.
TombsDeleted ==
    /\ \A x \in Dir : tomb[x] \subseteq deleted
    /\ \A d \in Device : known[d] \subseteq deleted

\* A pass decides once for each id, and only after its tombstones.
DecidedOnce ==
    \A d \in Device :
        /\ pc[d] # "moves" => plan[d] = {} /\ cur[d] = NoMove
        /\ \A m, k \in plan[d] : m.id = k.id => m = k
        /\ cur[d] # NoMove => \A m \in plan[d] : m.id # cur[d].id

\* The inductive invariant behind NewestSurvives.
IInv ==
    /\ TypeOK
    /\ AllSound
    /\ Stamped
    /\ TombsDeleted
    /\ DecidedOnce
    /\ PullsAreBehind
    /\ NewestSurvives

(* What each operation does to the files.                                  *)

\* With no id ending in another, the pattern of an id selects its own files.
LEMMA MatchingId ==
    ASSUME SuffixFree, NEW x, NEW id, NEW n \in Matching(x, id)
    PROVE  n \in Name /\ n[2] = id
  BY DEF Matching, Present, SuffixFree

\* A save stamps its file newer than every other and removes files of its
\* own id only, on its own device.
LEMMA SaveEffect ==
    ASSUME TypeOK, Undisturbed, SuffixFree,
           NEW d \in Device, NEW id \in Id, NEW date \in Date, Save(d, id, date)
    PROVE  /\ pc[d] = "idle"
           /\ now' = now + 1
           /\ newest' = [newest EXCEPT ![id] = Max2(@, now + 1)]
           /\ entries'[d][<<date, id>>] =
                  [created |-> now + 1, by |-> d, form |-> "sound"]
           /\ \A x \in Dir, n \in Name :
                  \/ x = d /\ n = <<date, id>>
                  \/ entries'[x][n] = entries[x][n]
                  \/ x = d /\ n[2] = id /\ entries'[x][n] = NoFile
  <1> DEFINE old == Others(d, <<date, id>>, {})
  <1>1. PICK s \in Reading, kept \in Faulty("remove", old) :
          /\ entries' = [entries EXCEPT ![d] =
               [Without(@, old \ kept) EXCEPT ![<<date, id>>] =
                   [created |-> s, by |-> d, form |-> "sound"]]]
          /\ newest' = [newest EXCEPT ![id] = Max2(@, s)]
          /\ now' = Max2(now, s)
    BY DEF Save
  <1>2. s = now + 1
    BY DEF Reading, Undisturbed
  <1>3. pc[d] = "idle"
    BY DEF Save, MayEdit, Undisturbed
  <1>4. now' = now + 1
    BY <1>1, <1>2 DEF Max2, TypeOK
  <1>5. \A n \in old : n \in Name /\ n[2] = id /\ n # <<date, id>>
    BY MatchingId DEF Others
  <1>6. <<date, id>> \in Name /\ d \in Dir
    BY DEF Name, Dir
  <1>7. entries'[d] = [Without(entries[d], old \ kept) EXCEPT ![<<date, id>>] =
                          [created |-> now + 1, by |-> d, form |-> "sound"]]
    <2> HIDE DEF old
    <2> QED BY <1>1, <1>2, <1>6 DEF TypeOK
  <1>8. \A x \in Dir : x # d => entries'[x] = entries[x]
    <2> HIDE DEF old
    <2> QED BY <1>1 DEF TypeOK
  <1>9. entries'[d][<<date, id>>] = [created |-> now + 1, by |-> d, form |-> "sound"]
    <2> HIDE DEF old
    <2> QED BY <1>7, <1>6 DEF Without
  <1>10. ASSUME NEW x \in Dir, NEW n \in Name
         PROVE  \/ x = d /\ n = <<date, id>>
                \/ entries'[x][n] = entries[x][n]
                \/ x = d /\ n[2] = id /\ entries'[x][n] = NoFile
    <2>1. CASE x # d
      BY <2>1, <1>8
    <2>2. CASE x = d /\ n # <<date, id>>
      <3>1. entries'[d][n] = Without(entries[d], old \ kept)[n]
        <4> HIDE DEF old
        <4> QED BY <1>7, <2>2 DEF Without
      <3>2. entries'[d][n] = IF n \in old \ kept THEN NoFile ELSE entries[d][n]
        BY <3>1 DEF Without
      <3> QED BY <3>2, <2>2, <1>5
    <2> QED BY <2>1, <2>2
  <1> QED
    BY <1>1, <1>2, <1>3, <1>4, <1>9, <1>10

\* A delete removes files of its own id only.
LEMMA DeleteEffect ==
    ASSUME TypeOK, SuffixFree, NEW d \in Device, NEW id \in Id, Delete(d, id)
    PROVE  \A x \in Dir, n \in Name :
              \/ entries'[x][n] = entries[x][n]
              \/ n[2] = id /\ entries'[x][n] = NoFile
  <1>1. PICK gone : /\ gone \subseteq Matching(d, id)
                    /\ entries' = [entries EXCEPT ![d] = Without(@, gone)]
    BY DEF Delete
  <1>2. \A n \in gone : n[2] = id
    BY <1>1, MatchingId
  <1> QED
    BY <1>1, <1>2 DEF Without, TypeOK, Dir

\* Applying a tombstone removes files of its own id only.
LEMMA ApplyTombEffect ==
    ASSUME TypeOK, SuffixFree, NEW d \in Device, NEW id \in Id, ApplyTomb(d, id)
    PROVE  \A x \in Dir, n \in Name :
              \/ entries'[x][n] = entries[x][n]
              \/ n[2] = id /\ entries'[x][n] = NoFile
  <1>1. PICK goneL, goneR :
          /\ goneL \subseteq Matching(d, id)
          /\ goneR \subseteq Matching(Container, id)
          /\ entries' = [entries EXCEPT ![d] = Without(@, goneL),
                                        ![Container] = Without(@, goneR)]
    BY DEF ApplyTomb, Buried
  <1>2. \A n \in goneL \cup goneR : n[2] = id
    BY <1>1, MatchingId
  <1> QED
    BY <1>1, <1>2, DirAssumption DEF Without, TypeOK, Dir

\* Only the side the copy went to, and never the copy itself.
LEMMA PurgeEffect ==
    ASSUME TypeOK, SuffixFree, NEW d \in Device, Purge(d)
    PROVE  \A x \in Dir, n \in Name :
              \/ entries'[x][n] = entries[x][n]
              \/ /\ x = Place(d, Opposite(cur[d].from))
                 /\ n[2] = cur[d].id
                 /\ n # <<cur[d].date, cur[d].id>>
                 /\ entries'[x][n] = NoFile
  <1> DEFINE y == Place(d, Opposite(cur[d].from))
             keep == <<cur[d].date, cur[d].id>>
  <1>1. PICK gone : /\ gone \subseteq Matching(y, cur[d].id) \ {keep}
                    /\ entries' = [entries EXCEPT ![y] = Without(@, gone)]
    BY DEF Purge, Others
  <1>2. \A n \in gone : n[2] = cur[d].id /\ n # keep
    BY <1>1, MatchingId
  <1>3. y \in Dir
    BY DEF Place, Opposite, Dir
  <1> HIDE DEF y, keep
  <1>4. \A x \in Dir, n \in Name :
           \/ entries'[x][n] = entries[x][n]
           \/ x = y /\ n[2] = cur[d].id /\ n # keep /\ entries'[x][n] = NoFile
    BY <1>1, <1>2, <1>3 DEF Without, TypeOK
  <1> QED
    BY <1>4 DEF y, keep

\* A copy changes one name on the other side, to what the source holds.
LEMMA CopyEffect ==
    ASSUME TypeOK, NEW d \in Device, NEW m \in Move, Copy(d, m)
    PROVE  /\ \A x \in Dir, n \in Name :
                 \/ entries'[x][n] = entries[x][n]
                 \/ /\ x = Place(d, Opposite(m.from))
                    /\ n = <<m.date, m.id>>
                    /\ entries'[x][n] = entries[Place(d, m.from)][n]
                    /\ entries'[x][n] # NoFile
                    /\ cur'[d] = IF m.purge THEN m ELSE NoMove
           /\ cur' = cur \/ cur' = [cur EXCEPT ![d] = IF m.purge THEN m ELSE NoMove]
           /\ cur' = cur => cur'[d] = NoMove
  <1> DEFINE k == <<m.date, m.id>>
             y == Place(d, Opposite(m.from))
             bytes == entries[Place(d, m.from)][k]
  <1>1. k \in Name /\ y \in Dir /\ Place(d, m.from) \in Dir
    BY DEF Name, Move, Place, Opposite, Dir
  <1>2. \/ UNCHANGED <<entries, cur>>
        \/ /\ bytes # NoFile
           /\ entries' = [entries EXCEPT ![y][k] = bytes]
           /\ cur' = [cur EXCEPT ![d] = IF m.purge THEN m ELSE NoMove]
    BY DEF Copy
  <1>3. cur[d] = NoMove
    BY DEF Copy
  <1>4. CASE UNCHANGED <<entries, cur>>
    BY <1>4, <1>3
  <1>5. CASE /\ bytes # NoFile
             /\ entries' = [entries EXCEPT ![y][k] = bytes]
             /\ cur' = [cur EXCEPT ![d] = IF m.purge THEN m ELSE NoMove]
    <2>1. cur'[d] = IF m.purge THEN m ELSE NoMove
      BY <1>5 DEF TypeOK
    <2>2. \A x \in Dir, n \in Name :
             \/ entries'[x][n] = entries[x][n]
             \/ x = y /\ n = k /\ entries'[x][n] = bytes
      <3> HIDE DEF k, y, bytes
      <3> QED BY <1>5, <1>1 DEF TypeOK
    <2> QED BY <1>5, <1>3, <2>1, <2>2
  <1> QED
    BY <1>2, <1>4, <1>5

(* Every other step leaves the files alone.                                *)

\* The steps that only move a pass along change no file and no stamp.
LEMMA QuietEffect ==
    ASSUME NEW d \in Device,
           BeginPass(d) \/ Scan(d) \/ Finish(d) \/ Abandon(d) \/ UNCHANGED vars
    PROVE  entries' = entries /\ now' = now /\ newest' = newest /\ deleted' = deleted
  BY DEF BeginPass, Scan, Finish, Abandon, EndPass, vars

\* Every step leaves all files sound and none newer than the latest save.
LEMMA FilesStep ==
    ASSUME TypeOK, TypeOK', Undisturbed, SuffixFree, AllSound, Stamped, [Next]_vars
    PROVE  AllSound' /\ Stamped'
  <1> DEFINE Good(f) == \A x \in Dir, n \in Name :
                 f[x][n] # NoFile => /\ f[x][n].form = "sound"
                                     /\ f[x][n].created <= newest'[n[2]]
  <1>1. ASSUME Good(entries'), \A id \in Id : newest'[id] <= now'
        PROVE  AllSound' /\ Stamped'
    BY <1>1 DEF AllSound, Stamped, Present
  <1>2. ASSUME newest' = newest, now' = now,
               \A x \in Dir, n \in Name :
                  entries'[x][n] \in {NoFile} \cup {entries[y][n] : y \in Dir}
        PROVE  AllSound' /\ Stamped'
    <2>1. Good(entries')
      BY <1>2 DEF AllSound, Stamped, Present
    <2> QED
      BY <1>1, <1>2, <2>1 DEF Stamped
  <1>3. ASSUME NEW d \in Device, NEW id \in Id, NEW date \in Date, Save(d, id, date)
        PROVE  AllSound' /\ Stamped'
    <2> DEFINE fresh == [created |-> now + 1, by |-> d, form |-> "sound"]
    <2>0. /\ now' = now + 1
          /\ newest' = [newest EXCEPT ![id] = Max2(@, now + 1)]
          /\ entries'[d][<<date, id>>] = fresh
          /\ \A x \in Dir, n \in Name :
                \/ x = d /\ n = <<date, id>>
                \/ entries'[x][n] = entries[x][n]
                \/ entries'[x][n] = NoFile
      BY <1>3, SaveEffect
    <2>1. \A i \in Id : newest'[i] = IF i = id THEN now + 1 ELSE newest[i]
      <3>1. now \in Nat /\ \A i \in Id : newest[i] \in Nat /\ newest[i] <= now
        BY DEF Stamped, TypeOK
      <3>2. Max2(newest[id], now + 1) = now + 1
        BY <3>1 DEF Max2
      <3> QED BY <2>0, <3>2 DEF TypeOK
    <2>3. \A i \in Id : newest[i] <= newest'[i] /\ newest'[i] <= now'
      <3>1. now \in Nat /\ \A i \in Id : newest[i] \in Nat /\ newest[i] <= now
        BY DEF Stamped, TypeOK
      <3> QED BY <2>0, <2>1, <3>1
    <2>4. ASSUME NEW x \in Dir, NEW n \in Name, entries'[x][n] # NoFile
          PROVE  /\ entries'[x][n].form = "sound"
                 /\ entries'[x][n].created <= newest'[n[2]]
      <3>1. CASE x = d /\ n = <<date, id>>
        <4>1. n[2] = id /\ now + 1 \in Nat
          BY <3>1 DEF TypeOK
        <4>2. newest'[n[2]] = now + 1
          BY <4>1, <2>1
        <4> QED BY <2>0, <3>1, <4>1, <4>2
      <3>2. CASE entries'[x][n] = entries[x][n]
        <4>1. /\ entries[x][n] \in Envelope
              /\ entries[x][n].form = "sound"
              /\ entries[x][n].created <= newest[n[2]]
          BY <2>4, <3>2 DEF AllSound, Stamped, Present, TypeOK
        <4>2. n[2] \in Id
          BY DEF Name
        <4>3. newest[n[2]] <= newest'[n[2]]
          BY <4>2, <2>3
        <4>4. newest[n[2]] \in Nat /\ newest'[n[2]] \in Nat /\ entries[x][n].created \in Nat
          BY <4>1, <4>2 DEF TypeOK, Envelope
        <4> QED BY <3>2, <4>1, <4>3, <4>4
      <3> QED BY <3>1, <3>2, <2>4, <2>0
    <2> QED
      BY <1>1, <2>3, <2>4
  <1>4. ASSUME NEW d \in Device, NEW id \in Id, Delete(d, id)
        PROVE  AllSound' /\ Stamped'
    BY <1>2, <1>4, DeleteEffect DEF Delete
  <1>5. ASSUME NEW d \in Device, NEW id \in Id, ApplyTomb(d, id)
        PROVE  AllSound' /\ Stamped'
    BY <1>2, <1>5, ApplyTombEffect DEF ApplyTomb
  <1>6. ASSUME NEW d \in Device, NEW m \in Move, Copy(d, m)
        PROVE  AllSound' /\ Stamped'
    <2>1. Place(d, m.from) \in Dir
      BY DEF Place, Dir
    <2>2. newest' = newest /\ now' = now
      BY <1>6 DEF Copy
    <2>3. \A x \in Dir, n \in Name :
             entries'[x][n] \in {entries[x][n], entries[Place(d, m.from)][n]}
      BY <1>6, CopyEffect
    <2> QED BY <1>2, <2>1, <2>2, <2>3
  <1>7. ASSUME NEW d \in Device, Purge(d)
        PROVE  AllSound' /\ Stamped'
    BY <1>2, <1>7, PurgeEffect DEF Purge
  <1>8. ASSUME NEW d \in Device,
               BeginPass(d) \/ Scan(d) \/ Finish(d) \/ Abandon(d)
        PROVE  AllSound' /\ Stamped'
    BY <1>8, QuietEffect DEF AllSound, Stamped, Present
  <1>9. CASE UNCHANGED vars
    BY <1>9 DEF vars, AllSound, Stamped, Present
  <1> QED
    BY <1>3, <1>4, <1>5, <1>6, <1>7, <1>8, <1>9
       DEF Next, PassStep, Corrupt, Undisturbed

\* Every step leaves tombstones to deleted ids.
LEMMA TombsStep ==
    ASSUME TypeOK, TombsDeleted, [Next]_vars
    PROVE  TombsDeleted'
  <1>1. ASSUME NEW d \in Device, NEW id \in Id, Delete(d, id)
        PROVE  TombsDeleted'
    BY <1>1 DEF Delete, TombsDeleted, TypeOK, Dir
  <1>2. ASSUME NEW d \in Device, BeginPass(d)
        PROVE  TombsDeleted'
    BY <1>2 DEF BeginPass, TombsDeleted, TypeOK, Dir
  <1>3. ASSUME NEW d \in Device, NEW id \in Id, ApplyTomb(d, id)
        PROVE  TombsDeleted'
    BY <1>3 DEF ApplyTomb, TombsDeleted, TypeOK
  <1>4. ASSUME NEW d \in Device, Finish(d) \/ Abandon(d)
        PROVE  TombsDeleted'
    BY <1>4 DEF Finish, Abandon, EndPass, TombsDeleted, TypeOK
  <1>5. CASE UNCHANGED <<tomb, deleted, known>>
    BY <1>5 DEF TombsDeleted
  <1> QED
    BY <1>1, <1>2, <1>3, <1>4, <1>5
       DEF Next, PassStep, Save, Scan, Copy, Purge, Corrupt, vars

\* Every step leaves at most one decision for each id of a pass.
LEMMA DecidedStep ==
    ASSUME TypeOK, DecidedOnce, [Next]_vars
    PROVE  DecidedOnce'
  <1>1. ASSUME NEW d \in Device, BeginPass(d)
        PROVE  DecidedOnce'
    BY <1>1 DEF BeginPass, DecidedOnce, TypeOK
  <1>2. ASSUME NEW d \in Device, Scan(d)
        PROVE  DecidedOnce'
    BY <1>2 DEF Scan, DecidedOnce, TypeOK
  <1>3. ASSUME NEW d \in Device, NEW m \in Move, Copy(d, m)
        PROVE  DecidedOnce'
    <2>1. cur' = cur \/ cur' = [cur EXCEPT ![d] = IF m.purge THEN m ELSE NoMove]
      BY <1>3, CopyEffect
    <2> QED BY <1>3, <2>1 DEF Copy, DecidedOnce, TypeOK
  <1>4. ASSUME NEW d \in Device, Purge(d)
        PROVE  DecidedOnce'
    BY <1>4 DEF Purge, DecidedOnce, TypeOK
  <1>5. ASSUME NEW d \in Device, Finish(d) \/ Abandon(d)
        PROVE  DecidedOnce'
    BY <1>5 DEF Finish, Abandon, EndPass, DecidedOnce, TypeOK
  <1>6. CASE UNCHANGED <<pc, plan, cur>>
    BY <1>6 DEF DecidedOnce
  <1> QED
    BY <1>1, <1>2, <1>3, <1>4, <1>5, <1>6
       DEF Next, PassStep, Save, Delete, ApplyTomb, Corrupt, vars

\* What PullsAreBehind says of one device and one of its pulls.
Behind(d, m) ==
    \A n \in Present(d) :
        n[2] = m.id /\ (m = cur[d] => n # <<m.date, m.id>>)
            => entries[d][n].created < newest[m.id]

\* A pull not yet made is behind whatever the directory holds of its id.
LEMMA PlannedBehind ==
    ASSUME TypeOK, DecidedOnce, PullsAreBehind,
           NEW d \in Device, NEW m \in plan[d], m.from = "remote"
    PROVE  \A n \in Present(d) : n[2] = m.id => entries[d][n].created < newest[m.id]
  <1>1. m # cur[d]
    BY SentinelAssumption DEF DecidedOnce, TypeOK
  <1> QED
    BY <1>1 DEF PullsAreBehind

\* A device that loses files and decisions keeps its pulls behind.
LEMMA StaysBehind ==
    ASSUME TypeOK, DecidedOnce, PullsAreBehind, NEW d \in Device,
           plan'[d] \subseteq plan[d],
           cur'[d] = cur[d] \/ cur'[d] = NoMove,
           \A n \in Name : entries'[d][n] \in {entries[d][n], NoFile},
           \A id \in Id : newest[id] <= newest'[id] /\ newest'[id] \in Nat,
           NEW m \in plan'[d] \cup ({cur'[d]} \ {NoMove}), m.from = "remote"
    PROVE  Behind(d, m)'
  <1>1. m \in Move
    BY DEF TypeOK
  <1>2. ASSUME NEW n \in Present(d)', n[2] = m.id, m = cur'[d] => n # <<m.date, m.id>>
        PROVE  entries'[d][n].created < newest'[m.id]
    <2>1. n \in Present(d) /\ entries'[d][n] = entries[d][n]
      BY <1>2 DEF Present
    <2>2. entries[d][n].created < newest[m.id]
      <3>1. CASE m \in plan'[d]
        BY <3>1, <2>1, <1>2, PlannedBehind
      <3>2. CASE m = cur'[d] /\ m # NoMove
        BY <3>2, <2>1, <1>2 DEF PullsAreBehind
      <3> QED BY <3>1, <3>2
    <2>3. entries[d][n].created \in Nat /\ newest[m.id] \in Nat /\ m.id \in Id
      BY <2>1, <1>1 DEF TypeOK, Present, Envelope, Dir, Move
    <2> QED BY <2>1, <2>2, <2>3
  <1> QED
    BY <1>2 DEF Behind

\* Every step leaves the decided pulls behind the latest save.
LEMMA BehindStep ==
    ASSUME TypeOK, TypeOK', Undisturbed, SuffixFree, AllSound, Stamped,
           DecidedOnce, PullsAreBehind, [Next]_vars
    PROVE  PullsAreBehind'
  <1>0. SUFFICES ASSUME NEW e \in Device,
                        NEW p \in plan'[e] \cup ({cur'[e]} \ {NoMove}), p.from = "remote"
                 PROVE  Behind(e, p)'
    BY DEF PullsAreBehind, Behind
  <1>1. ASSUME newest' = newest,
               plan'[e] \subseteq plan[e],
               cur'[e] = cur[e] \/ cur'[e] = NoMove,
               \A n \in Name : entries'[e][n] \in {entries[e][n], NoFile}
        PROVE  Behind(e, p)'
    <2>1. \A id \in Id : newest[id] <= newest'[id] /\ newest'[id] \in Nat
      BY <1>1 DEF TypeOK
    <2> QED BY <1>0, <1>1, <2>1, StaysBehind
  <1>2. ASSUME NEW d \in Device, NEW id \in Id, NEW date \in Date, Save(d, id, date)
        PROVE  Behind(e, p)'
    <2>0. /\ pc[d] = "idle"
          /\ now' = now + 1
          /\ newest' = [newest EXCEPT ![id] = Max2(@, now + 1)]
          /\ entries'[d][<<date, id>>] =
                [created |-> now + 1, by |-> d, form |-> "sound"]
          /\ \A x \in Dir, n \in Name :
                \/ x = d /\ n = <<date, id>>
                \/ entries'[x][n] = entries[x][n]
                \/ x = d /\ n[2] = id /\ entries'[x][n] = NoFile
      BY <1>2, SaveEffect
    <2>1. d # e
      <3>1. plan' = plan /\ cur' = cur
        BY <1>2 DEF Save
      <3>2. plan'[d] = {} /\ cur'[d] = NoMove
        BY <2>0, <3>1 DEF DecidedOnce
      <3> QED BY <1>0, <3>2
    <2>2. \A n \in Name : entries'[e][n] = entries[e][n]
      <3>1. e \in Dir
        BY DEF Dir
      <3> QED BY <2>0, <2>1, <3>1
    <2>3. plan' = plan /\ cur' = cur
      BY <1>2 DEF Save
    <2>4. \A i \in Id : newest[i] <= newest'[i] /\ newest'[i] \in Nat
      BY <2>0 DEF TypeOK, Max2
    <2> QED BY <1>0, <2>2, <2>3, <2>4, StaysBehind
  <1>3. ASSUME NEW d \in Device, NEW id \in Id, Delete(d, id) \/ ApplyTomb(d, id)
        PROVE  Behind(e, p)'
    <2>1. \A n \in Name : entries'[e][n] \in {entries[e][n], NoFile}
      <3>1. e \in Dir
        BY DEF Dir
      <3> QED BY <1>3, <3>1, DeleteEffect, ApplyTombEffect
    <2> QED BY <1>1, <1>3, <2>1 DEF Delete, ApplyTomb
  <1>4. ASSUME NEW d \in Device, Scan(d)
        PROVE  Behind(e, p)'
    <2>1. CASE d # e
      <3>1. plan'[e] = plan[e] /\ cur' = cur /\ entries' = entries /\ newest' = newest
        BY <1>4, <2>1 DEF Scan, TypeOK
      <3> QED BY <1>1, <3>1
    <2>2. CASE d = e
      <3>1. PICK lostL \in Faulty("read", Present(e)),
                 lostR \in Faulty("read", Present(Container)) :
              plan'[e] \subseteq Wanted(e, Seen(e, lostL, lostR))
        BY <1>4, <2>2 DEF Scan, TypeOK
      <3> DEFINE seen == Seen(e, lostL, lostR)
                 src == <<p.date, p.id>>
      <3>2. cur'[e] = NoMove /\ entries' = entries /\ newest' = newest
        BY <1>4, <2>2 DEF Scan, DecidedOnce
      <3>3. p \in Wanted(e, seen) /\ p \in Move
        BY <3>1, <3>2, <1>0 DEF Wanted
      <3>4. seen["local"] = Present(e) /\ seen["remote"] = Present(Container)
        <4>1. lostL = {} /\ lostR = {}
          BY FaultyNever DEF Undisturbed
        <4>2. \A x \in Dir : {n \in Present(x) \ {} : Trusted(entries[x][n])} = Present(x)
          BY DEF AllSound, Trusted
        <4> QED BY <4>1, <4>2 DEF Seen, Side, Place, Dir
      <3>5. /\ src \in Present(Container)
            /\ \A n \in Best(e, Present(e), p.id) :
                  entries[Container][src].created > entries[e][n].created
        BY <3>3, <3>4, <1>0 DEF Wanted, Best, Beats, Place, Opposite
      <3>6. entries[Container][src].created <= newest[p.id]
        BY <3>5 DEF Stamped, Dir
      <3>7. ASSUME NEW n \in Present(e), n[2] = p.id
            PROVE  entries[e][n].created < newest[p.id]
        <4>1. \A m \in Present(e) : entries[e][m].created \in Nat
          BY DEF TypeOK, Envelope, Present, Dir
        <4>2. entries[Container][src].created \in Nat /\ newest[p.id] \in Nat
          BY <3>3, <3>5 DEF TypeOK, Envelope, Present, Dir, Move
        <4>3. \A m \in Present(e) : m[2] = p.id => entries[e][m].created <= newest[p.id]
          BY DEF Stamped, Dir
        <4>4. CASE entries[e][n].created = newest[p.id]
          <5>1. n \in Best(e, Present(e), p.id)
            BY <3>7, <4>3, <4>4 DEF Best
          <5> QED BY <5>1, <3>5, <3>6, <4>1, <4>2, <4>4
        <4> QED BY <4>1, <4>2, <4>3, <4>4, <3>7
      <3> QED BY <3>2, <3>7 DEF Behind, Present
    <2> QED BY <2>1, <2>2
  <1>5. ASSUME NEW d \in Device, NEW m \in Move, Copy(d, m)
        PROVE  Behind(e, p)'
    <2>1. newest' = newest /\ plan' = [plan EXCEPT ![d] = @ \ {m}] /\ cur[d] = NoMove
             /\ m \in plan[d]
      BY <1>5 DEF Copy
    <2>2. cur' = cur \/ cur' = [cur EXCEPT ![d] = IF m.purge THEN m ELSE NoMove]
      BY <1>5, CopyEffect
    <2>3. e \in Dir /\ e # Container
      BY DirAssumption DEF Dir
    <2>4. ASSUME NEW n \in Name, entries'[e][n] # entries[e][n]
          PROVE  d = e /\ n = <<m.date, m.id>> /\ m.from = "remote"
      BY <1>5, <2>3, <2>4, CopyEffect DEF Place, Opposite, Move, Side
    <2>5. CASE d # e
      <3>1. plan'[e] = plan[e] /\ cur'[e] = cur[e]
        BY <2>1, <2>2, <2>5 DEF TypeOK
      <3> QED BY <1>1, <2>1, <2>4, <2>5, <3>1
    <2>6. CASE d = e
      <3>1. plan'[e] = plan[e] \ {m} /\ cur'[e] \in {m, NoMove}
        BY <2>1, <2>2, <2>6 DEF TypeOK
      <3>2. p \in plan[e] /\ p \in Move
        BY <3>1, <1>0, <2>1, <2>6 DEF TypeOK
      <3>3. ASSUME NEW n \in Present(e)', n[2] = p.id, p = cur'[e] => n # <<p.date, p.id>>
            PROVE  entries'[e][n].created < newest'[p.id]
        <4>1. n # <<m.date, m.id>>
          <5>1. CASE p = m
            BY <5>1, <3>1, <1>0, <3>3
          <5>2. CASE p # m
            BY <5>2, <3>2, <3>3, <2>1, <2>6 DEF DecidedOnce
          <5> QED BY <5>1, <5>2
        <4>2. n \in Name /\ entries'[e][n] = entries[e][n]
          BY <4>1, <2>4, <3>3 DEF Present
        <4>3. n \in Present(e)
          BY <4>2, <3>3 DEF Present
        <4> QED BY <4>2, <4>3, <3>2, <3>3, <1>0, <2>1, PlannedBehind
      <3> QED BY <3>3 DEF Behind
    <2> QED BY <2>5, <2>6
  <1>6. ASSUME NEW d \in Device, Purge(d)
        PROVE  Behind(e, p)'
    <2>1. \A n \in Name : entries'[e][n] \in {entries[e][n], NoFile}
      <3>1. e \in Dir
        BY DEF Dir
      <3> QED BY <1>6, <3>1, PurgeEffect
    <2> QED BY <1>1, <1>6, <2>1 DEF Purge, TypeOK
  <1>7. ASSUME NEW d \in Device, BeginPass(d) \/ Finish(d) \/ Abandon(d)
        PROVE  Behind(e, p)'
    <2>1. entries' = entries /\ newest' = newest
      BY <1>7, QuietEffect
    <2>2. plan'[e] \subseteq plan[e] /\ (cur'[e] = cur[e] \/ cur'[e] = NoMove)
      BY <1>7 DEF BeginPass, Finish, Abandon, EndPass, TypeOK
    <2> QED BY <1>1, <2>1, <2>2
  <1>8. CASE UNCHANGED vars
    BY <1>1, <1>8 DEF vars
  <1> QED
    BY <1>2, <1>3, <1>4, <1>5, <1>6, <1>7, <1>8
       DEF Next, PassStep, Corrupt, Undisturbed

\* What NewestSurvives asks for, at one place.
Latest(d, n) == /\ n \in Present(d)
                /\ entries[d][n].created = newest[n[2]]
                /\ entries[d][n].form = "sound"

\* Every step leaves the latest save of each id on some device.
LEMMA SurvivesStep ==
    ASSUME TypeOK, Undisturbed, SuffixFree, AllSound, Stamped, TombsDeleted,
           DecidedOnce, PullsAreBehind, NewestSurvives, [Next]_vars
    PROVE  NewestSurvives'
  <1>0. SUFFICES ASSUME NEW i \in Id, newest'[i] > 0, i \notin deleted'
                 PROVE  \E e \in Device, n \in Name : n[2] = i /\ Latest(e, n)'
    BY DEF NewestSurvives, Latest, Present, Name
  \* It is enough that some device's latest copy is not touched.
  <1>1. ASSUME newest'[i] = newest[i], i \notin deleted,
               \A e \in Device, n \in Name :
                  n[2] = i /\ Latest(e, n) => entries'[e][n] = entries[e][n]
        PROVE  \E e \in Device, n \in Name : n[2] = i /\ Latest(e, n)'
    <2>1. PICK e \in Device, date \in Date :
             LET f == entries[e][<<date, i>>]
             IN  f # NoFile /\ f.created = newest[i] /\ f.form = "sound"
      BY <1>0, <1>1 DEF NewestSurvives
    <2> DEFINE n == <<date, i>>
    <2>2. n \in Name /\ n[2] = i
      BY DEF Name
    <2> HIDE DEF n
    <2>3. Latest(e, n)
      BY <2>1, <2>2 DEF Latest, Present, n
    <2>4. Latest(e, n)'
      BY <2>2, <2>3, <1>1 DEF Latest, Present
    <2> QED BY <2>2, <2>4
  <1>2. ASSUME NEW d \in Device, NEW id \in Id, NEW date \in Date, Save(d, id, date)
        PROVE  \E e \in Device, n \in Name : n[2] = i /\ Latest(e, n)'
    <2>1. /\ newest' = [newest EXCEPT ![id] = Max2(@, now + 1)]
          /\ entries'[d][<<date, id>>] = [created |-> now + 1, by |-> d, form |-> "sound"]
          /\ \A x \in Dir, n \in Name :
                \/ x = d /\ n = <<date, id>>
                \/ entries'[x][n] = entries[x][n]
                \/ x = d /\ n[2] = id /\ entries'[x][n] = NoFile
      BY <1>2, SaveEffect
    <2>2. CASE i = id
      <3>1. newest'[id] = now + 1
        <4>1. newest[id] \in Nat /\ now \in Nat /\ newest[id] <= now
          BY DEF Stamped, TypeOK
        <4> QED BY <2>1, <4>1 DEF Max2, TypeOK
      <3>2. <<date, id>> \in Name /\ <<date, id>>[2] = i
        BY <2>2 DEF Name
      <3>3. entries'[d][<<date, id>>] # NoFile
        <4>1. [created |-> now + 1, by |-> d, form |-> "sound"] \in Envelope
          BY <1>2 DEF Save, Reading, Envelope, Form, Undisturbed, TypeOK
        <4> QED BY <2>1, <4>1, SentinelAssumption
      <3>4. Latest(d, <<date, id>>)'
        BY <2>1, <3>1, <3>2, <3>3 DEF Latest, Present
      <3> QED BY <3>2, <3>4
    <2>3. CASE i # id
      <3>1. newest'[i] = newest[i] /\ i \notin deleted
        BY <2>1, <2>3, <1>0, <1>2 DEF TypeOK, Save
      <3>2. ASSUME NEW e \in Device, NEW n \in Name, n[2] = i
            PROVE  entries'[e][n] = entries[e][n]
        BY <2>1, <2>3, <3>2 DEF Dir
      <3> QED BY <1>1, <3>1, <3>2
    <2> QED BY <2>2, <2>3
  <1>3. ASSUME NEW d \in Device, NEW id \in Id, Delete(d, id) \/ ApplyTomb(d, id)
        PROVE  \E e \in Device, n \in Name : n[2] = i /\ Latest(e, n)'
    <2>1. newest' = newest /\ i \notin deleted /\ i # id
      <3>1. CASE Delete(d, id)
        BY <3>1, <1>0 DEF Delete
      <3>2. CASE ApplyTomb(d, id)
        BY <3>2, <1>0 DEF ApplyTomb, TombsDeleted
      <3> QED BY <1>3, <3>1, <3>2
    <2>2. \A e \in Device, n \in Name : n[2] = i => entries'[e][n] = entries[e][n]
      BY <2>1, <1>3, DeleteEffect, ApplyTombEffect DEF Dir
    <2> QED BY <1>1, <2>1, <2>2
  <1>4. ASSUME NEW d \in Device, NEW m \in Move, Copy(d, m)
        PROVE  \E e \in Device, n \in Name : n[2] = i /\ Latest(e, n)'
    <2>1. newest' = newest /\ deleted' = deleted /\ m \in plan[d]
      BY <1>4 DEF Copy
    <2>2. ASSUME NEW e \in Device, NEW n \in Name, Latest(e, n),
                 entries'[e][n] # entries[e][n]
          PROVE  FALSE
      <3>1. e = d /\ n = <<m.date, m.id>> /\ m.from = "remote"
        <4>1. e \in Dir /\ e # Container
          BY DirAssumption DEF Dir
        <4>2. e = Place(d, Opposite(m.from)) /\ n = <<m.date, m.id>>
          BY <1>4, <2>2, <4>1, CopyEffect
        <4> QED BY <4>1, <4>2 DEF Place, Opposite, Move, Side
      <3>2. n \in Present(d) /\ n[2] = m.id
        BY <3>1, <2>2 DEF Latest
      <3>3. entries[d][n].created < newest[m.id]
        BY <3>1, <3>2, <2>1, PlannedBehind
      <3>4. newest[m.id] \in Nat
        BY DEF TypeOK, Move
      <3> QED BY <3>1, <3>2, <3>3, <3>4, <2>2 DEF Latest
    <2> QED BY <1>0, <1>1, <2>1, <2>2
  <1>5. ASSUME NEW d \in Device, Purge(d)
        PROVE  \E e \in Device, n \in Name : n[2] = i /\ Latest(e, n)'
    <2>1. newest' = newest /\ deleted' = deleted /\ cur[d] # NoMove
      BY <1>5 DEF Purge
    <2>2. cur[d] \in Move
      BY <2>1 DEF TypeOK
    <2>3. ASSUME NEW e \in Device, NEW n \in Name, Latest(e, n),
                 entries'[e][n] # entries[e][n]
          PROVE  FALSE
      <3>1. /\ e = Place(d, Opposite(cur[d].from))
            /\ n[2] = cur[d].id
            /\ n # <<cur[d].date, cur[d].id>>
        BY <1>5, <2>3, PurgeEffect DEF Dir
      <3>2. e = d /\ cur[d].from = "remote"
        BY <3>1, <2>2, DirAssumption DEF Place, Opposite, Move, Side
      <3>3. entries[d][n].created < newest[cur[d].id]
        BY <3>1, <3>2, <2>1, <2>3 DEF PullsAreBehind, Latest
      <3>4. newest[cur[d].id] \in Nat
        BY <2>2 DEF TypeOK, Move
      <3> QED BY <3>1, <3>2, <3>3, <3>4, <2>3 DEF Latest
    <2> QED BY <1>0, <1>1, <2>1, <2>3
  <1>6. ASSUME NEW d \in Device, BeginPass(d) \/ Scan(d) \/ Finish(d) \/ Abandon(d)
        PROVE  \E e \in Device, n \in Name : n[2] = i /\ Latest(e, n)'
    BY <1>0, <1>1, <1>6, QuietEffect
  <1>7. CASE UNCHANGED vars
    BY <1>0, <1>1, <1>7 DEF vars
  <1> QED
    BY <1>2, <1>3, <1>4, <1>5, <1>6, <1>7
       DEF Next, PassStep, Corrupt, Undisturbed

-----------------------------------------------------------------------------
\* The invariant is inductive, in the environment described above.
THEOREM Inductive ==
    ASSUME Undisturbed, SuffixFree
    PROVE  Spec => []IInv
  <1>1. Init => IInv
    <2> SUFFICES ASSUME Init PROVE IInv
      OBVIOUS
    <2>1. TypeOK
      BY BoundAssumption DEF Init, TypeOK
    <2>2. \A x \in Dir : Present(x) = {}
      BY DEF Init, Present
    <2> QED
      BY <2>1, <2>2, BoundAssumption
         DEF Init, IInv, AllSound, Stamped, TombsDeleted, DecidedOnce,
             PullsAreBehind, NewestSurvives, Dir
  <1>2. TypeOK' /\ IInv /\ [Next]_vars => IInv'
    BY FilesStep, TombsStep, DecidedStep, BehindStep, SurvivesStep DEF IInv
  <1> QED
    BY <1>1, <1>2, TypeCorrect, PTL DEF Spec

\* No save is lost while its entry is not deleted: whatever the passes of the
\* devices do to each other, some device keeps the latest version of every
\* id (reconcile_with's "newest created wins").
THEOREM NoSaveIsLost ==
    ASSUME Undisturbed, SuffixFree
    PROVE  Spec => []NewestSurvives
  <1>1. IInv => NewestSurvives
    BY DEF IInv
  <1> QED
    BY <1>1, Inductive, PTL

\* A pull that is decided stays harmless until it is made and purged after.
THEOREM PullsStayBehind ==
    ASSUME Undisturbed, SuffixFree
    PROVE  Spec => []PullsAreBehind
  <1>1. IInv => PullsAreBehind
    BY DEF IInv
  <1> QED
    BY <1>1, Inductive, PTL
=============================================================================
