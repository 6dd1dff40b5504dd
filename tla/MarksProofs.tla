---------------------------- MODULE MarksProofs ----------------------------
(***************************************************************************)
(* What holds of Marks for any number of devices, deletes and failures.    *)
(***************************************************************************)
EXTENDS Marks, TLAPS

\* What a device is doing in its own directory is its business alone: the temp
\* it has open stays under its name, the temp it renames is the one it wrote,
\* and the marker it goes to replace is no later than its stamp.
OwnDirectory(d) ==
    left[d] # <<>> /\ Here(d) = d =>
        /\ pc[d] \in {"open", "write", "rename"} => Stamp(d) <= at[d]
        /\ pc[d] = "write" => fd[d] = "temp"
        /\ pc[d] = "rename" => temp[d] = at[d]

IInv == TypeOK /\ \A d \in Device : OwnDirectory(d)

-----------------------------------------------------------------------------
\* What the lists of directories look like, and what is left of them.
LEMMA Lists ==
    ASSUME TypeOK, NEW d \in Device, pc[d] # "idle"
    PROVE  /\ left[d] # <<>>
           /\ Here(d) \in {d, Container}
           /\ Here(d) \in Dir
           /\ Tail(left[d]) \in {<<>>, <<Container>>}
           /\ Tail(left[d]) \in Seq(Dir)
           /\ Len(left[d]) = 1 <=> Tail(left[d]) = <<>>
<1>1. left[d] \in {<<d>>, <<d, Container>>, <<Container>>}
  BY DEF TypeOK
<1>2. CASE left[d] = <<d>>
  BY <1>2 DEF Here, Dir
<1>3. CASE left[d] = <<d, Container>>
  BY <1>3 DEF Here, Dir
<1>4. CASE left[d] = <<Container>>
  BY <1>4 DEF Here, Dir
<1> QED
  BY <1>1, <1>2, <1>3, <1>4

\* A stamp is a number.
LEMMA StampIsText ==
    ASSUME TypeOK, NEW x \in Dir
    PROVE  Stamp(x) \in Text
  BY BoundAssumption DEF TypeOK, Stamp, Text, Empty

\* A call that returns leaves its device at the next directory, or idle, and
\* the other devices where they were.
LEMMA ReturnMovesOn ==
    ASSUME TypeOK, NEW d \in Device, pc[d] # "idle", Return(d)
    PROVE  /\ left' \in [Device -> Seq(Dir)]
           /\ pc' \in [Device -> {"idle", "check", "open", "write", "rename"}]
           /\ left'[d] \in {<<>>, <<Container>>}
           /\ pc'[d] \in {"idle", "check"}
           /\ pc'[d] = "idle" <=> left'[d] = <<>>
           /\ \A e \in Device \ {d} : pc'[e] = pc[e] /\ left'[e] = left[e]
<1>1. left \in [Device -> Seq(Dir)] /\ pc \in [Device -> {"idle", "check", "open", "write", "rename"}]
  BY DEF TypeOK
<1>2. /\ left'[d] = Tail(left[d])
      /\ pc'[d] = IF Len(left[d]) = 1 THEN "idle" ELSE "check"
      /\ \A e \in Device \ {d} : pc'[e] = pc[e] /\ left'[e] = left[e]
  BY <1>1 DEF Return
<1>3. left' \in [Device -> Seq(Dir)]
  BY <1>1, Lists DEF Return
<1> QED
  BY <1>1, <1>2, <1>3, Lists DEF Return

\* In the beginning no device is in any directory.
LEMMA InitGood == Init => IInv
  BY SentinelAssumption, BoundAssumption DEF Init, IInv, TypeOK, OwnDirectory, Text, Empty

-----------------------------------------------------------------------------
\* Every step keeps the type invariant.
LEMMA TypeStep ==
    ASSUME TypeOK, [Next]_vars
    PROVE  TypeOK'
<1> USE DEF Empty
<1>1. ASSUME NEW d \in Device, Delete(d)
      PROVE TypeOK'
  BY <1>1, BoundAssumption DEF Delete, MayBegin, Start, TypeOK, Text, Dir
<1>2. ASSUME NEW d \in Device, BeginPass(d)
      PROVE TypeOK'
  <2>1. Stamp(d) \in Text /\ Stamp(Container) \in Text
    BY StampIsText DEF Dir
  <2>2. Latest(Stamp(d), Stamp(Container)) \in Text \ {Empty}
    BY <1>2, <2>1, BoundAssumption DEF BeginPass, Readable, Latest, Text
  <2> QED
    BY <1>2, <2>2 DEF BeginPass, MayBegin, Start, TypeOK, Dir
<1>3. ASSUME NEW d \in Device, Check(d)
      PROVE TypeOK'
  <2>1. CASE Return(d)
    BY <1>3, <2>1, ReturnMovesOn DEF Check, TypeOK
  <2>2. CASE pc' = [pc EXCEPT ![d] = "open"] /\ UNCHANGED left
    BY <1>3, <2>2 DEF Check, TypeOK
  <2> QED
    BY <1>3, <2>1, <2>2 DEF Check
<1>4. ASSUME NEW d \in Device, Open(d)
      PROVE TypeOK'
  <2>1. Empty \in Text
    BY BoundAssumption DEF Text
  <2>2. temp' \in [Dir -> Text \cup {NoFile}]
    BY <1>4, <2>1 DEF Open, TypeOK
  <2> QED
    BY <1>4, <2>2 DEF Open, TypeOK
<1>5. ASSUME NEW d \in Device, OpenFails(d)
      PROVE TypeOK'
  <2>1. faults' \in 0 .. MaxFaults
    BY <1>5, BoundAssumption DEF OpenFails, Spend, TypeOK
  <2> QED
    BY <1>5, <2>1, ReturnMovesOn DEF OpenFails, TypeOK
<1>6. ASSUME NEW d \in Device, Write(d)
      PROVE TypeOK'
  <2>1. /\ temp' \in [Dir -> Text \cup {NoFile}]
        /\ tomb' \in [Dir -> Text \cup {NoFile}]
    BY <1>6 DEF Write, TypeOK
  <2> QED
    BY <1>6, <2>1 DEF Write, TypeOK
<1>7. ASSUME NEW d \in Device, Rename(d)
      PROVE TypeOK'
  <2>1. Here(d) \in Dir /\ Return(d) /\ pc[d] # "idle"
    BY <1>7, Lists DEF Rename
  <2>2. /\ temp' \in [Dir -> Text \cup {NoFile}]
        /\ tomb' \in [Dir -> Text \cup {NoFile}]
    BY <1>7, <2>1 DEF Rename, TypeOK
  <2>3. fd' \in [Device -> {"closed", "temp", "tomb", "unlinked"}]
    BY <1>7 DEF Rename, Renamed, TypeOK
  <2> QED
    BY <1>7, <2>1, <2>2, <2>3, ReturnMovesOn DEF Rename, TypeOK
<1>8. ASSUME NEW d \in Device, Crash(d)
      PROVE TypeOK'
  <2>1. faults' \in 0 .. MaxFaults
    BY <1>8, BoundAssumption DEF Crash, Spend, TypeOK
  <2> QED
    BY <1>8, <2>1 DEF Crash, TypeOK
<1>9. CASE UNCHANGED vars
  BY <1>9 DEF vars, TypeOK
<1> QED
  BY <1>1, <1>2, <1>3, <1>4, <1>5, <1>6, <1>7, <1>8, <1>9 DEF Next, MarkStep

-----------------------------------------------------------------------------
\* A step of a device, whichever it is.
StepOf(d) == Delete(d) \/ BeginPass(d) \/ MarkStep(d) \/ OpenFails(d) \/ Crash(d)

\* Every step but a stutter is one.
LEMMA StepIsSomeones ==
    ASSUME [Next]_vars
    PROVE  (\E d \in Device : StepOf(d)) \/ UNCHANGED vars
  BY DEF Next, StepOf

\* It leaves every other device where it is, and its directory as it is; only
\* the file another device has open in the container may change its name.
LEMMA OthersStay ==
    ASSUME TypeOK, NEW d \in Device, StepOf(d), NEW e \in Device, e # d
    PROVE  /\ pc'[e] = pc[e] /\ at'[e] = at[e] /\ left'[e] = left[e]
           /\ tomb'[e] = tomb[e] /\ temp'[e] = temp[e]
           /\ left[e] # <<>> /\ Here(e) = e => fd'[e] = fd[e]
<1>1. e # Container /\ e \in Dir
  BY DirAssumption DEF Dir
<1>2. pc[d] # "idle" => Here(d) # e
  BY <1>1, Lists
<1>3. CASE Delete(d)
  BY <1>3 DEF Delete, Start, TypeOK
<1>4. CASE BeginPass(d)
  BY <1>4 DEF BeginPass, Start, TypeOK
<1>5. CASE Check(d)
  BY <1>5, ReturnMovesOn DEF Check, TypeOK
<1>6. CASE Open(d)
  BY <1>1, <1>2, <1>6 DEF Open, TypeOK
<1>7. CASE Write(d)
  BY <1>1, <1>2, <1>7 DEF Write, TypeOK
<1>8. CASE Rename(d)
  <2>1. tomb'[e] = tomb[e] /\ temp'[e] = temp[e]
    BY <1>1, <1>2, <1>8 DEF Rename, TypeOK
  <2>2. Here(e) = e => fd'[e] = fd[e]
    BY <1>2, <1>8 DEF Rename, Renamed
  <2> QED
    BY <1>8, <2>1, <2>2, ReturnMovesOn DEF Rename
<1>9. CASE OpenFails(d)
  BY <1>9, ReturnMovesOn DEF OpenFails
<1>10. CASE Crash(d)
  BY <1>10 DEF Crash, TypeOK
<1> QED
  BY <1>3, <1>4, <1>5, <1>6, <1>7, <1>8, <1>9, <1>10 DEF StepOf, MarkStep

\* A call that returns is done with the directory it was in: it has the
\* container left, or nothing.
LEMMA ReturnLeaves ==
    ASSUME TypeOK, NEW d \in Device, pc[d] # "idle", Return(d)
    PROVE  OwnDirectory(d)'
<1>1. pc'[d] \in {"idle", "check"}
  BY ReturnMovesOn
<1> QED
  BY <1>1 DEF OwnDirectory

\* Every step of a device keeps what is said of its own directory.
LEMMA OwnStep ==
    ASSUME IInv, NEW d \in Device, StepOf(d)
    PROVE  OwnDirectory(d)'
<1>0. TypeOK /\ OwnDirectory(d)
  BY DEF IInv
<1>1. CASE Delete(d)
  BY <1>0, <1>1 DEF Delete, Start, OwnDirectory, TypeOK
<1>2. CASE BeginPass(d)
  BY <1>0, <1>2 DEF BeginPass, Start, OwnDirectory, TypeOK
<1>3. CASE Check(d)
  <2>1. CASE Settled(Here(d), at[d])
    BY <1>0, <1>3, <2>1, ReturnLeaves DEF Check
  <2>2. CASE ~ Settled(Here(d), at[d])
    <3>1. pc' = [pc EXCEPT ![d] = "open"] /\ UNCHANGED <<left, tomb, at>>
      BY <1>3, <2>2 DEF Check
    <3>2. d \in Dir
      BY DEF Dir
    <3>3. Here(d) = d => Stamp(d) <= at[d]
      BY <1>0, <2>2, <3>2, BoundAssumption, SentinelAssumption
         DEF Settled, Stamp, TypeOK, Text, Empty
    <3> QED
      BY <1>0, <3>1, <3>3 DEF OwnDirectory, Here, Stamp, TypeOK
  <2> QED
    BY <2>1, <2>2
<1>4. CASE Open(d)
  BY <1>0, <1>4 DEF Open, OwnDirectory, Here, Stamp, TypeOK
<1>5. CASE Write(d)
  <2>1. d \in Dir
    BY DEF Dir
  <2>2. Here(d) = d =>
            fd[d] = "temp" /\ Stamp(d) <= at[d] /\ temp'[d] = at[d] /\ tomb' = tomb
    BY <1>0, <1>5, <2>1, Lists DEF Write, OwnDirectory, TypeOK
  <2> QED
    BY <1>0, <1>5, <2>2 DEF Write, OwnDirectory, Here, Stamp, TypeOK
<1>6. CASE Rename(d)
  BY <1>0, <1>6, ReturnLeaves DEF Rename
<1>7. CASE OpenFails(d)
  BY <1>0, <1>7, ReturnLeaves DEF OpenFails
<1>8. CASE Crash(d)
  BY <1>0, <1>8 DEF Crash, OwnDirectory, TypeOK
<1> QED
  BY <1>1, <1>2, <1>3, <1>4, <1>5, <1>6, <1>7, <1>8 DEF StepOf, MarkStep

\* The invariant is inductive.
LEMMA StepGood == IInv /\ [Next]_vars => IInv'
<1> SUFFICES ASSUME IInv, [Next]_vars PROVE IInv'
  OBVIOUS
<1>1. TypeOK'
  BY TypeStep DEF IInv
<1>2. ASSUME NEW d \in Device, StepOf(d), NEW e \in Device
      PROVE OwnDirectory(e)'
  <2>1. CASE e = d
    BY <1>2, <2>1, OwnStep
  <2>2. CASE e # d
    BY <1>2, <2>2, OthersStay DEF IInv, OwnDirectory, Here, Stamp
  <2> QED
    BY <2>1, <2>2
<1>3. CASE UNCHANGED vars
  BY <1>1, <1>3 DEF IInv, OwnDirectory, Here, Stamp, vars
<1> QED
  BY <1>1, <1>2, <1>3, StepIsSomeones DEF IInv

-----------------------------------------------------------------------------
\* No step of any device takes a device's own marker back.
LEMMA AdvancesStep ==
    ASSUME IInv, [Next]_vars, NEW d \in Device
    PROVE  Stamp(d)' >= Stamp(d)
<1>0. TypeOK /\ OwnDirectory(d) /\ d \in Dir
  BY DEF IInv, Dir
<1>1. Stamp(d) \in Nat /\ Stamp(d) >= Stamp(d)
  BY <1>0, StampIsText, BoundAssumption DEF Text, Empty
<1>2. CASE tomb'[d] = tomb[d]
  BY <1>1, <1>2 DEF Stamp
<1>3. ASSUME Write(d), tomb'[d] # tomb[d]
      PROVE FALSE
  <2>1. pc[d] = "write" /\ Here(d) = d /\ fd[d] = "tomb"
    BY <1>0, <1>3, Lists DEF Write, TypeOK
  <2> QED
    BY <1>0, <2>1, Lists DEF OwnDirectory
<1>4. ASSUME Rename(d), tomb'[d] # tomb[d]
      PROVE Stamp(d)' >= Stamp(d)
  <2>1. pc[d] = "rename" /\ Here(d) = d /\ tomb'[d] = temp[d]
    BY <1>0, <1>4, Lists DEF Rename, TypeOK
  <2>2. temp[d] = at[d] /\ Stamp(d) <= at[d]
    BY <1>0, <2>1, Lists DEF OwnDirectory
  <2>3. at[d] \in Text /\ at[d] # NoFile
    BY <1>0, SentinelAssumption DEF TypeOK
  <2>4. Stamp(d)' = at[d]
    BY <2>1, <2>2, <2>3 DEF Stamp
  <2> QED
    BY <1>1, <2>2, <2>3, <2>4, BoundAssumption DEF Text, Empty
<1>5. ASSUME NEW e \in Device, StepOf(e)
      PROVE Stamp(d)' >= Stamp(d)
  <2>1. CASE e # d
    BY <1>0, <1>2, <1>5, <2>1, OthersStay
  <2>2. CASE e = d /\ (Write(d) \/ Rename(d))
    BY <1>2, <1>3, <1>4, <2>2
  <2>3. CASE e = d /\ ~ (Write(d) \/ Rename(d))
    BY <1>2, <1>5, <2>3
       DEF StepOf, MarkStep, Delete, BeginPass, Start, Check, Open, OpenFails, Crash
  <2> QED
    BY <2>1, <2>2, <2>3
<1> QED
  BY <1>2, <1>5, StepIsSomeones DEF vars

\* Where all markers agree, only a new delete changes that.
LEMMA QuietStep ==
    ASSUME TypeOK, [Next]_vars, Agreed, now' = now
    PROVE  Agreed'
<1>1. PICK s \in 1 .. MaxStamp :
        /\ \A x \in Dir : tomb[x] = s
        /\ \A d \in Device : pc[d] \in {"idle", "check"} /\ (pc[d] = "check" => at[d] = s)
  BY DEF Agreed
<1>2. s \in Text /\ s # NoFile /\ s \in Nat /\ s # Empty
  BY BoundAssumption, SentinelAssumption DEF Text, Empty
<1>3. \A x \in Dir : Stamp(x) = s
  BY <1>1, <1>2 DEF Stamp
<1> DEFINE Calm == /\ tomb' = tomb
                   /\ \A d \in Device : /\ pc'[d] \in {"idle", "check"}
                                        /\ pc'[d] = "check" => at'[d] = s
<1>4. ASSUME NEW d \in Device, StepOf(d)
      PROVE Calm
  <2>1. ~ Delete(d)
    BY BoundAssumption DEF Delete, TypeOK
  <2>2. CASE BeginPass(d)
    <3>1. Latest(Stamp(d), Stamp(Container)) = s
      BY <1>2, <1>3 DEF Latest, Dir
    <3> QED
      BY <1>1, <2>2, <3>1 DEF BeginPass, Start, TypeOK
  <2>3. CASE Check(d)
    <3>1. pc[d] # "idle" /\ at[d] = s /\ tomb[Here(d)] = s
      BY <1>1, <2>3, Lists DEF Check
    <3>2. Settled(Here(d), at[d])
      BY <1>2, <3>1 DEF Settled
    <3>3. Return(d) /\ UNCHANGED <<tomb, at>>
      BY <2>3, <3>2 DEF Check
    <3> QED
      BY <1>1, <3>1, <3>3, ReturnMovesOn
  <2>4. CASE Crash(d)
    BY <1>1, <2>4 DEF Crash, TypeOK
  <2> QED
    BY <1>1, <1>4, <2>1, <2>2, <2>3, <2>4
       DEF StepOf, MarkStep, Open, Write, Rename, OpenFails
<1>5. ASSUME UNCHANGED vars
      PROVE Calm
  BY <1>1, <1>5 DEF vars
<1>6. Calm
  BY <1>4, <1>5, StepIsSomeones
<1>7. /\ \A x \in Dir : tomb'[x] = s
      /\ \A d \in Device : pc'[d] \in {"idle", "check"} /\ (pc'[d] = "check" => at'[d] = s)
  BY <1>1, <1>6
<1> QED
  BY <1>7 DEF Agreed

-----------------------------------------------------------------------------
\* The state of Marks always has its type.
THEOREM TypeCorrect == Spec => []TypeOK
<1>1. IInv => TypeOK
  BY DEF IInv
<1> QED
  BY <1>1, InitGood, StepGood, PTL DEF Spec

\* However many devices mark the container at one time, and wherever their
\* calls end, a device never loses or sets back a deletion it has a marker of:
\* mark's rename is safe in a directory that only one device writes.
THEOREM MarkersNeverGoBack == Spec => OnlyAdvances
<1>1. IInv /\ [Next]_vars => [\A d \in Device : Stamp(d)' >= Stamp(d)]_vars
  BY AdvancesStep
<1> QED
  BY <1>1, InitGood, StepGood, PTL DEF Spec, OnlyAdvances

\* Once all directories hold one stamp, passes and failures leave them alone
\* until an entry is deleted again.
THEOREM AgreementIsQuiet == Spec => QuietOnceAgreed
<1>1. IInv /\ [Next]_vars => [Agreed /\ now' = now => Agreed']_vars
  BY QuietStep DEF IInv
<1> QED
  BY <1>1, InitGood, StepGood, PTL DEF Spec, QuietOnceAgreed
=============================================================================
