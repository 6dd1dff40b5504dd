-------------------------------- MODULE Marks --------------------------------
(***************************************************************************)
(* The tombstone of one id, "<id>.tomb", in the directory of each device   *)
(* and in the container, system call by system call: mark, read_all and    *)
(* reconcile_pair (tombstone.rs), called by delete_entry (store.rs) and by *)
(* every pass.  Sync takes `mark` as one step and forgets the stamp.       *)
(*                                                                         *)
(* mark writes a temp file with a fixed name and renames it.  Two devices  *)
(* that mark the container at one time share that temp, so a file that is  *)
(* open is followed through renames.  atomic_copy (sync.rs) and            *)
(* atomic_write (store.rs) are the same protocol on an envelope.           *)
(***************************************************************************)
EXTENDS Naturals, Sequences

CONSTANTS
    Device, Container,
    MaxStamp,   \* bound: how many deletes are asked for
    Env,        \* "overlap": marks of two devices may interleave; "crash": a
                \* call ends early; "write": a temp cannot be written
    MaxFaults,  \* bound: how many things go wrong in one behaviour
    NoFile

Dir == Device \cup {Container}

ASSUME DirAssumption   == Container \notin Device
ASSUME BoundAssumption == MaxStamp \in Nat /\ MaxFaults \in Nat
ASSUME EnvAssumption   == Env \subseteq {"overlap", "crash", "write"}

\* What a file holds: the instant of a delete, or nothing yet.
Empty == 0
Text  == Empty .. MaxStamp

ASSUME SentinelAssumption == NoFile \notin Text

VARIABLES
    tomb,    \* directory -> what "<id>.tomb" holds, or NoFile
    temp,    \* directory -> what "<id>.tomb.tmp" holds, or NoFile
    now,     \* the latest clock reading a delete has taken
    pc,      \* device -> where it is in mark
    at,      \* device -> the stamp it marks with
    left,    \* device -> the directories it has still to mark, in order
    fd,      \* device -> the name its open file has by now
    faults   \* how many things went wrong so far

vars == <<tomb, temp, now, pc, at, left, fd, faults>>

TypeOK ==
    /\ tomb \in [Dir -> Text \cup {NoFile}]
    /\ temp \in [Dir -> Text \cup {NoFile}]
    /\ now \in 0 .. MaxStamp
    /\ pc \in [Device -> {"idle", "check", "open", "write", "rename"}]
    /\ at \in [Device -> Text]
    /\ left \in [Device -> Seq(Dir)]
    /\ \A d \in Device :
         /\ left[d] \in {<<>>, <<d>>, <<d, Container>>, <<Container>>}
         /\ pc[d] = "idle" <=> left[d] = <<>>
         /\ pc[d] # "idle" => at[d] # Empty
    /\ fd \in [Device -> {"closed", "temp", "tomb", "unlinked"}]
    /\ faults \in 0 .. MaxFaults

Init ==
    /\ tomb = [x \in Dir |-> NoFile]
    /\ temp = [x \in Dir |-> NoFile]
    /\ now = 0
    /\ pc = [d \in Device |-> "idle"]
    /\ at = [d \in Device |-> Empty]
    /\ left = [d \in Device |-> <<>>]
    /\ fd = [d \in Device |-> "closed"]
    /\ faults = 0

-----------------------------------------------------------------------------
\* The stamp read_all finds in a directory: an empty marker is none.
Stamp(x) == IF tomb[x] = NoFile THEN Empty ELSE tomb[x]

ReadableIfThere(x) == tomb[x] # NoFile

Readable(x) == Stamp(x) # Empty

Latest(a, b) == IF a >= b THEN a ELSE b

Spend == faults < MaxFaults /\ faults' = faults + 1

MayBegin(d) ==
    pc[d] = "idle" /\ ("overlap" \in Env \/ \A e \in Device : pc[e] = "idle")

Start(d, stamp, dirs) ==
    /\ pc' = [pc EXCEPT ![d] = "check"]
    /\ at' = [at EXCEPT ![d] = stamp]
    /\ left' = [left EXCEPT ![d] = dirs]
    /\ UNCHANGED <<tomb, temp, fd, faults>>

\* delete_entry ends with a mark in the device's own directory.
Delete(d) ==
    /\ MayBegin(d)
    /\ now < MaxStamp
    /\ now' = now + 1
    /\ Start(d, now + 1, <<d>>)

\* reconcile_pair takes the later stamp of both sides and marks both with it.
BeginPass(d) ==
    /\ MayBegin(d)
    /\ Readable(d) \/ Readable(Container)
    /\ Start(d, Latest(Stamp(d), Stamp(Container)), <<d, Container>>)
    /\ UNCHANGED now

\* The call returns, well or not: its callers drop the result.
Return(d) ==
    /\ left' = [left EXCEPT ![d] = Tail(@)]
    /\ pc' = [pc EXCEPT ![d] = IF Len(left[d]) = 1 THEN "idle" ELSE "check"]

-----------------------------------------------------------------------------
(* mark, in the directory that is next.                                    *)

Here(d) == Head(left[d])

SettledIfThere(x, stamp) == tomb[x] # NoFile

SettledIfNewer(x, stamp) == tomb[x] # NoFile /\ tomb[x] > stamp

\* An equal or newer stamp is left alone.
Settled(x, stamp) == tomb[x] # NoFile /\ tomb[x] >= stamp

Check(d) ==
    /\ pc[d] = "check"
    /\ IF Settled(Here(d), at[d])
       THEN Return(d)
       ELSE pc' = [pc EXCEPT ![d] = "open"] /\ UNCHANGED left
    /\ UNCHANGED <<tomb, temp, now, at, fd, faults>>

OpenInPlace(d) ==
    /\ pc[d] = "open"
    /\ tomb' = [tomb EXCEPT ![Here(d)] = Empty]
    /\ fd' = [fd EXCEPT ![d] = "tomb"]
    /\ pc' = [pc EXCEPT ![d] = "write"]
    /\ UNCHANGED <<temp, now, at, left, faults>>

\* fs::write creates the temp, or truncates the one that is there.
Open(d) ==
    /\ pc[d] = "open"
    /\ temp' = [temp EXCEPT ![Here(d)] = Empty]
    /\ fd' = [fd EXCEPT ![d] = "temp"]
    /\ pc' = [pc EXCEPT ![d] = "write"]
    /\ UNCHANGED <<tomb, now, at, left, faults>>

OpenFails(d) ==
    /\ "write" \in Env
    /\ pc[d] = "open"
    /\ Return(d)
    /\ Spend
    /\ UNCHANGED <<tomb, temp, now, at, fd>>

\* ... and then writes, wherever its file is by now.
Write(d) ==
    /\ pc[d] = "write"
    /\ temp' = IF fd[d] = "temp" THEN [temp EXCEPT ![Here(d)] = at[d]] ELSE temp
    /\ tomb' = IF fd[d] = "tomb" THEN [tomb EXCEPT ![Here(d)] = at[d]] ELSE tomb
    /\ fd' = [fd EXCEPT ![d] = "closed"]
    /\ pc' = [pc EXCEPT ![d] = "rename"]
    /\ UNCHANGED <<now, at, left, faults>>

\* The name a file has after a rename of x's temp over x's marker.
Renamed(d, x) ==
    IF left[d] = <<>> \/ Here(d) # x THEN fd[d]
    ELSE CASE fd[d] = "temp" -> "tomb"
           [] fd[d] = "tomb" -> "unlinked"
           [] OTHER          -> fd[d]

\* The temp is gone if another device's rename came first; what is renamed is
\* whatever it holds.
Rename(d) ==
    LET x == Here(d)
    IN  /\ pc[d] = "rename"
        /\ IF temp[x] = NoFile
           THEN UNCHANGED <<tomb, temp, fd>>
           ELSE /\ tomb' = [tomb EXCEPT ![x] = temp[x]]
                /\ temp' = [temp EXCEPT ![x] = NoFile]
                /\ fd' = [e \in Device |-> Renamed(e, x)]
        /\ Return(d)
        /\ UNCHANGED <<now, at, faults>>

\* The process ends.
Crash(d) ==
    /\ "crash" \in Env
    /\ pc[d] # "idle"
    /\ Spend
    /\ pc' = [pc EXCEPT ![d] = "idle"]
    /\ left' = [left EXCEPT ![d] = <<>>]
    /\ fd' = [fd EXCEPT ![d] = "closed"]
    /\ UNCHANGED <<tomb, temp, now, at>>

MarkStep(d) == Check(d) \/ Open(d) \/ Write(d) \/ Rename(d)

Next ==
    \E d \in Device :
        Delete(d) \/ BeginPass(d) \/ MarkStep(d) \/ OpenFails(d) \/ Crash(d)

Spec == Init /\ [][Next]_vars

\* Devices keep asking for passes, and a call once begun runs on.
Fairness ==
    \A d \in Device : SF_vars(BeginPass(d)) /\ WF_vars(MarkStep(d))

FairSpec == Spec /\ Fairness

-----------------------------------------------------------------------------
\* A device never forgets a deletion it has a marker of, nor goes back to an
\* earlier one: whatever the others do in the container and wherever a call of
\* its own ends, its directory shows a stamp at every instant ("atomic via
\* temp + rename").  The container's marker does go back, and is empty at
\* times.
OnlyAdvances == [][\A d \in Device : Stamp(d)' >= Stamp(d)]_vars

\* All directories hold one stamp, and no call is about to write another.
Agreed ==
    \E s \in 1 .. MaxStamp :
        /\ \A x \in Dir : tomb[x] = s
        /\ \A d \in Device : pc[d] \in {"idle", "check"} /\ (pc[d] = "check" => at[d] = s)

\* "Idempotent": where all markers agree, no pass writes one again.
QuietOnceAgreed == [][Agreed /\ now' = now => Agreed']_vars

\* At most one call is under way.
Solo == \A d, e \in Device : pc[d] # "idle" /\ pc[e] # "idle" => d = e

\* Devices that stamp one deletion with different instants, overwrite each
\* other's marker in the container, publish each other's temp half-written or
\* end in the middle of it: once their calls no longer overlap, they end up
\* with one marker everywhere.
MarkersMeet ==
    <>[]Solo => <>[]((\E d \in Device : Readable(d)) => Agreed)
=============================================================================
