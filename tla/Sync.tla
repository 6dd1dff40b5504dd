-------------------------------- MODULE Sync --------------------------------
(***************************************************************************)
(* Devices that keep a journal in a directory of their own and reconcile   *)
(* it, one pass at a time, with one shared container directory:            *)
(* reconcile_with (sync.rs), reconcile_pair (tombstone.rs), save_entry and *)
(* delete_entry (store.rs).                                                *)
(*                                                                         *)
(* A directory maps a file name to the envelope stored under it.  A name   *)
(* "<date>_<id>.hlj" is the pair <<date, id>>.  Of an envelope the model   *)
(* keeps the header's `created` stamp, the device that sealed it (which    *)
(* tells two contents with one stamp apart) and whether it can be trusted. *)
(* A "<id>.tomb" file is a member of tomb[directory]: its stamp decides    *)
(* nothing here.                                                           *)
(*                                                                         *)
(* Every system call of a pass that touches the container is atomic; a     *)
(* pass is a sequence of such steps and other devices act between them.    *)
(***************************************************************************)
EXTENDS Naturals, FiniteSets

CONSTANTS
    Device,     \* the devices; each names its own entries/ directory too
    Container,  \* the shared container's entries/ directory
    Date,       \* journal dates
    Id,         \* entry ids
    Suffix,     \* <<a, b>>: the pattern "*_<a>.hlj" matches a file of id b
    MaxStamp,   \* bound: clock readings are 1 .. MaxStamp
    Verify,     \* TRUE when the caller passes a verifier to reconcile_with
    Env,        \* what the environment may do: see EnvKind
    MaxFaults,  \* bound: how many things go wrong in one behaviour
    NoFile,     \* no envelope under that name
    NoMove      \* no copy waiting for its purge

EnvKind ==
    { "overlap",   \* another device's pass, or damage, may come during a pass
      "busy",      \* the user saves and deletes during the device's own pass
      "skew",      \* a clock may repeat or fall behind an earlier reading
      "read",      \* an envelope cannot be read during a scan
      "tombread",  \* a tombstone cannot be read
      "write",     \* a file cannot be written
      "remove",    \* a file cannot be removed, or the process ends before it is
      "crash",     \* a pass ends early
      "corrupt" }  \* a stored envelope is damaged

ASSUME DirAssumption   == Container \notin Device
ASSUME FiniteAssumption ==
    IsFiniteSet(Device) /\ IsFiniteSet(Date) /\ IsFiniteSet(Id)
ASSUME SuffixAssumption ==
    Suffix \subseteq Id \X Id /\ \A id \in Id : <<id, id>> \in Suffix
ASSUME BoundAssumption == MaxStamp \in Nat /\ MaxFaults \in Nat
ASSUME EnvAssumption   == Env \subseteq EnvKind /\ Verify \in BOOLEAN

Dir  == Device \cup {Container}
Name == Date \X Id
Side == {"local", "remote"}

\* "sound": opens with the vault key.  "altered": parses, but would not open.
\* "junk": does not parse as an envelope.
Form == {"sound", "altered", "junk"}

Envelope == [created : 1 .. MaxStamp, by : Device, form : Form]

\* A copy a pass has decided on: the file <<date, id>> goes from one side to
\* the other, and `purge` says whether purge_other follows it.
Move == [id : Id, date : Date, from : Side, purge : BOOLEAN]

ASSUME SentinelAssumption == NoFile \notin Envelope /\ NoMove \notin Move

VARIABLES
    entries,  \* directory -> name -> Envelope or NoFile
    tomb,     \* directory -> the ids it holds a tombstone for
    now,      \* the latest clock reading any device has stamped
    newest,   \* id -> the latest stamp it was saved with, 0 if never (history)
    deleted,  \* the ids some user deleted (history)
    pc,       \* device -> where its pass is
    known,    \* device -> tombstoned ids its pass has still to apply
    plan,     \* device -> copies its pass has still to make
    cur,      \* device -> the copy whose purge is due, or NoMove
    shield,   \* device -> <<side, name>> its pass could not vouch for
    faults    \* how many things went wrong so far

passVars == <<pc, known, plan, cur, shield>>
vars == <<entries, tomb, now, newest, deleted, pc, known, plan, cur, shield,
          faults>>

-----------------------------------------------------------------------------
(* Directories.                                                            *)

Max2(a, b) == IF a >= b THEN a ELSE b

Present(x) == {n \in Name : entries[x][n] # NoFile}

\* The names "*_<id>.hlj" selects.
Matching(x, id) == {n \in Present(x) : <<id, n[2]>> \in Suffix}

Without(files, gone) == [n \in Name |-> IF n \in gone THEN NoFile ELSE files[n]]

\* What purge_other and save_entry's purge remove.
Others(x, m, spared) == Matching(x, m[2]) \ ({m} \cup spared)

Holds(d, id) == \E n \in Present(d) : n[2] = id /\ entries[d][n].form = "sound"

Place(d, s) == IF s = "local" THEN d ELSE Container
Opposite(s) == IF s = "local" THEN "remote" ELSE "local"

TrustedIfParsed(e) == e.form # "junk"

Trusted(e) == e.form = "sound" \/ (e.form = "altered" /\ ~Verify)

(* Things that go wrong, as long as the budget lasts.                      *)

Faulty(kind, S) ==
    IF kind \in Env
    THEN {F \in SUBSET S : faults + Cardinality(F) <= MaxFaults}
    ELSE {{}}

Spend(n) == faults + n <= MaxFaults /\ faults' = faults + n

-----------------------------------------------------------------------------
TypeOK ==
    /\ entries \in [Dir -> [Name -> Envelope \cup {NoFile}]]
    /\ tomb \in [Dir -> SUBSET Id]
    /\ now \in 0 .. MaxStamp
    /\ newest \in [Id -> 0 .. MaxStamp]
    /\ deleted \subseteq Id
    /\ pc \in [Device -> {"idle", "tombs", "moves"}]
    /\ known \in [Device -> SUBSET Id]
    /\ plan \in [Device -> SUBSET Move]
    /\ cur \in [Device -> Move \cup {NoMove}]
    /\ shield \in [Device -> SUBSET (Side \X Name)]
    /\ faults \in 0 .. MaxFaults

Init ==
    /\ entries = [x \in Dir |-> [n \in Name |-> NoFile]]
    /\ tomb = [x \in Dir |-> {}]
    /\ now = 0
    /\ newest = [id \in Id |-> 0]
    /\ deleted = {}
    /\ pc = [d \in Device |-> "idle"]
    /\ known = [d \in Device |-> {}]
    /\ plan = [d \in Device |-> {}]
    /\ cur = [d \in Device |-> NoMove]
    /\ shield = [d \in Device |-> {}]
    /\ faults = 0

-----------------------------------------------------------------------------
(* The user.                                                               *)

MayEdit(d) == pc[d] = "idle" \/ "busy" \in Env

ReadingUnset == {0}

Reading == {s \in 1 .. MaxStamp : s = now + 1 \/ ("skew" \in Env /\ s <= now)}

\* save_entry writes <date>_<id>.hlj and then purges every other file of the
\* id.  An id is minted once; an entry that exists is edited on a device that
\* holds it.
Save(d, id, date) ==
    /\ MayEdit(d)
    /\ (newest[id] = 0 /\ id \notin deleted) \/ Holds(d, id)
    /\ LET old == Others(d, <<date, id>>, {})
       IN  \E s \in Reading, kept \in Faulty("remove", old) :
             /\ Spend(Cardinality(kept))
             /\ entries' = [entries EXCEPT ![d] =
                    [Without(@, old \ kept) EXCEPT ![<<date, id>>] =
                        [created |-> s, by |-> d, form |-> "sound"]]]
             /\ newest' = [newest EXCEPT ![id] = Max2(@, s)]
             /\ now' = Max2(now, s)
    /\ UNCHANGED <<tomb, deleted, pc, known, plan, cur, shield>>

\* delete_entry unlinks every file of the id and leaves the tombstone last; a
\* tombstone that cannot be written is not reported.
Delete(d, id) ==
    /\ MayEdit(d)
    /\ Holds(d, id)
    /\ \E kept \in Faulty("remove", Matching(d, id)), miss \in Faulty("write", {id}) :
         /\ Spend(Cardinality(kept) + Cardinality(miss))
         /\ entries' = [entries EXCEPT ![d] = Without(@, Matching(d, id) \ kept)]
         /\ tomb' = [tomb EXCEPT ![d] = @ \cup ({id} \ miss)]
         /\ deleted' = deleted \cup {id}
    /\ UNCHANGED <<now, newest, pc, known, plan, cur, shield>>

-----------------------------------------------------------------------------
(* A pass: reconcile_with between the device's directory and the container. *)

MayBegin(d) ==
    "overlap" \in Env \/ \A e \in Device : pc[e] = "idle"

\* reconcile_pair reads the tombstones of both sides.  One that cannot be read
\* is skipped.
BeginPass(d) ==
    /\ pc[d] = "idle"
    /\ MayBegin(d)
    /\ \E blindL \in Faulty("tombread", tomb[d]),
          blindR \in Faulty("tombread", tomb[Container]) :
         /\ Spend(Cardinality(blindL) + Cardinality(blindR))
         /\ known' = [known EXCEPT ![d] =
                (tomb[d] \ blindL) \cup (tomb[Container] \ blindR)]
    /\ pc' = [pc EXCEPT ![d] = "tombs"]
    /\ UNCHANGED <<entries, tomb, now, newest, deleted, plan, cur, shield>>

BuriedLocally(x, id) == IF x = Container THEN {} ELSE Matching(x, id)

\* What applying a tombstone removes: every matching file, vouched for or not.
Buried(x, id) == Matching(x, id)

\* One tombstone: mark both sides, then remove the id's envelopes on both.
ApplyTomb(d, id) ==
    /\ pc[d] = "tombs"
    /\ id \in known[d]
    /\ \E miss \in Faulty("write", {x \in {d, Container} : id \notin tomb[x]}),
          keptL \in Faulty("remove", Buried(d, id)),
          keptR \in Faulty("remove", Buried(Container, id)) :
         /\ Spend(Cardinality(miss) + Cardinality(keptL) + Cardinality(keptR))
         /\ tomb' = [x \in Dir |-> IF x \in {d, Container} \ miss
                                   THEN tomb[x] \cup {id} ELSE tomb[x]]
         /\ entries' = [entries EXCEPT
                ![d] = Without(@, Buried(d, id) \ keptL),
                ![Container] = Without(@, Buried(Container, id) \ keptR)]
    /\ known' = [known EXCEPT ![d] = @ \ {id}]
    /\ UNCHANGED <<now, newest, deleted, pc, plan, cur, shield>>

\* The newest files of an id among those a scan vouches for.
Best(x, seen, id) ==
    {n \in seen : /\ n[2] = id
                  /\ \A m \in seen : m[2] = id =>
                        entries[x][m].created <= entries[x][n].created}

BeatsAlways(x, n, y, rivals) == TRUE

BeatsOrTies(x, n, y, rivals) ==
    \A m \in rivals : entries[x][n].created >= entries[y][m].created

BeatsRivalOnly(x, n, y, rivals) ==
    \E m \in rivals : entries[x][n].created > entries[y][m].created

\* Strictly newer than everything the other side has, or the other side has
\* nothing.
Beats(x, n, y, rivals) ==
    \A m \in rivals : entries[x][n].created > entries[y][m].created

\* The copies the merge loop would make, given what each side's scan vouches
\* for.  Only a push to a side that has nothing of the id goes unpurged.
Wanted(d, seen) ==
    {m \in Move :
        LET x == Place(d, m.from)
            y == Place(d, Opposite(m.from))
            n == <<m.date, m.id>>
            rivals == Best(y, seen[Opposite(m.from)], m.id)
        IN  /\ n \in Best(x, seen[m.from], m.id)
            /\ Beats(x, n, y, rivals)
            /\ m.purge = (m.from = "remote" \/ rivals # {})}

\* What each side's scan vouches for, when it cannot read `lost`.
Seen(d, lostL, lostR) ==
    [s \in Side |-> {n \in Present(Place(d, s)) \ (IF s = "local" THEN lostL ELSE lostR) :
                        Trusted(entries[Place(d, s)][n])}]

Unvouched(d, seen) ==
    {p \in Side \X Name : p[2] \in Present(Place(d, p[1])) \ seen[p[1]]}

\* Scan both sides.  A file that cannot be read or trusted takes no part in
\* the merge and is shielded from its purges.  Of several newest files with
\* one stamp the directory order picks one.
Scan(d) ==
    /\ pc[d] = "tombs"
    /\ known[d] = {}
    /\ \E lostL \in Faulty("read", Present(d)), lostR \in Faulty("read", Present(Container)) :
         LET seen == Seen(d, lostL, lostR)
         IN  /\ Spend(Cardinality(lostL) + Cardinality(lostR))
             /\ shield' = [shield EXCEPT ![d] = Unvouched(d, seen)]
             /\ \E moves \in SUBSET Wanted(d, seen) :
                  /\ \A m \in Wanted(d, seen) : \E k \in moves : k.id = m.id
                  /\ \A m, k \in moves : m.id = k.id => m = k
                  /\ plan' = [plan EXCEPT ![d] = moves]
    /\ pc' = [pc EXCEPT ![d] = "moves"]
    /\ UNCHANGED <<entries, tomb, now, newest, deleted, known, cur>>

\* atomic_copy reads the source again and renames it over whatever has its
\* name on the other side.  A copy that fails is counted and left.
Copy(d, m) ==
    /\ pc[d] = "moves"
    /\ cur[d] = NoMove
    /\ m \in plan[d]
    /\ LET n == <<m.date, m.id>>
           bytes == entries[Place(d, m.from)][n]
       IN  \E fail \in Faulty("write", {m}) :
             /\ Spend(Cardinality(fail))
             /\ IF bytes = NoFile \/ fail # {}
                THEN UNCHANGED <<entries, cur>>
                ELSE /\ entries' = [entries EXCEPT
                            ![Place(d, Opposite(m.from))][n] = bytes]
                     /\ cur' = [cur EXCEPT ![d] = IF m.purge THEN m ELSE NoMove]
    /\ plan' = [plan EXCEPT ![d] = @ \ {m}]
    /\ UNCHANGED <<tomb, now, newest, deleted, pc, known, shield>>

\* The names a pass's purge leaves alone on a side.
Shielded(d, s) == {n \in Name : <<s, n>> \in shield[d]}

\* purge_other on the side the copy went to, which lists the directory anew.
Purge(d) ==
    /\ cur[d] # NoMove
    /\ LET side == Opposite(cur[d].from)
           x    == Place(d, side)
           old  == Others(x, <<cur[d].date, cur[d].id>>, Shielded(d, side))
       IN  \E kept \in Faulty("remove", old) :
             /\ Spend(Cardinality(kept))
             /\ entries' = [entries EXCEPT ![x] = Without(@, old \ kept)]
    /\ cur' = [cur EXCEPT ![d] = NoMove]
    /\ UNCHANGED <<tomb, now, newest, deleted, pc, known, plan, shield>>

EndPass(d) ==
    /\ pc' = [pc EXCEPT ![d] = "idle"]
    /\ known' = [known EXCEPT ![d] = {}]
    /\ plan' = [plan EXCEPT ![d] = {}]
    /\ cur' = [cur EXCEPT ![d] = NoMove]
    /\ shield' = [shield EXCEPT ![d] = {}]
    /\ UNCHANGED <<entries, tomb, now, newest, deleted>>

Finish(d) ==
    /\ pc[d] = "moves" /\ plan[d] = {} /\ cur[d] = NoMove
    /\ EndPass(d)
    /\ UNCHANGED faults

\* The process ends, or a directory cannot be listed.
Abandon(d) ==
    /\ "crash" \in Env
    /\ pc[d] # "idle"
    /\ EndPass(d)
    /\ Spend(1)

-----------------------------------------------------------------------------
\* A stored envelope is damaged at rest; its header may be hit too.
Corrupt(x, n) ==
    /\ "corrupt" \in Env
    /\ "overlap" \in Env \/ \A d \in Device : pc[d] = "idle"
    /\ entries[x][n] # NoFile
    /\ entries[x][n].form = "sound"
    /\ \E e \in Envelope :
         /\ e.by = entries[x][n].by
         /\ e.form # "sound"
         /\ e.form = "junk" => e.created = entries[x][n].created
         /\ entries' = [entries EXCEPT ![x][n] = e]
    /\ Spend(1)
    /\ UNCHANGED <<tomb, now, newest, deleted, pc, known, plan, cur, shield>>

PassStep(d) ==
    \/ BeginPass(d)
    \/ \E id \in Id : ApplyTomb(d, id)
    \/ Scan(d)
    \/ \E m \in Move : Copy(d, m)
    \/ Purge(d)
    \/ Finish(d)

Next ==
    \/ \E d \in Device, id \in Id, date \in Date : Save(d, id, date)
    \/ \E d \in Device, id \in Id : Delete(d, id)
    \/ \E d \in Device : PassStep(d)
    \/ \E d \in Device : Abandon(d)
    \/ \E x \in Dir, n \in Name : Corrupt(x, n)

Spec == Init /\ [][Next]_vars

\* Nothing in the library schedules a pass: its callers keep asking for one,
\* whenever they may, and a pass once begun runs on to its end.
Fairness ==
    \A d \in Device :
        /\ SF_vars(BeginPass(d))
        /\ WF_vars(PassStep(d) /\ pc[d] # "idle")

FairSpec == Spec /\ Fairness

-----------------------------------------------------------------------------
(* What a pass promises.                                                   *)

Vouched(x) == {n \in Present(x) : Trusted(entries[x][n])}

\* No save is lost while its entry is not deleted: some device still has the
\* content with the latest stamp the id was ever saved with ("newest wins").
NewestSurvives ==
    \A id \in Id : newest[id] > 0 /\ id \notin deleted =>
        \E d \in Device, date \in Date :
            LET e == entries[d][<<date, id>>]
            IN  e # NoFile /\ e.created = newest[id] /\ e.form = "sound"

\* A pull waiting to be made, or purged after, never sits on top of a file
\* that carries the latest stamp of its id: scan decided, and the user is
\* shut out until the pass ends.  This is why a stale decision is harmless.
PullsAreBehind ==
    \A d \in Device : \A m \in plan[d] \cup ({cur[d]} \ {NoMove}) :
        m.from = "remote" =>
            \A n \in Present(d) :
                n[2] = m.id /\ (m = cur[d] => n # <<m.date, m.id>>)
                    => entries[d][n].created < newest[m.id]

\* "Newest created wins": in no directory does the newest file of an id give
\* way to an older one, unless its tombstone arrives.
NewestWins ==
    [][\A x \in Dir : \A n \in Vouched(x) :
          n[2] \in tomb'[x] \/
          \E m \in Name : /\ m[2] = n[2]
                          /\ entries'[x][m] # NoFile
                          /\ entries'[x][m].created >= entries[x][n].created]_vars

\* "Never re-copied": a directory that has an id's tombstone and no file of
\* it never receives one again.
DeletedNeverReturns ==
    [][\A x \in Dir : \A id \in tomb[x] :
          (\A n \in Present(x) : n[2] # id)
             => \A n \in Name : n[2] = id => entries'[x][n] = NoFile]_vars

\* "Does nothing once in sync": a pass over two sides that agree, file by
\* file, has decided on no copy.
QuietOnceInSync ==
    \A d \in Device :
        entries[d] = entries[Container] => plan[d] = {}

\* Every directory has a newest file of an id, and it is the same envelope
\* in all of them, or none has.
Agree ==
    \A x, y \in Dir, id \in Id : \A n \in Best(x, Vouched(x), id) :
        \E m \in Best(y, Vouched(y), id) : entries[y][m] = entries[x][n]

\* "Running it repeatedly converges": once the saves stop, passes bring every
\* directory to the same newest version of every id, for good.
Converges == <>[]Agree

\* Where a tombstone has arrived, in the end the record is gone from every
\* directory, for good: also the copies that other devices had decided on.
DeletesConverge ==
    \A id \in Id :
        <>[]((\E x \in Dir : id \in tomb[x])
                => \A x \in Dir : \A n \in Present(x) : n[2] # id)

\* "Never copied to the other side": nothing but the damage itself puts a
\* damaged envelope where there was none (damage is the only fault counted
\* in the runs that check this).
DamageStaysPut ==
    [][faults' = faults =>
          \A x \in Dir, n \in Name :
             entries'[x][n] # NoFile /\ entries'[x][n].form # "sound"
                => entries'[x][n] = entries[x][n]]_vars
=============================================================================
