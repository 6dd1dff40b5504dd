-------------------------- MODULE SyncJournalProofs --------------------------
(***************************************************************************)
(* Theorems about Sync when one pass runs at a time: what no step of it    *)
(* ever does, and that it implements Journal.                              *)
(***************************************************************************)
EXTENDS SyncJournal, SyncProofs, WellFoundedInduction

-----------------------------------------------------------------------------
(* What can become of a file.                                              *)

\* A save writes one file, and that one is sound.
LEMMA SaveFiles ==
    ASSUME TypeOK, NEW d \in Device, NEW id \in Id, NEW date \in Date, Save(d, id, date)
    PROVE  /\ entries'[d][<<date, id>>] # NoFile
           /\ entries'[d][<<date, id>>].form = "sound"
           /\ \A x \in Dir, n \in Name :
                 \/ x = d /\ n = <<date, id>>
                 \/ entries'[x][n] = entries[x][n]
                 \/ entries'[x][n] = NoFile
  <1>1. PICK s \in Reading, gone \in SUBSET Matching(d, id) :
             entries' = [entries EXCEPT ![d] =
               [Without(@, gone) EXCEPT ![<<date, id>>] =
                   [created |-> s, by |-> d, form |-> "sound"]]]
    BY DEF Save, Others
  <1> DEFINE fresh == [created |-> s, by |-> d, form |-> "sound"]
             k == <<date, id>>
  <1>2. k \in Name /\ d \in Dir
    BY DEF Name, Dir
  <1>3. fresh \in Envelope /\ fresh.form = "sound"
    BY DEF Envelope, Form, Reading
  <1>4. fresh # NoFile
    BY <1>3, SentinelAssumption
  <1>5. entries' = [entries EXCEPT ![d] = [Without(@, gone) EXCEPT ![k] = fresh]]
    BY <1>1
  <1> HIDE DEF fresh, k
  <1>6. entries'[d][k] = fresh
    BY <1>2, <1>5 DEF TypeOK, Without
  <1>7. \A x \in Dir, n \in Name :
           \/ x = d /\ n = k
           \/ entries'[x][n] = entries[x][n]
           \/ entries'[x][n] = NoFile
    BY <1>2, <1>5 DEF TypeOK, Without
  <1> QED
    BY <1>1, <1>3, <1>4, <1>6, <1>7 DEF k

\* Deletes, tombstones and purges only remove.
LEMMA RemovalsRemove ==
    ASSUME TypeOK, NEW d \in Device,
           \/ \E id \in Id : Delete(d, id) \/ ApplyTomb(d, id)
           \/ Purge(d)
    PROVE  \A x \in Dir, n \in Name : entries'[x][n] \in {entries[x][n], NoFile}
  <1>1. ASSUME NEW id \in Id, Delete(d, id)
        PROVE  \A x \in Dir, n \in Name : entries'[x][n] \in {entries[x][n], NoFile}
    <2>1. PICK gone : entries' = [entries EXCEPT ![d] = Without(@, gone)]
      BY <1>1 DEF Delete
    <2> QED BY <2>1 DEF Without, TypeOK, Dir
  <1>2. ASSUME NEW id \in Id, ApplyTomb(d, id)
        PROVE  \A x \in Dir, n \in Name : entries'[x][n] \in {entries[x][n], NoFile}
    <2>1. PICK goneL, goneR :
            entries' = [entries EXCEPT ![d] = Without(@, goneL),
                                       ![Container] = Without(@, goneR)]
      BY <1>2 DEF ApplyTomb
    <2> QED BY <2>1, DirAssumption DEF Without, TypeOK, Dir
  <1>3. ASSUME Purge(d)
        PROVE  \A x \in Dir, n \in Name : entries'[x][n] \in {entries[x][n], NoFile}
    <2> DEFINE y == Place(d, Opposite(cur[d].from))
    <2>1. PICK gone : entries' = [entries EXCEPT ![y] = Without(@, gone)]
      BY <1>3 DEF Purge
    <2>2. y \in Dir
      BY DEF Place, Opposite, Dir
    <2> HIDE DEF y
    <2> QED BY <2>1, <2>2 DEF Without, TypeOK
  <1> QED
    BY <1>1, <1>2, <1>3

\* Of some stamps one is the latest.
LEMMA LatestStamp ==
    ASSUME NEW S, S \subseteq 0 .. MaxStamp, S # {}
    PROVE  \E s \in S : \A t \in S : t <= s
  <1> DEFINE T == {MaxStamp - s : s \in S}
  <1>1. T \subseteq Nat /\ T # {}
    <2>1. \A s \in S : s \in Nat /\ s <= MaxStamp /\ MaxStamp - s \in Nat
      BY BoundAssumption
    <2>2. T # {}
      OBVIOUS
    <2>3. \A b \in T : \E s \in S : b = MaxStamp - s
      OBVIOUS
    <2> QED BY <2>1, <2>2, <2>3
  <1>2. PICK b \in T : \A c \in T : ~ (<<c, b>> \in OpToRel(<, Nat))
    <2> HIDE DEF T
    <2> QED BY <1>1, NatLessThanWellFounded, WFMin
  <1>3. \A c \in T : ~ (c < b)
    <2> HIDE DEF T
    <2> QED BY <1>1, <1>2 DEF OpToRel
  <1>4. PICK s \in S : b = MaxStamp - s
    OBVIOUS
  <1>5. ASSUME NEW t \in S PROVE t <= s
    <2>1. ~ (MaxStamp - t < MaxStamp - s)
      BY <1>3, <1>4
    <2> QED BY <2>1, BoundAssumption
  <1> QED
    BY <1>5

\* What a scan vouches for is an envelope under a name.
LEMMA VouchedType ==
    ASSUME TypeOK, NEW x \in Dir, NEW n \in Vouched(x)
    PROVE  /\ n \in Name /\ n[2] \in Id
           /\ entries[x][n] \in Envelope
           /\ entries[x][n].created \in 1 .. MaxStamp
  BY DEF Vouched, Present, TypeOK, Envelope, Name

\* A directory that has a file of an id has a newest one.
LEMMA BestExists ==
    ASSUME TypeOK, NEW x \in Dir, NEW k \in Vouched(x)
    PROVE  \E b \in Best(x, Vouched(x), k[2]) :
               entries[x][k].created <= entries[x][b].created
  <1> DEFINE files == {n \in Vouched(x) : n[2] = k[2]}
             S == {entries[x][n].created : n \in files}
  <1>1. S \subseteq 0 .. MaxStamp /\ S # {}
    BY VouchedType
  <1>2. PICK s \in S : \A t \in S : t <= s
    <2> HIDE DEF S
    <2> QED BY <1>1, LatestStamp
  <1>3. PICK b \in files : s = entries[x][b].created
    OBVIOUS
  <1> QED
    BY <1>2, <1>3 DEF Best

\* The two sides of a pass.
LEMMA Sides ==
    ASSUME NEW d \in Device, NEW s \in Side
    PROVE  /\ Place(d, s) \in {d, Container}
           /\ Place(d, Opposite(s)) \in {d, Container}
           /\ Place(d, s) # Place(d, Opposite(s))
           /\ Place(d, s) \in Dir /\ Place(d, Opposite(s)) \in Dir
  BY DirAssumption DEF Place, Opposite, Side, Dir

-----------------------------------------------------------------------------
(* One pass at a time.                                                     *)

Alone == "overlap" \notin Env

OnePass == \A d, e \in Device : pc[d] # "idle" /\ pc[e] # "idle" => d = e

\* Without overlap, no second pass begins while one runs.
LEMMA OnePassStep ==
    ASSUME TypeOK, Alone, OnePass, [Next]_vars
    PROVE  OnePass'
  <1>1. ASSUME NEW d \in Device, BeginPass(d)
        PROVE  OnePass'
    BY <1>1 DEF BeginPass, MayBegin, Alone, OnePass, TypeOK
  <1>2. ASSUME NEW d \in Device, Scan(d) \/ Finish(d) \/ Abandon(d)
        PROVE  OnePass'
    BY <1>2 DEF Scan, Finish, Abandon, EndPass, OnePass, TypeOK
  <1>3. CASE UNCHANGED pc
    BY <1>3 DEF OnePass
  <1> QED
    BY <1>1, <1>2, <1>3
       DEF Next, PassStep, Save, Delete, ApplyTomb, Copy, Purge, Corrupt, vars

-----------------------------------------------------------------------------
(* Decisions stay right until they are carried out: while a pass is alone, *)
(* its user waits for it and every file can be read, nobody touches the    *)
(* two directories it looked at.                                           *)

Exclusive == {"overlap", "busy", "read"} \cap Env = {}

Named(m) == <<m.date, m.id>>

\* A copy that is still to be made takes a newest file of its id to a side
\* that has only older ones.
AheadOf(d, m) ==
    LET x == Place(d, m.from)
        y == Place(d, Opposite(m.from))
    IN  /\ Named(m) \in Best(x, Vouched(x), m.id)
        /\ \A k \in Vouched(y) : k[2] = m.id =>
              entries[y][k].created < entries[x][Named(m)].created

\* A copy that is made and not purged after is a newest file where it went.
LandedOf(d, m) ==
    LET y == Place(d, Opposite(m.from))
    IN  Named(m) \in Best(y, Vouched(y), m.id)

Ahead  == \A d \in Device : \A m \in plan[d] : AheadOf(d, m)
Landed == \A d \in Device : cur[d] # NoMove => LandedOf(d, cur[d])

\* A decision stays right as long as the files of its id do not change.
LEMMA DecisionKept ==
    ASSUME NEW d \in Device, NEW m \in Move,
           \A x \in {d, Container}, n \in Name :
              n[2] = m.id => entries'[x][n] = entries[x][n]
    PROVE  (AheadOf(d, m) => AheadOf(d, m)') /\ (LandedOf(d, m) => LandedOf(d, m)')
  <1>1. m.from \in Side
    BY DEF Move
  <1>2. /\ Place(d, m.from) \in {d, Container}
        /\ Place(d, Opposite(m.from)) \in {d, Container}
    BY <1>1, Sides
  <1>3. ASSUME NEW x \in {d, Container}, NEW n, n[2] = m.id
        PROVE  /\ n \in Vouched(x) <=> n \in Vouched(x)'
               /\ n \in Vouched(x) => entries'[x][n] = entries[x][n]
    BY <1>3 DEF Vouched, Present, Trusted
  <1>4. ASSUME NEW x \in {d, Container}, NEW n \in Best(x, Vouched(x), m.id)
        PROVE  n \in Best(x, Vouched(x), m.id)'
    <2>1. n \in Vouched(x)' /\ n[2] = m.id /\ entries'[x][n] = entries[x][n]
      BY <1>3, <1>4 DEF Best
    <2>2. \A k \in Vouched(x)' : k[2] = m.id =>
             entries'[x][k].created <= entries'[x][n].created
      BY <1>3, <1>4, <2>1 DEF Best
    <2> QED BY <2>1, <2>2 DEF Best
  <1>5. Named(m)[2] = m.id
    BY DEF Named
  <1>6. ASSUME AheadOf(d, m) PROVE AheadOf(d, m)'
    <2> DEFINE x == Place(d, m.from)
               y == Place(d, Opposite(m.from))
    <2>1. Named(m) \in Best(x, Vouched(x), m.id)'
      BY <1>2, <1>4, <1>6 DEF AheadOf
    <2>2. entries'[x][Named(m)] = entries[x][Named(m)]
      BY <1>2, <1>3, <1>5, <1>6 DEF AheadOf, Best
    <2>3. \A k \in Vouched(y)' : k[2] = m.id =>
             entries'[y][k].created < entries'[x][Named(m)].created
      BY <1>2, <1>3, <1>6, <2>2 DEF AheadOf
    <2> QED BY <2>1, <2>3 DEF AheadOf, Named
  <1>7. ASSUME LandedOf(d, m) PROVE LandedOf(d, m)'
    BY <1>2, <1>4, <1>7 DEF LandedOf, Named
  <1> QED
    BY <1>6, <1>7

\* Only a device whose pass is at its copies has any.
LEMMA OnlyMoving ==
    ASSUME OnePass, DecidedOnce, NEW d \in Device, pc[d] # "idle",
           NEW e \in Device, plan[e] # {} \/ cur[e] # NoMove
    PROVE  e = d /\ pc[d] = "moves"
  BY DEF OnePass, DecidedOnce

\* What is decided at the scan is right.
LEMMA ScanAhead ==
    ASSUME TypeOK, "read" \notin Env, NEW d \in Device, Scan(d)
    PROVE  \A m \in plan'[d] : AheadOf(d, m)'
  <1>1. entries' = entries
    BY QuietEffect
  <1>2. PICK lostL \in Faulty("read", Present(d)), lostR \in Faulty("read", Present(Container)) :
          plan'[d] \subseteq Wanted(d, Seen(d, lostL, lostR))
    BY DEF Scan, TypeOK
  <1> DEFINE seen == Seen(d, lostL, lostR)
  <1>3. \A s \in Side : seen[s] = Vouched(Place(d, s))
    <2>1. lostL = {} /\ lostR = {}
      BY FaultyNever
    <2> QED BY <2>1 DEF Seen, Vouched
  <1>4. SUFFICES ASSUME NEW m \in Wanted(d, seen) PROVE AheadOf(d, m)
    <2>1. \A m : AheadOf(d, m) => AheadOf(d, m)'
      BY <1>1 DEF AheadOf, Best, Vouched, Present, Named
    <2> QED BY <1>2, <2>1
  <1> DEFINE x == Place(d, m.from)
             y == Place(d, Opposite(m.from))
             rivals == Best(y, Vouched(y), m.id)
  <1>5. m \in Move /\ m.from \in Side /\ Opposite(m.from) \in Side
    BY DEF Wanted, Move, Side, Opposite
  <1>6. seen[m.from] = Vouched(x) /\ seen[Opposite(m.from)] = Vouched(y)
    BY <1>3, <1>5
  <1>7. Named(m) \in Best(x, Vouched(x), m.id) /\ Beats(x, Named(m), y, rivals)
    BY <1>6 DEF Wanted, Named
  <1>8. ASSUME NEW k \in Vouched(y), k[2] = m.id
        PROVE  entries[y][k].created < entries[x][Named(m)].created
    <2>1. PICK b \in rivals : entries[y][k].created <= entries[y][b].created
      BY <1>5, <1>8, Sides, BestExists
    <2>2. entries[x][Named(m)].created > entries[y][b].created
      BY <1>7, <2>1 DEF Beats
    <2>3. /\ entries[y][k].created \in Nat /\ entries[y][b].created \in Nat
          /\ entries[x][Named(m)].created \in Nat
      BY <1>5, <1>7, <1>8, <2>1, Sides, VouchedType DEF Best
    <2> QED BY <2>1, <2>2, <2>3
  <1> QED
    BY <1>7, <1>8 DEF AheadOf

\* A copy that is made becomes the newest file where it goes, if it was ahead.
LEMMA CopyLands ==
    ASSUME TypeOK, NEW d \in Device, NEW m \in Move, Copy(d, m), AheadOf(d, m),
           cur'[d] # NoMove
    PROVE  cur'[d] = m /\ LandedOf(d, m)'
  <1> DEFINE x == Place(d, m.from)
             y == Place(d, Opposite(m.from))
             n == Named(m)
  <1>1. m.from \in Side /\ n \in Name /\ n[2] = m.id
    BY DEF Move, Named, Name
  <1>2. x \in Dir /\ y \in Dir /\ x # y
    BY <1>1, Sides
  <1>3. /\ entries' = [entries EXCEPT ![y][n] = entries[x][n]]
        /\ cur'[d] = m
    BY DEF Copy, Named, TypeOK
  <1>4. n \in Vouched(x)
    BY DEF AheadOf, Best
  <1> HIDE DEF x, y, n
  <1>5. /\ entries'[y][n] = entries[x][n]
        /\ \A k \in Name : k # n => entries'[y][k] = entries[y][k]
    BY <1>1, <1>2, <1>3 DEF TypeOK
  <1>6. n \in Vouched(y)'
    BY <1>1, <1>4, <1>5 DEF Vouched, Present
  <1>7. ASSUME NEW k \in Vouched(y)', k[2] = m.id
        PROVE  entries'[y][k].created <= entries'[y][n].created
    <2>1. entries[x][n].created \in Nat
      BY <1>2, <1>4, VouchedType
    <2>2. CASE k = n
      BY <2>1, <2>2, <1>5
    <2>3. CASE k # n
      <3>1. k \in Vouched(y) /\ entries'[y][k] = entries[y][k]
        BY <1>5, <1>7, <2>3 DEF Vouched, Present
      <3>2. entries[y][k].created < entries[x][n].created
        BY <1>7, <3>1 DEF AheadOf, x, y, n
      <3>3. entries[y][k].created \in Nat
        BY <1>2, <3>1, VouchedType
      <3> QED BY <1>5, <2>1, <3>1, <3>2, <3>3
    <2> QED BY <2>2, <2>3
  <1> QED
    BY <1>1, <1>3, <1>6, <1>7 DEF LandedOf, Best, y, n, Named

\* No step makes a decision wrong.
LEMMA AheadStep ==
    ASSUME TypeOK, TypeOK', Exclusive, SuffixFree, OnePass, DecidedOnce,
           Ahead, Landed, [Next]_vars
    PROVE  Ahead' /\ Landed'
  <1> DEFINE Kept(e, p) == \A x \in {e, Container}, n \in Name :
                              n[2] = p.id => entries'[x][n] = entries[x][n]
  <1>1. ASSUME \A e \in Device : plan'[e] \subseteq plan[e] /\ cur'[e] \in {cur[e], NoMove},
               \A e \in Device, p \in Move :
                  p \in plan'[e] \/ p = cur'[e] => Kept(e, p)
        PROVE  Ahead' /\ Landed'
    <2>1. ASSUME NEW e \in Device, NEW p \in plan'[e]
          PROVE  AheadOf(e, p)'
      <3>1. p \in Move /\ p \in plan[e]
        BY <1>1, <2>1 DEF TypeOK
      <3> QED BY <1>1, <2>1, <3>1, DecisionKept DEF Ahead
    <2>2. ASSUME NEW e \in Device, cur'[e] # NoMove
          PROVE  LandedOf(e, cur[e])' /\ cur'[e] = cur[e]
      <3>1. cur'[e] = cur[e] /\ cur[e] \in Move
        BY <1>1, <2>2 DEF TypeOK
      <3> DEFINE p == cur[e]
      <3>2. LandedOf(e, p)
        BY <2>2, <3>1 DEF Landed
      <3> QED BY <1>1, <3>1, <3>2, DecisionKept
    <2> QED BY <2>1, <2>2 DEF Ahead, Landed
  <1>2. ASSUME NEW d \in Device, NEW id \in Id,
               (\E date \in Date : Save(d, id, date)) \/ Delete(d, id)
        PROVE  Ahead' /\ Landed'
    <2>1. pc[d] = "idle" /\ plan' = plan /\ cur' = cur
      BY <1>2 DEF Save, Delete, MayEdit, Exclusive
    <2>2. \A x \in Dir : x # d => entries'[x] = entries[x]
      BY <1>2 DEF Save, Delete, TypeOK
    <2>3. ASSUME NEW e \in Device, NEW p \in Move, p \in plan'[e] \/ p = cur'[e]
          PROVE  Kept(e, p)
      <3>1. e # d
        BY <2>1, <2>3, SentinelAssumption DEF DecidedOnce
      <3> QED BY <2>2, <3>1, DirAssumption DEF Dir
    <2> QED BY <1>1, <2>1, <2>3
  <1>3. ASSUME NEW d \in Device, NEW id \in Id, ApplyTomb(d, id)
        PROVE  Ahead' /\ Landed'
    <2>1. pc[d] = "tombs" /\ plan' = plan /\ cur' = cur
      BY <1>3 DEF ApplyTomb
    <2>2. \A e \in Device : plan[e] = {} /\ cur[e] = NoMove
      BY <2>1, OnlyMoving
    <2> QED BY <2>1, <2>2 DEF Ahead, Landed
  <1>4. ASSUME NEW d \in Device, Scan(d)
        PROVE  Ahead' /\ Landed'
    <2>1. pc[d] = "tombs" /\ cur' = cur
          /\ \A e \in Device : e # d => plan'[e] = plan[e]
      BY <1>4 DEF Scan, TypeOK
    <2>2. \A e \in Device : plan[e] = {} /\ cur[e] = NoMove
      BY <2>1, OnlyMoving
    <2>3. \A m \in plan'[d] : AheadOf(d, m)'
      BY <1>4, ScanAhead DEF Exclusive
    <2> QED BY <2>1, <2>2, <2>3 DEF Ahead, Landed
  <1>5. ASSUME NEW d \in Device, NEW m \in Move, Copy(d, m)
        PROVE  Ahead' /\ Landed'
    <2>1. /\ pc[d] = "moves" /\ cur[d] = NoMove /\ m \in plan[d]
          /\ plan'[d] = plan[d] \ {m}
          /\ \A e \in Device : e # d => plan'[e] = plan[e] /\ cur'[e] = cur[e]
      BY <1>5 DEF Copy, TypeOK
    <2>2. \A e \in Device : e # d => plan[e] = {} /\ cur[e] = NoMove
      BY <2>1, OnlyMoving
    <2>3. \A x \in Dir, n \in Name : n # Named(m) => entries'[x][n] = entries[x][n]
      BY <1>5, CopyEffect DEF Named
    <2>4. ASSUME NEW p \in plan'[d]
          PROVE  AheadOf(d, p)'
      <3>1. p \in plan[d] /\ p \in Move /\ p.id # m.id
        BY <2>1, <2>4 DEF DecidedOnce, TypeOK
      <3>2. Kept(d, p)
        BY <2>3, <3>1 DEF Named, Dir
      <3> QED BY <3>1, <3>2, DecisionKept DEF Ahead
    <2>5. ASSUME cur'[d] # NoMove
          PROVE  cur'[d] = m /\ LandedOf(d, m)'
      BY <1>5, <2>1, <2>5, CopyLands DEF Ahead
    <2> QED BY <2>1, <2>2, <2>4, <2>5 DEF Ahead, Landed
  <1>6. ASSUME NEW d \in Device, Purge(d)
        PROVE  Ahead' /\ Landed'
    <2>1. plan' = plan /\ cur[d] # NoMove /\ cur' = [cur EXCEPT ![d] = NoMove]
      BY <1>6 DEF Purge
    <2>2. pc[d] # "idle"
      BY <2>1 DEF DecidedOnce
    <2>3. \A e \in Device : e # d => plan[e] = {} /\ cur[e] = NoMove
      BY <2>2, OnlyMoving
    <2>4. \A x \in Dir, n \in Name : n[2] # cur[d].id => entries'[x][n] = entries[x][n]
      BY <1>6, PurgeEffect
    <2>5. \A e \in Device : cur'[e] = NoMove
      BY <2>1, <2>3 DEF TypeOK
    <2>6. ASSUME NEW e \in Device, NEW p \in Move, p \in plan'[e] \/ p = cur'[e]
          PROVE  Kept(e, p)
      <3>1. e = d /\ p \in plan[d] /\ p.id # cur[d].id
        BY <2>1, <2>3, <2>5, <2>6, SentinelAssumption DEF DecidedOnce
      <3> QED BY <2>4, <3>1 DEF Dir
    <2> QED BY <1>1, <2>1, <2>5, <2>6
  <1>7. ASSUME NEW d \in Device, BeginPass(d) \/ Finish(d) \/ Abandon(d)
        PROVE  Ahead' /\ Landed'
    <2>1. entries' = entries
      BY <1>7, QuietEffect
    <2>2. \A e \in Device : plan'[e] \subseteq plan[e] /\ cur'[e] \in {cur[e], NoMove}
      BY <1>7 DEF BeginPass, Finish, Abandon, EndPass, TypeOK
    <2> QED BY <1>1, <2>1, <2>2
  <1>8. ASSUME NEW x \in Dir, NEW n \in Name, Corrupt(x, n)
        PROVE  Ahead' /\ Landed'
    <2>1. plan' = plan /\ cur' = cur /\ \A e \in Device : pc[e] = "idle"
      BY <1>8 DEF Corrupt, Exclusive
    <2>2. \A e \in Device : plan[e] = {} /\ cur[e] = NoMove
      BY <2>1 DEF DecidedOnce
    <2> QED BY <2>1, <2>2 DEF Ahead, Landed
  <1>9. CASE UNCHANGED vars
    BY <1>1, <1>9 DEF vars
  <1> QED
    BY <1>2, <1>3, <1>4, <1>5, <1>6, <1>7, <1>8, <1>9 DEF Next, PassStep

\* The invariant behind the properties of exclusive passes.
Orderly == TypeOK /\ OnePass /\ DecidedOnce /\ Ahead /\ Landed

\* Whatever a pass has decided on is right until it has been carried out.
THEOREM DecisionsStayRight ==
    ASSUME Exclusive, SuffixFree
    PROVE  Spec => []Orderly
  <1>1. Init => Orderly
    <2> SUFFICES ASSUME Init PROVE Orderly
      OBVIOUS
    <2>1. TypeOK
      BY BoundAssumption DEF Init, TypeOK
    <2> QED
      BY <2>1 DEF Init, Orderly, OnePass, DecidedOnce, Ahead, Landed
  <1>2. TypeOK' /\ Orderly /\ [Next]_vars => Orderly'
    BY OnePassStep, DecidedStep, AheadStep DEF Orderly, Exclusive, Alone
  <1> QED
    BY <1>1, <1>2, TypeCorrect, PTL DEF Spec

\* A pass over two sides that agree does nothing ("does nothing once in
\* sync"), whatever else fails: writes, removals, clocks or storage.
THEOREM InSyncIsQuiet ==
    ASSUME Exclusive, SuffixFree
    PROVE  Spec => []QuietOnceInSync
  <1>1. Orderly => QuietOnceInSync
    <2> SUFFICES ASSUME Orderly, NEW d \in Device,
                        entries[d] = entries[Container], NEW m \in plan[d]
                 PROVE  FALSE
      BY DEF QuietOnceInSync
    <2>1. AheadOf(d, m) /\ m \in Move /\ m.from \in Side
      BY DEF Orderly, Ahead, TypeOK, Move
    <2> DEFINE x == Place(d, m.from)
               y == Place(d, Opposite(m.from))
    <2>2. x \in Dir /\ y \in Dir /\ entries[x] = entries[y]
      BY <2>1, Sides
    <2>3. Named(m) \in Vouched(x) /\ Named(m)[2] = m.id
      BY <2>1 DEF AheadOf, Best
    <2>4. Named(m) \in Vouched(y)
      BY <2>2, <2>3 DEF Vouched, Present
    <2>5. entries[x][Named(m)].created < entries[x][Named(m)].created
      BY <2>1, <2>2, <2>3, <2>4 DEF AheadOf
    <2>6. entries[x][Named(m)].created \in Nat
      BY <2>2, <2>3, VouchedType DEF Orderly
    <2> QED BY <2>5, <2>6
  <1> QED
    BY <1>1, DecisionsStayRight, PTL

-----------------------------------------------------------------------------
(* Newest created wins.  Beside the above, clocks run forward, nothing is  *)
(* damaged and every tombstone can be written.                             *)

\* What NewestWins says of one step.
Forward ==
    \A x \in Dir : \A n \in Vouched(x) :
        n[2] \in tomb'[x] \/
        \E m \in Name : /\ m[2] = n[2]
                        /\ entries'[x][m] # NoFile
                        /\ entries'[x][m].created >= entries[x][n].created

\* No step replaces the newest file of an id by an older one.
LEMMA ForwardStep ==
    ASSUME IInv, Orderly, Exclusive, Undisturbed, SuffixFree, "write" \notin Env,
           [Next]_vars
    PROVE  Forward
  <1> USE DEF IInv, Orderly
  <1>0. SUFFICES ASSUME NEW x \in Dir, NEW n \in Vouched(x), entries'[x][n] # entries[x][n]
                 PROVE  \/ n[2] \in tomb'[x]
                        \/ \E m \in Name :
                              /\ m[2] = n[2]
                              /\ entries'[x][m] # NoFile
                              /\ entries'[x][m].created >= entries[x][n].created
    <2>1. ASSUME NEW x \in Dir, NEW n \in Vouched(x), entries'[x][n] = entries[x][n]
          PROVE  \E m \in Name : /\ m[2] = n[2]
                                 /\ entries'[x][m] # NoFile
                                 /\ entries'[x][m].created >= entries[x][n].created
      <3>1. n \in Name /\ entries[x][n] # NoFile /\ entries[x][n].created \in Nat
        BY <2>1, VouchedType DEF Vouched, Present
      <3> QED BY <2>1, <3>1
    <2> QED BY <2>1 DEF Forward
  <1> DEFINE old == entries[x][n].created
  <1>1. n \in Name /\ n[2] \in Id /\ old \in Nat /\ n \in Present(x)
    BY VouchedType DEF Vouched
  <1>2. ASSUME NEW d \in Device, NEW id \in Id, NEW date \in Date, Save(d, id, date)
        PROVE  \E m \in Name : /\ m[2] = n[2]
                               /\ entries'[x][m] # NoFile
                               /\ entries'[x][m].created >= old
    <2> DEFINE k == <<date, id>>
    <2>0. /\ entries'[d][k] = [created |-> now + 1, by |-> d, form |-> "sound"]
          /\ \/ x = d /\ n = k
             \/ entries'[x][n] = entries[x][n]
             \/ x = d /\ n[2] = id
      BY <1>1, <1>2, SaveEffect
    <2>1. x = d /\ n[2] = id /\ entries'[d][k].created = now + 1
      BY <1>0, <2>0
    <2>2. k \in Name /\ k[2] = n[2] /\ entries'[d][k] # NoFile
      BY <1>2, <2>1, SaveFiles DEF Name
    <2>3. old <= newest[id] /\ newest[id] <= now /\ newest[id] \in Nat /\ now \in Nat
      BY <1>1, <2>1 DEF Stamped, TypeOK
    <2>4. entries'[d][k].created >= old
      BY <1>1, <2>1, <2>3
    <2> HIDE DEF k
    <2> QED BY <2>1, <2>2, <2>4
  <1>3. ASSUME NEW d \in Device, NEW id \in Id, Delete(d, id)
        PROVE  n[2] \in tomb'[x]
    <2>1. tomb' = [tomb EXCEPT ![d] = @ \cup {id}]
      BY <1>3, FaultyNever DEF Delete
    <2>2. x = d
      BY <1>0, <1>3 DEF Delete, TypeOK
    <2>3. n[2] = id
      BY <1>0, <1>1, <1>3, DeleteEffect
    <2> QED BY <2>1, <2>2, <2>3 DEF TypeOK, Dir
  <1>4. ASSUME NEW d \in Device, NEW id \in Id, ApplyTomb(d, id)
        PROVE  n[2] \in tomb'[x]
    <2>1. tomb' = [y \in Dir |-> IF y \in {d, Container} THEN tomb[y] \cup {id} ELSE tomb[y]]
      BY <1>4, FaultyNever DEF ApplyTomb
    <2>2. x \in {d, Container}
      BY <1>0, <1>4 DEF ApplyTomb, TypeOK
    <2>3. n[2] = id
      BY <1>0, <1>1, <1>4, ApplyTombEffect
    <2> QED BY <2>1, <2>2, <2>3
  <1>5. ASSUME NEW d \in Device, NEW m \in Move, Copy(d, m)
        PROVE  \E k \in Name : /\ k[2] = n[2]
                               /\ entries'[x][k] # NoFile
                               /\ entries'[x][k].created >= old
    <2> DEFINE src == Place(d, m.from)
    <2>1. /\ x = Place(d, Opposite(m.from)) /\ n = Named(m)
          /\ entries'[x][n] = entries[src][n] /\ entries'[x][n] # NoFile
      BY <1>0, <1>1, <1>5, CopyEffect DEF Named
    <2>2. AheadOf(d, m)
      BY <1>5 DEF Copy, Ahead
    <2>3. old < entries[src][n].created
      BY <2>1, <2>2 DEF AheadOf, Named
    <2>4. src \in Dir /\ n \in Vouched(src)
      BY <2>1, <2>2, Sides DEF AheadOf, Best, Move
    <2>5. entries[src][n].created \in Nat
      BY <2>4, VouchedType
    <2> HIDE DEF src
    <2> QED BY <1>1, <2>1, <2>3, <2>5
  <1>6. ASSUME NEW d \in Device, Purge(d)
        PROVE  \E k \in Name : /\ k[2] = n[2]
                               /\ entries'[x][k] # NoFile
                               /\ entries'[x][k].created >= old
    <2> DEFINE k == Named(cur[d])
    <2>1. cur[d] # NoMove /\ cur[d] \in Move
      BY <1>6 DEF Purge, TypeOK
    <2>2. x = Place(d, Opposite(cur[d].from)) /\ n[2] = cur[d].id
      BY <1>0, <1>1, <1>6, PurgeEffect
    <2>3. k \in Best(x, Vouched(x), cur[d].id)
      BY <2>1, <2>2 DEF Landed, LandedOf
    <2>4. k \in Name /\ k[2] = n[2] /\ k \in Present(x)
      BY <2>2, <2>3, VouchedType DEF Best, Vouched
    <2>5. old <= entries[x][k].created /\ entries[x][k].created \in Nat
      BY <2>2, <2>3, VouchedType DEF Best
    <2>6. entries'[x][k] = entries[x][k]
      BY <1>6, <2>4, PurgeEffect DEF Named
    <2> HIDE DEF k
    <2> QED BY <1>1, <2>4, <2>5, <2>6 DEF Present
  <1>7. ASSUME NEW d \in Device, BeginPass(d) \/ Scan(d) \/ Finish(d) \/ Abandon(d)
        PROVE  FALSE
    BY <1>0, <1>7, QuietEffect
  <1>8. CASE UNCHANGED vars
    BY <1>0, <1>8 DEF vars
  <1> QED
    BY <1>2, <1>3, <1>4, <1>5, <1>6, <1>7, <1>8
       DEF Next, PassStep, Corrupt, Undisturbed

\* "Newest created wins": in no directory does the newest file of an id give
\* way to an older one, unless its tombstone arrives.
THEOREM NoDirectoryGoesBack ==
    ASSUME Exclusive, Undisturbed, SuffixFree, "write" \notin Env
    PROVE  Spec => NewestWins
  <1>1. IInv /\ Orderly /\ [Next]_vars => [Forward]_vars
    BY ForwardStep
  <1> QED
    BY <1>1, Inductive, DecisionsStayRight, PTL DEF Spec, NewestWins, Forward

-----------------------------------------------------------------------------
(* Deletions are final.  Passes are exclusive, tombstones can be read and  *)
(* files removed; clocks, damage and failing writes do not matter.         *)

Thorough == {"overlap", "busy", "tombread", "remove"} \cap Env = {}

\* A pass has carried out the tombstones it has worked through, and decides on
\* no copy of a tombstoned id.
Cleared ==
    \A d \in Device :
        /\ pc[d] = "tombs" =>
              \A id \in tomb[d] \cup tomb[Container] :
                  id \in known[d] \/ \A n \in Present(d) \cup Present(Container) : n[2] # id
        /\ \A m \in plan[d] : m.id \notin tomb[d] \cup tomb[Container]

\* Every step leaves tombstoned ids out of what a pass decides on.
LEMMA ClearedStep ==
    ASSUME TypeOK, Thorough, OnePass, DecidedOnce, Cleared, [Next]_vars
    PROVE  Cleared'
  <1>0. SUFFICES ASSUME NEW e \in Device
                 PROVE  /\ pc'[e] = "tombs" =>
                              \A id \in tomb'[e] \cup tomb'[Container] :
                                 \/ id \in known'[e]
                                 \/ \A n \in Name : n[2] = id =>
                                      entries'[e][n] = NoFile /\ entries'[Container][n] = NoFile
                        /\ \A m \in plan'[e] : m.id \notin tomb'[e] \cup tomb'[Container]
    BY DEF Cleared, Present
  <1> DEFINE Empty(id) == \A n \in Name : n[2] = id =>
                              entries[e][n] = NoFile /\ entries[Container][n] = NoFile
             Empty2(id) == \A n \in Name : n[2] = id =>
                              entries'[e][n] = NoFile /\ entries'[Container][n] = NoFile
             Goal == /\ pc'[e] = "tombs" =>
                           \A id \in tomb'[e] \cup tomb'[Container] :
                              id \in known'[e] \/ Empty2(id)
                     /\ \A m \in plan'[e] : m.id \notin tomb'[e] \cup tomb'[Container]
  <1>e. e \in Dir /\ Container \in Dir /\ e # Container
    BY DirAssumption DEF Dir
  <1>1. /\ pc[e] = "tombs" => \A id \in tomb[e] \cup tomb[Container] :
                                 id \in known[e] \/ Empty(id)
        /\ \A m \in plan[e] : m.id \notin tomb[e] \cup tomb[Container]
    BY DEF Cleared, Present
  <1>2. ASSUME pc'[e] = pc[e], known'[e] = known[e], plan'[e] \subseteq plan[e],
               tomb'[e] = tomb[e], tomb'[Container] = tomb[Container],
               pc[e] = "tombs" => \A n \in Name :
                  /\ entries'[e][n] \in {entries[e][n], NoFile}
                  /\ entries'[Container][n] \in {entries[Container][n], NoFile}
        PROVE  Goal
    BY <1>1, <1>2
  <1>3. ASSUME pc'[e] # "tombs", plan'[e] = {}
        PROVE  Goal
    BY <1>3
  <1>4. ASSUME NEW d \in Device, NEW id \in Id,
               (\E date \in Date : Save(d, id, date)) \/ Delete(d, id)
        PROVE  Goal
    <2>1. pc[d] = "idle" /\ pc' = pc /\ plan' = plan /\ known' = known
      BY <1>4 DEF Save, Delete, MayEdit, Thorough
    <2>2. \A x \in Dir : x # d => entries'[x] = entries[x] /\ tomb'[x] = tomb[x]
      BY <1>4 DEF Save, Delete, TypeOK
    <2>3. CASE e = d
      BY <1>3, <2>1, <2>3 DEF DecidedOnce
    <2>4. CASE e # d
      BY <1>2, <1>e, <2>1, <2>2, <2>4, DirAssumption
    <2> QED BY <2>3, <2>4
  <1>5. ASSUME NEW d \in Device, BeginPass(d)
        PROVE  Goal
    <2>1. CASE e = d
      <3>1. known'[e] = tomb[e] \cup tomb[Container] /\ tomb' = tomb
        <4>1. PICK blindL \in Faulty("tombread", tomb[d]),
                   blindR \in Faulty("tombread", tomb[Container]) :
                 known' = [known EXCEPT ![d] =
                       (tomb[d] \ blindL) \cup (tomb[Container] \ blindR)]
          BY <1>5 DEF BeginPass
        <4>2. blindL = {} /\ blindR = {}
          BY FaultyNever DEF Thorough
        <4>3. known'[d] = tomb[d] \cup tomb[Container]
          BY <4>1, <4>2 DEF TypeOK
        <4>4. tomb' = tomb
          BY <1>5 DEF BeginPass
        <4> QED BY <2>1, <4>3, <4>4
      <3>2. plan'[e] = {}
        BY <1>5, <2>1 DEF BeginPass, DecidedOnce
      <3> QED BY <3>1, <3>2
    <2>2. CASE e # d
      BY <1>2, <1>5, <2>2 DEF BeginPass, TypeOK
    <2> QED BY <2>1, <2>2
  <1>6. ASSUME NEW d \in Device, NEW id \in Id, ApplyTomb(d, id)
        PROVE  Goal
    <2>1. pc[d] = "tombs" /\ pc' = pc /\ plan' = plan
          /\ known' = [known EXCEPT ![d] = @ \ {id}]
      BY <1>6 DEF ApplyTomb
    <2>2. CASE e # d
      <3>1. pc[e] = "idle" /\ plan[e] = {}
        BY <2>1, <2>2 DEF OnePass, DecidedOnce
      <3> QED BY <1>3, <2>1, <3>1
    <2>3. CASE e = d
      <3>1. entries' = [entries EXCEPT ![d] = Without(@, Matching(d, id)),
                                       ![Container] = Without(@, Matching(Container, id))]
        BY <1>6, FaultyNever DEF ApplyTomb, Buried, Thorough
      <3>2. \A n \in Name : n[2] = id => entries'[e][n] = NoFile /\ entries'[Container][n] = NoFile
        BY <1>e, <2>3, <3>1, SuffixAssumption DEF Without, Matching, Present, TypeOK
      <3>3. \A n \in Name : /\ entries'[e][n] \in {entries[e][n], NoFile}
                            /\ entries'[Container][n] \in {entries[Container][n], NoFile}
        BY <1>e, <1>6, RemovalsRemove
      <3>4. \A i \in tomb'[e] \cup tomb'[Container] : i = id \/ i \in tomb[e] \cup tomb[Container]
        BY <1>e, <1>6 DEF ApplyTomb
      <3>5. \A i \in known[e] : i = id \/ i \in known'[e]
        BY <2>1, <2>3 DEF TypeOK
      <3>6. plan'[e] = {}
        BY <2>1, <2>3 DEF DecidedOnce
      <3>7. ASSUME NEW i \in tomb'[e] \cup tomb'[Container]
            PROVE  i \in known'[e] \/ Empty2(i)
        BY <1>1, <2>1, <2>3, <3>2, <3>3, <3>4, <3>5
      <3> QED BY <3>6, <3>7
    <2> QED BY <2>2, <2>3
  <1>7. ASSUME NEW d \in Device, Scan(d)
        PROVE  Goal
    <2>1. pc[d] = "tombs" /\ pc' = [pc EXCEPT ![d] = "moves"] /\ known[d] = {} /\ tomb' = tomb
      BY <1>7 DEF Scan
    <2>2. CASE e # d
      <3>1. pc'[e] = "idle" /\ plan'[e] = {}
        BY <1>7, <2>1, <2>2 DEF OnePass, DecidedOnce, Scan, TypeOK
      <3> QED BY <1>3, <3>1
    <2>3. CASE e = d
      <3>1. PICK lostL, lostR : plan'[d] \subseteq Wanted(d, Seen(d, lostL, lostR))
        BY <1>7 DEF Scan, TypeOK
      <3>2. ASSUME NEW m \in plan'[d]
            PROVE  m.id \notin tomb[d] \cup tomb[Container]
        <4>1. /\ m.from \in Side
              /\ Named(m) \in Seen(d, lostL, lostR)[m.from]
          BY <3>1, <3>2 DEF Wanted, Best, Move, Named
        <4>2. Named(m) \in Present(Place(d, m.from)) /\ Place(d, m.from) \in {d, Container}
          BY <4>1, Sides DEF Seen
        <4>3. Named(m) \in Name /\ Named(m)[2] = m.id
          BY <4>2 DEF Present, Named
        <4> QED BY <1>1, <2>1, <2>3, <4>2, <4>3 DEF Present
      <3> QED BY <2>1, <2>3, <3>2 DEF TypeOK
    <2> QED BY <2>2, <2>3
  <1>8. ASSUME NEW d \in Device, (\E m \in Move : Copy(d, m)) \/ Purge(d)
        PROVE  Goal
    <2>1. pc[d] = "moves" /\ pc' = pc /\ tomb' = tomb /\ known' = known
      BY <1>8 DEF Copy, Purge, DecidedOnce
    <2>2. plan'[e] \subseteq plan[e]
      <3>1. CASE \E m \in Move : Copy(d, m)
        BY <3>1 DEF Copy, TypeOK
      <3>2. CASE Purge(d)
        BY <3>2 DEF Purge
      <3> QED BY <1>8, <3>1, <3>2
    <2>3. pc[e] # "tombs"
      BY <2>1 DEF OnePass
    <2> QED BY <1>2, <2>1, <2>2, <2>3
  <1>9. ASSUME NEW d \in Device, Finish(d) \/ Abandon(d)
        PROVE  Goal
    <2>1. CASE e = d
      BY <1>3, <1>9, <2>1 DEF Finish, Abandon, EndPass, TypeOK
    <2>2. CASE e # d
      BY <1>2, <1>9, <2>2 DEF Finish, Abandon, EndPass, TypeOK
    <2> QED BY <2>1, <2>2
  <1>10. ASSUME NEW x \in Dir, NEW n \in Name, Corrupt(x, n)
         PROVE  Goal
    <2>1. pc[e] = "idle" /\ pc' = pc /\ plan' = plan
      BY <1>10 DEF Corrupt, Thorough
    <2> QED BY <1>3, <2>1 DEF DecidedOnce
  <1>11. CASE UNCHANGED vars
    BY <1>1, <1>11 DEF vars
  <1> QED
    BY <1>4, <1>5, <1>6, <1>7, <1>8, <1>9, <1>10, <1>11 DEF Next, PassStep

\* The invariant behind DeletedNeverReturns.
Final == TypeOK /\ OnePass /\ DecidedOnce /\ TombsDeleted /\ Cleared

\* A pass that has worked through its tombstones copies nothing they name.
LEMMA FinalInvariant ==
    ASSUME Thorough
    PROVE  Spec => []Final
  <1>1. Init => Final
    <2> SUFFICES ASSUME Init PROVE Final
      OBVIOUS
    <2>1. TypeOK
      BY BoundAssumption DEF Init, TypeOK
    <2> QED
      BY <2>1 DEF Init, Final, OnePass, DecidedOnce, TombsDeleted, Cleared, Dir
  <1>2. TypeOK' /\ Final /\ [Next]_vars => Final'
    BY OnePassStep, DecidedStep, TombsStep, ClearedStep DEF Final, Thorough, Alone
  <1> QED
    BY <1>1, <1>2, TypeCorrect, PTL DEF Spec

\* What DeletedNeverReturns says of one step.
StaysAway ==
    \A x \in Dir : \A id \in tomb[x] :
        (\A n \in Present(x) : n[2] # id)
            => \A n \in Name : n[2] = id => entries'[x][n] = NoFile

\* No step brings a file to where its id is tombstoned and gone.
LEMMA StaysAwayStep ==
    ASSUME Final, [Next]_vars
    PROVE  StaysAway
  <1> USE DEF Final
  <1>0. SUFFICES ASSUME NEW x \in Dir, NEW id \in tomb[x],
                        \A n \in Present(x) : n[2] # id,
                        NEW n \in Name, n[2] = id, entries'[x][n] # NoFile
                 PROVE  FALSE
    BY DEF StaysAway
  <1>1. entries[x][n] = NoFile
    BY <1>0 DEF Present
  <1>2. ASSUME NEW d \in Device, NEW i \in Id, NEW date \in Date, Save(d, i, date)
        PROVE  FALSE
    <2>0. \A y \in Dir, k \in Name :
             \/ y = d /\ k = <<date, i>>
             \/ entries'[y][k] = entries[y][k]
             \/ entries'[y][k] = NoFile
      BY <1>2, SaveFiles
    <2>1. x = d /\ n = <<date, i>>
      BY <1>0, <1>1, <2>0 DEF TypeOK
    <2>2. n[2] = i /\ i = id
      BY <1>0, <2>1
    <2>3. id \in deleted
      BY DEF TombsDeleted
    <2>4. Holds(d, id)
      BY <1>2, <2>2, <2>3 DEF Save
    <2> QED BY <1>0, <2>1, <2>4 DEF Holds
  <1>3. ASSUME NEW d \in Device, NEW m \in Move, Copy(d, m)
        PROVE  FALSE
    <2>1. x = Place(d, Opposite(m.from)) /\ n = <<m.date, m.id>>
      BY <1>0, <1>1, <1>3, CopyEffect
    <2>2. x \in {d, Container} /\ m.id = id
      BY <1>0, <2>1, Sides DEF Move
    <2>3. m.id \notin tomb[d] \cup tomb[Container]
      BY <1>3 DEF Copy, Cleared
    <2> QED BY <2>2, <2>3
  <1>4. ASSUME NEW d \in Device,
               (\E i \in Id : Delete(d, i) \/ ApplyTomb(d, i)) \/ Purge(d)
        PROVE  FALSE
    BY <1>0, <1>1, <1>4, RemovalsRemove
  <1>5. ASSUME NEW d \in Device, BeginPass(d) \/ Scan(d) \/ Finish(d) \/ Abandon(d)
        PROVE  FALSE
    BY <1>0, <1>1, <1>5, QuietEffect
  <1>6. ASSUME NEW y \in Dir, NEW k \in Name, Corrupt(y, k)
        PROVE  FALSE
    <2>1. entries[y][k] # NoFile /\ \E e : entries' = [entries EXCEPT ![y][k] = e]
      BY <1>6 DEF Corrupt
    <2>2. x # y \/ n # k
      BY <1>1, <2>1
    <2>3. entries'[x][n] = entries[x][n]
      BY <2>1, <2>2 DEF TypeOK
    <2> QED BY <1>0, <1>1, <2>3
  <1>7. CASE UNCHANGED vars
    BY <1>0, <1>1, <1>7 DEF vars
  <1> QED
    BY <1>2, <1>3, <1>4, <1>5, <1>6, <1>7 DEF Next, PassStep

\* "Never re-copied": where an id has its tombstone and no file, no file of it
\* ever comes again, from whatever device, clock or damaged storage.
THEOREM DeletesAreFinal ==
    ASSUME Thorough
    PROVE  Spec => DeletedNeverReturns
  <1>1. Final /\ [Next]_vars => [StaysAway]_vars
    BY StaysAwayStep
  <1> QED
    BY <1>1, FinalInvariant, PTL DEF Spec, DeletedNeverReturns, StaysAway

-----------------------------------------------------------------------------
(* Damage does not spread.  The caller passes a verifier, and no file is   *)
(* damaged between the scan that verified it and the copy.                 *)

Guarded == Verify /\ ("corrupt" \in Env => "overlap" \notin Env)

\* What a pass has decided to copy is sound, or gone by now.
SourcesSound ==
    \A d \in Device : \A m \in plan[d] :
        LET e == entries[Place(d, m.from)][Named(m)]
        IN  e # NoFile => e.form = "sound"

\* Where a step other than damage changes a file, it leaves a sound one or
\* none.
LEMMA ChangesAreSound ==
    ASSUME TypeOK, SourcesSound, [Next]_vars,
           ~ \E x \in Dir, n \in Name : Corrupt(x, n),
           NEW x \in Dir, NEW n \in Name
    PROVE  \/ entries'[x][n] \in {entries[x][n], NoFile}
           \/ entries'[x][n].form = "sound"
  <1>1. ASSUME NEW d \in Device, NEW id \in Id, NEW date \in Date, Save(d, id, date)
        PROVE  \/ entries'[x][n] \in {entries[x][n], NoFile}
               \/ entries'[x][n].form = "sound"
    <2>1. entries'[d][<<date, id>>].form = "sound"
      BY <1>1, SaveFiles
    <2>2. \A y \in Dir, k \in Name :
             \/ y = d /\ k = <<date, id>>
             \/ entries'[y][k] = entries[y][k]
             \/ entries'[y][k] = NoFile
      BY <1>1, SaveFiles
    <2> QED BY <2>1, <2>2
  <1>2. ASSUME NEW d \in Device, NEW m \in Move, Copy(d, m)
        PROVE  \/ entries'[x][n] \in {entries[x][n], NoFile}
               \/ entries'[x][n].form = "sound"
    <2>1. \/ entries'[x][n] = entries[x][n]
          \/ entries'[x][n] = entries[Place(d, m.from)][Named(m)]
      BY <1>2, CopyEffect DEF Named
    <2>2. m \in plan[d]
      BY <1>2 DEF Copy
    <2> QED BY <2>1, <2>2 DEF SourcesSound
  <1>3. ASSUME NEW d \in Device,
               (\E i \in Id : Delete(d, i) \/ ApplyTomb(d, i)) \/ Purge(d)
        PROVE  entries'[x][n] \in {entries[x][n], NoFile}
    BY <1>3, RemovalsRemove
  <1>4. ASSUME NEW d \in Device, BeginPass(d) \/ Scan(d) \/ Finish(d) \/ Abandon(d)
        PROVE  entries'[x][n] = entries[x][n]
    BY <1>4, QuietEffect
  <1>5. CASE UNCHANGED vars
    BY <1>5 DEF vars
  <1> QED
    BY <1>1, <1>2, <1>3, <1>4, <1>5 DEF Next, PassStep

\* Every step leaves what is to be copied sound.
LEMMA SourcesStep ==
    ASSUME TypeOK, Guarded, DecidedOnce, SourcesSound, [Next]_vars
    PROVE  SourcesSound'
  <1>0. SUFFICES ASSUME NEW e \in Device, NEW p \in plan'[e],
                        entries'[Place(e, p.from)][Named(p)] # NoFile
                 PROVE  entries'[Place(e, p.from)][Named(p)].form = "sound"
    BY DEF SourcesSound, Named
  <1> DEFINE x == Place(e, p.from)
             n == Named(p)
  <1>1. ASSUME NEW y \in Dir, NEW k \in Name, Corrupt(y, k)
        PROVE  FALSE
    <2>1. plan' = plan /\ pc[e] = "idle"
      BY <1>1 DEF Corrupt, Guarded
    <2> QED BY <1>0, <2>1 DEF DecidedOnce
  <1>2. ASSUME NEW d \in Device, Scan(d), d = e
        PROVE  entries'[x][n].form = "sound"
    <2>1. PICK lostL, lostR : plan'[e] \subseteq Wanted(e, Seen(e, lostL, lostR))
      BY <1>2 DEF Scan, TypeOK
    <2>2. p.from \in Side /\ n \in Seen(e, lostL, lostR)[p.from]
      BY <1>0, <2>1 DEF Wanted, Best, Move, Named
    <2>3. Trusted(entries[x][n])
      BY <2>2 DEF Seen
    <2>4. entries' = entries
      BY <1>2, QuietEffect
    <2> QED BY <2>3, <2>4 DEF Trusted, Guarded
  <1>3. ASSUME p \in plan[e], ~ \E y \in Dir, k \in Name : Corrupt(y, k)
        PROVE  entries'[x][n].form = "sound"
    <2>1. p.from \in Side /\ n \in Name
      BY <1>3 DEF TypeOK, Move, Named, Name
    <2>2. x \in Dir
      BY <2>1, Sides
    <2>3. entries[x][n] # NoFile => entries[x][n].form = "sound"
      BY <1>3 DEF SourcesSound
    <2>4. \/ entries'[x][n] \in {entries[x][n], NoFile}
          \/ entries'[x][n].form = "sound"
      <3> HIDE DEF x, n
      <3> QED BY <1>3, <2>1, <2>2, ChangesAreSound
    <2> QED BY <1>0, <2>3, <2>4
  <1>4. p \in plan[e] \/ (\E d \in Device : Scan(d) /\ d = e)
    <2>1. ASSUME NEW d \in Device, Scan(d)
          PROVE  p \in plan[e] \/ d = e
      BY <1>0, <2>1 DEF Scan, TypeOK
    <2>2. ASSUME NEW d \in Device, NEW m \in Move, Copy(d, m)
          PROVE  p \in plan[e]
      BY <1>0, <2>2 DEF Copy, TypeOK
    <2>3. ASSUME NEW d \in Device, Finish(d) \/ Abandon(d)
          PROVE  p \in plan[e]
      BY <1>0, <2>3 DEF Finish, Abandon, EndPass, TypeOK
    <2>4. ASSUME plan' = plan
          PROVE  p \in plan[e]
      BY <1>0, <2>4
    <2> QED
      BY <2>1, <2>2, <2>3, <2>4
         DEF Next, PassStep, Save, Delete, BeginPass, ApplyTomb, Purge, Corrupt, vars
  <1> QED
    BY <1>1, <1>2, <1>3, <1>4

\* What DamageStaysPut says of one step.
PutAside ==
    faults' = faults =>
        \A x \in Dir, n \in Name :
            entries'[x][n] # NoFile /\ entries'[x][n].form # "sound"
               => entries'[x][n] = entries[x][n]

\* "Never copied to the other side": nothing but the damage itself puts a
\* damaged envelope anywhere, though users write and passes fail meanwhile.
THEOREM DamageDoesNotSpread ==
    ASSUME Guarded
    PROVE  Spec => DamageStaysPut
  <1> DEFINE Inv == TypeOK /\ DecidedOnce /\ SourcesSound
  <1>1. Init => Inv
    <2> SUFFICES ASSUME Init PROVE Inv
      OBVIOUS
    <2>1. TypeOK
      BY BoundAssumption DEF Init, TypeOK
    <2> QED
      BY <2>1 DEF Init, DecidedOnce, SourcesSound
  <1>2. TypeOK' /\ Inv /\ [Next]_vars => Inv'
    BY DecidedStep, SourcesStep
  <1>3. Inv /\ [Next]_vars => [PutAside]_vars
    <2>1. ASSUME Inv, [Next]_vars, faults' = faults
          PROVE  ~ \E x \in Dir, n \in Name : Corrupt(x, n)
      BY <2>1 DEF Corrupt, Spend, TypeOK
    <2> QED BY <2>1, ChangesAreSound DEF PutAside
  <1> QED
    BY <1>1, <1>2, <1>3, TypeCorrect, PTL DEF Spec, DamageStaysPut, PutAside

-----------------------------------------------------------------------------
(* Sync implements Journal, when passes are exclusive and all that goes    *)
(* wrong is that passes end early and files cannot be removed.             *)

Reliable == Env \subseteq {"crash", "remove"}

\* A pass marks both sides with every tombstone it found on one.
Settled ==
    \A d \in Device :
        /\ known[d] \subseteq tomb[d] \cup tomb[Container]
        /\ pc[d] = "tombs" =>
              \A id \in tomb[d] \cup tomb[Container] :
                  id \in known[d] \/ (id \in tomb[d] /\ id \in tomb[Container])
        /\ pc[d] = "moves" => tomb[d] = tomb[Container]

\* Every step leaves the tombstones of the two sides of a pass settled.
LEMMA SettledStep ==
    ASSUME TypeOK, Reliable, OnePass, Settled, [Next]_vars
    PROVE  Settled'
  <1>0. SUFFICES ASSUME NEW e \in Device
                 PROVE  /\ known'[e] \subseteq tomb'[e] \cup tomb'[Container]
                        /\ pc'[e] = "tombs" =>
                              \A id \in tomb'[e] \cup tomb'[Container] :
                                 \/ id \in known'[e]
                                 \/ id \in tomb'[e] /\ id \in tomb'[Container]
                        /\ pc'[e] = "moves" => tomb'[e] = tomb'[Container]
    BY DEF Settled
  <1> DEFINE Goal == /\ known'[e] \subseteq tomb'[e] \cup tomb'[Container]
                     /\ pc'[e] = "tombs" =>
                           \A id \in tomb'[e] \cup tomb'[Container] :
                              \/ id \in known'[e]
                              \/ id \in tomb'[e] /\ id \in tomb'[Container]
                     /\ pc'[e] = "moves" => tomb'[e] = tomb'[Container]
  <1>e. e \in Dir /\ Container \in Dir /\ e # Container
    BY DirAssumption DEF Dir
  <1>1. /\ known[e] \subseteq tomb[e] \cup tomb[Container]
        /\ pc[e] = "tombs" =>
              \A id \in tomb[e] \cup tomb[Container] :
                  id \in known[e] \/ (id \in tomb[e] /\ id \in tomb[Container])
        /\ pc[e] = "moves" => tomb[e] = tomb[Container]
    BY DEF Settled
  <1>2. ASSUME NEW d \in Device, NEW id \in Id, Delete(d, id)
        PROVE  Goal
    <2>1. pc[d] = "idle" /\ pc' = pc /\ known' = known
          /\ tomb' = [tomb EXCEPT ![d] = @ \cup {id}]
      BY <1>2, FaultyNever DEF Delete, MayEdit, Reliable
    <2>2. CASE e = d
      BY <1>e, <1>1, <2>1, <2>2 DEF TypeOK
    <2>3. CASE e # d
      <3>1. d # Container
        BY DirAssumption
      <3>2. tomb'[e] = tomb[e] /\ tomb'[Container] = tomb[Container]
        BY <1>e, <2>1, <2>3, <3>1 DEF TypeOK
      <3> QED BY <1>1, <2>1, <3>2
    <2> QED BY <2>2, <2>3
  <1>3. ASSUME NEW d \in Device, BeginPass(d)
        PROVE  Goal
    <2>1. tomb' = tomb /\ pc' = [pc EXCEPT ![d] = "tombs"]
          /\ known' = [known EXCEPT ![d] = tomb[d] \cup tomb[Container]]
      BY <1>3, FaultyNever DEF BeginPass, Reliable
    <2> QED BY <1>1, <2>1 DEF TypeOK
  <1>4. ASSUME NEW d \in Device, NEW id \in Id, ApplyTomb(d, id)
        PROVE  Goal
    <2>1. /\ pc[d] = "tombs" /\ pc' = pc
          /\ known' = [known EXCEPT ![d] = @ \ {id}]
      BY <1>4 DEF ApplyTomb
    <2>2. tomb' = [x \in Dir |-> IF x \in {d, Container} THEN tomb[x] \cup {id} ELSE tomb[x]]
      BY <1>4, FaultyNever DEF ApplyTomb, Reliable
    <2>3. tomb'[Container] = tomb[Container] \cup {id}
      BY <1>e, <2>2
    <2>4. CASE e = d
      <3>1. tomb'[e] = tomb[e] \cup {id} /\ known'[e] = known[e] \ {id} /\ pc'[e] = "tombs"
        BY <1>e, <2>1, <2>2, <2>4 DEF TypeOK
      <3> QED BY <1>1, <2>1, <2>3, <2>4, <3>1
    <2>5. CASE e # d
      <3>1. pc'[e] = "idle" /\ known'[e] = known[e] /\ tomb'[e] = tomb[e]
        BY <1>e, <2>1, <2>2, <2>5 DEF OnePass, TypeOK
      <3> QED BY <1>1, <2>3, <3>1
    <2> QED BY <2>4, <2>5
  <1>5. ASSUME NEW d \in Device, Scan(d)
        PROVE  Goal
    <2>1. pc[d] = "tombs" /\ known[d] = {} /\ tomb' = tomb /\ known' = known
          /\ pc' = [pc EXCEPT ![d] = "moves"]
      BY <1>5 DEF Scan
    <2> QED BY <1>1, <2>1 DEF TypeOK
  <1>6. ASSUME NEW d \in Device, Finish(d) \/ Abandon(d)
        PROVE  Goal
    BY <1>1, <1>6 DEF Finish, Abandon, EndPass, TypeOK
  <1>7. CASE UNCHANGED <<tomb, pc, known>>
    BY <1>1, <1>7
  <1> QED
    BY <1>2, <1>3, <1>4, <1>5, <1>6, <1>7
       DEF Next, PassStep, Save, Copy, Purge, Corrupt, vars

(* What a directory shows.                                                 *)

\* Of the files of an id in a directory, the stamp of the newest, or 0.
Shown(f, id) ==
    CHOOSE s \in 0 .. MaxStamp :
        /\ \A n \in {n \in {n \in Name : f[n] # NoFile} : Trusted(f[n])} :
              n[2] = id => f[n].created <= s
        /\ \/ s = 0
           \/ \E n \in {n \in {n \in Name : f[n] # NoFile} : Trusted(f[n])} :
                 n[2] = id /\ f[n].created = s

\* s is that stamp.
Newest(f, id, s) ==
    /\ \A n \in Name : f[n] # NoFile /\ Trusted(f[n]) /\ n[2] = id => f[n].created <= s
    /\ \/ s = 0
       \/ \E n \in Name : f[n] # NoFile /\ Trusted(f[n]) /\ n[2] = id /\ f[n].created = s

Files == [Name -> Envelope \cup {NoFile}]

\* There is such a stamp, and only one.
LEMMA ShownFacts ==
    ASSUME NEW f \in Files, NEW id
    PROVE  /\ Shown(f, id) \in 0 .. MaxStamp
           /\ Newest(f, id, Shown(f, id))
           /\ \A s \in 0 .. MaxStamp : Newest(f, id, s) => s = Shown(f, id)
  <1> DEFINE F == {n \in Name : f[n] # NoFile /\ Trusted(f[n]) /\ n[2] = id}
             S == {f[n].created : n \in F}
  <1>1. \A n \in F : f[n].created \in 1 .. MaxStamp
    BY DEF Files, Envelope
  <1>2. \E s \in 0 .. MaxStamp : Newest(f, id, s)
    <2>1. CASE F = {}
      BY <2>1, BoundAssumption DEF Newest
    <2>2. CASE F # {}
      <3>1. S \subseteq 0 .. MaxStamp /\ S # {}
        BY <1>1, <2>2
      <3>2. PICK s \in S : \A t \in S : t <= s
        <4> HIDE DEF S
        <4> QED BY <3>1, LatestStamp
      <3>3. s \in 0 .. MaxStamp
        BY <3>1, <3>2
      <3>4. Newest(f, id, s)
        BY <3>2 DEF Newest
      <3> QED BY <3>3, <3>4
    <2> QED BY <2>1, <2>2
  <1>3. Shown(f, id) = CHOOSE s \in 0 .. MaxStamp : Newest(f, id, s)
    <2>1. \A s : Newest(f, id, s) <=>
             /\ \A n \in {n \in {n \in Name : f[n] # NoFile} : Trusted(f[n])} :
                   n[2] = id => f[n].created <= s
             /\ \/ s = 0
                \/ \E n \in {n \in {n \in Name : f[n] # NoFile} : Trusted(f[n])} :
                      n[2] = id /\ f[n].created = s
      BY DEF Newest
    <2> QED BY <2>1 DEF Shown
  <1>4. Shown(f, id) \in 0 .. MaxStamp /\ Newest(f, id, Shown(f, id))
    BY <1>2, <1>3
  <1>5. ASSUME NEW s \in 0 .. MaxStamp, NEW t \in 0 .. MaxStamp,
               Newest(f, id, s), Newest(f, id, t)
        PROVE  s <= t
    <2>1. CASE s = 0
      BY <2>1
    <2>2. CASE s # 0
      BY <1>5, <2>2 DEF Newest
    <2> QED BY <2>1, <2>2
  <1>6. ASSUME NEW s \in 0 .. MaxStamp, Newest(f, id, s)
        PROVE  s = Shown(f, id)
    <2>1. s <= Shown(f, id) /\ Shown(f, id) <= s
      BY <1>4, <1>5, <1>6
    <2> QED BY <1>4, <2>1, BoundAssumption
  <1> QED
    BY <1>4, <1>6

\* It depends on the files of the id only.
LEMMA ShownSame ==
    ASSUME NEW f \in Files, NEW g \in Files, NEW id,
           \A n \in Name : n[2] = id => f[n] = g[n]
    PROVE  Shown(f, id) = Shown(g, id)
  <1>1. Shown(f, id) \in 0 .. MaxStamp /\ Newest(f, id, Shown(f, id))
    BY ShownFacts
  <1>2. Newest(g, id, Shown(f, id))
    BY <1>1 DEF Newest
  <1> QED
    BY <1>1, <1>2, ShownFacts

\* A directory shows "gone" or its newest stamp, before and after a step.
LEMMA ViewIs ==
    \A x \in Dir, id \in Id :
        /\ View[x][id] = IF id \in tomb[x] THEN Gone ELSE Shown(entries[x], id)
        /\ View'[x][id] = IF id \in tomb'[x] THEN Gone ELSE Shown(entries'[x], id)
  BY DEF View, Shown, Vouched, Present

\* Stamps are numbers, and "gone" is above all of them.
LEMMA ViewType ==
    ASSUME TypeOK, TypeOK'
    PROVE  /\ View \in [Dir -> [Id -> 0 .. Gone]]
           /\ View' \in [Dir -> [Id -> 0 .. Gone]]
           /\ \A x \in Dir, id \in Id : id \notin tomb[x] => View[x][id] \in 0 .. MaxStamp
  <1>1. Gone \in 0 .. Gone /\ 0 .. MaxStamp \subseteq 0 .. Gone
    BY BoundAssumption DEF Gone
  <1>2. \A x \in Dir : entries[x] \in Files /\ entries'[x] \in Files
    BY DEF TypeOK, Files
  <1>3. \A x \in Dir, id \in Id :
           /\ View[x][id] \in 0 .. Gone
           /\ View'[x][id] \in 0 .. Gone
           /\ id \notin tomb[x] => View[x][id] \in 0 .. MaxStamp
    BY <1>1, <1>2, ShownFacts, ViewIs
  <1>4. View = [x \in Dir |-> [id \in Id |-> View[x][id]]]
    BY DEF View
  <1>5. View' = [x \in Dir |-> [id \in Id |-> View'[x][id]]]
    BY DEF View
  <1> QED
    BY <1>3, <1>4, <1>5

\* A directory keeps showing the same of an id whose files and tombstone stay,
\* or which has its tombstone already.
LEMMA ViewKept ==
    ASSUME TypeOK, TypeOK', NEW x \in Dir, NEW id \in Id,
           id \in tomb[x] <=> id \in tomb'[x],
           id \in tomb[x] \/ \A n \in Name : n[2] = id => entries'[x][n] = entries[x][n]
    PROVE  View'[x][id] = View[x][id]
  <1>1. CASE id \in tomb[x]
    BY <1>1, ViewIs
  <1>2. CASE id \notin tomb[x]
    <2>1. entries[x] \in Files /\ entries'[x] \in Files
      BY DEF TypeOK, Files
    <2>2. Shown(entries'[x], id) = Shown(entries[x], id)
      BY <1>2, <2>1, ShownSame
    <2> QED BY <1>2, <2>2, ViewIs
  <1> QED
    BY <1>1, <1>2

\* Two views that show the same are the same, and one that shows one thing
\* differently is the other with that one replaced.
LEMMA ViewStep ==
    ASSUME TypeOK, TypeOK'
    PROVE  /\ (\A x \in Dir, id \in Id : View'[x][id] = View[x][id]) => View' = View
           /\ \A y \in Dir, i \in Id :
                 (\A x \in Dir, id \in Id : View'[x][id] = View[x][id] \/ (x = y /\ id = i))
                    => View' = [View EXCEPT ![y][i] = View'[y][i]]
  <1>1. /\ View \in [Dir -> [Id -> 0 .. Gone]]
        /\ View' \in [Dir -> [Id -> 0 .. Gone]]
    BY ViewType
  <1>2. ASSUME NEW f \in [Dir -> [Id -> 0 .. Gone]], NEW g \in [Dir -> [Id -> 0 .. Gone]],
               \A x \in Dir, id \in Id : g[x][id] = f[x][id]
        PROVE  g = f
    <2>1. \A x \in Dir : g[x] = f[x]
      <3> TAKE x \in Dir
      <3>1. f[x] \in [Id -> 0 .. Gone] /\ g[x] \in [Id -> 0 .. Gone]
        OBVIOUS
      <3> QED BY <1>2, <3>1
    <2> QED BY <2>1
  <1>3. ASSUME NEW y \in Dir, NEW i \in Id,
               \A x \in Dir, id \in Id : View'[x][id] = View[x][id] \/ (x = y /\ id = i)
        PROVE  View' = [View EXCEPT ![y][i] = View'[y][i]]
    <2> DEFINE g == [View EXCEPT ![y][i] = View'[y][i]]
    <2>1. g \in [Dir -> [Id -> 0 .. Gone]]
      <3>1. View'[y][i] \in 0 .. Gone
        BY <1>1
      <3> QED BY <1>1, <3>1
    <2>2. \A x \in Dir, id \in Id : g[x][id] = View'[x][id]
      BY <1>1, <1>3
    <2> QED BY <1>1, <1>2, <2>1, <2>2
  <1> QED
    BY <1>1, <1>2, <1>3

\* A file that is there shows at least its stamp; nothing there is newer than
\* the clock.
LEMMA ShowsFile ==
    ASSUME TypeOK, AllSound, Stamped, NEW x \in Dir, NEW id \in Id, id \notin tomb[x]
    PROVE  /\ View[x][id] = 0 \/ \E n \in Present(x) : n[2] = id /\ View[x][id] = entries[x][n].created
           /\ \A n \in Present(x) : n[2] = id => entries[x][n].created <= View[x][id]
           /\ View[x][id] \in 0 .. MaxStamp
           /\ View[x][id] <= newest[id] /\ View[x][id] <= now
  <1>1. entries[x] \in Files
    BY DEF TypeOK, Files
  <1>2. View[x][id] \in 0 .. MaxStamp /\ Newest(entries[x], id, View[x][id])
    BY <1>1, ShownFacts, ViewIs
  <1>3. View[x][id] = 0 \/ \E n \in Present(x) : n[2] = id /\ View[x][id] = entries[x][n].created
    BY <1>2 DEF Newest, Present
  <1>4. \A n \in Present(x) : n[2] = id => entries[x][n].created <= View[x][id]
    BY <1>2 DEF Newest, Present, AllSound, Trusted
  <1>5. newest[id] \in Nat /\ now \in Nat /\ newest[id] <= now
    BY DEF TypeOK, Stamped
  <1>6. View[x][id] <= newest[id]
    <2>1. CASE View[x][id] = 0
      BY <1>5, <2>1
    <2>2. CASE View[x][id] # 0
      BY <1>3, <2>2 DEF Stamped
    <2> QED BY <2>1, <2>2
  <1> QED
    BY <1>2, <1>3, <1>4, <1>5, <1>6

\* If a file of the id is the newest in a directory, its stamp is shown.
LEMMA ShowsNewest ==
    ASSUME TypeOK, NEW x \in Dir, NEW id \in Id, id \notin tomb[x],
           NEW n \in Best(x, Vouched(x), id)
    PROVE  View[x][id] = entries[x][n].created
  <1>1. entries[x] \in Files
    BY DEF TypeOK, Files
  <1>2. n \in Vouched(x) /\ n[2] = id /\ entries[x][n].created \in 1 .. MaxStamp
    BY VouchedType DEF Best
  <1>3. Newest(entries[x], id, entries[x][n].created)
    BY <1>2 DEF Newest, Best, Vouched, Present
  <1>4. entries[x][n].created \in 0 .. MaxStamp
    BY <1>2
  <1> QED
    BY <1>1, <1>3, <1>4, ShownFacts, ViewIs

(* Each operation, seen as a step of the journal.                          *)

\* The invariant behind the refinement.
Faithful == IInv /\ Orderly /\ Settled

\* A save is a write, or has no effect where the id is gone already.
LEMMA SaveWrites ==
    ASSUME Faithful, TypeOK', Undisturbed, SuffixFree,
           NEW d \in Device, NEW id \in Id, NEW date \in Date, Save(d, id, date)
    PROVE  J!Write(d, id) \/ View' = View
  <1> USE DEF Faithful, IInv
  <1> DEFINE k == <<date, id>>
  <1>1. d \in Dir /\ tomb' = tomb /\ k \in Name /\ k[2] = id
    BY DEF Save, Dir, Name
  <1>2. /\ now' = now + 1
        /\ entries'[d][k] = [created |-> now + 1, by |-> d, form |-> "sound"]
        /\ \A x \in Dir, n \in Name :
              \/ x = d /\ n = k
              \/ entries'[x][n] = entries[x][n]
              \/ x = d /\ n[2] = id /\ entries'[x][n] = NoFile
    BY SaveEffect
  <1>3. now + 1 \in 1 .. MaxStamp
    BY <1>2, BoundAssumption DEF TypeOK
  <1>4. ASSUME NEW x \in Dir, NEW i \in Id, ~ (x = d /\ i = id)
        PROVE  View'[x][i] = View[x][i]
    <2>1. \A n \in Name : n[2] = i => entries'[x][n] = entries[x][n]
      BY <1>1, <1>2, <1>4
    <2> QED BY <1>1, <2>1, ViewKept
  <1>5. CASE id \in tomb[d]
    <2>1. View'[d][id] = View[d][id]
      BY <1>1, <1>5, ViewKept
    <2> QED BY <1>4, <2>1, ViewStep
  <1>6. CASE id \notin tomb[d]
    <2>1. View'[d][id] = now + 1
      <3>1. entries'[d] \in Files
        BY <1>1 DEF TypeOK, Files
      <3>2. entries'[d][k] # NoFile
        BY SaveFiles
      <3>3. ASSUME NEW n \in Name, entries'[d][n] # NoFile, n[2] = id, n # k
            PROVE  entries'[d][n].created <= now + 1
        <4>1. entries'[d][n] = entries[d][n] /\ n \in Present(d)
          BY <1>1, <1>2, <3>3 DEF Present
        <4>2. entries[d][n].created <= newest[id] /\ newest[id] <= now
              /\ newest[id] \in Nat /\ now \in Nat /\ entries[d][n].created \in Nat
          BY <1>1, <3>3, <4>1 DEF Stamped, TypeOK, Present, Envelope
        <4> QED BY <4>1, <4>2
      <3>4. Newest(entries'[d], id, now + 1)
        BY <1>1, <1>2, <1>3, <3>2, <3>3 DEF Newest, Trusted
      <3>5. Shown(entries'[d], id) = now + 1
        BY <1>3, <3>1, <3>4, ShownFacts
      <3> QED BY <1>1, <1>6, <3>5, ViewIs
    <2>2. \A x \in Dir : View[x][id] < Gone => now + 1 > View[x][id]
      <3> TAKE x \in Dir
      <3>1. CASE id \in tomb[x]
        BY <3>1, ViewIs, BoundAssumption DEF Gone
      <3>2. CASE id \notin tomb[x]
        <4>1. View[x][id] <= now /\ View[x][id] \in Nat /\ now \in Nat
          BY <3>2, ShowsFile DEF TypeOK
        <4> QED BY <4>1
      <3> QED BY <3>1, <3>2
    <2>3. View[d][id] < Gone
      <3>1. View[d][id] \in 0 .. MaxStamp
        BY <1>1, <1>6, ShowsFile
      <3> QED BY <3>1, BoundAssumption DEF Gone
    <2>4. View[d][id] # 0 \/ \A x \in Dir : View[x][id] = 0
      <3>1. CASE Holds(d, id)
        <4>1. PICK n \in Present(d) : n[2] = id
          BY <3>1 DEF Holds
        <4>2. entries[d][n].created <= View[d][id] /\ entries[d][n].created \in 1 .. MaxStamp
          BY <1>1, <1>6, <4>1, ShowsFile DEF TypeOK, Present, Envelope
        <4> QED BY <4>2, <1>1, <1>6, ShowsFile
      <3>2. CASE newest[id] = 0 /\ id \notin deleted
        <4>1. ASSUME NEW x \in Dir
              PROVE  View[x][id] = 0
          <5>1. id \notin tomb[x]
            BY <3>2 DEF TombsDeleted
          <5>2. View[x][id] <= 0 /\ View[x][id] \in Nat
            BY <3>2, <5>1, ShowsFile
          <5> QED BY <5>2
        <4> QED BY <4>1
      <3> QED BY <3>1, <3>2 DEF Save
    <2>5. View' = [View EXCEPT ![d][id] = now + 1]
      BY <1>1, <1>4, <2>1, ViewStep
    <2>6. now + 1 \in 1 .. Gone - 1
      BY <1>3, BoundAssumption DEF Gone
    <2> QED BY <2>2, <2>3, <2>4, <2>5, <2>6 DEF J!Write
  <1> QED
    BY <1>5, <1>6

\* A delete is a removal, or has no effect where the id is gone already.
LEMMA DeleteRemoves ==
    ASSUME Faithful, TypeOK', Reliable, SuffixFree,
           NEW d \in Device, NEW id \in Id, Delete(d, id)
    PROVE  J!Remove(d, id) \/ View' = View
  <1> USE DEF Faithful, IInv
  <1>1. d \in Dir /\ tomb' = [tomb EXCEPT ![d] = @ \cup {id}]
    BY FaultyNever DEF Delete, Reliable, Dir
  <1>2. \A x \in Dir, n \in Name :
           entries'[x][n] = entries[x][n] \/ (x = d /\ n[2] = id)
    <2>1. \A x \in Dir : x # d => entries'[x] = entries[x]
      BY DEF Delete, TypeOK
    <2> QED BY <2>1, DeleteEffect
  <1>3. ASSUME NEW x \in Dir, NEW i \in Id, ~ (x = d /\ i = id)
        PROVE  View'[x][i] = View[x][i]
    <2>1. \A n \in Name : n[2] = i => entries'[x][n] = entries[x][n]
      BY <1>2, <1>3
    <2>2. i \in tomb[x] <=> i \in tomb'[x]
      BY <1>1, <1>3 DEF TypeOK
    <2> QED BY <2>1, <2>2, ViewKept
  <1>4. id \in tomb'[d] /\ View'[d][id] = Gone
    BY <1>1, ViewIs DEF TypeOK
  <1>5. CASE id \in tomb[d]
    <2>1. View'[d][id] = View[d][id]
      BY <1>1, <1>4, <1>5, ViewIs
    <2> QED BY <1>3, <2>1, ViewStep
  <1>6. CASE id \notin tomb[d]
    <2>1. View' = [View EXCEPT ![d][id] = Gone]
      BY <1>1, <1>3, <1>4, ViewStep
    <2>2. PICK n \in Present(d) : n[2] = id
      BY DEF Delete, Holds
    <2>3. entries[d][n].created <= View[d][id] /\ entries[d][n].created \in 1 .. MaxStamp
      BY <1>1, <1>6, <2>2, ShowsFile DEF TypeOK, Present, Envelope
    <2>4. View[d][id] \in 0 .. MaxStamp
      BY <1>1, <1>6, ShowsFile
    <2>5. View[d][id] \in 1 .. Gone - 1
      BY <2>3, <2>4, BoundAssumption DEF Gone
    <2> QED BY <2>1, <2>5 DEF J!Remove
  <1> QED
    BY <1>5, <1>6

\* Applying a tombstone lets the side without it catch up with the other.
LEMMA TombAdopts ==
    ASSUME Faithful, TypeOK', Reliable, SuffixFree,
           NEW d \in Device, NEW id \in Id, ApplyTomb(d, id)
    PROVE  J!Adopt(d, Container, id) \/ J!Adopt(Container, d, id) \/ View' = View
  <1> USE DEF Faithful, IInv
  <1>1. /\ d \in Dir /\ Container \in Dir /\ d # Container
        /\ tomb' = [x \in Dir |-> IF x \in {d, Container} THEN tomb[x] \cup {id} ELSE tomb[x]]
        /\ id \in tomb[d] \/ id \in tomb[Container]
    <2>1. id \in tomb[d] \/ id \in tomb[Container]
      BY DEF ApplyTomb, Settled
    <2> QED BY <2>1, FaultyNever, DirAssumption DEF ApplyTomb, Reliable, Dir
  <1>2. ASSUME NEW x \in Dir, NEW i \in Id, i # id \/ x \notin {d, Container}
        PROVE  View'[x][i] = View[x][i]
    <2>1. \A n \in Name : n[2] = i => entries'[x][n] = entries[x][n]
      <3>1. CASE i # id
        BY <3>1, ApplyTombEffect
      <3>2. CASE x \notin {d, Container}
        BY <3>2 DEF ApplyTomb, TypeOK
      <3> QED BY <1>2, <3>1, <3>2
    <2>2. i \in tomb[x] <=> i \in tomb'[x]
      BY <1>1, <1>2
    <2> QED BY <2>1, <2>2, ViewKept
  <1>3. View'[d][id] = Gone /\ View'[Container][id] = Gone
    BY <1>1, ViewIs
  <1>4. ASSUME NEW x \in Dir, NEW y \in Dir, {x, y} = {d, Container},
               id \in tomb[y], id \notin tomb[x]
        PROVE  J!Adopt(x, y, id)
    <2>1. View[y][id] = Gone
      BY <1>4, ViewIs
    <2>2. View[y][id] > View[x][id]
      <3>1. View[x][id] \in 0 .. MaxStamp
        BY <1>4, ViewType
      <3> QED BY <2>1, <3>1, BoundAssumption DEF Gone
    <2>3. View'[y][id] = View[y][id]
      BY <1>3, <1>4, <2>1
    <2>4. \A z \in Dir, i \in Id : View'[z][i] = View[z][i] \/ (z = x /\ i = id)
      BY <1>2, <1>4, <2>3
    <2>5. View' = [View EXCEPT ![x][id] = View[y][id]]
      BY <1>3, <1>4, <2>1, <2>4, ViewStep
    <2> QED BY <2>2, <2>5 DEF J!Adopt
  <1>5. CASE id \in tomb[d] /\ id \in tomb[Container]
    <2>1. View[d][id] = Gone /\ View[Container][id] = Gone
      BY <1>1, <1>5, ViewIs
    <2> QED BY <1>2, <1>3, <2>1, ViewStep
  <1> QED
    BY <1>1, <1>4, <1>5

\* A copy lets one side of the pass catch up with the other, unless the id is
\* gone there.
LEMMA CopyAdopts ==
    ASSUME Faithful, TypeOK', SuffixFree,
           NEW d \in Device, NEW m \in Move, Copy(d, m)
    PROVE  \/ J!Adopt(Place(d, Opposite(m.from)), Place(d, m.from), m.id)
           \/ View' = View
  <1> USE DEF Faithful, IInv
  <1> DEFINE x == Place(d, m.from)
             y == Place(d, Opposite(m.from))
             k == Named(m)
  <1>1. /\ m.from \in Side /\ m.id \in Id /\ k \in Name /\ k[2] = m.id
        /\ x \in Dir /\ y \in Dir /\ {x, y} = {d, Container}
    <2>1. m.from \in Side
      BY DEF Move
    <2>2. x \in {d, Container} /\ y \in {d, Container} /\ x # y /\ x \in Dir /\ y \in Dir
      BY <2>1, Sides
    <2>3. m.id \in Id /\ k \in Name /\ k[2] = m.id
      BY DEF Move, Named, Name
    <2> QED BY <2>1, <2>2, <2>3
  <1>2. tomb' = tomb /\ m \in plan[d] /\ pc[d] = "moves"
    BY DEF Copy
  <1>3. \A z \in Dir, n \in Name :
           \/ entries'[z][n] = entries[z][n]
           \/ z = y /\ n = k /\ entries'[z][n] = entries[x][n]
    BY CopyEffect DEF Named
  <1>4. ASSUME NEW z \in Dir, NEW i \in Id, ~ (z = y /\ i = m.id)
        PROVE  View'[z][i] = View[z][i]
    <2>1. \A n \in Name : n[2] = i => entries'[z][n] = entries[z][n]
      BY <1>1, <1>3, <1>4
    <2> QED BY <1>2, <2>1, ViewKept
  <1>5. CASE m.id \in tomb[y] \/ entries'[y][k] = entries[y][k]
    <2>1. \A n \in Name : m.id \notin tomb[y] => entries'[y][n] = entries[y][n]
      BY <1>1, <1>3, <1>5
    <2>2. View'[y][m.id] = View[y][m.id]
      BY <1>1, <1>2, <2>1, ViewKept
    <2> QED BY <1>4, <2>2, ViewStep
  <1>6. CASE m.id \notin tomb[y] /\ entries'[y][k] = entries[x][k]
    <2>1. m.id \notin tomb[x]
      BY <1>1, <1>2, <1>6 DEF Settled
    <2>2. AheadOf(d, m)
      BY <1>2 DEF Orderly, Ahead
    <2>3. k \in Best(x, Vouched(x), m.id) /\ entries[x][k].created \in 1 .. MaxStamp
          /\ k \in Vouched(x)
      BY <1>1, <2>2, VouchedType DEF AheadOf, Best
    <2>4. View[x][m.id] = entries[x][k].created
      BY <1>1, <2>1, <2>3, ShowsNewest
    <2>5. View[y][m.id] < entries[x][k].created
      <3>1. CASE View[y][m.id] = 0
        BY <2>3, <3>1
      <3>2. CASE View[y][m.id] # 0
        <4>1. PICK n \in Present(y) : n[2] = m.id /\ View[y][m.id] = entries[y][n].created
          BY <1>1, <1>6, <3>2, ShowsFile
        <4>2. n \in Vouched(y)
          BY <1>1, <4>1 DEF Vouched, AllSound, Trusted
        <4> QED BY <2>2, <4>1, <4>2 DEF AheadOf
      <3> QED BY <3>1, <3>2
    <2>6. View'[y][m.id] = entries[x][k].created
      <3>1. entries'[y] \in Files
        BY <1>1 DEF TypeOK, Files
      <3>2. ASSUME NEW n \in Name, entries'[y][n] # NoFile, Trusted(entries'[y][n]), n[2] = m.id
            PROVE  entries'[y][n].created <= entries[x][k].created
        <4>1. CASE n = k
          BY <1>6, <2>3, <4>1
        <4>2. CASE n # k
          <5>1. entries'[y][n] = entries[y][n] /\ n \in Vouched(y)
            BY <1>1, <1>3, <3>2, <4>2 DEF Vouched, Present
          <5>2. entries[y][n].created < entries[x][k].created
            BY <2>2, <3>2, <5>1 DEF AheadOf
          <5>3. entries[y][n].created \in Nat
            BY <1>1, <5>1, VouchedType
          <5> QED BY <2>3, <5>1, <5>2, <5>3
        <4> QED BY <4>1, <4>2
      <3>3. entries'[y][k] # NoFile /\ Trusted(entries'[y][k])
        BY <1>6, <2>3 DEF Vouched, Present
      <3>4. Newest(entries'[y], m.id, entries[x][k].created)
        BY <1>1, <1>6, <3>2, <3>3 DEF Newest
      <3>5. Shown(entries'[y], m.id) = entries[x][k].created
        <4>1. entries[x][k].created \in 0 .. MaxStamp
          BY <2>3
        <4> QED BY <3>1, <3>4, <4>1, ShownFacts
      <3> QED BY <1>1, <1>2, <1>6, <3>5, ViewIs
    <2>7. View' = [View EXCEPT ![y][m.id] = View[x][m.id]]
      BY <1>1, <1>4, <2>4, <2>6, ViewStep
    <2>8. View[x][m.id] > View[y][m.id]
      BY <2>4, <2>5
    <2> QED BY <2>7, <2>8 DEF J!Adopt
  <1>7. entries'[y][k] \in {entries[y][k], entries[x][k]}
    BY <1>1, <1>3
  <1> QED
    BY <1>5, <1>6, <1>7

\* A purge changes no view: the newest file is the one it spares.
LEMMA PurgeShowsSame ==
    ASSUME Faithful, TypeOK', SuffixFree, NEW d \in Device, Purge(d)
    PROVE  View' = View
  <1> USE DEF Faithful, IInv
  <1> DEFINE m == cur[d]
             y == Place(d, Opposite(m.from))
             k == Named(m)
  <1>1. tomb' = tomb /\ m # NoMove /\ m \in Move
    BY DEF Purge, TypeOK
  <1>2. y \in Dir /\ m.id \in Id /\ k \in Name /\ k[2] = m.id
    <2>1. m.from \in Side /\ m.id \in Id /\ k \in Name /\ k[2] = m.id
      BY <1>1 DEF Move, Named, Name
    <2> QED BY <2>1, Sides
  <1>3. \A x \in Dir, n \in Name :
           \/ entries'[x][n] = entries[x][n]
           \/ x = y /\ n[2] = m.id /\ n # k /\ entries'[x][n] = NoFile
    BY PurgeEffect DEF Named
  <1>4. ASSUME NEW z \in Dir, NEW i \in Id, ~ (z = y /\ i = m.id)
        PROVE  View'[z][i] = View[z][i]
    <2>1. \A n \in Name : n[2] = i => entries'[z][n] = entries[z][n]
      BY <1>3, <1>4
    <2> QED BY <1>1, <2>1, ViewKept
  <1>5. View'[y][m.id] = View[y][m.id]
    <2>1. CASE m.id \in tomb[y]
      BY <1>1, <1>2, <2>1, ViewKept
    <2>2. CASE m.id \notin tomb[y]
      <3>1. k \in Best(y, Vouched(y), m.id)
        BY <1>1 DEF Orderly, Landed, LandedOf
      <3>2. k \in Vouched(y) /\ entries[y][k].created \in 1 .. MaxStamp
        BY <1>2, <3>1, VouchedType DEF Best
      <3>3. View[y][m.id] = entries[y][k].created
        BY <1>2, <2>2, <3>1, ShowsNewest
      <3>4. entries'[y][k] = entries[y][k]
        BY <1>2, <1>3
      <3>5. entries'[y] \in Files
        BY <1>2 DEF TypeOK, Files
      <3>6. ASSUME NEW n \in Name, entries'[y][n] # NoFile, Trusted(entries'[y][n]), n[2] = m.id
            PROVE  entries'[y][n].created <= entries[y][k].created
        <4>1. entries'[y][n] = entries[y][n]
          BY <1>2, <1>3, <3>6
        <4>2. n \in Vouched(y)
          BY <3>6, <4>1 DEF Vouched, Present
        <4> QED BY <3>1, <3>6, <4>1, <4>2 DEF Best
      <3>7. Newest(entries'[y], m.id, entries[y][k].created)
        BY <1>2, <3>2, <3>4, <3>6 DEF Newest, Vouched, Present
      <3>8. Shown(entries'[y], m.id) = entries[y][k].created
        <4>1. entries[y][k].created \in 0 .. MaxStamp
          BY <3>2
        <4> QED BY <3>5, <3>7, <4>1, ShownFacts
      <3> QED BY <1>1, <1>2, <2>2, <3>3, <3>8, ViewIs
    <2> QED BY <2>1, <2>2
  <1> QED
    BY <1>4, <1>5, ViewStep

\* A step that leaves the files and the tombstones changes no view.
LEMMA QuietShowsSame ==
    ASSUME TypeOK, TypeOK', entries' = entries, tomb' = tomb
    PROVE  View' = View
  <1>1. \A x \in Dir, id \in Id : View'[x][id] = View[x][id]
    BY ViewKept
  <1> QED
    BY <1>1, ViewStep

\* Before anything happens no directory shows anything.
LEMMA NothingShown ==
    ASSUME Init
    PROVE  J!Init
  <1>1. ASSUME NEW x \in Dir, NEW id \in Id
        PROVE  View[x][id] = 0
    <2>1. entries[x] \in Files /\ \A n \in Name : entries[x][n] = NoFile
      BY DEF Init, Files
    <2>2. Newest(entries[x], id, 0) /\ 0 \in 0 .. MaxStamp
      BY <2>1, BoundAssumption DEF Newest
    <2>3. Shown(entries[x], id) = 0
      BY <2>1, <2>2, ShownFacts
    <2>4. id \notin tomb[x]
      BY DEF Init
    <2> QED BY <2>3, <2>4, ViewIs
  <1>2. View = [x \in Dir |-> [id \in Id |-> View[x][id]]]
    BY DEF View
  <1>3. View = [x \in Dir |-> [id \in Id |-> 0]]
    BY <1>1, <1>2
  <1> QED
    BY <1>3 DEF J!Init

\* Every step is a step of the journal or changes no view.
LEMMA JournalStep ==
    ASSUME Faithful, TypeOK', Reliable, SuffixFree, [Next]_vars
    PROVE  J!Next \/ View' = View
  <1>1. TypeOK /\ Undisturbed
    BY DEF Faithful, IInv, Reliable, Undisturbed
  <1>2. ASSUME NEW d \in Device, NEW id \in Id, NEW date \in Date, Save(d, id, date)
        PROVE  J!Next \/ View' = View
    <2>1. J!Write(d, id) \/ View' = View
      BY <1>1, <1>2, SaveWrites
    <2> QED BY <2>1 DEF J!Next
  <1>3. ASSUME NEW d \in Device, NEW id \in Id, Delete(d, id)
        PROVE  J!Next \/ View' = View
    <2>1. J!Remove(d, id) \/ View' = View
      BY <1>3, DeleteRemoves
    <2> QED BY <2>1 DEF J!Next
  <1>4. ASSUME NEW d \in Device, NEW id \in Id, ApplyTomb(d, id)
        PROVE  J!Next \/ View' = View
    <2>1. J!Adopt(d, Container, id) \/ J!Adopt(Container, d, id) \/ View' = View
      BY <1>4, TombAdopts
    <2>2. d \in Dir /\ Container \in Dir
      BY DEF Dir
    <2> QED BY <2>1, <2>2 DEF J!Next
  <1>5. ASSUME NEW d \in Device, NEW m \in Move, Copy(d, m)
        PROVE  J!Next \/ View' = View
    <2>1. \/ J!Adopt(Place(d, Opposite(m.from)), Place(d, m.from), m.id)
          \/ View' = View
      BY <1>5, CopyAdopts
    <2>2. m.id \in Id /\ m.from \in Side
      BY DEF Move
    <2>3. Place(d, Opposite(m.from)) \in Dir /\ Place(d, m.from) \in Dir
      BY <2>2, PlaceType
    <2> QED BY <2>1, <2>2, <2>3 DEF J!Next
  <1>6. ASSUME NEW d \in Device, Purge(d)
        PROVE  View' = View
    BY <1>6, PurgeShowsSame
  <1>7. ASSUME NEW d \in Device, BeginPass(d) \/ Scan(d) \/ Finish(d) \/ Abandon(d)
        PROVE  View' = View
    <2>1. entries' = entries /\ tomb' = tomb
      BY <1>7 DEF BeginPass, Scan, Finish, Abandon, EndPass
    <2> QED BY <1>1, <2>1, QuietShowsSame
  <1>8. ASSUME NEW x \in Dir, NEW n \in Name, Corrupt(x, n)
        PROVE  FALSE
    BY <1>1, <1>8 DEF Corrupt, Undisturbed
  <1>9. CASE UNCHANGED vars
    <2>1. entries' = entries /\ tomb' = tomb
      BY <1>9 DEF vars
    <2> QED BY <1>1, <2>1, QuietShowsSame
  <1> QED
    BY <1>2, <1>3, <1>4, <1>5, <1>6, <1>7, <1>8, <1>9 DEF Next, PassStep

\* Any number of devices, each syncing with the container in steps of many
\* files that may end early or leave files behind, is the journal in which
\* a directory only ever moves up: from nothing to a version, to a newer
\* version, to gone.
THEOREM SyncImplementsJournal ==
    ASSUME Reliable, SuffixFree
    PROVE  Spec => ImplementsJournal
  <1>1. Exclusive /\ Undisturbed
    BY DEF Reliable, Exclusive, Undisturbed
  <1>2. Spec => []Orderly
    BY <1>1, DecisionsStayRight
  <1>3. Spec => []IInv
    BY <1>1, Inductive
  <1>4. Init => Settled
    BY DEF Init, Settled, Dir
  <1>5. Orderly /\ Settled /\ [Next]_vars => Settled'
    BY SettledStep DEF Orderly
  <1>6. Init => J!Init
    BY NothingShown
  <1>7. IInv /\ Orderly /\ Settled /\ IInv' /\ [Next]_vars => [J!Next]_View
    BY JournalStep DEF Faithful, IInv
  <1> QED
    BY <1>2, <1>3, <1>4, <1>5, <1>6, <1>7, PTL DEF Spec, ImplementsJournal, J!Spec
=============================================================================
