--------------------------- MODULE EnvelopeProofs ---------------------------
(***************************************************************************)
(* What holds of Envelope for any number of keys, labels, dates, stamps,   *)
(* texts and content keys.                                                 *)
(***************************************************************************)
EXTENDS Envelope, TLAPS

\* A wrap that the library made: the header it is bound to agrees with what
\* its content key was drawn for, as far as the wrap binds it.  `drawn` is a
\* value of `born`.
GenuineWrap(drawn, box) ==
    LET made == drawn[box.content]
    IN  /\ made # None
        /\ box.aad.v = made.v
        /\ box.aad.id = made.id
        /\ made.v = 2 => box.aad.date = made.date /\ box.aad.created = made.created

\* A payload that the library made: it holds the text that its key was drawn
\* for, bound to that version and id.
GenuinePayload(drawn, box) ==
    LET made == drawn[box.key]
    IN  made # None /\ box.aad = <<made.v, made.id>> /\ box.content = made.plain

Genuine(drawn, e) ==
    GenuineWrap(drawn, e.wrapped) /\ GenuinePayload(drawn, e.payload)

\* Storage may mix the parts of two files and their headers, and cannot make
\* a part.
IInv == TypeOK /\ Genuine(born, file) /\ Genuine(born, stale) /\ Readable

-----------------------------------------------------------------------------
\* What a wrap is bound to has the version and the id of the header, and in
\* version 2 its date and stamp.
LEMMA WrapBinds ==
    ASSUME NEW h \in Header
    PROVE  /\ wrap_aad(h) \in WrapAad
           /\ wrap_aad(h).v = h.v
           /\ wrap_aad(h).id = h.id
           /\ h.v = 2 => wrap_aad(h) = h
<1>1. wrap_aad(h) \in WrapAad
  BY DEF WrapAad
<1>2. CASE h.v = 1
  BY <1>1, <1>2 DEF wrap_aad, Header
<1>3. CASE h.v = 2
  BY <1>1, <1>3 DEF wrap_aad
<1> QED
  BY <1>2, <1>3 DEF Header

\* A freshly sealed file is a file, opens, and all of it is genuine once its
\* content key is recorded.
LEMMA SealFacts ==
    ASSUME NEW k \in Key, NEW h \in Header, NEW c \in Cek, NEW p \in Plain
    PROVE  /\ seal_envelope(k, h, c, p) \in File
           /\ Opens(k, seal_envelope(k, h, c, p))
           /\ seal_envelope(k, h, c, p).header = h
           /\ seal_envelope(k, h, c, p).payload.content = p
           /\ SealingOf(h, p) \in Sealing
           /\ \A drawn : drawn[c] = SealingOf(h, p)
                            => Genuine(drawn, seal_envelope(k, h, c, p))
<1> DEFINE e == seal_envelope(k, h, c, p)
<1>1. wrap_aad(h) \in WrapAad /\ payload_aad(h) \in PayloadAad
  BY WrapBinds DEF payload_aad, PayloadAad, Header
<1>2. /\ e.header = h
      /\ e.wrapped = [key |-> k, aad |-> wrap_aad(h), content |-> c]
      /\ e.payload = [key |-> c, aad |-> payload_aad(h), content |-> p]
  BY DEF seal_envelope, seal
<1>3. e \in File
  BY <1>1 DEF seal_envelope, seal, File, Box
<1>4. Opens(k, e)
  BY <1>2 DEF Opens, Unwraps, opens
<1>5. SealingOf(h, p) \in Sealing
  BY DEF SealingOf, Sealing, Header
<1>6. ASSUME NEW drawn, drawn[c] = SealingOf(h, p)
      PROVE Genuine(drawn, e)
  <2>1. /\ drawn[c] # None
        /\ drawn[c].v = h.v /\ drawn[c].id = h.id /\ drawn[c].plain = p
        /\ drawn[c].date = h.date /\ drawn[c].created = h.created
    BY <1>5, <1>6, SealingAssumption DEF SealingOf
  <2>2. GenuineWrap(drawn, e.wrapped)
    BY <1>2, <2>1, WrapBinds DEF GenuineWrap
  <2>3. GenuinePayload(drawn, e.payload)
    BY <1>2, <2>1 DEF GenuinePayload, payload_aad
  <2> QED
    BY <2>2, <2>3 DEF Genuine
<1> QED
  BY <1>2, <1>3, <1>4, <1>5, <1>6

\* Drawing a fresh content key leaves what was genuine genuine.
LEMMA GenuineStays ==
    ASSUME TypeOK, NEW c \in Fresh, NEW s, NEW e \in File, Genuine(born, e)
    PROVE  Genuine([born EXCEPT ![c] = s], e)
<1>1. e.wrapped.content \in Cek /\ e.payload.key \in Cek
  BY DEF File, Box
<1>2. e.wrapped.content # c /\ e.payload.key # c
  BY DEF Genuine, GenuineWrap, GenuinePayload, Fresh
<1>3. /\ [born EXCEPT ![c] = s][e.wrapped.content] = born[e.wrapped.content]
      /\ [born EXCEPT ![c] = s][e.payload.key] = born[e.payload.key]
  BY <1>1, <1>2 DEF TypeOK
<1> QED
  BY <1>3 DEF Genuine, GenuineWrap, GenuinePayload

\* Where a file comes from does not matter: if it opens under any root, its
\* text, id and version were sealed together, and in version 2 the date and
\* the stamp as well.
LEMMA GenuineIsAuthentic ==
    ASSUME TypeOK, Genuine(born, file)
    PROVE  Authentic
<1> SUFFICES ASSUME Opens(root, file) PROVE
        \E c \in Cek :
            /\ born[c] # None
            /\ born[c].v = file.header.v
            /\ born[c].id = file.header.id
            /\ born[c].plain = file.payload.content
            /\ file.header.v = 2 => /\ born[c].date = file.header.date
                                    /\ born[c].created = file.header.created
  BY DEF Authentic
<1> DEFINE c == file.payload.key
           made == born[c]
<1>1. /\ file.wrapped.aad = wrap_aad(file.header)
      /\ file.wrapped.content = c
      /\ file.payload.aad = <<file.header.v, file.header.id>>
  BY DEF Opens, Unwraps, opens, payload_aad
<1>2. c \in Cek /\ file.header \in Header
  BY DEF TypeOK, File, Box
<1>3. made # None /\ made.v = file.header.v /\ made.id = file.header.id
  BY <1>1 DEF Genuine, GenuinePayload
<1>4. made.plain = file.payload.content
  BY DEF Genuine, GenuinePayload
<1>5. file.header.v = 2 => made.date = file.header.date /\ made.created = file.header.created
  BY <1>1, <1>2, <1>3, WrapBinds DEF Genuine, GenuineWrap
<1> QED
  BY <1>2, <1>3, <1>4, <1>5

-----------------------------------------------------------------------------
\* A vault starts with a file the library wrote.
LEMMA InitGood == Init => IInv
<1> SUFFICES ASSUME Init PROVE IInv
  OBVIOUS
<1>1. PICK h \in Header, c \in Cek, p \in Plain, k \in Key :
        /\ file = seal_envelope(k, h, c, p)
        /\ stale = file
        /\ root = k
        /\ label = h.key
        /\ born = [x \in Cek |-> IF x = c THEN SealingOf(h, p) ELSE None]
        /\ saved = [plain |-> p, created |-> h.created]
        /\ garbled = FALSE
  BY Zenon DEF Init
<1>2. born[c] = SealingOf(h, p)
  BY <1>1
<1>3. Genuine(born, file) /\ Genuine(born, stale)
  BY <1>1, <1>2, SealFacts
<1>4. TypeOK
  BY <1>1, SealFacts DEF TypeOK, Header
<1>5. Readable
  BY <1>1, SealFacts DEF Readable
<1> QED
  BY <1>3, <1>4, <1>5 DEF IInv

\* What the parts of a file are.
LEMMA PartsOfFile ==
    ASSUME NEW e \in File
    PROVE  /\ e = [header |-> e.header, wrapped |-> e.wrapped, payload |-> e.payload]
           /\ e.header \in Header
           /\ e.wrapped \in Box(Key, WrapAad, Cek)
           /\ e.payload \in Box(Cek, PayloadAad, Plain)
  BY DEF File

\* A save leaves a readable file, made of one sealing.
LEMMA SaveGood ==
    ASSUME IInv, NEW d \in Date, NEW s \in Stamp, NEW p \in Plain, NEW c \in Cek,
           Save(d, s, p, c)
    PROVE  IInv'
<1> DEFINE h == [v |-> 2, id |-> file.header.id, date |-> d, key |-> label, created |-> s]
<1>1. h \in Header
  BY PartsOfFile DEF IInv, TypeOK, Header
<1>2. /\ file' = seal_envelope(root, h, c, p) /\ stale' = file
      /\ born' = [born EXCEPT ![c] = SealingOf(h, p)] /\ c \in Fresh
      /\ saved' = [plain |-> p, created |-> s] /\ UNCHANGED <<root, label>>
      /\ garbled' = FALSE
  BY DEF Save
<1> HIDE DEF h
<1>3. born'[c] = SealingOf(h, p) /\ root \in Key
  BY <1>2 DEF IInv, TypeOK
<1>4. Genuine(born', file')
  BY <1>1, <1>2, <1>3, SealFacts
<1>5. Genuine(born', stale')
  BY <1>2, GenuineStays DEF IInv, TypeOK
<1>6. TypeOK'
  BY <1>1, <1>2, <1>3, SealFacts DEF IInv, TypeOK
<1>7. file'.header = h /\ file'.payload.content = p /\ Opens(root', file')
  BY <1>1, <1>2, <1>3, SealFacts
<1>8. Readable'
  BY <1>2, <1>7 DEF Readable, h
<1> QED
  BY <1>4, <1>5, <1>6, <1>8 DEF IInv

\* A re-key seals the wrap again, around the same content key.
LEMMA EnrollGood ==
    ASSUME IInv, NEW k \in Key, NEW l \in Label, Enroll(k, l)
    PROVE  IInv'
<1> DEFINE h == [file.header EXCEPT !.key = l]
<1>1. /\ h \in Header /\ h.v = file.header.v /\ h.id = file.header.id
      /\ h.date = file.header.date /\ h.created = file.header.created
  BY PartsOfFile DEF IInv, TypeOK, Header
<1>2. file' = [header |-> h,
               wrapped |-> [key |-> k, aad |-> wrap_aad(h), content |-> file.wrapped.content],
               payload |-> file.payload]
  BY DEF Enroll, reseal_key, seal
<1>3. /\ root' = k /\ label' = l /\ UNCHANGED <<stale, born, saved, garbled>>
      /\ file.wrapped.aad = wrap_aad(file.header)
  BY DEF Enroll, Unwraps, opens
<1> HIDE DEF h
<1>4. TypeOK'
  <2>1. file.wrapped.content \in Cek /\ wrap_aad(h) \in WrapAad
    BY <1>1, PartsOfFile, WrapBinds DEF IInv, TypeOK, Box
  <2>2. file' \in File
    BY <1>1, <1>2, <2>1, PartsOfFile DEF IInv, TypeOK, File, Box
  <2> QED
    BY <1>3, <2>2 DEF IInv, TypeOK
<1>5. GenuineWrap(born', file'.wrapped)
  <2>1. file.header \in Header
    BY PartsOfFile DEF IInv, TypeOK
  <2>2. /\ file'.wrapped.content = file.wrapped.content
        /\ file'.wrapped.aad = wrap_aad(h)
    BY <1>2
  <2>3. /\ wrap_aad(h).v = file.wrapped.aad.v
        /\ wrap_aad(h).id = file.wrapped.aad.id
        /\ wrap_aad(h).v = 2 => /\ wrap_aad(h).date = file.wrapped.aad.date
                                /\ wrap_aad(h).created = file.wrapped.aad.created
    BY <1>1, <1>3, <2>1, WrapBinds
  <2>4. GenuineWrap(born, file.wrapped)
    BY DEF IInv, Genuine
  <2> QED
    BY <1>3, <2>2, <2>3, <2>4 DEF GenuineWrap
<1>6. Genuine(born', file') /\ Genuine(born', stale')
  BY <1>2, <1>3, <1>5 DEF IInv, Genuine
<1>7. Readable'
  <2> SUFFICES ASSUME ~ garbled'
               PROVE  /\ Opens(root', file')
                      /\ file'.payload.content = saved'.plain
                      /\ file'.header.created = saved'.created
    BY DEF Readable
  <2>1. /\ Opens(root, file)
        /\ file.payload.content = saved.plain
        /\ file.header.created = saved.created
    BY <1>3 DEF IInv, Readable
  <2>2. payload_aad(h) = payload_aad(file.header)
    BY <1>1 DEF payload_aad
  <2>3. /\ file'.header = h /\ file'.payload = file.payload
        /\ file'.wrapped = [key |-> k, aad |-> wrap_aad(h), content |-> file.wrapped.content]
    BY <1>2
  <2>4. Opens(k, file')
    BY <2>1, <2>2, <2>3 DEF Opens, Unwraps, opens
  <2> QED
    BY <1>1, <1>3, <2>1, <2>3, <2>4
<1> QED
  BY <1>4, <1>6, <1>7 DEF IInv

\* An upgrade is one sealing again, of the same text and stamp.
LEMMA MigrateGood ==
    ASSUME IInv, NEW c \in Cek, Migrate(c)
    PROVE  IInv'
<1> DEFINE h == Upgraded(file)
           p == file.payload.content
<1>1. h \in Header /\ h.created = file.header.created /\ p \in Plain
  BY PartsOfFile DEF IInv, TypeOK, Header, Upgraded, Box
<1>2. /\ file' = seal_envelope(root, h, c, p) /\ c \in Fresh
      /\ born' = [born EXCEPT ![c] = SealingOf(h, p)]
      /\ UNCHANGED <<stale, root, label, saved, garbled>>
  BY DEF Migrate
<1> HIDE DEF h, p
<1>3. born'[c] = SealingOf(h, p) /\ root \in Key
  BY <1>2 DEF IInv, TypeOK
<1>4. Genuine(born', file')
  BY <1>1, <1>2, <1>3, SealFacts
<1>5. Genuine(born', stale')
  BY <1>2, GenuineStays DEF IInv, TypeOK
<1>6. TypeOK'
  BY <1>1, <1>2, <1>3, SealFacts DEF IInv, TypeOK
<1>7. file'.header = h /\ file'.payload.content = p /\ Opens(root', file')
  BY <1>1, <1>2, <1>3, SealFacts
<1>8. Readable'
  BY <1>1, <1>2, <1>7 DEF IInv, Readable, p
<1> QED
  BY <1>4, <1>5, <1>6, <1>8 DEF IInv

\* Storage mixes what is genuine; nothing is asked of a garbled file but its
\* parts.
LEMMA GarbleGood ==
    ASSUME IInv, Garble
    PROVE  IInv'
<1>1. UNCHANGED <<stale, root, label, born, saved>> /\ garbled' = TRUE
  BY DEF Garble
<1>2. file' \in File /\ Genuine(born, file')
  <2>1. CASE \E h \in Header : file' = [file EXCEPT !.header = h]
    BY <2>1 DEF IInv, TypeOK, File, Genuine
  <2>2. CASE file' = [file EXCEPT !.wrapped = stale.wrapped]
    BY <2>2 DEF IInv, TypeOK, File, Genuine
  <2>3. CASE file' = [file EXCEPT !.payload = stale.payload]
    BY <2>3 DEF IInv, TypeOK, File, Genuine
  <2>4. CASE file' = stale
    BY <2>4 DEF IInv, TypeOK
  <2> QED
    BY <2>1, <2>2, <2>3, <2>4 DEF Garble
<1>3. TypeOK'
  BY <1>1, <1>2 DEF IInv, TypeOK
<1> QED
  BY <1>1, <1>2, <1>3 DEF IInv, Readable

\* The invariant is inductive.
LEMMA StepGood == IInv /\ [Next]_vars => IInv'
<1> SUFFICES ASSUME IInv, [Next]_vars PROVE IInv'
  OBVIOUS
<1>1. CASE UNCHANGED vars
  BY <1>1 DEF vars, IInv, TypeOK, Readable
<1> QED
  BY <1>1, SaveGood, EnrollGood, MigrateGood, GarbleGood DEF Next

-----------------------------------------------------------------------------
\* The state of Envelope always has its type.
THEOREM TypeCorrect == Spec => []TypeOK
<1>1. IInv => TypeOK
  BY DEF IInv
<1> QED
  BY <1>1, InitGood, StepGood, PTL DEF Spec

\* Any number of saves, re-keys and upgrades, in any order, leave a file that
\* opens under the live key, with the text and the stamp saved last.
THEOREM AlwaysReadable == Spec => []Readable
<1>1. IInv => Readable
  BY DEF IInv
<1> QED
  BY <1>1, InitGood, StepGood, PTL DEF Spec

\* However storage mixes the headers and the parts of earlier versions, what
\* opens was sealed as it stands.
THEOREM AlwaysAuthentic == Spec => []Authentic
<1>1. IInv => Authentic
  BY GenuineIsAuthentic DEF IInv
<1> QED
  BY <1>1, InitGood, StepGood, PTL DEF Spec
=============================================================================
