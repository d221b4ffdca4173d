-------------------------- MODULE LiveStreamProofs --------------------------
(***************************************************************************)
(* Proofs that the live feed of a case is well typed and announces every   *)
(* gap, for any number of cases, messages and database files and any       *)
(* retention.                                                              *)
(***************************************************************************)
EXTENDS LiveStream, FiniteSetTheorems, WellFoundedInduction, TLAPS

\* A set of naturals that is not empty has a least member.
LEMMA LeastExists ==
    ASSUME NEW S \in SUBSET Nat, S # {}
    PROVE  Min(S) \in S /\ \A x \in S : Min(S) <= x
<1>1. PICK x \in S : \A y \in S : ~(<<y, x>> \in OpToRel(<, Nat))
  <2> HIDE DEF OpToRel
  <2> QED BY NatLessThanWellFounded, WFMin
<1>2. \A y \in S : x <= y
  <2>1. \A y \in S : ~(y < x)
    BY <1>1, Zenon DEF OpToRel
  <2> QED BY <2>1
<1> QED BY <1>1, <1>2 DEF Min

\* So has one that is bounded a greatest: the one least far from the bound.
LEMMA GreatestExists ==
    ASSUME NEW n \in Nat, NEW S \in SUBSET (0..n), S # {}
    PROVE  Max(S) \in S /\ \A x \in S : Max(S) >= x
<1> DEFINE T == {n - x : x \in S}
<1>1. T \in SUBSET Nat /\ T # {}
  <2>1. \A x \in S : n - x \in Nat
    OBVIOUS
  <2> QED BY <2>1
<1>2. Min(T) \in T /\ \A y \in T : Min(T) <= y
  <2> HIDE DEF T
  <2> QED BY <1>1, LeastExists
<1>3. PICK x \in S : Min(T) = n - x
  BY <1>2
<1>4. \A y \in S : n - x <= n - y
  BY <1>2, <1>3
<1>5. \A y \in S : x >= y
  BY <1>4
<1> QED BY <1>5 DEF Max

\* Where a log that is not empty begins and ends.
LEMMA LogEnds ==
    ASSUME TypeOK, log # {}
    PROVE  /\ Earliest \in 1..MaxIssued /\ \A m \in log : Earliest <= m.id
           /\ \E m \in log : m.id = Earliest
           /\ Latest \in 1..MaxIssued /\ \A m \in log : Latest >= m.id
<1> DEFINE ids == {m.id : m \in log}
<1>1. ids \subseteq 1..MaxIssued /\ ids # {} /\ MaxIssued \in Nat
  BY StreamConstants DEF TypeOK, Messages
<1>2. ids \in SUBSET Nat /\ ids \in SUBSET (0..MaxIssued)
  BY <1>1
<1>3. Min(ids) \in ids /\ \A x \in ids : Min(ids) <= x
  <2> HIDE DEF ids
  <2> QED BY <1>1, <1>2, LeastExists
<1>4. Max(ids) \in ids /\ \A x \in ids : Max(ids) >= x
  <2> HIDE DEF ids
  <2> QED BY <1>1, <1>2, GreatestExists
<1> QED BY <1>1, <1>3, <1>4 DEF Earliest, Latest

\* Deleting all but the newest deletes some.
LEMMA NewestFacts ==
    ASSUME NEW ms, IsFiniteSet(ms)
    PROVE  Newest(ms) \subseteq ms /\ IsFiniteSet(Newest(ms))
<1>1. Newest(ms) \in SUBSET ms
  BY DEF Newest
<1> QED BY <1>1, FS_Subset

\* One reading of the log: no message of the case behind the cursor is passed
\* over for a later one.
LEMMA ReadingFacts ==
    ASSUME IsFiniteSet(log), \A m \in log : m.id \in Nat, NEW id \in Nat
    PROVE  /\ StreamAfter(id) \subseteq OfCase(log)
           /\ \A m \in StreamAfter(id) : m.id > id
           /\ \A last \in StreamAfter(id), m \in OfCase(log) :
                 id < m.id /\ m.id <= last.id => m \in StreamAfter(id)
<1> DEFINE later == {m \in log : m.case = Ours /\ m.id > id}
           Before(x) == {y \in later : y.id < x.id}
<1>1. StreamAfter(id) = {m \in later : Cardinality(Before(m)) < BatchLimit}
  BY DEF StreamAfter
<1>2. later \in SUBSET log
  OBVIOUS
<1>3. IsFiniteSet(later)
  BY <1>2, FS_Subset
<1>4. ASSUME NEW last \in StreamAfter(id), NEW m \in OfCase(log), id < m.id, m.id <= last.id
      PROVE  m \in StreamAfter(id)
  <2>1. m \in later /\ last \in later /\ Cardinality(Before(last)) < BatchLimit
    BY <1>1, <1>4 DEF OfCase
  <2>2. Before(m) \in SUBSET Before(last)
    BY <1>4, <2>1
  <2>3. Before(last) \in SUBSET later
    OBVIOUS
  <2>4. IsFiniteSet(Before(last))
    BY <1>3, <2>3, FS_Subset
  <2>5. IsFiniteSet(Before(m)) /\ Cardinality(Before(m)) <= Cardinality(Before(last))
    BY <2>2, <2>4, FS_Subset
  <2>6. Cardinality(Before(m)) \in Nat /\ Cardinality(Before(last)) \in Nat
    BY <2>4, <2>5, FS_CardinalityType
  <2>7. Cardinality(Before(m)) < BatchLimit
    <3> HIDE DEF Before
    <3> QED BY <2>1, <2>5, <2>6, StreamConstants
  <2> QED BY <1>1, <2>1, <2>7
<1>5. StreamAfter(id) \subseteq OfCase(log) /\ \A m \in StreamAfter(id) : m.id > id
  BY <1>1 DEF OfCase
<1> QED BY <1>4, <1>5

\* What the look for a gap answers: where to resume, or that the log still
\* reaches back to the browser's position.
LEMMA GapFacts ==
    ASSUME StreamInv
    PROVE  /\ Gap(lastId) \in None..MaxIssued
           /\ Gap(lastId) = None /\ lastId # 0 => ~TooOld(log)
<1>1. lastId \in Nat /\ lastId <= MaxIssued /\ MaxIssued \in Nat
  BY StreamConstants DEF StreamInv, TypeOK
<1>2. CASE lastId = 0 \/ log = {}
  BY <1>1, <1>2 DEF Gap, None
<1>3. CASE lastId # 0 /\ log # {}
  <2>1. /\ Earliest \in 1..MaxIssued /\ Latest \in 1..MaxIssued
        /\ \E m \in log : m.id = Earliest
    BY <1>3, LogEnds DEF StreamInv
  <2>2. Gap(lastId) = IF lastId > Latest THEN Latest
                      ELSE IF lastId >= Earliest - 1 THEN None ELSE Earliest - 1
    BY <1>1, <1>3 DEF Gap
  <2>3. Gap(lastId) \in None..MaxIssued
    BY <1>1, <2>1, <2>2 DEF None
  <2>4. ASSUME Gap(lastId) = None
        PROVE  ~TooOld(log)
    <3>1. ~(Earliest > lastId + 1)
      BY <1>1, <2>1, <2>2, <2>4 DEF None
    <3> QED BY <2>1, <3>1 DEF TooOld
  <2> QED BY <2>3, <2>4
<1> QED BY <1>2, <1>3

LEMMA InitEstablishes == Init => StreamInv
<1> SUFFICES ASSUME Init PROVE StreamInv
  OBVIOUS
<1> USE StreamConstants DEF Init
<1>1. TypeOK
  BY FS_EmptySet DEF TypeOK, None
<1> QED BY <1>1 DEF StreamInv, LogIsCurrent, NothingSkipped, GapsAnnounced, OfCase,
          Current, Following

\* A new message: what goes unseen is on record, or will be announced.
LEMMA EmitKeepsInv ==
    ASSUME StreamInv, NEW c \in Cases, Emit(c)
    PROVE  StreamInv'
<1> DEFINE m0 == [file |-> file, id |-> issued + 1, case |-> c]
           all == log \cup {m0}
           gone == OfCase(all \ (log' \cup got))
<1>1. /\ issued < MaxIssued /\ issued' = issued + 1 /\ sent' = sent \cup OfCase({m0})
      /\ UNCHANGED <<file, link, reset, cursor, lastId, got, excused>>
      /\ early' = IF lastId = 0 THEN early \cup gone ELSE early
      /\ unseen' = unseen
           \cup (IF lastId > 0 /\ (Following \/ ~TooOld(log')) THEN gone ELSE {})
           \cup (IF m0.id <= lastId THEN OfCase({m0}) ELSE {})
  BY DEF Emit, client
<1>2. log' \subseteq all /\ IsFiniteSet(log')
  <2>1. PICK expired \in SUBSET all : log' = Newest(all \ expired)
    BY DEF Emit
  <2>2. IsFiniteSet(all)
    BY FS_AddElement DEF StreamInv, TypeOK
  <2>3. all \ expired \in SUBSET all
    OBVIOUS
  <2>4. IsFiniteSet(all \ expired)
    <3> HIDE DEF all
    <3> QED BY <2>2, <2>3, FS_Subset
  <2> QED BY <2>1, <2>4, NewestFacts
<1>3. /\ issued \in Nat /\ MaxIssued \in Nat /\ file \in 0..MaxRebuilds
      /\ lastId \in Nat /\ cursor \in Nat
      /\ \A m \in log \cup sent : m \in Messages /\ m.id \in Nat
  BY StreamConstants DEF StreamInv, TypeOK, Messages
<1>4. m0 \in Messages /\ m0.file = file /\ m0.id = issued + 1 /\ m0.case = c
  BY <1>1, <1>3 DEF Messages
<1>5. \A m \in all : m \in Messages /\ m.file = file /\ m.id \in Nat /\ m.id <= issued + 1
  BY <1>3, <1>4 DEF StreamInv, LogIsCurrent
<1>6. OfCase(all) \subseteq sent' /\ sent \subseteq sent' /\ gone \subseteq sent'
  BY <1>1 DEF StreamInv, LogIsCurrent, OfCase
<1>7. \A m \in sent' : m \in sent \/ (m = m0 /\ c = Ours)
  BY <1>1, <1>4 DEF OfCase
<1> HIDE DEF m0, all
<1>8. TypeOK'
  <2>1. log' \subseteq Messages /\ issued' \in 0..MaxIssued
    BY <1>1, <1>2, <1>3, <1>5
  <2>2. sent' \subseteq Messages
    BY <1>4, <1>7 DEF StreamInv, TypeOK
  <2>3. early' \subseteq sent' /\ unseen' \subseteq sent'
    <3>1. early \subseteq sent' /\ unseen \subseteq sent' /\ OfCase({m0}) \subseteq sent'
      BY <1>1, <1>6 DEF StreamInv, TypeOK
    <3> HIDE DEF gone
    <3> QED BY <1>1, <1>6, <3>1
  <2> QED BY <1>1, <1>2, <1>6, <2>1, <2>2, <2>3 DEF StreamInv, TypeOK
<1>9. LogIsCurrent'
  <2>1. \A m \in log' : m.file = file' /\ m.id <= issued'
    BY <1>1, <1>2, <1>5
  <2>2. OfCase(log') \subseteq sent'
    BY <1>2, <1>6 DEF OfCase
  <2>3. \A m \in sent' : m.case = Ours /\ m.file <= file' /\ (m.file = file' => m.id <= issued')
    <3>1. \A m \in sent : m.case = Ours /\ m.file <= file /\ (m.file = file => m.id <= issued + 1)
      BY <1>3 DEF StreamInv, LogIsCurrent
    <3>2. m0.file <= file /\ m0.id <= issued + 1
      BY <1>3, <1>4
    <3> QED BY <1>1, <1>4, <1>7, <3>1, <3>2
  <2> QED BY <2>1, <2>2, <2>3 DEF LogIsCurrent
<1>10. GapsAnnounced'
  <2>1. Told(m0)' \/ m0 \in unseen' \/ ~(m0.id <= lastId) \/ c # Ours
    BY <1>1, <1>4 DEF OfCase
  <2>2. \A m \in Current : m.id <= lastId => Told(m)' \/ m \in unseen'
    BY <1>1 DEF StreamInv, GapsAnnounced, Told
  <2> QED BY <1>1, <1>7, <2>1, <2>2 DEF GapsAnnounced, Current
<1>11. ASSUME NEW m \in Current', lastId = 0 \/ Following \/ ~TooOld(log'),
              m \in Current => m \in log \/ Told(m) \/ m \in unseen
       PROVE  (m \in log \/ Told(m) \/ m \in unseen)'
  <2>1. CASE m \in Current /\ (Told(m) \/ m \in unseen)
    BY <1>1, <2>1 DEF Told
  <2>2. CASE m \in all /\ m \notin log' /\ m \notin got
    <3>1. m.case = Ours
      BY <1>4, <1>7 DEF Current, StreamInv, LogIsCurrent
    <3>2. m \in gone
      BY <2>2, <3>1 DEF OfCase
    <3>3. m \in early' \cup unseen'
      <4> HIDE DEF gone
      <4> QED BY <1>1, <1>3, <1>11, <3>2
    <3> QED BY <3>3 DEF Told
  <2>3. CASE m \in log' \cup got
    BY <1>1, <2>3 DEF Told
  <2>4. m \in all \/ (m \in Current /\ (Told(m) \/ m \in unseen))
    BY <1>1, <1>7, <1>11 DEF Current, all
  <2> QED BY <2>1, <2>2, <2>3, <2>4
<1>12. NothingSkipped'
  <2>1. (cursor <= lastId)' /\ (Following' <=> Following)
    BY <1>1 DEF StreamInv, NothingSkipped, Following
  <2>2. ASSUME Following, NEW m \in Current', m.id > cursor
        PROVE  (m \in log \/ Told(m) \/ m \in unseen)'
    BY <1>11, <2>2 DEF StreamInv, NothingSkipped
  <2>3. ASSUME lastId = 0, NEW m \in Current'
        PROVE  (m \in log \/ Told(m) \/ m \in unseen)'
    BY <1>11, <2>3 DEF StreamInv, NothingSkipped
  <2>4. ASSUME ~Following, lastId > 0, ~TooOld(log'), NEW m \in Current', m.id > lastId
        PROVE  (m \in log \/ Told(m) \/ m \in unseen)'
    <3>1. CASE m \in Current /\ TooOld(log)
      \* Then every message that stays is too far ahead, and so is the new one.
      <4>1. m.id <= issued
        BY <3>1 DEF StreamInv, LogIsCurrent, Current
      <4>2. m.id \in Nat
        BY <1>3, <3>1 DEF Current
      <4>3. \A n \in log' : n.id > lastId + 1
        BY <1>2, <1>3, <1>4, <2>4, <3>1, <4>1, <4>2 DEF all, TooOld
      <4> QED BY <2>4, <4>3 DEF TooOld
    <3>2. CASE m \in Current => m \in log \/ Told(m) \/ m \in unseen
      BY <1>11, <2>4, <3>2
    <3> QED BY <2>4, <3>1, <3>2 DEF StreamInv, NothingSkipped
  <2> QED BY <1>1, <2>1, <2>2, <2>3, <2>4 DEF NothingSkipped, TooOld
<1> QED BY <1>8, <1>9, <1>10, <1>12 DEF StreamInv

\* Connecting looks for the gap: without one, the log still has all of it.
LEMMA ConnectKeepsInv == StreamInv /\ Connect => StreamInv'
<1> SUFFICES ASSUME StreamInv, Connect PROVE StreamInv'
  OBVIOUS
<1>1. /\ link' = "accepted" /\ reset' = Gap(lastId) /\ cursor' = lastId
      /\ UNCHANGED <<log, issued, file, lastId, got, excused, sent, early, unseen>>
  BY DEF Connect, server
<1>2. TypeOK'
  BY <1>1, GapFacts DEF StreamInv, TypeOK
<1>3. NothingSkipped'
  <2>1. lastId \in Nat
    BY StreamConstants DEF StreamInv, TypeOK
  <2>2. ASSUME Gap(lastId) = None, NEW m \in Current, m.id > lastId
        PROVE  m \in log \/ Told(m) \/ m \in unseen
    <3>1. CASE lastId = 0
      BY <2>2, <3>1 DEF StreamInv, NothingSkipped
    <3>2. CASE lastId # 0 /\ ~TooOld(log)
      BY <1>1, <2>1, <2>2, <3>2 DEF StreamInv, NothingSkipped, Connect, Following
    <3> QED BY <2>2, <3>1, <3>2, GapFacts
  <2>3. ~Following
    BY DEF Connect, Following
  <2>4. Current' = Current /\ (TooOld(log))' = TooOld(log) /\ (\A m \in Current : Told(m)' = Told(m))
    BY <1>1 DEF Current, TooOld, Told
  <2> QED BY <1>1, <2>1, <2>2, <2>3, <2>4 DEF StreamInv, NothingSkipped, Following
<1> QED BY <1>1, <1>2, <1>3 DEF StreamInv, LogIsCurrent, GapsAnnounced, Current, Told

\* Beginning to stream: a reset accounts for all that was sent.
LEMMA BeginKeepsInv == StreamInv /\ Begin => StreamInv'
<1> SUFFICES ASSUME StreamInv, Begin PROVE StreamInv'
  OBVIOUS
<1>1. /\ link = "accepted" /\ link' = "open" /\ reset' = None
      /\ UNCHANGED <<log, issued, file, got, sent, early, unseen>>
  BY DEF Begin, server
<1>2. LogIsCurrent'
  BY <1>1 DEF StreamInv, LogIsCurrent
<1>3. CASE reset = None
  BY <1>1, <1>2, <1>3 DEF StreamInv, Begin, TypeOK, NothingSkipped, GapsAnnounced, None,
     Current, Told, Following, TooOld
<1>4. CASE reset # None
  <2>1. /\ cursor' = reset /\ lastId' = (IF reset = 0 THEN lastId ELSE reset)
        /\ excused' = sent
    BY <1>4 DEF Begin
  <2>2. reset \in 0..MaxIssued /\ MaxIssued \in Nat
    BY <1>4, StreamConstants DEF StreamInv, TypeOK, None
  <2>3. TypeOK'
    BY <1>1, <2>1, <2>2 DEF StreamInv, TypeOK, None
  <2>4. cursor' <= lastId'
    BY <2>1, <2>2 DEF StreamInv, TypeOK
  <2>5. \A m \in Current' : Told(m)'
    BY <1>1, <2>1 DEF Current, Told
  <2> QED BY <1>1, <1>2, <2>3, <2>4, <2>5 DEF StreamInv, NothingSkipped, GapsAnnounced
<1> QED BY <1>3, <1>4

\* A turn of the generator reads on without a hole.
LEMMA PollKeepsInv == StreamInv /\ Poll => StreamInv'
<1> SUFFICES ASSUME StreamInv, Poll PROVE StreamInv'
  OBVIOUS
<1> DEFINE batch == StreamAfter(cursor)
<1>1. PICK last \in batch :
        LET read == {m \in batch : m.id <= last.id} IN
        /\ lastId' = last.id
        /\ got' = got \cup read
        /\ IF read = batch THEN cursor' = last.id /\ UNCHANGED link ELSE Close
  BY DEF Poll
<1> DEFINE read == {m \in batch : m.id <= last.id}
<1>2. /\ link = "open"
      /\ UNCHANGED <<log, issued, file, reset, excused, sent, early, unseen>>
  BY DEF Poll, server
<1>3. /\ cursor \in Nat /\ lastId \in Nat /\ cursor <= lastId
      /\ \A m \in log \cup sent : m.id \in 1..MaxIssued
      /\ MaxIssued \in Nat /\ IsFiniteSet(log)
  BY StreamConstants DEF StreamInv, TypeOK, Messages, NothingSkipped
<1>4. /\ batch \subseteq OfCase(log)
      /\ \A m \in batch : m.id > cursor
      /\ \A m \in OfCase(log) : cursor < m.id /\ m.id <= last.id => m \in batch
  BY <1>3, ReadingFacts
<1> HIDE DEF batch
<1>5. last \in log /\ last.id \in 1..MaxIssued /\ last.id > cursor
  BY <1>3, <1>4 DEF OfCase
<1>6. /\ lastId' = last.id /\ got' = got \cup read
      /\ \/ cursor' = last.id /\ link' = link
         \/ cursor' = 0 /\ link' = "closed"
  BY <1>1 DEF Close
<1>7. TypeOK'
  <2>1. got' \subseteq sent'
    BY <1>2, <1>4, <1>6 DEF StreamInv, TypeOK, LogIsCurrent
  <2>2. lastId' \in 0..MaxIssued /\ cursor' \in 0..MaxIssued
    BY <1>3, <1>5, <1>6
  <2>3. link' \in {"closed", "accepted", "open"}
    BY <1>2, <1>6
  <2> QED BY <1>2, <2>1, <2>2, <2>3 DEF StreamInv, TypeOK
<1>8. LogIsCurrent'
  BY <1>2 DEF StreamInv, LogIsCurrent
<1>9. /\ Current' = Current
      /\ \A m \in Current : m \in sent /\ m.file = file /\ (Told(m) => Told(m)')
  BY <1>2, <1>6 DEF Current, Told
<1>10. ASSUME NEW m \in Current, m.id > cursor
       PROVE  m \in log \/ Told(m) \/ m \in unseen
  BY <1>2, <1>10 DEF StreamInv, NothingSkipped, Following
<1>11. NothingSkipped'
  <2>1. cursor' <= lastId' /\ lastId' # 0
    BY <1>5, <1>6
  <2>2. ASSUME NEW m \in Current, m.id > last.id
        PROVE  m \in log \/ Told(m)' \/ m \in unseen
    <3>1. m.id > cursor
      BY <1>3, <1>5, <1>9, <2>2
    <3> QED BY <1>9, <1>10, <2>2, <3>1
  <2>3. Following' => cursor' = last.id
    BY <1>6 DEF Following
  <2> QED BY <1>2, <1>6, <1>9, <2>1, <2>2, <2>3 DEF NothingSkipped
<1>12. GapsAnnounced'
  <2>1. ASSUME NEW m \in Current, m.id <= last.id
        PROVE  Told(m)' \/ m \in unseen
    <3>1. CASE m.id <= cursor
      <4>1. m.id <= lastId
        BY <1>3, <1>9, <3>1
      <4> QED BY <1>9, <2>1, <4>1 DEF StreamInv, GapsAnnounced
    <3>2. CASE m.id > cursor /\ m \in log
      <4>1. m \in OfCase(log)
        BY <1>9, <3>2 DEF StreamInv, LogIsCurrent, OfCase
      <4>2. m \in got'
        BY <1>4, <1>6, <2>1, <3>2, <4>1
      <4> QED BY <4>2 DEF Told
    <3>3. CASE Told(m) \/ m \in unseen
      BY <1>9, <3>3
    <3>4. m.id <= cursor \/ m.id > cursor
      BY <1>3, <1>9
    <3> QED BY <1>10, <2>1, <3>1, <3>2, <3>3, <3>4
  <2> QED BY <1>2, <1>6, <1>9, <2>1 DEF GapsAnnounced
<1> QED BY <1>7, <1>8, <1>11, <1>12 DEF StreamInv

\* A lost connection skips nothing: the browser resumes from what it has.
LEMMA DisconnectKeepsInv == StreamInv /\ Disconnect => StreamInv'
<1> SUFFICES ASSUME StreamInv, Disconnect PROVE StreamInv'
  OBVIOUS
<1>1. /\ link' = "closed" /\ cursor' = 0 /\ reset' = None
      /\ UNCHANGED <<log, issued, file, lastId, got, excused, sent, early, unseen>>
  BY DEF Disconnect, Close, server
<1>2. /\ lastId \in Nat /\ cursor \in Nat /\ cursor <= lastId
      /\ \A m \in Current : m.id \in Nat
  BY StreamConstants DEF StreamInv, TypeOK, NothingSkipped, Current, Messages
<1>3. TypeOK' /\ cursor' <= lastId'
  BY <1>1, <1>2, StreamConstants DEF StreamInv, TypeOK, None
<1>4. /\ Current' = Current /\ TooOld(log)' = TooOld(log)
      /\ \A m \in Current : Told(m)' = Told(m)
  BY <1>1 DEF Current, TooOld, Told
<1>5. NothingSkipped'
  <2>1. ASSUME lastId > 0, ~TooOld(log), NEW m \in Current, m.id > lastId
        PROVE  m \in log \/ Told(m) \/ m \in unseen
    <3>1. m.id > cursor
      BY <1>2, <2>1
    <3> QED BY <2>1, <3>1 DEF StreamInv, NothingSkipped
  <2>2. ~Following'
    BY <1>1 DEF Following
  <2> QED BY <1>1, <1>3, <1>4, <2>1, <2>2 DEF StreamInv, NothingSkipped
<1> QED BY <1>1, <1>3, <1>4, <1>5 DEF StreamInv, LogIsCurrent, GapsAnnounced

\* Nothing has been sent yet from a fresh database file.
LEMMA RebuildKeepsInv == StreamInv /\ Rebuild => StreamInv'
<1> SUFFICES ASSUME StreamInv, Rebuild PROVE StreamInv'
  OBVIOUS
<1>1. /\ file < MaxRebuilds /\ file' = file + 1 /\ log' = {} /\ issued' = 0
      /\ link' = "closed" /\ cursor' = 0 /\ reset' = None
      /\ UNCHANGED <<lastId, got, excused, sent, early, unseen>>
  BY DEF Rebuild, Close
<1>2. TypeOK' /\ cursor' <= lastId'
  BY <1>1, StreamConstants, FS_EmptySet DEF StreamInv, TypeOK, None
<1>3. \A m \in sent : m.case = Ours /\ m.file <= file' /\ m.file # file'
  BY <1>1, StreamConstants DEF StreamInv, TypeOK, LogIsCurrent, Messages
<1> QED BY <1>1, <1>2, <1>3
    DEF StreamInv, LogIsCurrent, NothingSkipped, GapsAnnounced, OfCase, Current, Following

\* The feed never passes over a message in silence, in any state it can reach:
\* the messages behind the position of the browser are accounted for, and so
\* are those an open connection (emit, stream_gap, live_stream) will read next.
THEOREM StreamInvariant == Spec => []StreamInv
<1>1. ASSUME StreamInv, [Next]_vars PROVE StreamInv'
  <2>1. CASE \E c \in Cases : Emit(c)
    BY <1>1, <2>1, EmitKeepsInv
  <2>2. CASE Connect
    BY <1>1, <2>2, ConnectKeepsInv
  <2>3. CASE Begin
    BY <1>1, <2>3, BeginKeepsInv
  <2>4. CASE Poll
    BY <1>1, <2>4, PollKeepsInv
  <2>5. CASE Disconnect
    BY <1>1, <2>5, DisconnectKeepsInv
  <2>6. CASE Rebuild
    BY <1>1, <2>6, RebuildKeepsInv
  <2>7. CASE UNCHANGED vars
    BY <1>1, <2>7 DEF vars, server, client, StreamInv, TypeOK, LogIsCurrent,
       NothingSkipped, GapsAnnounced, Current, Told, Following, TooOld
  <2> QED BY <1>1, <2>1, <2>2, <2>3, <2>4, <2>5, <2>6, <2>7 DEF Next
<1> QED BY <1>1, InitEstablishes, PTL DEF Spec

\* A browser that follows the live feed (stream_gap, SseLiveDataSource.ts) gets
\* each message behind its position, or was told to fetch the state after it.
THEOREM GapsAreAnnounced == Spec => []GapsAnnounced
<1>1. StreamInv => GapsAnnounced
  BY DEF StreamInv
<1> QED BY <1>1, StreamInvariant, PTL
=============================================================================
