------------------------- MODULE CaseAnalysisProofs -------------------------
(***************************************************************************)
(* Proofs that the runs of a case rest on stored events, are distinct and  *)
(* miss no event, for any number of events, threads, failures and restarts.*)
(***************************************************************************)
EXTENDS CaseAnalysis, TLAPS

\* What _persist_analysis does to the table: the old runs stay, there is a run
\* of the events analysed, and any other run is an old one.
LEMMA StoredFacts ==
    ASSUME NEW t \in Threads
    PROVE  /\ runs \subseteq Stored(t)
           /\ \E r \in Stored(t) : r.of = thread[t].seen \cup thread[t].new
           /\ \A r \in Stored(t) : r \in runs \/ r = [of |-> thread[t].seen \cup thread[t].new,
                                                       at |-> thread[t].time]
           /\ RunsAreDistinct => \A r, q \in Stored(t) : r.of = q.of => r = q
<1> DEFINE of == thread[t].seen \cup thread[t].new
<1>1. CASE \E r \in runs : r.of = of
  <2>1. Stored(t) = runs
    BY <1>1 DEF Stored
  <2>2. RunsAreDistinct => \A r, q \in Stored(t) : r.of = q.of => r = q
    BY <2>1 DEF RunsAreDistinct
  <2> QED BY <1>1, <2>1, <2>2
<1>2. CASE ~\E r \in runs : r.of = of
  <2> DEFINE new == [of |-> of, at |-> thread[t].time]
  <2>1. Stored(t) = runs \cup {new}
    BY <1>2 DEF Stored
  <2>2. new.of = of
    OBVIOUS
  <2> HIDE DEF new, of
  <2>3. RunsAreDistinct => \A r, q \in Stored(t) : r.of = q.of => r = q
    BY <1>2, <2>1, <2>2 DEF RunsAreDistinct
  <2>4. /\ runs \subseteq Stored(t)
        /\ \E r \in Stored(t) : r.of = of
        /\ \A r \in Stored(t) : r \in runs \/ r = new
    BY <2>1, <2>2
  <2> QED BY <2>3, <2>4 DEF of, new
<1> QED BY <1>1, <1>2

\* Stored keeps the table typed.
LEMMA StoredTyped ==
    ASSUME TypeOK, NEW t \in Threads
    PROVE  Stored(t) \in SUBSET Runs
<1>1. [of |-> thread[t].seen \cup thread[t].new, at |-> thread[t].time] \in Runs
  BY DEF TypeOK, Runs
<1>2. runs \subseteq Runs
  BY DEF TypeOK
<1> QED BY <1>1, <1>2, StoredFacts

\* The initial state satisfies the inductive invariant.
LEMMA InitInv == Init => AnalysisInv
<1> SUFFICES ASSUME Init PROVE AnalysisInv
  OBVIOUS
<1> USE AnalysisConstants DEF Init
<1>1. TypeOK
  BY DEF TypeOK, Idle, Runs, Times
<1>2. ReadsAreStored /\ FreshIsRead /\ LatestExists
  BY DEF ReadsAreStored, FreshIsRead, LatestExists, Idle, Threads
<1>3. RunsRestOnStoredEvents /\ RunsAreDistinct /\ EventsAreAnalysed
  BY DEF RunsRestOnStoredEvents, RunsAreDistinct, EventsAreAnalysed
<1> QED BY <1>1, <1>2, <1>3 DEF AnalysisInv

\* The thread a step leaves behind: t changed, the others as they were.
LEMMA OtherThreads ==
    ASSUME TypeOK, NEW t \in Threads, NEW w, thread' = [thread EXCEPT ![t] = w]
    PROVE  /\ thread'[t] = w
           /\ \A u \in Threads \ {t} : thread'[u] = thread[u]
BY DEF TypeOK

\* Every step preserves the type invariant.
LEMMA TypeStep == TypeOK /\ FreshIsRead /\ LatestExists /\ [Next]_vars => TypeOK'
<1> SUFFICES ASSUME TypeOK, FreshIsRead, LatestExists, [Next]_vars PROVE TypeOK'
  OBVIOUS
<1> USE AnalysisConstants
<1> DEFINE Slots == [at : {"idle", "analyse", "persist", "announce"}, seen : SUBSET Events,
                     new : SUBSET Events, time : Times]
<1>c. "commit" \in Threads /\ "live" \in Threads /\ Analysts \subseteq Threads
  BY DEF Threads
<1>i. Idle \in Slots /\ Idle.time = 0 /\ Idle.at = "idle"
  BY DEF Idle, Times
<1>k. clock \in Nat
  BY DEF TypeOK, Times
<1>r. ASSUME NEW t \in Threads, NEW new \in SUBSET Events, ReadEvents(t, new)
      PROVE  /\ thread' \in [Threads -> Slots]
             /\ \A u \in Threads : thread'[u].time <= clock /\ (thread'[u].at = "idle" => thread'[u] = Idle)
  <2> DEFINE w == [Idle EXCEPT !.at = "analyse", !.seen = events, !.new = new]
  <2>0. 0 \in Times /\ events \in SUBSET Events
    BY DEF TypeOK, Times
  <2>1. w \in Slots /\ w.time = 0 /\ w.at = "analyse"
    BY <2>0 DEF Idle
  <2>2. thread' = [thread EXCEPT ![t] = w]
    BY <1>r DEF ReadEvents
  <2> HIDE DEF w
  <2> QED BY <1>k, <2>1, <2>2 DEF TypeOK
<1>e. ASSUME NEW t \in Threads, thread' = [thread EXCEPT ![t] = Idle]
      PROVE  /\ thread' \in [Threads -> Slots]
             /\ \A u \in Threads : thread'[u].time <= clock /\ (thread'[u].at = "idle" => thread'[u] = Idle)
  BY <1>e, <1>i, <1>k DEF TypeOK
<1>1. ASSUME NEW e \in FileEvents, BeginCommit(e) PROVE TypeOK'
  BY <1>1, <1>c, <1>r DEF BeginCommit, TypeOK, Events
<1>2. CASE AbandonCommit
  BY <1>2, <1>c, <1>e DEF AbandonCommit, TypeOK
<1>3. CASE PersistCommit
  <2>1. runs' \in SUBSET Runs
    BY <1>3, <1>c, StoredTyped DEF PersistCommit
  <2>2. events' \in SUBSET Events
    BY <1>3, <1>c DEF PersistCommit, TypeOK
  <2> QED BY <1>3, <1>c, <1>e, <2>1, <2>2 DEF PersistCommit, TypeOK
<1>4. ASSUME NEW e \in LiveEvents, RecordLive(e) PROVE TypeOK'
  BY <1>4 DEF RecordLive, TypeOK, Events
<1>5. CASE ReadForLive
  BY <1>5, <1>c, <1>r DEF ReadForLive, TypeOK
<1>6. CASE ReanalysisRaises
  BY <1>6, <1>c, <1>e DEF ReanalysisRaises, TypeOK
<1>7. CASE PersistLive
  <2>1. runs' \in SUBSET Runs
    BY <1>7, <1>c, StoredTyped DEF PersistLive
  <2>2. /\ thread' \in [Threads -> Slots]
        /\ \A u \in Threads : thread'[u].time <= clock /\ (thread'[u].at = "idle" => thread'[u] = Idle)
    BY <1>7, <1>c DEF PersistLive, TypeOK
  <2> QED BY <1>7, <2>1, <2>2 DEF PersistLive, TypeOK
<1>8. CASE Announce
  <2>1. announced' \in SUBSET [of : SUBSET Events, for : SUBSET LiveEvents]
    <3>1. \E r \in runs : \A q \in runs : q.at <= r.at
      BY <1>8 DEF Announce, FreshIsRead, LatestExists
    <3>2. Latest \in runs
      BY <3>1 DEF Latest
    <3>3. Latest.of \in SUBSET Events
      BY <3>2 DEF TypeOK, Runs
    <3> QED BY <1>8, <3>3 DEF Announce, TypeOK
  <2> QED BY <1>8, <1>c, <1>e, <2>1 DEF Announce, TypeOK
<1>9. ASSUME NEW a \in Analysts, ReadForAnalyst(a) PROVE TypeOK'
  BY <1>9, <1>c, <1>r DEF ReadForAnalyst, TypeOK
<1>10. ASSUME NEW a \in Analysts, PersistForAnalyst(a) PROVE TypeOK'
  <2>1. runs' \in SUBSET Runs
    BY <1>10, <1>c, StoredTyped DEF PersistForAnalyst
  <2> QED BY <1>10, <1>c, <1>e, <2>1 DEF PersistForAnalyst, TypeOK
<1>11. ASSUME NEW t \in Threads, TakeTime(t) PROVE TypeOK'
  <2>1. clock' \in Times /\ clock <= clock'
    BY <1>11, <1>k DEF TakeTime, Times
  <2>2. /\ thread' \in [Threads -> Slots]
        /\ \A u \in Threads : thread'[u].time <= clock' /\ (thread'[u].at = "idle" => thread'[u] = Idle)
    BY <1>11, <1>k, <2>1 DEF TakeTime, TypeOK, Times
  <2> QED BY <1>11, <2>1, <2>2 DEF TakeTime, TypeOK
<1>12. CASE Restart
  <2>1. restarts' \in 0..MaxRestarts
    BY <1>12 DEF Restart, TypeOK
  <2>2. /\ thread' \in [Threads -> Slots]
        /\ \A u \in Threads : thread'[u].time <= clock /\ (thread'[u].at = "idle" => thread'[u] = Idle)
    BY <1>12, <1>i, <1>k DEF Restart
  <2> QED BY <1>12, <2>1, <2>2 DEF Restart, TypeOK
<1>13. CASE UNCHANGED vars
  BY <1>13 DEF vars, TypeOK
<1> QED BY <1>1, <1>2, <1>3, <1>4, <1>5, <1>6, <1>7, <1>8, <1>9, <1>10, <1>11, <1>12, <1>13 DEF Next

\* The read of a thread and the events of a run stay stored: events only grow.
LEMMA ReadsStep == TypeOK /\ ReadsAreStored /\ [Next]_vars => ReadsAreStored'
<1> SUFFICES ASSUME TypeOK, ReadsAreStored, [Next]_vars PROVE ReadsAreStored'
  OBVIOUS
<1> USE AnalysisConstants DEF ReadsAreStored
<1> DEFINE Held(slot, t) == slot.seen \subseteq events /\ (t # "commit" => slot.new = {})
<1>c. "commit" \in Threads /\ "live" \in Threads /\ Analysts \subseteq Threads
      /\ "live" # "commit" /\ "commit" \notin Analysts
  BY DEF Threads
<1>i. \A t : Held(Idle, t)
  BY DEF Idle
<1>r. ASSUME NEW t \in Threads, NEW new \in SUBSET Events, t # "commit" => new = {},
             ReadEvents(t, new), UNCHANGED <<events, fresh>>
      PROVE  ReadsAreStored'
  <2> DEFINE w == [Idle EXCEPT !.at = "analyse", !.seen = events, !.new = new]
  <2>1. Held(w, t)
    BY <1>r DEF Idle
  <2>2. thread' = [thread EXCEPT ![t] = w]
    BY <1>r DEF ReadEvents
  <2> HIDE DEF w
  <2> QED BY <1>r, <2>1, <2>2, OtherThreads
<1>e. ASSUME NEW t \in Threads, thread' = [thread EXCEPT ![t] = Idle],
             events \subseteq events', fresh' = fresh \/ fresh' = {}
      PROVE  ReadsAreStored'
  BY <1>e, <1>i, OtherThreads
<1>1. ASSUME NEW e \in FileEvents, BeginCommit(e) PROVE ReadsAreStored'
  BY <1>1, <1>c, <1>r DEF BeginCommit, Events
<1>2. CASE AbandonCommit
  BY <1>2, <1>c, <1>e DEF AbandonCommit
<1>3. CASE PersistCommit
  BY <1>3, <1>c, <1>e DEF PersistCommit
<1>4. ASSUME NEW e \in LiveEvents, RecordLive(e) PROVE ReadsAreStored'
  BY <1>4 DEF RecordLive
<1>5. CASE ReadForLive
  BY <1>5, <1>c, <1>r DEF ReadForLive
<1>6. CASE ReanalysisRaises
  BY <1>6, <1>c, <1>e DEF ReanalysisRaises
<1>7. CASE PersistLive
  BY <1>7, <1>c DEF PersistLive, TypeOK
<1>8. CASE Announce
  BY <1>8, <1>c, <1>e DEF Announce
<1>9. ASSUME NEW a \in Analysts, ReadForAnalyst(a) PROVE ReadsAreStored'
  BY <1>9, <1>c, <1>r DEF ReadForAnalyst
<1>10. ASSUME NEW a \in Analysts, PersistForAnalyst(a) PROVE ReadsAreStored'
  BY <1>10, <1>c, <1>e DEF PersistForAnalyst
<1>11. ASSUME NEW t \in Threads, TakeTime(t) PROVE ReadsAreStored'
  BY <1>11 DEF TakeTime, TypeOK
<1>12. CASE Restart
  BY <1>12, <1>i DEF Restart
<1>13. CASE UNCHANGED vars
  BY <1>13 DEF vars
<1> QED BY <1>1, <1>2, <1>3, <1>4, <1>5, <1>6, <1>7, <1>8, <1>9, <1>10, <1>11, <1>12, <1>13 DEF Next

\* What every step does to the runs: nothing, or what one thread stores, whose
\* events are then in the table.
LEMMA RunsFrame ==
    ASSUME TypeOK, ReadsAreStored, [Next]_vars
    PROVE  /\ events \subseteq events'
           /\ \/ runs' = runs
              \/ \E t \in Threads : /\ runs' = Stored(t) /\ thread[t].at = "persist"
                                   /\ thread[t].seen \cup thread[t].new \subseteq events'
<1> USE AnalysisConstants
<1>c. "commit" \in Threads /\ "live" \in Threads /\ Analysts \subseteq Threads
      /\ "live" # "commit" /\ "commit" \notin Analysts
  BY DEF Threads
<1>1. ASSUME NEW e \in FileEvents, BeginCommit(e)
      PROVE  events' = events /\ runs' = runs
  BY <1>1 DEF BeginCommit
<1>2. CASE PersistCommit
  BY <1>2, <1>c DEF PersistCommit, ReadsAreStored
<1>3. ASSUME NEW e \in LiveEvents, RecordLive(e)
      PROVE  events \subseteq events' /\ runs' = runs
  BY <1>3 DEF RecordLive
<1>4. CASE PersistLive
  BY <1>4, <1>c DEF PersistLive, ReadsAreStored
<1>5. ASSUME NEW a \in Analysts, PersistForAnalyst(a)
      PROVE  events' = events /\ runs' = Stored(a) /\ thread[a].at = "persist"
             /\ thread[a].seen \cup thread[a].new \subseteq events
  BY <1>5, <1>c DEF PersistForAnalyst, ReadsAreStored
<1>6. CASE AbandonCommit \/ ReadForLive \/ ReanalysisRaises \/ Announce \/ Restart \/ UNCHANGED vars
  BY <1>6 DEF AbandonCommit, ReadForLive, ReanalysisRaises, Announce, Restart, vars
<1>7. ASSUME NEW a \in Analysts, ReadForAnalyst(a)
      PROVE  events' = events /\ runs' = runs
  BY <1>7 DEF ReadForAnalyst
<1>8. ASSUME NEW t \in Threads, TakeTime(t)
      PROVE  events' = events /\ runs' = runs
  BY <1>8 DEF TakeTime
<1> QED BY <1>1, <1>2, <1>3, <1>4, <1>5, <1>6, <1>7, <1>8, <1>c DEF Next

\* The table of runs: it rests on stored events, holds no analysis twice and
\* keeps having a latest run.
LEMMA RunsStep ==
    ASSUME TypeOK, ReadsAreStored, [Next]_vars
    PROVE  /\ RunsRestOnStoredEvents => RunsRestOnStoredEvents'
           /\ RunsAreDistinct => RunsAreDistinct'
           /\ LatestExists => LatestExists'
           /\ \A r \in runs : r \in runs'
<1>1. CASE runs' = runs
  BY <1>1, RunsFrame DEF RunsRestOnStoredEvents, RunsAreDistinct, LatestExists
<1>2. ASSUME NEW t \in Threads, runs' = Stored(t), thread[t].seen \cup thread[t].new \subseteq events'
      PROVE  /\ RunsRestOnStoredEvents => RunsRestOnStoredEvents'
             /\ RunsAreDistinct => RunsAreDistinct'
             /\ LatestExists => LatestExists'
             /\ \A r \in runs : r \in runs'
  <2> DEFINE of == thread[t].seen \cup thread[t].new
             new == [of |-> of, at |-> thread[t].time]
  <2>1. /\ runs \subseteq runs'
        /\ \A r \in runs' : r \in runs \/ r = new
        /\ RunsAreDistinct => \A r, q \in runs' : r.of = q.of => r = q
    BY <1>2, StoredFacts
  <2>2. new.of \subseteq events' /\ new.at \in Int /\ \A r \in runs : r.at \in Int
    BY <1>2 DEF TypeOK, Runs, Times
  <2> HIDE DEF new, of
  <2>3. RunsRestOnStoredEvents => RunsRestOnStoredEvents'
    BY <2>1, <2>2, RunsFrame DEF RunsRestOnStoredEvents
  <2>4. RunsAreDistinct => RunsAreDistinct'
    BY <2>1 DEF RunsAreDistinct
  <2>5. LatestExists => LatestExists'
    <3>1. CASE runs = {}
      BY <2>1, <2>2, <3>1 DEF LatestExists
    <3>2. ASSUME NEW r \in runs, \A q \in runs : q.at <= r.at
          PROVE  LatestExists'
      <4>1. CASE new \in runs' /\ r.at <= new.at
        BY <2>1, <2>2, <3>2, <4>1 DEF LatestExists
      <4>2. CASE ~(new \in runs' /\ r.at <= new.at)
        BY <2>1, <2>2, <3>2, <4>2 DEF LatestExists
      <4> QED BY <4>1, <4>2
    <3> QED BY <3>1, <3>2 DEF LatestExists
  <2> QED BY <2>1, <2>3, <2>4, <2>5
<1> QED BY <1>1, <1>2, RunsFrame

\* The live worker's events stay among those it read, or in a run it stored.
LEMMA FreshStep ==
    ASSUME TypeOK, ReadsAreStored, FreshIsRead, [Next]_vars
    PROVE  FreshIsRead'
<1> USE AnalysisConstants
<1>c. "commit" \in Threads /\ "live" \in Threads /\ Analysts \subseteq Threads
      /\ "live" # "commit" /\ "live" \notin Analysts
  BY DEF Threads
<1>s. \A r \in runs : r \in runs'
  BY RunsStep
<1>o. ASSUME thread'["live"] = thread["live"], fresh' = fresh
      PROVE  FreshIsRead'
  BY <1>o, <1>s DEF FreshIsRead
<1>i. ASSUME thread' = [thread EXCEPT !["live"] = Idle]
      PROVE  FreshIsRead'
  BY <1>c, <1>i DEF FreshIsRead, TypeOK, Idle
<1>1. ASSUME NEW e \in FileEvents, BeginCommit(e) PROVE FreshIsRead'
  BY <1>1, <1>c, <1>o, OtherThreads DEF BeginCommit, ReadEvents
<1>2. CASE AbandonCommit
  BY <1>2, <1>c, <1>o, OtherThreads DEF AbandonCommit
<1>3. CASE PersistCommit
  BY <1>3, <1>c, <1>o, OtherThreads DEF PersistCommit
<1>4. ASSUME NEW e \in LiveEvents, RecordLive(e) PROVE FreshIsRead'
  BY <1>4 DEF RecordLive, FreshIsRead
<1>5. CASE ReadForLive
  <2>0. fresh \subseteq events
    BY DEF ReadsAreStored
  <2>1. thread'["live"].at = "analyse" /\ thread'["live"].seen = events
    BY <1>5, <1>c DEF ReadForLive, ReadEvents, Idle, TypeOK
  <2> QED BY <1>5, <2>0, <2>1 DEF ReadForLive, FreshIsRead
<1>6. CASE ReanalysisRaises
  BY <1>6, <1>i DEF ReanalysisRaises
<1>7. CASE PersistLive
  <2>1. fresh \subseteq thread["live"].seen
    BY <1>7 DEF PersistLive, FreshIsRead
  <2>2. \E r \in runs' : fresh \subseteq r.of
    BY <1>7, <1>c, <2>1, StoredFacts DEF PersistLive
  <2>3. thread'["live"].at = "announce"
    BY <1>7, <1>c DEF PersistLive, TypeOK
  <2> QED BY <1>7, <2>2, <2>3 DEF PersistLive, FreshIsRead
<1>8. CASE Announce
  BY <1>8, <1>i DEF Announce
<1>9. ASSUME NEW a \in Analysts, ReadForAnalyst(a) PROVE FreshIsRead'
  BY <1>9, <1>c, <1>o, OtherThreads DEF ReadForAnalyst, ReadEvents
<1>10. ASSUME NEW a \in Analysts, PersistForAnalyst(a) PROVE FreshIsRead'
  BY <1>10, <1>c, <1>o, OtherThreads DEF PersistForAnalyst
<1>11. ASSUME NEW t \in Threads, TakeTime(t) PROVE FreshIsRead'
  <2>1. CASE t = "live"
    <3>1. thread'["live"].at = "persist" /\ thread'["live"].seen = thread["live"].seen
      BY <1>11, <1>c, <2>1 DEF TakeTime, TypeOK
    <3> QED BY <1>11, <2>1, <3>1 DEF TakeTime, FreshIsRead
  <2>2. CASE t # "live"
    <3>1. thread'["live"] = thread["live"]
      BY <1>11, <1>c, <2>2 DEF TakeTime, TypeOK
    <3> QED BY <1>11, <1>o, <3>1 DEF TakeTime
  <2> QED BY <2>1, <2>2
<1>12. CASE Restart
  BY <1>12, <1>c DEF Restart, FreshIsRead, Idle
<1>13. CASE UNCHANGED vars
  BY <1>13 DEF vars, FreshIsRead
<1> QED BY <1>1, <1>2, <1>3, <1>4, <1>5, <1>6, <1>7, <1>8, <1>9, <1>10, <1>11, <1>12, <1>13 DEF Next

\* No step forgets an event: what leaves fresh without a run is in lapsed, and
\* a restart is excepted.
LEMMA EventsStep ==
    ASSUME TypeOK, ReadsAreStored, FreshIsRead, EventsAreAnalysed, [Next]_vars
    PROVE  EventsAreAnalysed'
<1> USE AnalysisConstants
<1>c. "commit" \in Threads /\ "live" \in Threads
  BY DEF Threads
<1>s. \A r \in runs : r \in runs'
  BY RunsStep
<1>k. ASSUME events' = events, fresh \cup lapsed \subseteq fresh' \cup lapsed', restarts' = restarts
      PROVE  EventsAreAnalysed'
  BY <1>k, <1>s DEF EventsAreAnalysed
<1>1. ASSUME NEW e \in FileEvents, BeginCommit(e) PROVE EventsAreAnalysed'
  BY <1>1, <1>k DEF BeginCommit
<1>2. CASE AbandonCommit
  BY <1>2, <1>k DEF AbandonCommit
<1>3. CASE PersistCommit
  <2>1. \E r \in runs' : thread["commit"].new \subseteq r.of
    BY <1>3, <1>c, StoredFacts DEF PersistCommit
  <2>2. /\ events' = events \cup thread["commit"].new
        /\ fresh' = fresh /\ lapsed' = lapsed /\ restarts' = restarts
    BY <1>3 DEF PersistCommit
  <2> QED BY <1>s, <2>1, <2>2 DEF EventsAreAnalysed
<1>4. ASSUME NEW e \in LiveEvents, RecordLive(e) PROVE EventsAreAnalysed'
  BY <1>4 DEF RecordLive, EventsAreAnalysed
<1>5. CASE ReadForLive
  BY <1>5, <1>k DEF ReadForLive
<1>6. CASE ReanalysisRaises
  BY <1>6, <1>k DEF ReanalysisRaises
<1>7. CASE PersistLive
  BY <1>7, <1>k DEF PersistLive
<1>8. CASE Announce
  <2>1. \E r \in runs : fresh \subseteq r.of
    BY <1>8 DEF Announce, FreshIsRead
  <2>2. UNCHANGED <<events, runs, lapsed, restarts>>
    BY <1>8 DEF Announce
  <2> QED BY <2>1, <2>2 DEF EventsAreAnalysed
<1>9. ASSUME NEW a \in Analysts, ReadForAnalyst(a) PROVE EventsAreAnalysed'
  BY <1>9, <1>k DEF ReadForAnalyst
<1>10. ASSUME NEW a \in Analysts, PersistForAnalyst(a) PROVE EventsAreAnalysed'
  BY <1>10, <1>k DEF PersistForAnalyst
<1>11. ASSUME NEW t \in Threads, TakeTime(t) PROVE EventsAreAnalysed'
  BY <1>11, <1>k DEF TakeTime
<1>12. CASE Restart
  <2>1. restarts' # 0
    BY <1>12 DEF Restart, TypeOK
  <2> QED BY <2>1 DEF EventsAreAnalysed
<1>13. CASE UNCHANGED vars
  BY <1>13, <1>k DEF vars
<1> QED BY <1>1, <1>2, <1>3, <1>4, <1>5, <1>6, <1>7, <1>8, <1>9, <1>10, <1>11, <1>12, <1>13 DEF Next

\* Every reachable state satisfies the inductive invariant of the analysis
\* runs, whatever the interleaving of the threads of batch.py and phase3.py.
THEOREM AnalysisInvariant == Spec => []AnalysisInv
<1>1. AnalysisInv /\ [Next]_vars => AnalysisInv'
  BY TypeStep, ReadsStep, FreshStep, RunsStep, EventsStep DEF AnalysisInv
<1> QED BY InitInv, <1>1, PTL DEF Spec

\* Every variable keeps its type, and a thread that is idle holds nothing it
\* read before.
THEOREM TypeCorrect == Spec => []TypeOK
BY AnalysisInvariant, PTL DEF AnalysisInv

\* No analysis run of a case rests on an event the case does not hold
\* (commit_import stores events and run in one transaction, and nothing when it
\* is cancelled).
THEOREM RunsAreGrounded == Spec => []RunsRestOnStoredEvents
BY AnalysisInvariant, PTL DEF AnalysisInv

\* Threads that compute the same analysis at the same time store it once
\* (_persist_analysis).
THEOREM AnalysesAreStoredOnce == Spec => []RunsAreDistinct
BY AnalysisInvariant, PTL DEF AnalysisInv

\* Without a restart, every event of a case is in some run unless the live
\* worker has yet to read it or its reanalysis raised.
THEOREM NoEventIsForgotten == Spec => []EventsAreAnalysed
BY AnalysisInvariant, PTL DEF AnalysisInv
=============================================================================
