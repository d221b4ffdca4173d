---------------------------- MODULE CaseAnalysis ----------------------------
(***************************************************************************)
(* The analysis runs of one case.  Three kinds of thread write them:       *)
(*   commit   the batch worker, committing an import (batch.py);           *)
(*   live     the phase 3 worker, which reanalyses a case after the live   *)
(*            events it recorded (phase3.py);                              *)
(*   analyst  request threads that ask for a new analysis (batch.py).      *)
(* Each reads the events without the write lock, computes, takes a time    *)
(* and only then opens the transaction that stores its run.  Every reader  *)
(* takes the run with the greatest created_at for the state of the case.   *)
(*                                                                         *)
(* An analysis is a function of the events it is given and its identifier  *)
(* is a digest of them (analysis/service.py), so a run is the set of its   *)
(* events.  Left out: the artifacts of a run, the other cases.             *)
(***************************************************************************)
EXTENDS Integers, FiniteSets

CONSTANTS
    LiveEvents,     \* events the live worker can record
    FileEvents,     \* events of the imports that can be committed, one each
    Analysts,       \* request threads
    MaxTimes,       \* times taken from the clock the model allows
    MaxFailures,    \* reanalyses that raise
    MaxRestarts     \* process deaths the model allows

Events == LiveEvents \cup FileEvents
Threads == {"commit", "live"} \cup Analysts
Times == 0..MaxTimes

ASSUME AnalysisConstants ==
    /\ LiveEvents \cap FileEvents = {}
    /\ Analysts \cap {"commit", "live"} = {}
    /\ MaxTimes \in Nat /\ MaxFailures \in Nat /\ MaxRestarts \in Nat

VARIABLES
    events,     \* canonical_events of the case
    runs,       \* analysis_runs: the events analysed and created_at
    clock,      \* the last time a thread took
    thread,     \* what each thread has read and is about to write
    fresh,      \* live events recorded since the live worker last read them
    lapsed,     \* live events whose reanalysis raised
    announced,  \* timeline.updated messages: the run named, what it is for
    restarts

vars == <<events, runs, clock, thread, fresh, lapsed, announced, restarts>>

Idle == [at |-> "idle", seen |-> {}, new |-> {}, time |-> 0]

Init ==
    /\ events = {} /\ runs = {} /\ clock = 0
    /\ thread = [t \in Threads |-> Idle]
    /\ fresh = {} /\ lapsed = {} /\ announced = {}
    /\ restarts = 0

-----------------------------------------------------------------------------
(* Steps shared by the three. *)

\* SELECT canonical_json FROM canonical_events.
ReadEvents(t, new) ==
    thread' = [thread EXCEPT ![t] = [Idle EXCEPT !.at = "analyse", !.seen = events, !.new = new]]

\* The analysis is computed and utcnow() taken, all before the lock.
TakeTime(t) ==
    /\ thread[t].at = "analyse"
    /\ clock < MaxTimes
    /\ clock' = clock + 1
    /\ thread' = [thread EXCEPT ![t].at = "persist", ![t].time = clock + 1]
    /\ UNCHANGED <<events, runs, fresh, lapsed, announced, restarts>>

\* Faulty variants of Stored: the identifier is not looked up first; the
\* result is that of the new events alone.
StoredAgain(t) == runs \cup {[of |-> thread[t].seen \cup thread[t].new, at |-> thread[t].time]}
StoredWithoutPrior(t) == runs \cup {[of |-> thread[t].new, at |-> thread[t].time]}

\* _persist_analysis: an identifier already stored is reused as it is.
Stored(t) ==
    LET of == thread[t].seen \cup thread[t].new IN
    IF \E r \in runs : r.of = of THEN runs ELSE runs \cup {[of |-> of, at |-> thread[t].time]}

-----------------------------------------------------------------------------
(* The batch worker: commit_import from the read of the prior events on. *)

BeginCommit(e) ==
    /\ thread["commit"].at = "idle"
    /\ e \notin events
    /\ ReadEvents("commit", {e})
    /\ UNCHANGED <<events, runs, clock, fresh, lapsed, announced, restarts>>

\* Faulty variants: the run is stored before the status is looked at; the
\* cancelled commit keeps what it read.
AbandonStoringRun ==
    /\ thread["commit"].at = "analyse"
    /\ runs' = Stored("commit")
    /\ thread' = [thread EXCEPT !["commit"] = Idle]
    /\ UNCHANGED <<events, clock, fresh, lapsed, announced, restarts>>
AbandonKeepingRead ==
    /\ thread["commit"].at = "analyse"
    /\ thread' = [thread EXCEPT !["commit"].at = "idle"]
    /\ UNCHANGED <<events, runs, clock, fresh, lapsed, announced, restarts>>

\* The commit is cancelled or raises: nothing is stored.
AbandonCommit ==
    /\ thread["commit"].at = "analyse"
    /\ thread' = [thread EXCEPT !["commit"] = Idle]
    /\ UNCHANGED <<events, runs, clock, fresh, lapsed, announced, restarts>>

\* Events and run in one transaction.
PersistCommit ==
    /\ thread["commit"].at = "persist"
    /\ events' = events \cup thread["commit"].new
    /\ runs' = Stored("commit")
    /\ thread' = [thread EXCEPT !["commit"] = Idle]
    /\ UNCHANGED <<clock, fresh, lapsed, announced, restarts>>

-----------------------------------------------------------------------------
(* The live worker: events of a batch one by one, then _reanalyze_live. *)

\* Faulty variant: events are recorded while a reanalysis runs.
RecordLiveAnytime(e) ==
    /\ e \notin events
    /\ events' = events \cup {e}
    /\ fresh' = fresh \cup {e}
    /\ UNCHANGED <<runs, clock, thread, lapsed, announced, restarts>>

RecordLive(e) ==
    /\ thread["live"].at = "idle"
    /\ e \notin events
    /\ events' = events \cup {e}
    /\ fresh' = fresh \cup {e}
    /\ UNCHANGED <<runs, clock, thread, lapsed, announced, restarts>>

\* new stays empty: the events are stored already.
ReadForLive ==
    /\ thread["live"].at = "idle"
    /\ fresh # {}
    /\ ReadEvents("live", {})
    /\ UNCHANGED <<events, runs, clock, fresh, lapsed, announced, restarts>>

\* Caught and audited as live.analysis_failed.
ReanalysisRaises ==
    /\ thread["live"].at = "analyse"
    /\ Cardinality(lapsed) < MaxFailures
    /\ thread' = [thread EXCEPT !["live"] = Idle]
    /\ lapsed' = lapsed \cup fresh
    /\ fresh' = {}
    /\ UNCHANGED <<events, runs, clock, announced, restarts>>

PersistLive ==
    /\ thread["live"].at = "persist"
    /\ runs' = Stored("live")
    /\ thread' = [thread EXCEPT !["live"].at = "announce"]
    /\ UNCHANGED <<events, clock, fresh, lapsed, announced, restarts>>

Latest == CHOOSE r \in runs : \A q \in runs : q.at <= r.at

\* The run named is looked up again: the latest by now.
Announce ==
    /\ thread["live"].at = "announce"
    /\ announced' = announced \cup {[of |-> Latest.of, for |-> fresh]}
    /\ thread' = [thread EXCEPT !["live"] = Idle]
    /\ fresh' = {}
    /\ UNCHANGED <<events, runs, clock, lapsed, restarts>>

-----------------------------------------------------------------------------
(* POST /cases/{case_id}/analyses. *)

ReadForAnalyst(a) ==
    /\ thread[a].at = "idle"
    /\ ReadEvents(a, {})
    /\ UNCHANGED <<events, runs, clock, fresh, lapsed, announced, restarts>>

PersistForAnalyst(a) ==
    /\ thread[a].at = "persist"
    /\ runs' = Stored(a)
    /\ thread' = [thread EXCEPT ![a] = Idle]
    /\ UNCHANGED <<events, clock, fresh, lapsed, announced, restarts>>

\* Process death: recovery resumes imports and receipts, never an analysis.
Restart ==
    /\ restarts < MaxRestarts
    /\ restarts' = restarts + 1
    /\ thread' = [t \in Threads |-> Idle]
    /\ fresh' = {}
    /\ UNCHANGED <<events, runs, clock, lapsed, announced>>

Next ==
    \/ \E e \in FileEvents : BeginCommit(e)
    \/ AbandonCommit \/ PersistCommit
    \/ \E e \in LiveEvents : RecordLive(e)
    \/ ReadForLive \/ ReanalysisRaises \/ PersistLive \/ Announce
    \/ \E a \in Analysts : ReadForAnalyst(a) \/ PersistForAnalyst(a)
    \/ \E t \in Threads : TakeTime(t)
    \/ Restart

Spec == Init /\ [][Next]_vars

-----------------------------------------------------------------------------
Runs == [of : SUBSET Events, at : Times]

TypeOK ==
    /\ events \in SUBSET Events
    /\ runs \in SUBSET Runs
    /\ clock \in Times
    /\ thread \in [Threads -> [at : {"idle", "analyse", "persist", "announce"}, seen : SUBSET Events,
                               new : SUBSET Events, time : Times]]
    /\ \A t \in Threads : thread[t].time <= clock /\ (thread[t].at = "idle" => thread[t] = Idle)
    /\ fresh \in SUBSET LiveEvents /\ lapsed \in SUBSET LiveEvents
    /\ announced \in SUBSET [of : SUBSET Events, for : SUBSET LiveEvents]
    /\ restarts \in 0..MaxRestarts

\* No run, and so no finding, alert or report, rests on an event the case does
\* not hold: a commit that is abandoned or raises leaves no run behind.
RunsRestOnStoredEvents == \A r \in runs : r.of \subseteq events

\* The same events are analysed once: two threads that computed the same
\* analysis at the same time store one run, with one created_at.
RunsAreDistinct == \A r, q \in runs : r.of = q.of => r = q

\* Every event of the case is in some run, except those the live worker has
\* yet to read and those whose reanalysis raised or a restart forgot.
EventsAreAnalysed ==
    restarts = 0 => \A e \in events \ (fresh \cup lapsed) : \E r \in runs : e \in r.of

-----------------------------------------------------------------------------
(* The inductive invariant of the proofs. *)

\* A thread has read nothing but stored events; only the commit brings new
\* ones, which the others read from the table.
ReadsAreStored ==
    /\ fresh \subseteq events
    /\ \A t \in Threads : thread[t].seen \subseteq events /\ (t # "commit" => thread[t].new = {})

\* The live worker has read, and later stored, what it is to announce: it
\* records no event between its read and its announcement.
FreshIsRead ==
    /\ thread["live"].at \in {"analyse", "persist"} => fresh \subseteq thread["live"].seen
    /\ thread["live"].at = "announce" => \E r \in runs : fresh \subseteq r.of

\* Latest is defined once there is a run.
LatestExists == runs # {} => \E r \in runs : \A q \in runs : q.at <= r.at

AnalysisInv ==
    /\ TypeOK /\ ReadsAreStored /\ FreshIsRead /\ LatestExists
    /\ RunsRestOnStoredEvents /\ RunsAreDistinct /\ EventsAreAnalysed

-----------------------------------------------------------------------------
(* What a comment says of analyses and the code does not do. *)

\* The timeline announced after live events contains them.
AnnouncedIsFresh == \A m \in announced : m.for \subseteq m.of
=============================================================================
