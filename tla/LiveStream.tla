----------------------------- MODULE LiveStream -----------------------------
(***************************************************************************)
(* The live feed of a case: messages are appended to one log for all cases *)
(* and pruned as they are (emit in services/phase3.py), a browser follows  *)
(* the log over server-sent events (live_stream in api/phase3.py), and     *)
(* resumes from the last identifier it saw (SseLiveDataSource.ts).  A      *)
(* cursor the log can no longer honour is answered by a reset: the browser *)
(* then fetches the state from the investigation API (stream_gap and       *)
(* useLiveInvalidation.ts), which covers every message so far.             *)
(*                                                                         *)
(* One browser is modelled, without topic filter; cursors that are not     *)
(* numbers, which it never sends, are left out.  The database file may be  *)
(* replaced by a fresh one while the server is down.                       *)
(***************************************************************************)
EXTENDS Integers, FiniteSets, FiniteSetsExt

CONSTANTS
    Cases, Ours,    \* the cases with live sessions; the one the browser follows
    Retention,      \* live_stream_retention
    BatchLimit,     \* limit of stream_after
    MaxIssued,      \* messages of one database file
    MaxRebuilds     \* fresh database files

ASSUME StreamConstants ==
    /\ Ours \in Cases
    /\ Retention \in Nat \ {0} /\ BatchLimit \in Nat \ {0}
    /\ MaxIssued \in Nat /\ MaxRebuilds \in Nat

VARIABLES
    log,        \* stream_messages
    issued,     \* the last stream_id given
    file,       \* which database file this is
    link,       \* the browser's connection: closed, accepted (gap looked for), open
    reset,      \* what the gap check found
    cursor,     \* the position of the server's generator
    lastId,     \* the last identifier the browser saw, 0 for none
    got,        \* history: messages the browser received
    sent,       \* history: messages of its case
    excused,    \* history: messages a reset told it to fetch as state
    early,      \* history: messages pruned before it had any identifier
    unseen      \* history: messages the feed drops without a word, see Emit

server == <<log, issued, file>>
client == <<link, reset, cursor, lastId, got, excused>>
vars == <<server, client, sent, early, unseen>>

Messages == [file : 0..MaxRebuilds, id : 1..MaxIssued, case : Cases]
None == -1

TypeOK ==
    /\ log \subseteq Messages /\ IsFiniteSet(log)
    /\ issued \in 0..MaxIssued /\ file \in 0..MaxRebuilds
    /\ link \in {"closed", "accepted", "open"}
    /\ reset \in None..MaxIssued /\ cursor \in 0..MaxIssued /\ lastId \in 0..MaxIssued
    /\ got \subseteq sent /\ excused \subseteq sent
    /\ early \subseteq sent /\ unseen \subseteq sent /\ sent \subseteq Messages

Init ==
    /\ log = {} /\ issued = 0 /\ file = 0
    /\ link = "closed" /\ reset = None /\ cursor = 0 /\ lastId = 0
    /\ got = {} /\ sent = {} /\ excused = {} /\ early = {} /\ unseen = {}
-----------------------------------------------------------------------------
OfCase(ms) == {m \in ms : m.case = Ours}
Newest(ms) == {m \in ms : Cardinality({n \in ms : n.id > m.id}) < Retention}

\* Its connection follows the log: no reset is due.
Following == link = "open" \/ (link = "accepted" /\ reset = None)

\* A browser that comes back with its identifier would be told of what is
\* missing: the log no longer reaches back to it.
TooOld(ms) == \A n \in ms : n.id > lastId + 1

\* emit: the new message is inserted, those past their hours go, then all but
\* the newest.  A message bears the time its thread read before it took the
\* lock, and the clock may be set, so those past their hours are any: older or
\* younger than what stays, the new one included.  The history notes what may
\* be missed without a reset: what goes under a connection that follows; what
\* goes while a message stays that the check for a gap will take for the
\* browser's position or the one after it; and a message that gets, in a fresh
\* file, an identifier the browser believes it has.
Emit(c) ==
    LET m == [file |-> file, id |-> issued + 1, case |-> c] IN
    /\ issued < MaxIssued
    /\ issued' = issued + 1
    /\ \E expired \in SUBSET (log \cup {m}) :
        log' = Newest((log \cup {m}) \ expired)
    /\ LET gone == OfCase((log \cup {m}) \ (log' \cup got)) IN
        /\ early' = IF lastId = 0 THEN early \cup gone ELSE early
        /\ unseen' = unseen
            \cup (IF lastId > 0 /\ (Following \/ ~TooOld(log')) THEN gone ELSE {})
            \cup (IF m.id <= lastId THEN OfCase({m}) ELSE {})
    /\ sent' = sent \cup OfCase({m})
    /\ UNCHANGED <<file, client>>

Earliest == Min({m.id : m \in log})
Latest == Max({m.id : m \in log})

\* Faulty variant of Gap: a cursor older than the log by one is let through.
GapOffByOne(id) ==
    IF id <= 0 THEN None
    ELSE IF log = {} THEN 0
    ELSE IF id > Latest THEN Latest
    ELSE IF id >= Earliest - 2 THEN None
    ELSE Earliest - 1

\* stream_gap: where to resume, or None if the cursor can be honoured.
Gap(id) ==
    IF id <= 0 THEN None
    ELSE IF log = {} THEN 0
    ELSE IF id > Latest THEN Latest
    ELSE IF id >= Earliest - 1 THEN None
    ELSE Earliest - 1

\* live_stream, up to the response: the gap is looked for once.
Connect ==
    /\ link = "closed"
    /\ link' = "accepted" /\ reset' = Gap(lastId) /\ cursor' = lastId
    /\ UNCHANGED <<server, lastId, got, excused, sent, early, unseen>>

\* The generator starts; the browser takes an identifier 0 for none.
Begin ==
    /\ link = "accepted"
    /\ link' = "open" /\ reset' = None
    /\ IF reset = None THEN UNCHANGED <<cursor, lastId, excused>>
       ELSE /\ cursor' = reset
            /\ lastId' = IF reset = 0 THEN lastId ELSE reset
            /\ excused' = sent
    /\ UNCHANGED <<server, got, sent, early, unseen>>

StreamAfter(id) ==
    LET later == {m \in log : m.case = Ours /\ m.id > id}
    IN {m \in later : Cardinality({n \in later : n.id < m.id}) < BatchLimit}

\* The generator is gone.
Close == link' = "closed" /\ cursor' = 0

\* One turn of the generator; the connection may break in the middle of it.
Poll ==
    LET batch == StreamAfter(cursor) IN
    /\ link = "open"
    /\ \E last \in batch :
        LET read == {m \in batch : m.id <= last.id} IN
        /\ lastId' = last.id
        /\ got' = got \cup read
        /\ IF read = batch THEN cursor' = last.id /\ UNCHANGED link ELSE Close
    /\ UNCHANGED <<server, reset, excused, sent, early, unseen>>

Disconnect ==
    /\ link # "closed" /\ Close
    /\ reset' = None
    /\ UNCHANGED <<server, lastId, got, excused, sent, early, unseen>>

\* The server is restarted on a fresh database file.
Rebuild ==
    /\ file < MaxRebuilds
    /\ file' = file + 1 /\ log' = {} /\ issued' = 0
    /\ Close /\ reset' = None
    /\ UNCHANGED <<lastId, got, excused, sent, early, unseen>>

Next ==
    \/ \E c \in Cases : Emit(c)
    \/ Connect \/ Begin \/ Poll \/ Disconnect \/ Rebuild

Spec == Init /\ [][Next]_vars
-----------------------------------------------------------------------------
Current == {m \in sent : m.file = file}
Told(m) == m \in got \cup excused \cup early

\* A gap is announced unless the history says which way it was dropped: of the
\* messages of this database file, each one behind the browser's position was
\* received, or a reset told the browser to fetch the state after it was sent
\* (stream_gap, SseLiveDataSource.connect).
GapsAnnounced == \A m \in Current : m.id <= lastId => Told(m) \/ m \in unseen

\* What the repository says: a gap is never silent (roadmap.md:196), but for
\* what was pruned before the browser had any identifier, as a fresh connection
\* is not a gap.  The code breaks it.
GapNeverSilent == \A m \in Current : m.id <= lastId => Told(m)

\* What stream_gap says: the browser's log is still complete when the message
\* after its identifier is retained (phase3.py:744).  The code breaks it: a
\* message in the middle of the log may be past its hours.
ResumedIsComplete ==
    [][Connect /\ lastId > 0 /\ reset' = None =>
        \A m \in Current : m.id > lastId => m \in log \cup early]_vars

\* The log holds messages of this database file only.
LogIsCurrent ==
    /\ \A m \in log : m.file = file /\ m.id <= issued
    /\ OfCase(log) \subseteq sent
    /\ \A m \in sent : m.case = Ours /\ m.file <= file /\ (m.file = file => m.id <= issued)

\* What a connection that follows has yet to deliver is in the log, or accounted
\* for; so is what a browser that will come back has yet to read, unless it will
\* be told of a gap; and everything as long as the browser has no identifier.
NothingSkipped ==
    LET Kept(m) == m \in log \/ Told(m) \/ m \in unseen IN
    /\ cursor <= lastId
    /\ Following => \A m \in Current : m.id > cursor => Kept(m)
    /\ ~Following /\ lastId > 0 =>
        TooOld(log) \/ \A m \in Current : m.id > lastId => Kept(m)
    /\ lastId = 0 => \A m \in Current : Kept(m)

\* GapsAnnounced by itself is not inductive: what will be read next must not
\* have been skipped either.
StreamInv == TypeOK /\ LogIsCurrent /\ NothingSkipped /\ GapsAnnounced
=============================================================================
