----------------------------- MODULE LiveIngest -----------------------------
(***************************************************************************)
(* Live telemetry ingest of backend/app/services/phase3.py: the live       *)
(* sessions, the durable receipts and the worker that turns a receipt into *)
(* evidence.  Three kinds of thread share the tables and one queue:        *)
(*   submit  the event loop (receive_telemetry is `async def`) and the USB *)
(*           sensor thread, both of which run submit_live;                 *)
(*   client  request threads in start_live_session, stop_live_session and  *)
(*           simulate_alert;                                               *)
(*   worker  the one phase 3 worker, which takes a batch from the queue.   *)
(* A step is what a thread does between two points at which another thread *)
(* can change what it reads: a locked transaction, a read or a queue call. *)
(*                                                                         *)
(* Left out: audit rows, stream messages, the device register, the rate    *)
(* limit, malformed bodies (no receipt), the five second pause between     *)
(* simulations (any time may pass) and the case analysis that follows.     *)
(***************************************************************************)
EXTENDS Integers, Sequences, FiniteSets

CONSTANTS
    Cases,          \* the cases sessions belong to
    Sources,        \* the source_ids with a token (live_source_tokens)
    Simulator,      \* traceveil-simulator, which has none
    Bodies,         \* what frames of the same number can differ in
    MaxSeq,         \* highest sequence number a sensor sends
    Submitters,     \* threads that run submit_live
    Clients,        \* request threads that can be inside a handler at once
    MaxSessions,    \* sessions the model allows
    MaxReceipts,    \* receipts the model allows
    QueueCap,       \* live_queue_size
    Batch,          \* most entries taken before they are processed (100)
    SimCount,       \* authentication_failure_threshold
    MaxRestarts     \* process deaths the model allows

NoSeq == -1
Seqs == 0..MaxSeq

ASSUME LiveConstants ==
    /\ Simulator \notin Sources
    /\ Cases # {} /\ Bodies # {}
    /\ MaxSeq \in Nat /\ QueueCap \in Nat /\ Batch \in Nat \ {0}
    /\ MaxSessions \in Nat /\ MaxReceipts \in Nat
    /\ SimCount \in Nat \ {0}
    /\ MaxRestarts \in Nat

\* The payload hash covers the whole frame: two frames have the same hash
\* exactly when they are equal.
Frames == [case : Cases, source : Sources, seq : Seqs \cup {NoSeq}, body : Bodies]
Simulated == [case : Cases, source : {Simulator}, seq : {NoSeq}, body : Bodies]
Numbered == {f \in Frames : f.seq # NoSeq}

VARIABLES
    sessions,   \* live_sessions; started_at orders them as their index does
    receipts,   \* live_receipts, in order of received_at
    highWater,  \* live_source_sequence_state, NoSeq for no row
    issues,     \* live_ingest_issues: the frames quarantined
    records,    \* live_evidence_records: the receipts that became evidence
    queue,      \* receipt ids waiting for the worker; 0 is an assistant job
    worker,     \* the phase 3 worker thread
    submit,     \* the receipt each submitter is about to queue, 0 for none
    client,     \* the request threads
    restarts    \* process deaths so far

tables == <<sessions, receipts, highWater, issues, records>>
vars == <<sessions, receipts, highWater, issues, records, queue, worker, submit, client, restarts>>

-----------------------------------------------------------------------------
SessionIds == 1..MaxSessions
ReceiptIds == 1..MaxReceipts

\* "starting" is a session whose row is not inserted yet, "void" one whose
\* request died before inserting it.
SessionStates == {"absent", "starting", "active", "completed", "void"}
ReceiptStates == {"queued", "processing", "completed", "failed", "cancelled"}
Errors == {"none", "worker_queue_full", "live_processing_failed"}

Sessions == [case : Cases, sources : SUBSET Sources, status : SessionStates, accepted : Nat]
Receipts == [session : SessionIds, frame : Frames \cup Simulated, status : ReceiptStates,
             error : Errors]

NoSession == [case |-> CHOOSE k \in Cases : TRUE, sources |-> {}, status |-> "absent", accepted |-> 0]
IdleWorker == [at |-> "collect", work |-> << >>]
IdleClient == [at |-> "idle", session |-> 0, todo |-> << >>]

Init ==
    /\ sessions = [s \in SessionIds |-> NoSession]
    /\ receipts = << >>
    /\ highWater = [s \in Sources |-> NoSeq]
    /\ issues = {} /\ records = {}
    /\ queue = << >>
    /\ worker = IdleWorker /\ submit = [u \in Submitters |-> 0]
    /\ client = [c \in Clients |-> IdleClient]
    /\ restarts = 0

-----------------------------------------------------------------------------
(* What the threads share. *)

Receipt(s, f) == [session |-> s, frame |-> f, status |-> "queued", error |-> "none"]

\* Faulty variants of Enqueue: no bound; a full queue drops the entry silently.
EnqueueUnbounded(r) == queue' = Append(queue, r) /\ UNCHANGED receipts
EnqueueDropping(r) ==
    /\ queue' = IF Len(queue) < QueueCap THEN Append(queue, r) ELSE queue
    /\ UNCHANGED receipts

\* _enqueue: put_nowait, or a failed receipt whatever its status is by now.
Enqueue(r) ==
    \/ /\ Len(queue) < QueueCap
       /\ queue' = Append(queue, r)
       /\ UNCHANGED receipts
    \/ /\ Len(queue) >= QueueCap
       /\ receipts' = [receipts EXCEPT ![r].status = "failed", ![r].error = "worker_queue_full"]
       /\ UNCHANGED queue

-----------------------------------------------------------------------------
(* submit_live. *)

\* ORDER BY started_at DESC, first row; 0 for none.
ActiveOf(k) == {s \in SessionIds : sessions[s].status = "active" /\ sessions[s].case = k}
Newest(k) == IF ActiveOf(k) = {} THEN 0 ELSE CHOOSE s \in ActiveOf(k) : \A t \in ActiveOf(k) : t <= s

Listens(f) == Newest(f.case) # 0 /\ f.source \in sessions[Newest(f.case)].sources

\* Faulty variant of Prior: numbers are looked up in the newest session only.
PriorInSession(f) ==
    {r \in DOMAIN receipts :
        /\ receipts[r].session = Newest(f.case)
        /\ \/ f.seq # NoSeq /\ receipts[r].frame.source = f.source /\ receipts[r].frame.seq = f.seq
           \/ f.seq = NoSeq /\ receipts[r].frame = f}

\* The receipt a frame repeats: of the same source and number in any session,
\* or of the same bytes in the same session when the frame has no number.
Prior(f) ==
    IF f.seq # NoSeq
    THEN {r \in DOMAIN receipts : receipts[r].frame.source = f.source /\ receipts[r].frame.seq = f.seq}
    ELSE {r \in DOMAIN receipts : receipts[r].session = Newest(f.case) /\ receipts[r].frame = f}

Collides(f) == \E r \in Prior(f) : receipts[r].frame # f

\* Faulty variant of Behind: the mark of the newest session only.
BehindInSession(f) ==
    /\ f.seq # NoSeq
    /\ \E r \in DOMAIN receipts :
        /\ receipts[r].session = Newest(f.case)
        /\ receipts[r].frame.source = f.source /\ receipts[r].frame.seq > f.seq

Behind(f) == f.seq # NoSeq /\ f.seq < highWater[f.source]

\* TV5-11: lookup, classification, receipt and mark in one transaction.
AcceptFrame(u, f) ==
    /\ submit[u] = 0
    /\ Listens(f) /\ Prior(f) = {} /\ ~Behind(f)
    /\ Len(receipts) < MaxReceipts
    /\ receipts' = Append(receipts, Receipt(Newest(f.case), f))
    /\ highWater' = IF f.seq > NoSeq /\ f.seq > highWater[f.source]
                    THEN [highWater EXCEPT ![f.source] = f.seq] ELSE highWater
    /\ submit' = [submit EXCEPT ![u] = Len(receipts) + 1]
    /\ UNCHANGED <<sessions, issues, records, queue, worker, client, restarts>>

\* Faulty variant: the mark is looked at before the receipts, so the replay of
\* an older frame counts as a regression.
QuarantineReplays(u, f) ==
    /\ submit[u] = 0
    /\ Listens(f)
    /\ f.seq # NoSeq
    /\ Behind(f) \/ Collides(f)
    /\ issues' = issues \cup {f}
    /\ UNCHANGED <<sessions, receipts, highWater, records, queue, worker, submit, client, restarts>>

\* A collision or a regression; an exact replay changes no table modelled.
QuarantineFrame(u, f) ==
    /\ submit[u] = 0
    /\ Listens(f) /\ f.seq # NoSeq
    /\ Collides(f) \/ (Prior(f) = {} /\ Behind(f))
    /\ issues' = issues \cup {f}
    /\ UNCHANGED <<sessions, receipts, highWater, records, queue, worker, submit, client, restarts>>

QueueReceipt(u) ==
    /\ submit[u] # 0
    /\ Enqueue(submit[u])
    /\ submit' = [submit EXCEPT ![u] = 0]
    /\ UNCHANGED <<sessions, highWater, issues, records, worker, client, restarts>>

-----------------------------------------------------------------------------
(* Request threads. *)

ClientFrame == UNCHANGED <<highWater, issues, records, worker, submit, restarts>>

NewSession(s) == sessions[s].status = "absent" /\ \A t \in SessionIds : t < s => sessions[t].status # "absent"

Taken(sources) == \E s \in SessionIds : sessions[s].status = "active" /\ sessions[s].sources \cap sources # {}

\* start_live_session: the check is outside the lock that guards the insert;
\* the start time is taken in between.
CheckSources(c, k, sources) ==
    /\ client[c].at = "idle"
    /\ sources # {} /\ ~Taken(sources)
    /\ \E s \in SessionIds :
        /\ NewSession(s)
        /\ sessions' = [sessions EXCEPT ![s] =
               [NoSession EXCEPT !.case = k, !.sources = sources, !.status = "starting"]]
        /\ client' = [client EXCEPT ![c] = [IdleClient EXCEPT !.at = "insert", !.session = s]]
    /\ ClientFrame /\ UNCHANGED <<receipts, queue>>

InsertSession(c) ==
    /\ client[c].at = "insert"
    /\ sessions' = [sessions EXCEPT ![client[c].session].status = "active"]
    /\ client' = [client EXCEPT ![c] = IdleClient]
    /\ ClientFrame /\ UNCHANGED <<receipts, queue>>

\* stop_live_session: the status is read before the transaction.
ReadForStop(c, s) ==
    /\ client[c].at = "idle"
    /\ sessions[s].status = "active"
    /\ client' = [client EXCEPT ![c] = [IdleClient EXCEPT !.at = "stop", !.session = s]]
    /\ ClientFrame /\ UNCHANGED <<sessions, receipts, queue>>

\* Faulty variant of CancelQueued: the receipt in the worker's hands is
\* cancelled too.
CancelUnfinished(s) ==
    [r \in DOMAIN receipts |-> IF receipts[r].session = s /\ receipts[r].status \in {"queued", "processing"}
                               THEN [receipts[r] EXCEPT !.status = "cancelled"] ELSE receipts[r]]
CancelQueued(s) ==
    [r \in DOMAIN receipts |-> IF receipts[r].session = s /\ receipts[r].status = "queued"
                               THEN [receipts[r] EXCEPT !.status = "cancelled"] ELSE receipts[r]]

StopSession(c) ==
    /\ client[c].at = "stop"
    /\ sessions' = [sessions EXCEPT ![client[c].session].status = "completed"]
    /\ receipts' = CancelQueued(client[c].session)
    /\ client' = [client EXCEPT ![c] = IdleClient]
    /\ ClientFrame /\ UNCHANGED queue

\* simulate_alert: one transaction inserts the receipts, the puts follow.
Simulate(c, s) ==
    /\ client[c].at = "idle"
    /\ sessions[s].status = "active"
    /\ Len(queue) + SimCount <= QueueCap
    /\ Len(receipts) + SimCount <= MaxReceipts
    /\ LET f == [case |-> sessions[s].case, source |-> Simulator, seq |-> NoSeq,
               body |-> CHOOSE b \in Bodies : TRUE]
       IN receipts' = receipts \o [n \in 1..SimCount |-> Receipt(s, f)]
    /\ client' = [client EXCEPT ![c] = [IdleClient EXCEPT !.at = "put",
                      !.todo = [n \in 1..SimCount |-> Len(receipts) + n]]]
    /\ ClientFrame /\ UNCHANGED <<sessions, queue>>

PutSimulated(c) ==
    /\ client[c].at = "put"
    /\ Enqueue(Head(client[c].todo))
    /\ client' = [client EXCEPT ![c] = IF Len(client[c].todo) = 1 THEN IdleClient
                                       ELSE [client[c] EXCEPT !.todo = Tail(client[c].todo)]]
    /\ ClientFrame /\ UNCHANGED sessions

\* Another request queues an assistant job, which takes a place in the queue.
QueueAssistantJob ==
    /\ Len(queue) < QueueCap
    /\ queue' = Append(queue, 0)
    /\ UNCHANGED <<tables, worker, submit, client, restarts>>

-----------------------------------------------------------------------------
(* The worker. *)

WorkerFrame == UNCHANGED <<highWater, issues, submit, client, restarts>>
Entry == Head(worker.work)
AfterEntry == [at |-> IF Len(worker.work) = 1 THEN "collect" ELSE "batch", work |-> Tail(worker.work)]

\* The first entry, and behind a live one those that arrive within a second.
TakeEntry ==
    /\ worker.at = "collect"
    /\ queue # << >>
    /\ Len(worker.work) < Batch
    /\ worker.work # << >> => Entry # 0
    /\ worker' = [worker EXCEPT !.work = Append(@, Head(queue))]
    /\ queue' = Tail(queue)
    /\ WorkerFrame /\ UNCHANGED <<sessions, receipts, records>>

AtEntry == worker.at \in {"collect", "batch"} /\ worker.work # << >>

\* Faulty variant of Claimable: the status is not looked at.
ClaimableAlways == Entry # 0
Claimable == Entry # 0 /\ receipts[Entry].status = "queued"

\* An assistant job, or a receipt that was cancelled or failed meanwhile.
SkipEntry ==
    /\ AtEntry
    /\ ~Claimable
    /\ worker' = AfterEntry
    /\ WorkerFrame /\ UNCHANGED <<sessions, receipts, records, queue>>

ClaimReceipt ==
    /\ AtEntry
    /\ Claimable
    /\ receipts' = [receipts EXCEPT ![Entry].status = "processing"]
    /\ worker' = [worker EXCEPT !.at = "busy"]
    /\ WorkerFrame /\ UNCHANGED <<sessions, records, queue>>

\* Evidence, event, counter and status in one transaction; receipt_id is
\* unique in live_evidence_records.
CompleteReceipt ==
    /\ worker.at = "busy"
    /\ Entry \notin records
    /\ records' = records \cup {Entry}
    /\ sessions' = [sessions EXCEPT ![receipts[Entry].session].accepted = @ + 1]
    /\ receipts' = [receipts EXCEPT ![Entry].status = "completed"]
    /\ worker' = AfterEntry
    /\ WorkerFrame /\ UNCHANGED queue

\* Acceptance or normalisation raises; nothing of the transaction remains.
ProcessingRaises ==
    /\ worker.at = "busy"
    /\ receipts' = [receipts EXCEPT ![Entry].status = "failed", ![Entry].error = "live_processing_failed"]
    /\ worker' = AfterEntry
    /\ WorkerFrame /\ UNCHANGED <<sessions, records, queue>>

-----------------------------------------------------------------------------
(* Process death and _recover. *)

\* Faulty variants of Reset: interrupted receipts are left as they are, or
\* finished ones are queued again.
ResetNothing(receipt) == receipt
ResetFinished(receipt) ==
    [receipt EXCEPT !.status = IF @ \in {"processing", "completed"} THEN "queued" ELSE @]
Reset(receipt) == [receipt EXCEPT !.status = IF @ = "processing" THEN "queued" ELSE @]

WasReset == [r \in DOMAIN receipts |-> Reset(receipts[r])]
Pending == {r \in DOMAIN receipts : WasReset[r].status = "queued"}

\* The first of the order take the places of the queue; the rest fail.
Requeue(order, n) ==
    LET kept == IF n < QueueCap THEN n ELSE QueueCap IN
    /\ queue' = [p \in 1..kept |-> order[p]]
    /\ receipts' = [r \in DOMAIN receipts |->
                      IF \E p \in (kept + 1)..n : order[p] = r
                      THEN [WasReset[r] EXCEPT !.status = "failed", !.error = "worker_queue_full"]
                      ELSE WasReset[r]]

\* Recovery queues before the worker exists, live receipts first and by
\* received_at; the assistant jobs behind them are QueueAssistantJob steps.
CrashAndRecover ==
    /\ restarts < MaxRestarts
    /\ restarts' = restarts + 1
    /\ \E order \in [1..Cardinality(Pending) -> Pending] :
        /\ \A r \in Pending : \E p \in DOMAIN order : order[p] = r
        /\ \A a, b \in DOMAIN order : a < b => order[a] < order[b]
        /\ Requeue(order, Cardinality(Pending))
    /\ sessions' = [s \in SessionIds |-> IF sessions[s].status = "starting"
                                         THEN [sessions[s] EXCEPT !.status = "void"] ELSE sessions[s]]
    /\ worker' = IdleWorker
    /\ submit' = [u \in Submitters |-> 0]
    /\ client' = [c \in Clients |-> IdleClient]
    /\ UNCHANGED <<highWater, issues, records>>

-----------------------------------------------------------------------------
ClientStep(c) == InsertSession(c) \/ StopSession(c) \/ PutSimulated(c)
WorkerStep == TakeEntry \/ SkipEntry \/ ClaimReceipt \/ CompleteReceipt \/ ProcessingRaises

Next ==
    \/ \E u \in Submitters, f \in Frames : AcceptFrame(u, f) \/ QuarantineFrame(u, f)
    \/ \E u \in Submitters : QueueReceipt(u)
    \/ \E c \in Clients, k \in Cases, sources \in SUBSET Sources : CheckSources(c, k, sources)
    \/ \E c \in Clients, s \in SessionIds : ReadForStop(c, s) \/ Simulate(c, s)
    \/ \E c \in Clients : ClientStep(c)
    \/ QueueAssistantJob
    \/ WorkerStep
    \/ CrashAndRecover

Spec == Init /\ [][Next]_vars

\* Threads inside a handler and the worker keep running; nobody is obliged to
\* send a frame, start, stop or simulate, or to restart the process.
FairSpec ==
    /\ Spec
    /\ \A u \in Submitters : WF_vars(QueueReceipt(u))
    /\ WF_vars(WorkerStep)
    /\ \A c \in Clients : WF_vars(ClientStep(c))

-----------------------------------------------------------------------------
ClientSlots ==
    {w \in [at : {"idle", "insert", "stop", "put"}, session : 0..MaxSessions, todo : Seq(ReceiptIds)] :
        w.at = "put" => w.todo # << >>}
WorkerSlots ==
    {w \in [at : {"collect", "batch", "busy"}, work : Seq(0..MaxReceipts)] :
        Len(w.work) <= Batch /\ (w.at = "busy" => w.work # << >> /\ Head(w.work) # 0)}

TypeOK ==
    /\ sessions \in [SessionIds -> Sessions]
    /\ receipts \in Seq(Receipts) /\ Len(receipts) <= MaxReceipts
    /\ highWater \in [Sources -> Seqs \cup {NoSeq}]
    /\ issues \in SUBSET Frames
    /\ records \in SUBSET ReceiptIds
    /\ queue \in Seq(0..MaxReceipts) /\ Len(queue) <= QueueCap
    /\ worker \in WorkerSlots
    /\ submit \in [Submitters -> 0..MaxReceipts]
    /\ client \in [Clients -> ClientSlots]
    /\ restarts \in 0..MaxRestarts

\* A quarantined frame never becomes a receipt and an accepted one is never
\* quarantined, in whatever session and order the copies arrive (TV5-11).
QuarantineIsFinal ==
    \A f \in issues, r \in DOMAIN receipts : receipts[r].frame # f

\* Why it is final: the number of a quarantined frame is taken by the one
\* receipt that has it, or lies below the mark of its source.
NumbersAreUnique ==
    \A a, b \in DOMAIN receipts :
        /\ receipts[a].frame.seq # NoSeq
        /\ receipts[a].frame.seq = receipts[b].frame.seq
        /\ receipts[a].frame.source = receipts[b].frame.source
        => a = b
QuarantineInv ==
    /\ TypeOK /\ NumbersAreUnique /\ QuarantineIsFinal
    /\ \A f \in issues : f.seq # NoSeq /\ (Prior(f) # {} \/ Behind(f))

\* A receipt is completed exactly when it has its one evidence record, and a
\* session counts the records made for it, across stops and restarts.
CompletedIsRecorded ==
    /\ \A r \in DOMAIN receipts : receipts[r].status = "completed" <=> r \in records
    /\ \A s \in SessionIds :
        sessions[s].accepted = Cardinality({r \in records : receipts[r].session = s})

\* A receipt that was given up stays so: it is never processed or recorded
\* later, although it may still be in the queue or in the worker's batch.
GivenUp == {"cancelled", "failed"}
GivenUpIsFinal ==
    [][\A r \in DOMAIN receipts : receipts[r].status \in GivenUp => receipts'[r].status \in GivenUp]_vars

\* What the worker has yet to look at, and what a thread is about to put.
Among(r, ids) == \E p \in DOMAIN ids : ids[p] = r
Waits(r) == Among(r, queue) \/ Among(r, worker.work)
Todo(c) == client[c].todo

Holding(r) ==
    \/ Waits(r)
    \/ \E u \in Submitters : submit[u] = r
    \/ \E c \in Clients : Among(r, Todo(c))

\* No receipt waits for nobody: one that is queued is in the queue, in the
\* worker's batch or about to be put, after any overflow, stop or restart.
QueuedIsHeld ==
    \A r \in DOMAIN receipts : receipts[r].status = "queued" => Holding(r)

\* In the hands of a thread that is about to put it: not for the worker yet.
Puttable(r) ==
    r \in DOMAIN receipts /\ receipts[r].status \in {"queued", "cancelled"} /\ ~Waits(r)

\* A receipt about to be put is known to its thread only, so that nothing but
\* a stop has changed its status when _enqueue may have to fail it.
PutsAreExclusive ==
    /\ \A u \in Submitters : submit[u] # 0 => Puttable(submit[u])
    /\ \A u, v \in Submitters : submit[u] = submit[v] /\ submit[u] # 0 => u = v
    /\ \A c \in Clients : \A p \in DOMAIN Todo(c) : Puttable(Todo(c)[p])
    /\ \A c, d \in Clients : \A p \in DOMAIN Todo(c), q \in DOMAIN Todo(d) :
            Todo(c)[p] = Todo(d)[q] => c = d /\ p = q
    /\ \A u \in Submitters, c \in Clients : \A p \in DOMAIN Todo(c) : Todo(c)[p] # submit[u]
    /\ \A c \in Clients : client[c].at # "put" => Todo(c) = << >>

\* Only the receipt in the worker's hands is being processed.
ProcessingIsHeld ==
    /\ \A r \in ReceiptIds : Waits(r) => r \in DOMAIN receipts
    /\ worker.at = "busy" => receipts[Entry].status = "processing"
    /\ \A r \in DOMAIN receipts : receipts[r].status = "processing" => worker.at = "busy" /\ Entry = r

\* The sessions of receipts were started, and evidence is made of receipts.
RecordsAreKnown ==
    /\ records \subseteq DOMAIN receipts
    /\ \A r \in DOMAIN receipts : sessions[receipts[r].session].status # "absent"

\* Why a receipt is settled once: at any time one thread is answerable for it.
HolderInv ==
    /\ TypeOK /\ PutsAreExclusive /\ ProcessingIsHeld
    /\ RecordsAreKnown /\ CompletedIsRecorded /\ QueuedIsHeld

\* Every receipt is settled in the end, across stops, overflows and restarts.
ReceiptsSettle ==
    \A r \in ReceiptIds :
        (r \in DOMAIN receipts /\ receipts[r].status \in {"queued", "processing"})
            ~> (r \in DOMAIN receipts /\ receipts[r].status \in {"completed", "failed", "cancelled"})

\* Every receipt passes from accepted to recorded or dropped as SourceLedger
\* allows it.
NumberedWith(statuses) ==
    {receipts[r].frame : r \in {q \in DOMAIN receipts :
        receipts[q].frame \in Numbered /\ receipts[q].status \in statuses}}
Ledger == INSTANCE SourceLedger WITH
    Frames <- Numbered,
    accepted <- NumberedWith(ReceiptStates),
    recorded <- NumberedWith({"completed"}),
    dropped <- NumberedWith(GivenUp)
\* The mark of a source lies at or above every number accepted from it.
MarksCoverNumbers ==
    \A r \in DOMAIN receipts :
        receipts[r].frame.seq # NoSeq => receipts[r].frame.seq <= highWater[receipts[r].frame.source]
ImplementsLedger == Ledger!Spec

-----------------------------------------------------------------------------
(* What the repository says of live ingest and the code does not do. *)

\* A source is bound to at most one active session.
OneActiveSessionPerSource ==
    \A s, t \in SessionIds :
        /\ sessions[s].status = "active" /\ sessions[t].status = "active"
        /\ sessions[s].sources \cap sessions[t].sources # {}
        => s = t

\* An accepted frame becomes evidence, unless its content cannot be processed
\* or the investigator stops its session.
AcceptedBecomesEvidence ==
    \A r \in ReceiptIds :
        r \in DOMAIN receipts
            ~> \/ r \in records
               \/ r \in DOMAIN receipts /\ receipts[r].error = "live_processing_failed"
               \/ r \in DOMAIN receipts /\ sessions[receipts[r].session].status = "completed"
=============================================================================
