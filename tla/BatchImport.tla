----------------------------- MODULE BatchImport -----------------------------
(***************************************************************************)
(* The asynchronous evidence import of backend/app/services/batch.py.      *)
(* Three kinds of thread share the import_jobs and evidence_metadata       *)
(* tables, the content-addressed evidence files and one bounded queue:     *)
(*   loop    the event loop, which runs start_import (upload_import is     *)
(*           `async def`, so uploads never overlap each other);            *)
(*   client  request threads running request_commit and cancel;            *)
(*   worker  the one batch worker running validate_import and              *)
(*           commit_import for the entries of the queue.                   *)
(* A step of the model is what a thread does between two points at which   *)
(* another thread can change what it reads: one locked statement or        *)
(* transaction, or one read of the shared tables or files.                 *)
(*                                                                         *)
(* Left out: the wording of reports, media types and the source type (one  *)
(* per content), the canonical events themselves (an evidence row records  *)
(* the bytes its events were made from) and the analysis of the case.      *)
(***************************************************************************)
EXTENDS Integers, Sequences, FiniteSets

CONSTANTS
    Cases,          \* the cases evidence is imported into
    Contents,       \* the distinct files an investigator can upload
    Clients,        \* request threads that can be inside a handler at once
    MaxImports,     \* uploads the model allows
    QueueCap,       \* Queue(maxsize=8)
    MaxRestarts,    \* process deaths the model allows
    MaxDamages,     \* times a stored evidence file is altered behind the service
    ContentVerdict, \* what the validator concludes on each content
    DamagedVerdict, \* what it concludes on a truncated or altered file
    NoBytes         \* no file, no bytes read, or evidence without events

Verdicts == {"accepted", "partial", "rejected"}

\* The bytes of a file: the upload itself, or a truncated or altered copy.
\* Two files have the same SHA-256 exactly when they are the same bytes.
Bytes == [of : Contents, intact : BOOLEAN]
Whole(c) == [of |-> c, intact |-> TRUE]
Broken(c) == [of |-> c, intact |-> FALSE]

ASSUME BatchConstants ==
    /\ Cases # {} /\ Contents # {}
    /\ MaxImports \in Nat \ {0}
    /\ QueueCap \in Nat
    /\ MaxRestarts \in Nat
    /\ MaxDamages \in Nat
    /\ ContentVerdict \in [Contents -> Verdicts]
    /\ DamagedVerdict \in Verdicts
    /\ NoBytes \notin Bytes

VARIABLES
    jobs,       \* import_jobs, in order of creation
    evidence,   \* evidence_metadata, in order of insertion; evidence_id = index
    disk,       \* the file stored under each content's digest
    queue,      \* the entries waiting for the worker
    worker,     \* the batch worker thread
    loop,       \* the upload running on the event loop
    client,     \* the request threads
    asked,      \* history: what the investigator got the service to record
    faults      \* process deaths and alterations of files so far

vars == <<jobs, evidence, disk, queue, worker, loop, client, asked, faults>>

-----------------------------------------------------------------------------
Imports == 1..MaxImports

\* The validator is a function of the bytes it is given.
Verdict(b) == IF b.intact THEN ContentVerdict[b.of] ELSE DamagedVerdict
RejectedRecords(b) == Verdict(b) # "accepted"

Done == {"completed", "partial_success"}
Unsettled == {"queued", "validating", "commit_queued", "normalizing"}
Statuses == Done \cup Unsettled \cup
    {"absent", "duplicate", "awaiting_commit", "rejected", "cancelled", "failed"}
Errors == {"none", "worker_queue_full", "validation_failed", "commit_failed",
           "evidence_content_hash_mismatch"}

Jobs == [case : Cases, content : Contents, status : Statuses, evid : Nat,
         allow : BOOLEAN, error : Errors]
Rows == [case : Cases, hash : Bytes \cup {NoBytes}, events : Bytes \cup {NoBytes}]
Entries == [op : {"validate", "commit"}, id : Imports, allow : BOOLEAN]

Entry(op, i, allow) == [op |-> op, id |-> i, allow |-> allow]
NoJob == [case |-> CHOOSE k \in Cases : TRUE, content |-> CHOOSE c \in Contents : TRUE,
          status |-> "absent", evid |-> 0, allow |-> FALSE, error |-> "none"]
IdleWorker == [at |-> "idle", id |-> 1, seen |-> "absent", allow |-> FALSE, bytes |-> NoBytes]
IdleLoop == [at |-> "idle", case |-> NoJob.case, content |-> NoJob.content, dup |-> 0, id |-> 1]
IdleClient == [at |-> "idle", id |-> 1, allow |-> FALSE]

Init ==
    /\ jobs = [i \in Imports |-> NoJob]
    /\ evidence = << >>
    /\ disk = [c \in Contents |-> NoBytes]
    /\ queue = << >>
    /\ worker = IdleWorker
    /\ loop = IdleLoop
    /\ client = [c \in Clients |-> IdleClient]
    /\ asked = [i \in Imports |-> {}]
    /\ faults = [restarts |-> 0, damages |-> 0]

-----------------------------------------------------------------------------
(* What the threads share: the two tables and the queue. *)

Committed(e) == evidence[e].events # NoBytes

\* find_committed_evidence_by_hash, 0 for None. The query takes the row with the
\* lowest id; OneCommitPerHash says that there is never more than one.
Matches(k, h) ==
    {e \in DOMAIN evidence : evidence[e].case = k /\ evidence[e].hash = h /\ Committed(e)}
FindCommitted(k, h) == IF Matches(k, h) = {} THEN 0 ELSE CHOOSE e \in Matches(k, h) : TRUE

\* _job: one UPDATE of status and error_json.
SetJob(i, status, error) ==
    jobs' = [jobs EXCEPT ![i].status = status, ![i].error = error]

\* Faulty variants of Enqueue: no bound; a full queue drops the entry silently.
EnqueueUnbounded(op, i, allow) ==
    queue' = Append(queue, Entry(op, i, allow)) /\ UNCHANGED jobs
EnqueueDropping(op, i, allow) ==
    /\ queue' = IF Len(queue) < QueueCap THEN Append(queue, Entry(op, i, allow)) ELSE queue
    /\ UNCHANGED jobs

\* _enqueue: put_nowait, or a failed job when the queue is full.
Enqueue(op, i, allow) ==
    \/ /\ Len(queue) < QueueCap
       /\ queue' = Append(queue, Entry(op, i, allow))
       /\ UNCHANGED jobs
    \/ /\ Len(queue) >= QueueCap
       /\ SetJob(i, "failed", "worker_queue_full")
       /\ UNCHANGED queue

-----------------------------------------------------------------------------
(* start_import, on the event loop. *)

NewImport(i) == jobs[i].status = "absent" /\ \A k \in Imports : k < i => jobs[k].status # "absent"
UploadFrame == UNCHANGED <<evidence, worker, client, asked, faults>>

\* The directory and, unless path.exists(), the first bytes of the file.
BeginUpload(k, c) ==
    /\ loop.at = "idle"
    /\ \E i \in Imports : NewImport(i)
    /\ loop' = [IdleLoop EXCEPT !.at = IF disk[c] = NoBytes THEN "write" ELSE "lookup",
                                !.case = k, !.content = c]
    /\ disk' = IF disk[c] = NoBytes THEN [disk EXCEPT ![c] = Broken(c)] ELSE disk
    /\ UploadFrame /\ UNCHANGED <<jobs, queue>>

\* write_bytes returns: the whole upload is on disk.
FinishWrite ==
    /\ loop.at = "write"
    /\ disk' = [disk EXCEPT ![loop.content] = Whole(loop.content)]
    /\ loop' = [loop EXCEPT !.at = "lookup"]
    /\ UploadFrame /\ UNCHANGED <<jobs, queue>>

\* The duplicate lookup uses the digest of the upload, not of the stored file.
LookUpDuplicate ==
    /\ loop.at = "lookup"
    /\ loop' = [loop EXCEPT !.at = "insert",
                            !.dup = FindCommitted(loop.case, Whole(loop.content))]
    /\ UploadFrame /\ UNCHANGED <<jobs, disk, queue>>

InsertJob ==
    /\ loop.at = "insert"
    /\ \E i \in Imports :
        /\ NewImport(i)
        /\ jobs' = [jobs EXCEPT ![i] =
               [NoJob EXCEPT !.case = loop.case, !.content = loop.content, !.evid = loop.dup,
                             !.status = IF loop.dup = 0 THEN "queued" ELSE "duplicate"]]
        /\ loop' = IF loop.dup = 0 THEN [loop EXCEPT !.at = "put", !.id = i] ELSE IdleLoop
    /\ UploadFrame /\ UNCHANGED <<disk, queue>>

QueueValidation ==
    /\ loop.at = "put"
    /\ Enqueue("validate", loop.id, FALSE)
    /\ loop' = IdleLoop
    /\ UploadFrame /\ UNCHANGED disk

-----------------------------------------------------------------------------
(* request_commit and cancel: each guard is read outside the write it guards. *)

ClientFrame == UNCHANGED <<evidence, disk, worker, loop, faults>>
Step(c, at, i, allow) == client' = [client EXCEPT ![c] = [at |-> at, id |-> i, allow |-> allow]]

ReadForCommit(c, i, allow) ==
    /\ client[c].at = "idle"
    /\ jobs[i].status = "awaiting_commit"
    /\ RejectedRecords(evidence[jobs[i].evid].hash) => allow
    /\ Step(c, "mark", i, allow)
    /\ ClientFrame /\ UNCHANGED <<jobs, queue, asked>>

MarkCommitQueued(c) ==
    /\ client[c].at = "mark"
    /\ LET i == client[c].id  allow == client[c].allow IN
        /\ jobs' = [jobs EXCEPT ![i].status = "commit_queued", ![i].allow = allow]
        /\ asked' = [asked EXCEPT ![i] = @ \cup IF allow THEN {"commit", "partial"} ELSE {"commit"}]
        /\ Step(c, "put", i, allow)
    /\ ClientFrame /\ UNCHANGED queue

QueueCommit(c) ==
    /\ client[c].at = "put"
    /\ Enqueue("commit", client[c].id, client[c].allow)
    /\ client' = [client EXCEPT ![c] = IdleClient]
    /\ ClientFrame /\ UNCHANGED asked

ReadForCancel(c, i) ==
    /\ client[c].at = "idle"
    /\ jobs[i].status \notin Done \cup {"absent"}
    /\ Step(c, "cancel", i, FALSE)
    /\ ClientFrame /\ UNCHANGED <<jobs, queue, asked>>

WriteCancelled(c) ==
    /\ client[c].at = "cancel"
    /\ SetJob(client[c].id, "cancelled", "none")
    /\ asked' = [asked EXCEPT ![client[c].id] = @ \cup {"cancel"}]
    /\ client' = [client EXCEPT ![c] = IdleClient]
    /\ ClientFrame /\ UNCHANGED queue

-----------------------------------------------------------------------------
(* The worker. *)

WorkerFrame == UNCHANGED <<disk, loop, client, asked, faults>>
Job == jobs[worker.id]

\* The operation ends with a status; _run_worker does so for an exception.
Finish(status, error) ==
    /\ SetJob(worker.id, status, error)
    /\ worker' = IdleWorker
    /\ WorkerFrame /\ UNCHANGED <<evidence, queue>>

\* queue.get, and the get_import both operations begin with.
TakeEntry ==
    /\ worker.at = "idle"
    /\ queue # << >>
    /\ LET entry == Head(queue) IN
        worker' = [IdleWorker EXCEPT !.at = entry.op, !.id = entry.id,
                       !.seen = jobs[entry.id].status, !.allow = entry.allow]
    /\ queue' = Tail(queue)
    /\ WorkerFrame /\ UNCHANGED <<jobs, evidence>>

\* validate_import: the job is marked before the status read is looked at.
ClaimValidation ==
    /\ worker.at = "validate"
    /\ SetJob(worker.id, "validating", "none")
    /\ worker' = IF worker.seen = "cancelled" THEN IdleWorker ELSE [worker EXCEPT !.at = "read"]
    /\ WorkerFrame /\ UNCHANGED <<evidence, queue>>

\* The file is read and validated; a cancel seen afterwards drops the outcome.
ReadAndValidate ==
    /\ worker.at = "read"
    /\ worker' = IF Job.status = "cancelled" THEN IdleWorker
                 ELSE [worker EXCEPT !.at = "store", !.bytes = disk[Job.content]]
    /\ WorkerFrame /\ UNCHANGED <<jobs, evidence, queue>>

ValidationRaises ==
    /\ worker.at = "read"
    /\ Finish("failed", "validation_failed")

\* store_evidence_validation: a transaction of its own, under a new evidence_id.
StoreValidation ==
    /\ worker.at = "store"
    /\ evidence' = Append(evidence, [case |-> Job.case, hash |-> worker.bytes, events |-> NoBytes])
    /\ worker' = [worker EXCEPT !.at = "update"]
    /\ WorkerFrame /\ UNCHANGED <<jobs, queue>>

\* The second transaction; the worker is the only inserter of evidence rows.
RecordVerdict ==
    /\ worker.at = "update"
    /\ jobs' = [jobs EXCEPT ![worker.id].evid = Len(evidence),
                            ![worker.id].status = IF Verdict(worker.bytes) = "rejected"
                                                  THEN "rejected" ELSE "awaiting_commit"]
    /\ worker' = IdleWorker
    /\ WorkerFrame /\ UNCHANGED <<evidence, queue>>

Report(i) == evidence[jobs[i].evid].hash
Stored == disk[Job.content]

\* The guards of commit_import, on the row TakeEntry read.
CommitReady ==
    /\ worker.seen \in {"awaiting_commit", "commit_queued"}
    /\ RejectedRecords(Report(worker.id)) => worker.allow

\* Faulty variants of the two checks that follow: neither is made.
HashUnchecked == TRUE
DuplicateUnchecked == 0

HashMatches == Stored = Report(worker.id)
Duplicate == FindCommitted(Job.case, Report(worker.id))
OtherDuplicate == Duplicate \notin {0, Job.evid}

RefuseCommit ==
    /\ worker.at = "commit"
    /\ ~CommitReady
    /\ Finish("failed", "commit_failed")

ClaimCommit ==
    /\ worker.at = "commit"
    /\ CommitReady
    /\ SetJob(worker.id, "normalizing", "none")
    /\ worker' = [worker EXCEPT !.at = "check"]
    /\ WorkerFrame /\ UNCHANGED <<evidence, queue>>

FailHashCheck ==
    /\ worker.at = "check"
    /\ ~HashMatches
    /\ Finish("failed", "evidence_content_hash_mismatch")

\* Faulty variant: the job keeps its own, uncommitted evidence_id.
YieldKeepingEvidence ==
    /\ worker.at = "check" /\ HashMatches /\ OtherDuplicate
    /\ Finish("duplicate", Job.error)

YieldToDuplicate ==
    /\ worker.at = "check" /\ HashMatches /\ OtherDuplicate
    /\ jobs' = [jobs EXCEPT ![worker.id].evid = Duplicate, ![worker.id].status = "duplicate"]
    /\ worker' = IdleWorker
    /\ WorkerFrame /\ UNCHANGED <<evidence, queue>>

\* Normalisation or analysis raises. It always does when the evidence already
\* has its events: prior and new events then repeat identifiers.
CommitRaises ==
    /\ worker.at = "check" /\ HashMatches /\ ~OtherDuplicate
    /\ Finish("failed", "commit_failed")

\* Everything is computed; the last look at the status before the transaction.
PrepareCommit ==
    /\ worker.at = "check" /\ HashMatches /\ ~OtherDuplicate
    /\ ~Committed(Job.evid)
    /\ worker' = IF Job.status = "cancelled" THEN IdleWorker
                 ELSE [worker EXCEPT !.at = "write", !.bytes = Stored]
    /\ WorkerFrame /\ UNCHANGED <<jobs, evidence, queue>>

\* Events, analysis, committed_at and the final status in one transaction.
WriteCommit ==
    /\ worker.at = "write"
    /\ evidence' = [evidence EXCEPT ![Job.evid].events = worker.bytes]
    /\ jobs' = [jobs EXCEPT ![worker.id].status =
                   IF RejectedRecords(Report(worker.id)) THEN "partial_success" ELSE "completed"]
    /\ worker' = IdleWorker
    /\ WorkerFrame /\ UNCHANGED queue

-----------------------------------------------------------------------------
(* The environment: process death with _recover_jobs, and altered files. *)

\* Faulty variants of Reset: interrupted work is left as it was; imports that
\* wait for a review are resumed as commits that accept partial evidence.
ResetNothing(job) == job
ResetReviews(job) ==
    IF job.status = "awaiting_commit" THEN [job EXCEPT !.status = "commit_queued", !.allow = TRUE]
    ELSE job

Reset(job) == [job EXCEPT !.status = IF @ = "validating" THEN "queued"
                                     ELSE IF @ = "normalizing" THEN "commit_queued" ELSE @]
Resumed(i, job) == IF job.status = "queued" THEN Entry("validate", i, FALSE)
                   ELSE Entry("commit", i, job.allow)

\* Recovery runs before the worker exists, so the queue only fills: what does
\* not fit fails at once. A death during recovery recovers to the same state.
CrashAndRecover ==
    /\ faults.restarts < MaxRestarts
    /\ faults' = [faults EXCEPT !.restarts = @ + 1]
    /\ LET reset == [i \in Imports |-> Reset(jobs[i])]
           pending == {i \in Imports : reset[i].status \in {"queued", "commit_queued"}}
           n == Cardinality(pending)
           kept == IF n < QueueCap THEN n ELSE QueueCap
       IN \E order \in [1..n -> pending] :   \* all of them, ORDER BY created_at
            /\ \A i \in pending : \E p \in 1..n : order[p] = i
            /\ \A a, b \in 1..n : a < b => order[a] < order[b]
            /\ queue' = [p \in 1..kept |-> Resumed(order[p], reset[order[p]])]
            /\ jobs' = [i \in Imports |->
                          IF \E p \in (kept + 1)..n : order[p] = i
                          THEN [reset[i] EXCEPT !.status = "failed", !.error = "worker_queue_full"]
                          ELSE reset[i]]
    /\ worker' = IdleWorker
    /\ loop' = IdleLoop
    /\ client' = [c \in Clients |-> IdleClient]
    /\ UNCHANGED <<evidence, disk, asked>>

\* The file under a digest is altered outside the service.
DamageFile(c) ==
    /\ faults.damages < MaxDamages
    /\ disk[c] = Whole(c)
    /\ disk' = [disk EXCEPT ![c] = Broken(c)]
    /\ faults' = [faults EXCEPT !.damages = @ + 1]
    /\ UNCHANGED <<jobs, evidence, queue, worker, loop, client, asked>>

-----------------------------------------------------------------------------
UploadStep == FinishWrite \/ LookUpDuplicate \/ InsertJob \/ QueueValidation
ClientStep(c) == MarkCommitQueued(c) \/ QueueCommit(c) \/ WriteCancelled(c)
WorkerStep ==
    \/ TakeEntry \/ ClaimValidation \/ ReadAndValidate \/ ValidationRaises
    \/ StoreValidation \/ RecordVerdict \/ RefuseCommit \/ ClaimCommit
    \/ FailHashCheck \/ YieldToDuplicate \/ CommitRaises \/ PrepareCommit \/ WriteCommit

Next ==
    \/ \E k \in Cases, c \in Contents : BeginUpload(k, c)
    \/ UploadStep
    \/ \E c \in Clients, i \in Imports, allow \in BOOLEAN : ReadForCommit(c, i, allow)
    \/ \E c \in Clients, i \in Imports : ReadForCancel(c, i)
    \/ \E c \in Clients : ClientStep(c)
    \/ WorkerStep
    \/ CrashAndRecover
    \/ \E c \in Contents : DamageFile(c)

Spec == Init /\ [][Next]_vars

\* Threads that are inside a handler or hold an entry keep running; nobody is
\* obliged to upload, commit, cancel, crash or alter a file.
FairSpec ==
    /\ Spec
    /\ WF_vars(UploadStep)
    /\ WF_vars(WorkerStep)
    /\ \A c \in Clients : WF_vars(ClientStep(c))

-----------------------------------------------------------------------------
TypeOK ==
    /\ jobs \in [Imports -> Jobs]
    /\ evidence \in Seq(Rows)
    /\ disk \in [Contents -> Bytes \cup {NoBytes}]
    /\ queue \in Seq(Entries) /\ Len(queue) <= QueueCap
    /\ worker \in [at : {"idle", "validate", "read", "store", "update", "commit", "check", "write"},
                   id : Imports, seen : Statuses, allow : BOOLEAN, bytes : Bytes \cup {NoBytes}]
    /\ loop \in [at : {"idle", "write", "lookup", "insert", "put"}, case : Cases,
                 content : Contents, dup : Nat, id : Imports]
    /\ client \in [Clients -> [at : {"idle", "mark", "put", "cancel"}, id : Imports, allow : BOOLEAN]]
    /\ asked \in [Imports -> SUBSET {"cancel", "commit", "partial"}]
    /\ faults \in [restarts : 0..MaxRestarts, damages : 0..MaxDamages]

\* A case never holds two committed evidence records with the same hash, so a
\* file imported twice never doubles its canonical events, whatever the races
\* between uploads, commits, cancels and restarts (commit_import's recheck).
OneCommitPerHash ==
    \A e, f \in DOMAIN evidence :
        /\ Committed(e) /\ Committed(f)
        /\ evidence[e].case = evidence[f].case
        /\ evidence[e].hash = evidence[f].hash
        => e = f

\* Evidence is committed only for an import whose commit was asked for, with
\* partial acceptance confirmed when the report has rejected rows, also when
\* the commit is resumed from the stored configuration after a restart.
CommittedWithConsent ==
    \A e \in DOMAIN evidence : Committed(e) =>
        \E i \in Imports :
            /\ jobs[i].evid = e
            /\ "commit" \in asked[i]
            /\ RejectedRecords(evidence[e].hash) => "partial" \in asked[i]

\* The events of committed evidence come from exactly the bytes whose hash and
\* verdict the investigator reviewed, although the file is read again later.
CommittedIsWhatWasValidated ==
    \A e \in DOMAIN evidence : Committed(e) =>
        /\ evidence[e].events = evidence[e].hash
        /\ Verdict(evidence[e].hash) # "rejected"

\* An import reported as completed or as a duplicate points at committed
\* evidence of its own case, also when the status was written by a thread that
\* had read an older one.
SettledPointsAtCommitted ==
    \A i \in Imports : jobs[i].status \in Done \cup {"duplicate"} =>
        /\ jobs[i].evid # 0
        /\ Committed(jobs[i].evid)
        /\ evidence[jobs[i].evid].case = jobs[i].case

Holding(i) ==
    \/ \E p \in DOMAIN queue : queue[p].id = i
    \/ worker.at # "idle" /\ worker.id = i
    \/ loop.at = "put" /\ loop.id = i
    \/ \E c \in Clients : client[c].at = "put" /\ client[c].id = i

\* No import waits for nobody: one marked queued is in the queue, in the
\* worker's hands or about to be put, after any overflow, cancel or restart.
QueuedIsHeld ==
    \A i \in Imports : jobs[i].status \in {"queued", "commit_queued"} => Holding(i)

\* An import that nobody cancels stops being polled: it reaches a review, a
\* terminal state or a failure, also across restarts and full queues.
UncancelledSettles ==
    \A i \in Imports :
        jobs[i].status \in Unsettled
            ~> (jobs[i].status \notin Unsettled \/ "cancel" \in asked[i])

-----------------------------------------------------------------------------
(* What makes OneCommitPerHash and SettledPointsAtCommitted inductive. *)

Known(i) == jobs[i].status # "absent"

\* Nothing refers to an import before its row is inserted, and the file of an
\* import exists from before its row does.
RefsAreKnown ==
    /\ \A p \in 1..Len(queue) : Known(queue[p].id)
    /\ worker.at # "idle" => Known(worker.id)
    /\ loop.at = "put" => Known(loop.id)
    /\ \A c \in Clients : client[c].at # "idle" => Known(client[c].id)
    /\ \A i \in Imports : Known(i) => disk[jobs[i].content] # NoBytes
    /\ loop.at # "idle" => disk[loop.content] # NoBytes

RowOfCase(e, k) == e \in 1..Len(evidence) /\ evidence[e].case = k
Reviewed == {"awaiting_commit", "commit_queued", "normalizing"}

\* evidence_id of an import names a row of its case; a reviewed import has one,
\* and so does whoever acts on a reviewed import read earlier.
RowsOfImports ==
    /\ \A i \in Imports : jobs[i].evid # 0 => RowOfCase(jobs[i].evid, jobs[i].case)
    /\ \A i \in Imports : jobs[i].status \in Reviewed => jobs[i].evid # 0
    /\ \A c \in Clients : client[c].at = "mark" => jobs[client[c].id].evid # 0
    /\ loop.at = "insert" /\ loop.dup # 0 => RowOfCase(loop.dup, loop.case) /\ Committed(loop.dup)

\* What the worker still relies on after reading it.
WorkerRelies ==
    /\ worker.at \in {"store", "write"} => worker.bytes # NoBytes
    /\ worker.at = "update" => RowOfCase(Len(evidence), Job.case)
    /\ worker.at = "commit" /\ worker.seen \in Reviewed => Job.evid # 0
    /\ worker.at \in {"check", "write"} => Job.evid # 0
    /\ worker.at = "write" => Matches(Job.case, Report(worker.id)) = {}

\* The inductive invariant: evidence is committed once per hash because every
\* reference read earlier still names the row it was read for.
CommitInv ==
    /\ OneCommitPerHash /\ SettledPointsAtCommitted
    /\ RefsAreKnown /\ RowsOfImports /\ WorkerRelies

-----------------------------------------------------------------------------
(* What makes CommittedWithConsent and CommittedIsWhatWasValidated inductive. *)

Validation == {"validate", "read", "store", "update"}

\* An import waits for its validation in one place, and has no evidence before.
ValidatedOnce ==
    /\ \A p \in 1..Len(queue) : queue[p].op = "validate" =>
        /\ jobs[queue[p].id].evid = 0
        /\ \A q \in 1..Len(queue) : queue[q].op = "validate" /\ queue[q].id = queue[p].id => q = p
        /\ ~(worker.at \in Validation /\ worker.id = queue[p].id)
        /\ ~(loop.at = "put" /\ loop.id = queue[p].id)
    /\ worker.at \in Validation => Job.evid = 0 /\ ~(loop.at = "put" /\ loop.id = worker.id)
    /\ loop.at = "put" => jobs[loop.id].evid = 0
    /\ \A i \in Imports : jobs[i].status \in {"absent", "queued", "validating"} => jobs[i].evid = 0

\* A report that a commit may be asked for: there is one, and it accepts rows.
Reviewable(i) == jobs[i].evid # 0 /\ Verdict(Report(i)) # "rejected"

WorkerReviews ==
    /\ worker.at = "commit" /\ worker.seen \in Reviewed => Reviewable(worker.id)
    /\ worker.at \in {"check", "write"} => Reviewable(worker.id)
    /\ worker.at = "write" => worker.bytes = Report(worker.id)
    /\ worker.at = "update" => evidence[Len(evidence)].hash = worker.bytes

\* Whoever goes on with a review, read earlier or not, has such a report.
ReviewHolds ==
    /\ \A i \in Imports : jobs[i].status \in Reviewed => Reviewable(i)
    /\ \A c \in Clients : client[c].at = "mark" => Reviewable(client[c].id)
    /\ WorkerReviews

\* The investigator asked for a commit, and confirmed the loss if there is one.
Asked(i, partial) == "commit" \in asked[i] /\ (partial => "partial" \in asked[i])

WorkerWasAsked ==
    /\ worker.at = "commit" => Asked(worker.id, worker.allow)
    /\ worker.at \in {"check", "write"} => Asked(worker.id, RejectedRecords(Report(worker.id)))

\* Every commit under way was asked for, wherever it is and after a restart.
CommitsWereAsked ==
    /\ \A i \in Imports : /\ jobs[i].status \in {"commit_queued", "normalizing"} => "commit" \in asked[i]
                          /\ jobs[i].allow => "partial" \in asked[i]
    /\ \A p \in 1..Len(queue) : queue[p].op = "commit" => Asked(queue[p].id, queue[p].allow)
    /\ \A c \in Clients : client[c].at = "put" => Asked(client[c].id, client[c].allow)
    /\ WorkerWasAsked

\* The inductive invariant, beside CommitInv.
ConsentInv ==
    /\ ValidatedOnce /\ ReviewHolds /\ CommitsWereAsked
    /\ CommittedWithConsent /\ CommittedIsWhatWasValidated

-----------------------------------------------------------------------------
(* What the repository says of imports and the code does not do. *)

\* Polling ends: every import leaves the states a client waits in.
PollingEnds ==
    \A i \in Imports : jobs[i].status \in Unsettled ~> jobs[i].status \notin Unsettled

\* A completed import is immutable.
CompletedImmutable ==
    [][\A i \in Imports : jobs[i].status \in Done => jobs'[i].status = jobs[i].status]_vars

\* A failed import has added no evidence and no events to the case.
FailedCommitsNothing ==
    \A i \in Imports :
        jobs[i].status = "failed" /\ jobs[i].evid # 0 => ~Committed(jobs[i].evid)

\* The hash in a validation report is that of the unmodified upload.
ReportHashesUpload ==
    \A i \in Imports :
        jobs[i].status = "awaiting_commit" => Report(i) = Whole(jobs[i].content)
=============================================================================
