-------------------------- MODULE BatchImportProofs --------------------------
(***************************************************************************)
(* Proofs about BatchImport for every number of cases, contents, request   *)
(* threads and imports, every queue capacity and any number of restarts    *)
(* and altered files.                                                      *)
(***************************************************************************)
EXTENDS BatchImport, SequenceTheorems, FiniteSetTheorems, TLAPS

USE DEF Imports

-----------------------------------------------------------------------------
(* Helpers. *)

LEMMA IdleTypes ==
    /\ 1 \in Imports
    /\ NoJob \in Jobs
    /\ IdleWorker \in [at : {"idle", "validate", "read", "store", "update", "commit", "check", "write"},
                       id : Imports, seen : Statuses, allow : BOOLEAN, bytes : Bytes \cup {NoBytes}]
    /\ IdleLoop \in [at : {"idle", "write", "lookup", "insert", "put"}, case : Cases,
                     content : Contents, dup : Nat, id : Imports]
    /\ IdleClient \in [at : {"idle", "mark", "put", "cancel"}, id : Imports, allow : BOOLEAN]
BY BatchConstants
   DEF NoJob, Jobs, IdleWorker, IdleLoop, IdleClient, Statuses, Done, Unsettled, Errors

\* Writing a status keeps the table well typed.
LEMMA SetJobType ==
    ASSUME jobs \in [Imports -> Jobs], NEW i \in Imports, NEW s \in Statuses, NEW e \in Errors,
           SetJob(i, s, e)
    PROVE  jobs' \in [Imports -> Jobs]
BY DEF SetJob, Jobs

\* The other writes of a job.
LEMMA JobWriteType ==
    ASSUME jobs \in [Imports -> Jobs], NEW i \in Imports, NEW s \in Statuses,
           NEW e \in Nat, NEW a \in BOOLEAN
    PROVE  /\ [jobs EXCEPT ![i].evid = e, ![i].status = s] \in [Imports -> Jobs]
           /\ [jobs EXCEPT ![i].status = s, ![i].allow = a] \in [Imports -> Jobs]
           /\ [jobs EXCEPT ![i].status = s] \in [Imports -> Jobs]
<1>1. [jobs[i] EXCEPT !.evid = e, !.status = s] \in Jobs
    BY DEF Jobs
<1>2. [jobs[i] EXCEPT !.status = s, !.allow = a] \in Jobs
    BY DEF Jobs
<1>3. [jobs[i] EXCEPT !.status = s] \in Jobs
    BY DEF Jobs
<1> QED BY <1>1, <1>2, <1>3 DEF Jobs

\* Recording events changes one row, or none when there is no such row.
LEMMA RowWriteType ==
    ASSUME evidence \in Seq(Rows), NEW e, NEW b \in Bytes \cup {NoBytes}
    PROVE  [evidence EXCEPT ![e].events = b] \in Seq(Rows)
<1> DEFINE written == [evidence EXCEPT ![e].events = b]
<1>1. DOMAIN written = 1..Len(evidence)
    BY LenProperties
<1>2. \A f \in 1..Len(evidence) : written[f] \in Rows
    <2> SUFFICES ASSUME NEW f \in 1..Len(evidence) PROVE written[f] \in Rows
        OBVIOUS
    <2>1. evidence[f] \in Rows /\ f \in DOMAIN evidence
        BY LenProperties
    <2>2. [evidence[f] EXCEPT !.events = b] \in Rows
        BY <2>1 DEF Rows
    <2> QED BY <2>1, <2>2
<1>3. written = [f \in 1..Len(evidence) |-> written[f]]
    BY <1>1
<1>4. written \in [1..Len(evidence) -> Rows]
    BY <1>2, <1>3
<1> QED BY <1>4, LenProperties, SeqDef

LEMMA EnqueueType ==
    ASSUME TypeOK, NEW op \in {"validate", "commit"}, NEW i \in Imports, NEW allow \in BOOLEAN,
           Enqueue(op, i, allow)
    PROVE  /\ jobs' \in [Imports -> Jobs]
           /\ queue' \in Seq(Entries) /\ Len(queue') <= QueueCap
<1>1. CASE queue' = Append(queue, Entry(op, i, allow)) /\ Len(queue) < QueueCap /\ UNCHANGED jobs
    <2>1. Entry(op, i, allow) \in Entries
        BY DEF Entry, Entries
    <2> QED BY <1>1, <2>1, BatchConstants DEF TypeOK
<1>2. CASE SetJob(i, "failed", "worker_queue_full") /\ UNCHANGED queue
    BY <1>2, SetJobType DEF TypeOK, Statuses, Errors
<1> QED BY <1>1, <1>2 DEF Enqueue

LEMMA FindCommittedType ==
    ASSUME TypeOK, NEW k, NEW h
    PROVE  /\ FindCommitted(k, h) \in 0..Len(evidence)
           /\ FindCommitted(k, h) = 0 => Matches(k, h) = {}
           /\ FindCommitted(k, h) # 0 => FindCommitted(k, h) \in Matches(k, h)
<1>1. DOMAIN evidence = 1..Len(evidence) /\ Len(evidence) \in Nat
    BY DEF TypeOK
<1>2. Matches(k, h) \subseteq 1..Len(evidence)
    BY <1>1 DEF Matches
<1> QED BY <1>1, <1>2 DEF FindCommitted

LEMMA StoredRowType ==
    ASSUME TypeOK, StoreValidation
    PROVE  evidence' \in Seq(Rows)
<1>1. [case |-> Job.case, hash |-> worker.bytes, events |-> NoBytes] \in Rows
    BY DEF TypeOK, Job, Jobs, Rows
<1> QED BY <1>1 DEF StoreValidation, TypeOK

LEMMA RestartCounted ==
    ASSUME TypeOK, CrashAndRecover
    PROVE  faults' \in [restarts : 0..MaxRestarts, damages : 0..MaxDamages]
<1>1. faults.restarts < MaxRestarts
    BY Zenon DEF CrashAndRecover
<1>2. faults' = [faults EXCEPT !.restarts = @ + 1]
    BY Zenon DEF CrashAndRecover
<1>3. faults \in [restarts : 0..MaxRestarts, damages : 0..MaxDamages]
    BY DEF TypeOK
<1> QED BY <1>1, <1>2, <1>3, BatchConstants

\* The table and the queue that recovery leaves are well typed.
LEMMA RecoveredType ==
    ASSUME TypeOK, CrashAndRecover
    PROVE  /\ jobs' \in [Imports -> Jobs]
           /\ queue' \in Seq(Entries) /\ Len(queue') <= QueueCap
           /\ faults' \in [restarts : 0..MaxRestarts, damages : 0..MaxDamages]
<1> DEFINE reset == [i \in Imports |-> Reset(jobs[i])]
           pending == {i \in Imports : reset[i].status \in {"queued", "commit_queued"}}
           n == Cardinality(pending)
           kept == IF n < QueueCap THEN n ELSE QueueCap
<1>1. reset \in [Imports -> Jobs]
    <2>1. \A job \in Jobs : Reset(job) \in Jobs
        BY DEF Jobs, Reset, Statuses, Unsettled
    <2> QED BY <2>1 DEF TypeOK
<1>2. n \in Nat
    <2>1. IsFiniteSet(Imports) /\ pending \subseteq Imports
        BY FS_Interval, BatchConstants
    <2>2. IsFiniteSet(pending)
        BY <2>1, FS_Subset
    <2> QED BY <2>2, FS_CardinalityType
<1>3. kept \in 0..n /\ kept <= QueueCap
    BY <1>2, BatchConstants
<1>4. pending \subseteq Imports
    OBVIOUS
<1> HIDE DEF reset, n, kept, pending
<1>5. PICK order \in [1..n -> pending] :
        /\ queue' = [p \in 1..kept |-> Resumed(order[p], reset[order[p]])]
        /\ jobs' = [i \in Imports |->
                      IF \E p \in (kept + 1)..n : order[p] = i
                      THEN [reset[i] EXCEPT !.status = "failed", !.error = "worker_queue_full"]
                      ELSE reset[i]]
    BY DEF CrashAndRecover, reset, n, kept, pending
<1>6. jobs' \in [Imports -> Jobs]
    <2>1. \A job \in Jobs : [job EXCEPT !.status = "failed", !.error = "worker_queue_full"] \in Jobs
        BY DEF Jobs, Statuses, Errors
    <2>2. \A i \in Imports : reset[i] \in Jobs
        BY <1>1
    <2> QED BY <1>5, <2>1, <2>2
<1>7. \A p \in 1..kept : Resumed(order[p], reset[order[p]]) \in Entries
    <2> SUFFICES ASSUME NEW p \in 1..kept PROVE Resumed(order[p], reset[order[p]]) \in Entries
        OBVIOUS
    <2>1. p \in 1..n
        BY <1>2, <1>3
    <2>2. order[p] \in Imports
        BY <1>5, <1>4, <2>1
    <2>3. reset[order[p]] \in Jobs
        BY <1>1, <2>2
    <2> QED BY <2>2, <2>3 DEF Resumed, Entry, Entries, Jobs
<1>8. queue' \in Seq(Entries) /\ Len(queue') = kept
    <2>1. queue' \in [1..kept -> Entries]
        BY <1>5, <1>7
    <2> QED BY <1>2, <1>3, <2>1, SeqDef
<1>9. faults' \in [restarts : 0..MaxRestarts, damages : 0..MaxDamages]
    BY RestartCounted
<1> QED BY <1>3, <1>6, <1>8, <1>9

-----------------------------------------------------------------------------
\* The types of all variables, for every action. The bound on the queue is the
\* one Queue(maxsize=8) enforces.
THEOREM TypeCorrect == Spec => []TypeOK
<1>1. Init => TypeOK
    BY IdleTypes, BatchConstants DEF Init, TypeOK
<1>2. TypeOK /\ [Next]_vars => TypeOK'
    <2> SUFFICES ASSUME TypeOK, [Next]_vars PROVE TypeOK'
        OBVIOUS
    <2>1. ASSUME NEW k \in Cases, NEW c \in Contents, BeginUpload(k, c) PROVE TypeOK'
        BY <2>1, IdleTypes DEF BeginUpload, TypeOK, UploadFrame, Bytes, Broken
    <2>2. CASE FinishWrite
        BY <2>2 DEF FinishWrite, TypeOK, UploadFrame, Bytes, Whole
    <2>3. CASE LookUpDuplicate
        <3>1. FindCommitted(loop.case, Whole(loop.content)) \in Nat
            BY FindCommittedType DEF TypeOK
        <3>2. loop' \in [at : {"idle", "write", "lookup", "insert", "put"}, case : Cases,
                         content : Contents, dup : Nat, id : Imports]
            BY <2>3, <3>1 DEF LookUpDuplicate, TypeOK
        <3> QED BY <2>3, <3>2 DEF LookUpDuplicate, TypeOK, UploadFrame
    <2>4. CASE InsertJob
        <3>1. [NoJob EXCEPT !.case = loop.case, !.content = loop.content, !.evid = loop.dup,
                            !.status = IF loop.dup = 0 THEN "queued" ELSE "duplicate"] \in Jobs
            BY IdleTypes DEF TypeOK, Jobs, Statuses, Unsettled
        <3>2. jobs' \in [Imports -> Jobs]
            BY <2>4, <3>1 DEF InsertJob, TypeOK
        <3>3. loop' \in [at : {"idle", "write", "lookup", "insert", "put"}, case : Cases,
                         content : Contents, dup : Nat, id : Imports]
            <4>1. loop \in [at : {"idle", "write", "lookup", "insert", "put"}, case : Cases,
                            content : Contents, dup : Nat, id : Imports]
                BY DEF TypeOK
            <4>2. \E i \in Imports : loop' = [loop EXCEPT !.at = "put", !.id = i] \/ loop' = IdleLoop
                BY <2>4 DEF InsertJob
            <4> QED BY <4>1, <4>2, IdleTypes
        <3> QED BY <2>4, <3>2, <3>3 DEF InsertJob, TypeOK, UploadFrame
    <2>5. CASE QueueValidation
        BY <2>5, IdleTypes, EnqueueType DEF QueueValidation, TypeOK, UploadFrame
    <2>6. ASSUME NEW c \in Clients, NEW i \in Imports, NEW allow \in BOOLEAN,
                 ReadForCommit(c, i, allow)
          PROVE  TypeOK'
        BY <2>6 DEF ReadForCommit, Step, TypeOK, ClientFrame
    <2>7. ASSUME NEW c \in Clients, NEW i \in Imports, ReadForCancel(c, i) PROVE TypeOK'
        BY <2>7 DEF ReadForCancel, Step, TypeOK, ClientFrame
    <2>8. ASSUME NEW c \in Clients, ClientStep(c) PROVE TypeOK'
        <3>1. CASE MarkCommitQueued(c)
            <4>1. jobs' \in [Imports -> Jobs]
                BY <3>1, JobWriteType
                   DEF MarkCommitQueued, TypeOK, Statuses, Unsettled
            <4>2. asked' \in [Imports -> SUBSET {"cancel", "commit", "partial"}]
                BY <3>1 DEF MarkCommitQueued, TypeOK
            <4> QED BY <3>1, <4>1, <4>2 DEF MarkCommitQueued, Step, TypeOK, ClientFrame
        <3>2. CASE QueueCommit(c)
            BY <3>2, IdleTypes, EnqueueType DEF QueueCommit, TypeOK, ClientFrame
        <3>3. CASE WriteCancelled(c)
            BY <3>3, IdleTypes, SetJobType DEF WriteCancelled, TypeOK, ClientFrame, Statuses, Errors
        <3> QED BY <2>8, <3>1, <3>2, <3>3 DEF ClientStep
    <2>9. CASE WorkerStep
        <3>1. CASE TakeEntry
            <4>1. Head(queue) \in Entries /\ Tail(queue) \in Seq(Entries) /\ Len(Tail(queue)) <= QueueCap
                BY <3>1, HeadTailProperties, BatchConstants DEF TakeEntry, TypeOK
            <4>2. jobs[Head(queue).id].status \in Statuses
                BY <4>1 DEF TypeOK, Entries, Jobs
            <4>3. worker' \in [at : {"idle", "validate", "read", "store", "update", "commit", "check", "write"},
                               id : Imports, seen : Statuses, allow : BOOLEAN,
                               bytes : Bytes \cup {NoBytes}]
                BY <3>1, <4>1, <4>2, IdleTypes DEF TakeEntry, Entries
            <4> QED BY <3>1, <4>1, <4>3 DEF TakeEntry, TypeOK, WorkerFrame
        <3>2. CASE ClaimValidation
            BY <3>2, IdleTypes, SetJobType DEF ClaimValidation, TypeOK, WorkerFrame, Statuses, Unsettled, Errors
        <3>3. CASE ReadAndValidate
            BY <3>3, IdleTypes DEF ReadAndValidate, TypeOK, WorkerFrame, Job, Jobs
        <3>4. ASSUME NEW s \in Statuses, NEW e \in Errors, Finish(s, e) PROVE TypeOK'
            BY <3>4, IdleTypes, SetJobType DEF Finish, TypeOK, WorkerFrame
        <3>5. CASE StoreValidation
            BY <3>5, StoredRowType DEF StoreValidation, TypeOK, WorkerFrame
        <3>6. CASE RecordVerdict
            <4>1. Len(evidence) \in Nat
                BY DEF TypeOK
            <4>2. jobs' \in [Imports -> Jobs]
                BY <3>6, <4>1, JobWriteType DEF RecordVerdict, TypeOK, Statuses
            <4> QED BY <3>6, <4>2, IdleTypes DEF RecordVerdict, TypeOK, WorkerFrame
        <3>7. CASE ClaimCommit
            BY <3>7, SetJobType DEF ClaimCommit, TypeOK, WorkerFrame, Statuses, Unsettled, Errors
        <3>8. CASE YieldToDuplicate
            <4>1. Duplicate \in Nat
                BY FindCommittedType DEF Duplicate, TypeOK
            <4>2. jobs' \in [Imports -> Jobs]
                BY <3>8, <4>1, JobWriteType DEF YieldToDuplicate, TypeOK, Statuses
            <4> QED BY <3>8, <4>2, IdleTypes DEF YieldToDuplicate, TypeOK, WorkerFrame
        <3>9. CASE PrepareCommit
            BY <3>9, IdleTypes DEF PrepareCommit, Stored, TypeOK, WorkerFrame, Job, Jobs
        <3>10. CASE WriteCommit
            <4>1. jobs' \in [Imports -> Jobs]
                BY <3>10, JobWriteType DEF WriteCommit, TypeOK, Statuses, Done
            <4>2. evidence' \in Seq(Rows)
                BY <3>10, RowWriteType DEF WriteCommit, TypeOK
            <4> QED BY <3>10, <4>1, <4>2, IdleTypes DEF WriteCommit, TypeOK, WorkerFrame
        <3> QED BY <2>9, <3>1, <3>2, <3>3, <3>4, <3>5, <3>6, <3>7, <3>8, <3>9, <3>10
                DEF WorkerStep, ValidationRaises, RefuseCommit, FailHashCheck, CommitRaises, Statuses, Errors
    <2>10. CASE CrashAndRecover
        <3>1. /\ worker' = IdleWorker /\ loop' = IdleLoop
              /\ client' = [c \in Clients |-> IdleClient]
              /\ UNCHANGED <<evidence, disk, asked>>
            BY <2>10 DEF CrashAndRecover
        <3> QED BY <2>10, <3>1, IdleTypes, RecoveredType DEF TypeOK
    <2>11. ASSUME NEW c \in Contents, DamageFile(c) PROVE TypeOK'
        <3>1. disk' \in [Contents -> Bytes \cup {NoBytes}]
            BY <2>11 DEF DamageFile, TypeOK, Bytes, Broken
        <3>2. faults' \in [restarts : 0..MaxRestarts, damages : 0..MaxDamages]
            BY <2>11, BatchConstants DEF DamageFile, TypeOK
        <3> QED BY <2>11, <3>1, <3>2 DEF DamageFile, TypeOK
    <2>12. CASE UNCHANGED vars
        BY <2>12 DEF vars, TypeOK, Committed
    <2> QED BY <2>1, <2>2, <2>3, <2>4, <2>5, <2>6, <2>7, <2>8, <2>9, <2>10, <2>11, <2>12
            DEF Next, UploadStep
<1> QED BY <1>1, <1>2, PTL DEF Spec

-----------------------------------------------------------------------------
(* Evidence is committed once per hash. *)

\* What most steps do to the tables: at most a status changes, never into a
\* settled one, and into a reviewed one only when there is a row to review.
QuietStep ==
    /\ UNCHANGED evidence
    /\ \A i \in Imports :
        /\ Known(i)' <=> Known(i)
        /\ jobs'[i].case = jobs[i].case
        /\ jobs'[i].content = jobs[i].content
        /\ jobs'[i].evid = jobs[i].evid
        /\ jobs'[i].status \in Done \cup {"duplicate"} => jobs[i].status \in Done \cup {"duplicate"}
        /\ jobs'[i].status \in Reviewed => jobs[i].evid # 0

LEMMA SetJobQuiet ==
    ASSUME TypeOK, CommitInv, NEW i \in Imports, Known(i),
           NEW s \in Statuses \ (Done \cup {"absent", "duplicate"}), NEW e,
           s \in Reviewed => jobs[i].evid # 0,
           SetJob(i, s, e), UNCHANGED evidence
    PROVE  QuietStep
BY DEF TypeOK, CommitInv, RowsOfImports, SetJob, QuietStep, Known, Jobs, Statuses

LEMMA EnqueueQuiet ==
    ASSUME TypeOK, CommitInv, NEW op \in {"validate", "commit"}, NEW i \in Imports, Known(i),
           NEW allow \in BOOLEAN, Enqueue(op, i, allow), UNCHANGED evidence
    PROVE  QuietStep
<1>1. CASE UNCHANGED jobs
    BY <1>1 DEF CommitInv, RowsOfImports, QuietStep, Known
<1>2. CASE SetJob(i, "failed", "worker_queue_full")
    BY <1>2, SetJobQuiet DEF Statuses, Unsettled, Done, Reviewed
<1> QED BY <1>1, <1>2 DEF Enqueue

\* A quiet step keeps what CommitInv says of the tables, and of a thread that
\* does not move.
LEMMA QuietTables ==
    ASSUME TypeOK, TypeOK', CommitInv, QuietStep
    PROVE  /\ OneCommitPerHash' /\ SettledPointsAtCommitted'
           /\ (\A i \in Imports : jobs[i].evid # 0 => RowOfCase(jobs[i].evid, jobs[i].case))'
           /\ \A i \in Imports : jobs'[i].status \in Reviewed => jobs'[i].evid # 0
           /\ worker' = worker => WorkerRelies'
<1>1. OneCommitPerHash' /\ SettledPointsAtCommitted'
    BY DEF CommitInv, OneCommitPerHash, SettledPointsAtCommitted, QuietStep, Committed
<1>2. (\A i \in Imports : jobs[i].evid # 0 => RowOfCase(jobs[i].evid, jobs[i].case))'
    BY DEF CommitInv, RowsOfImports, QuietStep, RowOfCase
<1>3. \A i \in Imports : jobs'[i].status \in Reviewed => jobs'[i].evid # 0
    BY DEF QuietStep
<1>4. worker' = worker => WorkerRelies'
    BY DEF TypeOK, CommitInv, WorkerRelies, QuietStep, RowOfCase, Job, Report, Matches, Committed
<1> QED BY <1>1, <1>2, <1>3, <1>4

LEMMA CommitInvInit == Init => CommitInv
BY BatchConstants
   DEF Init, CommitInv, OneCommitPerHash, SettledPointsAtCommitted, RefsAreKnown,
       RowsOfImports, WorkerRelies, Known, NoJob, Reviewed, Done, IdleWorker, IdleLoop, IdleClient

\* What most steps do to the threads: whatever they now refer to is known.
QuietThreads ==
    /\ \A p \in 1..Len(queue') : Known(queue'[p].id)
    /\ worker'.at # "idle" => Known(worker'.id)
    /\ loop'.at = "put" => Known(loop'.id)
    /\ \A c \in Clients :
        /\ client'[c].at # "idle" => Known(client'[c].id)
        /\ client'[c].at = "mark" => jobs[client'[c].id].evid # 0
    /\ \A c \in Contents : disk[c] # NoBytes => disk'[c] # NoBytes
    /\ loop'.at # "idle" => disk'[loop'.content] # NoBytes
    /\ loop'.at = "insert" /\ loop'.dup # 0 =>
        RowOfCase(loop'.dup, loop'.case) /\ Committed(loop'.dup)

LEMMA QuietKeepsInv ==
    ASSUME TypeOK, TypeOK', CommitInv, QuietStep, QuietThreads, worker' = worker \/ WorkerRelies'
    PROVE  CommitInv'
<1>1. RefsAreKnown'
    <2>1. \A p \in 1..Len(queue') : queue'[p].id \in Imports
        <3>1. \A p \in 1..Len(queue') : queue'[p] \in Entries
            BY DEF TypeOK
        <3> QED BY <3>1 DEF Entries
    <2>2. (\A p \in 1..Len(queue) : Known(queue[p].id))'
        BY <2>1 DEF QuietStep, QuietThreads
    <2>3. (worker.at # "idle" => Known(worker.id))' /\ (loop.at = "put" => Known(loop.id))'
        BY DEF QuietStep, QuietThreads, TypeOK
    <2>4. (\A c \in Clients : client[c].at # "idle" => Known(client[c].id))'
        BY DEF QuietStep, QuietThreads, TypeOK
    <2>5. (\A i \in Imports : Known(i) => disk[jobs[i].content] # NoBytes)'
        <3>1. \A i \in Imports : jobs[i].content \in Contents
            BY DEF TypeOK, Jobs
        <3> QED BY <3>1 DEF QuietStep, QuietThreads, CommitInv, RefsAreKnown
    <2> QED BY <2>2, <2>3, <2>4, <2>5 DEF RefsAreKnown, QuietThreads
<1>2. RowsOfImports'
    <2>1. \A c \in Clients : client'[c].at = "mark" => jobs'[client'[c].id].evid # 0
        BY DEF QuietStep, QuietThreads, TypeOK
    <2>2. (loop.at = "insert" /\ loop.dup # 0 => RowOfCase(loop.dup, loop.case) /\ Committed(loop.dup))'
        BY DEF QuietStep, QuietThreads, RowOfCase, Committed
    <2> QED BY <2>1, <2>2, QuietTables DEF RowsOfImports
<1> QED BY <1>1, <1>2, QuietTables DEF CommitInv

\* Putting an entry, by whichever thread.
LEMMA EnqueueKeepsKnown ==
    ASSUME TypeOK, CommitInv, NEW op \in {"validate", "commit"}, NEW i \in Imports, Known(i),
           NEW allow \in BOOLEAN, Enqueue(op, i, allow)
    PROVE  \A p \in 1..Len(queue') : Known(queue'[p].id)
<1>1. CASE queue' = Append(queue, Entry(op, i, allow))
    BY <1>1 DEF TypeOK, CommitInv, RefsAreKnown, Entry
<1>2. CASE UNCHANGED queue
    BY <1>2 DEF CommitInv, RefsAreKnown
<1> QED BY <1>1, <1>2 DEF Enqueue

LEMMA FilesAreBytes ==
    ASSUME NEW c \in Contents
    PROVE  Whole(c) # NoBytes /\ Broken(c) # NoBytes
<1>1. Whole(c) \in Bytes /\ Broken(c) \in Bytes
    BY DEF Whole, Broken, Bytes
<1> QED BY <1>1, BatchConstants

\* The upload.
LEMMA UploadKeepsInv ==
    ASSUME TypeOK, TypeOK', CommitInv,
           (\E k \in Cases, c \in Contents : BeginUpload(k, c)) \/ UploadStep
    PROVE  CommitInv'
<1> USE DEF UploadFrame
<1>1. ASSUME NEW k \in Cases, NEW c \in Contents, BeginUpload(k, c) PROVE CommitInv'
    <2>1. QuietStep
        BY <1>1 DEF BeginUpload, QuietStep, Known, CommitInv, RowsOfImports
    <2>2. \A d \in Contents : disk[d] # NoBytes \/ d = c => disk'[d] # NoBytes
        BY <1>1, FilesAreBytes DEF BeginUpload, TypeOK
    <2>3. QuietThreads
        BY <1>1, <2>2 DEF BeginUpload, TypeOK, CommitInv, RefsAreKnown, RowsOfImports, QuietThreads, IdleLoop
    <2> QED BY <1>1, <2>1, <2>3, QuietKeepsInv DEF BeginUpload
<1>2. CASE FinishWrite
    <2>1. QuietStep
        BY <1>2 DEF FinishWrite, QuietStep, Known, CommitInv, RowsOfImports
    <2>2. \A d \in Contents : disk[d] # NoBytes \/ d = loop.content => disk'[d] # NoBytes
        BY <1>2, FilesAreBytes DEF FinishWrite, TypeOK
    <2>3. QuietThreads
        BY <1>2, <2>2 DEF FinishWrite, TypeOK, CommitInv, RefsAreKnown, RowsOfImports, QuietThreads
    <2> QED BY <1>2, <2>1, <2>3, QuietKeepsInv DEF FinishWrite
<1>3. CASE LookUpDuplicate
    <2>1. QuietStep
        BY <1>3 DEF LookUpDuplicate, QuietStep, Known, CommitInv, RowsOfImports
    <2>2. loop' = [loop EXCEPT !.at = "insert", !.dup = FindCommitted(loop.case, Whole(loop.content))]
        BY <1>3 DEF LookUpDuplicate
    <2>3. loop'.dup # 0 => RowOfCase(loop'.dup, loop'.case) /\ Committed(loop'.dup)
        BY <2>2, FindCommittedType DEF Matches, RowOfCase, TypeOK
    <2>4. QuietThreads
        BY <1>3, <2>3 DEF LookUpDuplicate, TypeOK, CommitInv, RefsAreKnown, RowsOfImports, QuietThreads
    <2> QED BY <1>3, <2>1, <2>4, QuietKeepsInv DEF LookUpDuplicate
<1>4. CASE QueueValidation
    <2>1. /\ Enqueue("validate", loop.id, FALSE) /\ Known(loop.id) /\ loop.id \in Imports
          /\ loop' = IdleLoop /\ UNCHANGED <<evidence, disk, worker, client>>
        BY <1>4 DEF QueueValidation, CommitInv, RefsAreKnown, TypeOK
    <2>2. QuietStep /\ \A p \in 1..Len(queue') : Known(queue'[p].id)
        BY <2>1, EnqueueQuiet, EnqueueKeepsKnown
    <2>3. QuietThreads
        BY <2>1, <2>2 DEF CommitInv, RefsAreKnown, RowsOfImports, QuietThreads, IdleLoop
    <2> QED BY <2>1, <2>2, <2>3, QuietKeepsInv
<1>5. CASE InsertJob
    <2>1. PICK i \in Imports :
            /\ ~Known(i)
            /\ jobs' = [jobs EXCEPT ![i] =
                   [NoJob EXCEPT !.case = loop.case, !.content = loop.content, !.evid = loop.dup,
                                 !.status = IF loop.dup = 0 THEN "queued" ELSE "duplicate"]]
            /\ loop' = IF loop.dup = 0 THEN [loop EXCEPT !.at = "put", !.id = i] ELSE IdleLoop
        BY <1>5 DEF InsertJob, NewImport, Known
    <2>2. UNCHANGED <<evidence, disk, queue, worker, client>> /\ loop.at = "insert"
        BY <1>5 DEF InsertJob, UploadFrame
    <2>3. \A j \in Imports : Known(j) => jobs'[j] = jobs[j]
        BY <2>1 DEF TypeOK
    <2>4. /\ jobs'[i].case = loop.case /\ jobs'[i].content = loop.content /\ jobs'[i].evid = loop.dup
          /\ jobs'[i].status = IF loop.dup = 0 THEN "queued" ELSE "duplicate"
          /\ \A j \in Imports \ {i} : jobs'[j] = jobs[j]
        BY <2>1 DEF TypeOK, NoJob
    <2>5. OneCommitPerHash'
        BY <2>2 DEF CommitInv, OneCommitPerHash, Committed
    <2>6. SettledPointsAtCommitted'
        BY <2>2, <2>4 DEF CommitInv, SettledPointsAtCommitted, RowsOfImports, RowOfCase, Committed, Done
    <2>7. RefsAreKnown'
        BY <2>1, <2>2, <2>3, <2>4 DEF TypeOK, CommitInv, RefsAreKnown, Known, IdleLoop, Entries
    <2>8. RowsOfImports'
        <3>1. \A c \in Clients : client[c].at = "mark" => jobs'[client[c].id] = jobs[client[c].id]
            BY <2>3 DEF TypeOK, CommitInv, RefsAreKnown
        <3>2. (\A j \in Imports : jobs[j].evid # 0 => RowOfCase(jobs[j].evid, jobs[j].case))'
            BY <2>2, <2>4 DEF CommitInv, RowsOfImports, RowOfCase
        <3>3. \A j \in Imports : jobs'[j].status \in Reviewed => jobs'[j].evid # 0
            BY <2>4 DEF CommitInv, RowsOfImports, Reviewed
        <3>4. loop'.at # "insert"
            BY <2>1, <2>2 DEF IdleLoop, TypeOK
        <3> QED BY <2>2, <3>1, <3>2, <3>3, <3>4 DEF CommitInv, RowsOfImports
    <2>9. WorkerRelies'
        <3>1. worker.at # "idle" => Job' = Job
            BY <2>2, <2>3 DEF TypeOK, CommitInv, RefsAreKnown, Job
        <3> QED BY <2>2, <3>1 DEF CommitInv, WorkerRelies, RowOfCase, Report, Job, Matches, Committed
    <2> QED BY <2>5, <2>6, <2>7, <2>8, <2>9 DEF CommitInv
<1> QED BY <1>1, <1>2, <1>3, <1>4, <1>5 DEF UploadStep

\* Request threads.
LEMMA ClientKeepsInv ==
    ASSUME TypeOK, TypeOK', CommitInv, NEW c \in Clients,
           \/ \E i \in Imports, allow \in BOOLEAN : ReadForCommit(c, i, allow)
           \/ \E i \in Imports : ReadForCancel(c, i)
           \/ ClientStep(c)
    PROVE  CommitInv'
<1> USE DEF ClientFrame
<1>1. ASSUME NEW i \in Imports, NEW allow \in BOOLEAN, ReadForCommit(c, i, allow) PROVE CommitInv'
    <2>1. QuietStep
        BY <1>1 DEF ReadForCommit, QuietStep, Known, CommitInv, RowsOfImports
    <2>2. Known(i) /\ jobs[i].evid # 0
        BY <1>1 DEF ReadForCommit, Known, CommitInv, RowsOfImports, Reviewed
    <2>3. QuietThreads
        BY <1>1, <2>2 DEF ReadForCommit, Step, TypeOK, CommitInv, RefsAreKnown, RowsOfImports, QuietThreads
    <2> QED BY <1>1, <2>1, <2>3, QuietKeepsInv DEF ReadForCommit
<1>2. ASSUME NEW i \in Imports, ReadForCancel(c, i) PROVE CommitInv'
    <2>1. QuietStep
        BY <1>2 DEF ReadForCancel, QuietStep, Known, CommitInv, RowsOfImports
    <2>2. Known(i)
        BY <1>2 DEF ReadForCancel, Known
    <2>3. QuietThreads
        BY <1>2, <2>2 DEF ReadForCancel, Step, TypeOK, CommitInv, RefsAreKnown, RowsOfImports, QuietThreads
    <2> QED BY <1>2, <2>1, <2>3, QuietKeepsInv DEF ReadForCancel
<1>3. CASE MarkCommitQueued(c)
    <2>1. /\ jobs' = [jobs EXCEPT ![client[c].id].status = "commit_queued",
                                  ![client[c].id].allow = client[c].allow]
          /\ client' = [client EXCEPT ![c] = [at |-> "put", id |-> client[c].id, allow |-> client[c].allow]]
          /\ client[c].at = "mark" /\ client[c].id \in Imports
          /\ UNCHANGED <<evidence, disk, queue, worker, loop>>
        BY <1>3 DEF MarkCommitQueued, Step, TypeOK
    <2>2. Known(client[c].id) /\ jobs[client[c].id].evid # 0
        BY <2>1 DEF CommitInv, RefsAreKnown, RowsOfImports
    <2>3. QuietStep
        <3>1. /\ jobs'[client[c].id].status = "commit_queued"
              /\ \A i \in Imports :
                    /\ jobs'[i].case = jobs[i].case /\ jobs'[i].content = jobs[i].content
                    /\ jobs'[i].evid = jobs[i].evid
                    /\ i # client[c].id => jobs'[i].status = jobs[i].status
            <4>1. jobs \in [Imports -> Jobs]
                BY DEF TypeOK
            <4>2. \A i \in Imports : i # client[c].id => jobs'[i] = jobs[i]
                BY <2>1, <4>1
            <4>3. jobs'[client[c].id] = [jobs[client[c].id] EXCEPT !.status = "commit_queued",
                                                                  !.allow = client[c].allow]
                BY <2>1, <4>1
            <4>4. jobs[client[c].id] \in Jobs
                BY <2>1, <4>1
            <4>5. /\ jobs'[client[c].id].status = "commit_queued"
                  /\ jobs'[client[c].id].case = jobs[client[c].id].case
                  /\ jobs'[client[c].id].content = jobs[client[c].id].content
                  /\ jobs'[client[c].id].evid = jobs[client[c].id].evid
                BY <4>3, <4>4 DEF Jobs
            <4> QED BY <4>2, <4>5
        <3> QED BY <2>1, <2>2, <3>1 DEF QuietStep, Known, Done, CommitInv, RowsOfImports
    <2>4. QuietThreads
        BY <2>1, <2>2 DEF TypeOK, CommitInv, RefsAreKnown, RowsOfImports, QuietThreads
    <2> QED BY <2>1, <2>3, <2>4, QuietKeepsInv
<1>4. CASE QueueCommit(c)
    <2>1. /\ Enqueue("commit", client[c].id, client[c].allow)
          /\ client' = [client EXCEPT ![c] = IdleClient]
          /\ client[c].at = "put" /\ client[c].id \in Imports /\ client[c].allow \in BOOLEAN
          /\ UNCHANGED <<evidence, disk, worker, loop>>
        BY <1>4 DEF QueueCommit, TypeOK
    <2>2. Known(client[c].id)
        BY <2>1 DEF CommitInv, RefsAreKnown
    <2>3. QuietStep /\ \A p \in 1..Len(queue') : Known(queue'[p].id)
        BY <2>1, <2>2, EnqueueQuiet, EnqueueKeepsKnown
    <2>4. QuietThreads
        BY <2>1, <2>3 DEF TypeOK, CommitInv, RefsAreKnown, RowsOfImports, QuietThreads, IdleClient
    <2> QED BY <2>1, <2>3, <2>4, QuietKeepsInv
<1>5. CASE WriteCancelled(c)
    <2>1. /\ SetJob(client[c].id, "cancelled", "none")
          /\ client' = [client EXCEPT ![c] = IdleClient]
          /\ client[c].at = "cancel" /\ client[c].id \in Imports
          /\ UNCHANGED <<evidence, disk, queue, worker, loop>>
        BY <1>5 DEF WriteCancelled, TypeOK
    <2>2. Known(client[c].id)
        BY <2>1 DEF CommitInv, RefsAreKnown
    <2>3. QuietStep
        BY <2>1, <2>2, SetJobQuiet DEF Statuses, Done, Reviewed
    <2>4. QuietThreads
        BY <2>1 DEF TypeOK, CommitInv, RefsAreKnown, RowsOfImports, QuietThreads, IdleClient
    <2> QED BY <2>1, <2>3, <2>4, QuietKeepsInv
<1> QED BY <1>1, <1>2, <1>3, <1>4, <1>5 DEF ClientStep

\* The worker: the steps that leave the rows of evidence alone.
LEMMA WorkerQuietKeepsInv ==
    ASSUME TypeOK, TypeOK', CommitInv,
           \/ TakeEntry \/ ClaimValidation \/ ReadAndValidate \/ ClaimCommit \/ PrepareCommit
           \/ /\ worker.at # "idle"
              /\ \E s \in Statuses \ (Done \cup Reviewed \cup {"absent", "duplicate"}), e \in Errors :
                    Finish(s, e)
    PROVE  CommitInv'
<1> USE DEF WorkerFrame
<1>1. worker.at # "idle" =>
        /\ Known(worker.id) /\ worker.id \in Imports
        /\ Job.content \in Contents /\ disk[Job.content] # NoBytes
    BY DEF CommitInv, RefsAreKnown, TypeOK, Job, Jobs
<1>2. CASE TakeEntry
    <2>1. /\ Head(queue) = queue[1] /\ Head(queue).id \in Imports /\ Known(Head(queue).id)
          /\ Head(queue).op \in {"validate", "commit"}
        <3>1. 1 \in 1..Len(queue) /\ Head(queue) = queue[1] /\ queue[1] \in Entries
            BY <1>2 DEF TakeEntry, TypeOK
        <3> QED BY <3>1 DEF CommitInv, RefsAreKnown, Entries
    <2>2. \A p \in 1..Len(Tail(queue)) : p + 1 \in 1..Len(queue) /\ Tail(queue)[p] = queue[p + 1]
        BY <1>2 DEF TakeEntry, TypeOK
    <2>3. /\ worker' = [IdleWorker EXCEPT !.at = Head(queue).op, !.id = Head(queue).id,
                                          !.seen = jobs[Head(queue).id].status, !.allow = Head(queue).allow]
          /\ queue' = Tail(queue) /\ UNCHANGED <<jobs, evidence, disk, loop, client>>
        BY <1>2 DEF TakeEntry
    <2>4. QuietStep
        BY <2>3 DEF QuietStep, Known, CommitInv, RowsOfImports
    <2>5. QuietThreads
        BY <2>1, <2>2, <2>3 DEF CommitInv, RefsAreKnown, RowsOfImports, QuietThreads, IdleWorker
    <2>6. WorkerRelies'
        BY <2>1, <2>3 DEF CommitInv, RowsOfImports, WorkerRelies, IdleWorker, Job
    <2> QED BY <2>4, <2>5, <2>6, QuietKeepsInv
<1>3. CASE ClaimValidation
    <2>1. /\ SetJob(worker.id, "validating", "none") /\ worker.at = "validate"
          /\ worker' = IF worker.seen = "cancelled" THEN IdleWorker ELSE [worker EXCEPT !.at = "read"]
          /\ UNCHANGED <<evidence, queue, disk, loop, client>>
        BY <1>3 DEF ClaimValidation
    <2>2. QuietStep
        BY <1>1, <2>1, SetJobQuiet DEF Statuses, Unsettled, Done, Reviewed
    <2>3. QuietThreads
        BY <1>1, <2>1 DEF TypeOK, CommitInv, RefsAreKnown, RowsOfImports, QuietThreads, IdleWorker
    <2>4. WorkerRelies'
        BY <2>1 DEF WorkerRelies, IdleWorker, TypeOK
    <2> QED BY <2>2, <2>3, <2>4, QuietKeepsInv
<1>4. CASE ReadAndValidate
    <2>1. /\ worker.at = "read"
          /\ worker' = IF Job.status = "cancelled" THEN IdleWorker
                       ELSE [worker EXCEPT !.at = "store", !.bytes = disk[Job.content]]
          /\ UNCHANGED <<jobs, evidence, queue, disk, loop, client>>
        BY <1>4 DEF ReadAndValidate
    <2>2. QuietStep
        BY <2>1 DEF QuietStep, Known, CommitInv, RowsOfImports
    <2>3. QuietThreads
        BY <1>1, <2>1 DEF TypeOK, CommitInv, RefsAreKnown, RowsOfImports, QuietThreads, IdleWorker
    <2>4. WorkerRelies'
        BY <1>1, <2>1 DEF WorkerRelies, IdleWorker, TypeOK
    <2> QED BY <2>2, <2>3, <2>4, QuietKeepsInv
<1>5. CASE ClaimCommit
    <2>1. /\ SetJob(worker.id, "normalizing", "none") /\ worker.at = "commit"
          /\ worker.seen \in Reviewed
          /\ worker' = [worker EXCEPT !.at = "check"]
          /\ UNCHANGED <<evidence, queue, disk, loop, client>>
        BY <1>5 DEF ClaimCommit, CommitReady, Reviewed
    <2>2. jobs[worker.id].evid # 0
        BY <2>1 DEF CommitInv, WorkerRelies, Job
    <2>3. QuietStep
        BY <1>1, <2>1, <2>2, SetJobQuiet DEF Statuses, Unsettled, Done, Reviewed
    <2>4. QuietThreads
        BY <1>1, <2>1 DEF TypeOK, CommitInv, RefsAreKnown, RowsOfImports, QuietThreads
    <2>5. WorkerRelies'
        BY <1>1, <2>1, <2>2, <2>3 DEF WorkerRelies, TypeOK, QuietStep, Job
    <2> QED BY <2>3, <2>4, <2>5, QuietKeepsInv
<1>6. CASE PrepareCommit
    <2>1. /\ worker.at = "check" /\ ~OtherDuplicate /\ ~Committed(Job.evid)
          /\ worker' = IF Job.status = "cancelled" THEN IdleWorker
                       ELSE [worker EXCEPT !.at = "write", !.bytes = Stored]
          /\ UNCHANGED <<jobs, evidence, queue, disk, loop, client>>
        BY <1>6 DEF PrepareCommit
    <2>2. QuietStep
        BY <2>1 DEF QuietStep, Known, CommitInv, RowsOfImports
    <2>3. QuietThreads
        BY <1>1, <2>1 DEF TypeOK, CommitInv, RefsAreKnown, RowsOfImports, QuietThreads, IdleWorker
    <2>4. Matches(Job.case, Report(worker.id)) = {}
        <3>1. Job.evid \notin Matches(Job.case, Report(worker.id))
            BY <2>1 DEF Matches
        <3> QED BY <2>1, <3>1, FindCommittedType DEF OtherDuplicate, Duplicate
    <2>5. WorkerRelies'
        <3>1. Job.evid # 0
            BY <2>1 DEF CommitInv, WorkerRelies
        <3>2. CASE worker' = IdleWorker
            BY <3>2 DEF WorkerRelies, IdleWorker
        <3>3. CASE worker' = [worker EXCEPT !.at = "write", !.bytes = Stored]
            <4>1. /\ worker'.at = "write" /\ worker'.bytes # NoBytes /\ worker'.id = worker.id
                  /\ Job' = Job
                BY <1>1, <2>1, <3>3 DEF TypeOK, Stored, Job
            <4> QED BY <2>1, <2>4, <3>1, <4>1 DEF WorkerRelies, Matches, Report, Committed
        <3> QED BY <2>1, <3>2, <3>3
    <2> QED BY <2>2, <2>3, <2>5, QuietKeepsInv
<1>7. ASSUME NEW s \in Statuses \ (Done \cup Reviewed \cup {"absent", "duplicate"}), NEW e \in Errors,
             Finish(s, e), worker.at # "idle"
      PROVE  CommitInv'
    <2>1. /\ SetJob(worker.id, s, e) /\ worker' = IdleWorker
          /\ UNCHANGED <<evidence, queue, disk, loop, client>>
        BY <1>7 DEF Finish
    <2>2. QuietStep
        BY <1>1, <1>7, <2>1, SetJobQuiet
    <2>3. QuietThreads
        BY <2>1 DEF CommitInv, RefsAreKnown, RowsOfImports, QuietThreads, IdleWorker
    <2>4. WorkerRelies'
        BY <2>1 DEF WorkerRelies, IdleWorker
    <2> QED BY <2>2, <2>3, <2>4, QuietKeepsInv
<1> QED BY <1>2, <1>3, <1>4, <1>5, <1>6, <1>7

\* The worker: the steps that write rows or make an import point at one.
LEMMA StoreKeepsInv ==
    ASSUME TypeOK, TypeOK', CommitInv, StoreValidation
    PROVE  CommitInv'
<1> DEFINE row == [case |-> Job.case, hash |-> worker.bytes, events |-> NoBytes]
<1>1. /\ evidence' = Append(evidence, row) /\ worker' = [worker EXCEPT !.at = "update"]
      /\ worker.at = "store" /\ UNCHANGED <<jobs, queue, disk, loop, client>>
    BY DEF StoreValidation, WorkerFrame
<1>2. /\ Len(evidence') = Len(evidence) + 1 /\ Len(evidence) \in Nat
      /\ evidence'[Len(evidence) + 1] = row
      /\ \A e \in 1..Len(evidence) : evidence'[e] = evidence[e]
    BY <1>1 DEF TypeOK
<1>3. DOMAIN evidence' = 1..(Len(evidence) + 1) /\ DOMAIN evidence = 1..Len(evidence)
    BY <1>2 DEF TypeOK
<1>4. /\ \A e \in 1..Len(evidence) : evidence'[e].events # NoBytes <=> Committed(e)
      /\ evidence'[Len(evidence) + 1].events = NoBytes
    BY <1>2 DEF Committed
<1>5. OneCommitPerHash'
    <2> SUFFICES ASSUME NEW e \in DOMAIN evidence', NEW f \in DOMAIN evidence',
                        evidence'[e].events # NoBytes, evidence'[f].events # NoBytes,
                        evidence'[e].case = evidence'[f].case, evidence'[e].hash = evidence'[f].hash
                 PROVE  e = f
        BY DEF OneCommitPerHash, Committed
    <2>1. e \in 1..Len(evidence) /\ f \in 1..Len(evidence)
        BY <1>2, <1>3, <1>4
    <2> QED BY <1>2, <1>3, <1>4, <2>1 DEF CommitInv, OneCommitPerHash
<1>6. \A e, k : RowOfCase(e, k) => RowOfCase(e, k)'
    BY <1>2 DEF RowOfCase
<1>7. SettledPointsAtCommitted'
    <2>1. \A i \in Imports : jobs[i].evid # 0 => jobs[i].evid \in 1..Len(evidence)
        BY DEF CommitInv, RowsOfImports, RowOfCase
    <2> QED BY <1>1, <1>2, <1>4, <2>1 DEF CommitInv, SettledPointsAtCommitted, Committed
<1>8. RefsAreKnown'
    BY <1>1 DEF TypeOK, CommitInv, RefsAreKnown, Known
<1>9. RowsOfImports'
    <2>1. loop.at = "insert" /\ loop.dup # 0 => RowOfCase(loop.dup, loop.case)' /\ Committed(loop.dup)'
        BY <1>1, <1>4, <1>6 DEF CommitInv, RowsOfImports, RowOfCase, Committed
    <2>2. (\A i \in Imports : jobs[i].evid # 0 => RowOfCase(jobs[i].evid, jobs[i].case))'
        BY <1>1, <1>6 DEF CommitInv, RowsOfImports, RowOfCase
    <2> QED BY <1>1, <2>1, <2>2 DEF CommitInv, RowsOfImports
<1>10. WorkerRelies'
    <2>1. worker'.at = "update" /\ worker'.id = worker.id
        BY <1>1 DEF TypeOK
    <2> QED BY <1>1, <1>2, <2>1 DEF WorkerRelies, RowOfCase, Job
<1> QED BY <1>5, <1>7, <1>8, <1>9, <1>10 DEF CommitInv

\* Making the worker's import point at a row of its case, as the end of an
\* operation: the row just stored, or the committed duplicate.
LEMMA PointKeepsInv ==
    ASSUME TypeOK, TypeOK', CommitInv, worker.at # "idle", NEW e, NEW s,
           RowOfCase(e, Job.case), e # 0, s # "absent",
           s \in Done \cup {"duplicate"} => Committed(e),
           jobs' = [jobs EXCEPT ![worker.id].evid = e, ![worker.id].status = s],
           worker' = IdleWorker, UNCHANGED <<evidence, queue, disk, loop, client>>
    PROVE  CommitInv'
<1>1. /\ \A i \in Imports : i # worker.id => jobs'[i] = jobs[i]
      /\ worker.id \in Imports /\ jobs'[worker.id].evid = e /\ jobs'[worker.id].status = s
      /\ jobs'[worker.id].case = jobs[worker.id].case
      /\ jobs'[worker.id].content = jobs[worker.id].content
    BY DEF TypeOK, Jobs
<1>2. \A i \in Imports : Known(i) => Known(i)'
    BY <1>1 DEF Known
<1>3. OneCommitPerHash'
    BY DEF CommitInv, OneCommitPerHash, Committed
<1>4. SettledPointsAtCommitted'
    <2> SUFFICES ASSUME NEW i \in Imports, jobs'[i].status \in Done \cup {"duplicate"}
                 PROVE  /\ jobs'[i].evid # 0 /\ evidence[jobs'[i].evid].events # NoBytes
                        /\ evidence[jobs'[i].evid].case = jobs'[i].case
        BY DEF SettledPointsAtCommitted, Committed
    <2>1. CASE i = worker.id
        BY <1>1, <2>1 DEF Committed, RowOfCase, Job
    <2>2. CASE i # worker.id
        BY <1>1, <2>2 DEF CommitInv, SettledPointsAtCommitted, Committed
    <2> QED BY <2>1, <2>2
<1>5. RefsAreKnown'
    <2>1. worker'.at = "idle"
        BY DEF IdleWorker
    <2>2. (\A p \in 1..Len(queue) : Known(queue[p].id))'
        <3>1. \A p \in 1..Len(queue) : queue[p].id \in Imports
            <4>1. \A p \in 1..Len(queue) : queue[p] \in Entries
                BY DEF TypeOK
            <4> QED BY <4>1 DEF Entries
        <3> QED BY <1>2, <3>1 DEF CommitInv, RefsAreKnown
    <2>3. (\A c \in Clients : client[c].at # "idle" => Known(client[c].id))'
        BY <1>2 DEF TypeOK, CommitInv, RefsAreKnown
    <2>4. (loop.at = "put" => Known(loop.id))'
        BY <1>2 DEF TypeOK, CommitInv, RefsAreKnown
    <2>5. (\A i \in Imports : Known(i) => disk[jobs[i].content] # NoBytes)'
        <3>1. Known(worker.id)
            BY DEF CommitInv, RefsAreKnown
        <3>2. \A i \in Imports : jobs[i].status # "absent" => disk[jobs[i].content] # NoBytes
            BY DEF CommitInv, RefsAreKnown, Known
        <3>3. disk[jobs'[worker.id].content] # NoBytes
            BY <1>1, <3>1, <3>2 DEF Known
        <3> QED BY <1>1, <3>2, <3>3 DEF Known
    <2>6. (loop.at # "idle" => disk[loop.content] # NoBytes)'
        BY DEF CommitInv, RefsAreKnown
    <2> QED BY <2>1, <2>2, <2>3, <2>4, <2>5, <2>6 DEF RefsAreKnown
<1>6. RowsOfImports'
    <2>1. (\A i \in Imports : jobs[i].evid # 0 => RowOfCase(jobs[i].evid, jobs[i].case))'
        BY <1>1 DEF CommitInv, RowsOfImports, RowOfCase, Job
    <2>2. \A i \in Imports : jobs'[i].status \in Reviewed => jobs'[i].evid # 0
        BY <1>1 DEF CommitInv, RowsOfImports
    <2>3. \A c \in Clients : client'[c].at = "mark" => jobs'[client'[c].id].evid # 0
        BY <1>1 DEF TypeOK, CommitInv, RowsOfImports
    <2>4. (loop.at = "insert" /\ loop.dup # 0 => RowOfCase(loop.dup, loop.case) /\ Committed(loop.dup))'
        BY DEF CommitInv, RowsOfImports, RowOfCase, Committed
    <2> QED BY <2>1, <2>2, <2>3, <2>4 DEF RowsOfImports
<1>7. WorkerRelies'
    BY DEF WorkerRelies, IdleWorker
<1> QED BY <1>3, <1>4, <1>5, <1>6, <1>7 DEF CommitInv

LEMMA RecordAndYieldKeepInv ==
    ASSUME TypeOK, TypeOK', CommitInv, RecordVerdict \/ YieldToDuplicate
    PROVE  CommitInv'
<1> USE DEF WorkerFrame
<1>1. CASE RecordVerdict
    <2>1. RowOfCase(Len(evidence), Job.case) /\ Len(evidence) # 0
        BY <1>1 DEF RecordVerdict, CommitInv, WorkerRelies, RowOfCase
    <2> DEFINE s == IF Verdict(worker.bytes) = "rejected" THEN "rejected" ELSE "awaiting_commit"
    <2>2. s \in {"rejected", "awaiting_commit"}
        OBVIOUS
    <2>3. /\ worker.at # "idle"
          /\ jobs' = [jobs EXCEPT ![worker.id].evid = Len(evidence), ![worker.id].status = s]
          /\ worker' = IdleWorker /\ UNCHANGED <<evidence, queue, disk, loop, client>>
        BY <1>1 DEF RecordVerdict
    <2>4. s # "absent" /\ s \notin Done \cup {"duplicate"}
        BY <2>2 DEF Done
    <2> HIDE DEF s
    <2> QED BY <2>1, <2>3, <2>4, PointKeepsInv
<1>2. CASE YieldToDuplicate
    <2>1. Duplicate \in Matches(Job.case, Report(worker.id)) /\ Duplicate # 0
        BY <1>2, FindCommittedType DEF YieldToDuplicate, OtherDuplicate, Duplicate
    <2>2. RowOfCase(Duplicate, Job.case) /\ Committed(Duplicate)
        BY <2>1 DEF Matches, RowOfCase, TypeOK
    <2>3. /\ worker.at # "idle"
          /\ jobs' = [jobs EXCEPT ![worker.id].evid = Duplicate, ![worker.id].status = "duplicate"]
          /\ worker' = IdleWorker /\ UNCHANGED <<evidence, queue, disk, loop, client>>
        BY <1>2 DEF YieldToDuplicate
    <2> QED BY <2>1, <2>2, <2>3, PointKeepsInv
<1> QED BY <1>1, <1>2

LEMMA WriteKeepsInv ==
    ASSUME TypeOK, TypeOK', CommitInv, WriteCommit
    PROVE  CommitInv'
<1>1. /\ evidence' = [evidence EXCEPT ![Job.evid].events = worker.bytes]
      /\ jobs' = [jobs EXCEPT ![worker.id].status =
                     IF RejectedRecords(Report(worker.id)) THEN "partial_success" ELSE "completed"]
      /\ worker' = IdleWorker /\ worker.at = "write" /\ UNCHANGED <<queue, disk, loop, client>>
    BY DEF WriteCommit, WorkerFrame
<1>2. PICK mine, s :
        /\ mine = Job.evid /\ evidence' = [evidence EXCEPT ![mine].events = worker.bytes]
        /\ s \in Done /\ s \notin Reviewed /\ s # "absent"
        /\ jobs' = [jobs EXCEPT ![worker.id].status = s]
    BY <1>1 DEF Done, Reviewed
<1>3. /\ worker.bytes # NoBytes /\ worker.id \in Imports /\ Known(worker.id)
      /\ RowOfCase(mine, jobs[worker.id].case) /\ mine # 0 /\ jobs[worker.id].evid = mine
      /\ Matches(jobs[worker.id].case, evidence[mine].hash) = {}
    BY <1>1, <1>2 DEF TypeOK, CommitInv, RefsAreKnown, WorkerRelies, RowsOfImports, Job, Report
<1>4. /\ \A i \in Imports :
            /\ jobs'[i].evid = jobs[i].evid /\ jobs'[i].case = jobs[i].case
            /\ jobs'[i].content = jobs[i].content
            /\ i # worker.id => jobs'[i].status = jobs[i].status
      /\ jobs'[worker.id].status = s
    <2>1. jobs \in [Imports -> Jobs]
        BY DEF TypeOK
    <2>2. jobs'[worker.id] = [jobs[worker.id] EXCEPT !.status = s] /\ jobs[worker.id] \in Jobs
        BY <1>2, <1>3, <2>1
    <2>3. \A i \in Imports : i # worker.id => jobs'[i] = jobs[i]
        BY <1>2, <2>1
    <2> QED BY <2>2, <2>3 DEF Jobs
<1>5. /\ DOMAIN evidence' = 1..Len(evidence) /\ DOMAIN evidence = 1..Len(evidence)
      /\ Len(evidence') = Len(evidence)
      /\ \A e \in 1..Len(evidence) :
            /\ evidence'[e].case = evidence[e].case /\ evidence'[e].hash = evidence[e].hash
            /\ e # mine => evidence'[e].events = evidence[e].events
      /\ evidence'[mine].events = worker.bytes
    <2>1. DOMAIN evidence = 1..Len(evidence) /\ \A e \in 1..Len(evidence) : evidence[e] \in Rows
        BY LenProperties DEF TypeOK
    <2>2. DOMAIN evidence' = 1..Len(evidence)
        BY <1>2, <2>1
    <2>3. Len(evidence') = Len(evidence)
        BY <2>2, LenProperties DEF TypeOK
    <2> QED BY <1>2, <1>3, <2>1, <2>2, <2>3 DEF RowOfCase, Rows
<1>6. /\ \A e \in 1..Len(evidence) : e # mine => (evidence'[e].events # NoBytes <=> Committed(e))
      /\ evidence'[mine].events # NoBytes
    BY <1>3, <1>5 DEF Committed
<1>7. OneCommitPerHash'
    <2> SUFFICES ASSUME NEW e \in DOMAIN evidence', NEW f \in DOMAIN evidence',
                        evidence'[e].events # NoBytes, evidence'[f].events # NoBytes,
                        evidence'[e].case = evidence'[f].case, evidence'[e].hash = evidence'[f].hash
                 PROVE  e = f
        BY DEF OneCommitPerHash, Committed
    <2>1. \A g \in 1..Len(evidence) :
            Committed(g) => ~(/\ evidence[g].case = evidence[mine].case
                              /\ evidence[g].hash = evidence[mine].hash)
        BY <1>3, <1>5 DEF Matches, RowOfCase
    <2>2. e \in 1..Len(evidence) /\ f \in 1..Len(evidence) /\ mine \in 1..Len(evidence)
        BY <1>3, <1>5 DEF RowOfCase
    <2>3. CASE e # mine /\ f # mine
        BY <1>5, <1>6, <2>2, <2>3 DEF CommitInv, OneCommitPerHash
    <2>4. CASE e = mine \/ f = mine
        BY <1>5, <1>6, <2>1, <2>2, <2>4
    <2> QED BY <2>3, <2>4
<1>8. \A e, k : RowOfCase(e, k) <=> e \in 1..Len(evidence') /\ evidence'[e].case = k
    BY <1>5 DEF RowOfCase
<1>9. \A e \in 1..Len(evidence) : Committed(e) => evidence'[e].events # NoBytes
    BY <1>6
<1>10. SettledPointsAtCommitted'
    <2> SUFFICES ASSUME NEW i \in Imports, jobs'[i].status \in Done \cup {"duplicate"}
                 PROVE  /\ jobs'[i].evid # 0 /\ evidence'[jobs'[i].evid].events # NoBytes
                        /\ evidence'[jobs'[i].evid].case = jobs'[i].case
        BY DEF SettledPointsAtCommitted, Committed
    <2>1. CASE i = worker.id
        BY <1>3, <1>4, <1>5, <1>6, <2>1 DEF RowOfCase
    <2>2. CASE i # worker.id
        <3>1. jobs[i].evid # 0 /\ Committed(jobs[i].evid) /\ RowOfCase(jobs[i].evid, jobs[i].case)
            BY <1>4, <2>2 DEF CommitInv, SettledPointsAtCommitted, RowsOfImports
        <3> QED BY <1>4, <1>5, <1>9, <3>1 DEF RowOfCase
    <2> QED BY <2>1, <2>2
<1>11. RefsAreKnown'
    <2>1. \A i \in Imports : Known(i) => Known(i)'
        BY <1>2, <1>4 DEF Known
    <2>2. worker'.at = "idle"
        BY <1>1 DEF IdleWorker
    <2>3. (\A p \in 1..Len(queue) : Known(queue[p].id))'
        <3>1. \A p \in 1..Len(queue) : queue[p].id \in Imports
            <4>1. \A p \in 1..Len(queue) : queue[p] \in Entries
                BY DEF TypeOK
            <4> QED BY <4>1 DEF Entries
        <3> QED BY <1>1, <2>1, <3>1 DEF CommitInv, RefsAreKnown
    <2>4. (\A c \in Clients : client[c].at # "idle" => Known(client[c].id))'
        BY <1>1, <2>1 DEF TypeOK, CommitInv, RefsAreKnown
    <2>5. (loop.at = "put" => Known(loop.id))' /\ (loop.at # "idle" => disk[loop.content] # NoBytes)'
        BY <1>1, <2>1 DEF TypeOK, CommitInv, RefsAreKnown
    <2>6. (\A i \in Imports : Known(i) => disk[jobs[i].content] # NoBytes)'
        BY <1>1, <1>3, <1>4 DEF CommitInv, RefsAreKnown, Known
    <2> QED BY <2>2, <2>3, <2>4, <2>5, <2>6 DEF RefsAreKnown
<1>12. RowsOfImports'
    <2>1. (\A i \in Imports : jobs[i].evid # 0 => RowOfCase(jobs[i].evid, jobs[i].case))'
        BY <1>4, <1>5 DEF CommitInv, RowsOfImports, RowOfCase
    <2>2. \A i \in Imports : jobs'[i].status \in Reviewed => jobs'[i].evid # 0
        BY <1>2, <1>4 DEF CommitInv, RowsOfImports
    <2>3. \A c \in Clients : client'[c].at = "mark" => jobs'[client'[c].id].evid # 0
        BY <1>1, <1>4 DEF TypeOK, CommitInv, RowsOfImports
    <2>4. (loop.at = "insert" /\ loop.dup # 0 => RowOfCase(loop.dup, loop.case) /\ Committed(loop.dup))'
        BY <1>1, <1>5, <1>9 DEF CommitInv, RowsOfImports, RowOfCase, Committed
    <2> QED BY <2>1, <2>2, <2>3, <2>4 DEF RowsOfImports
<1>13. WorkerRelies'
    BY <1>1 DEF WorkerRelies, IdleWorker
<1> QED BY <1>7, <1>10, <1>11, <1>12, <1>13 DEF CommitInv

\* Process death and recovery, and altered files.
LEMMA EnvironmentKeepsInv ==
    ASSUME TypeOK, TypeOK', CommitInv, CrashAndRecover \/ \E c \in Contents : DamageFile(c)
    PROVE  CommitInv'
<1>1. CASE CrashAndRecover
    <2> DEFINE reset == [i \in Imports |-> Reset(jobs[i])]
               pending == {i \in Imports : reset[i].status \in {"queued", "commit_queued"}}
               n == Cardinality(pending)
               kept == IF n < QueueCap THEN n ELSE QueueCap
    <2>1. \A i \in Imports :
            /\ reset[i].case = jobs[i].case /\ reset[i].content = jobs[i].content
            /\ reset[i].evid = jobs[i].evid
            /\ reset[i].status \in {jobs[i].status, "queued"}
               \/ (reset[i].status = "commit_queued" /\ jobs[i].status = "normalizing")
            /\ reset[i].status = "absent" <=> jobs[i].status = "absent"
            /\ reset[i] \in Jobs
        <3>1. \A job \in Jobs :
                /\ Reset(job).case = job.case /\ Reset(job).content = job.content
                /\ Reset(job).evid = job.evid
                /\ Reset(job).status \in {job.status, "queued"}
                   \/ (Reset(job).status = "commit_queued" /\ job.status = "normalizing")
                /\ Reset(job).status = "absent" <=> job.status = "absent"
                /\ Reset(job) \in Jobs
            <4> SUFFICES ASSUME NEW job \in Jobs
                         PROVE  /\ Reset(job).case = job.case /\ Reset(job).content = job.content
                                /\ Reset(job).evid = job.evid
                                /\ Reset(job).status \in {job.status, "queued"}
                                   \/ (Reset(job).status = "commit_queued" /\ job.status = "normalizing")
                                /\ Reset(job).status = "absent" <=> job.status = "absent"
                                /\ Reset(job) \in Jobs
                OBVIOUS
            <4> DEFINE s == IF job.status = "validating" THEN "queued"
                            ELSE IF job.status = "normalizing" THEN "commit_queued" ELSE job.status
            <4>1. Reset(job) = [job EXCEPT !.status = s]
                BY DEF Reset
            <4>2. /\ s \in Statuses
                  /\ \/ s = job.status
                     \/ s = "queued" /\ job.status = "validating"
                     \/ s = "commit_queued" /\ job.status = "normalizing"
                BY DEF Jobs, Statuses, Unsettled
            <4> HIDE DEF s
            <4>3. /\ Reset(job).status = s /\ Reset(job).case = job.case
                  /\ Reset(job).content = job.content /\ Reset(job).evid = job.evid
                BY <4>1 DEF Jobs
            <4>4. Reset(job) \in Jobs
                BY <4>1, <4>2 DEF Jobs
            <4> QED BY <4>2, <4>3, <4>4
        <3> QED BY <3>1 DEF TypeOK
    <2>2. pending \subseteq Imports /\ \A i \in pending : reset[i].status # "absent"
        OBVIOUS
    <2>3. n \in Nat /\ kept \in Nat /\ kept <= n
        <3>1. IsFiniteSet(pending)
            <4>1. IsFiniteSet(Imports) /\ pending \subseteq Imports
                BY FS_Interval, BatchConstants
            <4> QED BY <4>1, FS_Subset
        <3>2. n \in Nat
            BY <3>1, FS_CardinalityType
        <3> QED BY <3>2, BatchConstants
    <2> HIDE DEF reset, pending, n, kept
    <2>4. PICK order \in [1..n -> pending] :
            /\ queue' = [p \in 1..kept |-> Resumed(order[p], reset[order[p]])]
            /\ jobs' = [i \in Imports |->
                          IF \E p \in (kept + 1)..n : order[p] = i
                          THEN [reset[i] EXCEPT !.status = "failed", !.error = "worker_queue_full"]
                          ELSE reset[i]]
        BY <1>1 DEF CrashAndRecover, reset, pending, n, kept
    <2>5. /\ worker' = IdleWorker /\ loop' = IdleLoop /\ client' = [c \in Clients |-> IdleClient]
          /\ UNCHANGED <<evidence, disk>>
        BY <1>1 DEF CrashAndRecover
    <2>6. \A i \in Imports :
            /\ jobs'[i].case = jobs[i].case /\ jobs'[i].content = jobs[i].content
            /\ jobs'[i].evid = jobs[i].evid
            /\ jobs'[i].status = reset[i].status \/ (jobs'[i].status = "failed" /\ i \in pending)
        <3> SUFFICES ASSUME NEW i \in Imports
                     PROVE  /\ jobs'[i].case = jobs[i].case /\ jobs'[i].content = jobs[i].content
                            /\ jobs'[i].evid = jobs[i].evid
                            /\ jobs'[i].status = reset[i].status
                               \/ (jobs'[i].status = "failed" /\ i \in pending)
            OBVIOUS
        <3>1. CASE \E p \in (kept + 1)..n : order[p] = i
            <4>1. PICK p \in (kept + 1)..n : order[p] = i
                BY <3>1
            <4>3. p \in 1..n
                BY <2>3
            <4>4. i \in pending
                BY <2>4, <4>1, <4>3
            <4>2. jobs'[i] = [reset[i] EXCEPT !.status = "failed", !.error = "worker_queue_full"]
                BY <2>4, <3>1
            <4> QED BY <2>1, <4>2, <4>4 DEF Jobs
        <3>2. CASE ~\E p \in (kept + 1)..n : order[p] = i
            <4>1. jobs'[i] = IF \E p \in (kept + 1)..n : order[p] = i
                             THEN [reset[i] EXCEPT !.status = "failed", !.error = "worker_queue_full"]
                             ELSE reset[i]
                BY <2>4, Zenon
            <4>2. jobs'[i] = reset[i]
                BY <3>2, <4>1, Zenon
            <4> QED BY <2>1, <4>2
        <3> QED BY <3>1, <3>2
    <2>7. QuietStep
        BY <2>1, <2>2, <2>5, <2>6 DEF QuietStep, Known, Done, Reviewed, CommitInv, RowsOfImports
    <2>8. \A p \in 1..Len(queue') : Known(queue'[p].id)
        <3>1. Len(queue') = kept
            <4>1. DOMAIN queue' = 1..kept
                BY <2>4
            <4> QED BY <2>3, <4>1, LenProperties DEF TypeOK
        <3>2. \A p \in 1..kept : p \in 1..n
            BY <2>3
        <3>3. \A p \in 1..kept : order[p] \in pending /\ queue'[p] = Resumed(order[p], reset[order[p]])
            BY <2>4, <3>2
        <3>4. ASSUME NEW i, NEW job PROVE Resumed(i, job).id = i
            <4>1. CASE job.status = "queued"
                BY <4>1 DEF Resumed, Entry
            <4>2. CASE job.status # "queued"
                BY <4>2 DEF Resumed, Entry
            <4> QED BY <4>1, <4>2
        <3>5. \A p \in 1..kept : queue'[p].id \in pending
            BY <3>3, <3>4
        <3>6. \A i \in pending : Known(i)
            BY <2>1, <2>2 DEF Known
        <3> QED BY <3>1, <3>5, <3>6
    <2>9. QuietThreads
        BY <2>5, <2>8 DEF QuietThreads, IdleWorker, IdleLoop, IdleClient
    <2>10. WorkerRelies'
        BY <2>5 DEF WorkerRelies, IdleWorker
    <2> QED BY <2>7, <2>9, <2>10, QuietKeepsInv
<1>2. ASSUME NEW c \in Contents, DamageFile(c) PROVE CommitInv'
    <2>1. UNCHANGED <<jobs, evidence, queue, worker, loop, client>>
        BY <1>2 DEF DamageFile
    <2>2. QuietStep
        BY <2>1 DEF QuietStep, Known, CommitInv, RowsOfImports
    <2>3. \A d \in Contents : disk[d] # NoBytes => disk'[d] # NoBytes
        BY <1>2, FilesAreBytes DEF DamageFile, TypeOK
    <2>4. QuietThreads
        BY <2>1, <2>3 DEF TypeOK, CommitInv, RefsAreKnown, RowsOfImports, QuietThreads
    <2> QED BY <2>1, <2>2, <2>4, QuietKeepsInv
<1> QED BY <1>1, <1>2

LEMMA StepKeepsInv == TypeOK /\ TypeOK' /\ CommitInv /\ [Next]_vars => CommitInv'
<1> SUFFICES ASSUME TypeOK, TypeOK', CommitInv, [Next]_vars PROVE CommitInv'
    OBVIOUS
<1>1. CASE (\E k \in Cases, c \in Contents : BeginUpload(k, c)) \/ UploadStep
    BY <1>1, UploadKeepsInv
<1>2. CASE \/ \E c \in Clients, i \in Imports, allow \in BOOLEAN : ReadForCommit(c, i, allow)
           \/ \E c \in Clients, i \in Imports : ReadForCancel(c, i)
           \/ \E c \in Clients : ClientStep(c)
    BY <1>2, ClientKeepsInv
<1>3. CASE WorkerStep
    <2>1. CASE TakeEntry \/ ClaimValidation \/ ReadAndValidate \/ ClaimCommit \/ PrepareCommit
        BY <2>1, WorkerQuietKeepsInv
    <2>2. CASE ValidationRaises \/ RefuseCommit \/ FailHashCheck \/ CommitRaises
        <3>1. /\ worker.at # "idle"
              /\ \E s \in Statuses \ (Done \cup Reviewed \cup {"absent", "duplicate"}), e \in Errors :
                    Finish(s, e)
            BY <2>2 DEF ValidationRaises, RefuseCommit, FailHashCheck, CommitRaises,
                        Statuses, Errors, Done, Reviewed
        <3> QED BY <3>1, WorkerQuietKeepsInv
    <2> QED BY <1>3, <2>1, <2>2, StoreKeepsInv, RecordAndYieldKeepInv, WriteKeepsInv DEF WorkerStep
<1>4. CASE CrashAndRecover \/ \E c \in Contents : DamageFile(c)
    BY <1>4, EnvironmentKeepsInv
<1>5. CASE UNCHANGED vars
    <2>1. UNCHANGED <<jobs, evidence, disk, queue, worker, loop, client>>
        BY <1>5 DEF vars
    <2>2. QuietStep
        BY <2>1 DEF QuietStep, Known, CommitInv, RowsOfImports
    <2>3. QuietThreads
        BY <2>1 DEF CommitInv, RefsAreKnown, RowsOfImports, QuietThreads
    <2> QED BY <2>1, <2>2, <2>3, QuietKeepsInv
<1> QED BY <1>1, <1>2, <1>3, <1>4, <1>5 DEF Next

\* CommitInv is inductive relative to the types.
THEOREM CommitInvariant == Spec => []CommitInv
<1>1. Spec => []TypeOK
    BY TypeCorrect
<1> QED BY <1>1, CommitInvInit, StepKeepsInv, PTL DEF Spec

\* No case ever holds two committed evidence records with the same hash,
\* whatever the threads, restarts and altered files do.
THEOREM EvidenceCommittedOnce == Spec => []OneCommitPerHash
<1>1. CommitInv => OneCommitPerHash
    BY DEF CommitInv
<1> QED BY <1>1, CommitInvariant, PTL

\* An import reported as completed or as a duplicate names committed evidence
\* of its own case.
THEOREM SettledImportsAreCommitted == Spec => []SettledPointsAtCommitted
<1>1. CommitInv => SettledPointsAtCommitted
    BY DEF CommitInv
<1> QED BY <1>1, CommitInvariant, PTL
-----------------------------------------------------------------------------
(***************************************************************************)
(* Consent: evidence is committed only as it was validated and as the      *)
(* investigator asked for it, and no import waits for nobody.              *)
(***************************************************************************)

(* What the writes of the table do, import by import. *)

LEMMA SetJobDoes ==
    ASSUME TypeOK, NEW i \in Imports, NEW s, NEW e, SetJob(i, s, e)
    PROVE  /\ \A j \in Imports : /\ jobs'[j].evid = jobs[j].evid /\ jobs'[j].allow = jobs[j].allow
                                 /\ jobs'[j].case = jobs[j].case /\ jobs'[j].content = jobs[j].content
                                 /\ j # i => jobs'[j] = jobs[j]
           /\ jobs'[i].status = s
<1>1. jobs \in [Imports -> Jobs] /\ jobs[i] \in Jobs
  BY DEF TypeOK
<1>2. jobs'[i] = [jobs[i] EXCEPT !.status = s, !.error = e]
  BY <1>1 DEF SetJob
<1>3. \A j \in Imports : j # i => jobs'[j] = jobs[j]
  BY <1>1 DEF SetJob
<1> QED BY <1>1, <1>2, <1>3 DEF Jobs

LEMMA EnqueueDoes ==
    ASSUME TypeOK, NEW op, NEW i \in Imports, NEW allow, Enqueue(op, i, allow)
    PROVE  /\ \A j \in Imports : /\ jobs'[j].evid = jobs[j].evid /\ jobs'[j].allow = jobs[j].allow
                                 /\ j # i => jobs'[j] = jobs[j]
           /\ \/ jobs' = jobs /\ queue' = Append(queue, Entry(op, i, allow))
              \/ jobs'[i].status = "failed" /\ queue' = queue
BY SetJobDoes DEF Enqueue

\* The queue after an entry was put.
LEMMA Appended ==
    ASSUME TypeOK, NEW e, queue' = Append(queue, e)
    PROVE  /\ Len(queue) \in Nat /\ Len(queue') = Len(queue) + 1
           /\ DOMAIN queue = 1..Len(queue) /\ DOMAIN queue' = 1..(Len(queue) + 1)
           /\ queue'[Len(queue) + 1] = e
           /\ \A p \in 1..Len(queue) : queue'[p] = queue[p] /\ p \in 1..(Len(queue) + 1)
           /\ \A p \in 1..(Len(queue) + 1) : p \in 1..Len(queue) \/ p = Len(queue) + 1
BY DEF TypeOK

LEMMA QueueTyped ==
    ASSUME TypeOK
    PROVE  /\ DOMAIN queue = 1..Len(queue) /\ Len(queue) \in Nat
           /\ \A p \in 1..Len(queue) : queue[p] \in Entries /\ queue[p].id \in Imports
                                       /\ queue[p].op \in {"validate", "commit"}
<1>1. DOMAIN queue = 1..Len(queue) /\ Len(queue) \in Nat /\ \A p \in 1..Len(queue) : queue[p] \in Entries
  BY DEF TypeOK
<1> QED BY <1>1 DEF Entries

\* The queue after the worker took an entry.
LEMMA Taken ==
    ASSUME TypeOK, TakeEntry
    PROVE  /\ 1 \in 1..Len(queue) /\ Head(queue) = queue[1]
           /\ Len(queue') = Len(queue) - 1 /\ DOMAIN queue' = 1..(Len(queue) - 1)
           /\ \A p \in 1..(Len(queue) - 1) : queue'[p] = queue[p + 1] /\ p + 1 \in 1..Len(queue)
           /\ \A p \in 1..Len(queue) : p = 1 \/ (p - 1 \in 1..(Len(queue) - 1) /\ queue'[p - 1] = queue[p])
           /\ worker'.at = queue[1].op /\ worker'.id = queue[1].id
           /\ worker'.seen = jobs[queue[1].id].status /\ worker'.allow = queue[1].allow
           /\ worker.at = "idle" /\ UNCHANGED <<jobs, evidence, disk, loop, client, asked, faults>>
<1>1. queue # << >> /\ queue \in Seq(Entries) /\ queue' = Tail(queue)
  BY DEF TakeEntry, TypeOK
<1>2. Len(queue) \in Nat /\ Len(queue) # 0
  BY <1>1
<1>3. 1 \in 1..Len(queue) /\ Head(queue) = queue[1]
  BY <1>1, <1>2
<1>4. Len(queue') = Len(queue) - 1 /\ DOMAIN queue' = 1..(Len(queue) - 1)
      /\ \A p \in 1..(Len(queue) - 1) : queue'[p] = queue[p + 1]
  BY <1>1, <1>2
<1>5. /\ \A p \in 1..(Len(queue) - 1) : p + 1 \in 1..Len(queue)
      /\ \A p \in 1..Len(queue) : p = 1 \/ (p - 1 \in 1..(Len(queue) - 1) /\ (p - 1) + 1 = p)
  BY <1>2
<1>6. worker' = [IdleWorker EXCEPT !.at = queue[1].op, !.id = queue[1].id,
                       !.seen = jobs[queue[1].id].status, !.allow = queue[1].allow]
  BY <1>3 DEF TakeEntry
<1>7. /\ worker'.at = queue[1].op /\ worker'.id = queue[1].id
      /\ worker'.seen = jobs[queue[1].id].status /\ worker'.allow = queue[1].allow
  BY <1>6 DEF IdleWorker
<1>8. \A p \in 1..Len(queue) : p = 1 \/ (p - 1 \in 1..(Len(queue) - 1) /\ queue'[p - 1] = queue[p])
  <2> SUFFICES ASSUME NEW p \in 1..Len(queue), p # 1
               PROVE  p - 1 \in 1..(Len(queue) - 1) /\ queue'[p - 1] = queue[p]
    OBVIOUS
  <2>1. PICK q : q = p - 1 /\ q \in 1..(Len(queue) - 1) /\ q + 1 = p
    BY <1>5
  <2> QED BY <1>4, <2>1
<1> QED BY <1>3, <1>4, <1>5, <1>7, <1>8 DEF TakeEntry, WorkerFrame

\* What recovery leaves, import by import and entry by entry.
LEMMA RecoverDoes ==
    ASSUME TypeOK, TypeOK', CrashAndRecover
    PROVE  /\ \A i \in Imports :
                /\ jobs'[i].evid = jobs[i].evid /\ jobs'[i].allow = jobs[i].allow
                /\ \/ jobs'[i].status = "failed"
                   \/ jobs'[i].status = jobs[i].status
                   \/ jobs'[i].status = "queued" /\ jobs[i].status = "validating"
                   \/ jobs'[i].status = "commit_queued" /\ jobs[i].status = "normalizing"
                /\ jobs'[i].status \in {"queued", "commit_queued"} =>
                     \E p \in 1..Len(queue') : queue'[p].id = i
           /\ \A p \in 1..Len(queue') :
                /\ queue'[p].id \in Imports
                /\ \/ queue'[p].op = "validate" /\ jobs[queue'[p].id].status \in {"queued", "validating"}
                   \/ /\ queue'[p].op = "commit" /\ queue'[p].allow = jobs[queue'[p].id].allow
                      /\ jobs[queue'[p].id].status \in {"commit_queued", "normalizing"}
           /\ \A p, q \in 1..Len(queue') : queue'[p].id = queue'[q].id => p = q
           /\ worker'.at = "idle" /\ loop'.at = "idle"
           /\ \A c \in Clients : client'[c].at = "idle"
           /\ UNCHANGED <<evidence, disk, asked>>
<1> DEFINE reset == [i \in Imports |-> Reset(jobs[i])]
           pending == {i \in Imports : reset[i].status \in {"queued", "commit_queued"}}
           n == Cardinality(pending)
           kept == IF n < QueueCap THEN n ELSE QueueCap
<1>1. \A i \in Imports :
        /\ reset[i] \in Jobs /\ reset[i].evid = jobs[i].evid /\ reset[i].allow = jobs[i].allow
        /\ \/ reset[i].status = jobs[i].status /\ jobs[i].status \notin {"validating", "normalizing"}
           \/ reset[i].status = "queued" /\ jobs[i].status = "validating"
           \/ reset[i].status = "commit_queued" /\ jobs[i].status = "normalizing"
        /\ i \in pending <=> reset[i].status \in {"queued", "commit_queued"}
  <2> SUFFICES ASSUME NEW i \in Imports
               PROVE  /\ reset[i] \in Jobs /\ reset[i].evid = jobs[i].evid /\ reset[i].allow = jobs[i].allow
                      /\ \/ reset[i].status = jobs[i].status /\ jobs[i].status \notin {"validating", "normalizing"}
                         \/ reset[i].status = "queued" /\ jobs[i].status = "validating"
                         \/ reset[i].status = "commit_queued" /\ jobs[i].status = "normalizing"
    OBVIOUS
  <2>1. jobs[i] \in Jobs
    BY DEF TypeOK
  <2>2. PICK s : s = IF jobs[i].status = "validating" THEN "queued"
                     ELSE IF jobs[i].status = "normalizing" THEN "commit_queued" ELSE jobs[i].status
    OBVIOUS
  <2>3. reset[i] = [jobs[i] EXCEPT !.status = s]
    BY <2>2 DEF Reset
  <2>4. s \in Statuses
    BY <2>1, <2>2 DEF Jobs, Statuses, Unsettled
  <2>5. /\ reset[i] \in Jobs /\ reset[i].evid = jobs[i].evid /\ reset[i].allow = jobs[i].allow
        /\ reset[i].status = s
    BY <2>1, <2>3, <2>4 DEF Jobs
  <2> QED BY <2>2, <2>5
<1>2. pending \subseteq Imports /\ pending \subseteq Int /\ IsFiniteSet(pending) /\ n \in Nat
  <2>1. IsFiniteSet(Imports) /\ pending \subseteq Imports /\ MaxImports \in Int
    BY FS_Interval, BatchConstants
  <2>2. IsFiniteSet(pending)
    BY <2>1, FS_Subset
  <2> QED BY <2>1, <2>2, FS_CardinalityType
<1>3. kept \in Nat /\ kept <= n
  BY <1>2, BatchConstants
<1>4. n = Cardinality(pending)
  OBVIOUS
<1> HIDE DEF reset, pending, n, kept
<1>5. PICK order \in [1..n -> pending] :
        /\ \A i \in pending : \E p \in 1..n : order[p] = i
        /\ \A a, b \in 1..n : a < b => order[a] < order[b]
        /\ queue' = [p \in 1..kept |-> Resumed(order[p], reset[order[p]])]
        /\ jobs' = [i \in Imports |->
                      IF \E p \in (kept + 1)..n : order[p] = i
                      THEN [reset[i] EXCEPT !.status = "failed", !.error = "worker_queue_full"]
                      ELSE reset[i]]
  BY DEF CrashAndRecover, reset, n, kept, pending
<1>6. /\ \A x \in pending : \E p \in 1..n : order[p] = x
      /\ \A a, b \in 1..n : order[a] = order[b] => a = b
  <2>1. PICK m \in Nat, P \in SUBSET Int : m = n /\ P = pending
    BY <1>2
  <2>2. PICK f \in [1..m -> P] : f = order
    BY <1>5, <2>1
  <2>3. \A a, b \in 1..m : a < b => f[a] < f[b]
    BY <1>5, <2>1, <2>2
  <2>4. \A a \in 1..m : f[a] \in Int
    BY <2>2
  <2>5. \A a, b \in 1..m : f[a] = f[b] => a = b
    BY <2>3, <2>4
  <2> QED BY <1>5, <2>1, <2>2, <2>5
<1>7. ASSUME NEW i \in Imports
      PROVE  /\ jobs'[i].evid = jobs[i].evid /\ jobs'[i].allow = jobs[i].allow
             /\ \/ jobs'[i].status = "failed"
                \/ jobs'[i].status = reset[i].status /\ ~\E p \in (kept + 1)..n : order[p] = i
  <2>1. CASE \E p \in (kept + 1)..n : order[p] = i
    <3>1. jobs'[i] = [reset[i] EXCEPT !.status = "failed", !.error = "worker_queue_full"]
      BY <1>5, <2>1
    <3> QED BY <1>1, <3>1 DEF Jobs
  <2>2. CASE ~\E p \in (kept + 1)..n : order[p] = i
    <3>1. jobs'[i] = reset[i]
      BY <1>5, <2>2
    <3> QED BY <1>1, <2>2, <3>1
  <2> QED BY <2>1, <2>2
<1>8. Len(queue') = kept
  <2>1. DOMAIN queue' = 1..kept /\ queue' \in Seq(Entries)
    BY <1>5 DEF TypeOK
  <2> QED BY <1>3, <2>1, LenProperties
<1>9. \A p \in 1..kept : p \in 1..n
  BY <1>2, <1>3
<1>10. ASSUME NEW p \in 1..kept
       PROVE  /\ order[p] \in pending /\ queue'[p].id = order[p]
              /\ queue'[p].op = IF reset[order[p]].status = "queued" THEN "validate" ELSE "commit"
              /\ reset[order[p]].status # "queued" => queue'[p].allow = reset[order[p]].allow
  <2>1. queue'[p] = Resumed(order[p], reset[order[p]]) /\ order[p] \in pending
    BY <1>5, <1>9
  <2>2. CASE reset[order[p]].status = "queued"
    BY <2>1, <2>2 DEF Resumed, Entry
  <2>3. CASE reset[order[p]].status # "queued"
    BY <2>1, <2>3 DEF Resumed, Entry
  <2> QED BY <2>1, <2>2, <2>3
<1>11. ASSUME NEW i \in Imports, jobs'[i].status \in {"queued", "commit_queued"}
       PROVE  \E p \in 1..Len(queue') : queue'[p].id = i
  <2>1. i \in pending /\ ~\E p \in (kept + 1)..n : order[p] = i
    BY <1>1, <1>7, <1>11
  <2>2. PICK p \in 1..n : order[p] = i
    BY <1>6, <2>1
  <2>3. p \in 1..kept \/ p \in (kept + 1)..n
    BY <1>2, <1>3
  <2>4. p \in 1..kept
    BY <2>1, <2>2, <2>3
  <2> QED BY <1>8, <1>10, <2>2, <2>4
<1>12. ASSUME NEW p \in 1..kept
       PROVE  /\ queue'[p].id \in Imports
              /\ \/ queue'[p].op = "validate" /\ jobs[queue'[p].id].status \in {"queued", "validating"}
                 \/ /\ queue'[p].op = "commit" /\ queue'[p].allow = jobs[queue'[p].id].allow
                    /\ jobs[queue'[p].id].status \in {"commit_queued", "normalizing"}
  <2>1. PICK i \in Imports : i = order[p] /\ i \in pending
    BY <1>2, <1>10
  <2> QED BY <1>1, <1>10, <2>1
<1>13. \A p, q \in 1..kept : queue'[p].id = queue'[q].id => p = q
  BY <1>6, <1>9, <1>10
<1>14. /\ worker'.at = "idle" /\ loop'.at = "idle" /\ \A c \in Clients : client'[c].at = "idle"
       /\ UNCHANGED <<evidence, disk, asked>>
  BY DEF CrashAndRecover, IdleWorker, IdleLoop, IdleClient
<1>15. \A i \in Imports :
          /\ jobs'[i].evid = jobs[i].evid /\ jobs'[i].allow = jobs[i].allow
          /\ \/ jobs'[i].status = "failed"
             \/ jobs'[i].status = jobs[i].status
             \/ jobs'[i].status = "queued" /\ jobs[i].status = "validating"
             \/ jobs'[i].status = "commit_queued" /\ jobs[i].status = "normalizing"
  BY <1>1, <1>7
<1> QED BY <1>8, <1>11, <1>12, <1>13, <1>14, <1>15

-----------------------------------------------------------------------------
(* No import waits for nobody. *)

Waiting == {"queued", "commit_queued"}

\* Whoever held an import still does, or the import stopped waiting, and no
\* import starts to wait without a holder.
LEMMA HandedOver ==
    ASSUME TypeOK, QueuedIsHeld,
           \A i \in Imports : jobs[i].status \notin Waiting /\ jobs'[i].status \in Waiting => Holding(i)',
           \A i \in Imports : jobs'[i].status \in Waiting =>
                /\ \A p \in 1..Len(queue) : queue[p].id = i => Holding(i)'
                /\ worker.at # "idle" /\ worker.id = i => Holding(i)'
                /\ loop.at = "put" /\ loop.id = i => Holding(i)'
                /\ \A c \in Clients : client[c].at = "put" /\ client[c].id = i => Holding(i)'
    PROVE  QueuedIsHeld'
<1> SUFFICES ASSUME NEW i \in Imports, jobs'[i].status \in Waiting PROVE Holding(i)'
  BY DEF QueuedIsHeld, Waiting
<1>1. jobs[i].status \in Waiting => Holding(i)
  BY DEF QueuedIsHeld, Waiting
<1>2. DOMAIN queue = 1..Len(queue)
  BY QueueTyped
<1> QED BY <1>1, <1>2 DEF Holding

\* Steps of which the holders keep what they hold.
LEMMA StillHeld ==
    ASSUME TypeOK, QueuedIsHeld,
           \A i \in Imports : jobs'[i].status \in Waiting => jobs[i].status \in Waiting,
           \A p \in 1..Len(queue) : p \in DOMAIN queue' /\ queue'[p] = queue[p],
           worker.at # "idle" => \/ worker'.at # "idle" /\ worker'.id = worker.id
                                 \/ jobs'[worker.id].status \notin Waiting,
           loop.at = "put" => loop' = loop,
           \A c \in Clients : client[c].at = "put" => client'[c] = client[c]
    PROVE  QueuedIsHeld'
<1>1. \A i, p : p \in 1..Len(queue) /\ queue[p].id = i => Holding(i)'
  BY DEF Holding
<1>2. \A i : worker.at # "idle" /\ worker.id = i /\ jobs'[i].status \in Waiting => Holding(i)'
  BY DEF Holding
<1>3. \A i : /\ loop.at = "put" /\ loop.id = i => Holding(i)'
             /\ \A c \in Clients : client[c].at = "put" /\ client[c].id = i => Holding(i)'
  BY DEF Holding
<1> QED BY <1>1, <1>2, <1>3, HandedOver

\* An entry is put, or its import fails.
LEMMA PutHolds ==
    ASSUME TypeOK, QueuedIsHeld, NEW op, NEW i \in Imports, NEW allow, Enqueue(op, i, allow),
           worker' = worker,
           loop.at = "put" => loop' = loop \/ loop.id = i,
           \A c \in Clients : client[c].at = "put" => client'[c] = client[c] \/ client[c].id = i
    PROVE  QueuedIsHeld'
<1>1. jobs'[i].status \in Waiting => Holding(i)'
  <2>1. CASE jobs' = jobs /\ queue' = Append(queue, Entry(op, i, allow))
    <3>1. Len(queue) + 1 \in DOMAIN queue' /\ queue'[Len(queue) + 1] = Entry(op, i, allow)
      BY <2>1, Appended
    <3> QED BY <3>1 DEF Holding, Entry
  <2>2. CASE jobs'[i].status = "failed"
    BY <2>2 DEF Waiting
  <2>3. \/ jobs' = jobs /\ queue' = Append(queue, Entry(op, i, allow))
        \/ jobs'[i].status = "failed"
    BY EnqueueDoes
  <2> QED BY <2>1, <2>2, <2>3
<1>2. \A j \in Imports : jobs'[j].status \in Waiting => jobs[j].status \in Waiting \/ j = i
  BY EnqueueDoes
<1>3. \A p \in 1..Len(queue) : p \in DOMAIN queue' /\ queue'[p] = queue[p]
  <2>1. CASE queue' = Append(queue, Entry(op, i, allow))
    BY <2>1, Appended
  <2>2. CASE queue' = queue
    BY <2>2, QueueTyped
  <2>3. queue' = Append(queue, Entry(op, i, allow)) \/ queue' = queue
    BY EnqueueDoes
  <2> QED BY <2>1, <2>2, <2>3
<1>4. \A j, p : p \in 1..Len(queue) /\ queue[p].id = j => Holding(j)'
  BY <1>3 DEF Holding
<1>5. \A j : worker.at # "idle" /\ worker.id = j => Holding(j)'
  BY DEF Holding
<1>6. \A j : loop.at = "put" /\ loop.id = j => j = i \/ Holding(j)'
  BY DEF Holding
<1>7. \A j : \A c \in Clients : client[c].at = "put" /\ client[c].id = j => j = i \/ Holding(j)'
  BY DEF Holding
<1> QED BY <1>1, <1>2, <1>4, <1>5, <1>6, <1>7, HandedOver

LEMMA UploadHolds ==
    ASSUME TypeOK, TypeOK', CommitInv, QueuedIsHeld,
           (\E k \in Cases, c \in Contents : BeginUpload(k, c)) \/ UploadStep
    PROVE  QueuedIsHeld'
<1>0. DOMAIN queue = 1..Len(queue)
  BY QueueTyped
<1>1. CASE (\E k \in Cases, c \in Contents : BeginUpload(k, c)) \/ FinishWrite \/ LookUpDuplicate
  BY <1>0, <1>1, StillHeld DEF BeginUpload, FinishWrite, LookUpDuplicate, UploadFrame
<1>2. CASE QueueValidation
  <2>1. /\ Enqueue("validate", loop.id, FALSE) /\ loop.id \in Imports /\ UNCHANGED <<worker, client>>
    BY <1>2 DEF QueueValidation, UploadFrame, TypeOK
  <2> QED BY <2>1, PutHolds
<1>3. CASE InsertJob
  <2>1. PICK i \in Imports :
          /\ ~Known(i)
          /\ jobs' = [jobs EXCEPT ![i] =
                 [NoJob EXCEPT !.case = loop.case, !.content = loop.content, !.evid = loop.dup,
                               !.status = IF loop.dup = 0 THEN "queued" ELSE "duplicate"]]
          /\ loop' = IF loop.dup = 0 THEN [loop EXCEPT !.at = "put", !.id = i] ELSE IdleLoop
    BY <1>3 DEF InsertJob, NewImport, Known
  <2>2. /\ \A j \in Imports : j # i => jobs'[j] = jobs[j]
        /\ jobs'[i].status = IF loop.dup = 0 THEN "queued" ELSE "duplicate"
    BY <2>1 DEF TypeOK, NoJob
  <2>3. UNCHANGED <<queue, worker, client>> /\ loop.at = "insert"
    BY <1>3 DEF InsertJob, UploadFrame
  <2>4. jobs'[i].status \in Waiting => Holding(i)'
    <3>1. loop.dup = 0 => loop'.at = "put" /\ loop'.id = i
      BY <2>1 DEF TypeOK
    <3> QED BY <2>2, <3>1 DEF Holding, Waiting
  <2>5. \A j, p : p \in 1..Len(queue) /\ queue[p].id = j => Holding(j)'
    BY <1>0, <2>3 DEF Holding
  <2>6. \A j : worker.at # "idle" /\ worker.id = j => Holding(j)'
    BY <2>3 DEF Holding
  <2>7. \A j : \A c \in Clients : client[c].at = "put" /\ client[c].id = j => Holding(j)'
    BY <2>3 DEF Holding
  <2> QED BY <2>2, <2>3, <2>4, <2>5, <2>6, <2>7, HandedOver
<1> QED BY <1>1, <1>2, <1>3 DEF UploadStep

LEMMA ClientHolds ==
    ASSUME TypeOK, TypeOK', QueuedIsHeld, NEW c \in Clients,
           \/ \E i \in Imports, allow \in BOOLEAN : ReadForCommit(c, i, allow)
           \/ \E i \in Imports : ReadForCancel(c, i)
           \/ ClientStep(c)
    PROVE  QueuedIsHeld'
<1>0. DOMAIN queue = 1..Len(queue) /\ client[c].id \in Imports
      /\ client \in [Clients -> [at : {"idle", "mark", "put", "cancel"}, id : Imports, allow : BOOLEAN]]
  BY QueueTyped DEF TypeOK
<1>1. ASSUME NEW i \in Imports, NEW allow \in BOOLEAN, ReadForCommit(c, i, allow) PROVE QueuedIsHeld'
  BY <1>0, <1>1, StillHeld DEF ReadForCommit, Step, ClientFrame
<1>2. ASSUME NEW i \in Imports, ReadForCancel(c, i) PROVE QueuedIsHeld'
  BY <1>0, <1>2, StillHeld DEF ReadForCancel, Step, ClientFrame
<1>3. CASE MarkCommitQueued(c)
  <2>1. PICK i \in Imports : i = client[c].id
    BY <1>0
  <2>2. \A j \in Imports : j # i => jobs'[j] = jobs[j]
    BY <1>3, <2>1 DEF MarkCommitQueued, TypeOK
  <2>3. UNCHANGED <<queue, worker, loop>> /\ client[c].at = "mark"
    BY <1>3 DEF MarkCommitQueued, ClientFrame
  <2>4. client'[c].at = "put" /\ client'[c].id = i /\ \A e \in Clients : e # c => client'[e] = client[e]
    BY <1>0, <1>3, <2>1 DEF MarkCommitQueued, Step
  <2>5. Holding(i)'
    BY <2>4 DEF Holding
  <2>6. \A j, p : p \in 1..Len(queue) /\ queue[p].id = j => Holding(j)'
    BY <1>0, <2>3 DEF Holding
  <2>7. \A j : /\ worker.at # "idle" /\ worker.id = j => Holding(j)'
               /\ loop.at = "put" /\ loop.id = j => Holding(j)'
    BY <2>3 DEF Holding
  <2>8. \A j : \A e \in Clients : client[e].at = "put" /\ client[e].id = j => Holding(j)'
    BY <2>3, <2>4 DEF Holding
  <2>9. \A j \in Imports : jobs[j].status \notin Waiting /\ jobs'[j].status \in Waiting => Holding(j)'
    <3> SUFFICES ASSUME NEW j \in Imports, j # i PROVE jobs'[j] = jobs[j]
      BY <2>5
    <3> QED BY <2>2
  <2>10. \A j \in Imports : jobs'[j].status \in Waiting =>
            /\ \A p \in 1..Len(queue) : queue[p].id = j => Holding(j)'
            /\ worker.at # "idle" /\ worker.id = j => Holding(j)'
            /\ loop.at = "put" /\ loop.id = j => Holding(j)'
            /\ \A e \in Clients : client[e].at = "put" /\ client[e].id = j => Holding(j)'
    BY <2>6, <2>7, <2>8
  <2> QED BY <2>9, <2>10, HandedOver
<1>4. CASE QueueCommit(c)
  <2>1. PICK i, allow : i \in Imports /\ i = client[c].id /\ Enqueue("commit", i, allow)
    BY <1>0, <1>4 DEF QueueCommit
  <2>2. UNCHANGED <<worker, loop>> /\ \A e \in Clients : e # c => client'[e] = client[e]
    BY <1>0, <1>4 DEF QueueCommit, ClientFrame
  <2> QED BY <2>1, <2>2, PutHolds
<1>5. CASE WriteCancelled(c)
  <2>1. PICK i \in Imports : i = client[c].id /\ SetJob(i, "cancelled", "none")
    BY <1>0, <1>5 DEF WriteCancelled
  <2>2. UNCHANGED <<queue, worker, loop>> /\ client[c].at = "cancel" /\ \A e \in Clients : e # c => client'[e] = client[e]
    BY <1>0, <1>5 DEF WriteCancelled, ClientFrame
  <2>3. \A j \in Imports : jobs'[j].status \in Waiting => jobs[j].status \in Waiting
    BY <2>1, SetJobDoes DEF Waiting
  <2> QED BY <1>0, <2>2, <2>3, StillHeld
<1> QED BY <1>1, <1>2, <1>3, <1>4, <1>5 DEF ClientStep

LEMMA WorkerHolds ==
    ASSUME TypeOK, TypeOK', QueuedIsHeld, WorkerStep
    PROVE  QueuedIsHeld'
<1>0. DOMAIN queue = 1..Len(queue) /\ worker.id \in Imports /\ jobs \in [Imports -> Jobs]
  BY QueueTyped DEF TypeOK
<1>1. CASE TakeEntry
  <2>1. \A i, p : p \in 1..Len(queue) /\ queue[p].id = i => Holding(i)'
    <3> SUFFICES ASSUME NEW i, NEW p \in 1..Len(queue), queue[p].id = i PROVE Holding(i)'
      OBVIOUS
    <3>1. CASE p = 1
      <4>1. queue[1].op \in {"validate", "commit"}
        BY <3>1, QueueTyped
      <4> QED BY <1>1, <3>1, <4>1, Taken DEF Holding
    <3>2. CASE p # 1
      <4>1. PICK q : q \in DOMAIN queue' /\ queue'[q] = queue[p]
        BY <1>1, <3>2, Taken
      <4> QED BY <4>1 DEF Holding
    <3> QED BY <3>1, <3>2
  <2>2. \A i \in Imports : jobs'[i] = jobs[i]
    BY <1>1 DEF TakeEntry, WorkerFrame
  <2>3. /\ worker.at = "idle"
        /\ \A i : /\ loop.at = "put" /\ loop.id = i => Holding(i)'
                  /\ \A c \in Clients : client[c].at = "put" /\ client[c].id = i => Holding(i)'
    BY <1>1 DEF TakeEntry, WorkerFrame, Holding
  <2> QED BY <2>1, <2>2, <2>3, HandedOver
\* The worker sets the status of its import to one in which nobody waits.
<1>2. ASSUME NEW s, s \notin Waiting, jobs'[worker.id].status = s,
             \A j \in Imports : j # worker.id => jobs'[j] = jobs[j],
             UNCHANGED <<queue, loop, client>>
      PROVE  QueuedIsHeld'
  <2>1. \A j \in Imports : jobs'[j].status \in Waiting => jobs[j].status \in Waiting
    BY <1>2
  <2> QED BY <1>0, <1>2, <2>1, StillHeld
<1>3. ASSUME NEW s, NEW e, s \notin Waiting, SetJob(worker.id, s, e), UNCHANGED <<queue, loop, client>>
      PROVE  QueuedIsHeld'
  BY <1>0, <1>2, <1>3, SetJobDoes
<1>4. CASE ClaimValidation \/ ClaimCommit
  BY <1>3, <1>4 DEF ClaimValidation, ClaimCommit, WorkerFrame, Waiting
<1>5. CASE ValidationRaises \/ RefuseCommit \/ FailHashCheck \/ CommitRaises
  BY <1>3, <1>5 DEF ValidationRaises, RefuseCommit, FailHashCheck, CommitRaises, Finish, WorkerFrame, Waiting
<1>6. CASE ReadAndValidate \/ StoreValidation \/ PrepareCommit
  <2>1. UNCHANGED <<jobs, queue, loop, client>>
    BY <1>6 DEF ReadAndValidate, StoreValidation, PrepareCommit, WorkerFrame
  <2>2. \/ worker'.at # "idle" /\ worker'.id = worker.id
        \/ jobs'[worker.id].status \notin Waiting
    BY <1>6, <2>1 DEF ReadAndValidate, StoreValidation, PrepareCommit, Job, Waiting, TypeOK
  <2> QED BY <1>0, <2>1, <2>2, StillHeld
<1>7. ASSUME NEW s, NEW e, s \notin Waiting, UNCHANGED <<queue, loop, client>>,
             \/ jobs' = [jobs EXCEPT ![worker.id].evid = e, ![worker.id].status = s]
             \/ jobs' = [jobs EXCEPT ![worker.id].status = s]
      PROVE  QueuedIsHeld'
  <2>1. jobs'[worker.id].status = s /\ \A j \in Imports : j # worker.id => jobs'[j] = jobs[j]
    <3>1. \/ jobs'[worker.id] = [jobs[worker.id] EXCEPT !.evid = e, !.status = s]
          \/ jobs'[worker.id] = [jobs[worker.id] EXCEPT !.status = s]
      BY <1>0, <1>7
    <3>2. jobs[worker.id] \in Jobs
      BY <1>0
    <3>3. \A j \in Imports : j # worker.id => jobs'[j] = jobs[j]
      BY <1>0, <1>7
    <3> QED BY <3>1, <3>2, <3>3 DEF Jobs
  <2> QED BY <1>2, <1>7, <2>1
<1>8. CASE RecordVerdict \/ YieldToDuplicate \/ WriteCommit
  <2>1. UNCHANGED <<queue, loop, client>>
    BY <1>8 DEF RecordVerdict, YieldToDuplicate, WriteCommit, WorkerFrame
  <2>2. CASE RecordVerdict
    <3>1. PICK e, s : /\ e = Len(evidence)
                      /\ s = IF Verdict(worker.bytes) = "rejected" THEN "rejected" ELSE "awaiting_commit"
      OBVIOUS
    <3>2. jobs' = [jobs EXCEPT ![worker.id].evid = e, ![worker.id].status = s]
      BY <2>2, <3>1 DEF RecordVerdict
    <3>3. s \notin Waiting
      BY <3>1 DEF Waiting
    <3> QED BY <1>7, <2>1, <3>2, <3>3
  <2>3. CASE YieldToDuplicate
    <3>1. PICK e : e = Duplicate
      OBVIOUS
    <3>2. jobs' = [jobs EXCEPT ![worker.id].evid = e, ![worker.id].status = "duplicate"]
      BY <2>3, <3>1 DEF YieldToDuplicate
    <3>3. "duplicate" \notin Waiting
      BY DEF Waiting
    <3> QED BY <1>7, <2>1, <3>2, <3>3
  <2>4. CASE WriteCommit
    <3>1. PICK s : s = IF RejectedRecords(Report(worker.id)) THEN "partial_success" ELSE "completed"
      OBVIOUS
    <3>2. jobs' = [jobs EXCEPT ![worker.id].status = s]
      BY <2>4, <3>1 DEF WriteCommit
    <3>3. s \notin Waiting
      BY <3>1 DEF Waiting
    <3> QED BY <1>7, <2>1, <3>2, <3>3
  <2> QED BY <1>8, <2>2, <2>3, <2>4
<1> QED BY <1>1, <1>4, <1>5, <1>6, <1>8 DEF WorkerStep

LEMMA HoldStep == TypeOK /\ TypeOK' /\ CommitInv /\ QueuedIsHeld /\ [Next]_vars => QueuedIsHeld'
<1> SUFFICES ASSUME TypeOK, TypeOK', CommitInv, QueuedIsHeld, [Next]_vars PROVE QueuedIsHeld'
  OBVIOUS
<1>1. CASE CrashAndRecover
  <2>1. \A i \in Imports : jobs'[i].status \in {"queued", "commit_queued"} =>
            \E p \in 1..Len(queue') : queue'[p].id = i
    BY <1>1, RecoverDoes
  <2>2. DOMAIN queue' = 1..Len(queue')
    BY DEF TypeOK
  <2> QED BY <2>1, <2>2 DEF QueuedIsHeld, Holding
<1>2. CASE (\E c \in Contents : DamageFile(c)) \/ UNCHANGED vars
  <2>1. UNCHANGED <<jobs, queue, worker, loop, client>>
    BY <1>2 DEF DamageFile, vars
  <2> QED BY <2>1, QueueTyped, StillHeld
<1> QED BY <1>1, <1>2, UploadHolds, ClientHolds, WorkerHolds DEF Next

\* An import marked as queued is in the queue, in the worker's hands or about
\* to be put, whatever overflows, cancels and restarts come between.
THEOREM NoImportIsForgotten == Spec => []QueuedIsHeld
<1>1. Init => QueuedIsHeld
  BY DEF Init, QueuedIsHeld, NoJob
<1> QED BY <1>1, TypeCorrect, CommitInvariant, HoldStep, PTL DEF Spec

-----------------------------------------------------------------------------
(* What the other writes of a job do. *)

Wrote(i, s, e, a) ==
    /\ jobs'[i].status = s /\ jobs'[i].evid = e /\ jobs'[i].allow = a
    /\ \A j \in Imports : j # i => jobs'[j] = jobs[j]

LEMMA InsertWrites ==
    ASSUME TypeOK, InsertJob
    PROVE  \E i \in Imports :
              /\ jobs[i].status = "absent"
              /\ Wrote(i, IF loop.dup = 0 THEN "queued" ELSE "duplicate", loop.dup, FALSE)
              /\ IF loop.dup = 0 THEN loop'.at = "put" /\ loop'.id = i ELSE loop'.at = "idle"
              /\ loop.at = "insert" /\ UNCHANGED <<evidence, disk, queue, worker, client, asked, faults>>
<1>1. PICK i \in Imports :
        /\ jobs[i].status = "absent"
        /\ jobs' = [jobs EXCEPT ![i] =
               [NoJob EXCEPT !.case = loop.case, !.content = loop.content, !.evid = loop.dup,
                             !.status = IF loop.dup = 0 THEN "queued" ELSE "duplicate"]]
        /\ loop' = IF loop.dup = 0 THEN [loop EXCEPT !.at = "put", !.id = i] ELSE IdleLoop
  BY DEF InsertJob, NewImport
<1>2. Wrote(i, IF loop.dup = 0 THEN "queued" ELSE "duplicate", loop.dup, FALSE)
  BY <1>1 DEF Wrote, TypeOK, NoJob
<1>3. IF loop.dup = 0 THEN loop'.at = "put" /\ loop'.id = i ELSE loop'.at = "idle"
  BY <1>1 DEF TypeOK, IdleLoop
<1> QED BY <1>1, <1>2, <1>3 DEF InsertJob, UploadFrame

LEMMA MarkWrites ==
    ASSUME TypeOK, NEW c \in Clients, MarkCommitQueued(c)
    PROVE  \E i \in Imports, a \in BOOLEAN :
              /\ i = client[c].id /\ a = client[c].allow /\ client[c].at = "mark"
              /\ Wrote(i, "commit_queued", jobs[i].evid, a)
              /\ "commit" \in asked'[i] /\ (a => "partial" \in asked'[i])
              /\ \A j \in Imports : asked[j] \subseteq asked'[j]
              /\ client'[c] = [at |-> "put", id |-> i, allow |-> a]
              /\ \A d \in Clients : d # c => client'[d] = client[d]
              /\ UNCHANGED <<evidence, disk, queue, worker, loop, faults>>
<1>1. PICK i \in Imports, a \in BOOLEAN : i = client[c].id /\ a = client[c].allow
  BY DEF TypeOK
<1>2. /\ client[c].at = "mark"
      /\ jobs' = [jobs EXCEPT ![i].status = "commit_queued", ![i].allow = a]
      /\ asked' = [asked EXCEPT ![i] = @ \cup IF a THEN {"commit", "partial"} ELSE {"commit"}]
      /\ client' = [client EXCEPT ![c] = [at |-> "put", id |-> i, allow |-> a]]
      /\ UNCHANGED <<evidence, disk, queue, worker, loop, faults>>
  BY <1>1 DEF MarkCommitQueued, Step, ClientFrame
<1>3. jobs'[i] = [jobs[i] EXCEPT !.status = "commit_queued", !.allow = a] /\ jobs[i] \in Jobs
      /\ \A j \in Imports : j # i => jobs'[j] = jobs[j]
  BY <1>2 DEF TypeOK
<1>4. Wrote(i, "commit_queued", jobs[i].evid, a)
  BY <1>3 DEF Wrote, Jobs
<1>5. /\ asked'[i] = asked[i] \cup IF a THEN {"commit", "partial"} ELSE {"commit"}
      /\ \A j \in Imports : j # i => asked'[j] = asked[j]
  BY <1>2 DEF TypeOK
<1>6. /\ client'[c] = [at |-> "put", id |-> i, allow |-> a]
      /\ \A d \in Clients : d # c => client'[d] = client[d]
  BY <1>2 DEF TypeOK
<1>7. "commit" \in asked'[i] /\ (a => "partial" \in asked'[i]) /\ \A j \in Imports : asked[j] \subseteq asked'[j]
  BY <1>5
<1> QED BY <1>1, <1>2, <1>4, <1>6, <1>7

LEMMA RecordWrites ==
    ASSUME TypeOK, RecordVerdict
    PROVE  /\ Wrote(worker.id, IF Verdict(worker.bytes) = "rejected" THEN "rejected" ELSE "awaiting_commit",
                    Len(evidence), Job.allow)
           /\ worker.at = "update" /\ worker' = IdleWorker
           /\ UNCHANGED <<evidence, queue, disk, loop, client, asked, faults>>
<1>1. worker.id \in Imports /\ jobs \in [Imports -> Jobs]
  BY DEF TypeOK
<1>2. PICK s, e : /\ s = IF Verdict(worker.bytes) = "rejected" THEN "rejected" ELSE "awaiting_commit"
                  /\ e = Len(evidence)
  OBVIOUS
<1>3. jobs' = [jobs EXCEPT ![worker.id].evid = e, ![worker.id].status = s]
  BY <1>2 DEF RecordVerdict
<1>4. Wrote(worker.id, s, e, jobs[worker.id].allow)
  <2>1. jobs'[worker.id] = [jobs[worker.id] EXCEPT !.evid = e, !.status = s]
    BY <1>1, <1>3
  <2>2. \A j \in Imports : j # worker.id => jobs'[j] = jobs[j]
    BY <1>1, <1>3
  <2> QED BY <1>1, <2>1, <2>2 DEF Wrote, Jobs
<1> QED BY <1>2, <1>4 DEF RecordVerdict, WorkerFrame, Job

LEMMA YieldWrites ==
    ASSUME TypeOK, YieldToDuplicate
    PROVE  /\ Wrote(worker.id, "duplicate", Duplicate, Job.allow)
           /\ worker.at = "check" /\ worker' = IdleWorker /\ OtherDuplicate
           /\ UNCHANGED <<evidence, queue, disk, loop, client, asked, faults>>
<1>1. worker.id \in Imports /\ jobs \in [Imports -> Jobs]
  BY DEF TypeOK
<1>2. PICK e : e = Duplicate
  OBVIOUS
<1>3. jobs' = [jobs EXCEPT ![worker.id].evid = e, ![worker.id].status = "duplicate"]
  BY <1>2 DEF YieldToDuplicate
<1>4. Wrote(worker.id, "duplicate", e, jobs[worker.id].allow)
  <2>1. jobs'[worker.id] = [jobs[worker.id] EXCEPT !.evid = e, !.status = "duplicate"]
    BY <1>1, <1>3
  <2>2. \A j \in Imports : j # worker.id => jobs'[j] = jobs[j]
    BY <1>1, <1>3
  <2> QED BY <1>1, <2>1, <2>2 DEF Wrote, Jobs
<1> QED BY <1>2, <1>4 DEF YieldToDuplicate, WorkerFrame, Job

LEMMA CommitWrites ==
    ASSUME TypeOK, CommitInv, WriteCommit
    PROVE  /\ \E s \in Done : Wrote(worker.id, s, Job.evid, Job.allow)
           /\ worker.at = "write" /\ worker' = IdleWorker
           /\ Job.evid \in 1..Len(evidence) /\ Len(evidence') = Len(evidence)
           /\ evidence'[Job.evid] = [evidence[Job.evid] EXCEPT !.events = worker.bytes]
           /\ \A e \in 1..Len(evidence) : e # Job.evid => evidence'[e] = evidence[e]
           /\ \A e \in 1..Len(evidence) : evidence'[e].hash = evidence[e].hash
           /\ UNCHANGED <<queue, disk, loop, client, asked, faults>>
<1>1. worker.id \in Imports /\ jobs \in [Imports -> Jobs] /\ evidence \in Seq(Rows) /\ worker.at = "write"
  BY DEF TypeOK, WriteCommit
<1>2. PICK s, e : /\ s = IF RejectedRecords(Report(worker.id)) THEN "partial_success" ELSE "completed"
                  /\ e = Job.evid
  OBVIOUS
<1>3. s \in Done
  BY <1>2 DEF Done
<1>4. /\ jobs' = [jobs EXCEPT ![worker.id].status = s]
      /\ evidence' = [evidence EXCEPT ![e].events = worker.bytes]
  BY <1>2 DEF WriteCommit
<1>5. Wrote(worker.id, s, jobs[worker.id].evid, jobs[worker.id].allow)
  <2>1. jobs'[worker.id] = [jobs[worker.id] EXCEPT !.status = s]
    BY <1>1, <1>4
  <2>2. \A j \in Imports : j # worker.id => jobs'[j] = jobs[j]
    BY <1>1, <1>4
  <2> QED BY <1>1, <2>1, <2>2 DEF Wrote, Jobs
<1>6. e \in 1..Len(evidence)
  BY <1>1, <1>2 DEF CommitInv, WorkerRelies, RowsOfImports, RowOfCase, Job
<1>7. DOMAIN evidence = 1..Len(evidence) /\ evidence' \in Seq(Rows) /\ Len(evidence') = Len(evidence)
  <2>1. DOMAIN evidence = 1..Len(evidence) /\ Len(evidence) \in Nat
    BY <1>1
  <2>2. evidence' \in Seq(Rows)
    BY <1>1, <1>4, RowWriteType DEF TypeOK
  <2>3. DOMAIN evidence' = 1..Len(evidence)
    BY <1>4, <2>1
  <2> QED BY <2>1, <2>2, <2>3, LenProperties
<1>8. /\ evidence'[e] = [evidence[e] EXCEPT !.events = worker.bytes]
      /\ \A f \in 1..Len(evidence) : f # e => evidence'[f] = evidence[f]
  BY <1>4, <1>6, <1>7
<1>9. \A f \in 1..Len(evidence) : evidence'[f].hash = evidence[f].hash
  <2>1. evidence[e] \in Rows
    BY <1>1, <1>6
  <2>2. evidence'[e].hash = evidence[e].hash
    BY <1>8, <2>1 DEF Rows
  <2> QED BY <1>8, <2>2
<1> QED BY <1>1, <1>2, <1>3, <1>5, <1>6, <1>7, <1>8, <1>9 DEF WriteCommit, WorkerFrame, Job

-----------------------------------------------------------------------------
(* What no step takes back. *)

\* What was asked for stays asked for; an import that has a report keeps one
\* with the same hash, and the very row once it is committed.
Grows ==
    /\ \A i \in Imports : asked[i] \subseteq asked'[i]
    /\ \A i \in Imports : jobs[i].evid # 0 =>
        /\ jobs'[i].evid # 0
        /\ evidence'[jobs'[i].evid].hash = evidence[jobs[i].evid].hash
        /\ evidence[jobs[i].evid].events # NoBytes => jobs'[i].evid = jobs[i].evid

\* Rows are only added, without events.
RowsStay ==
    /\ \A e \in 1..Len(evidence) : e \in 1..Len(evidence') /\ evidence'[e] = evidence[e]
    /\ \A e \in 1..Len(evidence') : evidence'[e].events # NoBytes => e \in 1..Len(evidence)

LEMMA EvidTyped ==
    ASSUME TypeOK, CommitInv
    PROVE  /\ DOMAIN evidence = 1..Len(evidence) /\ Len(evidence) \in Nat
           /\ \A i \in Imports : jobs[i].evid # 0 =>
                jobs[i].evid \in 1..Len(evidence) /\ evidence[jobs[i].evid].case = jobs[i].case
<1>1. DOMAIN evidence = 1..Len(evidence) /\ Len(evidence) \in Nat
  BY DEF TypeOK
<1> QED BY <1>1 DEF CommitInv, RowsOfImports, RowOfCase

LEMMA KeepsEvid ==
    ASSUME TypeOK, CommitInv, \A i \in Imports : asked[i] \subseteq asked'[i],
           \A e \in 1..Len(evidence) : evidence'[e].hash = evidence[e].hash,
           \A i \in Imports : jobs[i].evid # 0 => jobs'[i].evid = jobs[i].evid
    PROVE  Grows
BY EvidTyped DEF Grows

\* Rows and evidence_ids stay, whoever the step is of.
LEMMA Unmoved ==
    ASSUME TypeOK, CommitInv, UNCHANGED evidence, \A i \in Imports : asked[i] \subseteq asked'[i],
           \A i \in Imports : jobs[i].evid # 0 => jobs'[i].evid = jobs[i].evid
    PROVE  Grows /\ RowsStay
BY KeepsEvid DEF RowsStay

LEMMA UploadGrows ==
    ASSUME TypeOK, CommitInv, ValidatedOnce,
           (\E k \in Cases, c \in Contents : BeginUpload(k, c)) \/ UploadStep
    PROVE  Grows /\ RowsStay
<1>1. CASE (\E k \in Cases, c \in Contents : BeginUpload(k, c)) \/ FinishWrite \/ LookUpDuplicate
  BY <1>1, Unmoved DEF BeginUpload, FinishWrite, LookUpDuplicate, UploadFrame
<1>2. CASE InsertJob
  <2>1. UNCHANGED <<evidence, asked>> /\ \A i \in Imports : jobs[i].evid # 0 => jobs'[i].evid = jobs[i].evid
    BY <1>2, InsertWrites DEF Wrote, ValidatedOnce
  <2> QED BY <2>1, Unmoved
<1>3. CASE QueueValidation
  <2>1. UNCHANGED <<evidence, asked>> /\ loop.id \in Imports /\ Enqueue("validate", loop.id, FALSE)
    BY <1>3 DEF QueueValidation, UploadFrame, TypeOK
  <2>2. \A i \in Imports : jobs'[i].evid = jobs[i].evid
    BY <2>1, EnqueueDoes
  <2> QED BY <2>1, <2>2, Unmoved
<1> QED BY <1>1, <1>2, <1>3 DEF UploadStep

LEMMA ClientGrows ==
    ASSUME TypeOK, CommitInv, NEW c \in Clients,
           \/ \E i \in Imports, allow \in BOOLEAN : ReadForCommit(c, i, allow)
           \/ \E i \in Imports : ReadForCancel(c, i)
           \/ ClientStep(c)
    PROVE  Grows /\ RowsStay
<1>0. client[c].id \in Imports
  BY DEF TypeOK
<1>1. ASSUME UNCHANGED <<jobs, evidence, asked>> PROVE Grows /\ RowsStay
  BY <1>1, Unmoved
<1>2. CASE \/ \E i \in Imports, allow \in BOOLEAN : ReadForCommit(c, i, allow)
           \/ \E i \in Imports : ReadForCancel(c, i)
  BY <1>1, <1>2 DEF ReadForCommit, ReadForCancel, ClientFrame
<1>3. CASE MarkCommitQueued(c)
  <2>1. /\ UNCHANGED evidence /\ \A i \in Imports : asked[i] \subseteq asked'[i]
        /\ \A i \in Imports : jobs'[i].evid = jobs[i].evid
    BY <1>3, MarkWrites DEF Wrote
  <2> QED BY <2>1, Unmoved
<1>4. CASE QueueCommit(c)
  <2>1. UNCHANGED <<evidence, asked>> /\ \A i \in Imports : jobs'[i].evid = jobs[i].evid
    BY <1>0, <1>4, EnqueueDoes DEF QueueCommit, ClientFrame
  <2> QED BY <2>1, Unmoved
<1>5. CASE WriteCancelled(c)
  <2>1. UNCHANGED evidence /\ \A i \in Imports : jobs'[i].evid = jobs[i].evid
    BY <1>0, <1>5, SetJobDoes DEF WriteCancelled, ClientFrame
  <2>2. \A i \in Imports : asked[i] \subseteq asked'[i]
    BY <1>0, <1>5 DEF WriteCancelled, TypeOK
  <2> QED BY <2>1, <2>2, Unmoved
<1> QED BY <1>2, <1>3, <1>4, <1>5 DEF ClientStep

\* Steps of the worker that write at most a status.
WritesStatus == TakeEntry \/ ClaimValidation \/ ReadAndValidate \/ ValidationRaises \/ RefuseCommit
                \/ ClaimCommit \/ FailHashCheck \/ CommitRaises \/ PrepareCommit

LEMMA StatusWrites ==
    ASSUME TypeOK, WritesStatus
    PROVE  /\ UNCHANGED <<evidence, disk, loop, client, asked, faults>>
           /\ \A j \in Imports : /\ jobs'[j].evid = jobs[j].evid /\ jobs'[j].allow = jobs[j].allow
                                 /\ j # worker.id => jobs'[j] = jobs[j]
           /\ \/ jobs' = jobs
              \/ jobs'[worker.id].status = "failed" /\ worker' = IdleWorker
              \/ ClaimValidation /\ jobs'[worker.id].status = "validating"
              \/ ClaimCommit /\ jobs'[worker.id].status = "normalizing"
<1>0. worker.id \in Imports
  BY DEF TypeOK
<1>1. CASE TakeEntry \/ ReadAndValidate \/ PrepareCommit
  BY <1>1 DEF TakeEntry, ReadAndValidate, PrepareCommit, WorkerFrame
<1>2. CASE ValidationRaises \/ RefuseCommit \/ FailHashCheck \/ CommitRaises
  BY <1>0, <1>2, SetJobDoes DEF ValidationRaises, RefuseCommit, FailHashCheck, CommitRaises, Finish, WorkerFrame
<1>3. CASE ClaimValidation
  BY <1>0, <1>3, SetJobDoes DEF ClaimValidation, WorkerFrame
<1>4. CASE ClaimCommit
  BY <1>0, <1>4, SetJobDoes DEF ClaimCommit, WorkerFrame
<1> QED BY <1>1, <1>2, <1>3, <1>4 DEF WritesStatus

\* The row stored is the last one.
LEMMA StoreAdds ==
    ASSUME TypeOK, StoreValidation
    PROVE  /\ RowsStay /\ Len(evidence) \in Nat /\ Len(evidence') = Len(evidence) + 1
           /\ evidence'[Len(evidence')].hash = worker.bytes
           /\ evidence'[Len(evidence')].events = NoBytes
           /\ worker.at = "store" /\ worker'.at = "update" /\ worker'.id = worker.id
           /\ worker'.bytes = worker.bytes
           /\ UNCHANGED <<jobs, queue, disk, loop, client, asked, faults>>
<1>1. PICK r : r = [case |-> Job.case, hash |-> worker.bytes, events |-> NoBytes]
  OBVIOUS
<1>2. evidence \in Seq(Rows) /\ evidence' = Append(evidence, r)
  BY <1>1 DEF StoreValidation, TypeOK
<1>3. /\ Len(evidence) \in Nat /\ Len(evidence') = Len(evidence) + 1
      /\ evidence'[Len(evidence) + 1] = r
      /\ \A e \in 1..Len(evidence) : evidence'[e] = evidence[e]
  BY <1>2
<1>4. /\ \A e \in 1..Len(evidence) : e \in 1..Len(evidence')
      /\ \A e \in 1..Len(evidence') : e \in 1..Len(evidence) \/ e = Len(evidence) + 1
  BY <1>3
<1>5. r.hash = worker.bytes /\ r.events = NoBytes
  BY <1>1
<1>6. RowsStay
  BY <1>3, <1>4, <1>5 DEF RowsStay
<1> QED BY <1>3, <1>5, <1>6 DEF StoreValidation, WorkerFrame, TypeOK

LEMMA WorkerGrows ==
    ASSUME TypeOK, CommitInv, ValidatedOnce, WorkerStep
    PROVE  Grows /\ (WriteCommit \/ RowsStay)
<1>0. worker.id \in Imports
  BY DEF TypeOK
<1>1. CASE WritesStatus
  <2>1. UNCHANGED <<evidence, asked>> /\ \A i \in Imports : jobs'[i].evid = jobs[i].evid
    BY <1>1, StatusWrites
  <2> QED BY <2>1, Unmoved
<1>2. CASE StoreValidation
  <2>1. RowsStay /\ UNCHANGED <<jobs, asked>>
    BY <1>2, StoreAdds
  <2>2. \A e \in 1..Len(evidence) : evidence'[e].hash = evidence[e].hash
    BY <2>1 DEF RowsStay
  <2> QED BY <2>1, <2>2, KeepsEvid
<1>3. CASE RecordVerdict
  <2>1. UNCHANGED <<evidence, asked>> /\ Job.evid = 0
    BY <1>3, RecordWrites DEF ValidatedOnce, Validation
  <2>2. \A i \in Imports : jobs[i].evid # 0 => jobs'[i].evid = jobs[i].evid
    BY <1>0, <1>3, <2>1, RecordWrites DEF Wrote, Job
  <2> QED BY <2>1, <2>2, Unmoved
<1>4. CASE YieldToDuplicate
  <2>1. /\ UNCHANGED <<evidence, asked>> /\ OtherDuplicate /\ jobs'[worker.id].evid = Duplicate
        /\ \A i \in Imports : i # worker.id => jobs'[i] = jobs[i]
    BY <1>4, YieldWrites DEF Wrote
  <2>2. Duplicate # 0 /\ Duplicate # Job.evid /\ Duplicate \in Matches(Job.case, Report(worker.id))
    BY <2>1, FindCommittedType DEF OtherDuplicate, Duplicate
  <2>3. /\ evidence[Duplicate].hash = evidence[Job.evid].hash /\ Committed(Duplicate)
        /\ evidence[Duplicate].case = Job.case /\ Duplicate \in DOMAIN evidence
    BY <2>2 DEF Matches, Report, Job
  <2>4. Job.evid # 0 /\ Job.evid \in DOMAIN evidence /\ evidence[Job.evid].case = Job.case
    BY <1>0, <1>4, EvidTyped DEF YieldToDuplicate, CommitInv, WorkerRelies, Job
  <2>5. ~Committed(Job.evid)
    BY <2>2, <2>3, <2>4 DEF CommitInv, OneCommitPerHash
  <2>6. \A i \in Imports : jobs[i].evid # 0 =>
            /\ jobs'[i].evid # 0
            /\ evidence'[jobs'[i].evid].hash = evidence[jobs[i].evid].hash
            /\ evidence[jobs[i].evid].events # NoBytes => jobs'[i].evid = jobs[i].evid
    BY <2>1, <2>2, <2>3, <2>5 DEF Job, Committed
  <2> QED BY <2>1, <2>6 DEF Grows, RowsStay
<1>5. CASE WriteCommit
  <2>1. /\ UNCHANGED asked /\ \A e \in 1..Len(evidence) : evidence'[e].hash = evidence[e].hash
        /\ \A i \in Imports : jobs'[i].evid = jobs[i].evid
    BY <1>5, CommitWrites DEF Wrote, Job
  <2> QED BY <1>5, <2>1, KeepsEvid
<1> QED BY <1>1, <1>2, <1>3, <1>4, <1>5 DEF WorkerStep, WritesStatus

LEMMA StepGrows ==
    ASSUME TypeOK, TypeOK', CommitInv, ValidatedOnce, [Next]_vars
    PROVE  Grows /\ (WriteCommit \/ RowsStay)
<1>1. CASE CrashAndRecover
  <2>1. UNCHANGED <<evidence, asked>> /\ \A i \in Imports : jobs'[i].evid = jobs[i].evid
    BY <1>1, RecoverDoes
  <2> QED BY <2>1, Unmoved
<1>2. CASE (\E c \in Contents : DamageFile(c)) \/ UNCHANGED vars
  <2>1. UNCHANGED <<jobs, evidence, asked>>
    BY <1>2 DEF DamageFile, vars
  <2> QED BY <2>1, Unmoved
<1> QED BY <1>1, <1>2, UploadGrows, ClientGrows, WorkerGrows DEF Next

-----------------------------------------------------------------------------
(* An import waits for its validation in one place. *)

NotSeen == {"absent", "queued", "validating"}

\* Steps by which nothing starts to wait for its validation.
LEMMA NoneStarts ==
    ASSUME TypeOK, TypeOK', ValidatedOnce,
           \A p \in 1..Len(queue') : queue'[p].op = "validate" =>
                p \in 1..Len(queue) /\ queue'[p] = queue[p],
           worker'.at \in Validation => worker.at \in Validation /\ worker'.id = worker.id,
           loop'.at = "put" => loop.at = "put" /\ loop'.id = loop.id,
           \A i \in Imports : jobs[i].evid = 0 =>
                jobs'[i].evid = 0 \/ (worker.at = "update" /\ i = worker.id /\ worker'.at = "idle"),
           \A i \in Imports : jobs'[i].status \in NotSeen => jobs'[i].evid = 0
    PROVE  ValidatedOnce'
<1>1. ASSUME NEW p \in 1..Len(queue'), queue'[p].op = "validate"
      PROVE  /\ jobs'[queue'[p].id].evid = 0
             /\ \A q \in 1..Len(queue') : queue'[q].op = "validate" /\ queue'[q].id = queue'[p].id => q = p
             /\ ~(worker'.at \in Validation /\ worker'.id = queue'[p].id)
             /\ ~(loop'.at = "put" /\ loop'.id = queue'[p].id)
  <2>1. PICK i \in Imports : i = queue[p].id
    BY <1>1, QueueTyped
  <2>2. p \in 1..Len(queue) /\ queue'[p] = queue[p] /\ queue[p].op = "validate"
    BY <1>1
  <2>3. /\ jobs[i].evid = 0
        /\ \A q \in 1..Len(queue) : queue[q].op = "validate" /\ queue[q].id = i => q = p
        /\ ~(worker.at \in Validation /\ worker.id = i)
        /\ ~(loop.at = "put" /\ loop.id = i)
    BY <2>1, <2>2 DEF ValidatedOnce
  <2>4. jobs'[i].evid = 0
    BY <2>3 DEF Validation
  <2>5. \A q \in 1..Len(queue') : queue'[q].op = "validate" /\ queue'[q].id = i => q = p
    BY <2>3
  <2> QED BY <2>1, <2>2, <2>3, <2>4, <2>5
<1>2. ASSUME worker'.at \in Validation
      PROVE  jobs'[worker'.id].evid = 0 /\ ~(loop'.at = "put" /\ loop'.id = worker'.id)
  <2>1. PICK i \in Imports : i = worker.id
    BY DEF TypeOK
  <2>2. worker'.id = i /\ jobs[i].evid = 0 /\ ~(loop.at = "put" /\ loop.id = i) /\ worker'.at # "idle"
    BY <1>2, <2>1 DEF ValidatedOnce, Job, Validation
  <2> QED BY <2>2
<1>3. ASSUME loop'.at = "put" PROVE jobs'[loop'.id].evid = 0
  <2>1. PICK i \in Imports : i = loop.id
    BY DEF TypeOK
  <2>2. loop'.id = i /\ loop.at = "put" /\ jobs[i].evid = 0
    BY <1>3, <2>1 DEF ValidatedOnce
  <2>3. ~(worker.at = "update" /\ i = worker.id)
    BY <2>1, <2>2 DEF ValidatedOnce, Validation
  <2> QED BY <2>2, <2>3
<1> QED BY <1>1, <1>2, <1>3 DEF ValidatedOnce, Job, NotSeen

\* The same when the queue, the threads and the evidence_ids stay.
LEMMA NobodyStarts ==
    ASSUME TypeOK, TypeOK', ValidatedOnce, UNCHANGED <<queue, worker, loop>>,
           \A i \in Imports : /\ jobs'[i].evid = jobs[i].evid
                              /\ jobs'[i].status \in NotSeen => jobs[i].status \in NotSeen
    PROVE  ValidatedOnce'
<1>1. \A i \in Imports : jobs'[i].status \in NotSeen => jobs'[i].evid = 0
  BY DEF ValidatedOnce, NotSeen
<1> QED BY <1>1, NoneStarts

LEMMA UploadValidatesOnce ==
    ASSUME TypeOK, TypeOK', CommitInv, ValidatedOnce,
           (\E k \in Cases, c \in Contents : BeginUpload(k, c)) \/ UploadStep
    PROVE  ValidatedOnce'
<1>0. \A i \in Imports : jobs[i].status \in NotSeen => jobs[i].evid = 0
  BY DEF ValidatedOnce, NotSeen
<1>1. CASE (\E k \in Cases, c \in Contents : BeginUpload(k, c)) \/ FinishWrite \/ LookUpDuplicate
  <2>1. /\ UNCHANGED <<jobs, queue, worker>> /\ loop'.at # "put"
    BY <1>1 DEF BeginUpload, FinishWrite, LookUpDuplicate, UploadFrame, TypeOK, IdleLoop
  <2> QED BY <1>0, <2>1, NoneStarts
<1>2. CASE InsertJob
  <2>1. PICK i \in Imports :
              /\ jobs[i].status = "absent"
              /\ Wrote(i, IF loop.dup = 0 THEN "queued" ELSE "duplicate", loop.dup, FALSE)
              /\ IF loop.dup = 0 THEN loop'.at = "put" /\ loop'.id = i ELSE loop'.at = "idle"
              /\ loop.at = "insert" /\ UNCHANGED <<queue, worker>>
    BY <1>2, InsertWrites
  <2>2. /\ \A p \in 1..Len(queue) : queue[p].id # i
        /\ worker.at \in Validation => worker.id # i
    BY <2>1 DEF CommitInv, RefsAreKnown, Known, Validation
  <2>3. \A j \in Imports : /\ j # i => jobs'[j].evid = jobs[j].evid
                           /\ jobs'[j].status \in NotSeen => jobs'[j].evid = 0
    BY <1>0, <2>1 DEF Wrote, NotSeen
  <2>4. ASSUME NEW p \in 1..Len(queue'), queue'[p].op = "validate"
        PROVE  /\ jobs'[queue'[p].id].evid = 0
               /\ \A q \in 1..Len(queue') : queue'[q].op = "validate" /\ queue'[q].id = queue'[p].id => q = p
               /\ ~(worker'.at \in Validation /\ worker'.id = queue'[p].id)
               /\ ~(loop'.at = "put" /\ loop'.id = queue'[p].id)
    <3>1. PICK j \in Imports : j = queue[p].id /\ j # i
      BY <2>1, <2>2, <2>4, QueueTyped
    <3>2. /\ jobs[j].evid = 0
          /\ \A q \in 1..Len(queue) : queue[q].op = "validate" /\ queue[q].id = j => q = p
          /\ ~(worker.at \in Validation /\ worker.id = j)
      BY <2>1, <2>4, <3>1 DEF ValidatedOnce
    <3> QED BY <2>1, <2>3, <3>1, <3>2
  <2>5. ASSUME worker'.at \in Validation
        PROVE  jobs'[worker'.id].evid = 0 /\ ~(loop'.at = "put" /\ loop'.id = worker'.id)
    <3>1. PICK j \in Imports : j = worker.id
      BY DEF TypeOK
    <3>2. jobs[j].evid = 0 /\ j # i
      BY <2>1, <2>2, <2>5, <3>1 DEF ValidatedOnce, Job
    <3> QED BY <2>1, <2>3, <3>1, <3>2
  <2>6. loop'.at = "put" => jobs'[loop'.id].evid = 0
    BY <2>1 DEF Wrote
  <2> QED BY <2>3, <2>4, <2>5, <2>6 DEF ValidatedOnce, Job, NotSeen
<1>3. CASE QueueValidation
  <2>1. PICK i \in Imports : i = loop.id
    BY DEF TypeOK
  <2>2. /\ Enqueue("validate", i, FALSE) /\ loop.at = "put" /\ loop'.at # "put" /\ UNCHANGED worker
    BY <1>3, <2>1 DEF QueueValidation, UploadFrame, IdleLoop
  <2>3. CASE jobs'[i].status = "failed" /\ queue' = queue
    <3>1. \A j \in Imports : jobs'[j].evid = jobs[j].evid /\ (j # i => jobs'[j] = jobs[j])
      BY <2>2, EnqueueDoes
    <3>2. \A j \in Imports : jobs'[j].status \in NotSeen => jobs'[j].evid = 0
      BY <1>0, <2>3, <3>1 DEF NotSeen
    <3> QED BY <2>2, <2>3, <3>1, <3>2, NoneStarts
  <2>4. CASE jobs' = jobs /\ queue' = Append(queue, Entry("validate", i, FALSE))
    <3>1. PICK e : e = Entry("validate", i, FALSE)
      OBVIOUS
    <3>2. e.id = i /\ e.op = "validate"
      BY <3>1 DEF Entry
    <3>3. /\ Len(queue') = Len(queue) + 1 /\ queue'[Len(queue) + 1] = e
          /\ \A p \in 1..Len(queue) : queue'[p] = queue[p]
          /\ \A p \in 1..Len(queue') : p \in 1..Len(queue) \/ p = Len(queue) + 1
      BY <2>4, <3>1, Appended
    <3>4. /\ jobs[i].evid = 0 /\ ~(worker.at \in Validation /\ worker.id = i)
          /\ \A q \in 1..Len(queue) : queue[q].op = "validate" => queue[q].id # i
      BY <2>1, <2>2 DEF ValidatedOnce
    <3>5. ASSUME NEW p \in 1..Len(queue'), queue'[p].op = "validate"
          PROVE  /\ jobs'[queue'[p].id].evid = 0
                 /\ \A q \in 1..Len(queue') : queue'[q].op = "validate" /\ queue'[q].id = queue'[p].id => q = p
                 /\ ~(worker'.at \in Validation /\ worker'.id = queue'[p].id)
      <4>1. CASE p = Len(queue) + 1
        BY <2>2, <2>4, <3>2, <3>3, <3>4, <4>1
      <4>2. CASE p \in 1..Len(queue)
        <5>1. /\ jobs[queue[p].id].evid = 0 /\ queue[p].id # i
              /\ \A q \in 1..Len(queue) : queue[q].op = "validate" /\ queue[q].id = queue[p].id => q = p
              /\ ~(worker.at \in Validation /\ worker.id = queue[p].id)
          BY <3>3, <3>4, <3>5, <4>2 DEF ValidatedOnce
        <5> QED BY <2>2, <2>4, <3>2, <3>3, <4>2, <5>1
      <4> QED BY <3>3, <4>1, <4>2
    <3>6. worker'.at \in Validation => jobs'[worker'.id].evid = 0
      BY <2>2, <2>4 DEF ValidatedOnce, Job
    <3>7. \A j \in Imports : jobs'[j].status \in NotSeen => jobs'[j].evid = 0
      BY <1>0, <2>4
    <3> QED BY <2>2, <3>5, <3>6, <3>7 DEF ValidatedOnce, Job, NotSeen
  <2> QED BY <2>2, <2>3, <2>4, EnqueueDoes
<1> QED BY <1>1, <1>2, <1>3 DEF UploadStep

LEMMA ClientValidatesOnce ==
    ASSUME TypeOK, TypeOK', CommitInv, ValidatedOnce, NEW c \in Clients,
           \/ \E i \in Imports, allow \in BOOLEAN : ReadForCommit(c, i, allow)
           \/ \E i \in Imports : ReadForCancel(c, i)
           \/ ClientStep(c)
    PROVE  ValidatedOnce'
<1>0. client[c].id \in Imports /\ \A i \in Imports : jobs[i].status \in NotSeen => jobs[i].evid = 0
  BY DEF TypeOK, ValidatedOnce, NotSeen
<1>1. CASE \/ \E i \in Imports, allow \in BOOLEAN : ReadForCommit(c, i, allow)
           \/ \E i \in Imports : ReadForCancel(c, i)
  <2>1. UNCHANGED <<jobs, queue, worker, loop>>
    BY <1>1 DEF ReadForCommit, ReadForCancel, ClientFrame
  <2> QED BY <2>1, NobodyStarts
<1>2. CASE MarkCommitQueued(c)
  <2>1. UNCHANGED <<queue, worker, loop>>
        /\ \A i \in Imports : /\ jobs'[i].evid = jobs[i].evid
                              /\ jobs'[i].status \in NotSeen => jobs[i].status \in NotSeen
    BY <1>2, MarkWrites DEF Wrote, NotSeen
  <2> QED BY <2>1, NobodyStarts
<1>3. CASE QueueCommit(c)
  <2>1. PICK i, allow : i \in Imports /\ Enqueue("commit", i, allow)
    BY <1>0, <1>3 DEF QueueCommit
  <2>2. UNCHANGED <<worker, loop>>
    BY <1>3 DEF QueueCommit, ClientFrame
  <2>3. CASE jobs'[i].status = "failed" /\ queue' = queue
    <3>1. \A j \in Imports : /\ jobs'[j].evid = jobs[j].evid
                             /\ jobs'[j].status \in NotSeen => jobs[j].status \in NotSeen
      BY <2>1, <2>3, EnqueueDoes DEF NotSeen
    <3> QED BY <2>2, <2>3, <3>1, NobodyStarts
  <2>4. CASE jobs' = jobs /\ queue' = Append(queue, Entry("commit", i, allow))
    <3>1. PICK e : e = Entry("commit", i, allow)
      OBVIOUS
    <3>2. e.op = "commit"
      BY <3>1 DEF Entry
    <3>3. \A p \in 1..Len(queue') : queue'[p].op = "validate" =>
                p \in 1..Len(queue) /\ queue'[p] = queue[p]
      BY <2>4, <3>1, <3>2, Appended
    <3> QED BY <1>0, <2>2, <2>4, <3>3, NoneStarts
  <2> QED BY <2>1, <2>3, <2>4, EnqueueDoes
<1>4. CASE WriteCancelled(c)
  <2>1. UNCHANGED <<queue, worker, loop>>
        /\ \A i \in Imports : /\ jobs'[i].evid = jobs[i].evid
                              /\ jobs'[i].status \in NotSeen => jobs[i].status \in NotSeen
    BY <1>0, <1>4, SetJobDoes DEF WriteCancelled, ClientFrame, NotSeen
  <2> QED BY <2>1, NobodyStarts
<1> QED BY <1>1, <1>2, <1>3, <1>4 DEF ClientStep

LEMMA WorkerValidatesOnce ==
    ASSUME TypeOK, TypeOK', CommitInv, ValidatedOnce, WorkerStep
    PROVE  ValidatedOnce'
<1>0. /\ worker.id \in Imports /\ jobs \in [Imports -> Jobs]
      /\ \A i \in Imports : jobs[i].status \in NotSeen => jobs[i].evid = 0
  BY DEF TypeOK, ValidatedOnce, NotSeen
<1>1. CASE TakeEntry
  <2>1. PICK i \in Imports : i = queue[1].id
    BY <1>1, Taken, QueueTyped
  <2>2. /\ \A p \in 1..Len(queue') : queue'[p] = queue[p + 1] /\ p + 1 \in 1..Len(queue) /\ p + 1 # 1
        /\ \A p, q \in 1..Len(queue') : p + 1 = q + 1 => p = q
    BY <1>1, Taken, QueueTyped
  <2>3. /\ 1 \in 1..Len(queue) /\ worker'.at = queue[1].op /\ worker'.id = i
        /\ UNCHANGED <<jobs, loop>>
    BY <1>1, <2>1, Taken
  <2>4. queue[1].op = "validate" =>
          /\ jobs[i].evid = 0 /\ ~(loop.at = "put" /\ loop.id = i)
          /\ \A q \in 1..Len(queue) : queue[q].op = "validate" /\ queue[q].id = i => q = 1
    BY <2>1, <2>3 DEF ValidatedOnce
  <2>5. worker'.at \in Validation => queue[1].op = "validate"
    BY <2>3, QueueTyped DEF Validation
  <2>6. ASSUME NEW p \in 1..Len(queue'), queue'[p].op = "validate"
        PROVE  /\ jobs'[queue'[p].id].evid = 0
               /\ \A q \in 1..Len(queue') : queue'[q].op = "validate" /\ queue'[q].id = queue'[p].id => q = p
               /\ ~(worker'.at \in Validation /\ worker'.id = queue'[p].id)
               /\ ~(loop'.at = "put" /\ loop'.id = queue'[p].id)
    <3>1. PICK r \in 1..Len(queue) : r = p + 1 /\ r # 1 /\ queue'[p] = queue[r]
      BY <2>2
    <3>2. /\ jobs[queue[r].id].evid = 0
          /\ \A q \in 1..Len(queue) : queue[q].op = "validate" /\ queue[q].id = queue[r].id => q = r
          /\ ~(loop.at = "put" /\ loop.id = queue[r].id)
      BY <2>6, <3>1 DEF ValidatedOnce
    <3>3. ~(worker'.at \in Validation /\ worker'.id = queue[r].id)
      BY <2>3, <2>4, <2>5, <2>6, <3>1
    <3>4. \A q \in 1..Len(queue') : queue'[q].op = "validate" /\ queue'[q].id = queue[r].id => q = p
      BY <2>2, <3>1, <3>2
    <3> QED BY <2>3, <3>1, <3>2, <3>3, <3>4
  <2> QED BY <1>0, <2>3, <2>4, <2>5, <2>6 DEF ValidatedOnce, Job, NotSeen
<1>2. CASE WritesStatus /\ ~TakeEntry
  <2>1. /\ UNCHANGED <<queue, loop>>
        /\ worker'.at \in Validation => worker.at \in Validation /\ worker'.id = worker.id
    <3>1. CASE ClaimValidation \/ ReadAndValidate \/ ClaimCommit \/ PrepareCommit
      <4>1. /\ worker'.at \in {"idle", "check", "write"} \/ worker.at \in {"validate", "read"}
            /\ worker'.at = "idle" \/ worker'.id = worker.id
        <5>1. CASE ClaimValidation
          BY <5>1 DEF ClaimValidation, IdleWorker, TypeOK
        <5>2. CASE ReadAndValidate
          BY <5>2 DEF ReadAndValidate, IdleWorker, TypeOK
        <5>3. CASE ClaimCommit
          BY <5>3 DEF ClaimCommit, TypeOK
        <5>4. CASE PrepareCommit
          BY <5>4 DEF PrepareCommit, IdleWorker, TypeOK
        <5> QED BY <3>1, <5>1, <5>2, <5>3, <5>4
      <4>2. UNCHANGED <<queue, loop>>
        BY <3>1 DEF ClaimValidation, ReadAndValidate, ClaimCommit, PrepareCommit, WorkerFrame
      <4> QED BY <4>1, <4>2 DEF Validation
    <3>2. CASE ValidationRaises \/ RefuseCommit \/ FailHashCheck \/ CommitRaises
      BY <3>2 DEF ValidationRaises, RefuseCommit, FailHashCheck, CommitRaises, Finish, WorkerFrame,
                  IdleWorker, Validation
    <3> QED BY <1>2, <3>1, <3>2 DEF WritesStatus
  <2>2. \A i \in Imports : jobs'[i].evid = jobs[i].evid /\ (i # worker.id => jobs'[i] = jobs[i])
    BY <1>2, StatusWrites
  <2>3. \/ jobs' = jobs \/ jobs'[worker.id].status \in {"failed", "normalizing"}
        \/ worker.at = "validate"
    BY <1>2, StatusWrites DEF ClaimValidation
  <2>4. \A i \in Imports : jobs'[i].status \in NotSeen => jobs'[i].evid = 0
    BY <1>0, <2>2, <2>3 DEF ValidatedOnce, Job, Validation, NotSeen
  <2> QED BY <2>1, <2>2, <2>4, NoneStarts
<1>3. CASE StoreValidation
  <2>1. UNCHANGED <<jobs, queue, loop>> /\ worker.at = "store" /\ worker'.id = worker.id
    BY <1>3, StoreAdds
  <2> QED BY <1>0, <2>1, NoneStarts DEF Validation
<1>4. CASE RecordVerdict
  <2>1. /\ UNCHANGED <<queue, loop>> /\ worker'.at = "idle" /\ worker.at = "update"
        /\ \A i \in Imports : i # worker.id => jobs'[i] = jobs[i]
        /\ jobs'[worker.id].status \in {"rejected", "awaiting_commit"}
    BY <1>4, RecordWrites DEF Wrote, IdleWorker
  <2>2. \A i \in Imports : jobs'[i].status \in NotSeen => jobs'[i].evid = 0
    BY <1>0, <2>1 DEF NotSeen
  <2> QED BY <2>1, <2>2, NoneStarts DEF Validation
<1>5. CASE YieldToDuplicate \/ WriteCommit
  <2>1. /\ UNCHANGED <<queue, loop>> /\ worker'.at = "idle" /\ worker.at \in {"check", "write"}
        /\ \A i \in Imports : i # worker.id => jobs'[i] = jobs[i]
        /\ jobs'[worker.id].status \in Done \cup {"duplicate"}
    BY <1>5, YieldWrites, CommitWrites DEF Wrote, IdleWorker
  <2>2. jobs[worker.id].evid # 0
    BY <2>1 DEF CommitInv, WorkerRelies, Job
  <2>3. \A i \in Imports : jobs'[i].status \in NotSeen => jobs'[i].evid = 0
    BY <1>0, <2>1 DEF NotSeen, Done
  <2> QED BY <2>1, <2>2, <2>3, NoneStarts DEF Validation
<1> QED BY <1>1, <1>2, <1>3, <1>4, <1>5 DEF WorkerStep, WritesStatus

LEMMA StepValidatesOnce ==
    ASSUME TypeOK, TypeOK', CommitInv, ValidatedOnce, [Next]_vars
    PROVE  ValidatedOnce'
<1>1. CASE CrashAndRecover
  <2>1. /\ \A i \in Imports : /\ jobs'[i].evid = jobs[i].evid
                              /\ jobs'[i].status \in NotSeen => jobs[i].status \in NotSeen
        /\ \A p \in 1..Len(queue') : queue'[p].id \in Imports
        /\ \A p \in 1..Len(queue') : queue'[p].op = "validate" => jobs[queue'[p].id].status \in NotSeen
        /\ \A p, q \in 1..Len(queue') : queue'[p].id = queue'[q].id => p = q
        /\ worker'.at = "idle" /\ loop'.at = "idle"
    BY <1>1, RecoverDoes DEF NotSeen
  <2>2. \A i \in Imports : jobs[i].status \in NotSeen => jobs'[i].evid = 0
    BY <2>1 DEF ValidatedOnce, NotSeen
  <2>3. \A p \in 1..Len(queue') : queue'[p].op = "validate" =>
            /\ jobs'[queue'[p].id].evid = 0
            /\ \A q \in 1..Len(queue') : queue'[q].op = "validate" /\ queue'[q].id = queue'[p].id => q = p
    BY <2>1, <2>2
  <2> QED BY <2>1, <2>2, <2>3 DEF ValidatedOnce, Validation, NotSeen
<1>2. CASE (\E c \in Contents : DamageFile(c)) \/ UNCHANGED vars
  <2>1. UNCHANGED <<jobs, queue, worker, loop>>
    BY <1>2 DEF DamageFile, vars
  <2> QED BY <2>1, NobodyStarts
<1> QED BY <1>1, <1>2, UploadValidatesOnce, ClientValidatesOnce, WorkerValidatesOnce DEF Next

-----------------------------------------------------------------------------
(* How an import comes to be reviewed, and who asks for its commit. *)

Committing == {"commit_queued", "normalizing"}

\* Who can make import i one that is reviewed, committing or partly accepted.
JobsMove == \A i \in Imports :
    /\ jobs'[i].status \in Reviewed =>
        \/ jobs[i].status \in Reviewed
        \/ \E c \in Clients : client[c].at = "mark" /\ client[c].id = i
        \/ worker.at = "commit" /\ worker.id = i /\ worker.seen \in Reviewed
        \/ /\ worker.at = "update" /\ Verdict(worker.bytes) # "rejected"
           /\ jobs'[i].evid = Len(evidence) /\ UNCHANGED evidence
    /\ jobs'[i].status \in Committing =>
        jobs[i].status \in Committing \/ "commit" \in asked'[i] \/ (worker.at = "commit" /\ worker.id = i)
    /\ jobs'[i].allow => jobs[i].allow \/ "partial" \in asked'[i]

\* A request thread marks what awaited a commit, and puts what it has asked for.
ClientsMove == \A c \in Clients :
    /\ client'[c].at = "mark" => client'[c] = client[c] \/ jobs[client'[c].id].status = "awaiting_commit"
    /\ client'[c].at = "put" =>
        \/ client'[c] = client[c]
        \/ /\ "commit" \in asked'[client'[c].id]
           /\ client'[c].allow => "partial" \in asked'[client'[c].id]

\* Commits are put by the request threads and by recovery.
QueueMoves == \A p \in 1..Len(queue') : queue'[p].op = "commit" =>
    \/ \E q \in 1..Len(queue) : queue'[p] = queue[q]
    \/ \E c \in Clients : /\ client[c].at = "put" /\ queue'[p].id = client[c].id
                          /\ queue'[p].allow = client[c].allow
    \/ jobs[queue'[p].id].status \in Committing /\ queue'[p].allow = jobs[queue'[p].id].allow

\* The steps after which the worker relies on something it did not before.
WorkerMoves ==
    \/ worker'.at \in {"idle", "validate", "read", "store"}
    \/ worker' = worker /\ UNCHANGED evidence
    \/ TakeEntry \/ ClaimCommit \/ PrepareCommit \/ StoreValidation

Moves == JobsMove /\ ClientsMove /\ QueueMoves /\ WorkerMoves

\* A part that does not move.
LEMMA Still ==
    /\ (\A i \in Imports : /\ jobs'[i].allow = jobs[i].allow
                           /\ jobs'[i].status = jobs[i].status \/ jobs'[i].status \notin Reviewed) => JobsMove
    /\ (\A c \in Clients : client'[c] = client[c] \/ client'[c].at \notin {"mark", "put"}) => ClientsMove
    /\ queue' = queue => QueueMoves
    /\ worker' = worker /\ UNCHANGED evidence => WorkerMoves
<1>1. (\A i \in Imports : /\ jobs'[i].allow = jobs[i].allow
                          /\ jobs'[i].status = jobs[i].status \/ jobs'[i].status \notin Reviewed) => JobsMove
  BY DEF JobsMove, Reviewed, Committing
<1>2. (\A c \in Clients : client'[c] = client[c] \/ client'[c].at \notin {"mark", "put"}) => ClientsMove
  BY DEF ClientsMove
<1>3. queue' = queue => QueueMoves
  BY DEF QueueMoves
<1> QED BY <1>1, <1>2, <1>3 DEF WorkerMoves

\* An entry that is put is a validation or what a request thread carried.
LEMMA PutMoves ==
    ASSUME TypeOK, NEW op, NEW i \in Imports, NEW allow, Enqueue(op, i, allow),
           op = "validate" \/ \E c \in Clients : /\ client[c].at = "put" /\ i = client[c].id
                                                 /\ allow = client[c].allow
    PROVE  JobsMove /\ QueueMoves
<1>1. JobsMove
  <2>1. jobs' = jobs \/ jobs'[i].status = "failed"
    BY EnqueueDoes
  <2>2. \A j \in Imports : /\ jobs'[j].allow = jobs[j].allow
                           /\ jobs'[j].status = jobs[j].status \/ jobs'[j].status \notin Reviewed
    BY <2>1, EnqueueDoes DEF Reviewed
  <2> QED BY <2>2, Still
<1>2. CASE queue' = queue
  BY <1>1, <1>2, Still
<1>3. CASE queue' = Append(queue, Entry(op, i, allow))
  <2>1. PICK e : e = Entry(op, i, allow)
    OBVIOUS
  <2>2. e.op = op /\ e.id = i /\ e.allow = allow
    BY <2>1 DEF Entry
  <2>3. \A p \in 1..Len(queue') : (p \in 1..Len(queue) /\ queue'[p] = queue[p]) \/ queue'[p] = e
    BY <1>3, <2>1, Appended
  <2>4. QueueMoves
    BY <2>2, <2>3 DEF QueueMoves
  <2> QED BY <1>1, <2>4
<1> QED BY <1>2, <1>3 DEF Enqueue

LEMMA UploadMoves ==
    ASSUME TypeOK, (\E k \in Cases, c \in Contents : BeginUpload(k, c)) \/ UploadStep
    PROVE  Moves
<1>1. ClientsMove /\ WorkerMoves
  <2>1. UNCHANGED <<evidence, worker, client>>
    BY DEF UploadStep, BeginUpload, FinishWrite, LookUpDuplicate, InsertJob, QueueValidation, UploadFrame
  <2> QED BY <2>1, Still
<1>2. CASE (\E k \in Cases, c \in Contents : BeginUpload(k, c)) \/ FinishWrite \/ LookUpDuplicate
  <2>1. UNCHANGED <<jobs, queue>>
    BY <1>2 DEF BeginUpload, FinishWrite, LookUpDuplicate
  <2> QED BY <1>1, <2>1, Still DEF Moves
<1>3. CASE InsertJob
  <2>1. UNCHANGED queue
    BY <1>3, InsertWrites
  <2>2. JobsMove
    BY <1>3, InsertWrites DEF Wrote, JobsMove, Reviewed, Committing
  <2> QED BY <1>1, <2>1, <2>2, Still DEF Moves
<1>4. CASE QueueValidation
  <2>1. Enqueue("validate", loop.id, FALSE) /\ loop.id \in Imports
    BY <1>4 DEF QueueValidation, TypeOK
  <2> QED BY <1>1, <2>1, PutMoves DEF Moves
<1> QED BY <1>2, <1>3, <1>4 DEF UploadStep

LEMMA ClientMoves ==
    ASSUME TypeOK, NEW c \in Clients,
           \/ \E i \in Imports, allow \in BOOLEAN : ReadForCommit(c, i, allow)
           \/ \E i \in Imports : ReadForCancel(c, i)
           \/ ClientStep(c)
    PROVE  Moves
<1>0. client[c].id \in Imports /\ client \in [Clients -> [at : {"idle", "mark", "put", "cancel"},
                                                         id : Imports, allow : BOOLEAN]]
  BY DEF TypeOK
<1>1. WorkerMoves
  <2>1. UNCHANGED <<evidence, worker>>
    BY DEF ClientStep, ReadForCommit, ReadForCancel, MarkCommitQueued, QueueCommit, WriteCancelled, ClientFrame
  <2> QED BY <2>1, Still
<1>2. ASSUME NEW i \in Imports, NEW allow \in BOOLEAN, ReadForCommit(c, i, allow) PROVE Moves
  <2>1. /\ UNCHANGED <<jobs, queue>> /\ client'[c].id = i /\ jobs[i].status = "awaiting_commit"
        /\ client'[c].at = "mark" /\ \A d \in Clients : d # c => client'[d] = client[d]
    BY <1>0, <1>2 DEF ReadForCommit, Step
  <2>2. ClientsMove
    BY <2>1 DEF ClientsMove
  <2> QED BY <1>1, <2>1, <2>2, Still DEF Moves
<1>3. ASSUME NEW i \in Imports, ReadForCancel(c, i) PROVE Moves
  <2>1. /\ UNCHANGED <<jobs, queue>> /\ client'[c].at = "cancel"
        /\ \A d \in Clients : d # c => client'[d] = client[d]
    BY <1>0, <1>3 DEF ReadForCancel, Step
  <2>2. ClientsMove
    BY <2>1 DEF ClientsMove
  <2> QED BY <1>1, <2>1, <2>2, Still DEF Moves
<1>4. CASE MarkCommitQueued(c)
  <2>1. PICK i \in Imports, a \in BOOLEAN :
              /\ i = client[c].id /\ client[c].at = "mark"
              /\ Wrote(i, "commit_queued", jobs[i].evid, a)
              /\ "commit" \in asked'[i] /\ (a => "partial" \in asked'[i])
              /\ client'[c] = [at |-> "put", id |-> i, allow |-> a]
              /\ \A d \in Clients : d # c => client'[d] = client[d]
              /\ UNCHANGED queue
    BY <1>4, MarkWrites
  <2>2. JobsMove
    BY <2>1 DEF Wrote, JobsMove
  <2>3. ClientsMove
    BY <2>1 DEF ClientsMove
  <2> QED BY <1>1, <2>1, <2>2, <2>3, Still DEF Moves
<1>5. CASE QueueCommit(c)
  <2>1. client[c].at = "put" /\ Enqueue("commit", client[c].id, client[c].allow)
    BY <1>5 DEF QueueCommit
  <2>2. client'[c].at = "idle" /\ \A d \in Clients : d # c => client'[d] = client[d]
    BY <1>0, <1>5 DEF QueueCommit, IdleClient
  <2>3. ClientsMove
    BY <2>2 DEF ClientsMove
  <2> QED BY <1>0, <1>1, <2>1, <2>3, PutMoves DEF Moves
<1>6. CASE WriteCancelled(c)
  <2>1. SetJob(client[c].id, "cancelled", "none") /\ UNCHANGED queue
    BY <1>6 DEF WriteCancelled
  <2>2. client'[c].at = "idle" /\ \A d \in Clients : d # c => client'[d] = client[d]
    BY <1>0, <1>6 DEF WriteCancelled, IdleClient
  <2>3. ClientsMove
    BY <2>2 DEF ClientsMove
  <2>4. \A j \in Imports : /\ jobs'[j].allow = jobs[j].allow
                           /\ jobs'[j].status = jobs[j].status \/ jobs'[j].status \notin Reviewed
    BY <1>0, <2>1, SetJobDoes DEF Reviewed
  <2> QED BY <1>1, <2>1, <2>3, <2>4, Still DEF Moves
<1> QED BY <1>2, <1>3, <1>4, <1>5, <1>6 DEF ClientStep

LEMMA WorkerTurns ==
    ASSUME TypeOK, CommitInv, WorkerStep
    PROVE  Moves
<1>0. worker.id \in Imports
  BY DEF TypeOK
<1>1. ClientsMove
  <2>1. UNCHANGED client
    BY DEF WorkerStep, TakeEntry, ClaimValidation, ReadAndValidate, ValidationRaises, StoreValidation,
           RecordVerdict, RefuseCommit, ClaimCommit, FailHashCheck, YieldToDuplicate, CommitRaises,
           PrepareCommit, WriteCommit, Finish, WorkerFrame
  <2> QED BY <2>1, Still
<1>2. QueueMoves
  <2>1. CASE TakeEntry
    BY <2>1, Taken DEF QueueMoves
  <2>2. CASE ~TakeEntry
    <3>1. UNCHANGED queue
      BY <2>2 DEF WorkerStep, ClaimValidation, ReadAndValidate, ValidationRaises, StoreValidation,
             RecordVerdict, RefuseCommit, ClaimCommit, FailHashCheck, YieldToDuplicate, CommitRaises,
             PrepareCommit, WriteCommit, Finish
    <3> QED BY <3>1, Still
  <2> QED BY <2>1, <2>2
<1>3. WorkerMoves
  <2>1. CASE ClaimValidation \/ ReadAndValidate
    <3>1. worker'.at \in {"idle", "read", "store"}
      <4>1. CASE ClaimValidation
        BY <4>1 DEF ClaimValidation, IdleWorker, TypeOK
      <4>2. CASE ReadAndValidate
        BY <4>2 DEF ReadAndValidate, IdleWorker, TypeOK
      <4> QED BY <2>1, <4>1, <4>2
    <3> QED BY <3>1 DEF WorkerMoves
  <2>2. CASE ValidationRaises \/ RefuseCommit \/ FailHashCheck \/ CommitRaises
             \/ RecordVerdict \/ YieldToDuplicate \/ WriteCommit
    <3>1. worker'.at = "idle"
      BY <2>2 DEF ValidationRaises, RefuseCommit, FailHashCheck, CommitRaises, Finish, RecordVerdict,
                  YieldToDuplicate, WriteCommit, IdleWorker
    <3> QED BY <3>1 DEF WorkerMoves
  <2> QED BY <2>1, <2>2 DEF WorkerStep, WorkerMoves
<1>4. JobsMove
  <2>1. CASE WritesStatus /\ ~ClaimCommit
    <3>1. \A j \in Imports : /\ jobs'[j].allow = jobs[j].allow
                             /\ jobs'[j].status = jobs[j].status \/ jobs'[j].status \notin Reviewed
      BY <1>0, <2>1, StatusWrites DEF Reviewed
    <3> QED BY <3>1, Still
  <2>2. CASE ClaimCommit
    <3>1. worker.at = "commit" /\ worker.seen \in Reviewed
      BY <2>2 DEF ClaimCommit, CommitReady, Reviewed
    <3>2. \A j \in Imports : jobs'[j].allow = jobs[j].allow /\ (j # worker.id => jobs'[j] = jobs[j])
      BY <2>2, StatusWrites DEF WritesStatus
    <3> QED BY <1>0, <3>1, <3>2 DEF JobsMove
  <2>3. CASE StoreValidation
    BY <2>3, StoreAdds, Still
  <2>4. CASE RecordVerdict
    <3>1. /\ worker.at = "update" /\ UNCHANGED evidence
          /\ jobs'[worker.id].evid = Len(evidence) /\ jobs'[worker.id].allow = jobs[worker.id].allow
          /\ jobs'[worker.id].status = IF Verdict(worker.bytes) = "rejected" THEN "rejected"
                                       ELSE "awaiting_commit"
          /\ \A j \in Imports : j # worker.id => jobs'[j] = jobs[j]
      BY <2>4, RecordWrites DEF Wrote, Job
    <3> QED BY <1>0, <3>1 DEF JobsMove, Reviewed, Committing
  <2>5. CASE YieldToDuplicate \/ WriteCommit
    <3>1. /\ jobs'[worker.id].allow = jobs[worker.id].allow
          /\ jobs'[worker.id].status \in Done \cup {"duplicate"}
          /\ \A j \in Imports : j # worker.id => jobs'[j] = jobs[j]
      BY <2>5, YieldWrites, CommitWrites DEF Wrote, Job
    <3>2. \A j \in Imports : /\ jobs'[j].allow = jobs[j].allow
                             /\ jobs'[j].status = jobs[j].status \/ jobs'[j].status \notin Reviewed
      BY <1>0, <3>1 DEF Reviewed, Done
    <3> QED BY <3>2, Still
  <2> QED BY <2>1, <2>2, <2>3, <2>4, <2>5 DEF WorkerStep, WritesStatus
<1> QED BY <1>1, <1>2, <1>3, <1>4 DEF Moves

LEMMA StepMoves ==
    ASSUME TypeOK, TypeOK', CommitInv, [Next]_vars
    PROVE  Moves
<1>1. CASE CrashAndRecover
  <2>1. ClientsMove /\ WorkerMoves
    BY <1>1, RecoverDoes, Still DEF WorkerMoves
  <2>2. JobsMove
    BY <1>1, RecoverDoes DEF JobsMove, Reviewed, Committing
  <2>3. QueueMoves
    BY <1>1, RecoverDoes DEF QueueMoves, Committing
  <2> QED BY <2>1, <2>2, <2>3 DEF Moves
<1>2. CASE (\E c \in Contents : DamageFile(c)) \/ UNCHANGED vars
  <2>1. UNCHANGED <<jobs, evidence, queue, worker, client>>
    BY <1>2 DEF DamageFile, vars
  <2> QED BY <2>1, Still DEF Moves
<1> QED BY <1>1, <1>2, UploadMoves, ClientMoves, WorkerTurns DEF Next

-----------------------------------------------------------------------------
(* Reviews hold, and commits were asked for. *)

LEMMA ReviewStays ==
    ASSUME Grows, NEW i \in Imports, Reviewable(i)
    PROVE  Reviewable(i)' /\ Report(i)' = Report(i)
<1>1. jobs'[i].evid # 0 /\ evidence'[jobs'[i].evid].hash = evidence[jobs[i].evid].hash
  BY DEF Grows, Reviewable
<1> QED BY <1>1 DEF Reviewable, Report, Verdict

LEMMA ReviewsStep ==
    ASSUME TypeOK, TypeOK', CommitInv, Grows, Moves, ReviewHolds
    PROVE  ReviewHolds'
<1>0. worker.id \in Imports /\ worker'.id \in Imports
      /\ \A c \in Clients : client[c].id \in Imports /\ client'[c].id \in Imports
  BY DEF TypeOK
<1>1. ASSUME NEW i \in Imports, jobs'[i].status \in Reviewed
      PROVE  Reviewable(i)'
  <2>1. CASE jobs[i].status \in Reviewed
    BY <2>1, ReviewStays DEF ReviewHolds
  <2>2. CASE \E c \in Clients : client[c].at = "mark" /\ client[c].id = i
    BY <2>2, ReviewStays DEF ReviewHolds
  <2>3. CASE worker.at = "commit" /\ worker.id = i /\ worker.seen \in Reviewed
    BY <2>3, ReviewStays DEF ReviewHolds, WorkerReviews
  <2>4. CASE /\ worker.at = "update" /\ Verdict(worker.bytes) # "rejected"
             /\ jobs'[i].evid = Len(evidence) /\ UNCHANGED evidence
    <3>1. evidence[Len(evidence)].hash = worker.bytes
      BY <2>4 DEF ReviewHolds, WorkerReviews
    <3>2. Len(evidence) # 0
      BY <2>4 DEF CommitInv, WorkerRelies, RowOfCase, TypeOK
    <3>3. evidence'[jobs'[i].evid].hash = worker.bytes
      BY <2>4, <3>1
    <3> QED BY <2>4, <3>2, <3>3 DEF Reviewable, Report, Verdict
  <2> QED BY <1>1, <2>1, <2>2, <2>3, <2>4 DEF Moves, JobsMove
<1>2. ASSUME NEW c \in Clients, client'[c].at = "mark"
      PROVE  Reviewable(client[c].id)'
  <2>1. PICK i \in Imports : i = client'[c].id
    BY <1>0
  <2>2. Reviewable(i)
    BY <1>2, <2>1 DEF Moves, ClientsMove, ReviewHolds, Reviewed
  <2>3. Reviewable(i)'
    BY <2>2, ReviewStays
  <2> QED BY <2>1, <2>3 DEF Reviewable, Report
<1>3. WorkerReviews'
  <2>1. CASE worker'.at \in {"idle", "validate", "read", "store"}
    BY <2>1 DEF WorkerReviews
  <2>2. PICK i \in Imports : i = worker'.id
    BY <1>0
  <2>3. CASE worker' = worker /\ UNCHANGED evidence
    <3>1. Reviewable(i) => Reviewable(i)' /\ Report(i)' = Report(i)
      BY ReviewStays
    <3>2. /\ worker'.at = "commit" /\ worker'.seen \in Reviewed => Reviewable(i)'
          /\ worker'.at \in {"check", "write"} => Reviewable(i)'
          /\ worker'.at = "write" => worker'.bytes = Report(i)'
          /\ worker'.at = "update" => evidence'[Len(evidence')].hash = worker'.bytes
      BY <2>2, <2>3, <3>1 DEF ReviewHolds, WorkerReviews
    <3> QED BY <2>2, <3>2 DEF WorkerReviews, Reviewable, Report
  <2>4. CASE TakeEntry
    <3>1. /\ worker'.at \in {"validate", "commit"} /\ worker'.seen = jobs[i].status
      BY <2>2, <2>4, Taken, QueueTyped
    <3>2. jobs[i].status \in Reviewed => Reviewable(i)'
      BY ReviewStays DEF ReviewHolds
    <3> QED BY <2>2, <3>1, <3>2 DEF WorkerReviews, Reviewable, Report
  <2>5. CASE ClaimCommit
    <3>1. worker'.at = "check" /\ worker'.id = worker.id /\ worker.at = "commit" /\ worker.seen \in Reviewed
      BY <2>5 DEF ClaimCommit, CommitReady, Reviewed, TypeOK
    <3>2. Reviewable(i)'
      BY <2>2, <3>1, ReviewStays DEF ReviewHolds, WorkerReviews
    <3> QED BY <2>2, <3>1, <3>2 DEF WorkerReviews, Reviewable, Report
  <2>6. CASE PrepareCommit
    <3>1. /\ worker'.at = "idle" \/ (worker'.at = "write" /\ worker'.id = worker.id
                                     /\ worker'.bytes = Report(worker.id))
          /\ worker.at = "check"
      BY <2>6 DEF PrepareCommit, HashMatches, IdleWorker, TypeOK
    <3>2. CASE worker'.at = "write"
      <4>1. Reviewable(i)' /\ Report(i)' = Report(i) /\ worker'.bytes = Report(i)
        BY <2>2, <3>1, <3>2, ReviewStays DEF ReviewHolds, WorkerReviews
      <4> QED BY <2>2, <3>2, <4>1 DEF WorkerReviews, Reviewable, Report
    <3> QED BY <2>1, <3>1, <3>2
  <2>7. CASE StoreValidation
    BY <2>7, StoreAdds DEF WorkerReviews
  <2> QED BY <2>1, <2>3, <2>4, <2>5, <2>6, <2>7 DEF Moves, WorkerMoves
<1> QED BY <1>1, <1>2, <1>3 DEF ReviewHolds

LEMMA AskedStays ==
    ASSUME Grows, NEW i \in Imports, NEW partial, Asked(i, partial)
    PROVE  "commit" \in asked'[i] /\ (partial => "partial" \in asked'[i])
BY DEF Grows, Asked

LEMMA CommitsStep ==
    ASSUME TypeOK, TypeOK', CommitInv, Grows, Moves, ReviewHolds, CommitsWereAsked
    PROVE  CommitsWereAsked'
<1>0. worker.id \in Imports /\ worker'.id \in Imports
      /\ \A c \in Clients : client[c].id \in Imports /\ client'[c].id \in Imports
  BY DEF TypeOK
<1>1. ASSUME NEW i \in Imports
      PROVE  /\ jobs'[i].status \in {"commit_queued", "normalizing"} => "commit" \in asked'[i]
             /\ jobs'[i].allow => "partial" \in asked'[i]
  <2>1. asked[i] \subseteq asked'[i]
    BY DEF Grows
  <2>2. worker.at = "commit" /\ worker.id = i => "commit" \in asked[i]
    BY DEF CommitsWereAsked, WorkerWasAsked, Asked
  <2> QED BY <2>1, <2>2 DEF Moves, JobsMove, CommitsWereAsked, Committing
<1>2. ASSUME NEW p \in 1..Len(queue'), queue'[p].op = "commit"
      PROVE  Asked(queue[p].id, queue[p].allow)'
  <2>0. PICK i, a : i \in Imports /\ i = queue'[p].id /\ a = queue'[p].allow
    <3>1. queue'[p] \in Entries
      BY DEF TypeOK
    <3> QED BY <3>1 DEF Entries
  <2>1. CASE \E q \in 1..Len(queue) : queue'[p] = queue[q]
    <3>1. Asked(i, a)
      BY <1>2, <2>0, <2>1 DEF CommitsWereAsked
    <3> QED BY <2>0, <3>1, AskedStays DEF Asked
  <2>2. CASE \E c \in Clients : /\ client[c].at = "put" /\ queue'[p].id = client[c].id
                                /\ queue'[p].allow = client[c].allow
    <3>1. Asked(i, a)
      BY <2>0, <2>2 DEF CommitsWereAsked
    <3> QED BY <2>0, <3>1, AskedStays DEF Asked
  <2>3. CASE jobs[queue'[p].id].status \in Committing /\ queue'[p].allow = jobs[queue'[p].id].allow
    <3>1. Asked(i, a)
      BY <2>0, <2>3 DEF CommitsWereAsked, Committing, Asked
    <3> QED BY <2>0, <3>1, AskedStays DEF Asked
  <2> QED BY <1>2, <2>1, <2>2, <2>3 DEF Moves, QueueMoves
<1>3. ASSUME NEW c \in Clients, client'[c].at = "put"
      PROVE  Asked(client[c].id, client[c].allow)'
  <2>0. PICK i, a : i \in Imports /\ i = client'[c].id /\ a = client'[c].allow
    BY <1>0
  <2>1. CASE client'[c] = client[c]
    <3>1. Asked(i, a)
      BY <1>3, <2>0, <2>1 DEF CommitsWereAsked
    <3> QED BY <2>0, <3>1, AskedStays DEF Asked
  <2>2. CASE /\ "commit" \in asked'[client'[c].id]
             /\ client'[c].allow => "partial" \in asked'[client'[c].id]
    BY <2>2 DEF Asked
  <2> QED BY <1>3, <2>1, <2>2 DEF Moves, ClientsMove
<1>4. WorkerWasAsked'
  <2>0. PICK i \in Imports : i = worker'.id
    BY <1>0
  <2>1. CASE worker'.at \in {"idle", "validate", "read", "store"}
    BY <2>1 DEF WorkerWasAsked
  <2>2. CASE worker' = worker /\ UNCHANGED evidence
    <3>1. CASE worker.at = "commit"
      <4>1. Asked(i, worker.allow)
        BY <2>0, <2>2, <3>1 DEF CommitsWereAsked, WorkerWasAsked
      <4> QED BY <2>0, <2>2, <3>1, <4>1, AskedStays DEF WorkerWasAsked, Asked
    <3>2. CASE worker.at \in {"check", "write"}
      <4>1. Asked(i, RejectedRecords(Report(i))) /\ Reviewable(i)
        BY <2>0, <2>2, <3>2 DEF CommitsWereAsked, WorkerWasAsked, ReviewHolds, WorkerReviews
      <4>2. Report(i)' = Report(i)
        BY <4>1, ReviewStays
      <4>3. "commit" \in asked'[i] /\ (RejectedRecords(Report(i)) => "partial" \in asked'[i])
        BY <4>1, AskedStays
      <4>4. RejectedRecords(Report(i))' <=> RejectedRecords(Report(i))
        BY <4>2 DEF RejectedRecords, Verdict
      <4> QED BY <2>0, <2>2, <3>2, <4>3, <4>4 DEF WorkerWasAsked, Asked, Report
    <3> QED BY <2>2, <3>1, <3>2 DEF WorkerWasAsked
  <2>3. CASE TakeEntry
    <3>1. /\ worker'.at \in {"validate", "commit"} /\ worker'.at = queue[1].op /\ i = queue[1].id
          /\ worker'.allow = queue[1].allow /\ 1 \in 1..Len(queue)
      BY <2>0, <2>3, Taken, QueueTyped
    <3>2. CASE worker'.at = "commit"
      <4>1. Asked(i, queue[1].allow)
        BY <3>1, <3>2 DEF CommitsWereAsked
      <4> QED BY <2>0, <3>1, <3>2, <4>1, AskedStays DEF WorkerWasAsked, Asked
    <3> QED BY <2>1, <3>1, <3>2
  <2>4. CASE ClaimCommit
    <3>1. /\ worker'.at = "check" /\ i = worker.id /\ worker.at = "commit" /\ worker.seen \in Reviewed
          /\ RejectedRecords(Report(i)) => worker.allow
      BY <2>0, <2>4 DEF ClaimCommit, CommitReady, Reviewed, TypeOK
    <3>2. Asked(i, worker.allow) /\ Reviewable(i)
      BY <3>1 DEF CommitsWereAsked, WorkerWasAsked, ReviewHolds, WorkerReviews
    <3>3. Report(i)' = Report(i)
      BY <3>2, ReviewStays
    <3>4. "commit" \in asked'[i] /\ (RejectedRecords(Report(i)) => "partial" \in asked'[i])
      BY <3>1, <3>2, AskedStays
    <3>5. RejectedRecords(Report(i))' <=> RejectedRecords(Report(i))
      BY <3>3 DEF RejectedRecords, Verdict
    <3> QED BY <2>0, <3>1, <3>4, <3>5 DEF WorkerWasAsked, Asked, Report
  <2>5. CASE PrepareCommit
    <3>1. /\ worker'.at = "idle" \/ (worker'.at = "write" /\ worker'.id = worker.id)
          /\ worker.at = "check"
      BY <2>5 DEF PrepareCommit, IdleWorker, TypeOK
    <3>2. CASE worker'.at = "write"
      <4>1. Asked(i, RejectedRecords(Report(i))) /\ Reviewable(i)
        BY <2>0, <3>1, <3>2 DEF CommitsWereAsked, WorkerWasAsked, ReviewHolds, WorkerReviews
      <4>2. Report(i)' = Report(i)
        BY <4>1, ReviewStays
      <4>3. "commit" \in asked'[i] /\ (RejectedRecords(Report(i)) => "partial" \in asked'[i])
        BY <4>1, AskedStays
      <4>4. RejectedRecords(Report(i))' <=> RejectedRecords(Report(i))
        BY <4>2 DEF RejectedRecords, Verdict
      <4> QED BY <2>0, <3>1, <3>2, <4>3, <4>4 DEF WorkerWasAsked, Asked, Report
    <3> QED BY <2>1, <3>1, <3>2
  <2>6. CASE StoreValidation
    BY <2>6, StoreAdds DEF WorkerWasAsked
  <2> QED BY <2>1, <2>2, <2>3, <2>4, <2>5, <2>6 DEF Moves, WorkerMoves
<1> QED BY <1>1, <1>2, <1>3, <1>4 DEF CommitsWereAsked

\* Evidence is committed by one write, of what the worker holds.
LEMMA CommittedStep ==
    ASSUME TypeOK, TypeOK', CommitInv, ConsentInv, Grows, WriteCommit \/ RowsStay
    PROVE  CommittedWithConsent' /\ CommittedIsWhatWasValidated'
<1>0. /\ DOMAIN evidence = 1..Len(evidence) /\ DOMAIN evidence' = 1..Len(evidence')
  BY DEF TypeOK
\* A row that was committed before stays as it was, and so does its import.
<1>1. ASSUME NEW e \in 1..Len(evidence), evidence[e].events # NoBytes, evidence'[e] = evidence[e]
      PROVE  /\ \E i \in Imports : /\ jobs'[i].evid = e /\ "commit" \in asked'[i]
                                   /\ RejectedRecords(evidence'[e].hash) => "partial" \in asked'[i]
             /\ evidence'[e].events = evidence'[e].hash /\ Verdict(evidence'[e].hash) # "rejected"
  <2>1. PICK i \in Imports : /\ jobs[i].evid = e /\ "commit" \in asked[i]
                             /\ RejectedRecords(evidence[e].hash) => "partial" \in asked[i]
    BY <1>0, <1>1 DEF ConsentInv, CommittedWithConsent, Committed
  <2>2. e # 0
    BY <1>0 DEF TypeOK
  <2>3. jobs'[i].evid = e /\ asked[i] \subseteq asked'[i]
    BY <1>1, <2>1, <2>2 DEF Grows
  <2>4. evidence[e].events = evidence[e].hash /\ Verdict(evidence[e].hash) # "rejected"
    BY <1>0, <1>1 DEF ConsentInv, CommittedIsWhatWasValidated, Committed
  <2> QED BY <1>1, <2>1, <2>3, <2>4
<1>2. ASSUME NEW e \in 1..Len(evidence'), evidence'[e].events # NoBytes
      PROVE  /\ \E i \in Imports : /\ jobs'[i].evid = e /\ "commit" \in asked'[i]
                                   /\ RejectedRecords(evidence'[e].hash) => "partial" \in asked'[i]
             /\ evidence'[e].events = evidence'[e].hash /\ Verdict(evidence'[e].hash) # "rejected"
  <2>1. CASE RowsStay
    BY <1>1, <1>2, <2>1 DEF RowsStay
  <2>2. CASE WriteCommit
    <3>1. PICK i \in Imports, mine \in 1..Len(evidence) : i = worker.id /\ mine = jobs[i].evid
      BY <2>2, CommitWrites DEF Job, TypeOK
    <3>2. /\ jobs'[i].evid = mine /\ worker.at = "write" /\ Len(evidence') = Len(evidence)
          /\ evidence'[mine] = [evidence[mine] EXCEPT !.events = worker.bytes]
          /\ evidence'[mine].hash = evidence[mine].hash
          /\ \A f \in 1..Len(evidence) : f # mine => evidence'[f] = evidence[f]
          /\ UNCHANGED asked
      BY <2>2, <3>1, CommitWrites DEF Wrote, Job
    <3>3. CASE e # mine
      BY <1>1, <1>2, <3>2, <3>3
    <3>4. CASE e = mine
      <4>1. /\ worker.bytes = evidence[mine].hash /\ Verdict(evidence[mine].hash) # "rejected"
            /\ "commit" \in asked[i] /\ (RejectedRecords(evidence[mine].hash) => "partial" \in asked[i])
        BY <3>1, <3>2 DEF ConsentInv, ReviewHolds, WorkerReviews, Reviewable, Report,
                          CommitsWereAsked, WorkerWasAsked, Asked
      <4>2. evidence[mine] \in Rows
        BY <1>0, <3>1 DEF TypeOK
      <4>3. evidence'[mine].events = worker.bytes
        BY <3>2, <4>2 DEF Rows
      <4> QED BY <3>2, <3>4, <4>1, <4>3
    <3> QED BY <3>3, <3>4
  <2> QED BY <2>1, <2>2
<1>3. CommittedWithConsent'
  BY <1>0, <1>2 DEF CommittedWithConsent, Committed
<1>4. CommittedIsWhatWasValidated'
  BY <1>0, <1>2 DEF CommittedIsWhatWasValidated, Committed
<1> QED BY <1>3, <1>4

LEMMA ConsentStep == TypeOK /\ TypeOK' /\ CommitInv /\ ConsentInv /\ [Next]_vars => ConsentInv'
<1> SUFFICES ASSUME TypeOK, TypeOK', CommitInv, ConsentInv, [Next]_vars PROVE ConsentInv'
  OBVIOUS
<1>1. ValidatedOnce /\ ReviewHolds /\ CommitsWereAsked
  BY DEF ConsentInv
<1>2. ValidatedOnce'
  BY <1>1, StepValidatesOnce
<1>3. Grows /\ (WriteCommit \/ RowsStay) /\ Moves
  BY <1>1, StepGrows, StepMoves
<1>4. ReviewHolds' /\ CommitsWereAsked'
  BY <1>1, <1>3, ReviewsStep, CommitsStep
<1>5. CommittedWithConsent' /\ CommittedIsWhatWasValidated'
  BY <1>3, CommittedStep
<1> QED BY <1>2, <1>4, <1>5 DEF ConsentInv

LEMMA ConsentInit == Init => ConsentInv
<1> SUFFICES ASSUME Init PROVE ConsentInv
  OBVIOUS
<1>1. /\ Len(queue) = 0 /\ DOMAIN evidence = {} /\ worker.at = "idle" /\ loop.at = "idle"
      /\ \A i \in Imports : jobs[i].status = "absent" /\ jobs[i].evid = 0 /\ jobs[i].allow = FALSE
      /\ \A c \in Clients : client[c].at = "idle"
  BY DEF Init, IdleWorker, IdleLoop, IdleClient, NoJob
<1>2. ValidatedOnce
  BY <1>1 DEF ValidatedOnce, Validation
<1>3. ReviewHolds /\ CommitsWereAsked
  BY <1>1 DEF ReviewHolds, WorkerReviews, CommitsWereAsked, WorkerWasAsked, Reviewed
<1> QED BY <1>1, <1>2, <1>3 DEF ConsentInv, CommittedWithConsent, CommittedIsWhatWasValidated

\* ConsentInv is inductive relative to the types and to CommitInv.
THEOREM ConsentInvariant == Spec => []ConsentInv
BY ConsentInit, ConsentStep, TypeCorrect, CommitInvariant, PTL DEF Spec

\* Evidence is committed only for an import whose commit was asked for, with
\* the loss of rows confirmed when there is one, also after a restart.
THEOREM CommitsAreConsented == Spec => []CommittedWithConsent
<1>1. ConsentInv => CommittedWithConsent
  BY DEF ConsentInv
<1> QED BY <1>1, ConsentInvariant, PTL

\* The events of committed evidence come from the bytes that were validated
\* and accepted, although the file is read again and may be altered in between.
THEOREM CommitsAreAsValidated == Spec => []CommittedIsWhatWasValidated
<1>1. ConsentInv => CommittedIsWhatWasValidated
  BY DEF ConsentInv
<1> QED BY <1>1, ConsentInvariant, PTL
=============================================================================
