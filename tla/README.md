# TraceVeil: a verification project

TraceVeil is an investigation platform for IoT evidence.  A Python backend
(FastAPI, one process, one SQLite connection) imports evidence files, receives
live telemetry from sensors, derives a deterministic analysis of each case and
produces reports; a browser client drives it, and sensors reach it directly
over HTTPS, through an MQTT bridge or over USB.  This directory holds TLA+
modules translated from that code, TLC configurations that check them on small
instances, and TLAPS proofs of theorems about them for every instance.

Paths are relative to `src/`.  `PROJECT.json` maps every definition to the
lines it models and lists runs, mutants, findings, hazards and theorems.

## 1. Inventory

### Threads, locks and shared state

Everything below runs in one process and shares one SQLite connection.  A
reentrant `write_lock` guards the transactions; many reads are made outside it,
and what they return may be stale when it is used.  The threads are:

- the **event loop**: `async def` endpoints, of which `upload_import` and
  `receive_telemetry` call the services without awaiting, so they never overlap
  each other;
- **request threads**: every `def` endpoint runs in a thread pool, so two of
  them, or one and the event loop, interleave freely;
- the **batch worker** and the **phase 3 worker**: one daemon thread each,
  taking entries from a bounded `queue.Queue`;
- the **USB capture thread**, which submits telemetry like the event loop.

When the process starts, each service's recovery runs before its worker exists
and puts back the work that was interrupted.

### Components

| component | state | operations | what is hard | what makes it correct |
|---|---|---|---|---|
| Evidence import (`services/batch.py`) | `import_jobs`, `evidence_metadata`, files named by their SHA-256, queue of 8 | upload, validate, request commit, commit, cancel, recover | stale guards, two reads of one file, full queue, restart anywhere | one committed record per hash and case; consent; what is committed was reviewed; nothing waits for nobody |
| Live ingest (`services/phase3.py` 108-440, 520-600) | `live_sessions`, `live_receipts`, `live_source_sequence_state`, `live_ingest_issues`, `live_evidence_records`, queue of 2048 | start and stop a session, submit, simulate, process a batch, recover | replays, collisions and regressions across sessions; stop against the worker; overflow; restart | a number is accepted once and ascending; a quarantined frame is never evidence; receipts and evidence agree |
| Case analysis (`services/batch.py` 220-290, `phase3.py` 548-600) | `canonical_events`, `analysis_runs` | commit, live reanalysis, requested analysis | all three read, compute and store without a common lock | a run rests on stored events; the same events are one run; no event is left out |
| Reports and e-mail (`phase3.py` 1240-1667) | `reports`, `report_versions`, `approval_records`, `email_drafts`, `delivery_attempts`, PDF files by hash | generate, cancel, approve; draft, edit, approve, send | reads before the transactions, a death around SMTP, analyses that change the alert written about | what is sent was approved as it is; files and rows agree; a recorded delivery is not repeated |
| Live stream (`phase3.py` 676-754, `api/phase3.py` 268-308, `SseLiveDataSource.ts`) | `stream_messages` with a retention limit, cursors of clients | emit, prune, connect, poll, reconnect | pruning behind a slow client, cursor at the edge, a replaced database | a client that comes back sees every message or a reset |
| MQTT bridge (`hardware/mqtt_bridge/bridge.py`) | durable spool, dead letters, acknowledgements | receive, store, post, retry, defer, bury | retries overtaking each other, restart between post and delete | no frame lost or acknowledged before it is durable |
| ESP32 node (`hardware/esp32/traceveil_node`) | ring of un-acked frames, sequence counter | sample, send by MQTT or HTTPS, acknowledge, evict | lost and late acknowledgements, full buffer, reboot | a frame leaves the ring only when the backend has it, or by eviction |
| USB capture (`services/usb_sensor.py`) | one thread, one serial port, its live session | start, stop, flash, take a session, read, submit | a stop in the middle of any of them, sessions started and stopped by others | a stop ends the capture and its session |
| Assistant (`phase3.py` 838-1080) | `assistant_jobs`, `assistant_messages`, the phase 3 queue | ask, process, cancel, recover | cancel against the worker, restart | every question ends answered, failed or cancelled |
| Authentication failures (`phase3.py` 462-509) | sliding windows in a bounded LRU | record, prune, evict | eviction of a window that is not over | audited at the threshold, bounded memory |
| Device register (`phase3.py` 606-665) | `device_states` | touch on submit, connection state | clocks, missed frames | state follows the last frame and the sessions |
| Schema migration (`db/sqlite.py` 329-390) | the tables | add columns, rebuild `email_drafts` | failure between two statements | every restart completes it; no row lost |
| Validation and profiles (`evidence/`) | none | read, check columns and rows, seal | eleven profiles, each with its own idea of a value | what is accepted can be committed; blind files show no answers |
| Normalization (`normalization/`) | none | map records to canonical events | eleven adapters written apart from the profiles | agrees with the profile on what is a good row |
| Analysis algorithms (`analysis/`) | none | detect, correlate, score, order, aggregate | windows, thresholds, silences, limits | a burst is told once, findings are partitioned into incidents, identities survive later events |
| Import workflow (`frontend/src/features/evidence-import`) | reducer of a page | upload, poll, confirm, cancel | late answers after a cancel or a new file | the page shows the import it is about |
| Case and evidence queries, pages, scripts | none of their own | reads, rendering, start-up | nothing concurrent | - |

Interactions: an import commit and a processed receipt both add canonical
events and lead to an analysis run; live ingest emits stream messages that the
browser follows; assistant jobs share the queue of live receipts; the bridge,
the node and the USB thread are the senders whose retries the sequence numbers
of live ingest are made for.

## 2. Plan

| order | module | what it adds | state |
|---|---|---|---|
| 1 | `BatchImport`, `BatchImportProofs` | the import pipeline | done |
| 2 | `SourceLedger`, `LiveIngest`, `LiveIngestProofs` | live ingest and the ledger it implements | done |
| 3 | `CaseAnalysis`, `CaseAnalysisProofs` | analysis runs as shared state of both | done |
| 4 | `ReportDelivery`, `ReportDeliveryProofs` | reports, drafts, approval and SMTP | done |
| 5 | `SensorPath`, `SensorPathProofs` | node, broker, bridge and backend composed: two lossy paths for one frame | done |
| 6 | `Detection`, `CaseFindings`, `CaseFindingsProofs` | what an analysis says: detectors, alerts, incidents, views | done |
| 7 | `EvidenceRecords`, `EvidenceRecordsProofs` | profiles and adapters: which rows are accepted, and what becomes of them at the commit | done |
| 8 | `LiveStream`, `LiveStreamProofs` | emit with retention, gap detection, a browser that reconnects | done |
| 9 | `UsbCapture` | the capture thread against start, stop and the sessions of others | modelled and checked |

Proofs: every safety property that a run checks, invariant or action property,
is a theorem (section 6), and so is the refinement of `SourceLedger`.  What is
left to TLC is liveness under fairness; `UsbCapture` has a liveness property
only.

## 3. Modules and the code

A step of a model is what a thread does between two points at which another
thread can change what it reads: a locked statement or transaction, or one read
of shared state.  A handler with a read outside the lock is therefore two or
more actions, and the record of the thread (`worker`, `loop`, `client`,
`submit`, `thread`) holds what it carries from one to the next.

### BatchImport

| state | code |
|---|---|
| `jobs` | `import_jobs`: case, content, status, evidence_id, allow_partial, error |
| `evidence` | `evidence_metadata`; `events` is what `canonical_events` of the row were made from, `NoBytes` until `committed_at` |
| `disk` | the file named by the digest of each content |
| `queue`, `worker` | the queue and `_run_worker`, with the row `get_import` returned (`seen`) and the bytes read |
| `loop`, `client` | `start_import` on the event loop; `request_commit` and `cancel` in request threads |
| `asked` | history only: which cancels and commits were recorded, and whether with partial acceptance |

A content is a model value and a file is a content, intact or not: two files
have the same hash exactly when they are equal.  Validation is a function of
the bytes; what matters of a report is its verdict.  `BeginUpload`,
`FinishWrite`, `LookUpDuplicate`, `InsertJob` and `QueueValidation` are the
steps of `start_import`; `write_bytes` is two steps, because a death inside it
leaves a partial file.  `ReadForCommit`, `MarkCommitQueued`, `QueueCommit` and
`ReadForCancel`, `WriteCancelled` are the two request handlers.
`ClaimValidation` to `RecordVerdict` are `validate_import`; `RefuseCommit` to
`WriteCommit` are `commit_import`.  `CrashAndRecover` is a process death
followed by `_recover_jobs`; as no thread runs during the recovery, the two are
one step.  `DamageFile` is an alteration of a stored file, which the hash check
of the commit is there for.

### LiveIngest and SourceLedger

| state | code |
|---|---|
| `sessions` | `live_sessions`; their order is that of `started_at` |
| `receipts` | `live_receipts` in order of arrival: session, frame, status, error |
| `highWater` | `live_source_sequence_state`, one mark per source over all sessions |
| `issues` | the frames of `live_ingest_issues` (collisions and regressions) |
| `records` | the receipts that have a row in `live_evidence_records` |
| `queue`, `worker` | the queue (0 is an assistant job) and the batch in the hands of the worker |
| `submit`, `client` | a submitter between its transaction and its `put`; request threads |

`AcceptFrame` and `QuarantineFrame` are the transaction of `submit_live`
(TV5-11); an exact replay changes no table modelled and so is a stutter.
`QueueReceipt` is the put after it.  `CheckSources` and `InsertSession` are
`start_live_session`, `ReadForStop` and `StopSession` are `stop_live_session`,
`Simulate` and `PutSimulated` are `simulate_alert`.  `TakeEntry` collects a
batch; `SkipEntry`, `ClaimReceipt`, `CompleteReceipt` and `ProcessingRaises`
are the processing of one entry.  `CrashAndRecover` is a death and `_recover`.

`SourceLedger` says what this promises to a numbered source: accepted frames
strictly ascend, a frame is recorded at most once, and a dropped one never is.
`Ledger` in `LiveIngest` is the refinement mapping, `ImplementsLedger` the
property.  A stop or a restart drops several frames in one step, hence `Drop(F)`.

### CaseAnalysis

The events of one case, the stored runs and what each thread has read.
`BatchImport` and `LiveIngest` abstract from the analysis that follows a commit
or a batch; this module abstracts from how an event was obtained and models
that analysis: the commit (`BeginCommit`, `AbandonCommit`, `PersistCommit`),
the live reanalysis (`ReadForLive`, `ReanalysisRaises`, `PersistLive`,
`Announce`) and the request for a new run.  Each reads the events, computes,
takes its time, and only then locks.  A run's identifier is a digest of the
events it was computed from, so a run is their set.  `fresh` and `lapsed` are
the live events not yet read by the worker and those whose reanalysis raised.

The module abstracts the content of an analysis; `CaseFindings` has it.

### ReportDelivery

| state | code |
|---|---|
| `report`, `versions` | the row of `reports`, and its `report_versions` by number |
| `files` | the PDFs on disk, named by their hash |
| `drafts`, `attempts` | `email_drafts`, `delivery_attempts` |
| `data`, `notification` | the latest analysis; the row of the alert in `alert_workflow` |
| `thread` | what a request thread read before its transaction |
| `sends`, `messages`, `approvals` | history: how often SMTP had a draft, what went out, what was approved |
| `overtaken`, `doubled` | history: contents over which an approval of another content was written; drafts that two requests were sending at once |

A request thread (`Threads`) takes any request, one at a time.
`ReadForGenerate`, `Compose`, `InsertVersion` are `generate_report`: it reads
the report, writes the file if it is missing, takes the next number, and only
then locks.  `ReadForApproval` and `ApproveReport`, `ReadForEdit` and
`WriteEdit`, `ReadForApproveDraft` and `WriteApproval` are the other handlers
that decide before they lock; `CancelReport` holds the lock throughout.
`CheckForSend`, `Deliver` or `DeliverNothing`, and `RecordOutcome` are
`send_email` with SMTP in the middle; a delivery that raises may have delivered.
`Reanalyze` and `UpdateAlert` change what drafts are pinned to.  `Restart` is a
process death anywhere.  There is one report: a PDF holds its report's
identifier, so reports share no file.

### SensorPath

| state | code |
|---|---|
| `slots`, `aged`, `sequence`, `linked` | the node: `AckBuffer` and the age of its slots, the number in non-volatile storage, the MQTT connection |
| `broker`, `acks` | messages on their way to the bridge, and acknowledgements back |
| `spool`, `dead`, `worker` | the bridge: its two tables and the step its worker is in |
| `accepted` | the receipts of the backend for this source |
| `lost`, `taken`, `faults` | history: what the node dropped itself, what the bridge took; how many faults |

The `Emit...` actions are `deliver_mqtt_mode` by outcome, `RetryAnswered` and
`RetryUnanswered` are `unacked_retry_stale`, `ReceiveAck` is `mqtt_on_message`.
`OnMessage` is the bridge's callback; `TakeRow`, `PostAnswered`, `PostFailed`,
`PostBreaksOff`, `Delivered`, `PublishAck`, `Defer`, `InsertDeadLetter` and
`DeleteBuried` are `process_once`, cut where the process may die.  `Answer` and
`Receive` are what `submit_live` does with a numbered frame of one source:
`LiveIngest` is its detail.  `aged` lists the slots
in use from the oldest to the youngest, which is all that `evict_oldest` and
the retries ask of `sent_at_ms`; a reconnection stamps all of them in the order
of the slots (`BySlot`).

### Detection and CaseFindings

A case is a sequence of events; an event is a kind (a record of what its source
reports) and a time.  `Detection` holds one operator per detector
(`MaliciousLabel`, `RequestRate`, `AuthenticationFailures`, `BaselineSpikes`,
`TelemetryRateChange`, `NetworkBehaviors`), each giving candidates: rule,
entity, supporting and trigger events.  The loops of the code that carry
something from one item to the next are of two forms, and each form is one
operator over a set of items and a key that orders them: `Marks`, a scan that
marks an item depending on the one it marked last (the silence of a rule after
it fired, a jump up and back), and `Sessionize`, a grouping that starts a new
group at a gap, a span or a full group (label records, findings of an
incident).  `CaseFindings` adds risk, alerts, incidents, timeline, graph
and activity windows (`analysis/risk.py` to `analysis/aggregates.py`) and one
action, `Arrive`, which appends an event and analyses the case again.
`Raises` says when that fails: what the analysis derives is put in the models of
`analysis/schemas.py`, whose limits nothing enforces where events come in, and
one value they refuse raises.  There is one operator for each part of the result:
a finding (`FindingRefused`: events, class, labels and configured labels quoted
by it, the metric it names), an edge of the graph (`EdgeRefused`: events and
relationships), a number a float cannot hold (`NumberTooLarge`), a baseline
(`BaselineRefused`: metric, samples, finite mean and threshold), a chart
(`ChartRefused`: class and calendar), and the ten most frequent classes of a
minute (`MostCommon`).  Texts are values with a `Length`, numbers past
`Overflow` are no floats, and `Calendar` holds the times of the charts.  The code
sorts events before anything else, so a case is reached by appending in
observed order; what a late event changes is not stated (see `AlertsPersist`).

### EvidenceRecords

A row is a function from columns to classes of values (`Values`): a kind, how
long the value is as a text, and how long the token made of it.  That tells
apart what the validators, the parsers and the limits of the canonical schema
do: 32 characters for a protocol, 64 for a type, an action and an outcome, 128
and 256 for the others (normalization/schemas.py:75-117).  `TooLong` names the
limit that meets each column, whatever the kind of its value.  `Validate` is
`validate_import` with the profile's rules (`Checks`, `Simulation`,
`Forbidden`) and the seal of `evidence/authorization.py`; `Commit` is
`commit_import` as far as the adapters (`Adapter`, one operator per source) and
the canonical schema go; `Submit` and `Process` are the same two points of a
live message.  `Unforeseen` names the ways in which the two are known to
disagree (section 4).

### LiveStream

| state | code |
|---|---|
| `log`, `issued` | `stream_messages` and its AUTOINCREMENT |
| `file` | which database file the server runs on |
| `link`, `reset`, `cursor` | a connection: the result of `stream_gap`, the generator's position |
| `lastId` | the private field of `SseLiveDataSource` |
| `sent`, `got`, `excused` | history: messages of the case, those received, those a reset told the browser to fetch |
| `early`, `unseen` | history: messages pruned before the browser had any identifier, and those dropped without a word |

`Emit` is one transaction with both prunings.  A message bears the time that its
thread read before it took the lock (phase3.py:677), and the clock may be set, so
the order of the identifiers is not that of the times: any of the messages may
be past their hours, and the log may have a hole in the middle.  `Connect` looks for the gap, `Begin` sends the reset when
the generator starts, which is a step later, `Poll` is one turn of the generator
and may break in the middle.  `Rebuild` is a restart on a fresh database file,
which `stream_gap` names as the reason for `cursor_ahead`.

### UsbCapture

`at` is where `_run` is, `found` the rows `_session` read, `mine` its session;
`sessions` are the `live_sessions` that hold the source.  `Fail` may happen at
every step of the thread, because every call it makes may raise.  Requests:
`Start` (nothing while the thread lives), `Stop` (sets the event; the join of
five seconds only delays the answer), and `StartSession` and `StopSession` of
the live API beside it.

## 4. Runs

Passing runs:

| run | instance | checks | shows |
|---|---|---|---|
| `races` | 1 case, 1 partly accepted content, 2 request threads (symmetric), 2 uploads, queue of 1, 1 restart | `TypeOK`, `OneCommitPerHash`, `CommittedWithConsent`, `SettledPointsAtCommitted`, `QueuedIsHeld` | two uploads of the same file race each other, commits and cancels, over an overflowing queue and a restart |
| `files` | a partly accepted and a rejected content, 1 request thread, 2 uploads, queue of 1, 1 restart, 1 alteration, fair threads | `CommittedIsWhatWasValidated`, `CommitInv`, `UncancelledSettles` | the file may change between upload, review and commit; imports settle |
| `sequence` | 1 source, numbers 0 and 1 or none, 2 bodies, 2 sessions, 2 receipts, queue of 1, batches of 2, 1 restart, fair threads | `QuarantineIsFinal`, `QuarantineInv`, `ImplementsLedger`, `ReceiptsSettle` | replay, collision and regression within and across sessions |
| `receipts` | 2 submitters, 2 request threads (both symmetric), 2 sessions, 3 receipts, queue of 2, batches and simulations of 2, 1 restart | `TypeOK`, `CompletedIsRecorded`, `QueuedIsHeld`, `GivenUpIsFinal` | stop, simulation, submission, overflow, batch and recovery in every order |
| `runs` | 2 live and 2 imported events, 1 analyst, 4 times, 1 failure, 1 restart | `TypeOK`, `RunsRestOnStoredEvents`, `RunsAreDistinct`, `EventsAreAnalysed`, `AnalysisInv` | three writers of runs in every order |
| `reports` | 1 report, 1 draft with 1 text, 2 request threads (symmetric) of which each takes any request, 4 analyses of which 2 lack the alert, 2 messages | `TypeOK`, `VersionsAreFiled`, `RowShowsLatest`, `SentIsNotified`, `OnlyOvertakenIsUnapproved`, `OnlyOverlapIsResent` | handlers that read before they lock, in every order; deliveries whose outcome is unknown, restarts; the only ways to send what was not approved, and to send twice |
| `path` | 2 numbers, 1 slot, spool of 2, 2 attempts, 2 messages on the way, 2 faults, fair node and worker | `TypeOK`, `ReleasedIsAccepted`, `SpooledIsKept`, `RefusedStaysRefused`, `SpoolDrains`, `AcceptedIsReleased` | a frame on both paths at once, lost acknowledgements, power cuts and restarts |
| `analysis` | every case of up to 5 events at times 0 to 4 (or none) of 10 feeds: logins, flows, telemetry, labelled records, a mix, and five of names, numbers, metrics, classes and labels the result has no room for; thresholds of 2, windows of 1, limits of 1 to 4 (edges list 3 events and 1 relationship), charts from time 1 on | `FindingsSound`, `IncidentsPartitionFindings`, `AlertsPersist` | detectors against statements of what they should find; what an analysis cannot complete on |
| `records` | files of all eleven sources and live messages whose rows differ from a good one in one or two columns, every kind of value in each, and texts on both sides of 32, 64, 128 and 256 characters | `AcceptedNormalizes`, `BlindStaysBlind` | what validation accepts and the commit refuses |
| `stream` | 2 cases, 4 messages, log of 2 from which any may pass their hours, reads of 2, 1 fresh database file | `GapsAnnounced` | a browser that connects, reads and breaks off anywhere |
| `usb` | 2 cases, 2 captures, 2 sessions of others, 1 process death, fair thread | `StopIsHonoured` | a stop at every point of a capture |

Why the bounds are enough: every hazard listed involves at most two actors of a
kind (two uploads of one file, two commits, a stop against the worker), one
restart separates a before and an after, and a queue of 1 or 2 overflows with
the receipts or imports available.  Two numbers give the mark a below and an
above, two bodies a collision, two sessions the "in any session" of the lookup,
three receipts a batch with one more behind it.  Four times let the commit, the
live worker and the analyst take theirs in every order and one do so again.
Four analyses let an alert be there, vanish and come back changed, twice; two
give a draft a second content.  Each of the two threads of `reports` takes any
request, so that any edit, approval, check or record may come between two steps
of another; the races of the reports are all between two.  A
buffer of one slot is full with one frame; a spool of two has a row that is
overtaken.  In `analysis` five events are three more than any threshold and one
more than any limit, and the times reach past two windows, so that a group
passes a threshold, is silenced, and passes it again; every way of raising was
seen there as the only one, but for the limits that the configuration may pass,
which are constants.  A log of two with four
messages has a cursor inside, at the edge of, and behind the window.  (Five
messages were checked once, in longer than a run should take.)  What the bounds
cannot show, any number of these, is what the proofs are for.

`CHECK_DEADLOCK FALSE` is set wherever the system may rest: the service is
quiet when its queues are empty and nobody asks for anything, and the bounds
end every behaviour.

Symmetry is used only in runs without liveness properties or refinement, over
threads that run the same code; sessions, receipts and imports are ordered and
are not symmetric.

One run ends in a violation of a statement of the repository, quoted under
"findings" in `PROJECT.json`: `trigger` refutes `AnalysisCompletes`
(deterministic-analysis.md:37).  Four failed flows and one that succeeds: the
burst is found again at the last flow, which is not among the events that
support it, and this and every later analysis of the case raises.

### Statements the code does not keep

The following are defined in the modules and refuted by TLC on the instance
named; no run is kept for them, and the properties of the passing runs are
stated so that they hold beside them.

| property | instance | what happens |
|---|---|---|
| `PollingEnds` (investigation-api.md:55) | `BatchImport`, 1 import, `FairSpec` | an import cancelled in the queue is marked `validating` before the cancel is looked at (batch.py:142), and stays so |
| `CompletedImmutable` (batch.py:282) | `BatchImport`, 1 import, 2 clients | a cancel decided before the commit overwrites `completed` |
| `FailedCommitsNothing` (test_batch_api.py:282) | the same, queue of 2 | two commit requests; the second entry fails an import whose evidence is committed |
| `ReportHashesUpload` (evidence-validation.md:12) | the same, 1 restart | a death inside `write_bytes` leaves a file that the next upload does not rewrite |
| `OneActiveSessionPerSource` (step-5-testing.md:203) | `LiveIngest`, 2 clients, 2 sessions | two starts check before either inserts |
| `AcceptedBecomesEvidence` (step-5-live-iot.md:228) | `LiveIngest`, queue of 1, 2 receipts, `FairSpec` | an accepted frame meets a full queue; its retry is answered as a replay |
| `AnnouncedIsFresh` (comment at phase3.py:580) | `CaseAnalysis`, no failures | the run announced is looked up by time, and a commit that read earlier may be latest |
| `LossIsDocumented` (step-5-live-iot.md:154) | `SensorPath`, 3 numbers, 2 slots, no faults | a frame still on its way over MQTT is overtaken by a later one posted over HTTPS and refused for ever |
| `SpoolAlwaysDrains` (bridge.py:19) | `SensorPath`, no faults, `FairSpec` | a reply that is late or breaks off raises past the handler of `URLError` and ends the bridge's worker thread |
| `TiesAreOrdered` (deterministic-analysis.md:97) | `CaseFindings`, as in `analysis` | an alert's entry has the observed time of its trigger as its time of ingestion, and is shown before the finding it was made from |
| `SentWasApproved` (step-11-verification.md:64) | `ReportDelivery`, as in `reports` | an edit between the read and the write of an approval is approved unread, and sent |
| `SentIsNotResent` (step-11-verification.md:81) | the same | two requests pass the check before either records, and the second delivers after the delivery is on record |
| `GapNeverSilent` (roadmap.md:196) | `LiveStream`, as in `stream` | a message is pruned under an open connection, which never looks for a gap again |
| `ResumedIsComplete` (comment at phase3.py:744) | `LiveStream`, 3 messages, log of 3, no fresh file | a message in the middle of the log passes its hours while an earlier identifier stays, and the browser is told that nothing is missing |

`OnlyOvertakenIsUnapproved`, `OnlyOverlapIsResent` and `GapsAnnounced` of the
passing runs say that there is no other way to break the promises of
`SentWasApproved`, `SentIsNotResent`, and `GapNeverSilent` with
`ResumedIsComplete`; they are theorems.

Other behaviour the models contain and no sentence of the repository
contradicts outright:

- imports: a cancel acknowledged after the commit's last look at the status is
  overwritten by the commit;
- analysis runs: a death between the recording of live events and their
  reanalysis leaves them in no run until one is asked for (`EventsAreAnalysed`
  is stated without restarts for that reason), and one between the mark and the
  message of a new alert (phase3.py:574) loses the message; a thread that read
  before others stored may store the latest run, which then lacks their events
  (they are in an earlier one, which is what `EventsAreAnalysed` says);
- reports: a report generated between the read and the write of an approval is
  approved with the hash of its old version, and a generation that read first
  takes an approval back; a death between SMTP and the record lets a draft be
  sent twice; a delivery whose outcome is unknown clears `sent_at` of one that
  was recorded meanwhile;
- findings: an event with the time of an earlier one, or an earlier time, can
  change which event triggers a rule, and with it the identity of an alert; a
  label session is identified by all its events and changes with each; two
  incidents of one component whose anchors are equal, kept apart only by a
  finding that went over the 4096 events of an incident, may have the same
  events, hence the same identifier, and the insert of the analysis would fail
  (correlation.py:156 and 346, the primary key of `analysis_artifacts`); events
  of equal time are ordered by identifier in `stable_sort` and otherwise by the
  timeline (timeline.py:72-80);
- analyses that raise (`Raises`): two entities with more than 4096 events or 32
  actions in common, a class longer than 128 characters or the labels of a
  session longer than 256 together, a metric whose name is longer than 117
  characters where it is reported and 128 where it has a baseline, a time before 1677
  or after 2262, a number no float holds and finite ones whose mean or
  threshold is not, and a configuration with more than 256 baseline samples, more
  than 512 events for a rule, or a long list of labels.  Each was accepted long
  before, and fails every analysis of its case from then on;
- records (`Unforeseen`): a row is accepted and then refused at the commit, and
  with it the whole file, when a HAI row has no metric, a time is a number or a
  date beyond the calendar, a text is longer than the canonical schema allows
  (a CASAS message or a connection state of 65 characters, a protocol of 33), an
  optional time of the generic or CIC profile cannot be parsed, a generic row
  keeps its time under a second name while the first is empty, or two columns
  share a normalized name; a live message with an action or outcome longer than
  64 characters is accepted and its receipt fails later;
- blind files: a forbidden column is looked for by its exact name, so
  `Attack-Type` passes where `attack_type` does not, and names no list has
  (`attack_P1`, `class` for IoT-23) pass for all;
- stream: a message pruned before the browser has any identifier is skipped
  without a reset, as a fresh connection is no gap; `id: 0` of a reset does not move
  the browser's cursor (`Number(...) || this.lastId`); a fresh database whose
  log has grown past the browser's cursor is taken for the old one.

Every property of a passing run has a mutant, a faulty variant defined beside
the definition it replaces and marked as such (`...Unbounded`, `Reset...`,
`...Anytime`, `...OffByOne`); TLC finds the property violated under it.

## 5. Fairness

`FairSpec` of `BatchImport` and of `LiveIngest` assumes weak fairness of the
steps of a thread that is inside a handler or holds an entry: the interpreter
schedules every runnable thread, locks are held for one transaction only, and
the workers loop forever.  Weak fairness of the worker as a whole is enough,
because the loop always has one next step, and which outcome (success or an
exception) it has is left open.  Nothing is assumed of users, sensors, process
deaths or altered files.  `ReceiptsSettle` and `UncancelledSettles` hold under
these; `PollingEnds` and `AcceptedBecomesEvidence` fail under them, so their
counterexamples are not threads that merely stop.

`FairSpec` of `SensorPath` has weak fairness of the bridge's worker
(`run_worker` calls `process_once` for ever, and every post has a timeout) and
strong fairness of `RetryAnswered` for each slot: the node's loop retries every
slot as long as it is held, and the backend answers some of the posts.  Nothing
is assumed of MQTT.  `Spec` of `UsbCapture` has weak fairness of the thread as
a whole: every call it blocks in (serial reads, flashing, the wait for the
first reading) has a timeout, after which it goes on or raises.

## 6. Proofs

The proofs assume only the named assumptions on the constants
(`BatchConstants`, `LiveConstants`, `AnalysisConstants`, `StreamConstants`,
`DeliveryConstants`, `PathConstants`, `FileConstants`, `ConfigConstants`):
bounds are naturals, there is a draft and a text, and the sets are not confused
with one another.  `ConfigConstants` is what the validators of `AnalysisConfig`
accept (analysis/config.py) and that a known class has a score of 0 to 100; the
`AnalysisConstants` of `CaseFindings` say that a kind has a finite set of
metrics, and that a finding may not list more events than an incident (512 and
4096 in the code); `FileConstants` that the rows of a file are functions from a
finite set of columns to classes of values, that a file is of a known profile,
and that a live message is one row of the telemetry profile.  Nothing else is assumed finite except through
the bounds, so the theorems hold for any number of cases, contents, sources,
sessions, threads, receipts, frames, rows, events and restarts.  Every inductive
invariant was checked by TLC on the instance of its component's run before it
was proved.

**BatchImportProofs.**  `TypeCorrect`, then `CommitInvariant`.  The property
wanted, `OneCommitPerHash`, is not inductive: the duplicate check and the write
that relies on it are separate steps of the worker.  `CommitInv` adds what is
carried between them: `WorkerRelies` (at "write", no row of the case with that
hash is committed, which only the worker itself could change), `RowsOfImports`
(the evidence_id of an import names a row of its own case, a reviewed import
has one, and so does what a request thread or an upload read earlier) and
`RefsAreKnown` (nothing refers to an import before it is inserted).  Steps are
grouped by what they disturb: those that touch neither status nor evidence
(`QuietKeepsInv`), uploads, request threads, the three worker steps that write
rows, recovery.  `EvidenceCommittedOnce` and `SettledImportsAreCommitted`
follow by projection.

Two more invariants stand beside `CommitInv`.
`QueuedIsHeld`: an import in a waiting status is in the queue, with the worker,
or with the one thread about to put it; a step hands it from one holder to the
next (`HandedOver`, `StillHeld`), and recovery, which reads the rows in an
order that lists each of them and puts them until the queue is full, fails those
it cannot put (`RecoverDoes`).
`ConsentInv` is about what was asked and what was shown.  `CommittedWithConsent`
and `CommittedIsWhatWasValidated` relate a commit to a request and a report that
may lie several steps, another thread and a restart back, so it says where
these are in between: an import is validated by one report only, because nobody
validates again once there is one (`ValidatedOnce`); whoever goes on with a
review, including a thread that read the status earlier, has a report that is
not a rejection, and the worker at the write has the bytes that report is about
(`ReviewHolds`); and every commit under way, in a row, a queue entry, a request
thread or the worker, was asked for, with the partial acceptance it carries
(`CommitsWereAsked`).  As each part reads most of the state, the steps are first
summarised: what a step may change of imports and evidence (`StepGrows`), that
it validates once (`StepValidatesOnce`), and which moves of rows, clients, queue
and worker there are (`StepMoves`).  The parts follow from the summaries alone.

**LiveIngestProofs.**  `TypeCorrect`, with lemmas for what rewriting one field
of a sequence of receipts preserves (`Rewritten`, `Restated`, `Moved`).
`QuarantinedStaysOut` and `NumbersAcceptedOnce` come from `QuarantineInv`: a
quarantined frame is barred because its number is taken by a receipt with other
content or lies below the mark of its source, both of which only grow
(`BarredStays`); a receipt never changes its frame (`RestatedFrames`), so the
only steps that matter are the acceptance, the quarantine and the simulation.
`CompletedIsRecorded` and `QueuedIsHeld` come from `HolderInv`: at any time one
thread is answerable for a receipt.  A receipt somebody is about to put is not
yet for the worker and nobody else puts it (`PutsAreExclusive`); one in
"processing" is the entry in the worker's hands (`ProcessingIsHeld`), which is
why it is completed once and counted once for its session.  A stop may cancel
a receipt whose entry is still in the queue or the batch: the claim looks at the
status again, hence `GivenUpForGood`.  Recovery puts the receipts back, each of
them once, until the queue is full.  `LedgerImplemented` needs `LedgerInv` (the two invariants
and that the mark of a source is not below any number accepted): initial states
map to initial states and each step to `Accept`, `Record`, one `Drop` of all the
frames a stop or a recovery gives up, or a stutter, for every source at once.

**CaseAnalysisProofs.**  One invariant, `AnalysisInv`: what a thread has read
is stored (`ReadsAreStored`), the live worker's events are in what it read and
later in a run (`FreshIsRead`, which is why the worker must not record while it
analyses), and a latest run exists (`LatestExists`, which gives the announced
run its type).  From it: `RunsAreGrounded`, `AnalysesAreStoredOnce`,
`NoEventIsForgotten`.

**LiveStreamProofs.**  `GapsAnnounced` speaks of what is behind the browser's
position and is not inductive: what the next turn will jump over must be there
already.  The log has no order to rely on, since a message may go from its
middle.  `StreamInv` therefore says only that it holds messages of this file
(`LogIsCurrent`), and that everything an open connection has yet to read, or a
browser that comes back, is in the log or accounted for (`NothingSkipped`), unless
the log no longer reaches back to the browser's identifier (`TooOld`), when it
will be told.  `TooOld` is lost only when a message gets an identifier the browser
believes it has, in a fresh file, and that message is noted.  Below it are facts
on the operators: `ReadingFacts` (one reading leaves no hole in what it read),
`GapFacts` (an answer of `stream_gap` without reset means that the log is not
too old for the cursor), and `LogEnds`, that the minimum and the maximum the
query asks for exist, by the well-foundedness of the naturals.  Then one lemma
for each action.

**ReportDeliveryProofs.**  `ReportInv` says what a thread in the middle of a
handler relies on: one about to approve read a generated report, and between
the write of a PDF and the insert of its version the file is there unless the
report was deleted meanwhile.
`VersionsStayFiled` and `RowIsLatest` follow, for any number of threads;
`SentAlertsAreNotified` is inductive with the types.
`UnapprovedWasOvertaken` and `OnlyOverlapsAreResent` hold for any number of
request threads, texts, drafts, analyses and restarts; nothing in the code
serialises these threads, and no hypothesis does.  `ApprovalInv` follows a
content from the read of the draft to the message: what an approved row holds,
and what is being sent, was approved, or was there when an approval of
something else was written.  `SentInv` follows the record of a sending to the
time of sending in the row, which is what a later write of an editor must not
clear: for a draft that no two requests were sending at once, the one sending it
is alone, and once its record is there nobody is about to send.

**SensorPathProofs.**  `PathInv` holds what the three properties of the path
share.  Nothing is acknowledged that the backend does not have, and the worker
acts on what it was answered about the row it still holds (`WorkerCarries`):
"2xx" means that the frame arrived, "terminal" that its number is behind the
mark and not accepted, which no later step can change (`ReceiveGrows`), and a
row is deleted after its dead letter only when that is there.  From
it: a slot is freed by an acknowledgement or an answer only after the receipt
(`ReleasedWasAccepted`), the bridge loses no frame it spooled whatever dies
between its statements (`SpooledStaysKept`), and a refused frame stays refused
(`RefusedForGood`).  Steps of the node and of the bridge are kept apart
(`NodeMoves`, `BridgeMoves`): they share only the broker, the acknowledgements
and the backend.  Below are facts on sequences: what removing a place of one
leaves (`RemoveAtIs`, `OthersStay`), and that the order of age names every slot
in use once when a frame joins, leaves or becomes the youngest (`LeavesOrder`,
`JoinsOrder`, `BySlotOrders`).

**EvidenceRecordsProofs.**  Profiles and adapters were written apart, so the
heart is one lemma per source: a row that passed the checks of the profile, and
is not among the named exceptions, gets through the adapter of that source.
`ProfilesAgreeWithAdapters` collects them.  The attempt at HAI showed that the
exceptions first written down were too few: a row without its device, type or
source name also passes the profile and fails the adapter, and `Unforeseen` now
says so.  `RecordsInv` carries this over the two steps of an upload: only a file
without errors waits for its commit, and only a well-formed message is queued.
From it `AcceptedRowsNormalize`, `BlindFilesStayBlind`, and
`CommitsAllOrNothing`: the seal made at the first validation stops no row at the
commit, so a commit records an event of every accepted row or none at all.
Rows are functions over any set of columns and files have any number of rows;
TLC enumerates the rows that differ from a good one in one or two columns.

**CaseFindingsProofs.**  The state is simple and its values are not.
`AnalysisInv` says that the events are a case in observed order and that the
analysis stored is that of all of them unless it raised; everything else is a
statement about the operators that make it, for every case, threshold, window
and limit.  The layers are:

- *Scans* (`ScanExists`, `MarksScan`, `ScansAgree`): there is one set that a
  scan can mark.  The argument takes a least counterexample among the subsets of
  a finite set (`MinimalSubset`, from the well-foundedness of strict inclusion)
  and needs no recursion.
- *Sessions* (`SessionsPartition`, `SessionHead`, `SessionEnd`): the groups of
  `Sessionize` partition the items, none is longer than the span or fuller than
  the limit, and if two items with one time are in different groups, a full
  group lies between them.
- *Detectors*: the shape of every candidate (`CandidateShape`) and that there
  are finitely many (`DetectFinite`).  `BurstsReported` is `TriggersScan` over
  the groups: where a rule is over its threshold it fired within the window, and
  two of its triggers are more than a window apart.  `RaisesOnly` says, of the
  events alone, when an analysis raises: by the shapes, only the burst of failures
  can have a trigger outside its support and no finding lists more than its rule
  collects; what a finding quotes is a class, a label or a metric of an event
  (`Quoted`); the rest are the limits of edges, charts and baselines themselves.
  `LabelsPartition` is the partition of the label records of each key.
- *Incidents* (`ComponentsPartition`, `FindingsAreConnected`, `SessionFacts`):
  a component is the least closed set of events, a finding lies in one component
  and there in one session.  That incidents differ in their events is true only
  up to a corner the proof attempt found (section 4); the property names it, and
  `SameEvents` shows that it is the only one, whatever order the identifiers give
  to findings of one time.
- *Points* (`CountOfFive`, `AheadFacts`, `AllocateFacts`): in the largest
  remainder method the points left over are fewer than five and not negative,
  the number of factors ahead of a factor is a rank, no two factors have the same,
  so exactly as many factors get one more point as there are points left
  (`PointsReconcile`).
- *Views* (`ViewsFollow`): an entry of a finding never precedes its events; a
  node's risk is reached by an incident it is in; at least half of the minutes
  are not above the median (`SmallestIs`), hence fewer than half stand out; the
  chart by minute and origin adds up to the activity windows.
- *Later events* (`MarksGrow`, `TriggersGrow`, `AlertsGrow`): a scan does not
  look ahead, so an event that comes last leaves what was marked before.  With
  the invariant `AlertsKept`, which spans analyses that raised, this gives
  `AlertsArePersistent`.

`FindingsAreSound` is the conjunction of the parts.  For these proofs the
detectors are written with sets of events instead of sequences; the order of a
case is the order of its numbers.

Only model-checked: liveness under fairness, which is out of the prover's reach:
`UncancelledSettles`, `ReceiptsSettle`, `SpoolDrains`, `AcceptedIsReleased`,
`StopIsHonoured`.

## 7. Not modelled

- The life of an assistant job beyond its place in the queue of `LiveIngest`:
  it is processed by the same worker as a receipt, once more after a restart,
  and writes its answer and its status in one transaction.  Prompts and answers
  are text.
- The device register: one row per device, written in the transaction modelled
  as `AcceptFrame`; what is shown is a function of that row and the clock.
- The audit of authentication failures (phase3.py:462-509): counters in memory.
  Its one hazard is that the window of a caller is evicted from the bounded map
  before its minute is over, and its failures are counted from nothing.
- Schema migration: it runs before any thread exists, and what matters is how
  SQLite ends a failed script (the rebuild at sqlite.py:352 turns foreign keys
  off for its duration).
- The browser's import page: it polls the states of `BatchImport`.  It shows
  success for a commit that was answered `cancelled`, because it does not look
  at the state of the answer (ImportEvidencePage.tsx:74).
- SMTP settings, PDF layout, React rendering, generated API types, start-up
  scripts, document tooling, TLS and certificates: text, or no state of their
  own.
- Within what is modelled: audit rows, the rate limit, malformed bodies (they
  leave no receipt), the pause between two simulations (any time may pass),
  entities and addresses of normalized events, and a database that fails in the
  middle of a healthy process (phase3.py:558 would mark a completed receipt
  failed).
