--------------------------- MODULE ReportDelivery ---------------------------
(***************************************************************************)
(* Reports and notification e-mail of backend/app/services/phase3.py: a    *)
(* report is generated, approved or cancelled; a draft about the report or *)
(* about an alert is created, edited, approved and sent.  Every handler    *)
(* reads first and writes later in a transaction of its own, so request    *)
(* threads interleave between the two; SMTP sits between a check and the   *)
(* transaction that records the outcome.                                   *)
(*                                                                         *)
(* There is one report and one alert of one case: the PDF holds its report *)
(* id, so reports share no file.  A text stands for recipient, subject and *)
(* body; a version of the case's data stands for the PDF and the alert's   *)
(* payload made from it, as their hashes do.  Reading a draft and then its *)
(* anchor is one step, since neither read depends on the other.            *)
(* Left out: audit rows, wording and layout, unknown identifiers, the SMTP *)
(* settings, and a process death inside write_bytes.                       *)
(***************************************************************************)
EXTENDS Integers, Sequences, FiniteSets, SequencesExt

CONSTANTS
    Drafts,         \* ids of e-mail drafts
    Texts,
    Allowed,        \* the texts whose recipient is in an allowed domain
    MaxData,        \* analyses of the case
    MaxVersions,    \* versions of the report before the model stops generating
    Gone,           \* the analyses that have no such alert
    Threads,        \* request threads, any of which takes any request
    MaxSends        \* messages the model lets go out for one draft

Data == 1..MaxData
None == 0           \* no hash, or no such alert

ASSUME DeliveryConstants ==
    /\ Drafts # {} /\ Texts # {} /\ Allowed \subseteq Texts
    /\ MaxData \in Nat \ {0} /\ MaxVersions \in Nat /\ Gone \subseteq Data
    /\ MaxSends \in Nat

VARIABLES
    data,           \* the latest analysis of the case
    report,         \* its row: [status, hash]
    versions,       \* report_versions by number: [hash, approved]
    files,          \* the PDFs in report_storage
    drafts,         \* email_drafts
    approvals,      \* approval_records
    notification,   \* notification_status of the alert
    attempts,       \* delivery_attempts: [draft, sent]
    sends,          \* history: how often a draft was handed to SMTP and accepted
    messages,       \* history: what went out
    overtaken,      \* history: what a row held when an approval of other content was written
    doubled,        \* history: drafts a request began to send while another was sending them
    thread          \* the request threads

vars == <<data, report, versions, files, drafts, approvals, notification,
          attempts, sends, messages, overtaken, doubled, thread>>

Hashes == Data \cup {None}
Contents == [text : Texts, anchor : Data]     \* what a draft's hash covers

ReportStatus == {"draft", "generated", "approved", "deleted"}
DraftStatus == {"absent", "draft", "approved", "sent", "delivery_unknown"}
NoContent == [text |-> CHOOSE t \in Texts : TRUE, anchor |-> 1]
NoDraft == [subject |-> "report", content |-> NoContent, status |-> "absent", sent |-> FALSE]
Idle == [at |-> "idle", draft |-> CHOOSE d \in Drafts : TRUE, content |-> NoContent, hash |-> None, number |-> 0]

VersionRows == [hash : Data, approved : BOOLEAN]
DraftRows == [subject : {"report", "alert"}, content : Contents, status : DraftStatus, sent : BOOLEAN]
Slots == [at : {"idle", "compose", "insert", "approve", "edit", "approve draft",
                "deliver", "record sent", "record unknown"},
          draft : Drafts, content : Contents, hash : Hashes, number : Nat]

TypeOK ==
    /\ data \in Data
    /\ report \in [status : ReportStatus, hash : Hashes]
    /\ versions \in Seq(VersionRows) /\ files \subseteq Data
    /\ drafts \in [Drafts -> DraftRows]
    /\ approvals \subseteq [draft : Drafts, content : Contents] \cup [report : Data]
    /\ notification \in {"no row", "not_requested", "by hand", "delivered", "delivery_failed"}
    /\ attempts \subseteq [draft : Drafts, sent : BOOLEAN]
    /\ sends \in [Drafts -> 0..MaxSends]
    /\ messages \subseteq [draft : Drafts, content : Contents]
    /\ overtaken \subseteq [draft : Drafts, content : Contents] /\ doubled \subseteq Drafts
    /\ thread \in [Threads -> Slots]

AlertIn(n) == IF n \in Gone THEN None ELSE n

Init ==
    /\ data = 1
    /\ report = [status |-> "draft", hash |-> None]
    /\ versions = << >> /\ files = {}
    /\ drafts = [d \in Drafts |-> NoDraft]
    /\ approvals = {}
    /\ notification = IF AlertIn(1) = None THEN "no row" ELSE "not_requested"
    /\ attempts = {} /\ sends = [d \in Drafts |-> 0] /\ messages = {}
    /\ overtaken = {} /\ doubled = {}
    /\ thread = [c \in Threads |-> Idle]

-----------------------------------------------------------------------------
(* The case and its alert. *)

\* Faulty variant of Noticed: the row of the alert is replaced.
NoticedAfresh == "not_requested"
Noticed == IF notification = "no row" THEN "not_requested" ELSE notification

\* A new analysis; the row of an alert it has is inserted unless there is one.
Reanalyze ==
    /\ data < MaxData /\ data' = data + 1
    /\ notification' = IF AlertIn(data') = None THEN notification ELSE Noticed
    /\ UNCHANGED <<report, versions, files, drafts, approvals, attempts, sends, messages, overtaken, doubled, thread>>

\* update_alert_workflow: without a status of its own it keeps the one there is.
UpdateAlert(own) ==
    /\ notification # "no row"
    /\ notification' = IF own THEN "by hand" ELSE notification
    /\ UNCHANGED <<data, report, versions, files, drafts, approvals, attempts, sends, messages, overtaken, doubled, thread>>

-----------------------------------------------------------------------------
(* The report. *)

CaseFrame == UNCHANGED <<data, notification>>
MailFrame == UNCHANGED <<drafts, attempts, sends, messages, overtaken, doubled>>

Goes(c, r) == thread' = [thread EXCEPT ![c] = r]

ReadForGenerate(c) ==
    /\ thread[c].at = "idle" /\ report.status \in {"draft", "generated"}
    /\ Len(versions) < MaxVersions
    /\ Goes(c, [Idle EXCEPT !.at = "compose"])
    /\ CaseFrame /\ MailFrame /\ UNCHANGED <<report, versions, files, approvals>>

\* The PDF of the case as it is now, then the number of the next version.
Compose(c) ==
    /\ thread[c].at = "compose"
    /\ files' = files \cup {data}
    /\ Goes(c, [Idle EXCEPT !.at = "insert", !.hash = data, !.number = Len(versions) + 1])
    /\ CaseFrame /\ MailFrame /\ UNCHANGED <<report, versions, approvals>>

\* Faulty variant of Insertable: no foreign key and no unique number.
InsertableAlways(c) == TRUE
\* The number is still free and the report is still there, or the insert fails.
Insertable(c) == thread[c].number = Len(versions) + 1 /\ report.status # "deleted"

\* Faulty variant of InsertVersion: a taken number is ignored and the row of
\* the report is updated all the same.
InsertOrIgnore(c) ==
    /\ thread[c].at = "insert"
    /\ IF Insertable(c)
       THEN versions' = Append(versions, [hash |-> thread[c].hash, approved |-> FALSE])
       ELSE UNCHANGED versions
    /\ report' = IF report.status = "deleted" THEN report
                 ELSE [status |-> "generated", hash |-> thread[c].hash]
    /\ Goes(c, Idle)
    /\ CaseFrame /\ MailFrame /\ UNCHANGED <<files, approvals>>

InsertVersion(c) ==
    /\ thread[c].at = "insert"
    /\ IF Insertable(c)
       THEN /\ versions' = Append(versions, [hash |-> thread[c].hash, approved |-> FALSE])
            /\ report' = [status |-> "generated", hash |-> thread[c].hash]
       ELSE UNCHANGED <<versions, report>>
    /\ Goes(c, Idle)
    /\ CaseFrame /\ MailFrame /\ UNCHANGED <<files, approvals>>

ReadForApproval(c) ==
    /\ thread[c].at = "idle" /\ report.status = "generated"
    /\ Goes(c, [Idle EXCEPT !.at = "approve", !.hash = report.hash])
    /\ CaseFrame /\ MailFrame /\ UNCHANGED <<report, versions, files, approvals>>

\* The record is written with the hash read, whatever version is the latest.
ApproveReport(c) ==
    /\ thread[c].at = "approve"
    /\ IF report.status = "deleted" THEN UNCHANGED <<report, versions>>
       ELSE /\ report' = [report EXCEPT !.status = "approved"]
            /\ versions' = [versions EXCEPT ![Len(versions)].approved = TRUE]
    /\ approvals' = approvals \cup {[report |-> thread[c].hash]}
    /\ Goes(c, Idle)
    /\ CaseFrame /\ MailFrame /\ UNCHANGED files

\* cancel_report holds the lock throughout; drafts refer to the report.
CancelReport ==
    /\ report.status = "generated"
    /\ \A d \in Drafts : drafts[d].subject = "report" => drafts[d].status = "absent"
    /\ files' = files \ {versions[n].hash : n \in DOMAIN versions}
    /\ versions' = << >> /\ report' = [status |-> "deleted", hash |-> None]
    /\ CaseFrame /\ MailFrame /\ UNCHANGED <<approvals, thread>>

-----------------------------------------------------------------------------
(* Drafts. *)

ReportFrame == UNCHANGED <<report, versions, files>>

\* _draft_anchor: the hash a draft is pinned to, None if there is no subject.
Pinned(subject) == IF subject = "alert" THEN AlertIn(data) ELSE report.hash
Anchor(d) == Pinned(drafts[d].subject)

ReportApproved(subject) == subject = "alert" \/ report.status = "approved"

InsertDraft(d, subject, t) ==
    /\ drafts[d].status = "absent"
    /\ drafts' = [drafts EXCEPT ![d] = [subject |-> subject, status |-> "draft", sent |-> FALSE,
                                        content |-> [text |-> t, anchor |-> Pinned(subject)]]]
    /\ CaseFrame /\ ReportFrame /\ UNCHANGED <<approvals, attempts, sends, messages, overtaken, doubled, thread>>

\* Faulty variant of CreateDraft: nobody looks for the subject.
CreateDraftUnchecked(d, subject, t) == InsertDraft(d, subject, t)

\* create_email_draft and create_artifact_email_draft.
CreateDraft(d, subject, t) ==
    /\ Pinned(subject) # None /\ ReportApproved(subject)
    /\ InsertDraft(d, subject, t)

Editable(d) == drafts[d].status \notin {"absent", "delivery_unknown"} /\ ~drafts[d].sent

ReadForEdit(c, d, t) ==
    /\ thread[c].at = "idle" /\ Editable(d) /\ Anchor(d) # None
    /\ Goes(c, [Idle EXCEPT !.at = "edit", !.draft = d, !.content = [text |-> t, anchor |-> Anchor(d)]])
    /\ CaseFrame /\ ReportFrame /\ MailFrame /\ UNCHANGED approvals

\* Faulty variant of Edited: the time of sending is reset.
EditedUnsent(d, content) == [drafts[d] EXCEPT !.content = content, !.status = "draft", !.sent = FALSE]
Edited(d, content) == [drafts[d] EXCEPT !.content = content, !.status = "draft"]

\* update_email_draft: any approval is revoked, sent_at is not touched.
WriteEdit(c) ==
    /\ thread[c].at = "edit"
    /\ drafts' = [drafts EXCEPT ![thread[c].draft] = Edited(thread[c].draft, thread[c].content)]
    /\ Goes(c, Idle)
    /\ CaseFrame /\ ReportFrame
    /\ UNCHANGED <<approvals, attempts, sends, messages, overtaken, doubled>>

\* Faulty variant of HashHolds: the anchor is not looked at again.
HashHoldsAlways(d) == TRUE
HashHolds(d) == drafts[d].content.anchor = Anchor(d)

ReadForApproveDraft(c, d) ==
    /\ thread[c].at = "idle" /\ Editable(d)
    /\ Anchor(d) # None /\ ReportApproved(drafts[d].subject) /\ HashHolds(d)
    /\ Goes(c, [Idle EXCEPT !.at = "approve draft", !.draft = d, !.content = drafts[d].content])
    /\ CaseFrame /\ ReportFrame /\ MailFrame /\ UNCHANGED approvals

\* approve_email: the row is approved whatever it holds by now; the record
\* names the content that was read.
WriteApproval(c) ==
    /\ thread[c].at = "approve draft"
    /\ drafts' = [drafts EXCEPT ![thread[c].draft].status = "approved"]
    /\ approvals' = approvals \cup {[draft |-> thread[c].draft, content |-> thread[c].content]}
    /\ LET d == thread[c].draft IN
        overtaken' = IF drafts[d].content = thread[c].content THEN overtaken
                     ELSE overtaken \cup {[draft |-> d, content |-> drafts[d].content]}
    /\ Goes(c, Idle)
    /\ CaseFrame /\ ReportFrame /\ UNCHANGED <<attempts, sends, messages, doubled>>

-----------------------------------------------------------------------------
(* send_email. *)

\* A request is on its way from its check to its record.
Sends(c, d) == thread[c].at \in {"deliver", "record sent", "record unknown"} /\ thread[c].draft = d
IsSending(d) == \E c \in Threads : Sends(c, d)

CheckForSend(c, d) ==
    /\ thread[c].at = "idle"
    /\ drafts[d].status = "approved" /\ ~drafts[d].sent
    /\ Anchor(d) # None /\ ReportApproved(drafts[d].subject) /\ HashHolds(d)
    /\ drafts[d].content.text \in Allowed
    /\ Goes(c, [Idle EXCEPT !.at = "deliver", !.draft = d,
                    !.content = [text |-> drafts[d].content.text, anchor |-> Anchor(d)]])
    /\ doubled' = IF IsSending(d) THEN doubled \cup {d} ELSE doubled
    /\ CaseFrame /\ ReportFrame /\ UNCHANGED <<drafts, approvals, attempts, sends, messages, overtaken>>

\* SMTP takes the message; the reply may still be an error or a timeout.
Deliver(c) ==
    /\ thread[c].at = "deliver"
    /\ sends[thread[c].draft] < MaxSends
    /\ sends' = [sends EXCEPT ![thread[c].draft] = @ + 1]
    /\ messages' = messages \cup {[draft |-> thread[c].draft, content |-> thread[c].content]}
    /\ \E outcome \in {"record sent", "record unknown"} : Goes(c, [thread[c] EXCEPT !.at = outcome])
    /\ CaseFrame /\ ReportFrame /\ UNCHANGED <<drafts, approvals, attempts, overtaken, doubled>>

DeliverNothing(c) ==
    /\ thread[c].at = "deliver"
    /\ Goes(c, [thread[c] EXCEPT !.at = "record unknown"])
    /\ CaseFrame /\ ReportFrame /\ MailFrame /\ UNCHANGED approvals

\* _sync_alert_notification: only an alert's draft speaks for an alert.
Notifies(d, sent) ==
    IF drafts[d].subject = "report" THEN notification
    ELSE IF sent THEN "delivered" ELSE "delivery_failed"

\* One transaction: the attempt, the draft, the alert it is about, the audit.
RecordOutcome(c) ==
    /\ thread[c].at \in {"record sent", "record unknown"}
    /\ LET d == thread[c].draft
           sent == thread[c].at = "record sent"
       IN /\ drafts' = [drafts EXCEPT ![d].status = IF sent THEN "sent" ELSE "delivery_unknown",
                                      ![d].sent = sent]
          /\ attempts' = attempts \cup {[draft |-> d, sent |-> sent]}
          /\ notification' = Notifies(d, sent)
    /\ Goes(c, Idle)
    /\ ReportFrame /\ UNCHANGED <<data, approvals, sends, messages, overtaken, doubled>>

\* The process dies and is started again: its threads are gone.
Restart ==
    /\ \E c \in Threads : thread[c].at # "idle"
    /\ thread' = [c \in Threads |-> Idle]
    /\ ReportFrame /\ MailFrame /\ UNCHANGED <<data, notification, approvals>>

Next ==
    \/ Reanalyze
    \/ \E own \in BOOLEAN : UpdateAlert(own)
    \/ \E c \in Threads : ReadForGenerate(c) \/ Compose(c) \/ InsertVersion(c)
                          \/ ReadForApproval(c) \/ ApproveReport(c)
    \/ CancelReport
    \/ \E d \in Drafts, subject \in {"report", "alert"}, t \in Texts : CreateDraft(d, subject, t)
    \/ \E c \in Threads, d \in Drafts : ReadForApproveDraft(c, d) \/ \E t \in Texts : ReadForEdit(c, d, t)
    \/ \E c \in Threads : WriteEdit(c) \/ WriteApproval(c)
    \/ \E c \in Threads : \/ \E d \in Drafts : CheckForSend(c, d)
                          \/ Deliver(c) \/ DeliverNothing(c) \/ RecordOutcome(c)
    \/ Restart

Spec == Init /\ [][Next]_vars

-----------------------------------------------------------------------------
\* A message carries a text and a subject that were approved together: an edit,
\* a regenerated report or a changed alert in between is refused
\* (docs/step-11-verification.md:64).  The code breaks it: an edit between the
\* read and the write of an approval is approved unread.
SentWasApproved == messages \subseteq approvals

\* That is the only way: what went out without approval of its text and subject
\* is what a draft held when an approval of other content was written to it.
OnlyOvertakenIsUnapproved == messages \subseteq approvals \cup overtaken

Recorded(d) == [draft |-> d, sent |-> TRUE] \in attempts

\* Once an attempt is on record as sent the draft is never handed to SMTP again,
\* whatever an edit or an approval that read it before writes after
\* (step-11-verification.md:81).  The code breaks it: two requests may pass the
\* check before either records.
SentIsNotResent == [][\A d \in Drafts : Recorded(d) => sends'[d] = sends[d]]_vars

\* That is the only way: a draft no two requests were sending at the same time
\* is not sent again, by any number of threads.
OnlyOverlapIsResent ==
    [][\A d \in Drafts \ doubled : Recorded(d) => sends'[d] = sends[d]]_vars

\* Every version a report still has is on disk, whatever a cancel unlinked
\* while another thread was generating.
VersionsAreFiled == \A n \in DOMAIN versions : versions[n].hash \in files

\* The hash in the report's row, which drafts are pinned to and senders attach,
\* is that of its latest version, whichever of two generating threads came last.
RowShowsLatest ==
    report.status \in {"generated", "approved"} => /\ versions # << >>
                                                   /\ Last(versions).hash = report.hash

\* The alert list and the drafts agree: an alert whose notification was sent
\* is not shown as one for which none was requested (phase3.py:1534).
SentIsNotified ==
    (\E d \in Drafts : drafts[d].subject = "alert" /\ drafts[d].status = "sent")
        => notification \in {"delivered", "delivery_failed", "by hand"}

-----------------------------------------------------------------------------
(* Why these hold: what a thread carries from its read to its write. *)

\* A thread about to insert a version has its PDF on disk as long as the
\* report is there, and one about to approve has read a generated report.
ThreadsHoldReports ==
    \A c \in Threads :
        /\ thread[c].at \in {"insert", "approve"} => thread[c].hash \in Data
        /\ thread[c].at = "insert" /\ report.status # "deleted" => thread[c].hash \in files
        /\ thread[c].at = "approve" => report.status # "draft"

ReportInv ==
    /\ TypeOK /\ ThreadsHoldReports /\ VersionsAreFiled /\ RowShowsLatest
    /\ report.status = "deleted" => versions = << >>

\* A row that says approved and a message about to go out both hold what there
\* is a record of, or what overtook an approval.
ApprovalInv ==
    /\ TypeOK /\ OnlyOvertakenIsUnapproved
    /\ \A d \in Drafts : drafts[d].status = "approved" =>
            [draft |-> d, content |-> drafts[d].content] \in approvals \cup overtaken
    /\ \A c \in Threads : thread[c].at = "deliver" =>
            [draft |-> thread[c].draft, content |-> thread[c].content] \in approvals \cup overtaken

\* One request at a time sends a draft that is not among the doubled; one whose
\* sending is on record keeps its time of sending, and nobody is about to send
\* it.
SentInv ==
    /\ TypeOK
    /\ \A d \in Drafts : drafts[d].sent => drafts[d].status # "absent"
    /\ \A d \in Drafts \ doubled :
            /\ Recorded(d) => drafts[d].sent /\ ~IsSending(d)
            /\ \A c, e \in Threads : Sends(c, d) /\ Sends(e, d) => c = e
=============================================================================
