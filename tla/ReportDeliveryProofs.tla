------------------------- MODULE ReportDeliveryProofs -------------------------
(***************************************************************************)
(* Proofs about reports and notification e-mail: what the tables and the   *)
(* disk agree on whatever threads interleave between their reads and their *)
(* writes, and that what goes out unapproved or twice does so only by the  *)
(* two races of approve_email and send_email; for any number of drafts,    *)
(* texts, analyses, versions and threads.                                  *)
(***************************************************************************)
EXTENDS ReportDelivery, TLAPS

-----------------------------------------------------------------------------
(* Threads. *)

LEMMA Bounds == MaxData \in Nat /\ MaxData # 0 /\ MaxSends \in Nat
BY DeliveryConstants

LEMMA OneMore == ASSUME NEW m \in Nat, NEW n \in 0..m, n < m PROVE n + 1 \in 0..m
OBVIOUS

LEMMA First == 1 \in Data /\ None \in Hashes
BY Bounds DEF Data, Hashes

LEMMA IdleTyped ==
    /\ Idle \in Slots /\ NoContent \in Contents /\ NoDraft \in DraftRows
    /\ Idle.at = "idle"
BY DeliveryConstants DEF Idle, Slots, NoContent, Contents, NoDraft, DraftRows, DraftStatus, Data, Hashes, None

\* One thread moves on, the others stay where they are.
LEMMA Gone1 ==
    ASSUME TypeOK, NEW c \in Threads, NEW w, Goes(c, w)
    PROVE  /\ w \in Slots => thread' \in [Threads -> Slots]
           /\ thread'[c] = w
           /\ \A e \in Threads : e # c => thread'[e] = thread[e]
BY DEF TypeOK, Goes

\* What a thread is given on its way.
LEMMA SlotTyped ==
    ASSUME NEW at \in {"compose", "insert", "approve", "edit", "approve draft", "deliver"},
           NEW d \in Drafts, NEW k \in Contents, NEW h \in Hashes, NEW n \in Nat
    PROVE  /\ [Idle EXCEPT !.at = at] \in Slots
           /\ [Idle EXCEPT !.at = at, !.hash = h] \in Slots
           /\ [Idle EXCEPT !.at = at, !.hash = h, !.number = n] \in Slots
           /\ [Idle EXCEPT !.at = at, !.draft = d, !.content = k] \in Slots
           /\ [Idle EXCEPT !.at = at].at = at
           /\ [Idle EXCEPT !.at = at, !.hash = h].at = at
           /\ [Idle EXCEPT !.at = at, !.hash = h].hash = h
           /\ [Idle EXCEPT !.at = at, !.hash = h, !.number = n].at = at
           /\ [Idle EXCEPT !.at = at, !.hash = h, !.number = n].hash = h
           /\ [Idle EXCEPT !.at = at, !.draft = d, !.content = k].at = at
           /\ [Idle EXCEPT !.at = at, !.draft = d, !.content = k].draft = d
           /\ [Idle EXCEPT !.at = at, !.draft = d, !.content = k].content = k
BY IdleTyped DEF Slots

\* The facts about a typed state the steps below use.
LEMMA Typed ==
    ASSUME TypeOK
    PROVE  /\ data \in Data /\ data \in Nat /\ report.status \in ReportStatus /\ report.hash \in Hashes
           /\ versions \in Seq(VersionRows) /\ Len(versions) \in Nat
           /\ DOMAIN versions = 1..Len(versions)
           /\ \A n \in DOMAIN versions : versions[n].hash \in Data
           /\ \A d \in Drafts : drafts[d] \in DraftRows /\ drafts[d].content \in Contents
           /\ \A c \in Threads : /\ thread[c] \in Slots /\ thread[c].draft \in Drafts
                                 /\ thread[c].content \in Contents /\ thread[c].hash \in Hashes
<1>1. /\ data \in Data /\ report \in [status : ReportStatus, hash : Hashes]
      /\ versions \in Seq(VersionRows)
      /\ drafts \in [Drafts -> DraftRows] /\ thread \in [Threads -> Slots]
  BY DEF TypeOK
<1>2. DOMAIN versions = 1..Len(versions) /\ Len(versions) \in Nat
      /\ \A n \in DOMAIN versions : versions[n] \in VersionRows
  BY <1>1
<1>6. \A n \in DOMAIN versions : versions[n].hash \in Data
  BY <1>2 DEF VersionRows
<1>3. \A d \in Drafts : drafts[d] \in DraftRows /\ drafts[d].content \in Contents
  BY <1>1 DEF DraftRows
<1>4. \A c \in Threads : /\ thread[c] \in Slots /\ thread[c].draft \in Drafts
                         /\ thread[c].content \in Contents /\ thread[c].hash \in Hashes
  BY <1>1 DEF Slots
<1>5. data \in Nat
  BY <1>1, DeliveryConstants DEF Data
<1> QED BY <1>1, <1>2, <1>3, <1>4, <1>5, <1>6

\* What a draft can be pinned to.
LEMMA PinnedTyped ==
    ASSUME TypeOK, NEW subject \in {"report", "alert"}, Pinned(subject) # None
    PROVE  Pinned(subject) \in Data
BY Typed DEF Pinned, AlertIn, Hashes

-----------------------------------------------------------------------------
(* The report. *)

\* The hash in the row of a generated or approved report is one of a PDF.
LEMMA RowHash ==
    ASSUME ReportInv, report.status \in {"generated", "approved"}
    PROVE  report.hash \in Data /\ Len(versions) \in DOMAIN versions
<1>1. versions # << >> /\ versions[Len(versions)].hash = report.hash
  BY DEF ReportInv, RowShowsLatest, Last
<1>2. TypeOK
  BY DEF ReportInv
<1>3. versions \in Seq(VersionRows) /\ DOMAIN versions = 1..Len(versions) /\ Len(versions) \in Nat
  BY <1>2, Typed
<1>4. Len(versions) # 0
  BY <1>1, <1>3
<1> QED BY <1>1, <1>2, <1>3, <1>4, Typed

\* A step that leaves the report alone and sends no thread to write about it.
LEMMA ReportKept ==
    ASSUME ReportInv, TypeOK', ReportFrame,
           \A c \in Threads : thread'[c] = thread[c] \/ thread'[c].at \notin {"insert", "approve"}
    PROVE  ReportInv'
<1>1. ThreadsHoldReports'
  BY DEF ReportInv, ThreadsHoldReports, ReportFrame
<1>2. VersionsAreFiled' /\ RowShowsLatest'
  BY DEF ReportInv, VersionsAreFiled, RowShowsLatest, ReportFrame
<1> QED BY <1>1, <1>2 DEF ReportInv, ReportFrame

LEMMA ReadForGenerateKeeps ==
    ASSUME ReportInv, NEW c \in Threads, ReadForGenerate(c)
    PROVE  ReportInv'
<1>1. TypeOK /\ c \in Threads
  BY DEF ReportInv
<1>2. [Idle EXCEPT !.at = "compose"] \in Slots /\ [Idle EXCEPT !.at = "compose"].at = "compose"
  BY IdleTyped DEF Slots
<1>3. /\ thread' \in [Threads -> Slots] /\ thread'[c].at = "compose"
      /\ \A e \in Threads : e # c => thread'[e] = thread[e]
  BY <1>1, <1>2, Gone1 DEF ReadForGenerate
<1>4. TypeOK'
  BY <1>1, <1>3 DEF ReadForGenerate, CaseFrame, MailFrame, TypeOK
<1> QED BY <1>3, <1>4, ReportKept DEF ReadForGenerate, ReportFrame

LEMMA ComposeKeeps ==
    ASSUME ReportInv, NEW c \in Threads, Compose(c)
    PROVE  ReportInv'
<1>1. TypeOK /\ c \in Threads
  BY DEF ReportInv
<1>2. PICK w : w = [Idle EXCEPT !.at = "insert", !.hash = data, !.number = Len(versions) + 1]
  OBVIOUS
<1>3. data \in Data /\ data \in Hashes /\ Len(versions) + 1 \in Nat
  BY <1>1, Typed DEF Hashes
<1>4. w \in Slots /\ w.at = "insert" /\ w.hash = data
  BY <1>2, <1>3, IdleTyped DEF Slots
<1>5. /\ thread' \in [Threads -> Slots] /\ thread'[c] = w
      /\ \A e \in Threads : e # c => thread'[e] = thread[e]
  BY <1>1, <1>2, <1>4, Gone1 DEF Compose
<1>6. /\ files' = files \cup {data} /\ UNCHANGED <<report, versions, approvals, data, notification>>
      /\ UNCHANGED <<drafts, attempts, sends, messages, overtaken, doubled>>
  BY DEF Compose, CaseFrame, MailFrame
<1>7. TypeOK'
  BY <1>1, <1>3, <1>5, <1>6 DEF TypeOK
<1>8. ThreadsHoldReports'
  BY <1>3, <1>4, <1>5, <1>6 DEF ReportInv, ThreadsHoldReports
<1>9. VersionsAreFiled' /\ RowShowsLatest'
  BY <1>6 DEF ReportInv, VersionsAreFiled, RowShowsLatest
<1> QED BY <1>6, <1>7, <1>8, <1>9 DEF ReportInv

LEMMA InsertVersionKeeps ==
    ASSUME ReportInv, NEW c \in Threads, InsertVersion(c)
    PROVE  ReportInv'
<1>1. TypeOK /\ c \in Threads /\ thread[c].at = "insert" /\ thread[c].hash \in Data
  BY DEF ReportInv, ThreadsHoldReports, InsertVersion
<1>2. /\ thread' \in [Threads -> Slots] /\ thread'[c].at = "idle"
      /\ \A e \in Threads : e # c => thread'[e] = thread[e]
  BY <1>1, IdleTyped, Gone1 DEF InsertVersion
<1>3. /\ UNCHANGED <<files, approvals, data, notification>>
      /\ UNCHANGED <<drafts, attempts, sends, messages, overtaken, doubled>>
  BY DEF InsertVersion, CaseFrame, MailFrame
<1>4. CASE ~Insertable(c)
  <2>1. UNCHANGED <<versions, report>>
    BY <1>4 DEF InsertVersion
  <2>2. TypeOK'
    BY <1>1, <1>2, <1>3, <2>1 DEF TypeOK
  <2> QED BY <1>2, <1>3, <2>1, <2>2, ReportKept DEF ReportFrame
<1>5. CASE Insertable(c)
  <2>1. PICK row : row = [hash |-> thread[c].hash, approved |-> FALSE]
    OBVIOUS
  <2>2. /\ versions' = Append(versions, row)
        /\ report' = [status |-> "generated", hash |-> thread[c].hash]
    BY <1>5, <2>1 DEF InsertVersion
  <2>3. row \in VersionRows /\ row.hash = thread[c].hash /\ versions \in Seq(VersionRows)
    BY <1>1, <2>1, Typed DEF VersionRows
  <2>4. /\ versions' \in Seq(VersionRows) /\ Len(versions') = Len(versions) + 1 /\ Len(versions) \in Nat
        /\ DOMAIN versions' = 1..(Len(versions) + 1) /\ DOMAIN versions = 1..Len(versions)
        /\ versions'[Len(versions) + 1] = row
        /\ \A n \in 1..Len(versions) : versions'[n] = versions[n]
    BY <2>2, <2>3
  <2>5. report' \in [status : ReportStatus, hash : Hashes] /\ report'.status = "generated"
        /\ report'.hash = thread[c].hash
    BY <1>1, <2>2 DEF ReportStatus, Hashes
  <2>6. TypeOK'
    BY <1>1, <1>2, <1>3, <2>4, <2>5 DEF TypeOK
  <2>7. report.status # "deleted"
    BY <1>5 DEF Insertable
  <2>8. ThreadsHoldReports'
    BY <1>2, <1>3, <2>5, <2>7 DEF ReportInv, ThreadsHoldReports
  <2>9. VersionsAreFiled'
    <3>1. thread[c].hash \in files
      BY <1>1, <2>7 DEF ReportInv, ThreadsHoldReports
    <3>2. \A n \in 1..(Len(versions) + 1) : n \in 1..Len(versions) \/ n = Len(versions) + 1
      BY <2>4
    <3>3. \A n \in 1..Len(versions) : versions[n].hash \in files
      BY <2>4 DEF ReportInv, VersionsAreFiled
    <3> QED BY <1>3, <2>3, <2>4, <3>1, <3>2, <3>3 DEF VersionsAreFiled
  <2>10. RowShowsLatest'
    <3>1. versions' # << >>
      BY <2>4
    <3> QED BY <2>3, <2>4, <2>5, <3>1 DEF RowShowsLatest, Last
  <2> QED BY <2>5, <2>6, <2>8, <2>9, <2>10 DEF ReportInv
<1> QED BY <1>4, <1>5

LEMMA ReadForApprovalKeeps ==
    ASSUME ReportInv, NEW c \in Threads, ReadForApproval(c)
    PROVE  ReportInv'
<1>1. TypeOK /\ c \in Threads
  BY DEF ReportInv
<1>2. PICK w : w = [Idle EXCEPT !.at = "approve", !.hash = report.hash]
  OBVIOUS
<1>3. report.status = "generated" /\ report.hash \in Data
  BY RowHash DEF ReadForApproval
<1>4. w \in Slots /\ w.at = "approve" /\ w.hash = report.hash
  BY <1>2, <1>3, IdleTyped DEF Slots, Hashes
<1>5. /\ thread' \in [Threads -> Slots] /\ thread'[c] = w
      /\ \A e \in Threads : e # c => thread'[e] = thread[e]
  BY <1>1, <1>2, <1>4, Gone1 DEF ReadForApproval
<1>6. UNCHANGED <<report, versions, files, approvals, data, notification, drafts, attempts, sends, messages, overtaken, doubled>>
  BY DEF ReadForApproval, CaseFrame, MailFrame
<1>7. TypeOK'
  BY <1>1, <1>5, <1>6 DEF TypeOK
<1>8. ThreadsHoldReports'
  BY <1>3, <1>4, <1>5, <1>6 DEF ReportInv, ThreadsHoldReports
<1>9. VersionsAreFiled' /\ RowShowsLatest'
  BY <1>6 DEF ReportInv, VersionsAreFiled, RowShowsLatest
<1> QED BY <1>6, <1>7, <1>8, <1>9 DEF ReportInv

LEMMA ApproveReportKeeps ==
    ASSUME ReportInv, NEW c \in Threads, ApproveReport(c)
    PROVE  ReportInv'
<1>1. /\ TypeOK /\ c \in Threads /\ thread[c].at = "approve" /\ thread[c].hash \in Data
      /\ report.status # "draft"
  BY DEF ReportInv, ThreadsHoldReports, ApproveReport
<1>2. /\ thread' \in [Threads -> Slots] /\ thread'[c].at = "idle"
      /\ \A e \in Threads : e # c => thread'[e] = thread[e]
  BY <1>1, IdleTyped, Gone1 DEF ApproveReport
<1>3. /\ UNCHANGED <<files, data, notification, drafts, attempts, sends, messages, overtaken, doubled>>
      /\ approvals' = approvals \cup {[report |-> thread[c].hash]}
  BY DEF ApproveReport, CaseFrame, MailFrame
<1>4. approvals' \subseteq [draft : Drafts, content : Contents] \cup [report : Data]
  <2>1. approvals \subseteq [draft : Drafts, content : Contents] \cup [report : Data]
    BY <1>1 DEF TypeOK
  <2>2. [report |-> thread[c].hash] \in [report : Data]
    BY <1>1
  <2> QED BY <1>3, <2>1, <2>2
<1>5. CASE report.status = "deleted"
  <2>1. UNCHANGED <<report, versions>>
    BY <1>5 DEF ApproveReport
  <2>2. TypeOK'
    BY <1>1, <1>2, <1>3, <1>4, <2>1 DEF TypeOK
  <2> QED BY <1>2, <1>3, <2>1, <2>2, ReportKept DEF ReportFrame
<1>6. CASE report.status # "deleted"
  <2>1. /\ report' = [report EXCEPT !.status = "approved"]
        /\ versions' = [versions EXCEPT ![Len(versions)].approved = TRUE]
    BY <1>6 DEF ApproveReport
  <2>2. report \in [status : ReportStatus, hash : Hashes] /\ report.status \in {"generated", "approved"}
    BY <1>1, <1>6 DEF TypeOK, ReportStatus
  <2>3. /\ report' \in [status : ReportStatus, hash : Hashes]
        /\ report'.status = "approved" /\ report'.hash = report.hash
    BY <2>1, <2>2 DEF ReportStatus
  <2>4. /\ versions \in Seq(VersionRows) /\ DOMAIN versions = 1..Len(versions) /\ Len(versions) \in Nat
        /\ \A n \in DOMAIN versions : versions[n] \in VersionRows
    <3>1. versions \in Seq(VersionRows)
      BY <1>1, Typed
    <3> QED BY <3>1
  <2>5. DOMAIN versions' = DOMAIN versions
    BY <2>1
  <2>6. ASSUME NEW n \in DOMAIN versions
        PROVE  versions'[n] \in VersionRows /\ versions'[n].hash = versions[n].hash
    <3>1. versions'[n] = versions[n] \/ versions'[n] = [versions[n] EXCEPT !.approved = TRUE]
      BY <2>1
    <3> QED BY <2>4, <3>1 DEF VersionRows
  <2>7. versions' \in Seq(VersionRows) /\ Len(versions') = Len(versions)
    <3>1. versions' \in [1..Len(versions) -> VersionRows]
      BY <2>1, <2>4, <2>5, <2>6
    <3> QED BY <2>4, <3>1
  <2>8. TypeOK'
    BY <1>1, <1>2, <1>3, <1>4, <2>3, <2>7 DEF TypeOK
  <2>9. ThreadsHoldReports'
    BY <1>2, <1>3, <1>6, <2>3 DEF ReportInv, ThreadsHoldReports
  <2>10. VersionsAreFiled'
    BY <1>3, <2>5, <2>6 DEF ReportInv, VersionsAreFiled
  <2>11. RowShowsLatest'
    <3>1. Len(versions) \in DOMAIN versions /\ versions[Len(versions)].hash = report.hash
      BY <2>2, RowHash DEF ReportInv, RowShowsLatest, Last
    <3>2. versions' # << >>
      BY <2>4, <2>7, <3>1
    <3> QED BY <2>3, <2>6, <2>7, <3>1, <3>2 DEF RowShowsLatest, Last
  <2> QED BY <2>3, <2>8, <2>9, <2>10, <2>11 DEF ReportInv
<1> QED BY <1>5, <1>6

LEMMA CancelKeeps ==
    ASSUME ReportInv, CancelReport
    PROVE  ReportInv'
<1>1. /\ versions' = << >> /\ report' = [status |-> "deleted", hash |-> None]
      /\ files' \subseteq files
      /\ UNCHANGED <<data, notification, drafts, attempts, sends, messages, overtaken, doubled, approvals, thread>>
  BY DEF CancelReport, CaseFrame, MailFrame
<1>2. report'.status = "deleted" /\ report' \in [status : ReportStatus, hash : Hashes]
  BY <1>1 DEF ReportStatus, Hashes
<1>3. TypeOK'
  <2>1. TypeOK /\ << >> \in Seq(VersionRows)
    BY DEF ReportInv
  <2> QED BY <1>1, <1>2, <2>1 DEF TypeOK
<1>4. ThreadsHoldReports'
  BY <1>1, <1>2 DEF ReportInv, ThreadsHoldReports
<1> QED BY <1>1, <1>2, <1>3, <1>4 DEF ReportInv, VersionsAreFiled, RowShowsLatest

-----------------------------------------------------------------------------
(* The case, drafts and delivery leave the report alone. *)

LEMMA CaseKeeps == ReportInv /\ (Reanalyze \/ \E own \in BOOLEAN : UpdateAlert(own)) => ReportInv'
<1> SUFFICES ASSUME ReportInv, Reanalyze \/ \E own \in BOOLEAN : UpdateAlert(own) PROVE ReportInv'
  OBVIOUS
<1>1. /\ data' = data \/ (data < MaxData /\ data' = data + 1)
      /\ notification' \in {notification, Noticed, "by hand"}
      /\ UNCHANGED <<report, versions, files, drafts, approvals, attempts, sends, messages, overtaken, doubled, thread>>
  BY DEF Reanalyze, UpdateAlert
<1>2. data' \in Data
  <2>1. data \in Data
    BY DEF ReportInv, TypeOK
  <2>2. data' = data \/ (data < MaxData /\ data' = data + 1)
    BY <1>1
  <2> QED BY <2>1, <2>2, Bounds DEF Data
<1>3. TypeOK'
  BY <1>1, <1>2 DEF ReportInv, TypeOK, Noticed
<1> QED BY <1>1, <1>3, ReportKept DEF ReportFrame

LEMMA CreateKeeps ==
    ASSUME ReportInv, NEW d \in Drafts, NEW subject \in {"report", "alert"}, NEW t \in Texts,
           CreateDraft(d, subject, t)
    PROVE  ReportInv'
<1>1. PICK row : /\ row = [subject |-> subject, status |-> "draft", sent |-> FALSE,
                           content |-> [text |-> t, anchor |-> Pinned(subject)]]
                 /\ drafts' = [drafts EXCEPT ![d] = row]
  BY DEF CreateDraft, InsertDraft
<1>2. /\ UNCHANGED <<data, notification, report, versions, files, approvals, attempts, sends, messages, overtaken, doubled, thread>>
      /\ Pinned(subject) # None
  BY DEF CreateDraft, InsertDraft, CaseFrame, ReportFrame
<1>3. row \in DraftRows
  BY <1>1, <1>2, PinnedTyped DEF ReportInv, DraftRows, DraftStatus, Contents
<1>4. TypeOK'
  BY <1>1, <1>2, <1>3 DEF ReportInv, TypeOK
<1> QED BY <1>2, <1>4, ReportKept DEF ReportFrame

\* A thread has read a draft.
LEMMA ReadKeeps ==
    ASSUME ReportInv, NEW c \in Threads, NEW d \in Drafts, NEW content \in Contents,
           NEW at \in {"edit", "approve draft", "deliver"},
           Goes(c, [Idle EXCEPT !.at = at, !.draft = d, !.content = content]),
           UNCHANGED <<data, notification, report, versions, files, drafts, attempts, sends, messages, approvals, overtaken>>,
           doubled' \subseteq Drafts
    PROVE  /\ ReportInv'
           /\ thread'[c].at = at /\ thread'[c].draft = d /\ thread'[c].content = content
           /\ \A e \in Threads : e # c => thread'[e] = thread[e]
<1>1. TypeOK /\ c \in Threads
  BY DEF ReportInv
<1>2. PICK w : w = [Idle EXCEPT !.at = at, !.draft = d, !.content = content]
  OBVIOUS
<1>3. w \in Slots /\ w.at = at /\ w.draft = d /\ w.content = content
  BY <1>2, IdleTyped DEF Slots
<1>4. /\ thread' \in [Threads -> Slots] /\ thread'[c] = w
      /\ \A e \in Threads : e # c => thread'[e] = thread[e]
  BY <1>1, <1>2, <1>3, Gone1
<1>5. TypeOK'
  BY <1>1, <1>4 DEF TypeOK
<1>6. ReportInv'
  BY <1>3, <1>4, <1>5, ReportKept DEF ReportFrame
<1> QED BY <1>3, <1>4, <1>6

\* The anchor of a draft that exists, as a thread reads it.
LEMMA AnchorTyped ==
    ASSUME TypeOK, NEW d \in Drafts, Anchor(d) # None
    PROVE  Anchor(d) \in Data
<1>1. drafts[d].subject \in {"report", "alert"}
  BY Typed DEF DraftRows
<1> QED BY <1>1, PinnedTyped DEF Anchor

LEMMA EditorKeeps ==
    ASSUME ReportInv, NEW c \in Threads, NEW d \in Drafts, NEW t \in Texts,
           ReadForApproveDraft(c, d) \/ ReadForEdit(c, d, t)
    PROVE  ReportInv'
<1>1. TypeOK /\ UNCHANGED <<data, notification, report, versions, files, drafts, attempts, sends, messages, approvals, overtaken, doubled>>
  BY DEF ReportInv, ReadForApproveDraft, ReadForEdit, CaseFrame, ReportFrame, MailFrame
<1>2. CASE ReadForApproveDraft(c, d)
  <2>1. drafts[d].content \in Contents
    BY <1>1, Typed
  <2> QED BY <1>1, <1>2, <2>1, ReadKeeps DEF ReadForApproveDraft, TypeOK
<1>3. CASE ReadForEdit(c, d, t)
  <2>1. PICK content : content = [text |-> t, anchor |-> Anchor(d)]
    OBVIOUS
  <2>2. content \in Contents
    BY <1>1, <1>3, <2>1, AnchorTyped DEF ReadForEdit, Contents
  <2> QED BY <1>1, <1>3, <2>1, <2>2, ReadKeeps DEF ReadForEdit, TypeOK
<1> QED BY <1>2, <1>3

\* What a draft becomes.
LEMMA DraftWritten ==
    ASSUME TypeOK, NEW d \in Drafts, NEW content \in Contents, NEW st \in DraftStatus, NEW sent \in BOOLEAN
    PROVE  /\ [drafts[d] EXCEPT !.content = content, !.status = st] \in DraftRows
           /\ [drafts EXCEPT ![d].status = st] \in [Drafts -> DraftRows]
           /\ [drafts EXCEPT ![d].status = st, ![d].sent = sent] \in [Drafts -> DraftRows]
<1>1. drafts[d] \in DraftRows /\ drafts \in [Drafts -> DraftRows]
  BY Typed DEF TypeOK
<1>2. /\ [drafts[d] EXCEPT !.content = content, !.status = st] \in DraftRows
      /\ [drafts[d] EXCEPT !.status = st] \in DraftRows
      /\ [drafts[d] EXCEPT !.status = st, !.sent = sent] \in DraftRows
  BY <1>1 DEF DraftRows
<1> QED BY <1>1, <1>2

LEMMA WriteKeeps ==
    ASSUME ReportInv, NEW c \in Threads, WriteEdit(c) \/ WriteApproval(c)
    PROVE  ReportInv'
<1>1. /\ TypeOK /\ c \in Threads
      /\ UNCHANGED <<data, notification, report, versions, files, attempts, sends, messages, doubled>>
  BY DEF ReportInv, WriteEdit, WriteApproval, CaseFrame, ReportFrame
<1>2. /\ thread' \in [Threads -> Slots] /\ thread'[c].at = "idle"
      /\ \A e \in Threads : e # c => thread'[e] = thread[e]
  BY <1>1, IdleTyped, Gone1 DEF WriteEdit, WriteApproval
<1>3. thread[c].draft \in Drafts /\ thread[c].content \in Contents
  BY <1>1, Typed
<1>4. TypeOK'
  <2>1. CASE WriteEdit(c)
    <3>1. PICK row : row = Edited(thread[c].draft, thread[c].content)
      OBVIOUS
    <3>2. row \in DraftRows
      BY <1>1, <1>3, <3>1, DraftWritten DEF Edited, DraftStatus
    <3>3. drafts' = [drafts EXCEPT ![thread[c].draft] = row] /\ UNCHANGED <<approvals, overtaken>>
      BY <2>1, <3>1 DEF WriteEdit
    <3> QED BY <1>1, <1>2, <3>2, <3>3 DEF TypeOK
  <2>2. CASE WriteApproval(c)
    <3>1. drafts' \in [Drafts -> DraftRows]
      BY <1>1, <1>3, <2>2, DraftWritten DEF WriteApproval, DraftStatus
    <3>2. approvals' \subseteq [draft : Drafts, content : Contents] \cup [report : Data]
      <4>1. approvals \subseteq [draft : Drafts, content : Contents] \cup [report : Data]
        BY <1>1 DEF TypeOK
      <4>2. [draft |-> thread[c].draft, content |-> thread[c].content] \in [draft : Drafts, content : Contents]
        BY <1>3
      <4> QED BY <2>2, <4>1, <4>2 DEF WriteApproval
    <3>3. overtaken' \subseteq [draft : Drafts, content : Contents]
      <4>1. overtaken \subseteq [draft : Drafts, content : Contents]
        BY <1>1 DEF TypeOK
      <4>2. [draft |-> thread[c].draft, content |-> drafts[thread[c].draft].content]
                \in [draft : Drafts, content : Contents]
        BY <1>1, <1>3, Typed
      <4> QED BY <2>2, <4>1, <4>2 DEF WriteApproval
    <3> QED BY <1>1, <1>2, <3>1, <3>2, <3>3 DEF TypeOK
  <2> QED BY <2>1, <2>2
<1> QED BY <1>1, <1>2, <1>4, ReportKept DEF ReportFrame

\* What a sender hands to SMTP is what it read; the anchor is the draft's own.
LEMMA CheckedContent ==
    ASSUME TypeOK, NEW c \in Threads, NEW d \in Drafts, CheckForSend(c, d)
    PROVE  /\ Goes(c, [Idle EXCEPT !.at = "deliver", !.draft = d, !.content = drafts[d].content])
           /\ drafts[d].content \in Contents /\ drafts[d].status = "approved" /\ ~drafts[d].sent
           /\ UNCHANGED <<data, notification, report, versions, files, drafts, attempts, sends, messages, approvals, overtaken>>
           /\ doubled' = IF IsSending(d) THEN doubled \cup {d} ELSE doubled
           /\ doubled' \subseteq Drafts
<1>1. drafts[d].content \in Contents /\ doubled \subseteq Drafts
  BY Typed DEF TypeOK
<1>2. [text |-> drafts[d].content.text, anchor |-> Anchor(d)] = drafts[d].content
  BY <1>1 DEF CheckForSend, HashHolds, Contents
<1> QED BY <1>1, <1>2 DEF CheckForSend, CaseFrame, ReportFrame, MailFrame

LEMMA SenderKeeps ==
    ASSUME ReportInv, NEW c \in Threads
    PROVE  /\ \A d \in Drafts : CheckForSend(c, d) => ReportInv'
           /\ Deliver(c) \/ DeliverNothing(c) \/ RecordOutcome(c) => ReportInv'
<1>1. /\ TypeOK /\ c \in Threads
      /\ thread[c] \in Slots /\ thread[c].draft \in Drafts /\ thread[c].content \in Contents
  BY Typed DEF ReportInv
<1>2. ASSUME NEW d \in Drafts, CheckForSend(c, d) PROVE ReportInv'
  <2>1. /\ Goes(c, [Idle EXCEPT !.at = "deliver", !.draft = d, !.content = drafts[d].content])
        /\ drafts[d].content \in Contents
        /\ UNCHANGED <<data, notification, report, versions, files, drafts, attempts, sends, messages, approvals, overtaken>>
        /\ doubled' \subseteq Drafts
    BY <1>1, <1>2, CheckedContent
  <2> QED BY <2>1, ReadKeeps
<1>3. ASSUME NEW at \in {"record sent", "record unknown"}, Goes(c, [thread[c] EXCEPT !.at = at])
      PROVE  /\ thread' \in [Threads -> Slots] /\ thread'[c].at = at /\ thread'[c].draft = thread[c].draft
             /\ \A e \in Threads : e # c => thread'[e] = thread[e]
  <2>1. PICK w : w = [thread[c] EXCEPT !.at = at]
    OBVIOUS
  <2>2. w \in Slots /\ w.at = at /\ w.draft = thread[c].draft
    BY <1>1, <2>1 DEF Slots
  <2> QED BY <1>1, <1>3, <2>1, <2>2, Gone1
<1>4. CASE Deliver(c)
  <2>1. PICK at \in {"record sent", "record unknown"} : Goes(c, [thread[c] EXCEPT !.at = at])
    BY <1>4 DEF Deliver
  <2>2. /\ UNCHANGED <<data, notification, report, versions, files, drafts, approvals, attempts, overtaken, doubled>>
        /\ sends[thread[c].draft] < MaxSends
        /\ sends' = [sends EXCEPT ![thread[c].draft] = sends[thread[c].draft] + 1]
        /\ messages' = messages \cup {[draft |-> thread[c].draft, content |-> thread[c].content]}
    BY <1>4 DEF Deliver, CaseFrame, ReportFrame
  <2>3. sends' \in [Drafts -> 0..MaxSends]
    <3>1. sends \in [Drafts -> 0..MaxSends] /\ sends[thread[c].draft] \in 0..MaxSends
      BY <1>1 DEF TypeOK
    <3>2. PICK n \in 0..MaxSends : n = sends[thread[c].draft] /\ n < MaxSends
      BY <2>2, <3>1
    <3>3. n + 1 \in 0..MaxSends
      BY <3>2, Bounds, OneMore
    <3> QED BY <1>1, <2>2, <3>1, <3>2, <3>3
  <2>4. TypeOK'
    <3>1. messages' \subseteq [draft : Drafts, content : Contents]
      <4>1. [draft |-> thread[c].draft, content |-> thread[c].content] \in [draft : Drafts, content : Contents]
        BY <1>1
      <4> QED BY <1>1, <2>2, <4>1 DEF TypeOK
    <3> QED BY <1>1, <1>3, <2>1, <2>2, <2>3, <3>1 DEF TypeOK
  <2> QED BY <1>3, <2>1, <2>2, <2>4, ReportKept DEF ReportFrame
<1>5. CASE DeliverNothing(c)
  <2>1. UNCHANGED <<data, notification, report, versions, files, drafts, approvals, attempts, sends, messages, overtaken, doubled>>
    BY <1>5 DEF DeliverNothing, CaseFrame, ReportFrame, MailFrame
  <2>2. TypeOK'
    BY <1>1, <1>3, <1>5, <2>1 DEF TypeOK, DeliverNothing
  <2> QED BY <1>3, <1>5, <2>1, <2>2, ReportKept DEF ReportFrame, DeliverNothing
<1>6. CASE RecordOutcome(c)
  <2>1. PICK sent \in BOOLEAN, st \in DraftStatus :
            /\ drafts' = [drafts EXCEPT ![thread[c].draft].status = st, ![thread[c].draft].sent = sent]
            /\ attempts' = attempts \cup {[draft |-> thread[c].draft, sent |-> sent]}
    BY <1>6 DEF RecordOutcome, DraftStatus
  <2>2. /\ UNCHANGED <<data, report, versions, files, approvals, sends, messages, overtaken, doubled>>
        /\ notification' \in {notification, "delivered", "delivery_failed"}
    BY <1>6 DEF RecordOutcome, ReportFrame, Notifies
  <2>3. /\ thread' \in [Threads -> Slots] /\ thread'[c].at = "idle"
        /\ \A e \in Threads : e # c => thread'[e] = thread[e]
    BY <1>1, <1>6, IdleTyped, Gone1 DEF RecordOutcome
  <2>4. drafts' \in [Drafts -> DraftRows]
    BY <1>1, <2>1, DraftWritten
  <2>5. attempts' \subseteq [draft : Drafts, sent : BOOLEAN]
    <3>1. [draft |-> thread[c].draft, sent |-> sent] \in [draft : Drafts, sent : BOOLEAN]
      BY <1>1, <2>1
    <3> QED BY <1>1, <2>1, <3>1 DEF TypeOK
  <2>6. TypeOK'
    BY <1>1, <2>2, <2>3, <2>4, <2>5 DEF TypeOK
  <2> QED BY <2>2, <2>3, <2>6, ReportKept DEF ReportFrame
<1> QED BY <1>2, <1>4, <1>5, <1>6

LEMMA RestartKeeps == ReportInv /\ Restart => ReportInv'
<1> SUFFICES ASSUME ReportInv, Restart PROVE ReportInv'
  OBVIOUS
<1>1. /\ UNCHANGED <<data, notification, report, versions, files, drafts, approvals, attempts, sends, messages, overtaken, doubled>>
      /\ thread' = [c \in Threads |-> Idle]
  BY DEF Restart, ReportFrame, MailFrame
<1>2. TypeOK'
  BY <1>1, IdleTyped DEF ReportInv, TypeOK
<1> QED BY <1>1, <1>2, IdleTyped, ReportKept DEF ReportFrame

LEMMA ReportInit == Init => ReportInv
<1> SUFFICES ASSUME Init PROVE ReportInv
  OBVIOUS
<1>0. /\ data = 1 /\ report = [status |-> "draft", hash |-> None] /\ versions = << >> /\ files = {}
      /\ drafts = [d \in Drafts |-> NoDraft] /\ approvals = {} /\ attempts = {} /\ messages = {}
      /\ overtaken = {} /\ doubled = {}
      /\ notification \in {"no row", "not_requested"} /\ sends = [d \in Drafts |-> 0]
      /\ thread = [c \in Threads |-> Idle]
  BY DEF Init
<1>1. TypeOK
  <2>1. data \in Data /\ report \in [status : ReportStatus, hash : Hashes]
    BY <1>0, First DEF ReportStatus
  <2>2. versions \in Seq(VersionRows)
    <3>1. << >> \in Seq(VersionRows)
      OBVIOUS
    <3> QED BY <1>0, <3>1
  <2>3. drafts \in [Drafts -> DraftRows] /\ thread \in [Threads -> Slots]
    BY <1>0, IdleTyped
  <2>4. sends \in [Drafts -> 0..MaxSends]
    <3>1. 0 \in 0..MaxSends
      BY Bounds
    <3> QED BY <1>0, <3>1
  <2> QED BY <1>0, <2>1, <2>2, <2>3, <2>4 DEF TypeOK
<1>2. ThreadsHoldReports
  BY <1>0, IdleTyped DEF ThreadsHoldReports
<1>3. VersionsAreFiled /\ RowShowsLatest /\ report.status = "draft"
  <2>1. report.status = "draft"
    BY <1>0
  <2>2. DOMAIN << >> = {}
    OBVIOUS
  <2> QED BY <1>0, <2>1, <2>2 DEF VersionsAreFiled, RowShowsLatest
<1> QED BY <1>1, <1>2, <1>3 DEF ReportInv

LEMMA ReportStep == ReportInv /\ [Next]_vars => ReportInv'
<1> SUFFICES ASSUME ReportInv, [Next]_vars PROVE ReportInv'
  OBVIOUS
<1>1. ASSUME NEW c \in Threads, ReadForGenerate(c) \/ Compose(c) \/ InsertVersion(c)
                                  \/ ReadForApproval(c) \/ ApproveReport(c)
      PROVE  ReportInv'
  BY <1>1, ReadForGenerateKeeps, ComposeKeeps, InsertVersionKeeps, ReadForApprovalKeeps, ApproveReportKeeps
<1>2. ASSUME NEW c \in Threads, NEW d \in Drafts,
             ReadForApproveDraft(c, d) \/ \E t \in Texts : ReadForEdit(c, d, t)
      PROVE  ReportInv'
  BY <1>2, EditorKeeps, DeliveryConstants
<1>3. CASE UNCHANGED vars
  <2>1. TypeOK'
    BY <1>3 DEF vars, ReportInv, TypeOK
  <2> QED BY <1>3, <2>1, ReportKept DEF vars, ReportFrame
<1> QED BY <1>1, <1>2, <1>3, CaseKeeps, CancelKeeps, CreateKeeps, WriteKeeps, SenderKeeps, RestartKeeps DEF Next

\* What the tables say of the report, and what the threads hold of it, in
\* every reachable state.
THEOREM ReportCorrect == Spec => []ReportInv
BY ReportInit, ReportStep, PTL DEF Spec

\* The state of reports, drafts, threads and deliveries stays well formed.
THEOREM TypeCorrect == Spec => []TypeOK
BY ReportCorrect, PTL DEF ReportInv

\* Every version that report_versions lists has its PDF on disk, although
\* cancel_report unlinks files that another thread has just composed.
THEOREM VersionsStayFiled == Spec => []VersionsAreFiled
BY ReportCorrect, PTL DEF ReportInv

\* The hash in the row of a report is that of its latest version, whichever of
\* any number of generating and approving threads wrote last.
THEOREM RowIsLatest == Spec => []RowShowsLatest
BY ReportCorrect, PTL DEF ReportInv

-----------------------------------------------------------------------------
(* The alert list. *)

\* One draft is rewritten, its subject is kept.
LEMMA NotifiedStep == ReportInv /\ SentIsNotified /\ [Next]_vars => SentIsNotified'
<1> DEFINE Told == notification \in {"delivered", "delivery_failed", "by hand"}
           About == \E d \in Drafts : drafts[d].subject = "alert" /\ drafts[d].status = "sent"
<1> SUFFICES ASSUME ReportInv, About => Told, [Next]_vars PROVE About' => Told'
  BY DEF SentIsNotified
<1>0. TypeOK /\ drafts \in [Drafts -> DraftRows]
  BY DEF ReportInv, TypeOK
<1>1. ASSUME UNCHANGED <<drafts, notification>> PROVE About' => Told'
  BY <1>1
\* No draft becomes sent.
<1>2. ASSUME NEW d \in Drafts, NEW row, drafts' = [drafts EXCEPT ![d] = row], row.status # "sent",
             UNCHANGED notification
      PROVE  About' => Told'
  BY <1>0, <1>2
<1>3. CASE Reanalyze
  BY <1>3 DEF Reanalyze, Noticed
<1>4. ASSUME NEW own \in BOOLEAN, UpdateAlert(own) PROVE About' => Told'
  BY <1>4 DEF UpdateAlert
<1>5. ASSUME NEW c \in Threads, ReadForGenerate(c) \/ Compose(c) \/ InsertVersion(c)
                                  \/ ReadForApproval(c) \/ ApproveReport(c)
      PROVE  About' => Told'
  BY <1>1, <1>5 DEF ReadForGenerate, Compose, InsertVersion, ReadForApproval, ApproveReport, CaseFrame, MailFrame
<1>6. CASE CancelReport \/ Restart \/ UNCHANGED vars
  BY <1>1, <1>6 DEF CancelReport, Restart, CaseFrame, MailFrame, vars
<1>7. ASSUME NEW d \in Drafts, NEW subject \in {"report", "alert"}, NEW t \in Texts, CreateDraft(d, subject, t)
      PROVE  About' => Told'
  <2>1. PICK row : /\ row = [subject |-> subject, status |-> "draft", sent |-> FALSE,
                             content |-> [text |-> t, anchor |-> Pinned(subject)]]
                   /\ drafts' = [drafts EXCEPT ![d] = row]
    BY <1>7 DEF CreateDraft, InsertDraft
  <2>2. row.status # "sent"
    BY <2>1
  <2> QED BY <1>2, <1>7, <2>1, <2>2 DEF CreateDraft, InsertDraft, CaseFrame
<1>8. ASSUME NEW c \in Threads, NEW d \in Drafts,
             ReadForApproveDraft(c, d) \/ \E t \in Texts : ReadForEdit(c, d, t)
      PROVE  About' => Told'
  BY <1>1, <1>8 DEF ReadForApproveDraft, ReadForEdit, CaseFrame, MailFrame
<1>9. ASSUME NEW c \in Threads, WriteEdit(c) \/ WriteApproval(c) PROVE About' => Told'
  <2>1. thread[c].draft \in Drafts
    BY <1>0, Typed
  <2>2. drafts[thread[c].draft] \in DraftRows
    BY <1>0, <2>1
  <2>3. CASE WriteEdit(c)
    <3>1. PICK row : row = Edited(thread[c].draft, thread[c].content)
      OBVIOUS
    <3>2. row.status # "sent"
      BY <2>2, <3>1 DEF Edited, DraftRows
    <3> QED BY <1>2, <2>1, <2>3, <3>1, <3>2 DEF WriteEdit, CaseFrame
  <2>4. CASE WriteApproval(c)
    <3>1. PICK row : row = [drafts[thread[c].draft] EXCEPT !.status = "approved"]
      OBVIOUS
    <3>2. row.status # "sent"
      BY <2>2, <3>1 DEF DraftRows
    <3> QED BY <1>2, <2>1, <2>4, <3>1, <3>2 DEF WriteApproval, CaseFrame
  <2> QED BY <1>9, <2>3, <2>4
<1>10. ASSUME NEW c \in Threads, (\E d \in Drafts : CheckForSend(c, d)) \/ Deliver(c) \/ DeliverNothing(c)
       PROVE  About' => Told'
  BY <1>1, <1>10 DEF CheckForSend, Deliver, DeliverNothing, CaseFrame, MailFrame
<1>11. ASSUME NEW c \in Threads, RecordOutcome(c) PROVE About' => Told'
  <2>1. PICK d : d = thread[c].draft
    OBVIOUS
  <2>2. PICK sent \in BOOLEAN, st \in DraftStatus :
            /\ drafts' = [drafts EXCEPT ![d].status = st, ![d].sent = sent]
            /\ notification' = Notifies(d, sent)
    BY <1>11, <2>1 DEF RecordOutcome, DraftStatus
  <2>3. d \in Drafts /\ drafts[d] \in DraftRows
    BY <1>0, <2>1, Typed
  <2>4. /\ drafts'[d].subject = drafts[d].subject
        /\ \A e \in Drafts : e # d => drafts'[e] = drafts[e]
    BY <1>0, <2>2, <2>3 DEF DraftRows
  <2>5. CASE drafts[d].subject = "report"
    <3>1. notification' = notification
      BY <2>2, <2>5 DEF Notifies
    <3>2. About' => About
      BY <2>4, <2>5
    <3> QED BY <3>1, <3>2
  <2>6. CASE drafts[d].subject # "report"
    BY <2>2, <2>6 DEF Notifies
  <2> QED BY <2>5, <2>6
<1> QED BY <1>3, <1>4, <1>5, <1>6, <1>7, <1>8, <1>9, <1>10, <1>11 DEF Next

\* An alert one of whose drafts is sent is never listed as not requested,
\* whatever edits, analyses and deliveries of other drafts come between.
THEOREM SentAlertsAreNotified == Spec => []SentIsNotified
<1>1. ASSUME Init PROVE SentIsNotified
  <2>1. \A d \in Drafts : drafts[d] = NoDraft
    BY <1>1 DEF Init
  <2>2. NoDraft.subject # "alert"
    BY DEF NoDraft
  <2> QED BY <2>1, <2>2 DEF SentIsNotified
<1> QED BY <1>1, ReportCorrect, NotifiedStep, PTL DEF Spec

-----------------------------------------------------------------------------
(* What goes out was approved, or overtook an approval. *)

\* Where a thread that generates or approves a report goes.
LEMMA ReportersGo ==
    ASSUME NEW c \in Threads, ReadForGenerate(c) \/ Compose(c) \/ InsertVersion(c)
                                 \/ ReadForApproval(c) \/ ApproveReport(c)
    PROVE  \E w : Goes(c, w) /\ w.at \in {"compose", "insert", "approve", "idle"}
  <1>1. CASE ReadForGenerate(c)
    <2>1. PICK w : w = [Idle EXCEPT !.at = "compose"]
      OBVIOUS
    <2>2. w.at = "compose"
      BY <2>1, IdleTyped DEF Slots
    <2> QED BY <1>1, <2>1, <2>2 DEF ReadForGenerate
  <1>2. CASE Compose(c)
    <2>1. PICK w : w = [Idle EXCEPT !.at = "insert", !.hash = data, !.number = Len(versions) + 1]
      OBVIOUS
    <2>2. w.at = "insert"
      BY <2>1, IdleTyped DEF Slots
    <2> QED BY <1>2, <2>1, <2>2 DEF Compose
  <1>3. CASE ReadForApproval(c)
    <2>1. PICK w : w = [Idle EXCEPT !.at = "approve", !.hash = report.hash]
      OBVIOUS
    <2>2. w.at = "approve"
      BY <2>1, IdleTyped DEF Slots
    <2> QED BY <1>3, <2>1, <2>2 DEF ReadForApproval
  <1>4. CASE InsertVersion(c) \/ ApproveReport(c)
    BY <1>4, IdleTyped DEF InsertVersion, ApproveReport
  <1> QED BY <1>1, <1>2, <1>3, <1>4

\* Where one that reads a draft to edit or approve it goes.
LEMMA EditorsGo ==
    ASSUME NEW c \in Threads, NEW d \in Drafts,
           ReadForApproveDraft(c, d) \/ \E t \in Texts : ReadForEdit(c, d, t)
    PROVE  \E w : Goes(c, w) /\ w.at \in {"edit", "approve draft"}
<1>1. ASSUME NEW t \in Texts, ReadForEdit(c, d, t)
      PROVE  \E w : Goes(c, w) /\ w.at = "edit"
  <2>1. PICK w : w = [Idle EXCEPT !.at = "edit", !.draft = d, !.content = [text |-> t, anchor |-> Anchor(d)]]
    OBVIOUS
  <2>2. w.at = "edit"
    BY <2>1, IdleTyped DEF Slots
  <2> QED BY <1>1, <2>1, <2>2 DEF ReadForEdit
<1>2. CASE ReadForApproveDraft(c, d)
  <2>1. PICK w : w = [Idle EXCEPT !.at = "approve draft", !.draft = d, !.content = drafts[d].content]
    OBVIOUS
  <2>2. w.at = "approve draft"
    BY <2>1, IdleTyped DEF Slots
  <2> QED BY <1>2, <2>1, <2>2 DEF ReadForApproveDraft
<1> QED BY <1>1, <1>2

\* A step that rewrites no draft, withdraws no approval and sends nothing, and
\* after which nobody has newly read a draft to send it.
LEMMA ApprovalKept ==
    ASSUME ApprovalInv, TypeOK', UNCHANGED <<drafts, messages>>,
           approvals \subseteq approvals', overtaken \subseteq overtaken',
           \A c \in Threads : thread'[c] = thread[c] \/ thread'[c].at # "deliver"
    PROVE  ApprovalInv'
<1>1. OnlyOvertakenIsUnapproved'
  BY DEF ApprovalInv, OnlyOvertakenIsUnapproved
<1> QED BY <1>1 DEF ApprovalInv

\* A thread that moved on to a place where it holds nothing to send.
LEMMA MovedOn ==
    ASSUME NEW c \in Threads, NEW w, Goes(c, w), TypeOK, w.at # "deliver"
    PROVE  \A e \in Threads : thread'[e] = thread[e] \/ thread'[e].at # "deliver"
BY Gone1

\* A step that rewrites one draft: approved, it holds what is on record.
LEMMA RowWritten ==
    ASSUME ApprovalInv, TypeOK', NEW d \in Drafts, NEW row, drafts' = [drafts EXCEPT ![d] = row],
           approvals \subseteq approvals', overtaken \subseteq overtaken', UNCHANGED messages,
           row.status = "approved" => [draft |-> d, content |-> row.content] \in approvals' \cup overtaken',
           \A c \in Threads : thread'[c] = thread[c] \/ thread'[c].at # "deliver"
    PROVE  ApprovalInv'
<1>1. OnlyOvertakenIsUnapproved'
  BY DEF ApprovalInv, OnlyOvertakenIsUnapproved
<1>2. drafts \in [Drafts -> DraftRows]
  BY DEF ApprovalInv, TypeOK
<1>3. drafts'[d] = row /\ \A e \in Drafts : e # d => drafts'[e] = drafts[e]
  BY <1>2
<1>4. \A e \in Drafts : drafts'[e].status = "approved" =>
          [draft |-> e, content |-> drafts'[e].content] \in approvals' \cup overtaken'
  BY <1>3 DEF ApprovalInv
<1>5. \A e \in Threads : thread'[e].at = "deliver" =>
          [draft |-> thread'[e].draft, content |-> thread'[e].content] \in approvals' \cup overtaken'
  BY <1>2 DEF ApprovalInv
<1> QED BY <1>1, <1>4, <1>5 DEF ApprovalInv

LEMMA ApprovalElsewhere ==
    ASSUME ApprovalInv, TypeOK',
           \/ Reanalyze \/ \E own \in BOOLEAN : UpdateAlert(own)
           \/ \E c \in Threads : ReadForGenerate(c) \/ Compose(c) \/ InsertVersion(c)
                                   \/ ReadForApproval(c) \/ ApproveReport(c)
           \/ CancelReport \/ Restart \/ UNCHANGED vars
    PROVE  ApprovalInv'
<1>0. TypeOK
  BY DEF ApprovalInv
<1>1. CASE Reanalyze \/ (\E own \in BOOLEAN : UpdateAlert(own)) \/ CancelReport \/ UNCHANGED vars
  BY <1>1, ApprovalKept DEF Reanalyze, UpdateAlert, CancelReport, CaseFrame, MailFrame, vars
<1>2. CASE Restart
  <2>1. thread' = [c \in Threads |-> Idle] /\ UNCHANGED <<drafts, messages, approvals, overtaken>>
    BY <1>2 DEF Restart, MailFrame
  <2> QED BY <2>1, IdleTyped, ApprovalKept
<1>3. ASSUME NEW c \in Threads, ReadForGenerate(c) \/ Compose(c) \/ InsertVersion(c)
                                  \/ ReadForApproval(c) \/ ApproveReport(c)
      PROVE  ApprovalInv'
  <2>1. UNCHANGED <<drafts, messages, overtaken>> /\ approvals \subseteq approvals'
    BY <1>3 DEF ReadForGenerate, Compose, InsertVersion, ReadForApproval, ApproveReport, MailFrame
  <2> QED BY <1>0, <1>3, <2>1, ReportersGo, MovedOn, ApprovalKept
<1> QED BY <1>1, <1>2, <1>3

\* A new draft is not approved.
LEMMA CreateApproval ==
    ASSUME ApprovalInv, TypeOK', NEW d \in Drafts, NEW subject \in {"report", "alert"}, NEW t \in Texts,
           CreateDraft(d, subject, t)
    PROVE  ApprovalInv'
<1>1. PICK row : /\ row = [subject |-> subject, status |-> "draft", sent |-> FALSE,
                           content |-> [text |-> t, anchor |-> Pinned(subject)]]
                 /\ drafts' = [drafts EXCEPT ![d] = row]
  BY DEF CreateDraft, InsertDraft
<1>2. UNCHANGED <<approvals, overtaken, messages, thread>>
  BY DEF CreateDraft, InsertDraft
<1>3. row.status = "draft"
  BY <1>1
<1> QED BY <1>1, <1>2, <1>3, RowWritten

\* An editor reads a draft, or overwrites one, or approves what it holds by now:
\* what was read, or what overtook the approval.
LEMMA EditorApproval ==
    ASSUME ApprovalInv, TypeOK', NEW c \in Threads,
           \/ \E d \in Drafts : ReadForApproveDraft(c, d) \/ \E t \in Texts : ReadForEdit(c, d, t)
           \/ WriteEdit(c) \/ WriteApproval(c)
    PROVE  ApprovalInv'
<1>0. /\ TypeOK /\ drafts \in [Drafts -> DraftRows] /\ c \in Threads
      /\ \A e \in Threads : thread[e].draft \in Drafts
  BY Typed DEF ApprovalInv, TypeOK
<1>1. ASSUME NEW d \in Drafts, ReadForApproveDraft(c, d) \/ \E t \in Texts : ReadForEdit(c, d, t)
      PROVE  ApprovalInv'
  <2>1. UNCHANGED <<drafts, messages, approvals, overtaken>>
    BY <1>1 DEF ReadForEdit, ReadForApproveDraft, MailFrame
  <2> QED BY <1>0, <1>1, <2>1, EditorsGo, MovedOn, ApprovalKept
<1>2. PICK d \in Drafts : d = thread[c].draft /\ drafts[d] \in DraftRows
  BY <1>0
<1>3. CASE WriteEdit(c)
  <2>1. PICK row : row = Edited(d, thread[c].content)
    OBVIOUS
  <2>2. row.status = "draft"
    BY <1>2, <2>1 DEF Edited, DraftRows
  <2>3. /\ drafts' = [drafts EXCEPT ![d] = row] /\ Goes(c, Idle)
        /\ UNCHANGED <<approvals, messages, overtaken>>
    BY <1>2, <1>3, <2>1 DEF WriteEdit
  <2> QED BY <1>0, <2>2, <2>3, IdleTyped, MovedOn, RowWritten
<1>4. CASE WriteApproval(c)
  <2>1. PICK row : row = [drafts[d] EXCEPT !.status = "approved"]
    OBVIOUS
  <2>2. row.content = drafts[d].content
    BY <1>2, <2>1 DEF DraftRows
  <2>3. /\ drafts' = [drafts EXCEPT ![d] = row] /\ Goes(c, Idle) /\ messages' = messages
        /\ approvals' = approvals \cup {[draft |-> d, content |-> thread[c].content]}
        /\ overtaken' = IF drafts[d].content = thread[c].content THEN overtaken
                        ELSE overtaken \cup {[draft |-> d, content |-> drafts[d].content]}
    BY <1>2, <1>4, <2>1 DEF WriteApproval
  <2>4. [draft |-> d, content |-> row.content] \in approvals' \cup overtaken'
    BY <2>2, <2>3
  <2> QED BY <1>0, <2>3, <2>4, IdleTyped, MovedOn, RowWritten
<1> QED BY <1>1, <1>3, <1>4

\* A sender takes what the row held when it was approved, and keeps it.
LEMMA SenderApproval ==
    ASSUME ApprovalInv, TypeOK', NEW c \in Threads,
           (\E d \in Drafts : CheckForSend(c, d)) \/ Deliver(c) \/ DeliverNothing(c) \/ RecordOutcome(c)
    PROVE  ApprovalInv'
<1>0. /\ TypeOK /\ drafts \in [Drafts -> DraftRows] /\ c \in Threads
      /\ \A e \in Threads : thread[e] \in Slots /\ thread[e].draft \in Drafts
  BY Typed DEF ApprovalInv, TypeOK
<1>1. ASSUME NEW d \in Drafts, CheckForSend(c, d) PROVE ApprovalInv'
  <2>1. PICK w : w = [Idle EXCEPT !.at = "deliver", !.draft = d, !.content = drafts[d].content]
    OBVIOUS
  <2>2. w.at = "deliver" /\ w.draft = d /\ w.content = drafts[d].content
    BY <2>1, IdleTyped DEF Slots
  <2>3. Goes(c, w) /\ UNCHANGED <<drafts, messages, approvals, overtaken>> /\ drafts[d].status = "approved"
    BY <1>0, <1>1, <2>1, CheckedContent
  <2>4. thread'[c] = w /\ \A e \in Threads : e # c => thread'[e] = thread[e]
    BY <1>0, <2>3, Gone1
  <2>5. [draft |-> d, content |-> drafts[d].content] \in approvals \cup overtaken
    BY <2>3 DEF ApprovalInv
  <2>6. OnlyOvertakenIsUnapproved'
    BY <2>3 DEF ApprovalInv, OnlyOvertakenIsUnapproved
  <2>7. \A e \in Threads : thread'[e].at = "deliver" =>
            [draft |-> thread'[e].draft, content |-> thread'[e].content] \in (approvals \cup overtaken)'
    BY <1>0, <2>2, <2>3, <2>4, <2>5 DEF ApprovalInv
  <2> QED BY <2>3, <2>6, <2>7 DEF ApprovalInv
<1>2. CASE Deliver(c)
  <2>1. PICK at \in {"record sent", "record unknown"} : Goes(c, [thread[c] EXCEPT !.at = at])
    BY <1>2 DEF Deliver
  <2>2. /\ UNCHANGED <<drafts, approvals, overtaken>>
        /\ messages' = messages \cup {[draft |-> thread[c].draft, content |-> thread[c].content]}
        /\ thread[c].at = "deliver"
    BY <1>2 DEF Deliver
  <2>3. PICK w : w = [thread[c] EXCEPT !.at = at]
    OBVIOUS
  <2>4. w.at = at
    BY <1>0, <2>3 DEF Slots
  <2>5. thread'[c].at = at /\ \A e \in Threads : e # c => thread'[e] = thread[e]
    BY <1>0, <2>1, <2>3, <2>4, Gone1
  <2>6. OnlyOvertakenIsUnapproved'
    BY <2>2 DEF ApprovalInv, OnlyOvertakenIsUnapproved
  <2>7. \A e \in Threads : thread'[e] = thread[e] \/ thread'[e].at # "deliver"
    BY <1>0, <2>5
  <2> QED BY <2>2, <2>6, <2>7 DEF ApprovalInv
<1>3. CASE DeliverNothing(c)
  <2>1. PICK w : w = [thread[c] EXCEPT !.at = "record unknown"]
    OBVIOUS
  <2>2. w.at = "record unknown"
    BY <1>0, <2>1 DEF Slots
  <2>3. Goes(c, w) /\ UNCHANGED <<drafts, messages, approvals, overtaken>>
    BY <1>3, <2>1 DEF DeliverNothing, MailFrame
  <2> QED BY <1>0, <2>2, <2>3, MovedOn, ApprovalKept
<1>4. CASE RecordOutcome(c)
  <2>1. PICK d \in Drafts : d = thread[c].draft /\ drafts[d] \in DraftRows
    BY <1>0
  <2>2. PICK sent \in BOOLEAN, st \in {"sent", "delivery_unknown"} :
            drafts' = [drafts EXCEPT ![d].status = st, ![d].sent = sent]
    BY <1>4, <2>1 DEF RecordOutcome
  <2>3. PICK row : row = [drafts[d] EXCEPT !.status = st, !.sent = sent]
    OBVIOUS
  <2>4. row.status = st /\ drafts' = [drafts EXCEPT ![d] = row]
    BY <1>0, <2>1, <2>2, <2>3 DEF DraftRows
  <2>5. Goes(c, Idle) /\ UNCHANGED <<approvals, messages, overtaken>>
    BY <1>4 DEF RecordOutcome
  <2> QED BY <1>0, <2>4, <2>5, IdleTyped, MovedOn, RowWritten
<1> QED BY <1>1, <1>2, <1>3, <1>4

LEMMA ApprovalStep == ReportInv /\ ApprovalInv /\ [Next]_vars => ApprovalInv'
<1> SUFFICES ASSUME ReportInv, ApprovalInv, [Next]_vars PROVE ApprovalInv'
  OBVIOUS
<1>1. TypeOK'
  BY ReportStep DEF ReportInv
<1> QED BY <1>1, ApprovalElsewhere, CreateApproval, EditorApproval, SenderApproval DEF Next

LEMMA ApprovalInit == Init => ApprovalInv
<1> SUFFICES ASSUME Init PROVE ApprovalInv
  OBVIOUS
<1>1. TypeOK /\ messages = {} /\ \A c \in Threads : thread[c] = Idle
  BY ReportInit DEF ReportInv, Init
<1>2. \A d \in Drafts : drafts[d] = NoDraft
  BY DEF Init
<1>3. NoDraft.status = "absent"
  BY DEF NoDraft
<1>4. \A c \in Threads : thread[c].at = "idle"
  BY <1>1, IdleTyped
<1> QED BY <1>1, <1>2, <1>3, <1>4 DEF ApprovalInv, OnlyOvertakenIsUnapproved

\* With any number of drafts, texts and threads of every kind, a message carries
\* a text and a subject approved together (approve_email, send_email), or what
\* its draft held when an approval of other content was written to it.
THEOREM UnapprovedWasOvertaken == Spec => []OnlyOvertakenIsUnapproved
<1>1. ReportInv /\ ApprovalInv /\ [Next]_vars => ApprovalInv'
  BY ApprovalStep
<1>2. ApprovalInv => OnlyOvertakenIsUnapproved
  BY DEF ApprovalInv
<1> QED BY <1>1, <1>2, ApprovalInit, ReportCorrect, PTL DEF Spec

-----------------------------------------------------------------------------
(* Nothing goes out twice unless two requests were sending it at once. *)

\* A sender that is busy was busy with the same draft before.
Continues(e) == \A d \in Drafts : Sends(e, d)' => Sends(e, d)

\* A step that records no attempt, resets no time of sending, loses no draft
\* and in which no sender takes a draft.
LEMMA SentKept ==
    ASSUME SentInv, TypeOK', UNCHANGED attempts, doubled \subseteq doubled',
           \A d \in Drafts : /\ drafts[d].sent => drafts'[d].sent
                             /\ drafts'[d].sent => drafts'[d].status # "absent",
           \A c \in Threads : Continues(c)
    PROVE  SentInv'
<1>1. ASSUME NEW d \in Drafts, d \notin doubled', Recorded(d)'
      PROVE  drafts'[d].sent /\ ~IsSending(d)'
  <2>1. drafts[d].sent /\ ~IsSending(d)
    BY <1>1 DEF SentInv, Recorded
  <2> QED BY <2>1 DEF IsSending, Continues
<1>2. ASSUME NEW d \in Drafts, d \notin doubled', NEW c \in Threads, NEW e \in Threads,
             Sends(c, d)', Sends(e, d)'
      PROVE  c = e
  BY <1>2 DEF SentInv, Continues
<1> QED BY <1>1, <1>2 DEF SentInv

LEMMA NothingToSend ==
    ASSUME TypeOK, NEW c \in Threads,
           \E w : Goes(c, w) /\ w.at \notin {"deliver", "record sent", "record unknown"}
    PROVE  \A e \in Threads : Continues(e)
BY Gone1 DEF Continues, Sends

LEMMA SentElsewhere ==
    ASSUME SentInv, TypeOK',
           \/ Reanalyze \/ \E own \in BOOLEAN : UpdateAlert(own)
           \/ \E c \in Threads : ReadForGenerate(c) \/ Compose(c) \/ InsertVersion(c)
                                   \/ ReadForApproval(c) \/ ApproveReport(c)
           \/ \E c \in Threads, d \in Drafts : ReadForApproveDraft(c, d) \/ \E t \in Texts : ReadForEdit(c, d, t)
           \/ CancelReport \/ Restart \/ UNCHANGED vars
    PROVE  SentInv'
<1>0. TypeOK /\ \A d \in Drafts : drafts[d].sent => drafts[d].status # "absent"
  BY DEF SentInv
<1>1. CASE Reanalyze \/ (\E own \in BOOLEAN : UpdateAlert(own)) \/ CancelReport \/ UNCHANGED vars
  <2>1. UNCHANGED <<drafts, attempts, doubled, thread>>
    BY <1>1 DEF Reanalyze, UpdateAlert, CancelReport, MailFrame, vars
  <2> QED BY <1>0, <2>1, SentKept DEF Continues, Sends
<1>2. CASE Restart
  <2>1. thread' = [c \in Threads |-> Idle] /\ UNCHANGED <<drafts, attempts, doubled>>
    BY <1>2 DEF Restart, MailFrame
  <2> QED BY <1>0, <2>1, IdleTyped, SentKept DEF Continues, Sends
\* A thread that goes where it holds nothing to send.
<1>3. ASSUME NEW c \in Threads, UNCHANGED <<drafts, attempts, doubled>>,
             \E w : Goes(c, w) /\ w.at \notin {"deliver", "record sent", "record unknown"}
      PROVE  SentInv'
  BY <1>0, <1>3, NothingToSend, SentKept
<1>4. ASSUME NEW c \in Threads, ReadForGenerate(c) \/ Compose(c) \/ InsertVersion(c)
                                  \/ ReadForApproval(c) \/ ApproveReport(c)
      PROVE  SentInv'
  <2>1. UNCHANGED <<drafts, attempts, doubled>>
    BY <1>4 DEF ReadForGenerate, Compose, InsertVersion, ReadForApproval, ApproveReport, MailFrame
  <2> QED BY <1>3, <1>4, <2>1, ReportersGo
<1>5. ASSUME NEW c \in Threads, NEW d \in Drafts,
             ReadForApproveDraft(c, d) \/ \E t \in Texts : ReadForEdit(c, d, t)
      PROVE  SentInv'
  <2>1. UNCHANGED <<drafts, attempts, doubled>>
    BY <1>5 DEF ReadForApproveDraft, ReadForEdit, MailFrame
  <2> QED BY <1>3, <1>5, <2>1, EditorsGo
<1> QED BY <1>1, <1>2, <1>4, <1>5

\* A draft is made where there was none; an edit and an approval leave the time
\* of sending alone.
LEMMA WriteSent ==
    ASSUME SentInv, TypeOK',
           \/ \E d \in Drafts, subject \in {"report", "alert"}, t \in Texts : CreateDraft(d, subject, t)
           \/ \E c \in Threads : WriteEdit(c) \/ WriteApproval(c)
    PROVE  SentInv'
<1>0. /\ TypeOK /\ drafts \in [Drafts -> DraftRows]
      /\ \A d \in Drafts : drafts[d] \in DraftRows /\ (drafts[d].sent => drafts[d].status # "absent")
  BY DEF SentInv, TypeOK
<1>1. ASSUME NEW d \in Drafts, NEW row, drafts' = [drafts EXCEPT ![d] = row], row.status # "absent",
             drafts[d].sent => row.sent, UNCHANGED <<attempts, doubled>>,
             \A e \in Threads : Continues(e)
      PROVE  SentInv'
  <2>1. drafts'[d] = row /\ \A e \in Drafts : e # d => drafts'[e] = drafts[e]
    BY <1>0, <1>1
  <2>2. \A e \in Drafts : /\ drafts[e].sent => drafts'[e].sent
                          /\ drafts'[e].sent => drafts'[e].status # "absent"
    BY <1>0, <1>1, <2>1
  <2> QED BY <1>1, <2>2, SentKept
<1>2. ASSUME NEW d \in Drafts, NEW subject \in {"report", "alert"}, NEW t \in Texts, CreateDraft(d, subject, t)
      PROVE  SentInv'
  <2>1. PICK row : /\ row = [subject |-> subject, status |-> "draft", sent |-> FALSE,
                             content |-> [text |-> t, anchor |-> Pinned(subject)]]
                   /\ drafts' = [drafts EXCEPT ![d] = row]
    BY <1>2 DEF CreateDraft, InsertDraft
  <2>2. row.status = "draft" /\ ~drafts[d].sent /\ UNCHANGED <<attempts, doubled>>
    BY <1>0, <1>2, <2>1 DEF CreateDraft, InsertDraft
  <2>3. \A e \in Threads : Continues(e)
    BY <1>2 DEF CreateDraft, InsertDraft, Continues, Sends
  <2> QED BY <1>1, <2>1, <2>2, <2>3
<1>3. ASSUME NEW c \in Threads, WriteEdit(c) \/ WriteApproval(c) PROVE SentInv'
  <2>1. thread[c].draft \in Drafts
    BY <1>0, Typed
  <2>2. UNCHANGED <<attempts, doubled>> /\ Goes(c, Idle)
    BY <1>3 DEF WriteEdit, WriteApproval
  <2>3. \A e \in Threads : Continues(e)
    BY <1>0, <2>2, IdleTyped, NothingToSend
  <2>4. PICK d \in Drafts : d = thread[c].draft
    BY <2>1
  <2>5. CASE WriteEdit(c)
    <3>1. PICK row : row = Edited(d, thread[c].content)
      OBVIOUS
    <3>2. row.status = "draft" /\ row.sent = drafts[d].sent
      BY <1>0, <3>1 DEF Edited, DraftRows
    <3> QED BY <1>1, <2>2, <2>3, <2>4, <2>5, <3>1, <3>2 DEF WriteEdit
  <2>6. CASE WriteApproval(c)
    <3>1. PICK row : row = [drafts[d] EXCEPT !.status = "approved"]
      OBVIOUS
    <3>2. row.status = "approved" /\ row.sent = drafts[d].sent
      BY <1>0, <3>1 DEF DraftRows
    <3> QED BY <1>1, <2>2, <2>3, <2>4, <2>6, <3>1, <3>2 DEF WriteApproval
  <2> QED BY <1>3, <2>5, <2>6
<1> QED BY <1>2, <1>3

\* A request takes a draft: the draft is doubled if another one is sending it.
LEMMA CheckSent ==
    ASSUME SentInv, TypeOK', NEW c \in Threads, NEW d \in Drafts, CheckForSend(c, d)
    PROVE  SentInv'
<1>0. TypeOK /\ c \in Threads
  BY DEF SentInv
<1>1. PICK w : w = [Idle EXCEPT !.at = "deliver", !.draft = d, !.content = drafts[d].content]
  OBVIOUS
<1>2. w.draft = d /\ w.at = "deliver"
  BY <1>1, IdleTyped DEF Slots
<1>3. /\ Goes(c, w) /\ UNCHANGED <<drafts, attempts>> /\ ~drafts[d].sent
      /\ doubled' = IF IsSending(d) THEN doubled \cup {d} ELSE doubled
  BY <1>0, <1>1, CheckedContent DEF CheckForSend
<1>4. thread'[c] = w /\ \A e \in Threads : e # c => thread'[e] = thread[e]
  BY <1>0, <1>3, Gone1
<1>5. \A e \in Drafts : e \notin doubled' => e \notin doubled
  BY <1>3
<1>6. d \notin doubled' => ~IsSending(d)
  BY <1>3
<1>7. ASSUME NEW e \in Drafts, e \notin doubled', Recorded(e)'
      PROVE  drafts'[e].sent /\ ~IsSending(e)'
  <2>1. drafts[e].sent /\ ~IsSending(e)
    BY <1>3, <1>5, <1>7 DEF SentInv, Recorded
  <2>2. e # d
    BY <1>3, <2>1
  <2> QED BY <1>0, <1>2, <1>3, <1>4, <2>1, <2>2 DEF IsSending, Sends
<1>8. ASSUME NEW e \in Drafts, e \notin doubled', NEW a \in Threads, NEW b \in Threads,
             Sends(a, e)', Sends(b, e)'
      PROVE  a = b
  <2>1. CASE e = d
    BY <1>0, <1>4, <1>6, <1>8, <2>1 DEF IsSending, Sends
  <2>2. CASE e # d
    <3>1. a # c /\ b # c
      BY <1>2, <1>4, <1>8, <2>2 DEF Sends
    <3> QED BY <1>0, <1>4, <1>5, <1>8, <3>1 DEF SentInv, Sends
  <2> QED BY <2>1, <2>2
<1>9. \A e \in Drafts : drafts'[e].sent => drafts'[e].status # "absent"
  BY <1>3 DEF SentInv
<1> QED BY <1>7, <1>8, <1>9 DEF SentInv

\* The outcome is on record: unless the draft is doubled, its only sender is done.
LEMMA RecordSent ==
    ASSUME SentInv, TypeOK', NEW c \in Threads, RecordOutcome(c)
    PROVE  SentInv'
<1>0. /\ TypeOK /\ drafts \in [Drafts -> DraftRows] /\ c \in Threads
      /\ thread[c] \in Slots /\ thread[c].draft \in Drafts
      /\ \A d \in Drafts : drafts[d] \in DraftRows /\ (drafts[d].sent => drafts[d].status # "absent")
  BY Typed DEF SentInv, TypeOK
<1>1. PICK d \in Drafts : d = thread[c].draft
  BY <1>0
<1>2. PICK sent \in BOOLEAN, st \in {"sent", "delivery_unknown"} :
          /\ drafts' = [drafts EXCEPT ![d].status = st, ![d].sent = sent]
          /\ attempts' = attempts \cup {[draft |-> d, sent |-> sent]}
  BY <1>1 DEF RecordOutcome
<1>3. /\ drafts'[d].status = st /\ drafts'[d].sent = sent
      /\ \A e \in Drafts : e # d => drafts'[e] = drafts[e]
  BY <1>0, <1>2 DEF DraftRows
<1>4. Sends(c, d) /\ Goes(c, Idle) /\ UNCHANGED doubled
  BY <1>1 DEF RecordOutcome, Sends
<1>5. thread'[c].at = "idle" /\ \A e \in Threads : e # c => thread'[e] = thread[e]
  BY <1>0, <1>4, IdleTyped, Gone1
<1>6. \A e \in Drafts : IsSending(e)' => IsSending(e)
  BY <1>0, <1>5 DEF IsSending, Sends
<1>7. ASSUME NEW e \in Drafts, e \notin doubled', Recorded(e)'
      PROVE  drafts'[e].sent /\ ~IsSending(e)'
  <2>1. e \notin doubled
    BY <1>4, <1>7
  <2>2. CASE e = d
    <3>1. IsSending(d)
      BY <1>1, <1>4 DEF IsSending
    <3>2. ~Recorded(d)
      BY <2>1, <2>2, <3>1 DEF SentInv
    <3>3. sent = TRUE
      BY <1>2, <1>7, <2>2, <3>2 DEF Recorded
    <3>4. \A a \in Threads : Sends(a, d) => a = c
      BY <1>1, <1>4, <2>1, <2>2 DEF SentInv
    <3>5. ~IsSending(d)'
      BY <1>0, <1>5, <3>4 DEF IsSending, Sends
    <3> QED BY <1>3, <2>2, <3>3, <3>5
  <2>3. CASE e # d
    <3>1. Recorded(e)
      BY <1>2, <1>7, <2>3 DEF Recorded
    <3>2. drafts[e].sent /\ ~IsSending(e)
      BY <2>1, <3>1 DEF SentInv
    <3> QED BY <1>3, <1>6, <2>3, <3>2
  <2> QED BY <2>2, <2>3
<1>8. ASSUME NEW e \in Drafts, e \notin doubled', NEW a \in Threads, NEW b \in Threads,
             Sends(a, e)', Sends(b, e)'
      PROVE  a = b
  <2>1. a # c /\ b # c
    BY <1>5, <1>8 DEF Sends
  <2> QED BY <1>0, <1>4, <1>5, <1>8, <2>1 DEF SentInv, Sends
<1>9. \A e \in Drafts : drafts'[e].sent => drafts'[e].status # "absent"
  BY <1>0, <1>2, <1>3
<1> QED BY <1>7, <1>8, <1>9 DEF SentInv

LEMMA DeliverSent ==
    ASSUME SentInv, TypeOK', NEW c \in Threads, Deliver(c) \/ DeliverNothing(c)
    PROVE  SentInv'
<1>0. TypeOK /\ c \in Threads /\ thread[c] \in Slots
  BY Typed DEF SentInv
<1>1. PICK at \in {"record sent", "record unknown"} : Goes(c, [thread[c] EXCEPT !.at = at])
  BY DEF Deliver, DeliverNothing
<1>2. PICK w : w = [thread[c] EXCEPT !.at = at]
  OBVIOUS
<1>3. w.draft = thread[c].draft
  BY <1>0, <1>2 DEF Slots
<1>4. thread'[c] = w /\ \A e \in Threads : e # c => thread'[e] = thread[e]
  BY <1>0, <1>1, <1>2, Gone1
<1>5. UNCHANGED <<drafts, attempts, doubled>> /\ thread[c].at = "deliver"
  BY DEF Deliver, DeliverNothing, MailFrame
<1>6. \A e \in Threads : Continues(e)
  BY <1>0, <1>3, <1>4, <1>5 DEF Continues, Sends
<1>7. \A d \in Drafts : drafts[d].sent => drafts[d].status # "absent"
  BY DEF SentInv
<1> QED BY <1>5, <1>6, <1>7, SentKept

LEMMA SentStep == ReportInv /\ SentInv /\ [Next]_vars => SentInv'
<1> SUFFICES ASSUME ReportInv, SentInv, [Next]_vars PROVE SentInv'
  OBVIOUS
<1>1. TypeOK'
  BY ReportStep DEF ReportInv
<1> QED BY <1>1, SentElsewhere, WriteSent, CheckSent, RecordSent, DeliverSent DEF Next

LEMMA SentInit == Init => SentInv
<1> SUFFICES ASSUME Init PROVE SentInv
  OBVIOUS
<1>1. TypeOK /\ attempts = {} /\ \A d \in Drafts : drafts[d] = NoDraft
  BY ReportInit DEF ReportInv, Init
<1>2. ~NoDraft.sent
  BY DEF NoDraft
<1>3. \A c \in Threads : thread[c].at = "idle"
  BY IdleTyped DEF Init
<1> QED BY <1>1, <1>2, <1>3 DEF SentInv, Recorded, Sends

\* Only Deliver hands a message to SMTP, and no sender is about to deliver a
\* draft that is on record as sent, unless the draft is doubled.
LEMMA SendsKept ==
    ASSUME SentInv, [Next]_vars
    PROVE  \A d \in Drafts \ doubled : Recorded(d) => sends'[d] = sends[d]
<1>1. ASSUME NEW c \in Threads, Deliver(c), NEW d \in Drafts, d \notin doubled, Recorded(d)
      PROVE  sends'[d] = sends[d]
  <2>1. ~IsSending(d) /\ thread[c].at # "idle"
    BY <1>1 DEF SentInv, Deliver
  <2>2. thread[c].draft # d /\ sends \in [Drafts -> 0..MaxSends]
    BY <1>1, <2>1 DEF SentInv, IsSending, Sends, Deliver, TypeOK
  <2> QED BY <1>1, <2>2 DEF Deliver
<1>2. CASE UNCHANGED sends
  BY <1>2
<1>3. CASE Reanalyze \/ (\E own \in BOOLEAN : UpdateAlert(own)) \/ CancelReport \/ Restart \/ UNCHANGED vars
  BY <1>2, <1>3 DEF Reanalyze, UpdateAlert, CancelReport, Restart, MailFrame, vars
<1>4. ASSUME NEW c \in Threads, ReadForGenerate(c) \/ Compose(c) \/ InsertVersion(c)
                                  \/ ReadForApproval(c) \/ ApproveReport(c)
      PROVE  UNCHANGED sends
  BY <1>4 DEF ReadForGenerate, Compose, InsertVersion, ReadForApproval, ApproveReport, MailFrame
<1>5. ASSUME NEW d \in Drafts, NEW subject \in {"report", "alert"}, NEW t \in Texts, CreateDraft(d, subject, t)
      PROVE  UNCHANGED sends
  BY <1>5 DEF CreateDraft, InsertDraft
<1>6. ASSUME NEW c \in Threads, NEW d \in Drafts,
             ReadForApproveDraft(c, d) \/ \E t \in Texts : ReadForEdit(c, d, t)
      PROVE  UNCHANGED sends
  BY <1>6 DEF ReadForApproveDraft, ReadForEdit, MailFrame
<1>7. ASSUME NEW c \in Threads, WriteEdit(c) \/ WriteApproval(c) PROVE UNCHANGED sends
  BY <1>7 DEF WriteEdit, WriteApproval
<1>8. ASSUME NEW c \in Threads, (\E d \in Drafts : CheckForSend(c, d)) \/ DeliverNothing(c) \/ RecordOutcome(c)
      PROVE  UNCHANGED sends
  BY <1>8 DEF CheckForSend, DeliverNothing, RecordOutcome, MailFrame
<1> QED BY <1>1, <1>2, <1>3, <1>4, <1>5, <1>6, <1>7, <1>8 DEF Next

\* With any number of drafts and request threads, a draft whose sending is on
\* record is handed to SMTP again only if a request began to send it while
\* another one was.
THEOREM OnlyOverlapsAreResent == Spec => OnlyOverlapIsResent
<1>1. ReportInv /\ SentInv /\ [Next]_vars => SentInv'
  BY SentStep
<1>2. SentInv /\ [Next]_vars =>
        [\A d \in Drafts \ doubled : Recorded(d) => sends'[d] = sends[d]]_vars
  BY SendsKept
<1> QED BY <1>1, <1>2, SentInit, ReportCorrect, PTL DEF Spec, OnlyOverlapIsResent
=============================================================================
