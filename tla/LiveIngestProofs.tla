-------------------------- MODULE LiveIngestProofs --------------------------
(***************************************************************************)
(* Proofs about live ingest: its types; that a frame of a source is either *)
(* accepted or quarantined for good; that every receipt has one thread     *)
(* answerable for it, so that it is settled once and counted once; and     *)
(* that live ingest implements SourceLedger.  For any number of sources,   *)
(* sessions, submitters, request threads, receipts and restarts.           *)
(***************************************************************************)
EXTENDS LiveIngest, FiniteSetTheorems, SequenceTheorems, TLAPS

-----------------------------------------------------------------------------
(* Types. *)

\* A sequence rewritten in place keeps its length and its element set.
LEMMA Rewritten ==
    ASSUME NEW S, NEW s \in Seq(S), NEW t,
           t = [i \in DOMAIN s |-> t[i]], \A i \in DOMAIN s : t[i] \in S
    PROVE  t \in Seq(S) /\ Len(t) = Len(s) /\ DOMAIN t = DOMAIN s
<1>1. DOMAIN s = 1..Len(s) /\ Len(s) \in Nat
  OBVIOUS
<1>2. t \in [1..Len(s) -> S]
  BY <1>1
<1>3. t \in Seq(S)
  BY <1>1, <1>2
<1> QED BY <1>1, <1>2, <1>3

\* A receipt given another status and error is typed.
LEMMA Restated ==
    ASSUME TypeOK, NEW r, NEW st \in ReceiptStates, NEW er \in Errors
    PROVE  LET t == [receipts EXCEPT ![r].status = st, ![r].error = er]
           IN t \in Seq(Receipts) /\ Len(t) = Len(receipts) /\ DOMAIN t = DOMAIN receipts
<1> DEFINE t == [receipts EXCEPT ![r].status = st, ![r].error = er]
<1>1. receipts \in Seq(Receipts)
  BY DEF TypeOK
<1>2. DOMAIN t = DOMAIN receipts
  OBVIOUS
<1>3. ASSUME NEW i \in DOMAIN receipts PROVE t[i] \in Receipts
  <2>1. receipts[i] \in Receipts
    BY <1>1, <1>3
  <2>2. CASE i = r
    <3>1. t[i] = [receipts[i] EXCEPT !.status = st, !.error = er]
      BY <1>3, <2>2
    <3> QED BY <2>1, <3>1 DEF Receipts
  <2>3. CASE i # r
    BY <1>3, <2>1, <2>3
  <2> QED BY <2>2, <2>3
<1>4. t = [i \in DOMAIN receipts |-> t[i]]
  BY <1>2
<1> QED
  <2> HIDE DEF t
  <2>1. t \in Seq(Receipts) /\ Len(t) = Len(receipts) /\ DOMAIN t = DOMAIN receipts
    BY <1>1, <1>3, <1>4, Rewritten
  <2> QED BY <2>1 DEF t

\* The same for a receipt given another status only.
LEMMA Moved ==
    ASSUME TypeOK, NEW r, NEW st \in ReceiptStates
    PROVE  LET t == [receipts EXCEPT ![r].status = st]
           IN t \in Seq(Receipts) /\ Len(t) = Len(receipts) /\ DOMAIN t = DOMAIN receipts
<1> DEFINE t == [receipts EXCEPT ![r].status = st]
<1>1. receipts \in Seq(Receipts)
  BY DEF TypeOK
<1>2. DOMAIN t = DOMAIN receipts
  OBVIOUS
<1>3. ASSUME NEW i \in DOMAIN receipts PROVE t[i] \in Receipts
  <2>1. receipts[i] \in Receipts
    BY <1>1, <1>3
  <2>2. CASE i = r
    <3>1. t[i] = [receipts[i] EXCEPT !.status = st]
      BY <1>3, <2>2
    <3> QED BY <2>1, <3>1 DEF Receipts
  <2>3. CASE i # r
    BY <1>3, <2>1, <2>3
  <2> QED BY <2>2, <2>3
<1>4. t = [i \in DOMAIN receipts |-> t[i]]
  BY <1>2
<1> QED
  <2> HIDE DEF t
  <2>1. t \in Seq(Receipts) /\ Len(t) = Len(receipts) /\ DOMAIN t = DOMAIN receipts
    BY <1>1, <1>3, <1>4, Rewritten
  <2> QED BY <2>1 DEF t

\* A new receipt is typed.
LEMMA ReceiptTyped ==
    ASSUME NEW s \in SessionIds, NEW f \in Frames \cup Simulated
    PROVE  Receipt(s, f) \in Receipts
BY DEF Receipt, Receipts, ReceiptStates, Errors

\* _enqueue keeps the queue within its capacity and the receipts typed.
LEMMA EnqueueTyped ==
    ASSUME TypeOK, NEW r \in ReceiptIds, Enqueue(r)
    PROVE  /\ receipts' \in Seq(Receipts) /\ Len(receipts') <= MaxReceipts
           /\ queue' \in Seq(0..MaxReceipts) /\ Len(queue') <= QueueCap
<1> USE LiveConstants
<1>q. queue \in Seq(0..MaxReceipts) /\ Len(queue) <= QueueCap /\ r \in 0..MaxReceipts
      /\ receipts \in Seq(Receipts) /\ Len(receipts) <= MaxReceipts
  BY DEF TypeOK, ReceiptIds
<1>1. CASE /\ Len(queue) < QueueCap
           /\ queue' = Append(queue, r)
           /\ UNCHANGED receipts
  <2>1. Append(queue, r) \in Seq(0..MaxReceipts) /\ Len(Append(queue, r)) = Len(queue) + 1
    BY <1>q
  <2>2. Len(queue) \in Nat
    BY <1>q
  <2> QED BY <1>1, <1>q, <2>1, <2>2
<1>2. CASE /\ Len(queue) >= QueueCap
           /\ receipts' = [receipts EXCEPT ![r].status = "failed", ![r].error = "worker_queue_full"]
           /\ UNCHANGED queue
  <2>1. receipts' \in Seq(Receipts) /\ Len(receipts') = Len(receipts)
    BY <1>2, Restated DEF ReceiptStates, Errors
  <2> QED BY <1>2, <1>q, <2>1
<1> QED BY <1>1, <1>2 DEF Enqueue

\* The initial state is typed.
LEMMA InitTyped == Init => TypeOK
<1> SUFFICES ASSUME Init PROVE TypeOK
  OBVIOUS
<1> USE LiveConstants DEF Init
<1>1. NoSession \in Sessions
  BY DEF NoSession, Sessions, SessionStates
<1>2. sessions \in [SessionIds -> Sessions]
  BY <1>1
<1>3. receipts \in Seq(Receipts) /\ Len(receipts) <= MaxReceipts
  OBVIOUS
<1>4. highWater \in [Sources -> Seqs \cup {NoSeq}]
  OBVIOUS
<1>5. queue \in Seq(0..MaxReceipts) /\ Len(queue) <= QueueCap
  OBVIOUS
<1>6. worker \in WorkerSlots
  BY DEF IdleWorker, WorkerSlots
<1>7. IdleClient \in ClientSlots
  BY DEF IdleClient, ClientSlots
<1>8. client \in [Clients -> ClientSlots]
  BY <1>7
<1>9. submit \in [Submitters -> 0..MaxReceipts] /\ restarts \in 0..MaxRestarts
  OBVIOUS
<1> QED BY <1>2, <1>3, <1>4, <1>5, <1>6, <1>8, <1>9 DEF TypeOK

\* The facts about a typed state the steps below use.
LEMMA Typed ==
    ASSUME TypeOK
    PROVE  /\ receipts \in Seq(Receipts) /\ Len(receipts) \in Nat /\ Len(receipts) <= MaxReceipts
           /\ DOMAIN receipts = 1..Len(receipts) /\ DOMAIN receipts \subseteq ReceiptIds
           /\ \A r \in DOMAIN receipts : receipts[r] \in Receipts
           /\ queue \in Seq(0..MaxReceipts) /\ Len(queue) \in Nat /\ Len(queue) <= QueueCap
           /\ worker.work \in Seq(0..MaxReceipts) /\ Len(worker.work) \in Nat
           /\ worker.at \in {"collect", "batch", "busy"} /\ Len(worker.work) <= Batch
           /\ worker.at = "busy" => worker.work # << >> /\ Entry # 0
           /\ client \in [Clients -> ClientSlots]
<1> USE LiveConstants
<1>1. receipts \in Seq(Receipts) /\ Len(receipts) <= MaxReceipts
  BY DEF TypeOK
<1>2. DOMAIN receipts = 1..Len(receipts) /\ Len(receipts) \in Nat
      /\ \A r \in DOMAIN receipts : receipts[r] \in Receipts
  BY <1>1
<1>3. /\ queue \in Seq(0..MaxReceipts) /\ Len(queue) <= QueueCap
      /\ worker.work \in Seq(0..MaxReceipts) /\ Len(worker.work) <= Batch
      /\ worker.at \in {"collect", "batch", "busy"} /\ client \in [Clients -> ClientSlots]
      /\ worker.at = "busy" => worker.work # << >> /\ Entry # 0
  BY DEF TypeOK, WorkerSlots, Entry
<1> QED BY <1>1, <1>2, <1>3 DEF ReceiptIds

\* The slot of a request thread that has finished, and the typing of the
\* threads when one changes.
LEMMA ClientTyped ==
    ASSUME TypeOK, NEW c \in Clients, NEW w \in ClientSlots, client' = [client EXCEPT ![c] = w]
    PROVE  client' \in [Clients -> ClientSlots]
BY Typed

LEMMA IdleTyped == IdleClient \in ClientSlots /\ IdleWorker.at = "collect" /\ IdleWorker.work = << >>
BY LiveConstants DEF IdleClient, IdleWorker, ClientSlots

\* submit_live keeps the tables typed.
LEMMA SubmitTyped ==
    ASSUME TypeOK, NEW u \in Submitters, NEW f \in Frames, AcceptFrame(u, f)
    PROVE  TypeOK'
<1> USE LiveConstants
<1>1. Newest(f.case) \in SessionIds
  BY DEF AcceptFrame, Listens, Newest, ActiveOf
<1>2. Receipt(Newest(f.case), f) \in Receipts
  BY <1>1, ReceiptTyped
<1>3. receipts' \in Seq(Receipts) /\ Len(receipts') = Len(receipts) + 1
  BY <1>2, Typed DEF AcceptFrame
<1>4. Len(receipts') <= MaxReceipts /\ Len(receipts) + 1 \in 0..MaxReceipts
  BY <1>3, Typed DEF AcceptFrame
<1>5. highWater' \in [Sources -> Seqs \cup {NoSeq}]
  BY DEF AcceptFrame, TypeOK, Frames
<1>6. submit' \in [Submitters -> 0..MaxReceipts]
  BY <1>4 DEF AcceptFrame, TypeOK
<1> QED BY <1>3, <1>4, <1>5, <1>6 DEF AcceptFrame, TypeOK

LEMMA QueueReceiptTyped ==
    ASSUME TypeOK, NEW u \in Submitters, QueueReceipt(u)
    PROVE  TypeOK'
<1>1. submit[u] \in ReceiptIds
  BY LiveConstants DEF QueueReceipt, TypeOK, ReceiptIds
<1>2. /\ receipts' \in Seq(Receipts) /\ Len(receipts') <= MaxReceipts
      /\ queue' \in Seq(0..MaxReceipts) /\ Len(queue') <= QueueCap
  BY <1>1, EnqueueTyped DEF QueueReceipt
<1>3. submit' \in [Submitters -> 0..MaxReceipts]
  BY LiveConstants DEF QueueReceipt, TypeOK
<1> QED BY <1>2, <1>3 DEF QueueReceipt, TypeOK

\* The request threads keep the tables typed.
LEMMA ClientsTyped ==
    ASSUME TypeOK, NEW c \in Clients
    PROVE  /\ \A k \in Cases, sources \in SUBSET Sources : CheckSources(c, k, sources) => TypeOK'
           /\ \A s \in SessionIds : ReadForStop(c, s) \/ Simulate(c, s) => TypeOK'
           /\ ClientStep(c) => TypeOK'
<1> USE LiveConstants
<1>s. sessions \in [SessionIds -> Sessions] /\ \A s \in SessionIds : s \in 0..MaxSessions
  BY DEF TypeOK, SessionIds
<1>n. NoSession \in Sessions
  BY DEF NoSession, Sessions, SessionStates
<1>1. ASSUME NEW k \in Cases, NEW sources \in SUBSET Sources, CheckSources(c, k, sources)
      PROVE  TypeOK'
  <2>1. PICK s \in SessionIds :
            /\ sessions' = [sessions EXCEPT ![s] =
                   [NoSession EXCEPT !.case = k, !.sources = sources, !.status = "starting"]]
            /\ client' = [client EXCEPT ![c] = [IdleClient EXCEPT !.at = "insert", !.session = s]]
    BY <1>1 DEF CheckSources
  <2>2. [NoSession EXCEPT !.case = k, !.sources = sources, !.status = "starting"] \in Sessions
    BY <1>n DEF Sessions, SessionStates
  <2>3. sessions' \in [SessionIds -> Sessions]
    BY <1>s, <2>1, <2>2
  <2>4. [IdleClient EXCEPT !.at = "insert", !.session = s] \in ClientSlots
    BY <1>s, IdleTyped DEF ClientSlots
  <2>5. client' \in [Clients -> ClientSlots]
    BY <2>1, <2>4, ClientTyped
  <2> QED BY <1>1, <2>3, <2>5 DEF CheckSources, ClientFrame, TypeOK
<1>2. ASSUME NEW s \in SessionIds, ReadForStop(c, s) PROVE TypeOK'
  <2>1. [IdleClient EXCEPT !.at = "stop", !.session = s] \in ClientSlots
    BY <1>s, IdleTyped DEF ClientSlots
  <2>2. client' \in [Clients -> ClientSlots]
    BY <1>2, <2>1, ClientTyped DEF ReadForStop
  <2> QED BY <1>2, <2>2 DEF ReadForStop, ClientFrame, TypeOK
<1>3. ASSUME NEW s \in SessionIds, Simulate(c, s) PROVE TypeOK'
  <2> DEFINE f == [case |-> sessions[s].case, source |-> Simulator, seq |-> NoSeq,
                   body |-> CHOOSE b \in Bodies : TRUE]
             new == [n \in 1..SimCount |-> Receipt(s, f)]
             todo == [n \in 1..SimCount |-> Len(receipts) + n]
  <2>0. Simulate(c, s) => /\ receipts' = receipts \o new
                          /\ client' = [client EXCEPT ![c] = [IdleClient EXCEPT !.at = "put", !.todo = todo]]
    BY DEF Simulate
  <2>1. f \in Simulated
    BY <1>s DEF Simulated, Sessions
  <2>2. Receipt(s, f) \in Receipts
    BY <2>1, ReceiptTyped
  <2>3. new \in Seq(Receipts) /\ Len(new) = SimCount
    <3>1. new \in [1..SimCount -> Receipts]
      BY <2>2
    <3> HIDE DEF new
    <3> QED BY <3>1
  <2>4. receipts' \in Seq(Receipts) /\ Len(receipts') = Len(receipts) + SimCount
    <3> HIDE DEF new
    <3>1. receipts' = receipts \o new
      BY <1>3, <2>0
    <3>2. receipts \in Seq(Receipts)
      BY Typed
    <3> QED BY <2>3, <3>1, <3>2, ConcatProperties
  <2>5. Len(receipts) + SimCount <= MaxReceipts
    BY <1>3 DEF Simulate
  <2>6. todo \in Seq(ReceiptIds) /\ Len(todo) = SimCount
    <3>1. \A n \in 1..SimCount : Len(receipts) + n \in ReceiptIds
      BY <2>5, Typed DEF ReceiptIds
    <3>2. todo \in [1..SimCount -> ReceiptIds]
      BY <3>1
    <3> HIDE DEF todo
    <3> QED BY <3>2
  <2>7. [IdleClient EXCEPT !.at = "put", !.todo = todo] \in ClientSlots
    <3> HIDE DEF todo
    <3>1. todo # << >>
      BY <2>6
    <3> QED BY <2>6, <3>1, IdleTyped DEF ClientSlots
  <2>8. client' \in [Clients -> ClientSlots]
    BY <1>3, <2>0, <2>7, ClientTyped
  <2> HIDE DEF new, todo, f
  <2> QED BY <1>3, <2>4, <2>5, <2>8 DEF Simulate, ClientFrame, TypeOK
<1>4. CASE InsertSession(c)
  <2>1. sessions' \in [SessionIds -> Sessions]
    BY <1>4, <1>s DEF InsertSession, Sessions, SessionStates
  <2>2. client' \in [Clients -> ClientSlots]
    BY <1>4, IdleTyped, ClientTyped DEF InsertSession
  <2> QED BY <1>4, <2>1, <2>2 DEF InsertSession, ClientFrame, TypeOK
<1>5. CASE StopSession(c)
  <2>1. sessions' \in [SessionIds -> Sessions]
    BY <1>5, <1>s DEF StopSession, Sessions, SessionStates
  <2>2. receipts' = [r \in DOMAIN receipts |-> receipts'[r]] /\ \A r \in DOMAIN receipts : receipts'[r] \in Receipts
    BY <1>5, Typed DEF StopSession, CancelQueued, Receipts, ReceiptStates
  <2>3. receipts' \in Seq(Receipts) /\ Len(receipts') = Len(receipts)
    BY <2>2, Typed, Rewritten
  <2>4. client' \in [Clients -> ClientSlots]
    BY <1>5, IdleTyped, ClientTyped DEF StopSession
  <2> QED BY <1>5, <2>1, <2>3, <2>4 DEF StopSession, ClientFrame, TypeOK
<1>6. CASE PutSimulated(c)
  <2>1. client[c] \in ClientSlots /\ client[c].todo \in Seq(ReceiptIds)
    BY Typed DEF ClientSlots
  <2>2. client[c].todo # << >>
    BY <1>6, <2>1 DEF PutSimulated, ClientSlots
  <2>3. Head(client[c].todo) \in ReceiptIds /\ Tail(client[c].todo) \in Seq(ReceiptIds)
    BY <2>1, <2>2
  <2>4. /\ receipts' \in Seq(Receipts) /\ Len(receipts') <= MaxReceipts
        /\ queue' \in Seq(0..MaxReceipts) /\ Len(queue') <= QueueCap
    BY <1>6, <2>3, EnqueueTyped DEF PutSimulated
  <2>5. CASE Len(client[c].todo) = 1
    <3>1. client' = [client EXCEPT ![c] = IdleClient]
      BY <1>6, <2>5 DEF PutSimulated
    <3>2. client' \in [Clients -> ClientSlots]
      BY <3>1, IdleTyped, ClientTyped
    <3> QED BY <1>6, <2>4, <3>2 DEF PutSimulated, ClientFrame, TypeOK
  <2>6. CASE Len(client[c].todo) # 1
    <3>1. client' = [client EXCEPT ![c] = [client[c] EXCEPT !.todo = Tail(client[c].todo)]]
      BY <1>6, <2>6 DEF PutSimulated
    <3>2. Tail(client[c].todo) # << >>
      <4>1. Len(Tail(client[c].todo)) = Len(client[c].todo) - 1
        BY <2>1, <2>2
      <4>2. Len(client[c].todo) - 1 # 0
        BY <2>1, <2>6
      <4> QED BY <4>1, <4>2
    <3>3. [client[c] EXCEPT !.todo = Tail(client[c].todo)] \in ClientSlots
      BY <2>1, <2>3, <3>2 DEF ClientSlots
    <3>4. client' \in [Clients -> ClientSlots]
      BY <3>1, <3>3, ClientTyped
    <3> QED BY <1>6, <2>4, <3>4 DEF PutSimulated, ClientFrame, TypeOK
  <2> QED BY <2>5, <2>6
<1> QED BY <1>1, <1>2, <1>3, <1>4, <1>5, <1>6 DEF ClientStep

\* What is left of a batch after its first entry is a batch.
LEMMA RestTyped ==
    ASSUME TypeOK, worker.work # << >>
    PROVE  AfterEntry \in WorkerSlots /\ Entry \in 0..MaxReceipts
<1>0. PICK work \in Seq(0..MaxReceipts) : work = worker.work /\ work # << >>
  BY Typed
<1>1. /\ Head(work) \in 0..MaxReceipts /\ Tail(work) \in Seq(0..MaxReceipts)
      /\ Len(Tail(work)) = Len(work) - 1
  BY <1>0, HeadTailProperties
<1>2. Len(Tail(work)) <= Batch
  BY <1>0, <1>1, Typed, LiveConstants
<1>3. /\ AfterEntry = [at |-> IF Len(work) = 1 THEN "collect" ELSE "batch", work |-> Tail(work)]
      /\ Entry = Head(work)
  BY <1>0 DEF AfterEntry, Entry
<1> QED BY <1>1, <1>2, <1>3 DEF WorkerSlots

\* The worker keeps the tables typed.
LEMMA WorkerTyped == TypeOK /\ WorkerStep => TypeOK'
<1> SUFFICES ASSUME TypeOK, WorkerStep PROVE TypeOK'
  OBVIOUS
<1> USE LiveConstants
<1>1. CASE TakeEntry
  <2>0. queue \in Seq(0..MaxReceipts) /\ queue # << >>
    BY <1>1, Typed DEF TakeEntry
  <2>1. Head(queue) \in 0..MaxReceipts /\ Tail(queue) \in Seq(0..MaxReceipts)
        /\ Len(Tail(queue)) = Len(queue) - 1
    BY <2>0
  <2>2. Append(worker.work, Head(queue)) \in Seq(0..MaxReceipts)
        /\ Len(Append(worker.work, Head(queue))) <= Batch
    BY <1>1, <2>1, Typed DEF TakeEntry
  <2>3. worker' = [worker EXCEPT !.work = Append(worker.work, Head(queue))] /\ worker.at = "collect"
    BY <1>1 DEF TakeEntry
  <2>4. worker' \in WorkerSlots
    BY <2>2, <2>3 DEF TypeOK, WorkerSlots
  <2>5. queue' \in Seq(0..MaxReceipts) /\ Len(queue') <= QueueCap
    BY <1>1, <2>1, Typed DEF TakeEntry
  <2> QED BY <1>1, <2>4, <2>5 DEF TakeEntry, WorkerFrame, TypeOK
<1>2. CASE SkipEntry
  BY <1>2, RestTyped DEF SkipEntry, AtEntry, WorkerFrame, TypeOK
<1>3. CASE ClaimReceipt
  <2>1. worker' = [worker EXCEPT !.at = "busy"] /\ worker.work # << >> /\ Head(worker.work) # 0
    BY <1>3 DEF ClaimReceipt, AtEntry, Claimable, Entry
  <2>2. worker' \in WorkerSlots
    BY <2>1 DEF TypeOK, WorkerSlots
  <2>3. receipts' \in Seq(Receipts) /\ Len(receipts') = Len(receipts)
    BY <1>3, Moved DEF ClaimReceipt, ReceiptStates
  <2> QED BY <1>3, <2>2, <2>3 DEF ClaimReceipt, WorkerFrame, TypeOK
<1>4. CASE CompleteReceipt
  <2>1. worker.work # << >> /\ Entry # 0
    BY <1>4, Typed DEF CompleteReceipt
  <2>2. Entry \in ReceiptIds /\ AfterEntry \in WorkerSlots
    BY <2>1, RestTyped DEF ReceiptIds
  <2>3. receipts' \in Seq(Receipts) /\ Len(receipts') = Len(receipts)
    BY <1>4, Moved DEF CompleteReceipt, ReceiptStates
  <2>4. sessions' \in [SessionIds -> Sessions]
    <3>1. PICK s : sessions' = [sessions EXCEPT ![s].accepted = sessions[s].accepted + 1]
      BY <1>4 DEF CompleteReceipt
    <3>2. sessions \in [SessionIds -> Sessions]
      BY DEF TypeOK
    <3>3. CASE s \in SessionIds
      <4>1. [sessions[s] EXCEPT !.accepted = sessions[s].accepted + 1] \in Sessions
        BY <3>2, <3>3 DEF Sessions
      <4> QED BY <3>1, <3>2, <3>3, <4>1
    <3>4. CASE s \notin SessionIds
      BY <3>1, <3>2, <3>4
    <3> QED BY <3>3, <3>4
  <2> QED BY <1>4, <2>2, <2>3, <2>4 DEF CompleteReceipt, WorkerFrame, TypeOK
<1>5. CASE ProcessingRaises
  <2>1. worker.work # << >>
    BY <1>5, Typed DEF ProcessingRaises
  <2>2. receipts' \in Seq(Receipts) /\ Len(receipts') = Len(receipts)
    BY <1>5, Restated DEF ProcessingRaises, ReceiptStates, Errors
  <2> QED BY <1>5, <2>1, <2>2, RestTyped DEF ProcessingRaises, WorkerFrame, TypeOK
<1> QED BY <1>1, <1>2, <1>3, <1>4, <1>5 DEF WorkerStep

\* Recovery keeps the tables typed, and what receipts say of their frames.
LEMMA RecoverTyped == TypeOK /\ CrashAndRecover => TypeOK'
<1> SUFFICES ASSUME TypeOK, CrashAndRecover PROVE TypeOK'
  OBVIOUS
<1> USE LiveConstants
<1>1. PICK n : n = Cardinality(Pending)
  OBVIOUS
<1>2. n \in Nat
  <2>1. IsFiniteSet(DOMAIN receipts)
    <3>1. DOMAIN receipts = 1..Len(receipts) /\ Len(receipts) \in Int
      BY Typed
    <3>2. IsFiniteSet(1..Len(receipts))
      BY <3>1, FS_Interval
    <3> QED BY <3>1, <3>2
  <2>2. IsFiniteSet(Pending)
    <3>1. Pending \subseteq DOMAIN receipts
      BY DEF Pending
    <3> QED BY <2>1, <3>1, FS_Subset
  <2> QED BY <1>1, <2>2, FS_CardinalityType
<1>3. PICK kept \in Nat : kept = (IF n < QueueCap THEN n ELSE QueueCap) /\ kept <= n /\ kept <= QueueCap
  BY <1>2
<1>o. PICK order \in [1..n -> Pending] : Requeue(order, n)
  BY <1>1 DEF CrashAndRecover
<1>q. queue' = [p \in 1..kept |-> order[p]]
  BY <1>3, <1>o DEF Requeue
<1>r. receipts' = [r \in DOMAIN receipts |->
                    IF \E p \in (kept + 1)..n : order[p] = r
                    THEN [WasReset[r] EXCEPT !.status = "failed", !.error = "worker_queue_full"]
                    ELSE WasReset[r]]
  BY <1>3, <1>o, Zenon DEF Requeue
<1>4. queue' \in Seq(0..MaxReceipts) /\ Len(queue') <= QueueCap
  <2>1. Pending \subseteq 0..MaxReceipts
    BY Typed DEF ReceiptIds, Pending
  <2>2. \A p \in 1..kept : p \in 1..n
    BY <1>2, <1>3
  <2>3. queue' \in [1..kept -> 0..MaxReceipts]
    BY <1>o, <1>q, <2>1, <2>2
  <2>4. Len(queue') = kept
    BY <1>3, <2>3
  <2> QED BY <1>3, <2>3, <2>4
<1>5. receipts' \in Seq(Receipts) /\ Len(receipts') = Len(receipts)
  <2>1. ASSUME NEW r \in DOMAIN receipts PROVE receipts'[r] \in Receipts
    <3>1. WasReset[r] \in Receipts
      BY <2>1, Typed DEF WasReset, Reset, Receipts, ReceiptStates
    <3>2. [WasReset[r] EXCEPT !.status = "failed", !.error = "worker_queue_full"] \in Receipts
      BY <3>1 DEF Receipts, ReceiptStates, Errors
    <3>3. receipts'[r] = [WasReset[r] EXCEPT !.status = "failed", !.error = "worker_queue_full"]
          \/ receipts'[r] = WasReset[r]
      BY <1>r, <2>1
    <3> QED BY <3>1, <3>2, <3>3
  <2>2. receipts' = [r \in DOMAIN receipts |-> receipts'[r]]
    BY <1>r
  <2> QED BY <2>1, <2>2, Typed, Rewritten
<1>6. sessions' \in [SessionIds -> Sessions]
  <2>1. sessions \in [SessionIds -> Sessions]
    BY DEF TypeOK
  <2>2. sessions' = [s \in SessionIds |-> IF sessions[s].status = "starting"
                                         THEN [sessions[s] EXCEPT !.status = "void"] ELSE sessions[s]]
    BY DEF CrashAndRecover
  <2>3. \A s \in SessionIds : [sessions[s] EXCEPT !.status = "void"] \in Sessions
    BY <2>1 DEF Sessions, SessionStates
  <2> QED BY <2>1, <2>2, <2>3
<1>7. worker' \in WorkerSlots /\ client' \in [Clients -> ClientSlots]
  <2>1. worker' = IdleWorker /\ client' = [c \in Clients |-> IdleClient]
    BY DEF CrashAndRecover
  <2>2. IdleWorker \in WorkerSlots
    BY DEF IdleWorker, WorkerSlots
  <2> QED BY <2>1, <2>2, IdleTyped
<1>8. submit' \in [Submitters -> 0..MaxReceipts] /\ restarts' \in 0..MaxRestarts
      /\ UNCHANGED <<highWater, issues, records>>
  <2>1. /\ submit' = [u \in Submitters |-> 0]
        /\ restarts < MaxRestarts /\ restarts' = restarts + 1
        /\ UNCHANGED <<highWater, issues, records>>
    BY DEF CrashAndRecover
  <2> QED BY <2>1 DEF TypeOK
<1> QED BY <1>4, <1>5, <1>6, <1>7, <1>8, Typed DEF TypeOK

LEMMA TypeStep == TypeOK /\ [Next]_vars => TypeOK'
<1> SUFFICES ASSUME TypeOK, [Next]_vars PROVE TypeOK'
  OBVIOUS
<1>1. ASSUME NEW u \in Submitters, NEW f \in Frames, QuarantineFrame(u, f) PROVE TypeOK'
  BY <1>1 DEF QuarantineFrame, TypeOK
<1>2. CASE QueueAssistantJob
  <2>1. queue' \in Seq(0..MaxReceipts) /\ Len(queue') <= QueueCap
    <3>1. Append(queue, 0) \in Seq(0..MaxReceipts) /\ Len(Append(queue, 0)) = Len(queue) + 1
      BY Typed, LiveConstants
    <3> QED BY <1>2, <3>1, Typed, LiveConstants DEF QueueAssistantJob
  <2> QED BY <1>2, <2>1 DEF QueueAssistantJob, tables, TypeOK
<1>3. CASE UNCHANGED vars
  BY <1>3 DEF vars, TypeOK
<1> QED BY <1>1, <1>2, <1>3, SubmitTyped, QueueReceiptTyped, ClientsTyped, WorkerTyped, RecoverTyped DEF Next

\* Every reachable state of live ingest is typed: in particular the queue never
\* exceeds live_queue_size and the worker's batch never exceeds 100 entries.
THEOREM TypeCorrect == Spec => []TypeOK
BY InitTyped, TypeStep, PTL DEF Spec

-----------------------------------------------------------------------------
(* Quarantine. *)

\* The receipts and their frames stay what they were.
SameFrames ==
    /\ DOMAIN receipts' = DOMAIN receipts
    /\ \A r \in DOMAIN receipts : receipts'[r].frame = receipts[r].frame

LEMMA RestatedFrames ==
    ASSUME TypeOK, NEW r, NEW st, NEW er,
           \/ receipts' = [receipts EXCEPT ![r].status = st, ![r].error = er]
           \/ receipts' = [receipts EXCEPT ![r].status = st]
    PROVE  SameFrames
<1>1. DOMAIN receipts' = DOMAIN receipts
  OBVIOUS
<1>2. ASSUME NEW i \in DOMAIN receipts PROVE receipts'[i].frame = receipts[i].frame
  <2>1. receipts[i] \in Receipts
    BY Typed
  <2>2. /\ [receipts[i] EXCEPT !.status = st].frame = receipts[i].frame
        /\ [receipts[i] EXCEPT !.status = st, !.error = er].frame = receipts[i].frame
    BY <2>1 DEF Receipts
  <2>3. \/ receipts'[i] = receipts[i]
        \/ receipts'[i] = [receipts[i] EXCEPT !.status = st]
        \/ receipts'[i] = [receipts[i] EXCEPT !.status = st, !.error = er]
    <3>1. CASE i = r
      BY <3>1
    <3>2. CASE i # r
      BY <3>2
    <3> QED BY <3>1, <3>2
  <2> QED BY <2>2, <2>3
<1> QED BY <1>1, <1>2 DEF SameFrames

LEMMA EnqueueFrames ==
    ASSUME TypeOK, NEW r, Enqueue(r)
    PROVE  SameFrames
BY RestatedFrames DEF Enqueue, SameFrames

\* All steps but a submission and a simulation keep the frames, the marks and
\* the issues.
LEMMA OtherSteps ==
    ASSUME TypeOK, [Next]_vars,
           ~\E u \in Submitters, f \in Frames : AcceptFrame(u, f) \/ QuarantineFrame(u, f),
           ~\E c \in Clients, s \in SessionIds : Simulate(c, s)
    PROVE  SameFrames /\ UNCHANGED <<highWater, issues>>
<1> DEFINE Goal == SameFrames /\ UNCHANGED <<highWater, issues>>
<1>u. ASSUME UNCHANGED receipts PROVE SameFrames
  BY <1>u DEF SameFrames
<1>1. ASSUME NEW u \in Submitters, QueueReceipt(u) PROVE Goal
  BY <1>1, EnqueueFrames DEF QueueReceipt
<1>2. ASSUME NEW c \in Clients, NEW k \in Cases, NEW sources \in SUBSET Sources, CheckSources(c, k, sources)
      PROVE  Goal
  BY <1>2, <1>u DEF CheckSources, ClientFrame
<1>3. ASSUME NEW c \in Clients, NEW s \in SessionIds, ReadForStop(c, s) PROVE Goal
  BY <1>3, <1>u DEF ReadForStop, ClientFrame
<1>4. ASSUME NEW c \in Clients, ClientStep(c) PROVE Goal
  <2>1. CASE InsertSession(c)
    BY <2>1, <1>u DEF InsertSession, ClientFrame
  <2>2. CASE StopSession(c)
    <3>1. SameFrames
      BY <2>2, Typed DEF StopSession, CancelQueued, SameFrames, Receipts
    <3> QED BY <2>2, <3>1 DEF StopSession, ClientFrame
  <2>3. CASE PutSimulated(c)
    BY <2>3, EnqueueFrames DEF PutSimulated, ClientFrame
  <2> QED BY <1>4, <2>1, <2>2, <2>3 DEF ClientStep
<1>5. CASE QueueAssistantJob
  BY <1>5, <1>u DEF QueueAssistantJob, tables
<1>6. CASE WorkerStep
  <2>1. CASE TakeEntry \/ SkipEntry
    BY <2>1, <1>u DEF TakeEntry, SkipEntry, WorkerFrame
  <2>2. CASE ClaimReceipt \/ CompleteReceipt \/ ProcessingRaises
    <3>1. SameFrames
      BY <2>2, RestatedFrames DEF ClaimReceipt, CompleteReceipt, ProcessingRaises
    <3> QED BY <2>2, <3>1 DEF ClaimReceipt, CompleteReceipt, ProcessingRaises, WorkerFrame
  <2> QED BY <1>6, <2>1, <2>2 DEF WorkerStep
<1>7. CASE CrashAndRecover
  <2>1. PICK order, n : Requeue(order, n)
    BY <1>7 DEF CrashAndRecover
  <2>2. \A r \in DOMAIN receipts : WasReset[r].frame = receipts[r].frame
                                  /\ [WasReset[r] EXCEPT !.status = "failed", !.error = "worker_queue_full"].frame
                                        = receipts[r].frame
    BY Typed DEF WasReset, Reset, Receipts
  <2>3. /\ DOMAIN receipts' = DOMAIN receipts
        /\ \A r \in DOMAIN receipts :
              \/ receipts'[r] = [WasReset[r] EXCEPT !.status = "failed", !.error = "worker_queue_full"]
              \/ receipts'[r] = WasReset[r]
    BY <2>1 DEF Requeue
  <2>4. SameFrames
    BY <2>2, <2>3 DEF SameFrames
  <2> QED BY <1>7, <2>4 DEF CrashAndRecover
<1>8. CASE UNCHANGED vars
  BY <1>8, <1>u DEF vars
<1> QED BY <1>1, <1>2, <1>3, <1>4, <1>5, <1>6, <1>7, <1>8 DEF Next

\* Where a numbered frame stands: its number is taken, or below the mark.
Barred(f) == Prior(f) # {} \/ Behind(f)

\* Quarantine stays justified when receipts and marks only grow.
LEMMA BarredStays ==
    ASSUME TypeOK, NEW f \in Frames, f.seq # NoSeq, Barred(f),
           DOMAIN receipts \subseteq DOMAIN receipts',
           \A r \in DOMAIN receipts : receipts'[r].frame = receipts[r].frame,
           \A s \in Sources : highWater'[s] \in Int /\ highWater[s] <= highWater'[s]
    PROVE  (Prior(f) # {} \/ Behind(f))'
<1>1. CASE Prior(f) # {}
  <2>1. PICK r \in DOMAIN receipts : receipts[r].frame.source = f.source /\ receipts[r].frame.seq = f.seq
    BY <1>1 DEF Prior
  <2>2. receipts'[r].frame.source = f.source /\ receipts'[r].frame.seq = f.seq /\ r \in DOMAIN receipts'
    BY <2>1
  <2> QED BY <2>2 DEF Prior
<1>2. CASE Behind(f)
  <2>1. f.source \in Sources /\ f.seq \in Int
    BY DEF Frames, Seqs, NoSeq
  <2>2. highWater[f.source] \in Int
    BY <2>1 DEF TypeOK, Seqs, NoSeq
  <2> QED BY <1>2, <2>1, <2>2 DEF Behind
<1> QED BY <1>1, <1>2 DEF Barred

\* A submission, a quarantine or a simulation keeps the invariant.
LEMMA AcceptKeeps ==
    ASSUME QuarantineInv, TypeOK', NEW u \in Submitters, NEW f \in Frames, AcceptFrame(u, f)
    PROVE  QuarantineInv'
<1> DEFINE new == Len(receipts) + 1
<1>1. /\ Len(receipts') = new /\ new \in Nat /\ DOMAIN receipts' = 1..new /\ DOMAIN receipts = 1..Len(receipts)
      /\ \A r \in DOMAIN receipts : r \in DOMAIN receipts' /\ r # new /\ receipts'[r] = receipts[r]
      /\ receipts'[new].frame = f /\ \A r \in DOMAIN receipts' : r = new \/ r \in DOMAIN receipts
  BY Typed DEF AcceptFrame, Receipt, QuarantineInv
<1>2. \A s \in Sources : highWater'[s] \in Int /\ highWater[s] <= highWater'[s]
  <2>1. /\ highWater \in [Sources -> Seqs \cup {NoSeq}]
        /\ highWater' = IF f.seq > NoSeq /\ f.seq > highWater[f.source]
                        THEN [highWater EXCEPT ![f.source] = f.seq] ELSE highWater
        /\ f.seq \in Seqs \cup {NoSeq}
    BY DEF AcceptFrame, QuarantineInv, TypeOK, Frames
  <2> QED BY <2>1, LiveConstants DEF Seqs, NoSeq
<1>3. Prior(f) = {} /\ ~Behind(f)
  BY DEF AcceptFrame
<1>4. f.seq # NoSeq => \A r \in DOMAIN receipts :
          ~(receipts[r].frame.source = f.source /\ receipts[r].frame.seq = f.seq)
  BY <1>3 DEF Prior
<1> HIDE DEF new
<1>5. NumbersAreUnique'
  BY <1>1, <1>4 DEF QuarantineInv, NumbersAreUnique
<1>6. f \notin issues
  BY <1>3 DEF QuarantineInv
<1>7. QuarantineIsFinal'
  BY <1>1, <1>6 DEF QuarantineInv, QuarantineIsFinal, AcceptFrame
<1>8. ASSUME NEW g \in issues PROVE g.seq # NoSeq /\ (Prior(g) # {} \/ Behind(g))'
  <2>1. g \in Frames /\ g.seq # NoSeq /\ Barred(g)
    BY DEF QuarantineInv, TypeOK, Barred
  <2> QED BY <1>1, <1>2, <2>1, BarredStays DEF QuarantineInv
<1>9. issues' = issues
  BY DEF AcceptFrame
<1> QED BY <1>5, <1>7, <1>8, <1>9 DEF QuarantineInv

LEMMA QuarantineKeeps ==
    ASSUME QuarantineInv, TypeOK', NEW u \in Submitters, NEW f \in Frames, QuarantineFrame(u, f)
    PROVE  QuarantineInv'
<1>1. /\ UNCHANGED <<receipts, highWater, sessions>> /\ issues' = issues \cup {f}
      /\ f.seq # NoSeq /\ (Collides(f) \/ (Prior(f) = {} /\ Behind(f)))
  BY DEF QuarantineFrame
<1>2. Prior(f) = {r \in DOMAIN receipts : receipts[r].frame.source = f.source /\ receipts[r].frame.seq = f.seq}
  BY <1>1 DEF Prior
<1>3. \A r \in DOMAIN receipts : receipts[r].frame # f
  BY <1>1, <1>2 DEF Collides, QuarantineInv, NumbersAreUnique
<1>4. QuarantineIsFinal'
  BY <1>1, <1>3 DEF QuarantineInv, QuarantineIsFinal
<1>5. NumbersAreUnique'
  BY <1>1 DEF QuarantineInv, NumbersAreUnique
<1>6. Barred(f)
  BY <1>1 DEF Collides, Barred
<1>7. \A s \in Sources : highWater'[s] \in Int /\ highWater[s] <= highWater'[s]
  BY <1>1, LiveConstants DEF QuarantineInv, TypeOK, Seqs, NoSeq
<1>8. ASSUME NEW g \in issues' PROVE g.seq # NoSeq /\ (Prior(g) # {} \/ Behind(g))'
  <2>1. g \in Frames /\ g.seq # NoSeq /\ Barred(g)
    BY <1>1, <1>6 DEF QuarantineInv, TypeOK, Barred
  <2> QED BY <1>1, <1>7, <2>1, BarredStays DEF QuarantineInv
<1> QED BY <1>4, <1>5, <1>8 DEF QuarantineInv

LEMMA SimulateKeeps ==
    ASSUME QuarantineInv, TypeOK', NEW c \in Clients, NEW s \in SessionIds, Simulate(c, s)
    PROVE  QuarantineInv'
<1> DEFINE f == [case |-> sessions[s].case, source |-> Simulator, seq |-> NoSeq,
                 body |-> CHOOSE b \in Bodies : TRUE]
           new == [n \in 1..SimCount |-> Receipt(s, f)]
<1>1. receipts' = receipts \o new
  BY DEF Simulate
<1>2. \A n \in DOMAIN new : new[n].frame.seq = NoSeq
  BY DEF Receipt
<1>3. new \in Seq({Receipt(s, f)}) /\ receipts \in Seq(Receipts)
  BY LiveConstants, Typed DEF QuarantineInv
<1> HIDE DEF new, f
<1>4. /\ DOMAIN receipts \subseteq DOMAIN receipts'
      /\ \A r \in DOMAIN receipts : receipts'[r] = receipts[r]
      /\ \A r \in DOMAIN receipts' : r \in DOMAIN receipts \/ receipts'[r].frame.seq = NoSeq
  <2>1. /\ Len(receipts') = Len(receipts) + Len(new) /\ DOMAIN receipts' = 1..Len(receipts')
        /\ DOMAIN receipts = 1..Len(receipts) /\ DOMAIN new = 1..Len(new)
        /\ Len(receipts) \in Nat /\ Len(new) \in Nat
    BY <1>1, <1>3, ConcatProperties
  <2>2. \A r \in 1..Len(receipts') : receipts'[r] = IF r <= Len(receipts) THEN receipts[r]
                                                    ELSE new[r - Len(receipts)]
    BY <1>1, <1>3, ConcatProperties
  <2> QED BY <1>2, <2>1, <2>2
<1>5. NumbersAreUnique'
  BY <1>4 DEF QuarantineInv, NumbersAreUnique
<1>6. issues' = issues /\ highWater' = highWater
  BY DEF Simulate, ClientFrame
<1>7. QuarantineIsFinal'
  BY <1>4, <1>6 DEF QuarantineInv, QuarantineIsFinal
<1>8. \A t \in Sources : highWater'[t] \in Int /\ highWater[t] <= highWater'[t]
  BY <1>6, LiveConstants DEF QuarantineInv, TypeOK, Seqs, NoSeq
<1>9. ASSUME NEW g \in issues PROVE g.seq # NoSeq /\ (Prior(g) # {} \/ Behind(g))'
  <2>1. g \in Frames /\ g.seq # NoSeq /\ Barred(g)
    BY DEF QuarantineInv, TypeOK, Barred
  <2> QED BY <1>4, <1>8, <2>1, BarredStays DEF QuarantineInv
<1> QED BY <1>5, <1>6, <1>7, <1>9 DEF QuarantineInv

LEMMA QuarantineStep == QuarantineInv /\ [Next]_vars => QuarantineInv'
<1> SUFFICES ASSUME QuarantineInv, [Next]_vars PROVE QuarantineInv'
  OBVIOUS
<1>0. TypeOK /\ TypeOK'
  BY TypeStep DEF QuarantineInv
<1>1. ASSUME NEW u \in Submitters, NEW f \in Frames, AcceptFrame(u, f) \/ QuarantineFrame(u, f)
      PROVE  QuarantineInv'
  BY <1>0, <1>1, AcceptKeeps, QuarantineKeeps
<1>2. ASSUME NEW c \in Clients, NEW s \in SessionIds, Simulate(c, s) PROVE QuarantineInv'
  BY <1>0, <1>2, SimulateKeeps
<1>3. ASSUME SameFrames, UNCHANGED <<highWater, issues>> PROVE QuarantineInv'
  <2>1. NumbersAreUnique' /\ QuarantineIsFinal'
    BY <1>3 DEF SameFrames, QuarantineInv, NumbersAreUnique, QuarantineIsFinal
  <2>2. \A t \in Sources : highWater'[t] \in Int /\ highWater[t] <= highWater'[t]
    BY <1>3, LiveConstants DEF QuarantineInv, TypeOK, Seqs, NoSeq
  <2>3. ASSUME NEW g \in issues PROVE g.seq # NoSeq /\ (Prior(g) # {} \/ Behind(g))'
    <3>1. g \in Frames /\ g.seq # NoSeq /\ Barred(g)
      BY DEF QuarantineInv, TypeOK, Barred
    <3> QED BY <1>0, <1>3, <2>2, <3>1, BarredStays DEF SameFrames
  <2> QED BY <1>0, <1>3, <2>1, <2>3 DEF QuarantineInv
<1> QED BY <1>0, <1>1, <1>2, <1>3, OtherSteps

LEMMA QuarantineInit == Init => QuarantineInv
BY InitTyped DEF Init, QuarantineInv, NumbersAreUnique, QuarantineIsFinal

\* The inductive invariant of the quarantine holds of every reachable state:
\* the number of a quarantined frame is taken, or below the mark of its source.
THEOREM QuarantineCorrect == Spec => []QuarantineInv
BY QuarantineInit, QuarantineStep, PTL DEF Spec

\* A frame of a source is accepted or quarantined for good (TV5-11): no frame
\* in live_ingest_issues is ever that of a receipt, in whatever sessions,
\* threads and order its copies arrive, across restarts.
THEOREM QuarantinedStaysOut == Spec => []QuarantineIsFinal
BY QuarantineCorrect, PTL DEF QuarantineInv

\* No two receipts of a source have the same number: the check-then-insert of
\* submit_live under one write lock never accepts a number twice.
THEOREM NumbersAcceptedOnce == Spec => []NumbersAreUnique
BY QuarantineCorrect, PTL DEF QuarantineInv

-----------------------------------------------------------------------------
(* Members of a queue. *)

LEMMA AmongAppend ==
    ASSUME NEW S, NEW s \in Seq(S), NEW e \in S, NEW x
    PROVE  Among(x, Append(s, e)) <=> Among(x, s) \/ x = e
<1>1. /\ Append(s, e) \in Seq(S) /\ Len(Append(s, e)) = Len(s) + 1 /\ Len(s) \in Nat
      /\ DOMAIN s = 1..Len(s) /\ DOMAIN Append(s, e) = 1..(Len(s) + 1)
      /\ \A i \in 1..Len(s) : Append(s, e)[i] = s[i]
      /\ Append(s, e)[Len(s) + 1] = e
  BY AppendProperties, LenProperties
<1>2. \A i \in 1..(Len(s) + 1) : i \in 1..Len(s) \/ i = Len(s) + 1
  BY <1>1
<1>3. \A i \in 1..Len(s) : i \in 1..(Len(s) + 1)
  BY <1>1
<1>4. Len(s) + 1 \in 1..(Len(s) + 1)
  BY <1>1
<1> QED BY <1>1, <1>2, <1>3, <1>4 DEF Among

LEMMA AmongTail ==
    ASSUME NEW S, NEW s \in Seq(S), s # << >>, NEW x
    PROVE  Among(x, s) <=> Among(x, Tail(s)) \/ x = Head(s)
<1>1. /\ Tail(s) \in Seq(S) /\ Len(Tail(s)) = Len(s) - 1 /\ Len(s) \in Nat \ {0}
      /\ DOMAIN s = 1..Len(s) /\ DOMAIN Tail(s) = 1..(Len(s) - 1)
      /\ \A i \in 1..(Len(s) - 1) : Tail(s)[i] = s[i + 1]
  BY HeadTailProperties, LenProperties, EmptySeq
<1>2. Head(s) = s[1] /\ 1 \in DOMAIN s
  BY <1>1
<1>3. \A i \in 1..Len(s) : i = 1 \/ (i - 1 \in 1..(Len(s) - 1) /\ (i - 1) + 1 = i)
  BY <1>1
<1>4. \A i \in 1..(Len(s) - 1) : i + 1 \in 1..Len(s)
  BY <1>1
<1>5. ASSUME NEW i \in DOMAIN s, s[i] = x PROVE Among(x, Tail(s)) \/ x = Head(s)
  <2>1. CASE i = 1
    BY <1>2, <1>5, <2>1
  <2>2. CASE i - 1 \in 1..(Len(s) - 1) /\ (i - 1) + 1 = i
    BY <1>1, <1>5, <2>2 DEF Among
  <2> QED BY <1>1, <1>3, <2>1, <2>2
<1>6. ASSUME NEW i \in DOMAIN Tail(s), Tail(s)[i] = x PROVE Among(x, s)
  BY <1>1, <1>4, <1>6 DEF Among
<1> QED BY <1>2, <1>5, <1>6 DEF Among

LEMMA AmongEmpty == \A x : ~Among(x, << >>)
BY DEF Among

\* The head of a queue and its rest.
LEMMA HeadAmong ==
    ASSUME NEW S, NEW s \in Seq(S), s # << >>
    PROVE  Among(Head(s), s)
BY AmongTail

-----------------------------------------------------------------------------
(* What steps have in common. *)

\* Receipts keep their place and their session.
SameSessions ==
    /\ DOMAIN receipts' = DOMAIN receipts
    /\ \A r \in DOMAIN receipts : receipts'[r].session = receipts[r].session

\* One receipt gets another status.
LEMMA StatusSet ==
    ASSUME TypeOK, NEW r \in DOMAIN receipts, NEW st, NEW er,
           \/ receipts' = [receipts EXCEPT ![r].status = st, ![r].error = er]
           \/ receipts' = [receipts EXCEPT ![r].status = st]
    PROVE  /\ SameSessions
           /\ receipts'[r].status = st
           /\ \A i \in DOMAIN receipts : i # r => receipts'[i] = receipts[i]
<1>1. DOMAIN receipts' = DOMAIN receipts
  OBVIOUS
<1>2. receipts[r] \in Receipts
  BY Typed
<1>3. \/ receipts'[r] = [receipts[r] EXCEPT !.status = st]
      \/ receipts'[r] = [receipts[r] EXCEPT !.status = st, !.error = er]
  OBVIOUS
<1>4. receipts'[r].status = st /\ receipts'[r].session = receipts[r].session
  BY <1>2, <1>3 DEF Receipts
<1>5. \A i \in DOMAIN receipts : i # r => receipts'[i] = receipts[i]
  OBVIOUS
<1> QED BY <1>1, <1>4, <1>5 DEF SameSessions

\* A step that leaves the puts alone and puttable receipts puttable.
LEMMA PutsKept ==
    ASSUME PutsAreExclusive, submit' = submit,
           \A c \in Clients : Todo(c)' = Todo(c),
           \A c \in Clients : client'[c].at # "put" => Todo(c) = << >>,
           \A r : Puttable(r) => Puttable(r)'
    PROVE  PutsAreExclusive'
BY DEF PutsAreExclusive

\* The evidence counted for a session is the same if no record is added.
LEMMA CountsKept ==
    ASSUME RecordsAreKnown, CompletedIsRecorded, records' = records,
           DOMAIN receipts \subseteq DOMAIN receipts',
           \A r \in DOMAIN receipts : receipts'[r].session = receipts[r].session,
           \A r \in DOMAIN receipts : receipts'[r].status = "completed" <=> receipts[r].status = "completed",
           \A r \in DOMAIN receipts' \ DOMAIN receipts : receipts'[r].status # "completed",
           \A s \in SessionIds : sessions'[s].accepted = sessions[s].accepted
    PROVE  CompletedIsRecorded' /\ records' \subseteq DOMAIN receipts'
<1>1. ASSUME NEW r \in DOMAIN receipts' PROVE receipts'[r].status = "completed" <=> r \in records'
  BY DEF RecordsAreKnown, CompletedIsRecorded
<1>2. ASSUME NEW s \in SessionIds
      PROVE  {r \in records' : receipts'[r].session = s} = {r \in records : receipts[r].session = s}
  BY DEF RecordsAreKnown
<1>3. ASSUME NEW s \in SessionIds
      PROVE  sessions'[s].accepted = Cardinality({r \in records' : receipts'[r].session = s})
  BY <1>2 DEF CompletedIsRecorded
<1>4. CompletedIsRecorded'
  BY <1>1, <1>3 DEF CompletedIsRecorded
<1> QED BY <1>4 DEF RecordsAreKnown

\* What is held stays held, or is settled.
LEMMA HeldKept ==
    ASSUME QueuedIsHeld, DOMAIN receipts' = DOMAIN receipts,
           \A r \in DOMAIN receipts : receipts'[r].status = "queued" =>
                receipts[r].status = "queued" /\ (Holding(r) => Holding(r)')
    PROVE  QueuedIsHeld'
BY DEF QueuedIsHeld

\* A step of neither receipts, queue nor worker.
LEMMA Untouched ==
    ASSUME UNCHANGED <<receipts, queue, worker>>
    PROVE  /\ \A r : Waits(r)' = Waits(r) /\ Puttable(r)' = Puttable(r)
           /\ ProcessingIsHeld => ProcessingIsHeld'
<1>1. \A r : Waits(r)' = Waits(r) /\ Puttable(r)' = Puttable(r)
  BY DEF Waits, Puttable
<1> QED BY <1>1 DEF ProcessingIsHeld, Entry

\* The receipt the worker has in hands is one of its batch.
LEMMA WorkerEntry ==
    ASSUME TypeOK, ProcessingIsHeld, worker.work # << >>, Entry # 0
    PROVE  Entry \in ReceiptIds /\ Entry \in DOMAIN receipts /\ Waits(Entry)
<1>1. Entry \in ReceiptIds
  BY RestTyped, LiveConstants DEF ReceiptIds
<1>2. worker.work \in Seq(0..MaxReceipts)
  BY Typed
<1>3. Waits(Entry)
  BY <1>2, HeadAmong DEF Entry, Waits
<1> QED BY <1>1, <1>3 DEF ProcessingIsHeld

-----------------------------------------------------------------------------
(* submit_live and simulate_alert. *)

\* Receipts are added to sessions that have started.
LEMMA Grown ==
    ASSUME HolderInv, TypeOK',
           DOMAIN receipts \subseteq DOMAIN receipts',
           \A r \in DOMAIN receipts : receipts'[r] = receipts[r],
           \A r \in DOMAIN receipts' \ DOMAIN receipts :
                receipts'[r].status = "queued" /\ sessions[receipts'[r].session].status # "absent",
           UNCHANGED <<sessions, records, queue, worker>>
    PROVE  /\ \A r : Puttable(r) => Puttable(r)'
           /\ \A r \in DOMAIN receipts' \ DOMAIN receipts : Puttable(r)'
           /\ ProcessingIsHeld' /\ RecordsAreKnown' /\ CompletedIsRecorded'
<1>1. \A r : Waits(r)' = Waits(r)
  BY DEF Waits
<1>2. \A r \in DOMAIN receipts' : r \in ReceiptIds
  <2>1. DOMAIN receipts' = 1..Len(receipts') /\ Len(receipts') \in Nat /\ Len(receipts') <= MaxReceipts
    BY DEF TypeOK
  <2> QED BY <2>1, LiveConstants DEF ReceiptIds
<1>3. \A r : Puttable(r) => Puttable(r)'
  BY <1>1 DEF Puttable
<1>4. \A r \in DOMAIN receipts' \ DOMAIN receipts : Puttable(r)'
  BY <1>1, <1>2 DEF Puttable, HolderInv, ProcessingIsHeld
<1>5. ProcessingIsHeld'
  <2>1. worker.at = "busy" => Entry \in DOMAIN receipts
    BY Typed, WorkerEntry DEF HolderInv
  <2> QED BY <1>1, <2>1 DEF HolderInv, ProcessingIsHeld, Entry
<1>6. CompletedIsRecorded' /\ records' \subseteq DOMAIN receipts'
  BY CountsKept DEF HolderInv
<1>7. RecordsAreKnown'
  BY <1>6 DEF HolderInv, RecordsAreKnown
<1> QED BY <1>3, <1>4, <1>5, <1>6, <1>7

LEMMA NewestIsActive ==
    ASSUME NEW k, Newest(k) # 0
    PROVE  sessions[Newest(k)].status = "active"
BY DEF Newest, ActiveOf

LEMMA AcceptHolds ==
    ASSUME HolderInv, TypeOK', NEW u \in Submitters, NEW f \in Frames, AcceptFrame(u, f)
    PROVE  HolderInv'
<1>0. PICK new : new = Len(receipts) + 1
  OBVIOUS
<1>1. /\ new \in Nat \ {0} /\ DOMAIN receipts' = DOMAIN receipts \cup {new}
      /\ new \notin DOMAIN receipts
      /\ \A r \in DOMAIN receipts : receipts'[r] = receipts[r]
      /\ receipts'[new] = Receipt(Newest(f.case), f)
  BY <1>0, Typed DEF AcceptFrame, HolderInv
<1>2. /\ submit[u] = 0 /\ submit' = [submit EXCEPT ![u] = new] /\ submit \in [Submitters -> 0..MaxReceipts]
      /\ Newest(f.case) # 0
      /\ UNCHANGED <<sessions, records, queue, worker, client>>
  BY <1>0 DEF AcceptFrame, Listens, HolderInv, TypeOK
<1>3. \A r \in DOMAIN receipts' \ DOMAIN receipts :
          receipts'[r].status = "queued" /\ sessions[receipts'[r].session].status # "absent"
  BY <1>1, <1>2, NewestIsActive DEF Receipt
<1>4. /\ \A r : Puttable(r) => Puttable(r)'
      /\ Puttable(new)'
      /\ ProcessingIsHeld' /\ RecordsAreKnown' /\ CompletedIsRecorded'
  BY <1>1, <1>2, <1>3, Grown
<1>5. ~Puttable(new)
  BY <1>1 DEF Puttable
<1>6. \A c \in Clients : Todo(c)' = Todo(c)
  BY <1>2 DEF Todo
<1>7. submit'[u] = new /\ \A v \in Submitters : v # u => submit'[v] = submit[v]
  BY <1>2
<1>8. PutsAreExclusive'
  BY <1>1, <1>2, <1>4, <1>5, <1>6, <1>7 DEF HolderInv, PutsAreExclusive
<1>9. QueuedIsHeld'
  <2>1. ASSUME NEW r \in DOMAIN receipts, Holding(r) PROVE Holding(r)'
    BY <1>1, <1>2, <1>6, <1>7, <2>1, Typed DEF Holding, Waits, HolderInv
  <2>2. Holding(new)'
    BY <1>7 DEF Holding
  <2> QED BY <1>1, <2>1, <2>2 DEF HolderInv, QueuedIsHeld
<1> QED BY <1>4, <1>8, <1>9 DEF HolderInv

LEMMA SimulateGrows ==
    ASSUME TypeOK, NEW c \in Clients, NEW s \in SessionIds, Simulate(c, s), NEW len, len = Len(receipts)
    PROVE  /\ \A r \in DOMAIN receipts : r \in DOMAIN receipts' /\ receipts'[r] = receipts[r]
           /\ \A r \in DOMAIN receipts' \ DOMAIN receipts :
                 /\ receipts'[r].status = "queued" /\ receipts'[r].session = s
                 /\ receipts'[r].frame.seq = NoSeq
                 /\ \E n \in 1..SimCount : r = len + n
           /\ \A n \in 1..SimCount : len + n \in DOMAIN receipts' \ DOMAIN receipts
<1> DEFINE f == [case |-> sessions[s].case, source |-> Simulator, seq |-> NoSeq,
                 body |-> CHOOSE b \in Bodies : TRUE]
           new == [n \in 1..SimCount |-> Receipt(s, f)]
<1>1. receipts' = receipts \o new
  BY DEF Simulate
<1>2. \A n \in 1..SimCount : new[n].status = "queued" /\ new[n].session = s /\ new[n].frame.seq = NoSeq
  BY DEF Receipt
<1>3. DOMAIN receipts = 1..len /\ len \in Nat /\ SimCount \in Nat /\ receipts \in Seq(Receipts)
  BY LiveConstants, Typed
<1>4. new \in Seq(Receipts) /\ Len(new) = SimCount
  <2>1. sessions[s].case \in Cases
    BY DEF TypeOK, Sessions
  <2>2. f \in Simulated
    BY <2>1, LiveConstants DEF Simulated
  <2>3. Receipt(s, f) \in Receipts
    BY <2>2, ReceiptTyped
  <2>4. new \in [1..SimCount -> Receipts]
    BY <2>3
  <2> HIDE DEF new
  <2> QED BY <1>3, <2>4
<1> HIDE DEF new, f
<1>5. /\ DOMAIN receipts' = 1..(len + SimCount)
      /\ \A r \in 1..(len + SimCount) : receipts'[r] = IF r <= len THEN receipts[r] ELSE new[r - len]
  <2>1. /\ receipts' \in Seq(Receipts) /\ Len(receipts') = len + SimCount
        /\ \A r \in 1..(len + SimCount) : receipts'[r] = IF r <= len THEN receipts[r] ELSE new[r - len]
    BY <1>1, <1>3, <1>4, ConcatProperties
  <2> QED BY <2>1, LenProperties
<1>6. ASSUME NEW r \in DOMAIN receipts' \ DOMAIN receipts
      PROVE  r - len \in 1..SimCount /\ r = len + (r - len) /\ receipts'[r] = new[r - len]
  BY <1>3, <1>5
<1>7. \A n \in 1..SimCount : len + n \in DOMAIN receipts' \ DOMAIN receipts
  BY <1>3, <1>5
<1>8. \A r \in DOMAIN receipts : r \in DOMAIN receipts' /\ receipts'[r] = receipts[r]
  BY <1>3, <1>5
<1> QED BY <1>2, <1>6, <1>7, <1>8

LEMMA SimulateHolds ==
    ASSUME HolderInv, TypeOK', NEW c \in Clients, NEW s \in SessionIds, Simulate(c, s)
    PROVE  HolderInv'
<1>0. PICK len : len = Len(receipts)
  OBVIOUS
<1>1. PICK todo : /\ todo = [n \in 1..SimCount |-> len + n]
                  /\ client' = [client EXCEPT ![c] = [IdleClient EXCEPT !.at = "put", !.todo = todo]]
  BY <1>0 DEF Simulate
<1>2. /\ sessions[s].status = "active" /\ client[c].at = "idle"
      /\ UNCHANGED <<sessions, records, queue, worker, submit>>
  BY DEF Simulate, ClientFrame
<1>3. /\ \A r \in DOMAIN receipts : r \in DOMAIN receipts' /\ receipts'[r] = receipts[r]
      /\ \A r \in DOMAIN receipts' \ DOMAIN receipts :
            /\ receipts'[r].status = "queued" /\ receipts'[r].session = s
            /\ \E n \in 1..SimCount : r = len + n
      /\ \A n \in 1..SimCount : len + n \in DOMAIN receipts' \ DOMAIN receipts
  <2>1. TypeOK
    BY DEF HolderInv
  <2>2. /\ \A r \in DOMAIN receipts : r \in DOMAIN receipts' /\ receipts'[r] = receipts[r]
        /\ \A r \in DOMAIN receipts' \ DOMAIN receipts :
              /\ receipts'[r].status = "queued" /\ receipts'[r].session = s
              /\ receipts'[r].frame.seq = NoSeq
              /\ \E n \in 1..SimCount : r = len + n
        /\ \A n \in 1..SimCount : len + n \in DOMAIN receipts' \ DOMAIN receipts
    BY <1>0, <2>1, SimulateGrows
  <2> QED BY <2>2
<1>4. /\ \A r : Puttable(r) => Puttable(r)'
      /\ \A r \in DOMAIN receipts' \ DOMAIN receipts : Puttable(r)'
      /\ ProcessingIsHeld' /\ RecordsAreKnown' /\ CompletedIsRecorded'
  BY <1>2, <1>3, Grown
<1>5. /\ Todo(c)' = todo /\ client'[c].at = "put" /\ Todo(c) = << >>
      /\ \A d \in Clients : d # c => client'[d] = client[d] /\ Todo(d)' = Todo(d)
  <2>1. client \in [Clients -> ClientSlots] /\ IdleClient = [at |-> "idle", session |-> 0, todo |-> << >>]
    BY Typed DEF HolderInv, IdleClient
  <2> QED BY <1>1, <1>2, <2>1 DEF Todo, HolderInv, PutsAreExclusive
<1>6. /\ DOMAIN todo = 1..SimCount
      /\ \A n \in 1..SimCount : todo[n] = len + n
      /\ \A n, m \in 1..SimCount : todo[n] = todo[m] => n = m
      /\ \A n \in 1..SimCount : todo[n] # 0
  <2>1. len \in Nat
    BY <1>0, Typed DEF HolderInv
  <2> QED BY <1>1, <2>1
<1>7. \A n \in DOMAIN todo : todo[n] \in DOMAIN receipts' \ DOMAIN receipts
  BY <1>3, <1>6
<1>8. PutsAreExclusive'
  <2>1. \A v \in Submitters : submit[v] # 0 => submit[v] \in DOMAIN receipts
    BY DEF HolderInv, PutsAreExclusive, Puttable
  <2>2. \A d \in Clients : \A p \in DOMAIN Todo(d) : Todo(d)[p] \in DOMAIN receipts
    BY DEF HolderInv, PutsAreExclusive, Puttable
  <2>3. \A v \in Submitters : submit'[v] # 0 => Puttable(submit[v])'
    BY <1>2, <1>4 DEF HolderInv, PutsAreExclusive
  <2>4. ASSUME NEW d \in Clients, NEW p \in DOMAIN Todo(d)' PROVE Puttable(Todo(d)[p])'
    <3>1. CASE d = c
      BY <1>4, <1>5, <1>7, <3>1
    <3>2. CASE d # c
      BY <1>4, <1>5, <3>2 DEF HolderInv, PutsAreExclusive
    <3> QED BY <3>1, <3>2
  <2>5. ASSUME NEW d \in Clients, NEW e \in Clients, NEW p \in DOMAIN Todo(d)', NEW q \in DOMAIN Todo(e)',
               Todo(d)'[p] = Todo(e)'[q]
        PROVE  d = e /\ p = q
    <3>1. CASE d = c /\ e = c
      BY <1>5, <1>6, <2>5, <3>1
    <3>2. CASE d # c /\ e = c
      BY <1>5, <1>7, <2>2, <2>5, <3>2
    <3>3. CASE d = c /\ e # c
      BY <1>5, <1>7, <2>2, <2>5, <3>3
    <3>4. CASE d # c /\ e # c
      BY <1>5, <2>5, <3>4 DEF HolderInv, PutsAreExclusive
    <3> QED BY <3>1, <3>2, <3>3, <3>4
  <2>6. ASSUME NEW v \in Submitters, NEW d \in Clients, NEW p \in DOMAIN Todo(d)'
        PROVE  Todo(d)'[p] # submit'[v]
    <3>1. CASE d = c
      BY <1>2, <1>5, <1>6, <1>7, <2>1, <3>1
    <3>2. CASE d # c
      BY <1>2, <1>5, <3>2 DEF HolderInv, PutsAreExclusive
    <3> QED BY <3>1, <3>2
  <2>7. \A d \in Clients : client'[d].at # "put" => Todo(d)' = << >>
    BY <1>5 DEF HolderInv, PutsAreExclusive
  <2>8. \A u, v \in Submitters : submit'[u] = submit'[v] /\ submit'[u] # 0 => u = v
    BY <1>2 DEF HolderInv, PutsAreExclusive
  <2> QED BY <2>3, <2>4, <2>5, <2>6, <2>7, <2>8 DEF PutsAreExclusive
<1>9. QueuedIsHeld'
  <2>1. ASSUME NEW r \in DOMAIN receipts, Holding(r) PROVE Holding(r)'
    BY <1>2, <1>5, <2>1, AmongEmpty DEF Holding, Waits
  <2>2. ASSUME NEW r \in DOMAIN receipts' \ DOMAIN receipts PROVE Holding(r)'
    <3>1. Among(r, todo)
      BY <1>3, <1>6 DEF Among
    <3>2. Among(r, Todo(c)')
      BY <1>5, <3>1
    <3> QED BY <3>2 DEF Holding
  <2> QED BY <1>3, <2>1, <2>2 DEF HolderInv, QueuedIsHeld
<1> QED BY <1>4, <1>8, <1>9 DEF HolderInv

-----------------------------------------------------------------------------
(* _enqueue. *)

\* A puttable receipt is put, or fails; no other changes.
LEMMA Enqueued ==
    ASSUME HolderInv, NEW r, Puttable(r), Enqueue(r),
           UNCHANGED <<sessions, records, worker>>
    PROVE  /\ SameSessions
           /\ \A x : Waits(x) => Waits(x)'
           /\ \A x : x # r /\ Puttable(x) => Puttable(x)'
           /\ \A x \in DOMAIN receipts : x # r => receipts'[x] = receipts[x]
           /\ receipts'[r].status = "queued" => receipts[r].status = "queued" /\ Waits(r)'
           /\ ProcessingIsHeld' /\ RecordsAreKnown' /\ CompletedIsRecorded'
<1>1. /\ r \in DOMAIN receipts /\ receipts[r].status \in {"queued", "cancelled"}
      /\ r \in ReceiptIds /\ r \in 0..MaxReceipts
      /\ ~Waits(r) /\ TypeOK
  BY Typed, LiveConstants DEF Puttable, HolderInv, ReceiptIds
<1>2. /\ SameSessions
      /\ \A x \in DOMAIN receipts : x # r => receipts'[x] = receipts[x]
      /\ \/ /\ receipts'[r] = receipts[r]
            /\ queue' = Append(queue, r)
         \/ /\ receipts'[r].status = "failed"
            /\ queue' = queue
  <2>1. CASE queue' = Append(queue, r) /\ UNCHANGED receipts
    BY <2>1 DEF SameSessions
  <2>2. CASE /\ receipts' = [receipts EXCEPT ![r].status = "failed", ![r].error = "worker_queue_full"]
             /\ UNCHANGED queue
    BY <1>1, <2>2, StatusSet
  <2> QED BY <2>1, <2>2 DEF Enqueue
<1>3. \A x : Among(x, queue') <=> Among(x, queue) \/ (x = r /\ receipts'[r] = receipts[r] /\ queue' = Append(queue, r))
  <2>1. \A x : Among(x, Append(queue, r)) <=> Among(x, queue) \/ x = r
    <3>1. queue \in Seq(0..MaxReceipts) /\ r \in 0..MaxReceipts
      BY <1>1, Typed
    <3> QED BY <3>1, AmongAppend
  <2>2. receipts'[r].status = "failed" => receipts'[r] # receipts[r]
    BY <1>1
  <2> QED BY <1>2, <2>1, <2>2
<1>4. \A x : Waits(x) => Waits(x)'
  BY <1>3 DEF Waits
<1>5. \A x : x # r /\ Waits(x)' => Waits(x)
  BY <1>3 DEF Waits
<1>6. \A x : x # r /\ Puttable(x) => Puttable(x)'
  BY <1>2, <1>5 DEF Puttable, SameSessions
<1>7. receipts'[r].status = "queued" => receipts[r].status = "queued" /\ Waits(r)'
  BY <1>2, <1>3 DEF Waits
<1>8. ProcessingIsHeld'
  <2>1. worker.at = "busy" => Entry # r
    BY <1>1, Typed, WorkerEntry DEF HolderInv
  <2>2. \A x \in DOMAIN receipts : receipts'[x].status = "processing" => x # r
    BY <1>1, <1>2
  <2>3. worker.at = "busy" => Entry \in DOMAIN receipts
    BY <1>1, Typed, WorkerEntry DEF HolderInv
  <2>4. Entry' = Entry /\ worker' = worker
    BY DEF Entry
  <2>5. \A x \in ReceiptIds : Waits(x)' => x \in DOMAIN receipts'
    BY <1>1, <1>2, <1>5 DEF HolderInv, ProcessingIsHeld, SameSessions
  <2> QED BY <1>2, <2>1, <2>2, <2>3, <2>4, <2>5 DEF HolderInv, ProcessingIsHeld, SameSessions
<1>9. CompletedIsRecorded' /\ records' \subseteq DOMAIN receipts'
  <2>1. \A x \in DOMAIN receipts : receipts'[x].status = "completed" <=> receipts[x].status = "completed"
    BY <1>1, <1>2
  <2> QED BY <1>2, <2>1, CountsKept DEF HolderInv, SameSessions
<1>10. RecordsAreKnown'
  BY <1>2, <1>9 DEF HolderInv, RecordsAreKnown, SameSessions
<1> QED BY <1>2, <1>4, <1>6, <1>7, <1>8, <1>9, <1>10

LEMMA QueueHolds ==
    ASSUME HolderInv, TypeOK', NEW u \in Submitters, QueueReceipt(u)
    PROVE  HolderInv'
<1>0. PICK r : r = submit[u]
  OBVIOUS
<1>1. /\ r # 0 /\ Enqueue(r) /\ submit' = [submit EXCEPT ![u] = 0]
      /\ UNCHANGED <<sessions, records, worker, client>>
      /\ submit \in [Submitters -> 0..MaxReceipts]
  BY <1>0 DEF QueueReceipt, HolderInv, TypeOK
<1>2. Puttable(r)
  BY <1>0, <1>1 DEF HolderInv, PutsAreExclusive
<1>3. /\ SameSessions
      /\ \A x : Waits(x) => Waits(x)'
      /\ \A x : x # r /\ Puttable(x) => Puttable(x)'
      /\ \A x \in DOMAIN receipts : x # r => receipts'[x] = receipts[x]
      /\ receipts'[r].status = "queued" => receipts[r].status = "queued" /\ Waits(r)'
      /\ ProcessingIsHeld' /\ RecordsAreKnown' /\ CompletedIsRecorded'
  BY <1>1, <1>2, Enqueued
<1>4. /\ submit'[u] = 0 /\ \A v \in Submitters : v # u => submit'[v] = submit[v]
      /\ \A c \in Clients : Todo(c)' = Todo(c)
  BY <1>1 DEF Todo
<1>5. PutsAreExclusive'
  <2>1. \A v \in Submitters : v # u /\ submit[v] # 0 => submit[v] # r /\ Puttable(submit[v])
    BY <1>0, <1>1 DEF HolderInv, PutsAreExclusive
  <2>2. \A c \in Clients : \A p \in DOMAIN Todo(c) : Todo(c)[p] # r /\ Todo(c)[p] # 0
    BY <1>0, Typed DEF HolderInv, PutsAreExclusive, Puttable
  <2>3. \A v \in Submitters : submit'[v] # 0 => Puttable(submit[v])' /\ v # u
    <3>1. ASSUME NEW v \in Submitters, v # u, submit[v] # 0, NEW x, x = submit[v] PROVE Puttable(x)'
      BY <1>3, <2>1, <3>1
    <3>2. \A v \in Submitters : v # u => submit'[v] = submit[v]
      BY <1>4
    <3> QED BY <1>4, <3>1, <3>2
  <2>4. \A c \in Clients : \A p \in DOMAIN Todo(c) : Puttable(Todo(c)[p])'
    <3>1. ASSUME NEW c \in Clients, NEW p \in DOMAIN Todo(c), NEW x, x = Todo(c)[p] PROVE Puttable(x)'
      BY <1>3, <2>2, <3>1 DEF HolderInv, PutsAreExclusive
    <3> QED BY <1>4, <3>1
  <2>5. \A v, w \in Submitters : submit'[v] = submit'[w] /\ submit'[v] # 0 => v = w
    BY <1>4 DEF HolderInv, PutsAreExclusive
  <2>6. \A v \in Submitters, c \in Clients : \A p \in DOMAIN Todo(c) : Todo(c)[p] # submit'[v]
    BY <1>4, <2>2 DEF HolderInv, PutsAreExclusive
  <2>7. \A c \in Clients : client'[c].at # "put" => Todo(c) = << >>
    BY <1>1 DEF HolderInv, PutsAreExclusive
  <2> QED BY <1>4, <2>3, <2>4, <2>5, <2>6, <2>7 DEF HolderInv, PutsAreExclusive
<1>6. QueuedIsHeld'
  <2>1. ASSUME NEW x \in DOMAIN receipts, x # r, Holding(x) PROVE Holding(x)'
    BY <1>0, <1>3, <1>4, <2>1 DEF Holding
  <2>2. ASSUME receipts'[r].status = "queued" PROVE Holding(r)'
    BY <1>3, <2>2 DEF Holding
  <2> QED BY <1>3, <2>1, <2>2 DEF HolderInv, QueuedIsHeld, SameSessions
<1> QED BY <1>3, <1>5, <1>6 DEF HolderInv

LEMMA PutHolds ==
    ASSUME HolderInv, TypeOK', NEW c \in Clients, PutSimulated(c)
    PROVE  HolderInv'
<1>0. PICK todo : todo = Todo(c)
  OBVIOUS
<1>1. /\ client[c].at = "put" /\ todo \in Seq(ReceiptIds) /\ todo # << >>
      /\ client \in [Clients -> ClientSlots]
  BY <1>0, Typed DEF PutSimulated, HolderInv, Todo, ClientSlots
<1>2. /\ DOMAIN todo = 1..Len(todo) /\ Len(todo) \in Nat \ {0}
      /\ DOMAIN Tail(todo) = 1..(Len(todo) - 1) /\ Tail(todo) \in Seq(ReceiptIds)
      /\ \A i \in 1..(Len(todo) - 1) : Tail(todo)[i] = todo[i + 1]
      /\ Head(todo) = todo[1]
  BY <1>1, HeadTailProperties, LenProperties, EmptySeq
<1>3. PICK r : r = Head(todo)
  OBVIOUS
<1>4. /\ Enqueue(r) /\ UNCHANGED <<sessions, records, worker, submit>>
      /\ \A d \in Clients : d # c => client'[d] = client[d] /\ Todo(d)' = Todo(d)
      /\ Todo(c)' = Tail(todo)
      /\ client'[c].at # "put" => Tail(todo) = << >>
  <2>1. /\ Enqueue(r) /\ UNCHANGED <<sessions, records, worker, submit>>
        /\ client' = [client EXCEPT ![c] = IF Len(todo) = 1 THEN IdleClient
                                           ELSE [client[c] EXCEPT !.todo = Tail(todo)]]
    BY <1>0, <1>3 DEF PutSimulated, ClientFrame, Todo
  <2>2. Len(todo) = 1 => Tail(todo) = << >>
    BY <1>1, <1>2
  <2>3. \A d \in Clients : d # c => client'[d] = client[d]
    BY <1>1, <2>1
  <2>4. client'[c].todo = Tail(todo) /\ (client'[c].at = "put" \/ Tail(todo) = << >>)
    <3>1. CASE Len(todo) = 1
      <4>1. client'[c] = IdleClient
        BY <1>1, <2>1, <3>1
      <4> QED BY <2>2, <3>1, <4>1 DEF IdleClient
    <3>2. CASE Len(todo) # 1
      <4>1. client'[c] = [client[c] EXCEPT !.todo = Tail(todo)] /\ client[c] \in ClientSlots
        BY <1>1, <2>1, <3>2
      <4> QED BY <1>1, <4>1 DEF ClientSlots
    <3> QED BY <3>1, <3>2
  <2> QED BY <2>1, <2>3, <2>4 DEF Todo
<1>5. Puttable(r)
  BY <1>0, <1>2, <1>3 DEF HolderInv, PutsAreExclusive
<1>6. /\ SameSessions
      /\ \A x : Waits(x) => Waits(x)'
      /\ \A x : x # r /\ Puttable(x) => Puttable(x)'
      /\ \A x \in DOMAIN receipts : x # r => receipts'[x] = receipts[x]
      /\ receipts'[r].status = "queued" => receipts[r].status = "queued" /\ Waits(r)'
      /\ ProcessingIsHeld' /\ RecordsAreKnown' /\ CompletedIsRecorded'
  BY <1>4, <1>5, Enqueued
\* What is left to put was to be put before, one place later.
<1>7. ASSUME NEW d \in Clients
      PROVE  \A p \in DOMAIN Todo(d)' :
                IF d = c THEN p + 1 \in DOMAIN Todo(c) /\ p + 1 # 1 /\ p \in Int /\ Todo(d)'[p] = Todo(c)[p + 1]
                         ELSE p \in DOMAIN Todo(d) /\ Todo(d)'[p] = Todo(d)[p]
  BY <1>0, <1>2, <1>4
<1>8. ASSUME NEW d \in Clients, NEW p \in DOMAIN Todo(d)'
      PROVE  Todo(d)'[p] # r /\ Puttable(Todo(d)'[p])
  <2>1. CASE d = c
    BY <1>0, <1>2, <1>3, <1>7, <2>1 DEF HolderInv, PutsAreExclusive
  <2>2. CASE d # c
    BY <1>0, <1>2, <1>3, <1>7, <2>2 DEF HolderInv, PutsAreExclusive
  <2> QED BY <2>1, <2>2
<1>9. PutsAreExclusive'
  <2>1. ASSUME NEW v \in Submitters, submit[v] # 0, NEW x, x = submit[v] PROVE Puttable(x)'
    <3>1. Puttable(x) /\ x # r
      BY <1>0, <1>2, <1>3, <2>1 DEF HolderInv, PutsAreExclusive
    <3> QED BY <1>6, <3>1
  <2>2. ASSUME NEW d \in Clients, NEW p \in DOMAIN Todo(d)', NEW x, x = Todo(d)'[p] PROVE Puttable(x)'
    BY <1>6, <1>8, <2>2
  <2>3. ASSUME NEW d \in Clients, NEW e \in Clients, NEW p \in DOMAIN Todo(d)', NEW q \in DOMAIN Todo(e)',
               Todo(d)'[p] = Todo(e)'[q]
        PROVE  d = e /\ p = q
    <3>1. CASE d = c /\ e = c
      <4>1. p + 1 = q + 1 /\ p \in Int /\ q \in Int
        BY <1>7, <2>3, <3>1 DEF HolderInv, PutsAreExclusive
      <4> QED BY <3>1, <4>1
    <3>2. CASE d # c \/ e # c
      BY <1>7, <2>3, <3>2 DEF HolderInv, PutsAreExclusive
    <3> QED BY <3>1, <3>2
  <2>4. ASSUME NEW v \in Submitters, NEW d \in Clients, NEW p \in DOMAIN Todo(d)'
        PROVE  Todo(d)'[p] # submit'[v]
    BY <1>4, <1>7 DEF HolderInv, PutsAreExclusive
  <2>5. \A d \in Clients : client'[d].at # "put" => Todo(d)' = << >>
    BY <1>4 DEF HolderInv, PutsAreExclusive
  <2>6. \A v, w \in Submitters : submit'[v] = submit'[w] /\ submit'[v] # 0 => v = w
    BY <1>4 DEF HolderInv, PutsAreExclusive
  <2>7. \A v \in Submitters : submit'[v] # 0 => Puttable(submit[v])'
    BY <1>4, <2>1
  <2>8. \A d \in Clients : \A p \in DOMAIN Todo(d)' : Puttable(Todo(d)[p])'
    BY <2>2
  <2> QED BY <2>3, <2>4, <2>5, <2>6, <2>7, <2>8 DEF PutsAreExclusive
<1>10. QueuedIsHeld'
  <2>1. ASSUME NEW x \in DOMAIN receipts, x # r, Holding(x) PROVE Holding(x)'
    <3>1. ASSUME NEW d \in Clients, Among(x, Todo(d)) PROVE Among(x, Todo(d)')
      <4>1. CASE d = c
        <5>1. Among(x, todo) => Among(x, Tail(todo)) \/ x = Head(todo)
          BY <1>1, AmongTail
        <5> QED BY <1>0, <1>3, <1>4, <2>1, <3>1, <4>1, <5>1
      <4>2. CASE d # c
        BY <1>4, <3>1, <4>2
      <4> QED BY <4>1, <4>2
    <3> QED BY <1>4, <1>6, <2>1, <3>1 DEF Holding
  <2>2. ASSUME receipts'[r].status = "queued" PROVE Holding(r)'
    BY <1>6, <2>2 DEF Holding
  <2> QED BY <1>6, <2>1, <2>2 DEF HolderInv, QueuedIsHeld, SameSessions
<1> QED BY <1>6, <1>9, <1>10 DEF HolderInv

-----------------------------------------------------------------------------
(* The worker. *)

\* A worker step: nothing is put, and what is puttable stays so.
LEMMA WorkerKeepsPuts ==
    ASSUME HolderInv, UNCHANGED <<submit, client>>,
           \A x : Waits(x)' => Waits(x), DOMAIN receipts' = DOMAIN receipts,
           \A x \in DOMAIN receipts : ~Waits(x) => receipts'[x] = receipts[x]
    PROVE  PutsAreExclusive'
<1>1. \A c \in Clients : Todo(c)' = Todo(c)
  BY DEF Todo
<1>2. \A c \in Clients : client'[c].at # "put" => Todo(c) = << >>
  BY DEF HolderInv, PutsAreExclusive
<1>3. \A x : Puttable(x) => Puttable(x)'
  BY DEF Puttable
<1> QED BY <1>1, <1>2, <1>3, PutsKept DEF HolderInv

\* A worker step loses sight of settled receipts only.
LEMMA WorkerKeepsHeld ==
    ASSUME HolderInv, UNCHANGED <<submit, client>>, DOMAIN receipts' = DOMAIN receipts,
           \A x \in DOMAIN receipts : receipts'[x].status = "queued" =>
                receipts[x].status = "queued" /\ (Waits(x) => Waits(x)')
    PROVE  QueuedIsHeld'
<1>1. \A c \in Clients : Todo(c)' = Todo(c)
  BY DEF Todo
<1>2. ASSUME NEW x \in DOMAIN receipts, receipts'[x].status = "queued", Holding(x) PROVE Holding(x)'
  BY <1>1, <1>2 DEF Holding
<1> QED BY <1>2, HeldKept DEF HolderInv

\* The first entry of the batch is dropped.
LEMMA Dropped ==
    ASSUME TypeOK, worker.work # << >>, worker' = AfterEntry, queue' = queue
    PROVE  /\ \A x : Waits(x)' => Waits(x)
           /\ \A x : Waits(x) /\ x # Entry => Waits(x)'
           /\ worker'.at # "busy"
<1>1. worker.work \in Seq(0..MaxReceipts) /\ worker'.work = Tail(worker.work) /\ worker'.at # "busy"
  BY Typed DEF AfterEntry
<1>2. \A x : Among(x, worker.work) <=> Among(x, worker'.work) \/ x = Entry
  BY <1>1, AmongTail DEF Entry
<1> QED BY <1>1, <1>2 DEF Waits

LEMMA TakeHolds ==
    ASSUME HolderInv, TypeOK', TakeEntry
    PROVE  HolderInv'
<1>1. /\ worker.at = "collect" /\ queue # << >> /\ queue' = Tail(queue)
      /\ worker' = [worker EXCEPT !.work = Append(worker.work, Head(queue))]
      /\ UNCHANGED <<sessions, receipts, records, submit, client>>
  BY DEF TakeEntry, WorkerFrame
<1>2. queue \in Seq(0..MaxReceipts) /\ worker.work \in Seq(0..MaxReceipts) /\ worker \in WorkerSlots
  BY Typed DEF HolderInv, TypeOK
<1>3. worker'.at = "collect" /\ worker'.work = Append(worker.work, Head(queue))
  BY <1>1, <1>2 DEF WorkerSlots
<1>4. ASSUME NEW x PROVE Waits(x)' <=> Waits(x)
  <2>1. Among(x, queue) <=> Among(x, queue') \/ x = Head(queue)
    BY <1>1, <1>2, AmongTail
  <2>2. Head(queue) \in 0..MaxReceipts
    <3>1. queue \in Seq(0..MaxReceipts) /\ queue # << >>
      BY <1>1, <1>2
    <3> QED BY <3>1, HeadTailProperties
  <2>3. Among(x, worker'.work) <=> Among(x, worker.work) \/ x = Head(queue)
    <3>1. worker.work \in Seq(0..MaxReceipts)
      BY <1>2
    <3>2. Among(x, Append(worker.work, Head(queue))) <=> Among(x, worker.work) \/ x = Head(queue)
      BY <2>2, <3>1, AmongAppend
    <3> QED BY <1>3, <3>2
  <2> QED BY <2>1, <2>3 DEF Waits
<1>5. PutsAreExclusive'
  BY <1>1, <1>4, WorkerKeepsPuts
<1>6. QueuedIsHeld'
  BY <1>1, <1>4, WorkerKeepsHeld
<1>7. ProcessingIsHeld'
  BY <1>1, <1>3, <1>4 DEF HolderInv, ProcessingIsHeld
<1>8. RecordsAreKnown' /\ CompletedIsRecorded'
  BY <1>1 DEF HolderInv, RecordsAreKnown, CompletedIsRecorded
<1> QED BY <1>5, <1>6, <1>7, <1>8 DEF HolderInv

LEMMA SkipHolds ==
    ASSUME HolderInv, TypeOK', SkipEntry
    PROVE  HolderInv'
<1>1. /\ worker.at # "busy" /\ worker.work # << >> /\ ~Claimable
      /\ worker' = AfterEntry
      /\ UNCHANGED <<sessions, receipts, records, queue, submit, client>>
  BY DEF SkipEntry, AtEntry, WorkerFrame
<1>2. /\ \A x : Waits(x)' => Waits(x)
      /\ \A x : Waits(x) /\ x # Entry => Waits(x)'
      /\ worker'.at # "busy"
  BY <1>1, Dropped DEF HolderInv
<1>3. PutsAreExclusive'
  BY <1>1, <1>2, WorkerKeepsPuts
<1>4. QueuedIsHeld'
  <2>1. \A x \in DOMAIN receipts : receipts[x].status = "queued" => x # Entry
    BY <1>1, Typed DEF Claimable, HolderInv
  <2> QED BY <1>1, <1>2, <2>1, WorkerKeepsHeld
<1>5. ProcessingIsHeld'
  BY <1>1, <1>2 DEF HolderInv, ProcessingIsHeld
<1>6. RecordsAreKnown' /\ CompletedIsRecorded'
  BY <1>1 DEF HolderInv, RecordsAreKnown, CompletedIsRecorded
<1> QED BY <1>3, <1>4, <1>5, <1>6 DEF HolderInv

LEMMA ClaimHolds ==
    ASSUME HolderInv, TypeOK', ClaimReceipt
    PROVE  HolderInv'
<1>1. /\ worker.work # << >> /\ worker.at # "busy" /\ Entry # 0 /\ receipts[Entry].status = "queued"
      /\ receipts' = [receipts EXCEPT ![Entry].status = "processing"]
      /\ worker' = [worker EXCEPT !.at = "busy"]
      /\ UNCHANGED <<sessions, records, queue, submit, client>>
      /\ worker \in WorkerSlots
  BY DEF ClaimReceipt, AtEntry, Claimable, WorkerFrame, HolderInv, TypeOK
<1>2. Entry \in DOMAIN receipts /\ Waits(Entry)
  BY <1>1, WorkerEntry DEF HolderInv
<1>3. PICK e : e = Entry
  OBVIOUS
<1>4. /\ SameSessions /\ receipts'[e].status = "processing"
      /\ \A i \in DOMAIN receipts : i # e => receipts'[i] = receipts[i]
  BY <1>1, <1>2, <1>3, StatusSet DEF HolderInv
<1>5. worker'.work = worker.work /\ worker'.at = "busy" /\ Entry' = e
  BY <1>1, <1>3 DEF WorkerSlots, Entry
<1>6. \A x : Waits(x)' = Waits(x)
  BY <1>1, <1>5 DEF Waits
<1>7. PutsAreExclusive'
  BY <1>1, <1>2, <1>3, <1>4, <1>6, WorkerKeepsPuts DEF SameSessions
<1>8. QueuedIsHeld'
  BY <1>1, <1>3, <1>4, <1>6, WorkerKeepsHeld DEF SameSessions
<1>9. ProcessingIsHeld'
  BY <1>1, <1>4, <1>5, <1>6 DEF HolderInv, ProcessingIsHeld, SameSessions
<1>10. CompletedIsRecorded' /\ records' \subseteq DOMAIN receipts'
  <2>1. \A x \in DOMAIN receipts : receipts'[x].status = "completed" <=> receipts[x].status = "completed"
    BY <1>1, <1>3, <1>4
  <2> QED BY <1>1, <1>4, <2>1, CountsKept DEF HolderInv, SameSessions
<1>11. RecordsAreKnown'
  BY <1>1, <1>4, <1>10 DEF HolderInv, RecordsAreKnown, SameSessions
<1> QED BY <1>7, <1>8, <1>9, <1>10, <1>11 DEF HolderInv

\* The worker is done with the receipt in its hands, which is not queued.
LEMMA DoneHolds ==
    ASSUME HolderInv, TypeOK', worker.at = "busy", NEW e, e = Entry, worker' = AfterEntry,
           UNCHANGED <<queue, submit, client>>,
           SameSessions, receipts'[e].status \in {"completed", "failed"},
           \A i \in DOMAIN receipts : i # e => receipts'[i] = receipts[i]
    PROVE  /\ PutsAreExclusive' /\ QueuedIsHeld' /\ ProcessingIsHeld'
           /\ e \in DOMAIN receipts /\ receipts[e].status = "processing"
<1>1. worker.work # << >> /\ Entry # 0
  BY Typed DEF HolderInv
<1>2. e \in DOMAIN receipts /\ Waits(e) /\ receipts[e].status = "processing"
  BY <1>1, WorkerEntry DEF HolderInv, ProcessingIsHeld
<1>3. /\ \A x : Waits(x)' => Waits(x)
      /\ \A x : Waits(x) /\ x # e => Waits(x)'
      /\ worker'.at # "busy"
  BY <1>1, Dropped DEF HolderInv
<1>4. PutsAreExclusive'
  BY <1>2, <1>3, WorkerKeepsPuts DEF SameSessions
<1>5. QueuedIsHeld'
  <2>1. \A x \in DOMAIN receipts : receipts'[x].status = "queued" => x # e /\ receipts'[x] = receipts[x]
    OBVIOUS
  <2> QED BY <1>3, <2>1, WorkerKeepsHeld DEF SameSessions
<1>6. ProcessingIsHeld'
  BY <1>3 DEF HolderInv, ProcessingIsHeld, SameSessions
<1> QED BY <1>2, <1>4, <1>5, <1>6

LEMMA RaiseHolds ==
    ASSUME HolderInv, TypeOK', ProcessingRaises
    PROVE  HolderInv'
<1>1. PICK e : e = Entry
  OBVIOUS
<1>2. /\ worker.at = "busy" /\ worker' = AfterEntry
      /\ receipts' = [receipts EXCEPT ![e].status = "failed", ![e].error = "live_processing_failed"]
      /\ UNCHANGED <<sessions, records, queue, submit, client>>
  BY <1>1 DEF ProcessingRaises, WorkerFrame
<1>3. e \in DOMAIN receipts
  BY <1>1, <1>2, Typed, WorkerEntry DEF HolderInv
<1>4. /\ SameSessions /\ receipts'[e].status = "failed"
      /\ \A i \in DOMAIN receipts : i # e => receipts'[i] = receipts[i]
  BY <1>2, <1>3, StatusSet DEF HolderInv
<1>5. /\ PutsAreExclusive' /\ QueuedIsHeld' /\ ProcessingIsHeld' /\ receipts[e].status = "processing"
  BY <1>1, <1>2, <1>4, DoneHolds
<1>6. CompletedIsRecorded' /\ records' \subseteq DOMAIN receipts'
  <2>1. \A x \in DOMAIN receipts : receipts'[x].status = "completed" <=> receipts[x].status = "completed"
    BY <1>4, <1>5
  <2> QED BY <1>2, <1>4, <2>1, CountsKept DEF HolderInv, SameSessions
<1>7. RecordsAreKnown'
  BY <1>2, <1>4, <1>6 DEF HolderInv, RecordsAreKnown, SameSessions
<1> QED BY <1>5, <1>6, <1>7 DEF HolderInv

\* The one step that makes evidence: one record more, counted once.
LEMMA CompleteHolds ==
    ASSUME HolderInv, TypeOK', CompleteReceipt
    PROVE  HolderInv'
<1>1. PICK e, s : e = Entry /\ s = receipts[e].session
  OBVIOUS
<1>2. /\ worker.at = "busy" /\ worker' = AfterEntry /\ e \notin records
      /\ records' = records \cup {e}
      /\ sessions' = [sessions EXCEPT ![s].accepted = sessions[s].accepted + 1]
      /\ receipts' = [receipts EXCEPT ![e].status = "completed"]
      /\ UNCHANGED <<queue, submit, client>>
  BY <1>1 DEF CompleteReceipt, WorkerFrame
<1>3. e \in DOMAIN receipts
  BY <1>1, <1>2, Typed, WorkerEntry DEF HolderInv
<1>4. /\ SameSessions /\ receipts'[e].status = "completed"
      /\ \A i \in DOMAIN receipts : i # e => receipts'[i] = receipts[i]
  BY <1>2, <1>3, StatusSet DEF HolderInv
<1>5. PutsAreExclusive' /\ QueuedIsHeld' /\ ProcessingIsHeld'
  BY <1>1, <1>2, <1>4, DoneHolds
<1>6. sessions \in [SessionIds -> Sessions] /\ s \in SessionIds
  BY <1>1, <1>3, Typed DEF HolderInv, TypeOK, Receipts
<1>7. /\ \A t \in SessionIds : sessions'[t].status = sessions[t].status
      /\ \A t \in SessionIds : sessions'[t].accepted =
                                 IF t = s THEN sessions[t].accepted + 1 ELSE sessions[t].accepted
  BY <1>2, <1>6 DEF Sessions
<1>8. RecordsAreKnown'
  <2>1. \A r \in DOMAIN receipts : receipts[r].session \in SessionIds
    BY Typed DEF HolderInv, Receipts
  <2> QED BY <1>2, <1>3, <1>4, <1>7, <2>1 DEF HolderInv, RecordsAreKnown, SameSessions
<1>9. \A r \in DOMAIN receipts' : receipts'[r].status = "completed" <=> r \in records'
  BY <1>2, <1>4 DEF HolderInv, CompletedIsRecorded, SameSessions
<1>10. ASSUME NEW t \in SessionIds
       PROVE  sessions'[t].accepted = Cardinality({r \in records' : receipts'[r].session = t})
  <2> DEFINE old == {r \in records : receipts[r].session = t}
             new == {r \in records' : receipts'[r].session = t}
  <2>1. sessions[t].accepted = Cardinality(old)
    BY DEF HolderInv, CompletedIsRecorded
  <2>2. IsFiniteSet(old)
    <3>1. old \subseteq 1..MaxReceipts /\ MaxReceipts \in Int /\ 1 \in Int
      <4>1. records \subseteq 1..MaxReceipts
        BY DEF HolderInv, TypeOK, ReceiptIds
      <4>2. old \subseteq records
        OBVIOUS
      <4> HIDE DEF old
      <4> QED BY <4>1, <4>2, LiveConstants
    <3>2. IsFiniteSet(1..MaxReceipts)
      BY <3>1, FS_Interval
    <3> HIDE DEF old
    <3> QED BY <3>1, <3>2, FS_Subset
  <2>3. CASE t = s
    <3>1. new = old \cup {e} /\ e \notin old
      BY <1>1, <1>2, <1>3, <1>4, <2>3 DEF HolderInv, RecordsAreKnown, SameSessions
    <3> HIDE DEF old, new
    <3>2. Cardinality(new) = Cardinality(old) + 1
      BY <2>2, <3>1, FS_AddElement
    <3> QED BY <1>7, <2>1, <2>3, <3>2 DEF new
  <2>4. CASE t # s
    <3>1. new = old
      BY <1>1, <1>2, <1>3, <1>4, <2>4 DEF HolderInv, RecordsAreKnown, SameSessions
    <3> QED BY <1>7, <2>1, <2>4, <3>1
  <2> QED BY <2>3, <2>4
<1> QED BY <1>5, <1>8, <1>9, <1>10 DEF HolderInv, CompletedIsRecorded

-----------------------------------------------------------------------------
(* Request threads that put nothing, assistant jobs and recovery. *)

\* A step that at most cancels queued receipts and moves sessions on.
LEMMA QuietHolds ==
    ASSUME HolderInv, TypeOK', UNCHANGED <<queue, worker, submit, records>>, SameSessions,
           \A r \in DOMAIN receipts :
                \/ receipts'[r].status = receipts[r].status
                \/ receipts[r].status = "queued" /\ receipts'[r].status = "cancelled",
           \A d \in Clients : Todo(d)' = Todo(d),
           \A d \in Clients : client'[d].at # "put" => Todo(d) = << >>,
           \A s \in SessionIds : sessions[s].status # "absent" => sessions'[s].status # "absent",
           \A s \in SessionIds : sessions'[s].accepted = sessions[s].accepted
    PROVE  HolderInv'
<1>1. \A x : Waits(x)' = Waits(x)
  BY DEF Waits
<1>2. \A x : Puttable(x) => Puttable(x)'
  BY <1>1 DEF Puttable, SameSessions
<1>3. PutsAreExclusive'
  BY <1>2, PutsKept DEF HolderInv
<1>4. QueuedIsHeld'
  <2>1. \A x : Holding(x) => Holding(x)'
    BY <1>1 DEF Holding
  <2> QED BY <2>1, HeldKept DEF HolderInv, SameSessions
<1>5. ProcessingIsHeld'
  <2>1. worker.at = "busy" => Entry \in DOMAIN receipts
    BY Typed, WorkerEntry DEF HolderInv
  <2> QED BY <1>1, <2>1 DEF HolderInv, ProcessingIsHeld, Entry, SameSessions
<1>6. CompletedIsRecorded' /\ records' \subseteq DOMAIN receipts'
  BY CountsKept DEF HolderInv, SameSessions
<1>7. RecordsAreKnown'
  <2>1. \A r \in DOMAIN receipts : receipts[r].session \in SessionIds
    BY Typed DEF HolderInv, Receipts
  <2> QED BY <1>6, <2>1 DEF HolderInv, RecordsAreKnown, SameSessions
<1> QED BY <1>3, <1>4, <1>5, <1>6, <1>7 DEF HolderInv

LEMMA SessionHolds ==
    ASSUME HolderInv, TypeOK', NEW c \in Clients
    PROVE  /\ \A k \in Cases, sources \in SUBSET Sources : CheckSources(c, k, sources) => HolderInv'
           /\ \A s \in SessionIds : ReadForStop(c, s) => HolderInv'
           /\ InsertSession(c) \/ StopSession(c) => HolderInv'
<1>1. /\ sessions \in [SessionIds -> Sessions] /\ client \in [Clients -> ClientSlots]
      /\ \A d \in Clients : client[d].at # "put" => Todo(d) = << >>
  BY DEF HolderInv, TypeOK, PutsAreExclusive
\* The thread has nothing to put, before and after.
<1>2. ASSUME NEW w, client[c].at # "put", w.todo = << >>, client' = [client EXCEPT ![c] = w], w.at # "put"
      PROVE  /\ \A d \in Clients : Todo(d)' = Todo(d)
             /\ \A d \in Clients : client'[d].at # "put" => Todo(d) = << >>
  BY <1>1, <1>2 DEF Todo
<1>3. ASSUME UNCHANGED receipts PROVE SameSessions
  BY <1>3 DEF SameSessions
<1>4. ASSUME NEW k \in Cases, NEW sources \in SUBSET Sources, CheckSources(c, k, sources) PROVE HolderInv'
  <2>1. PICK s \in SessionIds :
            /\ NewSession(s)
            /\ sessions' = [sessions EXCEPT ![s] =
                   [NoSession EXCEPT !.case = k, !.sources = sources, !.status = "starting"]]
            /\ client' = [client EXCEPT ![c] = [IdleClient EXCEPT !.at = "insert", !.session = s]]
    BY <1>4 DEF CheckSources
  <2>2. sessions[s].accepted = 0
    <3>1. {r \in records : receipts[r].session = s} = {}
      BY <2>1 DEF NewSession, HolderInv, RecordsAreKnown
    <3> QED BY <3>1, FS_EmptySet DEF HolderInv, CompletedIsRecorded
  <2>3. /\ \A t \in SessionIds : sessions'[t].accepted = sessions[t].accepted
        /\ \A t \in SessionIds : sessions[t].status # "absent" => sessions'[t].status # "absent"
    BY <1>1, <2>1, <2>2 DEF NoSession
  <2>4. /\ \A d \in Clients : Todo(d)' = Todo(d)
        /\ \A d \in Clients : client'[d].at # "put" => Todo(d) = << >>
    <3>1. PICK w : w = [IdleClient EXCEPT !.at = "insert", !.session = s]
      OBVIOUS
    <3>2. w.at # "put" /\ w.todo = << >> /\ client[c].at # "put" /\ client' = [client EXCEPT ![c] = w]
      BY <1>4, <2>1, <3>1 DEF CheckSources, IdleClient
    <3> QED BY <1>2, <3>2
  <2> QED BY <1>3, <1>4, <2>3, <2>4, QuietHolds DEF CheckSources, ClientFrame
<1>5. ASSUME NEW s \in SessionIds, ReadForStop(c, s) PROVE HolderInv'
  <2>1. /\ \A d \in Clients : Todo(d)' = Todo(d)
        /\ \A d \in Clients : client'[d].at # "put" => Todo(d) = << >>
    <3>1. PICK w : w = [IdleClient EXCEPT !.at = "stop", !.session = s]
      OBVIOUS
    <3>2. w.at # "put" /\ w.todo = << >> /\ client[c].at # "put" /\ client' = [client EXCEPT ![c] = w]
      BY <1>5, <3>1 DEF ReadForStop, IdleClient
    <3> QED BY <1>2, <3>2
  <2> QED BY <1>3, <1>5, <2>1, QuietHolds DEF ReadForStop, ClientFrame
<1>6. ASSUME InsertSession(c) \/ StopSession(c), NEW st, st \in {"active", "completed"},
             sessions' = [sessions EXCEPT ![client[c].session].status = st]
      PROVE  /\ \A t \in SessionIds : sessions'[t].accepted = sessions[t].accepted
             /\ \A t \in SessionIds : sessions[t].status # "absent" => sessions'[t].status # "absent"
  <2>1. ASSUME NEW t \in SessionIds
        PROVE  sessions'[t] = sessions[t] \/ sessions'[t] = [sessions[t] EXCEPT !.status = st]
    BY <1>1, <1>6
  <2>2. \A t \in SessionIds : sessions[t] \in Sessions
    BY <1>1
  <2> QED BY <1>6, <2>1, <2>2 DEF Sessions
<1>7. ASSUME InsertSession(c) \/ StopSession(c)
      PROVE  /\ \A d \in Clients : Todo(d)' = Todo(d)
             /\ \A d \in Clients : client'[d].at # "put" => Todo(d) = << >>
  BY <1>2, <1>7 DEF InsertSession, StopSession, IdleClient
<1>8. CASE InsertSession(c)
  <2>1. /\ \A t \in SessionIds : sessions'[t].accepted = sessions[t].accepted
        /\ \A t \in SessionIds : sessions[t].status # "absent" => sessions'[t].status # "absent"
    BY <1>6, <1>8 DEF InsertSession
  <2> QED BY <1>3, <1>7, <1>8, <2>1, QuietHolds DEF InsertSession, ClientFrame
<1>9. CASE StopSession(c)
  <2>1. /\ \A t \in SessionIds : sessions'[t].accepted = sessions[t].accepted
        /\ \A t \in SessionIds : sessions[t].status # "absent" => sessions'[t].status # "absent"
    BY <1>6, <1>9 DEF StopSession
  <2>2. \A r \in DOMAIN receipts : receipts[r] \in Receipts
    BY Typed DEF HolderInv
  <2>3. /\ DOMAIN receipts' = DOMAIN receipts
        /\ \A r \in DOMAIN receipts :
              \/ receipts'[r] = receipts[r]
              \/ receipts[r].status = "queued" /\ receipts'[r] = [receipts[r] EXCEPT !.status = "cancelled"]
    BY <1>9 DEF StopSession, CancelQueued
  <2>4. /\ SameSessions
        /\ \A r \in DOMAIN receipts :
              \/ receipts'[r].status = receipts[r].status
              \/ receipts[r].status = "queued" /\ receipts'[r].status = "cancelled"
    BY <2>2, <2>3 DEF SameSessions, Receipts
  <2> QED BY <1>7, <1>9, <2>1, <2>4, QuietHolds DEF StopSession, ClientFrame
<1> QED BY <1>4, <1>5, <1>8, <1>9

\* The place an assistant job takes holds no receipt.
LEMMA JobHolds ==
    ASSUME HolderInv, TypeOK', QueueAssistantJob
    PROVE  HolderInv'
<1>1. /\ queue' = Append(queue, 0)
      /\ UNCHANGED <<sessions, receipts, records, worker, submit, client>>
  BY DEF QueueAssistantJob, tables
<1>2. queue \in Seq(0..MaxReceipts) /\ 0 \in 0..MaxReceipts /\ DOMAIN receipts \subseteq ReceiptIds
  BY Typed, LiveConstants DEF HolderInv
<1>3. ASSUME NEW x PROVE Waits(x)' <=> Waits(x) \/ x = 0
  <2>1. Among(x, Append(queue, 0)) <=> Among(x, queue) \/ x = 0
    BY <1>2, AmongAppend
  <2> QED BY <1>1, <2>1 DEF Waits
<1>4. \A x \in ReceiptIds : x # 0
  BY DEF ReceiptIds
<1>5. \A x : Puttable(x) => Puttable(x)'
  BY <1>1, <1>2, <1>3, <1>4 DEF Puttable
<1>6. PutsAreExclusive'
  <2>1. \A d \in Clients : Todo(d)' = Todo(d)
    BY <1>1 DEF Todo
  <2> QED BY <1>1, <1>5, <2>1, PutsKept DEF HolderInv, PutsAreExclusive
<1>7. QueuedIsHeld'
  <2>1. \A x : Holding(x) => Holding(x)'
    BY <1>1, <1>3 DEF Holding, Todo
  <2> QED BY <1>1, <2>1, HeldKept DEF HolderInv
<1>8. ProcessingIsHeld'
  BY <1>1, <1>3, <1>4 DEF HolderInv, ProcessingIsHeld, Entry
<1>9. RecordsAreKnown' /\ CompletedIsRecorded'
  BY <1>1 DEF HolderInv, RecordsAreKnown, CompletedIsRecorded
<1> QED BY <1>6, <1>7, <1>8, <1>9 DEF HolderInv

\* Recovery: what was queued or interrupted is queued again or failed.
LEMMA RecoverHolds ==
    ASSUME HolderInv, TypeOK', CrashAndRecover
    PROVE  HolderInv'
<1>1. PICK n, pending : pending = Pending /\ n = Cardinality(pending)
  OBVIOUS
<1>2. pending \subseteq DOMAIN receipts /\ IsFiniteSet(pending) /\ n \in Nat /\ pending \subseteq Int
  <2>1. DOMAIN receipts = 1..Len(receipts) /\ Len(receipts) \in Int
    BY Typed DEF HolderInv
  <2>2. IsFiniteSet(1..Len(receipts))
    BY <2>1, FS_Interval
  <2>3. pending \subseteq DOMAIN receipts
    BY <1>1 DEF Pending
  <2>4. IsFiniteSet(pending)
    BY <2>1, <2>2, <2>3, FS_Subset
  <2> QED BY <1>1, <2>1, <2>3, <2>4, FS_CardinalityType
<1>3. PICK order \in [1..n -> pending] :
          /\ \A x \in pending : \E p \in 1..n : order[p] = x
          /\ Requeue(order, n)
  BY <1>1 DEF CrashAndRecover
<1>4. PICK kept \in Nat : kept = (IF n < QueueCap THEN n ELSE QueueCap) /\ kept <= n
  BY <1>2, LiveConstants
<1>5. /\ queue' = [p \in 1..kept |-> order[p]]
      /\ receipts' = [r \in DOMAIN receipts |->
                        IF \E p \in (kept + 1)..n : order[p] = r
                        THEN [WasReset[r] EXCEPT !.status = "failed", !.error = "worker_queue_full"]
                        ELSE WasReset[r]]
  BY <1>3, <1>4, Zenon DEF Requeue
<1>6. \A x \in pending : \E p \in 1..n : order[p] = x
  BY <1>3
<1>7. ASSUME NEW r \in DOMAIN receipts
      PROVE  /\ receipts[r] \in Receipts /\ WasReset[r] \in Receipts
             /\ WasReset[r].session = receipts[r].session
             /\ WasReset[r].status = IF receipts[r].status = "processing" THEN "queued" ELSE receipts[r].status
             /\ r \in pending <=> receipts[r].status \in {"queued", "processing"}
             /\ \/ receipts'[r].session = receipts[r].session /\ receipts'[r].status = "failed"
                   /\ \E p \in (kept + 1)..n : order[p] = r
                \/ receipts'[r] = WasReset[r] /\ ~\E p \in (kept + 1)..n : order[p] = r
  <2>1. receipts[r] \in Receipts
    BY Typed DEF HolderInv
  <2>2. WasReset[r] = [receipts[r] EXCEPT !.status = IF receipts[r].status = "processing" THEN "queued"
                                                     ELSE receipts[r].status]
    BY DEF WasReset, Reset
  <2>3. /\ WasReset[r] \in Receipts /\ WasReset[r].session = receipts[r].session
        /\ WasReset[r].status = IF receipts[r].status = "processing" THEN "queued" ELSE receipts[r].status
    BY <2>1, <2>2 DEF Receipts, ReceiptStates
  <2>4. r \in pending <=> receipts[r].status \in {"queued", "processing"}
    BY <1>1, <2>3 DEF Pending
  <2>5. [WasReset[r] EXCEPT !.status = "failed", !.error = "worker_queue_full"].session = receipts[r].session
        /\ [WasReset[r] EXCEPT !.status = "failed", !.error = "worker_queue_full"].status = "failed"
    BY <2>3 DEF Receipts
  <2>6. CASE \E p \in (kept + 1)..n : order[p] = r
    BY <1>5, <2>1, <2>3, <2>4, <2>5, <2>6
  <2>7. CASE ~\E p \in (kept + 1)..n : order[p] = r
    BY <1>5, <2>1, <2>3, <2>4, <2>7
  <2> QED BY <2>6, <2>7
<1>8. \A p \in 1..n : p \in 1..kept \/ p \in (kept + 1)..n
  BY <1>2, <1>4
<1>9. \A p \in 1..kept : p \in 1..n
  BY <1>2, <1>4
<1>10. SameSessions
  BY <1>5, <1>7 DEF SameSessions
<1>11. /\ submit' = [u \in Submitters |-> 0] /\ worker' = IdleWorker
       /\ client' = [c \in Clients |-> IdleClient] /\ records' = records
       /\ sessions' = [s \in SessionIds |-> IF sessions[s].status = "starting"
                                            THEN [sessions[s] EXCEPT !.status = "void"] ELSE sessions[s]]
       /\ sessions \in [SessionIds -> Sessions]
  BY DEF CrashAndRecover, HolderInv, TypeOK
<1>12. PutsAreExclusive'
  <2>1. \A c \in Clients : Todo(c)' = << >> /\ client'[c].at = "idle"
    BY <1>11 DEF Todo, IdleClient
  <2>2. \A u \in Submitters : submit'[u] = 0
    BY <1>11
  <2> QED BY <2>1, <2>2 DEF PutsAreExclusive
<1>13. \A x : Waits(x)' <=> \E p \in 1..kept : order[p] = x
  <2>1. ASSUME NEW x PROVE Among(x, queue') <=> \E p \in 1..kept : order[p] = x
    <3>1. DOMAIN queue' = 1..kept /\ \A p \in 1..kept : queue'[p] = order[p]
      BY <1>5
    <3> QED BY <3>1 DEF Among
  <2>2. worker'.work = << >>
    BY <1>11 DEF IdleWorker
  <2> QED BY <2>1, <2>2, AmongEmpty DEF Waits
<1>14. QueuedIsHeld'
  <2>1. ASSUME NEW r \in DOMAIN receipts, receipts'[r].status = "queued" PROVE Waits(r)'
    <3>1. r \in pending /\ ~\E p \in (kept + 1)..n : order[p] = r
      BY <1>7, <2>1
    <3> QED BY <1>6, <1>8, <1>13, <3>1
  <2> QED BY <1>10, <2>1 DEF QueuedIsHeld, Holding, SameSessions
<1>15. ProcessingIsHeld'
  <2>1. \A x : Waits(x)' => x \in DOMAIN receipts
    BY <1>2, <1>3, <1>9, <1>13
  <2>2. \A r \in DOMAIN receipts : receipts'[r].status # "processing"
    BY <1>7
  <2> QED BY <1>10, <1>11, <2>1, <2>2 DEF ProcessingIsHeld, SameSessions, IdleWorker
<1>16. /\ \A s \in SessionIds : sessions'[s].accepted = sessions[s].accepted
       /\ \A s \in SessionIds : sessions[s].status # "absent" => sessions'[s].status # "absent"
  BY <1>11 DEF Sessions
<1>17. CompletedIsRecorded' /\ records' \subseteq DOMAIN receipts'
  <2>1. ASSUME NEW r \in DOMAIN receipts
        PROVE  receipts'[r].status = "completed" <=> receipts[r].status = "completed"
    <3>1. (\E p \in (kept + 1)..n : order[p] = r) => r \in pending
      BY <1>2, <1>3, <1>4
    <3> QED BY <1>7, <3>1
  <2> QED BY <1>10, <1>11, <1>16, <2>1, CountsKept DEF HolderInv, SameSessions
<1>18. RecordsAreKnown'
  <2>1. \A r \in DOMAIN receipts : receipts[r].session \in SessionIds
    BY <1>7 DEF Receipts
  <2> QED BY <1>10, <1>16, <1>17, <2>1 DEF HolderInv, RecordsAreKnown, SameSessions
<1> QED BY <1>12, <1>14, <1>15, <1>17, <1>18 DEF HolderInv

LEMMA HolderInit == Init => HolderInv
<1> SUFFICES ASSUME Init PROVE HolderInv
  OBVIOUS
<1>1. /\ DOMAIN receipts = {} /\ records = {} /\ queue = << >> /\ worker = IdleWorker
      /\ submit = [u \in Submitters |-> 0] /\ client = [c \in Clients |-> IdleClient]
      /\ sessions = [s \in SessionIds |-> NoSession]
  BY DEF Init
<1>2. \A c \in Clients : Todo(c) = << >>
  BY <1>1 DEF Todo, IdleClient
<1>3. \A x : ~Waits(x)
  BY <1>1, AmongEmpty DEF Waits, IdleWorker
<1>4. PutsAreExclusive
  BY <1>1, <1>2 DEF PutsAreExclusive
<1>5. ProcessingIsHeld
  BY <1>1, <1>3 DEF ProcessingIsHeld, IdleWorker
<1>6. RecordsAreKnown /\ QueuedIsHeld
  BY <1>1 DEF RecordsAreKnown, QueuedIsHeld
<1>7. CompletedIsRecorded
  <2>1. \A s \in SessionIds : {r \in records : receipts[r].session = s} = {}
    BY <1>1
  <2> QED BY <1>1, <2>1, FS_EmptySet DEF CompletedIsRecorded, NoSession
<1> QED BY <1>4, <1>5, <1>6, <1>7, InitTyped DEF HolderInv

LEMMA HolderStep == HolderInv /\ [Next]_vars => HolderInv'
<1> SUFFICES ASSUME HolderInv, [Next]_vars PROVE HolderInv'
  OBVIOUS
<1>0. TypeOK'
  BY TypeStep DEF HolderInv
<1>1. ASSUME UNCHANGED <<receipts, queue, worker, submit, client, records, sessions>> PROVE HolderInv'
  <2>1. /\ \A d \in Clients : Todo(d)' = Todo(d)
        /\ \A d \in Clients : client'[d].at # "put" => Todo(d) = << >>
    BY <1>1 DEF Todo, HolderInv, PutsAreExclusive
  <2> QED BY <1>0, <1>1, <2>1, QuietHolds DEF SameSessions
<1>2. ASSUME NEW u \in Submitters, NEW f \in Frames, AcceptFrame(u, f) \/ QuarantineFrame(u, f)
      PROVE  HolderInv'
  BY <1>0, <1>1, <1>2, AcceptHolds DEF QuarantineFrame
<1>3. ASSUME NEW u \in Submitters, QueueReceipt(u) PROVE HolderInv'
  BY <1>0, <1>3, QueueHolds
<1>4. ASSUME NEW c \in Clients, NEW k \in Cases, NEW sources \in SUBSET Sources, CheckSources(c, k, sources)
      PROVE  HolderInv'
  BY <1>0, <1>4, SessionHolds
<1>5. ASSUME NEW c \in Clients, NEW s \in SessionIds, ReadForStop(c, s) \/ Simulate(c, s) PROVE HolderInv'
  BY <1>0, <1>5, SessionHolds, SimulateHolds
<1>6. ASSUME NEW c \in Clients, ClientStep(c) PROVE HolderInv'
  BY <1>0, <1>6, SessionHolds, PutHolds DEF ClientStep
<1>7. CASE QueueAssistantJob
  BY <1>0, <1>7, JobHolds
<1>8. CASE WorkerStep
  BY <1>0, <1>8, TakeHolds, SkipHolds, ClaimHolds, CompleteHolds, RaiseHolds DEF WorkerStep
<1>9. CASE CrashAndRecover
  BY <1>0, <1>9, RecoverHolds
<1>10. CASE UNCHANGED vars
  BY <1>1, <1>10 DEF vars
<1> QED BY <1>2, <1>3, <1>4, <1>5, <1>6, <1>7, <1>8, <1>9, <1>10 DEF Next

\* One thread is answerable for every receipt in every reachable state: the
\* invariant that the results below rest on.
THEOREM HolderCorrect == Spec => []HolderInv
BY HolderInit, HolderStep, PTL DEF Spec

\* A receipt is completed exactly when its evidence record exists, and the
\* accepted_events of a session is the number of its records, whatever is
\* stopped, overflows or restarts in between.
THEOREM CompletedIsCounted == Spec => []CompletedIsRecorded
BY HolderCorrect, PTL DEF HolderInv

\* A queued receipt is in the queue, in the worker's batch or in the hands of
\* a thread about to put it: none waits for nobody, after any restart.
THEOREM NoReceiptIsLost == Spec => []QueuedIsHeld
BY HolderCorrect, PTL DEF HolderInv

-----------------------------------------------------------------------------
(* What is given up stays given up. *)

GivenUpStays ==
    \A r \in DOMAIN receipts : receipts[r].status \in GivenUp => receipts'[r].status \in GivenUp

LEMMA GivenUpStep == HolderInv /\ [Next]_vars => GivenUpStays
<1> SUFFICES ASSUME HolderInv, [Next]_vars PROVE GivenUpStays
  OBVIOUS
<1>0. TypeOK /\ \A r \in DOMAIN receipts : receipts[r] \in Receipts
  BY Typed DEF HolderInv
<1>u. ASSUME UNCHANGED receipts PROVE GivenUpStays
  BY <1>u DEF GivenUpStays
\* One receipt gets another status.
<1>s. ASSUME NEW r, NEW st, NEW er,
             \/ receipts' = [receipts EXCEPT ![r].status = st, ![r].error = er]
             \/ receipts' = [receipts EXCEPT ![r].status = st],
             st = "failed" \/ (r \in DOMAIN receipts => receipts[r].status \notin GivenUp)
      PROVE  GivenUpStays
  <2>1. CASE r \in DOMAIN receipts
    <3>1. /\ receipts'[r].status = st
          /\ \A i \in DOMAIN receipts : i # r => receipts'[i] = receipts[i]
      BY <1>0, <1>s, <2>1, StatusSet
    <3> QED BY <1>s, <3>1 DEF GivenUpStays, GivenUp
  <2>2. CASE r \notin DOMAIN receipts
    BY <1>s, <2>2 DEF GivenUpStays
  <2> QED BY <2>1, <2>2
<1>1. ASSUME NEW r, Enqueue(r) PROVE GivenUpStays
  BY <1>1, <1>s, <1>u DEF Enqueue
<1>2. ASSUME NEW u \in Submitters, NEW f \in Frames, AcceptFrame(u, f) \/ QuarantineFrame(u, f)
      PROVE  GivenUpStays
  <2>1. CASE AcceptFrame(u, f)
    <3>1. \A r \in DOMAIN receipts : receipts'[r] = receipts[r]
      BY <1>0, <2>1, Typed DEF AcceptFrame
    <3> QED BY <3>1 DEF GivenUpStays
  <2> QED BY <1>2, <1>u, <2>1 DEF QuarantineFrame
<1>3. ASSUME NEW u \in Submitters, QueueReceipt(u) PROVE GivenUpStays
  BY <1>1, <1>3 DEF QueueReceipt
<1>4. ASSUME NEW c \in Clients, NEW k \in Cases, NEW sources \in SUBSET Sources, CheckSources(c, k, sources)
      PROVE  GivenUpStays
  BY <1>4, <1>u DEF CheckSources
<1>5. ASSUME NEW c \in Clients, NEW s \in SessionIds, ReadForStop(c, s) \/ Simulate(c, s)
      PROVE  GivenUpStays
  <2>1. CASE Simulate(c, s)
    <3>1. \A r \in DOMAIN receipts : receipts'[r] = receipts[r]
      BY <1>0, <2>1, SimulateGrows
    <3> QED BY <3>1 DEF GivenUpStays
  <2> QED BY <1>5, <1>u, <2>1 DEF ReadForStop
<1>6. ASSUME NEW c \in Clients, ClientStep(c) PROVE GivenUpStays
  <2>1. CASE StopSession(c)
    BY <2>1 DEF StopSession, CancelQueued, GivenUpStays, GivenUp
  <2> QED BY <1>1, <1>6, <1>u, <2>1 DEF ClientStep, InsertSession, PutSimulated
<1>7. CASE QueueAssistantJob
  BY <1>7, <1>u DEF QueueAssistantJob, tables
<1>8. CASE WorkerStep
  <2>1. CASE ClaimReceipt
    BY <1>s, <2>1 DEF ClaimReceipt, Claimable, GivenUp
  <2>2. CASE CompleteReceipt \/ ProcessingRaises
    <3>1. receipts[Entry].status = "processing"
      BY <2>2 DEF HolderInv, ProcessingIsHeld, CompleteReceipt, ProcessingRaises
    <3> QED BY <1>s, <2>2, <3>1 DEF CompleteReceipt, ProcessingRaises, GivenUp
  <2> QED BY <1>8, <1>u, <2>1, <2>2 DEF WorkerStep, TakeEntry, SkipEntry
<1>9. CASE CrashAndRecover
  <2>1. PICK order, n : Requeue(order, n)
    BY <1>9 DEF CrashAndRecover
  <2>2. \A r \in DOMAIN receipts : receipts[r].status \in GivenUp => WasReset[r].status \in GivenUp
    <3>1. \A r \in DOMAIN receipts :
              WasReset[r] = [receipts[r] EXCEPT !.status = IF receipts[r].status = "processing" THEN "queued"
                                                           ELSE receipts[r].status]
      BY DEF WasReset, Reset
    <3> QED BY <1>0, <3>1 DEF GivenUp, Receipts
  <2>3. \A r \in DOMAIN receipts :
            \/ receipts'[r] = [WasReset[r] EXCEPT !.status = "failed", !.error = "worker_queue_full"]
            \/ receipts'[r] = WasReset[r]
    BY <2>1 DEF Requeue
  <2>4. \A r \in DOMAIN receipts : WasReset[r] \in Receipts
    BY <1>0 DEF WasReset, Reset, Receipts, ReceiptStates
  <2>5. \A r \in DOMAIN receipts :
            [WasReset[r] EXCEPT !.status = "failed", !.error = "worker_queue_full"].status = "failed"
    BY <2>4 DEF Receipts
  <2> QED BY <2>2, <2>3, <2>5 DEF GivenUpStays, GivenUp
<1>10. CASE UNCHANGED vars
  BY <1>10, <1>u DEF vars
<1> QED BY <1>2, <1>3, <1>4, <1>5, <1>6, <1>7, <1>8, <1>9, <1>10 DEF Next

\* A receipt that was cancelled by a stop or failed is never processed or
\* recorded later, although its id may still be in the queue or the batch.
THEOREM GivenUpForGood == Spec => GivenUpIsFinal
<1>1. HolderInv /\ [Next]_vars => [GivenUpStays]_vars
  BY GivenUpStep
<1> QED BY <1>1, HolderCorrect, PTL DEF Spec, GivenUpIsFinal, GivenUpStays

-----------------------------------------------------------------------------
(* Live ingest implements SourceLedger. *)

LedgerInv == QuarantineInv /\ HolderInv /\ MarksCoverNumbers


\* What a receipt says of the ledger.
LEMMA NumberedMember ==
    ASSUME NEW statuses, NEW f
    PROVE  f \in NumberedWith(statuses) <=>
             \E r \in DOMAIN receipts :
                 f = receipts[r].frame /\ f \in Numbered /\ receipts[r].status \in statuses
BY DEF NumberedWith

LEMMA MarksStep == LedgerInv /\ [Next]_vars => MarksCoverNumbers'
<1> SUFFICES ASSUME LedgerInv, [Next]_vars PROVE MarksCoverNumbers'
  OBVIOUS
<1>0. TypeOK /\ highWater \in [Sources -> Seqs \cup {NoSeq}]
  BY DEF LedgerInv, QuarantineInv, TypeOK
<1>1. ASSUME NEW u \in Submitters, NEW f \in Frames, AcceptFrame(u, f) PROVE MarksCoverNumbers'
  <2>1. PICK new : new = Len(receipts) + 1
    OBVIOUS
  <2>2. /\ DOMAIN receipts' = DOMAIN receipts \cup {new}
        /\ \A r \in DOMAIN receipts : receipts'[r] = receipts[r]
        /\ receipts'[new].frame = f
    BY <1>0, <1>1, <2>1, Typed DEF AcceptFrame, Receipt
  <2>3. \A s \in Sources : highWater[s] \in Int /\ highWater'[s] \in Int /\ highWater[s] <= highWater'[s]
    BY <1>0, <1>1, LiveConstants DEF AcceptFrame, Frames, Seqs, NoSeq
  <2>4. f.seq # NoSeq => f.seq <= highWater'[f.source]
    BY <1>0, <1>1, LiveConstants DEF AcceptFrame, Frames, Seqs, NoSeq
  <2>5. ASSUME NEW r \in DOMAIN receipts, receipts[r].frame.seq # NoSeq
        PROVE  receipts[r].frame.seq <= highWater'[receipts[r].frame.source]
    <3>1. receipts[r].frame \in Frames \cup Simulated
      BY <1>0, Typed DEF Receipts
    <3>2. receipts[r].frame.source \in Sources /\ receipts[r].frame.seq \in Int
      BY <2>5, <3>1 DEF Frames, Simulated, Seqs, NoSeq
    <3>3. receipts[r].frame.seq <= highWater[receipts[r].frame.source]
      BY <2>5 DEF LedgerInv, MarksCoverNumbers
    <3> QED BY <2>3, <3>2, <3>3
  <2> QED BY <2>2, <2>4, <2>5 DEF MarksCoverNumbers
<1>2. ASSUME NEW c \in Clients, NEW s \in SessionIds, Simulate(c, s) PROVE MarksCoverNumbers'
  <2>1. /\ \A r \in DOMAIN receipts : receipts'[r] = receipts[r]
        /\ \A r \in DOMAIN receipts' \ DOMAIN receipts : receipts'[r].frame.seq = NoSeq
    BY <1>0, <1>2, SimulateGrows
  <2>2. highWater' = highWater
    BY <1>2 DEF Simulate, ClientFrame
  <2> QED BY <2>1, <2>2 DEF LedgerInv, MarksCoverNumbers
<1>3. ASSUME NEW u \in Submitters, NEW f \in Frames, QuarantineFrame(u, f) PROVE MarksCoverNumbers'
  BY <1>3 DEF QuarantineFrame, LedgerInv, MarksCoverNumbers
<1>4. ASSUME SameFrames, UNCHANGED <<highWater, issues>> PROVE MarksCoverNumbers'
  BY <1>4 DEF SameFrames, LedgerInv, MarksCoverNumbers
<1> QED BY <1>0, <1>1, <1>2, <1>3, <1>4, OtherSteps

\* The receipts of a numbered frame: there is one.
LEMMA OneReceipt ==
    ASSUME NumbersAreUnique, NEW f \in Numbered, NEW a \in DOMAIN receipts, NEW b \in DOMAIN receipts,
           receipts[a].frame = f, receipts[b].frame = f
    PROVE  a = b
BY DEF NumbersAreUnique, Numbered

\* A step that accepts and records nothing drops some frames, perhaps none.
LEMMA DropStep ==
    ASSUME NumbersAreUnique', SameFrames, GivenUpStays,
           \A r \in DOMAIN receipts : receipts[r].status \in ReceiptStates /\ receipts'[r].status \in ReceiptStates,
           \A r \in DOMAIN receipts : receipts'[r].status = "completed" <=> receipts[r].status = "completed"
    PROVE  Ledger!Next
<1> DEFINE F == NumberedWith(GivenUp)'
<1>1. NumberedWith(ReceiptStates)' = NumberedWith(ReceiptStates)
  BY DEF SameFrames, NumberedWith
<1>2. NumberedWith({"completed"})' = NumberedWith({"completed"})
  BY DEF SameFrames, NumberedWith
<1>3. NumberedWith(GivenUp) \subseteq F
  BY DEF SameFrames, NumberedWith, GivenUpStays
<1>4. F \subseteq NumberedWith(ReceiptStates)
  BY DEF SameFrames, NumberedWith
<1>5. ASSUME NEW f \in F PROVE f \notin NumberedWith({"completed"})'
  <2>1. PICK a \in DOMAIN receipts' :
            f = receipts'[a].frame /\ f \in Numbered /\ receipts'[a].status \in GivenUp
    BY <1>5 DEF NumberedWith
  <2>2. ASSUME NEW b \in DOMAIN receipts', f = receipts'[b].frame, receipts'[b].status = "completed"
        PROVE  FALSE
    <3>1. a = b
      BY <2>1, <2>2 DEF NumbersAreUnique, Numbered
    <3> QED BY <2>1, <2>2, <3>1 DEF GivenUp
  <2> QED BY <2>2 DEF NumberedWith
<1>6. Ledger!Drop(F)
  BY <1>1, <1>2, <1>3, <1>4, <1>5 DEF Ledger!Drop
<1> QED BY <1>4, <1>6 DEF Ledger!Next

LEMMA AcceptImplements ==
    ASSUME LedgerInv, NEW u \in Submitters, NEW f \in Frames, AcceptFrame(u, f)
    PROVE  [Ledger!Next]_(Ledger!ledger)
<1>1. PICK new : new = Len(receipts) + 1
  OBVIOUS
<1>2. TypeOK
  BY DEF LedgerInv, HolderInv
<1>3. /\ DOMAIN receipts' = DOMAIN receipts \cup {new} /\ new \notin DOMAIN receipts
      /\ \A r \in DOMAIN receipts : receipts'[r] = receipts[r]
      /\ receipts'[new].frame = f /\ receipts'[new].status = "queued"
  BY <1>1, <1>2, Typed DEF AcceptFrame, Receipt
<1>4. /\ NumberedWith({"completed"})' = NumberedWith({"completed"})
      /\ NumberedWith(GivenUp)' = NumberedWith(GivenUp)
  BY <1>3 DEF NumberedWith, GivenUp
<1>5. CASE f \in Numbered
  <2>1. NumberedWith(ReceiptStates)' = NumberedWith(ReceiptStates) \cup {f}
    BY <1>3, <1>5 DEF NumberedWith, ReceiptStates
  <2>2. ASSUME NEW g \in NumberedWith(ReceiptStates), g.source = f.source PROVE g.seq < f.seq
    <3>1. PICK r \in DOMAIN receipts : g = receipts[r].frame /\ g \in Numbered
      BY <2>2 DEF NumberedWith
    <3>2. g.seq <= highWater[g.source]
      BY <3>1 DEF LedgerInv, MarksCoverNumbers, Numbered
    <3>3. highWater[f.source] <= f.seq /\ g.seq # f.seq
      <4>1. f.seq # NoSeq /\ ~Behind(f) /\ Prior(f) = {}
        BY <1>5 DEF AcceptFrame, Numbered
      <4>2. highWater[f.source] \in Int /\ f.seq \in Int
        BY <1>2, LiveConstants DEF TypeOK, Frames, Seqs, NoSeq
      <4> QED BY <2>2, <3>1, <4>1, <4>2 DEF Behind, Prior
    <3>4. highWater[f.source] \in Int /\ f.seq \in Int /\ g.seq \in Int
      BY <1>2, <3>1, LiveConstants DEF TypeOK, Frames, Seqs, NoSeq, Numbered
    <3> QED BY <2>2, <3>2, <3>3, <3>4
  <2>3. Ledger!Accept(f)
    BY <1>4, <2>1, <2>2 DEF Ledger!Accept
  <2> QED BY <1>5, <2>3 DEF Ledger!Next
<1>6. CASE f \notin Numbered
  <2>1. NumberedWith(ReceiptStates)' = NumberedWith(ReceiptStates)
    BY <1>3, <1>6 DEF NumberedWith
  <2> QED BY <1>4, <2>1 DEF Ledger!ledger
<1> QED BY <1>5, <1>6

LEMMA SimulateImplements ==
    ASSUME LedgerInv, NEW c \in Clients, NEW s \in SessionIds, Simulate(c, s)
    PROVE  UNCHANGED Ledger!ledger
<1>1. TypeOK
  BY DEF LedgerInv, HolderInv
<1>2. /\ \A r \in DOMAIN receipts : r \in DOMAIN receipts' /\ receipts'[r] = receipts[r]
      /\ \A r \in DOMAIN receipts' \ DOMAIN receipts : receipts'[r].frame.seq = NoSeq
  BY <1>1, SimulateGrows
<1>3. \A r \in DOMAIN receipts' : receipts'[r].frame \in Numbered => r \in DOMAIN receipts
  BY <1>2 DEF Numbered
<1>4. \A statuses : NumberedWith(statuses)' = NumberedWith(statuses)
  BY <1>2, <1>3 DEF NumberedWith
<1> QED BY <1>4 DEF Ledger!ledger

LEMMA CompleteImplements ==
    ASSUME LedgerInv, LedgerInv', CompleteReceipt, SameFrames
    PROVE  [Ledger!Next]_(Ledger!ledger)
<1>1. PICK e : e = Entry
  OBVIOUS
<1>2. /\ worker.at = "busy" /\ receipts' = [receipts EXCEPT ![e].status = "completed"]
  BY <1>1 DEF CompleteReceipt
<1>3. TypeOK /\ NumbersAreUnique
  BY DEF LedgerInv, HolderInv, QuarantineInv
<1>4. e \in DOMAIN receipts /\ receipts[e].status = "processing"
  <2>1. e \in DOMAIN receipts
    BY <1>1, <1>2, <1>3, Typed, WorkerEntry DEF LedgerInv, HolderInv
  <2> QED BY <1>1, <1>2, <2>1 DEF LedgerInv, HolderInv, ProcessingIsHeld
<1>5. /\ receipts'[e].status = "completed"
      /\ \A i \in DOMAIN receipts : i # e => receipts'[i] = receipts[i]
      /\ receipts'[e].frame = receipts[e].frame /\ DOMAIN receipts' = DOMAIN receipts
  BY <1>2, <1>3, <1>4, StatusSet DEF SameFrames
<1>6. PICK f : f = receipts[e].frame
  OBVIOUS
<1>7. NumberedWith(ReceiptStates)' = NumberedWith(ReceiptStates)
  BY <1>4, <1>5 DEF NumberedWith, ReceiptStates
<1>8. NumberedWith(GivenUp)' = NumberedWith(GivenUp)
  BY <1>4, <1>5 DEF NumberedWith, GivenUp
<1>9. CASE f \in Numbered
  <2>1. NumberedWith({"completed"})' = NumberedWith({"completed"}) \cup {f}
    BY <1>4, <1>5, <1>6, <1>9 DEF NumberedWith
  <2>2. f \in NumberedWith(ReceiptStates)
    BY <1>4, <1>6, <1>9 DEF NumberedWith, ReceiptStates
  <2>3. f \notin NumberedWith({"completed"}) /\ f \notin NumberedWith(GivenUp)
    <3>1. ASSUME NEW r \in DOMAIN receipts, receipts[r].frame = f PROVE receipts[r].status = "processing"
      BY <1>3, <1>4, <1>6, <1>9, <3>1, OneReceipt
    <3> QED BY <3>1 DEF NumberedWith, GivenUp
  <2>4. Ledger!Record(f)
    BY <1>7, <1>8, <2>1, <2>2, <2>3 DEF Ledger!Record
  <2> QED BY <1>9, <2>4 DEF Ledger!Next
<1>10. CASE f \notin Numbered
  <2>1. NumberedWith({"completed"})' = NumberedWith({"completed"})
    BY <1>4, <1>5, <1>6, <1>10 DEF NumberedWith
  <2> QED BY <1>7, <1>8, <2>1 DEF Ledger!ledger
<1> QED BY <1>9, <1>10

\* No other step records.
LEMMA RecordsSame ==
    ASSUME [Next]_vars, ~CompleteReceipt
    PROVE  records' = records
BY DEF Next, vars, AcceptFrame, QuarantineFrame, QueueReceipt, CheckSources, ClientFrame, ReadForStop,
       Simulate, ClientStep, InsertSession, StopSession, PutSimulated, QueueAssistantJob, tables,
       WorkerStep, TakeEntry, SkipEntry, ClaimReceipt, ProcessingRaises, CrashAndRecover

LEMMA ImplementsStep ==
    LedgerInv /\ LedgerInv' /\ [Next]_vars => [Ledger!Next]_(Ledger!ledger)
<1> SUFFICES ASSUME LedgerInv, LedgerInv', [Next]_vars PROVE [Ledger!Next]_(Ledger!ledger)
  OBVIOUS
<1>0. /\ TypeOK /\ NumbersAreUnique' /\ HolderInv /\ HolderInv' /\ GivenUpStays
      /\ \A r \in DOMAIN receipts : receipts[r] \in Receipts
      /\ \A r \in DOMAIN receipts' : receipts'[r] \in Receipts
  <2>1. HolderInv /\ HolderInv' /\ NumbersAreUnique'
    BY DEF LedgerInv, QuarantineInv
  <2>2. TypeOK /\ TypeOK'
    BY <2>1 DEF HolderInv
  <2>3. /\ \A r \in DOMAIN receipts : receipts[r] \in Receipts
        /\ \A r \in DOMAIN receipts' : receipts'[r] \in Receipts
    BY <2>2 DEF TypeOK
  <2> QED BY <2>1, <2>2, <2>3, GivenUpStep
<1>1. ASSUME NEW u \in Submitters, NEW f \in Frames, AcceptFrame(u, f)
      PROVE  [Ledger!Next]_(Ledger!ledger)
  BY <1>1, AcceptImplements
<1>2. ASSUME NEW c \in Clients, NEW s \in SessionIds, Simulate(c, s)
      PROVE  [Ledger!Next]_(Ledger!ledger)
  BY <1>2, SimulateImplements
<1>3. ASSUME SameFrames PROVE [Ledger!Next]_(Ledger!ledger)
  <2>1. CASE CompleteReceipt
    BY <1>3, <2>1, CompleteImplements
  <2>2. CASE ~CompleteReceipt
    <3>1. records' = records
      BY <2>2, RecordsSame
    <3>2. \A r \in DOMAIN receipts : receipts'[r].status = "completed" <=> receipts[r].status = "completed"
      BY <1>0, <1>3, <3>1 DEF HolderInv, CompletedIsRecorded, SameFrames
    <3>3. \A r \in DOMAIN receipts :
              receipts[r].status \in ReceiptStates /\ receipts'[r].status \in ReceiptStates
      BY <1>0, <1>3 DEF SameFrames, Receipts
    <3> QED BY <1>0, <1>3, <3>2, <3>3, DropStep
  <2> QED BY <2>1, <2>2
<1>4. ASSUME NEW u \in Submitters, NEW f \in Frames, QuarantineFrame(u, f) PROVE SameFrames
  BY <1>4 DEF QuarantineFrame, SameFrames
<1> QED BY <1>0, <1>1, <1>2, <1>3, <1>4, OtherSteps

LEMMA LedgerInit == Init => LedgerInv /\ Ledger!Init
<1>1. Init => MarksCoverNumbers /\ Ledger!Init
  BY DEF Init, MarksCoverNumbers, Ledger!Init, NumberedWith
<1> QED BY <1>1, QuarantineInit, HolderInit DEF LedgerInv

\* Live ingest implements SourceLedger: across stops, overflows and restarts a
\* numbered frame is accepted only ahead of its source's earlier ones, becomes
\* evidence at most once and never after it was given up.
THEOREM LedgerImplemented == Spec => ImplementsLedger
<1>1. LedgerInv /\ [Next]_vars => LedgerInv'
  BY QuarantineStep, HolderStep, MarksStep DEF LedgerInv
<1> QED BY <1>1, LedgerInit, ImplementsStep, PTL DEF Spec, ImplementsLedger, Ledger!Spec
=============================================================================
