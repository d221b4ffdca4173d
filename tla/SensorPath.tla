----------------------------- MODULE SensorPath -----------------------------
(***************************************************************************)
(* The way of a frame from an ESP32 node to the backend: the node's buffer *)
(* of un-acked frames (hardware/esp32/traceveil_node), the broker, and the *)
(* bridge (hardware/mqtt_bridge/bridge.py) with its durable spool.  Frames *)
(* take two paths, MQTT and the node's own HTTPS posts, so the same frame  *)
(* reaches the backend more than once and out of order.                    *)
(*                                                                         *)
(* There is one source, whose token is registered, and its session stays   *)
(* active.  The backend is reduced to what submit_live answers a numbered  *)
(* frame (LiveIngest has the rest).  A number always carries the same      *)
(* bytes, because it is kept across power cuts before it is used.          *)
(* Left out: TLS material, arguments, logging and the HTTP-only build.     *)
(***************************************************************************)
EXTENDS Integers, Sequences, FiniteSets, Functions, SequencesExt

CONSTANTS
    MaxSeq,         \* frames the node numbers
    Slots,          \* TV_ACK_BUFFER_SIZE
    SpoolCap,       \* max_size of the spool
    MaxAttempts,    \* max_attempts of the spool
    BrokerCap,      \* messages the model keeps between the node and the bridge
    MaxFaults       \* power cuts of the node and process deaths of the bridge

ASSUME PathConstants ==
    /\ MaxSeq \in Nat /\ Slots \in Nat \ {0} /\ SpoolCap \in Nat
    /\ MaxAttempts \in Nat \ {0} /\ BrokerCap \in Nat
    /\ MaxFaults \in Nat

Seqs == 1..MaxSeq
Status == 0         \* a link status: forwarded as a heartbeat without a number
Stray == -1         \* of another topic or source, or not a JSON object
Messages == Seqs \cup {Status, Stray}

VARIABLES
    slots,      \* the node's buffer: a number per slot, 0 for a free one
    aged,       \* slots in use by sent_at, oldest first
    sequence,   \* g_sequence, in non-volatile storage
    linked,     \* the node's MQTT connection
    broker,     \* published, not yet received by the bridge
    acks,       \* numbers acknowledged on tv/dev/+/ack, not yet received
    spool,      \* the bridge's table of frames to forward, by id
    dead,       \* its dead_letter table, heartbeats left out
    worker,     \* the bridge's worker thread
    accepted,   \* numbers the backend has a receipt for
    lost,       \* history: numbers the node evicted or lost with its power
    taken,      \* history: numbers that were ever spooled
    faults

node == <<slots, aged, sequence, linked, lost>>
bridge == <<spool, dead, worker, taken>>
vars == <<node, broker, acks, bridge, accepted, faults>>

Rows == [frame : Seqs \cup {Status}, attempts : 0..(MaxAttempts - 1)]
Reasons == {"exhausted", "terminal"}
Answers == {"none", "2xx", "transient", "terminal"}
Polling == [at |-> "poll", row |-> 0, answer |-> "none", ack |-> Status]

InUse(f) == {i \in 1..Slots : f[i] # 0}

\* Every slot in use has its place in the order of age.
Orders(order, used) == order \in Seq(1..Slots) /\ Range(order) = used /\ IsInjective(order)

TypeOK ==
    /\ slots \in [1..Slots -> Seqs \cup {0}] /\ Orders(aged, InUse(slots))
    /\ sequence \in 0..MaxSeq /\ linked \in BOOLEAN
    /\ broker \in Seq(Messages) /\ Len(broker) <= BrokerCap
    /\ acks \subseteq Seqs
    /\ spool \in Seq(Rows) /\ Len(spool) <= SpoolCap
    /\ dead \subseteq [frame : Seqs, reason : Reasons]
    /\ worker \in [at : {"poll", "post", "settle", "bury", "ack", "dead"}, row : 0..SpoolCap,
                   answer : Answers, ack : Seqs \cup {Status}]
    /\ accepted \subseteq Seqs /\ lost \subseteq Seqs /\ taken \subseteq Seqs
    /\ faults \in 0..MaxFaults

Init ==
    /\ slots = [i \in 1..Slots |-> 0] /\ aged = << >>
    /\ sequence = 0 /\ linked = FALSE
    /\ broker = << >> /\ acks = {}
    /\ spool = << >> /\ dead = {} /\ worker = Polling
    /\ accepted = {} /\ lost = {} /\ taken = {}
    /\ faults = 0

-----------------------------------------------------------------------------
(* The backend, as submit_live answers: a replay is a success, a number     *)
(* below the mark a refusal for good.                                       *)

Behind(m) == m # Status /\ m \notin accepted /\ \E t \in accepted : t > m

\* Faulty variant of Answer: a replay is refused.
AnswerReplayRefused(m) == IF m \in accepted \/ Behind(m) THEN "terminal" ELSE "2xx"
Answer(m) == IF Behind(m) THEN "terminal" ELSE "2xx"
Receive(m) == accepted' = IF m = Status \/ Behind(m) THEN accepted ELSE accepted \cup {m}

-----------------------------------------------------------------------------
(* The node: one thread that alternates its loop with publishing. *)

Held == {slots[i] : i \in 1..Slots} \ {0}
Free == {i \in 1..Slots : slots[i] = 0}

\* track: the first free slot, with the youngest time.
Track(i, s) == slots' = [slots EXCEPT ![i] = s] /\ aged' = Append(aged, i)
FirstFree == CHOOSE i \in Free : \A j \in Free : i <= j

Without(i) == RemoveAt(aged, CHOOSE p \in DOMAIN aged : aged[p] = i)
Release(i) == slots' = [slots EXCEPT ![i] = 0] /\ aged' = Without(i)

\* Messages the broker gets beyond its bound are lost, as QoS 0 allows.
Publish(ms) == broker' = SubSeq(broker \o ms, 1, IF Len(broker \o ms) < BrokerCap THEN Len(broker \o ms) ELSE BrokerCap)

NextNumber == sequence < MaxSeq /\ sequence' = sequence + 1

\* deliver_mqtt_mode with a free slot and a publish that succeeds.
EmitMqtt ==
    /\ NextNumber /\ Free # {} /\ linked
    /\ Track(FirstFree, sequence + 1)
    /\ Publish(<<sequence + 1>>)
    /\ UNCHANGED <<linked, lost, acks, bridge, accepted, faults>>

BySlot(f) ==
    LET n == Cardinality(InUse(f))
    IN {order \in [1..n -> InUse(f)] : /\ \A i \in InUse(f) : \E p \in 1..n : order[p] = i
                                        /\ \A a, b \in 1..n : a < b => order[a] < order[b]}

\* The publish has to connect first: mqtt_up publishes the status and every
\* frame held, in the order of the slots and not of the numbers.
EmitReconnecting ==
    /\ NextNumber /\ Free # {} /\ ~linked
    /\ linked' = TRUE
    /\ slots' = [slots EXCEPT ![FirstFree] = sequence + 1]
    /\ aged' \in BySlot(slots')
    /\ Publish(<<Status>> \o [n \in DOMAIN aged' |-> slots'[aged'[n]]] \o <<sequence + 1>>)
    /\ UNCHANGED <<lost, acks, bridge, accepted, faults>>

\* The publish fails and so does the post, whether or not it arrived: kept.
EmitPending ==
    /\ NextNumber /\ Free # {}
    /\ Track(FirstFree, sequence + 1)
    /\ linked' = FALSE
    /\ UNCHANGED accepted \/ Receive(sequence + 1)
    /\ UNCHANGED <<broker, lost, acks, bridge, faults>>

\* The publish fails, or there is no slot, and the post is answered 202.
EmitHttp ==
    /\ NextNumber
    /\ Answer(sequence + 1) = "2xx" /\ Receive(sequence + 1)
    /\ linked' = (linked /\ Free = {})
    /\ UNCHANGED <<slots, aged, broker, lost, acks, bridge, faults>>

\* No slot and no answer: evict_oldest makes room for the new frame.
EmitEvicting ==
    /\ NextNumber /\ Free = {}
    /\ slots' = [slots EXCEPT ![Head(aged)] = sequence + 1]
    /\ aged' = Append(Tail(aged), Head(aged))
    /\ lost' = lost \cup {slots[Head(aged)]}
    /\ UNCHANGED accepted \/ Receive(sequence + 1)
    /\ UNCHANGED <<linked, broker, acks, bridge, faults>>

\* unacked_retry_stale on one stale slot.
RetryAnswered(i) ==
    /\ slots[i] # 0
    /\ Receive(slots[i])
    /\ IF Answer(slots[i]) = "2xx" THEN Release(i)
       ELSE aged' = Append(Without(i), i) /\ UNCHANGED slots
    /\ UNCHANGED <<sequence, linked, lost, broker, acks, bridge, faults>>

RetryUnanswered(i) ==
    /\ slots[i] # 0
    /\ UNCHANGED accepted \/ Receive(slots[i])
    /\ aged' = Append(Without(i), i)
    /\ UNCHANGED <<slots, sequence, linked, lost, broker, acks, bridge, faults>>

Disconnect ==
    /\ linked /\ linked' = FALSE
    /\ acks' = {}
    /\ Publish(<<Status>>)
    /\ UNCHANGED <<slots, aged, sequence, lost, bridge, accepted, faults>>

\* mqtt_on_message; at QoS 1 the same acknowledgement may come again.
ReceiveAck(s) ==
    /\ linked /\ s \in acks
    /\ acks' \in {acks, acks \ {s}}
    /\ IF \E i \in 1..Slots : slots[i] = s
       THEN Release(CHOOSE i \in 1..Slots : slots[i] = s) ELSE UNCHANGED <<slots, aged>>
    /\ UNCHANGED <<sequence, linked, lost, broker, bridge, accepted, faults>>

\* The buffer is in RAM, the number is not.
PowerCut ==
    /\ faults < MaxFaults /\ faults' = faults + 1
    /\ lost' = lost \cup Held
    /\ slots' = [i \in 1..Slots |-> 0] /\ aged' = << >> /\ linked' = FALSE /\ acks' = {}
    /\ UNCHANGED <<sequence, broker, bridge, accepted>>

Node ==
    \/ EmitMqtt \/ EmitReconnecting \/ EmitPending \/ EmitHttp \/ EmitEvicting
    \/ \E i \in 1..Slots : RetryAnswered(i) \/ RetryUnanswered(i)
    \/ Disconnect \/ PowerCut
    \/ \E s \in Seqs : ReceiveAck(s)

-----------------------------------------------------------------------------
(* The broker: QoS 0, so any message may be lost. *)

Lose ==
    /\ broker # << >>
    /\ broker' = Tail(broker)
    /\ UNCHANGED <<node, acks, bridge, accepted, faults>>

PublishStray ==
    /\ broker = << >> /\ BrokerCap > 0
    /\ Publish(<<Stray>>)
    /\ UNCHANGED <<node, acks, bridge, accepted, faults>>

-----------------------------------------------------------------------------
(* The bridge. *)

\* Faulty variant of Enqueue: no bound.
EnqueueAlways(m) == spool' = Append(spool, [frame |-> m, attempts |-> 0])

\* Spool.enqueue: a full spool drops the frame.
Enqueue(m) ==
    spool' = IF Len(spool) < SpoolCap THEN Append(spool, [frame |-> m, attempts |-> 0]) ELSE spool

\* on_message: strays are ignored.
OnMessage ==
    /\ broker # << >>
    /\ broker' = Tail(broker)
    /\ IF Head(broker) = Stray THEN UNCHANGED spool ELSE Enqueue(Head(broker))
    /\ taken' = taken \cup (IF spool' # spool THEN {Head(broker)} \ {Status} ELSE {})
    /\ UNCHANGED <<node, acks, dead, worker, accepted, faults>>

WorkerFrame == UNCHANGED <<node, broker, taken, faults>>

\* next_ready: the lowest id due; only rows that were deferred may not be due.
Ready(i) == i \in DOMAIN spool /\ \A j \in 1..(i - 1) : spool[j].attempts > 0

TakeRow(i) ==
    /\ worker.at = "poll" /\ Ready(i)
    /\ worker' = [Polling EXCEPT !.at = "post", !.row = i]
    /\ WorkerFrame /\ UNCHANGED <<acks, spool, dead, accepted>>

Answered(a) == worker' = [worker EXCEPT !.at = "settle", !.answer = a]

\* _post, answered by the backend.
PostAnswered ==
    /\ worker.at = "post"
    /\ LET m == spool[worker.row].frame IN Answered(Answer(m)) /\ Receive(m)
    /\ WorkerFrame /\ UNCHANGED <<acks, spool, dead>>

\* Faulty variant of PostFailed: a 429 or 5xx is taken for a refusal.
PostRefused ==
    /\ worker.at = "post"
    /\ Answered("terminal")
    /\ WorkerFrame /\ UNCHANGED <<acks, spool, dead, accepted>>

\* A 429 or 5xx, or a URLError: the backend did not take the frame.
PostFailed ==
    /\ worker.at = "post"
    /\ Answered("transient")
    /\ WorkerFrame /\ UNCHANGED <<acks, spool, dead, accepted>>

\* A reply that is late or breaks off raises an OSError that is not a
\* URLError: nothing catches it and the thread ends, accepted or not.
PostBreaksOff ==
    /\ worker.at = "post"
    /\ worker' = [Polling EXCEPT !.at = "dead"]
    /\ UNCHANGED accepted \/ Receive(spool[worker.row].frame)
    /\ WorkerFrame /\ UNCHANGED <<acks, spool, dead>>

\* Faulty variant of Delivered: a refusal is acknowledged too.
DeliveredUnlessTransient ==
    /\ worker.at = "settle" /\ worker.answer # "transient"
    /\ spool' = RemoveAt(spool, worker.row)
    /\ worker' = [Polling EXCEPT !.at = "ack", !.ack = spool[worker.row].frame]
    /\ WorkerFrame /\ UNCHANGED <<acks, dead, accepted>>

\* mark_delivered, before the acknowledgement.
Delivered ==
    /\ worker.at = "settle" /\ worker.answer = "2xx"
    /\ spool' = RemoveAt(spool, worker.row)
    /\ worker' = [Polling EXCEPT !.at = "ack", !.ack = spool[worker.row].frame]
    /\ WorkerFrame /\ UNCHANGED <<acks, dead, accepted>>

\* _publish_ack: none for a frame without a number; may be lost.
PublishAck ==
    /\ worker.at = "ack"
    /\ worker' = Polling
    /\ acks' \in {acks, acks \cup ({worker.ack} \ {Status})}
    /\ WorkerFrame /\ UNCHANGED <<spool, dead, accepted>>

GivesUp == worker.answer = "terminal" \/ spool[worker.row].attempts + 1 >= MaxAttempts

Reason == IF worker.answer = "terminal" THEN "terminal" ELSE "exhausted"

\* Faulty variant of Defer: the attempt is not counted.
DeferUncounted ==
    /\ worker.at = "settle" /\ worker.answer # "2xx" /\ ~GivesUp
    /\ worker' = Polling
    /\ WorkerFrame /\ UNCHANGED <<acks, spool, dead, accepted>>

\* defer: next_attempt only decides when the row is due again.
Defer ==
    /\ worker.at = "settle" /\ worker.answer # "2xx" /\ ~GivesUp
    /\ spool' = [spool EXCEPT ![worker.row].attempts = @ + 1]
    /\ worker' = Polling
    /\ WorkerFrame /\ UNCHANGED <<acks, dead, accepted>>

\* Faulty variant of InsertDeadLetter: a frame is buried only when refused.
InsertRefusedOnly ==
    /\ worker.at = "settle" /\ worker.answer # "2xx" /\ GivesUp
    /\ dead' = IF Reason = "terminal" THEN dead \cup {[frame |-> spool[worker.row].frame, reason |-> Reason]} ELSE dead
    /\ worker' = [worker EXCEPT !.at = "bury"]
    /\ WorkerFrame /\ UNCHANGED <<acks, spool, accepted>>

\* dead_letter: two statements, each committed.
InsertDeadLetter ==
    /\ worker.at = "settle" /\ worker.answer # "2xx" /\ GivesUp
    /\ dead' = dead \cup {[frame |-> m, reason |-> Reason] : m \in {spool[worker.row].frame} \ {Status}}
    /\ worker' = [worker EXCEPT !.at = "bury"]
    /\ WorkerFrame /\ UNCHANGED <<acks, spool, accepted>>

DeleteBuried ==
    /\ worker.at = "bury"
    /\ spool' = RemoveAt(spool, worker.row)
    /\ worker' = Polling
    /\ WorkerFrame /\ UNCHANGED <<acks, dead, accepted>>

\* The process dies or is stopped, and is started again: the spool survives.
RestartBridge ==
    /\ faults < MaxFaults /\ faults' = faults + 1
    /\ worker' = Polling
    /\ UNCHANGED <<node, broker, acks, spool, dead, taken, accepted>>

ProcessOnce ==
    \/ \E i \in 1..SpoolCap : TakeRow(i)
    \/ PostAnswered \/ PostFailed \/ PostBreaksOff
    \/ Delivered \/ PublishAck \/ Defer \/ InsertDeadLetter \/ DeleteBuried

Next == Node \/ Lose \/ PublishStray \/ OnMessage \/ ProcessOnce \/ RestartBridge

Spec == Init /\ [][Next]_vars

\* run_worker calls process_once for ever, the node's loop retries every slot,
\* and its posts are answered again and again.
Fairness == WF_vars(ProcessOnce) /\ \A i \in 1..Slots : SF_vars(RetryAnswered(i))
FairSpec == Spec /\ Fairness

-----------------------------------------------------------------------------
\* A number the node gave out is still in its buffer, or the backend has it,
\* or the node itself lost it: an acknowledgement or a 202 that frees a slot
\* never comes before the receipt (delivery_policy.h; _publish_ack).
ReleasedIsAccepted == 1..sequence \subseteq Held \cup accepted \cup lost

\* What the bridge spooled is in the spool, in the dead letters or with the
\* backend, whatever fails between the post and the two tables (TV5-07).
SpooledIsKept ==
    taken \subseteq {spool[i].frame : i \in DOMAIN spool} \cup {d.frame : d \in dead} \cup accepted

\* A frame buried as refused was refused for good: no other path makes the
\* backend accept it later.
RefusedStaysRefused == \A d \in dead : d.reason = "terminal" => d.frame \notin accepted

\* Once no more frames come, the spool empties as long as the worker's thread
\* is alive: a row that keeps failing cannot keep the rows behind it waiting.
SpoolDrains == (spool # << >>) ~> (spool = << >> \/ worker.at = "dead")

\* A frame the backend has is not held by the node for ever: when every
\* acknowledgement is lost, the replay of the frame by HTTPS is answered 202.
AcceptedIsReleased == \A s \in Seqs : (s \in accepted) ~> (s \notin Held)

\* What docs/step-5-live-iot.md:154 says: only frames still un-acked in the
\* buffer at a power cut, or evicted from it, are lost.  A number behind the
\* mark of its source that was not accepted never will be.
LossIsDocumented == \A s \in 1..sequence : Behind(s) => s \in lost

\* What the bridge says of its spool (bridge.py:19): a worker thread drains it.
SpoolAlwaysDrains == (spool # << >>) ~> (spool = << >>)

-----------------------------------------------------------------------------
(* What makes the three safety properties inductive. *)

\* The backend has it, or it is a heartbeat that nobody counts.
Arrived(m) == m = Status \/ m \in accepted
Buried == {d.frame : d \in dead}

\* What the worker carries from one statement to the next.
WorkerCarries ==
    /\ worker.at \in {"post", "settle", "bury"} => worker.row \in DOMAIN spool
    /\ worker.at = "settle" /\ worker.answer = "2xx" => Arrived(spool[worker.row].frame)
    /\ worker.at = "settle" /\ worker.answer = "terminal" => Behind(spool[worker.row].frame)
    /\ worker.at = "bury" => spool[worker.row].frame \in Buried \cup {Status}
    /\ worker.at = "ack" => Arrived(worker.ack)

\* Nothing is acknowledged before it is accepted; a refusal stays a refusal.
PathInv ==
    /\ TypeOK
    /\ acks \subseteq accepted
    /\ WorkerCarries
    /\ \A d \in dead : d.reason = "terminal" => Behind(d.frame)
    /\ ReleasedIsAccepted /\ SpooledIsKept
=============================================================================
