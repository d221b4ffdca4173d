----------------------------- MODULE UsbCapture -----------------------------
(***************************************************************************)
(* The capture of a sensor over USB (services/usb_sensor.py): one thread   *)
(* that finds the board, flashes it if it does not answer, takes a live    *)
(* session for the sensor's source and submits its samples; requests start *)
(* and stop it, other requests start and stop sessions of the same source  *)
(* beside it, and the process may die.                                     *)
(*                                                                         *)
(* Only sessions that hold the source are modelled (LiveIngest has the     *)
(* rest of sessions and receipts), and the API starts one in a single      *)
(* step.  The first reading is waited for, so its receipt is modelled;     *)
(* messages, ports, the creation of a new case and the audit are left out. *)
(***************************************************************************)
EXTENDS Integers, Sequences, FiniteSets

CONSTANTS
    Cases,
    MaxCaptures,    \* captures started
    MaxSessions,    \* sessions the API starts
    MaxDeaths       \* process deaths

ASSUME CaptureConstants ==
    /\ MaxCaptures \in Nat /\ MaxSessions \in Nat /\ MaxDeaths \in Nat

VARIABLES
    at,         \* where the thread is; dead when it is not alive
    case,       \* the case it captures for
    found,      \* _session: the sessions it read as active
    mine,       \* session_id of the thread, 0 for none
    state,      \* what status answers
    readings,   \* none, or some
    receipt,    \* of the reading it waits for
    cancel,     \* the event that asks the thread to stop
    sessions,   \* live_sessions with the source, oldest first
    captures, opened, deaths

thread == <<at, case, found, mine, state, readings>>
counts == <<captures, opened, deaths>>
vars == <<thread, receipt, cancel, sessions, counts>>

Ids == DOMAIN sessions
Active(i) == sessions[i].active
Limit == MaxCaptures + MaxSessions

TypeOK ==
    /\ at \in {"dead", "hello", "flash", "again", "enter", "session", "listen", "submit", "first", "count", "finally"}
    /\ case \in Cases /\ found \subseteq Ids /\ mine \in {0} \cup Ids
    /\ state \in {"idle", "connecting", "flashing", "waiting", "capturing", "stopped", "error"}
    /\ readings \in BOOLEAN /\ cancel \in BOOLEAN
    /\ receipt \in {"none", "queued", "completed", "failed"}
    /\ sessions \in Seq([case : Cases, active : BOOLEAN]) /\ Len(sessions) <= Limit
    /\ captures \in 0..MaxCaptures /\ opened \in 0..MaxSessions /\ deaths \in 0..MaxDeaths

Init ==
    /\ at = "dead" /\ case \in Cases /\ found = {} /\ mine = 0
    /\ state = "idle" /\ readings = FALSE /\ receipt = "none" /\ cancel = FALSE
    /\ sessions = << >>
    /\ captures = 0 /\ opened = 0 /\ deaths = 0
-----------------------------------------------------------------------------
(* Requests. *)

\* start, on a thread that is alive, changes nothing: a repeated click.
Start(c) ==
    /\ at = "dead" /\ captures < MaxCaptures
    /\ captures' = captures + 1
    /\ cancel' = FALSE
    /\ at' = "hello" /\ case' = c /\ found' = {} /\ mine' = 0
    /\ state' = "connecting" /\ readings' = FALSE
    /\ UNCHANGED <<receipt, sessions, opened, deaths>>

\* stop sets the event and waits five seconds at most, for whatever then holds.
Stop ==
    /\ cancel' = TRUE
    /\ UNCHANGED <<thread, receipt, sessions, counts>>

StartSession(c) ==
    /\ opened < MaxSessions /\ \A i \in Ids : ~Active(i)
    /\ opened' = opened + 1
    /\ sessions' = Append(sessions, [case |-> c, active |-> TRUE])
    /\ UNCHANGED <<thread, receipt, cancel, captures, deaths>>

StopSession(i) ==
    /\ Active(i)
    /\ sessions' = [sessions EXCEPT ![i].active = FALSE]
    /\ UNCHANGED <<thread, receipt, cancel, counts>>

\* The ingest worker settles the receipt of the first reading.
Settle ==
    /\ receipt = "queued" /\ receipt' \in {"completed", "failed"}
    /\ UNCHANGED <<thread, cancel, sessions, counts>>

ProcessDeath ==
    /\ deaths < MaxDeaths /\ deaths' = deaths + 1
    /\ at' = "dead" /\ found' = {} /\ mine' = 0 /\ state' = "idle" /\ readings' = FALSE
    /\ cancel' = FALSE
    /\ UNCHANGED <<case, receipt, sessions, captures, opened>>
-----------------------------------------------------------------------------
(* The thread. *)

Step(from, to) ==
    at = from /\ at' = to /\ UNCHANGED <<case, cancel, counts>>
Quiet == UNCHANGED <<found, mine, receipt, sessions>>

\* Faulty variant of Cancelled: the event is only looked at once it is over.
CancelledNever == at = "finally"
Cancelled == cancel

\* Anything the thread does may raise: the serial line, the tools, the database.
Fail ==
    /\ at \notin {"dead", "finally"}
    /\ Step(at, "finally") /\ state' = "error"
    /\ Quiet /\ UNCHANGED readings

\* _hello gives up at once when it is cancelled, and the thread goes on to flash.
Hello ==
    /\ \/ ~Cancelled /\ Step("hello", "enter") /\ UNCHANGED state
       \/ Step("hello", "flash") /\ state' = "flashing"
    /\ Quiet /\ UNCHANGED readings

Flash ==
    /\ Step("flash", IF Cancelled THEN "finally" ELSE "again")
    /\ Quiet /\ UNCHANGED <<state, readings>>

HelloAgain ==
    /\ ~Cancelled /\ Step("again", "enter")
    /\ Quiet /\ UNCHANGED <<state, readings>>

\* The rows of _session are read at once.
Enter ==
    /\ Step("enter", IF Cancelled THEN "finally" ELSE "session")
    /\ found' = IF Cancelled THEN {} ELSE {i \in Ids : Active(i)}
    /\ UNCHANGED <<mine, receipt, sessions, state, readings>>

\* Sessions of other cases are stopped one by one; one stopped by others
\* meanwhile raises (Fail).
StopOther(i) ==
    /\ i \in found /\ sessions[i].case # case /\ Active(i)
    /\ Step("session", "session")
    /\ found' = found \ {i}
    /\ sessions' = [sessions EXCEPT ![i].active = FALSE]
    /\ UNCHANGED <<mine, receipt, state, readings>>

\* The session of the case that was found is taken as it is by now; or a new
\* one is started, which raises if others started one meanwhile.
Attach ==
    /\ \A i \in found : sessions[i].case = case
    /\ Step("session", "listen")
    /\ state' = "waiting" /\ found' = {}
    /\ IF found # {} THEN mine' \in found /\ UNCHANGED sessions
       ELSE /\ \A i \in Ids : ~Active(i)
            /\ sessions' = Append(sessions, [case |-> case, active |-> TRUE])
            /\ mine' = Len(sessions')
    /\ UNCHANGED <<receipt, readings>>

\* A sample is read, unless the capture is over; silence for long raises.
Listen ==
    /\ Step("listen", IF Cancelled \/ ~Active(mine) THEN "finally" ELSE "submit")
    /\ Quiet /\ UNCHANGED <<state, readings>>

\* submit_live finds some active session of the case, or raises.
Submit ==
    /\ \E i \in Ids : Active(i) /\ sessions[i].case = case
    /\ Step("submit", IF readings THEN "count" ELSE "first")
    /\ receipt' = IF readings THEN receipt ELSE "queued"
    /\ UNCHANGED <<found, mine, sessions, state, readings>>

\* The wait for the first reading ends for a cancel, or for its receipt; a
\* failed receipt and fifteen seconds raise.
AwaitFirst ==
    /\ Cancelled \/ receipt = "completed"
    /\ Step("first", "count")
    /\ Quiet /\ UNCHANGED <<state, readings>>

Count ==
    /\ Step("count", IF Cancelled THEN "finally" ELSE "listen")
    /\ IF Cancelled THEN UNCHANGED <<state, readings>> ELSE state' = "capturing" /\ readings' = TRUE
    /\ Quiet

Finally ==
    /\ Step("finally", "dead")
    /\ sessions' = IF mine = 0 THEN sessions ELSE [sessions EXCEPT ![mine].active = FALSE]
    /\ state' = IF state = "error" THEN state ELSE "stopped"
    /\ UNCHANGED <<found, mine, receipt, readings>>

Run ==
    \/ Fail \/ Hello \/ Flash \/ HelloAgain \/ Enter
    \/ (\E i \in Ids : StopOther(i)) \/ Attach
    \/ Listen \/ Submit \/ AwaitFirst \/ Count \/ Finally

Next ==
    \/ \E c \in Cases : Start(c) \/ StartSession(c)
    \/ Stop
    \/ \E i \in Ids : StopSession(i)
    \/ Settle \/ ProcessDeath \/ Run

\* Every blocking call of the thread has a timeout, so it keeps stepping.
Spec == Init /\ [][Next]_vars /\ WF_vars(Run)
-----------------------------------------------------------------------------
\* A capture that is asked to stop ends, wherever the request meets it, while
\* the board is flashed, a session is taken over, or the first reading is
\* waited for; and it leaves no session of its own active behind.
StopIsHonoured ==
    (cancel /\ at # "dead") ~> (at = "dead" /\ (mine # 0 => ~Active(mine)))
=============================================================================
