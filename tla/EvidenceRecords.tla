--------------------------- MODULE EvidenceRecords ---------------------------
(***************************************************************************)
(* What happens to the rows of a file between upload and commit: the       *)
(* dataset profile of evidence/ decides which rows are accepted, and much  *)
(* later the adapters of normalization/ turn the accepted rows into        *)
(* canonical events.  The two were written apart, and one row the adapters *)
(* refuse fails the commit of the whole file.  BatchImport has the jobs,   *)
(* the races and the restarts around these two steps.                      *)
(*                                                                         *)
(* A cell is what the validators, the parsers and the limits of the        *)
(* canonical schema tell apart: a kind of value, how long it is as a text  *)
(* and how long the token made of it; a column is a normalized name and    *)
(* whether it is spelled as the profile spells it.                         *)
(* Left out: entities, addresses, ports and counters of the event (an      *)
(* unreadable optional one is dropped with a warning), wording of issues,  *)
(* more than 256 attributes, integers of more than 300 digits, the scope   *)
(* of an IPv6 address, and where in a text past 256 characters its letters *)
(* and digits stand (generic cuts the text before it makes the token).     *)
(***************************************************************************)
EXTENDS Integers, Sequences, FiniteSets, SequencesExt

CONSTANTS
    Files,      \* [source, rows, defect, known]: known if the case has seen its bytes
    Posts       \* rows of live telemetry, likewise

Kinds == {"text",
          "iso",       \* an ISO date and time
          "dawn",      \* one that leaves the calendar when converted to UTC
          "day", "clock",              \* 25-Apr-19, 18:00:00
          "bit", "number", "minus",    \* 1, 21.5, -4.5
          "figure",    \* +5, 05, .5: a number to float(), a text as an attribute
          "aeon",      \* a finite number beyond the calendar
          "ip", "flag", "nested"}

\* size: characters of the stripped text; token: of its normalized_token, 0 if
\* it has no letter and no digit.
Value(kind, size, token) == [kind |-> kind, size |-> size, token |-> token]
Absent == Value("absent", 0, 0)
Empty == {Absent, Value("null", 0, 0), Value("blank", 0, 0)}
Values == Empty \cup [kind : Kinds, size : Nat, token : Nat]

Column(key, exact) == [key |-> key, exact |-> exact]
\* A row is a function from some columns to values.
IsRow(r) ==
    /\ IsFiniteSet(DOMAIN r) /\ \A c \in DOMAIN r : c = Column(c.key, TRUE) \/ c = Column(c.key, FALSE)
    /\ r \in [DOMAIN r -> Values \ {Absent}]
Cell(r, c) == IF c \in DOMAIN r THEN r[c] ELSE Absent

Numbers == {"bit", "number", "minus", "figure", "aeon"}
Metrics == Numbers \ {"figure"}
-----------------------------------------------------------------------------
(* The profiles: which validator guards which column (every guarded column *)
(* is required), and which columns a blind profile forbids.                 *)

Valid(check, v) ==
    CASE check = "nonempty"  -> v \notin Empty
      [] check = "timestamp" -> v.kind \in {"iso", "dawn", "bit", "number", "figure", "aeon"}
      [] check = "number"    -> v.kind \in Numbers
      [] check = "quantity"  -> v.kind \in Numbers \ {"minus"}
      [] check = "ip"        -> v.kind = "ip"
      [] check = "date"      -> v.kind = "day"
      [] check = "time"      -> v.kind = "clock"
      [] check = "binary"    -> v.kind = "bit"

Simulation == [timestamp |-> "timestamp", device_id |-> "nonempty", event_type |-> "nonempty"]

Checks ==
    [casas |-> [timestamp |-> "timestamp", sensor_id |-> "nonempty", message |-> "nonempty"],
     casas_smart_home |-> [timestamp |-> "timestamp", sensor_id |-> "nonempty", sensor_message |-> "nonempty"],
     ton_iot_fridge_telemetry |->
        [date |-> "date", time |-> "time", fridge_temperature |-> "number",
         temp_condition |-> "nonempty", label |-> "binary", type |-> "nonempty"],
     ton_iot_telemetry |-> [ts |-> "timestamp", label |-> "nonempty", type |-> "nonempty"],
     simulated |-> Simulation,
     simulation |-> Simulation,
     ton_iot_network |-> [ts |-> "timestamp", src_ip |-> "ip", dst_ip |-> "ip", label |-> "nonempty"],
     ciciot2023_network |-> [flow_duration |-> "quantity", protocol_type |-> "quantity", label |-> "nonempty"],
     generic |-> [k \in {} |-> "nonempty"],
     hai_ics_blind |-> [timestamp |-> "timestamp", device_id |-> "nonempty"],
     iot23_zeek_blind |->
        [ts |-> "timestamp", device_id |-> "nonempty", id_orig_h |-> "ip", id_resp_h |-> "ip", proto |-> "nonempty"]]

Sources == DOMAIN Checks

\* A file is read under one of the profiles, a live message is one row.
ASSUME FileConstants ==
    /\ \A f \in Files \cup Posts : f.rows \in Seq(Range(f.rows)) /\ \A r \in Range(f.rows) : IsRow(r)
    /\ \A f \in Files : f.source \in Sources
    /\ \A f \in Posts : f.source = "live_telemetry" /\ Len(f.rows) = 1

Forbidden(source) ==
    CASE source = "hai_ics_blind" ->
            {"label", "type", "attack", "attack_type", "attack_label", "class", "category"}
      [] source = "iot23_zeek_blind" ->
            {"label", "detailed_label", "type", "attack", "attack_type", "category"}
      [] OTHER -> {}

\* Faulty variant of ColumnsOf: the columns of the first row.
ColumnsOfFirst(rows) == DOMAIN rows[1]
\* _validate_columns looks at the columns of all rows together.
ColumnsOf(rows) == UNION {DOMAIN rows[i] : i \in DOMAIN rows}

ColumnsMissing(f) == {k \in DOMAIN Checks[f.source] : Column(k, TRUE) \notin ColumnsOf(f.rows)}
ColumnsForbidden(f) == {k \in Forbidden(f.source) : Column(k, TRUE) \in ColumnsOf(f.rows)}

RowValid(source, r) ==
    \A k \in DOMAIN Checks[source] : Valid(Checks[source][k], Cell(r, Column(k, TRUE)))

\* What makes a whole file unreadable, at the name and size, as CSV, as JSON.
FileDefects == {"unsafe_name", "file_type", "empty", "too_large", "encoding"}
CsvDefects == {"no_header", "empty_column", "duplicate_column", "row_shape", "malformed"}
JsonDefects == {"syntax", "constant", "shape", "no_records", "not_objects"}
Readable(f) == f.defect \notin FileDefects \cup CsvDefects \cup JsonDefects
FileErrors(f) == ~Readable(f) \/ ColumnsMissing(f) # {} \/ ColumnsForbidden(f) # {}
Accepted(f) ==
    IF FileErrors(f) THEN {} ELSE {i \in DOMAIN f.rows : RowValid(f.source, f.rows[i])}

Status(f) ==
    IF Accepted(f) = {} THEN "rejected"
    ELSE IF Accepted(f) # DOMAIN f.rows \/ f.known THEN "accepted_with_warnings"
    ELSE "accepted"
-----------------------------------------------------------------------------
(* The helpers of the adapters.  An adapter is the set of reasons why it    *)
(* refuses a row, and the label and attribute names of its event.  (The     *)
(* code reports only the first reason, which changes nothing here.)         *)

Keys(r) == {c.key : c \in DOMAIN r}
Ambiguous(r) == Cardinality(Keys(r)) # Cardinality(DOMAIN r)
Key(r, k) == IF k \in Keys(r) THEN r[CHOOSE c \in DOMAIN r : c.key = k] ELSE Absent
\* The value of the first alias there is.
Get(r, aliases) ==
    LET first == SelectInSeq(aliases, LAMBDA k : k \in Keys(r)) IN
    IF first = 0 THEN Absent ELSE Key(r, aliases[first])

Refuse(condition, reason) == IF condition THEN {reason} ELSE {}
Schema(condition) == Refuse(condition, "CANONICAL_SCHEMA_REJECTED")

Dated == {"iso", "bit", "number", "figure"}
\* Faulty variant of Time: an absent time is always refused.
TimeAlwaysRequired(v, required) ==
    IF v.kind = "dawn" THEN {"OverflowError"} ELSE Refuse(v.kind \notin Dated, "INVALID_TIMESTAMP")
\* parse_timestamp; converting to UTC may raise what no handler expects.
Time(v, required) ==
    IF v \in Empty THEN Refuse(required, "INVALID_TIMESTAMP")
    ELSE IF v.kind = "dawn" THEN {"OverflowError"}
    ELSE Refuse(v.kind \notin Dated, "INVALID_TIMESTAMP")

Required(v) == Refuse(v \in Empty, "MISSING_REQUIRED_FIELD")
RequiredIp(v) == Refuse(v.kind # "ip", "INVALID_REQUIRED_IP")
Optional(v) == IF v \in Empty THEN Absent ELSE v
\* Required texts are not cut, optional ones are cut at 256 characters.
Name(v) == Required(v) \cup Schema(v.size > 256)
DeviceType(v) == Schema(v.size > 128)
DeviceTypeToken(v) == Schema(v.token > 128)
\* Event types, actions and outcomes.
Token(v) == Schema(v.token > 64)
Protocol(v) == Schema(v.token > 32)
Network(r) == Protocol(Get(r, <<"protocol", "proto", "protocol_type">>))

Attributes(r, excluded) == {k \in Keys(r) \ excluded : Key(r, k).kind # "nested"}

Event(reasons, label, attributes) ==
    [reasons |-> reasons, label |-> label, attributes |-> attributes]
-----------------------------------------------------------------------------
(* The adapters. *)

Casas(r) ==
    Event(Time(Key(r, "timestamp"), TRUE) \cup Name(Key(r, "sensor_id")) \cup Name(Key(r, "message"))
            \cup Token(Key(r, "message")) \cup DeviceType(Key(r, "sensor_type")),
          Optional(Key(r, "activity")),
          Attributes(r, {"timestamp", "sensor_id", "sensor_type", "message", "activity", "resident"})
            \cup (Keys(r) \cap {"resident"}))

CasasSmartHome(r) ==
    Event(Time(Key(r, "timestamp"), TRUE) \cup Name(Key(r, "sensor_id")) \cup Required(Key(r, "sensor_message")),
          Absent,
          {"value"} \cup {k \in {"activity"} : Key(r, k) \notin Empty})

TonIotFridgeTelemetry(r) ==
    Event(Refuse(Key(r, "date").kind # "day" \/ Key(r, "time").kind # "clock", "INVALID_TIMESTAMP")
            \cup Refuse(Key(r, "fridge_temperature").kind \notin Numbers, "INVALID_TEMPERATURE")
            \cup Required(Key(r, "temp_condition")) \cup Name(Key(r, "label")) \cup Name(Key(r, "type")),
          Key(r, "label"),
          {"fridge_temperature", "temperature_condition", "attack_type"})

TonIotTelemetry(r) ==
    Event(Time(Key(r, "ts"), TRUE) \cup Name(Key(r, "type")) \cup DeviceTypeToken(Key(r, "type")),
          Optional(Key(r, "label")),
          Attributes(r, {"ts", "label", "type", "device_id", "sensor_id"}))

Simulated(r) ==
    Event(Time(Key(r, "timestamp"), TRUE) \cup Name(Key(r, "device_id")) \cup Name(Key(r, "event_type"))
            \cup Refuse(Key(r, "event_type").token = 0, "INVALID_EVENT_TYPE")
            \cup Token(Key(r, "event_type")) \cup DeviceType(Key(r, "device_type"))
            \cup Token(Key(r, "action")) \cup Token(Key(r, "outcome")) \cup Network(r),
          Optional(Get(r, <<"label", "type">>)),
          Attributes(r, {"timestamp", "device_id", "event_type", "device_type", "protocol", "proto",
                         "label", "type", "action", "outcome"}))

TonIotNetwork(r) ==
    Event(Time(Key(r, "ts"), TRUE) \cup RequiredIp(Key(r, "src_ip")) \cup RequiredIp(Key(r, "dst_ip"))
            \cup Name(Key(r, "label")) \cup Network(r) \cup Token(Key(r, "conn_state")),
          Key(r, "label"),
          Attributes(r, {"ts", "src_ip", "dst_ip", "proto", "protocol", "label", "type", "device_id", "conn_state"}))

CicIot2023Network(r) ==
    Event(Required(Key(r, "flow_duration")) \cup Required(Key(r, "protocol_type")) \cup Name(Key(r, "label"))
            \cup Time(Get(r, <<"timestamp", "ts", "time">>), FALSE) \cup Network(r),
          Key(r, "label"),
          Attributes(r, {"timestamp", "ts", "time", "protocol_type", "protocol", "proto", "label",
                         "device_id", "device"}))

HaiContext == {"timestamp", "device_id", "device_name", "device_type", "event_type", "source_id"}
HaiIcsBlind(r) ==
    LET attributes == Attributes(r, HaiContext) IN
    Event(Time(Key(r, "timestamp"), TRUE) \cup Name(Key(r, "device_id")) \cup DeviceType(Key(r, "device_type"))
            \cup Refuse(\A k \in attributes : Key(r, k).kind \notin Metrics, "TELEMETRY_METRIC_REQUIRED"),
          Absent, attributes)

Iot23ZeekBlind(r) ==
    Event(Time(Key(r, "ts"), TRUE) \cup RequiredIp(Key(r, "id_orig_h")) \cup RequiredIp(Key(r, "id_resp_h"))
            \cup Name(Key(r, "device_id")) \cup DeviceType(Key(r, "device_type"))
            \cup Protocol(Key(r, "proto")) \cup Token(Key(r, "conn_state")),
          Absent,
          Attributes(r, {"ts", "uid", "device_id", "device_name", "device_type", "id_orig_h", "id_resp_h",
                         "proto", "service", "duration", "conn_state"})
            \cup {k \in {"duration"} : Key(r, k).kind \in Metrics}
            \cup {k \in {"service"} : Key(r, k) \notin Empty}
            \cup {"zeek_uid" : k \in {k \in {"uid"} : Key(r, k) \notin Empty}})

Generic(r) ==
    LET attributes == Attributes(r, {"timestamp", "ts", "time", "event_type", "type", "device_id", "device", "label"})
        meaningful == {<<"timestamp", "ts", "time">>, <<"event_type", "type">>, <<"device_id", "device">>, <<"label">>}
    IN Event(Time(Get(r, <<"timestamp", "ts", "time">>), FALSE) \cup Token(Get(r, <<"event_type", "type">>))
               \cup Refuse(attributes = {} /\ \A a \in meaningful : Get(r, a) \in Empty, "EMPTY_CANONICAL_RECORD"),
             Optional(Key(r, "label")), attributes)

\* Metrics are the columns other than the named ones.
LiveTelemetry(r) ==
    Event(Time(Key(r, "observed_at"), TRUE) \cup Name(Key(r, "device_id")) \cup Name(Key(r, "event_type"))
            \cup Refuse(Key(r, "event_type").token = 0, "INVALID_EVENT_TYPE") \cup Token(Key(r, "event_type"))
            \cup Token(Key(r, "action")) \cup Token(Key(r, "outcome")),
          Absent, Keys(r) \ {"observed_at", "device_id", "event_type"})

Adapter(source, r) ==
    CASE source = "casas"                    -> Casas(r)
      [] source = "casas_smart_home"         -> CasasSmartHome(r)
      [] source = "ton_iot_fridge_telemetry" -> TonIotFridgeTelemetry(r)
      [] source = "ton_iot_telemetry"        -> TonIotTelemetry(r)
      [] source \in {"simulated", "simulation"} -> Simulated(r)
      [] source = "ton_iot_network"          -> TonIotNetwork(r)
      [] source = "ciciot2023_network"       -> CicIot2023Network(r)
      [] source = "generic"                  -> Generic(r)
      [] source = "hai_ics_blind"            -> HaiIcsBlind(r)
      [] source = "iot23_zeek_blind"         -> Iot23ZeekBlind(r)
      [] source = "live_telemetry"           -> LiveTelemetry(r)

Normalizes(source, r) == ~Ambiguous(r) /\ Adapter(source, r).reasons = {}
-----------------------------------------------------------------------------
(* The handoff: validation seals each accepted row under the evidence id it *)
(* drew; a commit validates again, under a new id, and seals again for the  *)
(* id of the import.                                                        *)

Seal(id, row) == [evidence |-> id, row |-> row]
Handoff(id, row) == [evidence |-> id, row |-> row, seal |-> Seal(id, row)]
Resealed(h, id) == [h EXCEPT !.evidence = id, !.seal = Seal(id, h.row)]
Authorized(h, id) == h.evidence = id /\ h.seal = Seal(id, h.row)

VARIABLES file, stage, events
vars == <<file, stage, events>>

Init ==
    /\ \/ file \in Files /\ stage = "uploaded"
       \/ file \in Posts /\ stage = "posted"
    /\ events = {}

Validate ==
    /\ stage = "uploaded"
    /\ stage' = IF Status(file) = "rejected" THEN "rejected" ELSE "awaiting_commit"
    /\ UNCHANGED <<file, events>>

EventOf(source, i) ==
    LET e == Adapter(source, file.rows[i]) IN [row |-> i, label |-> e.label, attributes |-> e.attributes]

Commit ==
    /\ stage = "awaiting_commit"
    /\ LET rows == {Resealed(Handoff("again", i), "first") : i \in Accepted(file)}
           kept == {h \in rows : Authorized(h, "first") /\ Normalizes(file.source, file.rows[h.row])}
       IN IF kept = rows
          THEN /\ events' = {EventOf(file.source, h.row) : h \in rows}
               /\ stage' = IF Accepted(file) # DOMAIN file.rows THEN "partial_success" ELSE "completed"
          ELSE stage' = "failed" /\ UNCHANGED events
    /\ UNCHANGED file

\* LiveTelemetryInput: an identifier has a fixed alphabet, an event type is one
\* of six words; the metrics are scalars of any length.
Wellformed(r) ==
    /\ Key(r, "observed_at").kind = "iso"
    /\ Key(r, "device_id").kind = "text" /\ Key(r, "device_id").size <= 128
    /\ Key(r, "event_type").kind = "text"
    /\ Key(r, "event_type").size <= 14 /\ Key(r, "event_type").token \in 1..14
    /\ \A c \in DOMAIN r : c.exact /\ r[c].kind # "nested"

Submit ==
    /\ stage = "posted"
    /\ stage' = IF Wellformed(file.rows[1]) THEN "queued" ELSE "refused"
    /\ UNCHANGED <<file, events>>

Process ==
    /\ stage = "queued"
    /\ IF Normalizes("live_telemetry", file.rows[1])
       THEN events' = {EventOf("live_telemetry", 1)} /\ stage' = "completed"
       ELSE stage' = "failed" /\ UNCHANGED events
    /\ UNCHANGED file

Next == Validate \/ Commit \/ Submit \/ Process
Spec == Init /\ [][Next]_vars
-----------------------------------------------------------------------------
\* A text the canonical schema finds too long for where its column goes.
TooLong(source, k, v) ==
    \/ v.size > (IF k \in {"sensor_type", "device_type"} THEN 128 ELSE 256)
    \/ v.token > 32 /\ k \in {"protocol", "proto", "protocol_type"}
    \/ v.token > 64 /\ k \in {"message", "event_type", "action", "outcome", "conn_state"}
    \/ v.token > (IF source = "generic" THEN 64 ELSE 128) /\ k = "type"

\* What may still stand in the way of a row its profile accepted: a text too
\* long, a time outside the calendar, two columns of one normalized name; and,
\* as the profiles of these sources do not look: no metric for hai, an event
\* type without letters or digits for the simulations, an unreadable optional
\* time for ciciot and generic, and a row of generic that says nothing, where
\* an empty column hides the data that stands under a second name for it.
Unforeseen(source, r) ==
    \/ Ambiguous(r)
    \/ \E c \in DOMAIN r : r[c].kind \in {"aeon", "dawn"} \/ TooLong(source, c.key, r[c])
    \/ /\ source = "hai_ics_blind"
       /\ \A c \in DOMAIN r : r[c].kind \in Metrics => c.key \in HaiContext
    \/ source \in {"simulated", "simulation"} /\ Key(r, "event_type").token = 0
    \/ /\ source \in {"ciciot2023_network", "generic"}
       /\ \E k \in {"timestamp", "ts", "time"} : Key(r, k) \notin Empty /\ Key(r, k).kind \notin Dated
    \/ /\ source = "generic"
       /\ \A c \in DOMAIN r : \/ r[c] \in Empty \/ r[c].kind = "nested"
                             \/ c.key \in {"ts", "time", "type", "device"}

\* The validators and the adapters agree: a file (or a live message) whose
\* validation succeeded is refused at its commit only for a row that is
\* unforeseen in one of the ways above, and never for a value the profile
\* looked at or for the handoff between the two.
AcceptedNormalizes ==
    stage = "failed" => \E i \in DOMAIN file.rows : Unforeseen(file.source, file.rows[i])

\* A blind profile keeps the answers out: no event of a blind file has a label,
\* or an attribute named like a forbidden column, whichever row had it; the one
\* way in is a column whose name is only alike once separators are dropped
\* ("Attack-Type"), which no profile forbids.
BlindStaysBlind ==
    \A e \in events : file.source \in {"hai_ics_blind", "iot23_zeek_blind"} =>
        /\ e.label = Absent
        /\ \A k \in e.attributes \cap Forbidden(file.source) : Column(k, FALSE) \in DOMAIN file.rows[e.row]
=============================================================================
