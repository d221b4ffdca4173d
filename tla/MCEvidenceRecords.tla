-------------------------- MODULE MCEvidenceRecords --------------------------
EXTENDS EvidenceRecords

Plain(kind) == Value(kind, 8, 8)

\* One value of each kind, and texts on both sides of every limit.
Samples ==
    Empty \cup {Plain(kind) : kind \in Kinds} \cup {Value("text", n, n) : n \in {32, 33, 64, 65, 128, 129, 256, 257}}
    \cup {Value("text", 8, 0), Value("text", 300, 8), Value("number", 40, 38), Value("nested", 300, 280)}

\* For each source: a value every validator of the profile accepts, and the
\* optional columns its adapter reads besides.
Good(check) ==
    Plain(CASE check = "nonempty" -> "text" [] check = "timestamp" -> "iso" [] check = "number" -> "number"
            [] check = "quantity" -> "number" [] check = "ip" -> "ip" [] check = "date" -> "day"
            [] check = "time" -> "clock" [] check = "binary" -> "bit")

Read ==
    [casas |-> {"sensor_type", "activity", "resident"},
     casas_smart_home |-> {"activity"},
     ton_iot_fridge_telemetry |-> {},
     ton_iot_telemetry |-> {"device_id"},
     simulated |-> {"device_type", "protocol", "proto", "label", "type", "action", "outcome"},
     simulation |-> {},
     ton_iot_network |-> {"proto", "type", "device_id", "conn_state"},
     ciciot2023_network |-> {"timestamp", "time", "device_id", "protocol"},
     generic |-> {"timestamp", "time", "event_type", "device_id", "label"},
     hai_ics_blind |-> {"device_type", "device_name"},
     iot23_zeek_blind |-> {"uid", "device_type", "duration", "service", "conn_state"}]

Base(source) ==
    [c \in {Column(k, TRUE) : k \in DOMAIN Checks[source]} |-> Good(Checks[source][c.key])]

\* Columns a row of the source may have, metric and answers among them.
Known(source) ==
    {Column(k, TRUE) : k \in DOMAIN Checks[source] \cup Read[source] \cup {"metric", "attack"}}
    \cup {Column(k, FALSE) : k \in {"label", "attack"} \cup (DOMAIN Checks[source] \cap {"device_id", "ts"})}

Without(r, c) == [d \in DOMAIN r \ {c} |-> r[d]]
With(r, c, v) ==
    IF v = Absent THEN Without(r, c) ELSE [d \in DOMAIN r \cup {c} |-> IF d = c THEN v ELSE r[d]]

Few == {Absent, Value("null", 0, 0), Plain("number"), Value("text", 8, 0), Value("text", 300, 300)}
Once(source) == {With(Base(source), c, v) : c \in Known(source), v \in Samples}
Metered(source) == {With(r, Column("metric", TRUE), Plain("number")) : r \in Once(source)}
Twice(source) ==
    {With(With(Base(source), c, v), d, w) : c \in Known(source), d \in Known(source),
                                            v \in Few, w \in {Plain("iso"), Plain("number"), Value("null", 0, 0)}}

Single(source, rows, defect, known) ==
    {[source |-> source, rows |-> <<r>>, defect |-> defect, known |-> known] : r \in rows}

Pairs(source) ==
    {[source |-> source, rows |-> rows, defect |-> "none", known |-> FALSE] :
        rows \in {<<Base(source), r>> : r \in Once(source) \cup Metered(source)}
             \cup {<<With(Base(source), Column("metric", TRUE), Plain("number")), r>> : r \in Metered(source)}
             \cup {<<r, Base(source)>> : r \in Once(source)}}

AllFiles ==
    UNION {Single(s, Twice(s), "none", FALSE) \cup Pairs(s)
           \cup Single(s, {Base(s)}, "none", TRUE) 
           \cup UNION {Single(s, {Base(s)}, d, FALSE) : d \in FileDefects \cup CsvDefects \cup JsonDefects} : s \in Sources}

LiveBase == [c \in {Column(k, TRUE) : k \in {"observed_at", "device_id", "event_type"}} |->
                Plain(IF c.key = "observed_at" THEN "iso" ELSE "text")]
AllPosts ==
    Single("live_telemetry",
           {With(LiveBase, Column(k, TRUE), v) :
                k \in {"observed_at", "device_id", "event_type", "action", "outcome", "metric"}, v \in Samples},
           "none", FALSE)
=============================================================================
