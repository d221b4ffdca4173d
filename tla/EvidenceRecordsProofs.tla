------------------------ MODULE EvidenceRecordsProofs ------------------------
(***************************************************************************)
(* Proofs that the dataset profiles and the adapters agree on every row,   *)
(* of any number of columns, and that no event of a blind file has an      *)
(* answer in it; for any set of files and of live messages.                *)
(***************************************************************************)
EXTENDS EvidenceRecords, FiniteSetTheorems, FunctionTheorems, TLAPS

-----------------------------------------------------------------------------
(* Reading a row by normalized name. *)

\* A normalized name stands for the value of one of its columns, or of none.
LEMMA KeyOrigin ==
    ASSUME NEW r, NEW k
    PROVE  \/ k \notin Keys(r) /\ Key(r, k) = Absent
           \/ \E c \in DOMAIN r : c.key = k /\ Key(r, k) = r[c]
<1>1. CASE k \in Keys(r)
  <2>1. \E c \in DOMAIN r : c.key = k
    BY <1>1 DEF Keys
  <2>2. PICK c \in DOMAIN r : c.key = k /\ c = (CHOOSE d \in DOMAIN r : d.key = k)
    BY <2>1
  <2> QED BY <1>1, <2>2 DEF Key
<1> QED BY <1>1 DEF Key

\* As many names as columns: no two columns share one.
LEMMA UnambiguousNames ==
    ASSUME NEW r, IsRow(r), ~Ambiguous(r)
    PROVE  \A c, d \in DOMAIN r : c.key = d.key => c = d
<1> DEFINE name == [c \in DOMAIN r |-> c.key]
<1>1. name \in Surjection(DOMAIN r, Keys(r))
  <2>1. name \in [DOMAIN r -> Keys(r)]
    BY DEF Keys
  <2>2. \A k \in Keys(r) : \E c \in DOMAIN r : name[c] = k
    BY DEF Keys
  <2> QED BY <2>1, <2>2, Fun_IsSurj
<1>2. IsFiniteSet(DOMAIN r) /\ Cardinality(DOMAIN r) = Cardinality(Keys(r))
  BY DEF IsRow, Ambiguous
<1>3. name \in Injection(DOMAIN r, Keys(r))
  BY <1>1, <1>2, FS_SurjSameCardinalityImpliesInj
<1>4. \A c, d \in DOMAIN r : name[c] = name[d] => c = d
  BY <1>3 DEF Injection, IsInjective
<1> QED BY <1>4

LEMMA KeyIsCell ==
    ASSUME NEW r, IsRow(r), ~Ambiguous(r), NEW c \in DOMAIN r
    PROVE  Key(r, c.key) = r[c]
<1>1. c.key \in Keys(r)
  BY DEF Keys
<1>2. PICK d \in DOMAIN r : d.key = c.key /\ Key(r, c.key) = r[d]
  BY <1>1, KeyOrigin
<1> QED BY <1>2, UnambiguousNames

\* The least member of a set of numbers.
LEMMA MinIsLeast ==
    ASSUME NEW S \in SUBSET Nat, S # {}
    PROVE  Min(S) \in S /\ \A y \in S : Min(S) <= y
<1>1. PICK x \in S : \A y \in S : ~(<<y, x>> \in OpToRel(<, Nat))
  <2> HIDE DEF OpToRel
  <2> QED BY NatLessThanWellFounded, WFMin
<1>2. \A y \in S : x <= y
  <2>1. \A y \in S : ~(y < x)
    BY <1>1, Zenon DEF OpToRel
  <2> QED BY <2>1
<1> QED BY <1>1, <1>2 DEF Min

\* A list of aliases stands for the first that is there.
LEMMA GetOrigin ==
    ASSUME NEW r, NEW aliases, Len(aliases) \in Nat
    PROVE  \/ /\ \A i \in 1..Len(aliases) : aliases[i] \notin Keys(r)
              /\ Get(r, aliases) = Absent
           \/ \E i \in 1..Len(aliases) :
                /\ aliases[i] \in Keys(r) /\ Get(r, aliases) = Key(r, aliases[i])
                /\ \A j \in 1..(i - 1) : aliases[j] \notin Keys(r)
<1> DEFINE present == {i \in 1..Len(aliases) : aliases[i] \in Keys(r)}
<1>1. CASE present = {}
  BY <1>1 DEF Get, SelectInSeq
<1>2. CASE present # {}
  <2>1. Min(present) \in present /\ \A i \in present : Min(present) <= i
    <3>1. present \in SUBSET Nat
      OBVIOUS
    <3> HIDE DEF present
    <3> QED BY <1>2, <3>1, MinIsLeast
  <2>2. Get(r, aliases) = Key(r, aliases[Min(present)])
    BY <1>2, <2>1 DEF Get, SelectInSeq
  <2>3. \A j \in 1..(Min(present) - 1) : aliases[j] \notin Keys(r)
    BY <2>1
  <2> QED BY <2>1, <2>2, <2>3
<1> QED BY <1>1, <1>2

-----------------------------------------------------------------------------
(* What a profile that accepted a row, none of whose values is unforeseen,  *)
(* says of the values an adapter reads.                                     *)

Validators == {"nonempty", "timestamp", "number", "quantity", "ip", "date", "time", "binary"}
Foreseen(source, k, v) == v.kind \notin {"aeon", "dawn"} /\ ~TooLong(source, k, v)

LEMMA AbsentIsForeseen ==
    ASSUME NEW source, NEW k
    PROVE  Foreseen(source, k, Absent) /\ Absent.token = 0 /\ Absent.kind = "absent"
BY DEF Foreseen, TooLong, Absent, Value

LEMMA ProfilesUseValidators ==
    \A source \in Sources : \A k \in DOMAIN Checks[source] : Checks[source][k] \in Validators
BY DEF Sources, Checks, Simulation, Validators

LEMMA ValidIsThere ==
    ASSUME NEW check \in Validators, NEW v, Valid(check, v)
    PROVE  v \notin Empty
<1>1. v \in Empty => v.kind \in {"absent", "null", "blank"}
  BY DEF Empty, Absent, Value
<1>2. CASE check = "nonempty"
  BY <1>2 DEF Valid
<1>3. CASE check \in {"timestamp", "ip", "date", "time", "binary"}
  BY <1>1, <1>3 DEF Valid
<1>4. CASE check \in {"number", "quantity"}
  BY <1>1, <1>4 DEF Valid, Numbers
<1> QED BY <1>2, <1>3, <1>4 DEF Validators

\* A column the profile guards: the adapter reads the value the validator saw.
LEMMA GuardedKey ==
    ASSUME NEW source \in Sources, NEW r, IsRow(r), ~Ambiguous(r), RowValid(source, r),
           NEW k \in DOMAIN Checks[source]
    PROVE  Valid(Checks[source][k], Key(r, k))
<1> DEFINE c == Column(k, TRUE)
<1>1. Valid(Checks[source][k], Cell(r, c))
  BY DEF RowValid
<1>2. Cell(r, c) \notin Empty
  BY <1>1, ProfilesUseValidators, ValidIsThere
<1>3. c \in DOMAIN r /\ Cell(r, c) = r[c]
  BY <1>2 DEF Cell, Empty
<1>4. c.key = k
  BY DEF Column
<1>5. Key(r, c.key) = r[c]
  <2> HIDE DEF c
  <2> QED BY <1>3, KeyIsCell
<1>6. Cell(r, c) = Key(r, k)
  BY <1>3, <1>4, <1>5
<1> HIDE DEF c
<1> QED BY <1>1, <1>6

\* A column nobody guards.
LEMMA ForeseenKey ==
    ASSUME NEW source, NEW r, IsRow(r), ~Unforeseen(source, r), NEW k
    PROVE  Foreseen(source, k, Key(r, k))
<1>1. CASE Key(r, k) = Absent
  BY <1>1, AbsentIsForeseen
<1>2. CASE \E c \in DOMAIN r : c.key = k /\ Key(r, k) = r[c]
  BY <1>2 DEF Unforeseen, Foreseen
<1> QED BY <1>1, <1>2, KeyOrigin

\* What follows for the helpers of the adapters.
LEMMA Readings ==
    ASSUME NEW source, NEW k, NEW v, Foreseen(source, k, v)
    PROVE  /\ \A required \in BOOLEAN : Valid("timestamp", v) => Time(v, required) = {}
           /\ v \in Empty \/ v.kind \in Dated => Time(v, FALSE) = {}
           /\ v \notin Empty => Required(v) = {}
           /\ v \notin Empty /\ k \notin {"sensor_type", "device_type"} => Name(v) = {}
           /\ k \in {"sensor_type", "device_type"} => DeviceType(v) = {}
           /\ k \in {"message", "event_type", "action", "outcome", "conn_state"} => Token(v) = {}
           /\ k = "type" /\ source = "generic" => Token(v) = {}
           /\ k \in {"protocol", "proto", "protocol_type"} => Protocol(v) = {}
<1>1. \A required \in BOOLEAN : Valid("timestamp", v) => Time(v, required) = {}
  <2>1. Valid("timestamp", v) => v.kind \in Dated
    BY DEF Valid, Foreseen, Dated
  <2>2. Valid("timestamp", v) => v \notin Empty
    BY ValidIsThere DEF Validators
  <2> QED BY <2>1, <2>2 DEF Time, Refuse, Dated
<1>2. v \in Empty \/ v.kind \in Dated => Time(v, FALSE) = {}
  BY DEF Time, Refuse, Dated
<1>3. v \notin Empty => Required(v) = {}
  BY DEF Required, Refuse
<1>4. k \notin {"sensor_type", "device_type"} => Schema(v.size > 256) = {}
  BY DEF Foreseen, TooLong, Schema, Refuse
<1>5. k \in {"sensor_type", "device_type"} => Schema(v.size > 128) = {}
  BY DEF Foreseen, TooLong, Schema, Refuse
<1>6. k \in {"message", "event_type", "action", "outcome", "conn_state"} => Schema(v.token > 64) = {}
  BY DEF Foreseen, TooLong, Schema, Refuse
<1>7. /\ k = "type" /\ source = "generic" => Schema(v.token > 64) = {}
  BY DEF Foreseen, TooLong, Schema, Refuse
<1>8. k \in {"protocol", "proto", "protocol_type"} => Schema(v.token > 32) = {}
  BY DEF Foreseen, TooLong, Schema, Refuse
<1> QED BY <1>1, <1>2, <1>3, <1>4, <1>5, <1>6, <1>7, <1>8 DEF Name, DeviceType, Token, Protocol

\* The same, of a row all of whose values are foreseen.
LEMMA RowReadings ==
    ASSUME NEW source, NEW r, \A k : Foreseen(source, k, Key(r, k))
    PROVE  /\ \A k : Valid("timestamp", Key(r, k)) => Time(Key(r, k), TRUE) = {}
           /\ \A k : Key(r, k) \notin Empty => Required(Key(r, k)) = {}
           /\ \A k \in {"sensor_id", "device_id", "message", "event_type", "label", "type"} :
                  Key(r, k) \notin Empty => Name(Key(r, k)) = {}
           /\ \A k \in {"sensor_type", "device_type"} : DeviceType(Key(r, k)) = {}
           /\ \A k \in {"message", "event_type", "action", "outcome", "conn_state"} : Token(Key(r, k)) = {}
           /\ source = "generic" => Token(Key(r, "type")) = {}
           /\ \A k \in {"protocol", "proto", "protocol_type"} : Protocol(Key(r, k)) = {}
<1>1. ASSUME NEW k
      PROVE  /\ Valid("timestamp", Key(r, k)) => Time(Key(r, k), TRUE) = {}
             /\ Key(r, k) \notin Empty => Required(Key(r, k)) = {}
             /\ Key(r, k) \notin Empty /\ k \notin {"sensor_type", "device_type"} => Name(Key(r, k)) = {}
             /\ k \in {"sensor_type", "device_type"} => DeviceType(Key(r, k)) = {}
             /\ k \in {"message", "event_type", "action", "outcome", "conn_state"} => Token(Key(r, k)) = {}
             /\ k = "type" /\ source = "generic" => Token(Key(r, k)) = {}
             /\ k \in {"protocol", "proto", "protocol_type"} => Protocol(Key(r, k)) = {}
  <2>1. Foreseen(source, k, Key(r, k))
    OBVIOUS
  <2>2. PICK v : v = Key(r, k)
    OBVIOUS
  <2>3. Foreseen(source, k, v)
    BY <2>1, <2>2
  <2> QED BY <2>2, <2>3, Readings
<1> QED BY <1>1

-----------------------------------------------------------------------------
(* One lemma for each adapter: it refuses no row its profile accepted.      *)

\* What each lemma assumes of its row.
Admitted(source, r) == IsRow(r) /\ RowValid(source, r) /\ ~Unforeseen(source, r)

LEMMA AdmittedIsClear ==
    ASSUME NEW source \in Sources, NEW r, Admitted(source, r)
    PROVE  /\ ~Ambiguous(r)
           /\ \A k \in DOMAIN Checks[source] : Valid(Checks[source][k], Key(r, k))
           /\ \A k : Foreseen(source, k, Key(r, k))
<1>1. ~Ambiguous(r)
  BY DEF Admitted, Unforeseen
<1>2. \A k \in DOMAIN Checks[source] : Valid(Checks[source][k], Key(r, k))
  BY <1>1, GuardedKey DEF Admitted
<1> QED BY <1>1, <1>2, ForeseenKey DEF Admitted

LEMMA CasasAgrees ==
    ASSUME NEW r, Admitted("casas", r)
    PROVE  Casas(r).reasons = {}
<1>1. "casas" \in Sources
  BY DEF Sources, Checks
<1>2. /\ Valid("timestamp", Key(r, "timestamp"))
      /\ Valid("nonempty", Key(r, "sensor_id")) /\ Valid("nonempty", Key(r, "message"))
  BY <1>1, AdmittedIsClear DEF Checks
<1>3. \A k : Foreseen("casas", k, Key(r, k))
  BY <1>1, AdmittedIsClear
<1>4. Key(r, "sensor_id") \notin Empty /\ Key(r, "message") \notin Empty
  BY <1>2 DEF Valid
<1> QED BY <1>2, <1>3, <1>4, RowReadings DEF Casas, Event

LEMMA CasasSmartHomeAgrees ==
    ASSUME NEW r, Admitted("casas_smart_home", r)
    PROVE  CasasSmartHome(r).reasons = {}
<1>1. "casas_smart_home" \in Sources
  BY DEF Sources, Checks
<1>2. /\ Valid("timestamp", Key(r, "timestamp"))
      /\ Valid("nonempty", Key(r, "sensor_id")) /\ Valid("nonempty", Key(r, "sensor_message"))
  BY <1>1, AdmittedIsClear DEF Checks
<1>3. \A k : Foreseen("casas_smart_home", k, Key(r, k))
  BY <1>1, AdmittedIsClear
<1>4. Key(r, "sensor_id") \notin Empty /\ Key(r, "sensor_message") \notin Empty
  BY <1>2 DEF Valid
<1> QED BY <1>2, <1>3, <1>4, RowReadings DEF CasasSmartHome, Event

LEMMA TonIotFridgeTelemetryAgrees ==
    ASSUME NEW r, Admitted("ton_iot_fridge_telemetry", r)
    PROVE  TonIotFridgeTelemetry(r).reasons = {}
<1>1. "ton_iot_fridge_telemetry" \in Sources
  BY DEF Sources, Checks
<1>2. /\ Valid("date", Key(r, "date")) /\ Valid("time", Key(r, "time"))
      /\ Valid("number", Key(r, "fridge_temperature")) /\ Valid("nonempty", Key(r, "temp_condition"))
      /\ Valid("binary", Key(r, "label")) /\ Valid("nonempty", Key(r, "type"))
  BY <1>1, AdmittedIsClear DEF Checks
<1>3. \A k : Foreseen("ton_iot_fridge_telemetry", k, Key(r, k))
  BY <1>1, AdmittedIsClear
<1>4. /\ Key(r, "temp_condition") \notin Empty /\ Key(r, "type") \notin Empty
      /\ Key(r, "label").kind = "bit" /\ Key(r, "fridge_temperature").kind \in Numbers
      /\ Key(r, "date").kind = "day" /\ Key(r, "time").kind = "clock"
  BY <1>2 DEF Valid
<1>5. Key(r, "label") \notin Empty
  BY <1>4 DEF Empty, Absent, Value
<1> QED BY <1>3, <1>4, <1>5, RowReadings DEF TonIotFridgeTelemetry, Event, Refuse

LEMMA TonIotTelemetryAgrees ==
    ASSUME NEW r, Admitted("ton_iot_telemetry", r)
    PROVE  TonIotTelemetry(r).reasons = {}
<1>1. "ton_iot_telemetry" \in Sources
  BY DEF Sources, Checks
<1>2. Valid("timestamp", Key(r, "ts")) /\ Valid("nonempty", Key(r, "type"))
  BY <1>1, AdmittedIsClear DEF Checks
<1>3. \A k : Foreseen("ton_iot_telemetry", k, Key(r, k))
  BY <1>1, AdmittedIsClear
<1>4. Key(r, "type") \notin Empty
  BY <1>2 DEF Valid
<1>5. Time(Key(r, "ts"), TRUE) = {} /\ Name(Key(r, "type")) = {}
  BY <1>2, <1>3, <1>4, RowReadings
<1>6. DeviceTypeToken(Key(r, "type")) = {}
  <2>1. Foreseen("ton_iot_telemetry", "type", Key(r, "type"))
    BY <1>3
  <2> QED BY <2>1 DEF Foreseen, TooLong, DeviceTypeToken, Schema, Refuse
<1> QED BY <1>5, <1>6 DEF TonIotTelemetry, Event

\* What stands for a list of names is absent or stands under one of them.
LEMMA GetOneOf ==
    ASSUME NEW r, NEW aliases, Len(aliases) \in Nat
    PROVE  \/ Get(r, aliases) = Absent
           \/ \E i \in 1..Len(aliases) : Get(r, aliases) = Key(r, aliases[i])
BY GetOrigin

LEMMA NetworkAgrees ==
    ASSUME NEW source \in Sources, NEW r, Admitted(source, r)
    PROVE  Network(r) = {}
<1> DEFINE names == <<"protocol", "proto", "protocol_type">>
<1>1. Len(names) = 3 /\ names[1] = "protocol" /\ names[2] = "proto" /\ names[3] = "protocol_type"
  OBVIOUS
<1>2. Protocol(Absent) = {}
  BY AbsentIsForeseen, Readings
<1>3. \A k \in {"protocol", "proto", "protocol_type"} : Protocol(Key(r, k)) = {}
  BY AdmittedIsClear, RowReadings
<1>4. Network(r) = Protocol(Get(r, names))
  BY DEF Network
<1> HIDE DEF names
<1>5. CASE \E i \in 1..Len(names) : Get(r, names) = Key(r, names[i])
  <2>1. PICK i \in 1..3 : Get(r, names) = Key(r, names[i])
    BY <1>1, <1>5
  <2>2. names[i] \in {"protocol", "proto", "protocol_type"}
    BY <1>1, <2>1
  <2> QED BY <1>3, <1>4, <2>1, <2>2
<1> QED BY <1>1, <1>2, <1>4, <1>5, GetOneOf

LEMMA SimulatedAgrees ==
    ASSUME NEW source \in {"simulated", "simulation"}, NEW r, Admitted(source, r)
    PROVE  Simulated(r).reasons = {}
<1>1. source \in Sources /\ Checks[source] = Simulation
  BY DEF Sources, Checks
<1>2. /\ Valid("timestamp", Key(r, "timestamp"))
      /\ Valid("nonempty", Key(r, "device_id")) /\ Valid("nonempty", Key(r, "event_type"))
  BY <1>1, AdmittedIsClear DEF Simulation
<1>3. \A k : Foreseen(source, k, Key(r, k))
  BY <1>1, AdmittedIsClear
<1>4. Key(r, "device_id") \notin Empty /\ Key(r, "event_type") \notin Empty
  BY <1>2 DEF Valid
<1>5. Refuse(Key(r, "event_type").token = 0, "INVALID_EVENT_TYPE") = {}
  BY DEF Admitted, Unforeseen, Refuse
<1>6. Network(r) = {}
  BY <1>1, NetworkAgrees
<1> QED BY <1>2, <1>3, <1>4, <1>5, <1>6, RowReadings DEF Simulated, Event

LEMMA TonIotNetworkAgrees ==
    ASSUME NEW r, Admitted("ton_iot_network", r)
    PROVE  TonIotNetwork(r).reasons = {}
<1>1. "ton_iot_network" \in Sources
  BY DEF Sources, Checks
<1>2. /\ Valid("timestamp", Key(r, "ts")) /\ Valid("ip", Key(r, "src_ip"))
      /\ Valid("ip", Key(r, "dst_ip")) /\ Valid("nonempty", Key(r, "label"))
  BY <1>1, AdmittedIsClear DEF Checks
<1>3. \A k : Foreseen("ton_iot_network", k, Key(r, k))
  BY <1>1, AdmittedIsClear
<1>4. Key(r, "label") \notin Empty /\ RequiredIp(Key(r, "src_ip")) = {} /\ RequiredIp(Key(r, "dst_ip")) = {}
  BY <1>2 DEF Valid, RequiredIp, Refuse
<1>5. Network(r) = {}
  BY <1>1, NetworkAgrees
<1> QED BY <1>2, <1>3, <1>4, <1>5, RowReadings DEF TonIotNetwork, Event

\* Where the time is optional, an unreadable one is unforeseen.
LEMMA OptionalTimeAgrees ==
    ASSUME NEW source \in {"ciciot2023_network", "generic"}, NEW r, Admitted(source, r)
    PROVE  Time(Get(r, <<"timestamp", "ts", "time">>), FALSE) = {}
<1> DEFINE names == <<"timestamp", "ts", "time">>
<1>1. Len(names) = 3 /\ names[1] = "timestamp" /\ names[2] = "ts" /\ names[3] = "time"
  OBVIOUS
<1>2. \A k \in {"timestamp", "ts", "time"} : Key(r, k) \in Empty \/ Key(r, k).kind \in Dated
  BY DEF Admitted, Unforeseen
<1>3. source \in Sources
  BY DEF Sources, Checks
<1>4. \A k \in {"timestamp", "ts", "time"} : Time(Key(r, k), FALSE) = {}
  BY <1>2, <1>3, AdmittedIsClear, Readings
<1>5. Time(Absent, FALSE) = {}
  BY AbsentIsForeseen, Readings DEF Empty
<1> HIDE DEF names
<1>6. ASSUME \E i \in 1..Len(names) : Get(r, names) = Key(r, names[i])
      PROVE  Time(Get(r, names), FALSE) = {}
  <2>1. PICK i \in 1..3 : Get(r, names) = Key(r, names[i])
    BY <1>1, <1>6
  <2>2. names[i] \in {"timestamp", "ts", "time"}
    BY <1>1, <2>1
  <2> QED BY <1>4, <2>1, <2>2
<1>7. Time(Get(r, names), FALSE) = {}
  <2>1. Get(r, names) = Absent \/ \E i \in 1..Len(names) : Get(r, names) = Key(r, names[i])
    BY <1>1, GetOneOf
  <2>2. CASE Get(r, names) = Absent
    BY <1>5, <2>2
  <2> QED BY <1>6, <2>1, <2>2
<1> USE DEF names
<1> QED BY <1>7

LEMMA CicIot2023NetworkAgrees ==
    ASSUME NEW r, Admitted("ciciot2023_network", r)
    PROVE  CicIot2023Network(r).reasons = {}
<1>1. "ciciot2023_network" \in Sources
  BY DEF Sources, Checks
<1>2. /\ Valid("quantity", Key(r, "flow_duration")) /\ Valid("quantity", Key(r, "protocol_type"))
      /\ Valid("nonempty", Key(r, "label"))
  BY <1>1, AdmittedIsClear DEF Checks
<1>3. \A k : Foreseen("ciciot2023_network", k, Key(r, k))
  BY <1>1, AdmittedIsClear
<1>4. /\ Key(r, "flow_duration") \notin Empty /\ Key(r, "protocol_type") \notin Empty
      /\ Key(r, "label") \notin Empty
  <2>1. Key(r, "flow_duration") \notin Empty
    BY <1>2, ValidIsThere DEF Validators
  <2>2. Key(r, "protocol_type") \notin Empty
    BY <1>2, ValidIsThere DEF Validators
  <2> QED BY <1>2, <2>1, <2>2 DEF Valid
<1>5. Network(r) = {} /\ Time(Get(r, <<"timestamp", "ts", "time">>), FALSE) = {}
  BY <1>1, NetworkAgrees, OptionalTimeAgrees
<1> QED BY <1>3, <1>4, <1>5, RowReadings DEF CicIot2023Network, Event

LEMMA HaiIcsBlindAgrees ==
    ASSUME NEW r, Admitted("hai_ics_blind", r)
    PROVE  HaiIcsBlind(r).reasons = {}
<1>1. "hai_ics_blind" \in Sources
  BY DEF Sources, Checks
<1>2. Valid("timestamp", Key(r, "timestamp")) /\ Valid("nonempty", Key(r, "device_id"))
  BY <1>1, AdmittedIsClear DEF Checks
<1>3. \A k : Foreseen("hai_ics_blind", k, Key(r, k))
  BY <1>1, AdmittedIsClear
<1>4. Key(r, "device_id") \notin Empty
  BY <1>2 DEF Valid
<1> DEFINE attributes == Attributes(r, HaiContext)
<1>5. \E k \in attributes : Key(r, k).kind \in Metrics
  <2>1. PICK c \in DOMAIN r : r[c].kind \in Metrics /\ c.key \notin HaiContext
    BY DEF Admitted, Unforeseen
  <2>2. Key(r, c.key) = r[c]
    BY <1>1, AdmittedIsClear, KeyIsCell DEF Admitted
  <2>3. c.key \in attributes
    BY <2>1, <2>2 DEF Attributes, Keys, Metrics, Numbers
  <2> QED BY <2>1, <2>2, <2>3
<1>6. Refuse(\A k \in attributes : Key(r, k).kind \notin Metrics, "TELEMETRY_METRIC_REQUIRED") = {}
  BY <1>5 DEF Refuse
<1> HIDE DEF attributes
<1>7. HaiIcsBlind(r).reasons =
         Time(Key(r, "timestamp"), TRUE) \cup Name(Key(r, "device_id")) \cup DeviceType(Key(r, "device_type"))
           \cup Refuse(\A k \in attributes : Key(r, k).kind \notin Metrics, "TELEMETRY_METRIC_REQUIRED")
  BY DEF HaiIcsBlind, Event, attributes
<1> QED BY <1>2, <1>3, <1>4, <1>6, <1>7, RowReadings

LEMMA Iot23ZeekBlindAgrees ==
    ASSUME NEW r, Admitted("iot23_zeek_blind", r)
    PROVE  Iot23ZeekBlind(r).reasons = {}
<1>1. "iot23_zeek_blind" \in Sources
  BY DEF Sources, Checks
<1>2. /\ Valid("timestamp", Key(r, "ts")) /\ Valid("ip", Key(r, "id_orig_h"))
      /\ Valid("ip", Key(r, "id_resp_h")) /\ Valid("nonempty", Key(r, "device_id"))
  BY <1>1, AdmittedIsClear DEF Checks
<1>3. \A k : Foreseen("iot23_zeek_blind", k, Key(r, k))
  BY <1>1, AdmittedIsClear
<1>4. /\ Key(r, "device_id") \notin Empty
      /\ RequiredIp(Key(r, "id_orig_h")) = {} /\ RequiredIp(Key(r, "id_resp_h")) = {}
  BY <1>2 DEF Valid, RequiredIp, Refuse
<1> QED BY <1>2, <1>3, <1>4, RowReadings DEF Iot23ZeekBlind, Event

LEMMA FirstAlias ==
    ASSUME NEW r, NEW aliases, Len(aliases) \in Nat \ {0}, aliases[1] \in Keys(r)
    PROVE  Get(r, aliases) = Key(r, aliases[1])
<1>1. 1 \in 1..Len(aliases)
  OBVIOUS
<1>2. PICK i \in 1..Len(aliases) : Get(r, aliases) = Key(r, aliases[i])
                                     /\ \A j \in 1..(i - 1) : aliases[j] \notin Keys(r)
  BY <1>1, GetOrigin
<1>3. i = 1
  <2>1. i > 1 => 1 \in 1..(i - 1)
    BY <1>2
  <2> QED BY <1>2, <2>1
<1> QED BY <1>2, <1>3

\* A row of generic says something: in a column of its own, or under the first
\* alias of a time, a type, a device or a label.
LEMMA GenericIsNotEmpty ==
    ASSUME NEW r, Admitted("generic", r),
           Attributes(r, {"timestamp", "ts", "time", "event_type", "type", "device_id", "device", "label"}) = {}
    PROVE  \E a \in {<<"timestamp", "ts", "time">>, <<"event_type", "type">>, <<"device_id", "device">>, <<"label">>} :
             Get(r, a) \notin Empty
<1>1. "generic" \in Sources
  BY DEF Sources, Checks
<1>2. PICK c \in DOMAIN r : r[c] \notin Empty /\ r[c].kind # "nested" /\ c.key \notin {"ts", "time", "type", "device"}
  BY DEF Admitted, Unforeseen
<1>3. Key(r, c.key) = r[c] /\ c.key \in Keys(r)
  BY <1>1, AdmittedIsClear, KeyIsCell DEF Admitted, Keys
<1>4. c.key \in {"timestamp", "event_type", "device_id", "label"}
  BY <1>2, <1>3 DEF Attributes
<1>5. CASE c.key = "timestamp"
  <2>1. Get(r, <<"timestamp", "ts", "time">>) = Key(r, "timestamp")
    BY <1>3, <1>5, FirstAlias
  <2> QED BY <1>2, <1>3, <1>5, <2>1
<1>6. CASE c.key = "event_type"
  <2>1. Get(r, <<"event_type", "type">>) = Key(r, "event_type")
    BY <1>3, <1>6, FirstAlias
  <2> QED BY <1>2, <1>3, <1>6, <2>1
<1>7. CASE c.key = "device_id"
  <2>1. Get(r, <<"device_id", "device">>) = Key(r, "device_id")
    BY <1>3, <1>7, FirstAlias
  <2> QED BY <1>2, <1>3, <1>7, <2>1
<1>8. CASE c.key = "label"
  <2>1. Get(r, <<"label">>) = Key(r, "label")
    BY <1>3, <1>8, FirstAlias
  <2> QED BY <1>2, <1>3, <1>8, <2>1
<1> QED BY <1>4, <1>5, <1>6, <1>7, <1>8

LEMMA GenericAgrees ==
    ASSUME NEW r, Admitted("generic", r)
    PROVE  Generic(r).reasons = {}
<1> DEFINE attributes ==
             Attributes(r, {"timestamp", "ts", "time", "event_type", "type", "device_id", "device", "label"})
           meaningful ==
             {<<"timestamp", "ts", "time">>, <<"event_type", "type">>, <<"device_id", "device">>, <<"label">>}
           silent == attributes = {} /\ \A a \in meaningful : Get(r, a) \in Empty
<1>1. "generic" \in Sources
  BY DEF Sources, Checks
<1>2. Token(Get(r, <<"event_type", "type">>)) = {}
  <2> DEFINE names == <<"event_type", "type">>
  <2>1. Len(names) = 2 /\ names[1] = "event_type" /\ names[2] = "type"
    OBVIOUS
  <2>2. Token(Absent) = {}
    BY AbsentIsForeseen, Readings
  <2>3. Token(Key(r, "event_type")) = {} /\ Token(Key(r, "type")) = {}
    BY <1>1, AdmittedIsClear, RowReadings
  <2> HIDE DEF names
  <2>4. ASSUME \E i \in 1..Len(names) : Get(r, names) = Key(r, names[i])
        PROVE  Token(Get(r, names)) = {}
    <3>1. PICK i \in 1..2 : Get(r, names) = Key(r, names[i])
      BY <2>1, <2>4
    <3> QED BY <2>1, <2>3, <3>1
  <2>5. Token(Get(r, names)) = {}
    BY <2>1, <2>2, <2>4, GetOneOf
  <2> USE DEF names
  <2> QED BY <2>5
<1>3. Time(Get(r, <<"timestamp", "ts", "time">>), FALSE) = {}
  BY OptionalTimeAgrees
<1>4. ~silent
  BY GenericIsNotEmpty
<1>5. Generic(r).reasons =
         Time(Get(r, <<"timestamp", "ts", "time">>), FALSE) \cup Token(Get(r, <<"event_type", "type">>))
           \cup Refuse(silent, "EMPTY_CANONICAL_RECORD")
  BY DEF Generic, Event
<1> HIDE DEF silent
<1> QED BY <1>2, <1>3, <1>4, <1>5 DEF Refuse

LEMMA LiveTelemetryAgrees ==
    ASSUME NEW r, IsRow(r), Wellformed(r), ~Unforeseen("live_telemetry", r)
    PROVE  LiveTelemetry(r).reasons = {}
<1>1. \A k : Foreseen("live_telemetry", k, Key(r, k))
  BY ForeseenKey
<1>2. /\ Key(r, "observed_at").kind = "iso"
      /\ Key(r, "device_id").kind = "text" /\ Key(r, "event_type").kind = "text"
      /\ Key(r, "event_type").token \in 1..14
  BY DEF Wellformed
<1>3. Key(r, "device_id") \notin Empty /\ Key(r, "event_type") \notin Empty
  BY <1>2 DEF Empty, Absent, Value
<1>4. Time(Key(r, "observed_at"), TRUE) = {}
  BY <1>2 DEF Time, Refuse, Dated, Empty, Absent, Value
<1>5. Refuse(Key(r, "event_type").token = 0, "INVALID_EVENT_TYPE") = {}
  BY <1>2 DEF Refuse
<1>6. /\ Name(Key(r, "device_id")) = {} /\ Name(Key(r, "event_type")) = {}
      /\ Token(Key(r, "event_type")) = {} /\ Token(Key(r, "action")) = {} /\ Token(Key(r, "outcome")) = {}
  BY <1>1, <1>3, RowReadings
<1> QED BY <1>4, <1>5, <1>6 DEF LiveTelemetry, Event

\* The profiles and the adapters agree: whatever the source, a row its profile
\* accepted is normalized, unless it is unforeseen in a way that is named.
THEOREM ProfilesAgreeWithAdapters ==
    \A source \in Sources : \A r : IsRow(r) /\ RowValid(source, r) /\ ~Unforeseen(source, r)
                                     => Normalizes(source, r)
<1> SUFFICES ASSUME NEW source \in Sources, NEW r, Admitted(source, r)
             PROVE  ~Ambiguous(r) /\ Adapter(source, r).reasons = {}
  BY DEF Admitted, Normalizes
<1>1. ~Ambiguous(r)
  BY AdmittedIsClear
<1>2. CASE source = "casas"
  <2>1. Adapter(source, r) = Casas(r)
    BY <1>2 DEF Adapter
  <2> QED BY <1>1, <1>2, <2>1, CasasAgrees
<1>3. CASE source = "casas_smart_home"
  <2>1. Adapter(source, r) = CasasSmartHome(r)
    BY <1>3 DEF Adapter
  <2> QED BY <1>1, <1>3, <2>1, CasasSmartHomeAgrees
<1>4. CASE source = "ton_iot_fridge_telemetry"
  <2>1. Adapter(source, r) = TonIotFridgeTelemetry(r)
    BY <1>4 DEF Adapter
  <2> QED BY <1>1, <1>4, <2>1, TonIotFridgeTelemetryAgrees
<1>5. CASE source = "ton_iot_telemetry"
  <2>1. Adapter(source, r) = TonIotTelemetry(r)
    BY <1>5 DEF Adapter
  <2> QED BY <1>1, <1>5, <2>1, TonIotTelemetryAgrees
<1>6. CASE source \in {"simulated", "simulation"}
  <2>1. Adapter(source, r) = Simulated(r)
    BY <1>6 DEF Adapter
  <2> QED BY <1>1, <1>6, <2>1, SimulatedAgrees
<1>7. CASE source = "ton_iot_network"
  <2>1. Adapter(source, r) = TonIotNetwork(r)
    BY <1>7 DEF Adapter
  <2> QED BY <1>1, <1>7, <2>1, TonIotNetworkAgrees
<1>8. CASE source = "ciciot2023_network"
  <2>1. Adapter(source, r) = CicIot2023Network(r)
    BY <1>8 DEF Adapter
  <2> QED BY <1>1, <1>8, <2>1, CicIot2023NetworkAgrees
<1>9. CASE source = "generic"
  <2>1. Adapter(source, r) = Generic(r)
    BY <1>9 DEF Adapter
  <2> QED BY <1>1, <1>9, <2>1, GenericAgrees
<1>10. CASE source = "hai_ics_blind"
  <2>1. Adapter(source, r) = HaiIcsBlind(r)
    BY <1>10 DEF Adapter
  <2> QED BY <1>1, <1>10, <2>1, HaiIcsBlindAgrees
<1>11. CASE source = "iot23_zeek_blind"
  <2>1. Adapter(source, r) = Iot23ZeekBlind(r)
    BY <1>11 DEF Adapter
  <2> QED BY <1>1, <1>11, <2>1, Iot23ZeekBlindAgrees
<1>12. source \in {"casas", "casas_smart_home", "ton_iot_fridge_telemetry", "ton_iot_telemetry", "simulated",
                   "simulation", "ton_iot_network", "ciciot2023_network", "generic", "hai_ics_blind",
                   "iot23_zeek_blind"}
  BY DEF Sources, Checks
<1> QED BY <1>1, <1>2, <1>3, <1>4, <1>5, <1>6, <1>7, <1>8, <1>9, <1>10, <1>11, <1>12

-----------------------------------------------------------------------------
(* From upload to commit. *)

LEMMA FilesHaveRows ==
    ASSUME NEW f \in Files
    PROVE  f.source \in Sources /\ \A i \in DOMAIN f.rows : IsRow(f.rows[i])
BY FileConstants DEF Range

LEMMA PostsHaveARow ==
    ASSUME NEW f \in Posts
    PROVE  f.source = "live_telemetry" /\ 1 \in DOMAIN f.rows /\ IsRow(f.rows[1])
<1>1. f.source = "live_telemetry" /\ f.rows \in Seq(Range(f.rows)) /\ Len(f.rows) = 1
  BY FileConstants
<1>2. 1 \in DOMAIN f.rows
  BY <1>1
<1>3. IsRow(f.rows[1])
  BY <1>2, FileConstants DEF Range
<1> QED BY <1>1, <1>2, <1>3

\* A row without the exact forbidden columns makes an event without the answers.
LEMMA BlindEvent ==
    ASSUME NEW source \in {"hai_ics_blind", "iot23_zeek_blind"}, NEW r, IsRow(r),
           \A k \in Forbidden(source) : Column(k, TRUE) \notin DOMAIN r
    PROVE  /\ Adapter(source, r).label = Absent
           /\ \A k \in Adapter(source, r).attributes \cap Forbidden(source) : Column(k, FALSE) \in DOMAIN r
<1>1. ASSUME NEW k \in Keys(r), k \in Forbidden(source)
      PROVE  Column(k, FALSE) \in DOMAIN r
  <2>1. PICK c \in DOMAIN r : c.key = k
    BY <1>1 DEF Keys
  <2>2. c = Column(k, TRUE) \/ c = Column(k, FALSE)
    BY <2>1 DEF IsRow
  <2> QED BY <1>1, <2>1, <2>2
<1>2. CASE source = "hai_ics_blind"
  <2>1. Adapter(source, r) = HaiIcsBlind(r)
    BY <1>2 DEF Adapter
  <2>2. HaiIcsBlind(r).label = Absent /\ HaiIcsBlind(r).attributes \subseteq Keys(r)
    BY DEF HaiIcsBlind, Event, Attributes
  <2> QED BY <1>1, <2>1, <2>2
<1>3. CASE source = "iot23_zeek_blind"
  <2>1. Adapter(source, r) = Iot23ZeekBlind(r)
    BY <1>3 DEF Adapter
  <2>2. /\ Iot23ZeekBlind(r).label = Absent
        /\ Iot23ZeekBlind(r).attributes \subseteq Keys(r) \cup {"duration", "service", "zeek_uid"}
    BY DEF Iot23ZeekBlind, Event, Attributes
  <2>3. Forbidden(source) \cap {"duration", "service", "zeek_uid"} = {}
    BY <1>3 DEF Forbidden
  <2> QED BY <1>1, <2>1, <2>2, <2>3
<1> QED BY <1>2, <1>3

\* A commit makes an event of each accepted row, or none of any.
Recorded == {"completed", "partial_success"}
AllOrNothing ==
    /\ stage \in Recorded /\ file \in Files => {e.row : e \in events} = Accepted(file)
    /\ stage \notin Recorded => events = {}

\* Where a file or a message can be, and what is known of it there: only a file
\* that had no error waits for its commit, only a wellformed message is queued.
StagesFollow ==
    /\ \/ file \in Files /\ stage \in Recorded \cup {"uploaded", "rejected", "awaiting_commit", "failed"}
       \/ file \in Posts /\ stage \in {"posted", "queued", "refused", "completed", "failed"}
    /\ stage = "awaiting_commit" => ~FileErrors(file)
    /\ stage = "queued" => Wellformed(file.rows[1])

RecordsInv == StagesFollow /\ AllOrNothing /\ AcceptedNormalizes /\ BlindStaysBlind

LEMMA SourcesAreNotLive == "live_telemetry" \notin Sources
BY DEF Sources, Checks

\* The handoff stops no row: every accepted one is sealed for the import's id.
Sealed(accepted) == {Resealed(Handoff("again", i), "first") : i \in accepted}

LEMMA HandoffKeepsTheRows ==
    ASSUME NEW accepted
    PROVE  /\ \A h \in Sealed(accepted) : Authorized(h, "first") /\ h.row \in accepted
           /\ \A i \in accepted : \E h \in Sealed(accepted) : h.row = i
<1>1. ASSUME NEW i
      PROVE  /\ Resealed(Handoff("again", i), "first").row = i
             /\ Authorized(Resealed(Handoff("again", i), "first"), "first")
  <2>1. Handoff("again", i) = [evidence |-> "again", row |-> i, seal |-> Seal("again", i)]
    BY DEF Handoff
  <2> DEFINE h == Handoff("again", i)
  <2>2. /\ DOMAIN h = {"evidence", "row", "seal"}
        /\ h.row = i
    BY <2>1
  <2> HIDE DEF h
  <2>3. /\ Resealed(h, "first").row = i /\ Resealed(h, "first").evidence = "first"
        /\ Resealed(h, "first").seal = Seal("first", i)
    BY <2>2 DEF Resealed
  <2> USE DEF h
  <2> QED BY <2>3 DEF Authorized
<1> QED BY <1>1 DEF Sealed

\* The two outcomes of a commit.
LEMMA CommitOutcomes ==
    ASSUME Commit
    PROVE  \/ /\ {e.row : e \in events'} = Accepted(file)
              /\ events' = {EventOf(file.source, i) : i \in Accepted(file)}
              /\ stage' \in Recorded
           \/ /\ \E i \in Accepted(file) : ~Normalizes(file.source, file.rows[i])
              /\ stage' = "failed" /\ events' = events
<1> DEFINE rows == Sealed(Accepted(file))
           kept == {h \in rows : Authorized(h, "first") /\ Normalizes(file.source, file.rows[h.row])}
<1>1. IF kept = rows
      THEN events' = {EventOf(file.source, h.row) : h \in rows} /\ stage' \in Recorded
      ELSE stage' = "failed" /\ events' = events
  BY DEF Commit, Sealed, Recorded
<1>2. CASE kept = rows
  <2>1. events' = {EventOf(file.source, h.row) : h \in rows}
    BY <1>1, <1>2
  <2>2. events' = {EventOf(file.source, i) : i \in Accepted(file)}
    BY <2>1, HandoffKeepsTheRows
  <2>3. {e.row : e \in events'} = Accepted(file)
    <3>1. \A i : EventOf(file.source, i).row = i
      BY DEF EventOf
    <3> QED BY <2>2, <3>1
  <2> QED BY <1>1, <1>2, <2>2, <2>3
<1>3. CASE kept # rows
  <2>1. \E h \in rows : ~Normalizes(file.source, file.rows[h.row])
    BY <1>3, HandoffKeepsTheRows
  <2> QED BY <1>1, <1>3, <2>1, HandoffKeepsTheRows
<1> QED BY <1>2, <1>3

-----------------------------------------------------------------------------
(* The inductive invariant. *)

LEMMA InitRecords == Init => RecordsInv
BY DEF Init, RecordsInv, StagesFollow, AllOrNothing, AcceptedNormalizes, BlindStaysBlind, Recorded

LEMMA ValidateKeepsRecords ==
    ASSUME RecordsInv, Validate
    PROVE  RecordsInv'
<1>1. stage = "uploaded" /\ UNCHANGED <<file, events>> /\ stage' \in {"rejected", "awaiting_commit"}
  BY DEF Validate
<1>2. file \in Files /\ events = {}
  <2>1. stage \notin {"posted", "queued", "refused"} \cup Recorded \cup {"failed"}
    BY <1>1 DEF Recorded
  <2> QED BY <1>1, <2>1 DEF RecordsInv, StagesFollow, AllOrNothing
<1>3. stage' = "awaiting_commit" => ~FileErrors(file)
  <2>1. ASSUME stage' = "awaiting_commit" PROVE Status(file) # "rejected"
    BY <2>1 DEF Validate
  <2>2. Status(file) # "rejected" => Accepted(file) # {}
    BY DEF Status
  <2> QED BY <2>1, <2>2 DEF Accepted
<1>4. StagesFollow'
  BY <1>1, <1>2, <1>3 DEF StagesFollow, FileErrors, Readable, ColumnsMissing, ColumnsForbidden, ColumnsOf
<1>5. AllOrNothing'
  BY <1>1, <1>2 DEF AllOrNothing, Recorded
<1>6. AcceptedNormalizes' /\ BlindStaysBlind'
  BY <1>1, <1>2 DEF AcceptedNormalizes, BlindStaysBlind
<1> QED BY <1>4, <1>5, <1>6 DEF RecordsInv

LEMMA SubmitKeepsRecords ==
    ASSUME RecordsInv, Submit
    PROVE  RecordsInv'
<1>1. stage = "posted" /\ UNCHANGED <<file, events>> /\ stage' \in {"queued", "refused"}
      /\ (stage' = "queued" => Wellformed(file.rows[1]))
  BY DEF Submit
<1>2. file \in Posts /\ events = {}
  <2>1. stage \notin {"uploaded", "rejected", "awaiting_commit", "failed"} \cup Recorded
    BY <1>1 DEF Recorded
  <2> QED BY <1>1, <2>1 DEF RecordsInv, StagesFollow, AllOrNothing
<1>3. StagesFollow'
  BY <1>1, <1>2 DEF StagesFollow, Wellformed, Key, Keys
<1>4. AllOrNothing'
  BY <1>1, <1>2 DEF AllOrNothing, Recorded
<1>5. AcceptedNormalizes' /\ BlindStaysBlind'
  BY <1>1, <1>2 DEF AcceptedNormalizes, BlindStaysBlind
<1> QED BY <1>3, <1>4, <1>5 DEF RecordsInv

\* A commit fails only for an accepted row the adapter refused, which is
\* unforeseen; what it records of a blind file has no answers in it.
LEMMA CommitKeepsRecords ==
    ASSUME RecordsInv, Commit
    PROVE  RecordsInv'
<1>1. stage = "awaiting_commit" /\ file' = file
  BY DEF Commit
<1>2. file \in Files /\ ~FileErrors(file) /\ events = {}
  <2>1. stage \notin {"posted", "queued", "refused"} \cup Recorded \cup {"failed"}
    BY <1>1 DEF Recorded
  <2> QED BY <1>1, <2>1 DEF RecordsInv, StagesFollow, AllOrNothing
<1>3. file.source \in Sources /\ \A i \in DOMAIN file.rows : IsRow(file.rows[i])
  BY <1>2, FilesHaveRows
<1>4. \A i \in Accepted(file) : i \in DOMAIN file.rows /\ RowValid(file.source, file.rows[i])
  BY <1>2 DEF Accepted
<1>5. CASE /\ {e.row : e \in events'} = Accepted(file)
           /\ events' = {EventOf(file.source, i) : i \in Accepted(file)}
           /\ stage' \in Recorded
  <2>1. StagesFollow'
    BY <1>1, <1>2, <1>5 DEF StagesFollow, Recorded
  <2>2. AllOrNothing'
    <3>1. Accepted(file)' = Accepted(file)
      BY <1>1 DEF Accepted, FileErrors, Readable, ColumnsMissing, ColumnsForbidden, ColumnsOf, RowValid, Cell
    <3>2. {e.row : e \in events'} = Accepted(file)
      BY <1>5
    <3> QED BY <1>5, <3>1, <3>2 DEF AllOrNothing
  <2>3. AcceptedNormalizes'
    BY <1>5 DEF AcceptedNormalizes, Recorded
  <2>4. BlindStaysBlind'
    <3> SUFFICES ASSUME NEW e \in events', file.source \in {"hai_ics_blind", "iot23_zeek_blind"}
                 PROVE  /\ e.label = Absent
                        /\ \A k \in e.attributes \cap Forbidden(file.source) :
                             Column(k, FALSE) \in DOMAIN file.rows[e.row]
      BY <1>1 DEF BlindStaysBlind
    <3>1. PICK i \in Accepted(file) : e = EventOf(file.source, i)
      BY <1>5
    <3> DEFINE r == file.rows[i]
    <3>2. IsRow(r)
      BY <1>3, <1>4
    <3>3. \A k \in Forbidden(file.source) : Column(k, TRUE) \notin DOMAIN r
      BY <1>2, <1>4 DEF FileErrors, ColumnsForbidden, ColumnsOf
    <3>4. e.row = i /\ e.label = Adapter(file.source, r).label /\ e.attributes = Adapter(file.source, r).attributes
      BY <3>1 DEF EventOf
    <3> HIDE DEF r
    <3>5. /\ Adapter(file.source, r).label = Absent
          /\ \A k \in Adapter(file.source, r).attributes \cap Forbidden(file.source) : Column(k, FALSE) \in DOMAIN r
      BY <3>2, <3>3, BlindEvent
    <3> QED BY <3>4, <3>5 DEF r
  <2> QED BY <2>1, <2>2, <2>3, <2>4 DEF RecordsInv
<1>6. CASE /\ \E i \in Accepted(file) : ~Normalizes(file.source, file.rows[i])
           /\ stage' = "failed" /\ events' = events
  <2>1. StagesFollow'
    BY <1>1, <1>2, <1>6 DEF StagesFollow
  <2>2. AllOrNothing' /\ BlindStaysBlind'
    BY <1>2, <1>6 DEF AllOrNothing, BlindStaysBlind, Recorded
  <2>3. PICK i \in Accepted(file) : ~Normalizes(file.source, file.rows[i])
    BY <1>6
  <2>4. Unforeseen(file.source, file.rows[i])
    BY <1>3, <1>4, <2>3, ProfilesAgreeWithAdapters
  <2>5. \E j \in DOMAIN file.rows : Unforeseen(file.source, file.rows[j])
    BY <1>4, <2>4
  <2>6. AcceptedNormalizes'
    BY <1>1, <2>5 DEF AcceptedNormalizes
  <2> QED BY <2>1, <2>2, <2>6 DEF RecordsInv
<1> QED BY <1>5, <1>6, CommitOutcomes

LEMMA ProcessKeepsRecords ==
    ASSUME RecordsInv, Process
    PROVE  RecordsInv'
<1>1. stage = "queued" /\ file' = file
  BY DEF Process
<1>2. file \in Posts /\ events = {} /\ Wellformed(file.rows[1])
  <2>1. stage \notin {"uploaded", "rejected", "awaiting_commit", "failed"} \cup Recorded
    BY <1>1 DEF Recorded
  <2> QED BY <1>1, <2>1 DEF RecordsInv, StagesFollow, AllOrNothing
<1>3. file.source = "live_telemetry" /\ 1 \in DOMAIN file.rows /\ IsRow(file.rows[1])
  BY <1>2, PostsHaveARow
<1>4. file \notin Files
  BY <1>3, FilesHaveRows, SourcesAreNotLive
<1>5. CASE Normalizes("live_telemetry", file.rows[1])
  <2>1. stage' = "completed"
    BY <1>5 DEF Process
  <2>2. StagesFollow' /\ AllOrNothing'
    BY <1>1, <1>2, <1>4, <2>1 DEF StagesFollow, AllOrNothing, Recorded
  <2>3. AcceptedNormalizes' /\ BlindStaysBlind'
    BY <1>1, <1>3, <2>1 DEF AcceptedNormalizes, BlindStaysBlind
  <2> QED BY <2>2, <2>3 DEF RecordsInv
<1>6. CASE ~Normalizes("live_telemetry", file.rows[1])
  <2>1. stage' = "failed" /\ events' = events
    BY <1>6 DEF Process
  <2>2. StagesFollow' /\ AllOrNothing' /\ BlindStaysBlind'
    BY <1>1, <1>2, <2>1 DEF StagesFollow, AllOrNothing, BlindStaysBlind, Recorded
  <2>3. Adapter("live_telemetry", file.rows[1]) = LiveTelemetry(file.rows[1])
    BY DEF Adapter
  <2>4. Unforeseen("live_telemetry", file.rows[1])
    <3>1. Ambiguous(file.rows[1]) => Unforeseen("live_telemetry", file.rows[1])
      BY DEF Unforeseen
    <3> QED BY <1>2, <1>3, <1>6, <2>3, <3>1, LiveTelemetryAgrees DEF Normalizes
  <2>5. \E j \in DOMAIN file.rows : Unforeseen(file.source, file.rows[j])
    BY <1>3, <2>4
  <2>6. AcceptedNormalizes'
    BY <1>1, <2>5 DEF AcceptedNormalizes
  <2> QED BY <2>2, <2>6 DEF RecordsInv
<1> QED BY <1>5, <1>6

\* RecordsInv holds in every reachable state.
THEOREM RecordsInvariant == Spec => []RecordsInv
<1>1. Init => RecordsInv
  BY InitRecords
<1>2. RecordsInv /\ [Next]_vars => RecordsInv'
  <2> SUFFICES ASSUME RecordsInv, [Next]_vars
               PROVE  RecordsInv'
    OBVIOUS
  <2>1. CASE Validate
    BY <2>1, ValidateKeepsRecords
  <2>2. CASE Commit
    BY <2>2, CommitKeepsRecords
  <2>3. CASE Submit
    BY <2>3, SubmitKeepsRecords
  <2>4. CASE Process
    BY <2>4, ProcessKeepsRecords
  <2>5. CASE UNCHANGED vars
    <3>1. file' = file /\ stage' = stage /\ events' = events
      BY <2>5 DEF vars
    <3>2. StagesFollow' /\ AllOrNothing'
      BY <3>1 DEF RecordsInv, StagesFollow, AllOrNothing
    <3>3. AcceptedNormalizes' /\ BlindStaysBlind'
      BY <3>1 DEF RecordsInv, AcceptedNormalizes, BlindStaysBlind
    <3> QED BY <3>2, <3>3 DEF RecordsInv
  <2> QED BY <2>1, <2>2, <2>3, <2>4, <2>5 DEF Next
<1> QED BY <1>1, <1>2, PTL DEF Spec

\* A file whose validation succeeded is refused at its commit, and a live
\* message at its processing, only for a row that is unforeseen.
THEOREM AcceptedRowsNormalize == Spec => []AcceptedNormalizes
<1>1. RecordsInv => AcceptedNormalizes
  BY DEF RecordsInv
<1> QED BY <1>1, RecordsInvariant, PTL

\* No event of a blind file tells the answers.
THEOREM BlindFilesStayBlind == Spec => []BlindStaysBlind
<1>1. RecordsInv => BlindStaysBlind
  BY DEF RecordsInv
<1> QED BY <1>1, RecordsInvariant, PTL

\* A commit records an event of every row the validation accepted and of no
\* other, or it records nothing.
THEOREM CommitsAllOrNothing == Spec => []AllOrNothing
<1>1. RecordsInv => AllOrNothing
  BY DEF RecordsInv
<1> QED BY <1>1, RecordsInvariant, PTL
=============================================================================
