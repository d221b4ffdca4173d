----------------------------- MODULE Detection -----------------------------
(***************************************************************************)
(* The detectors of backend/app/analysis/detection.py, as functions of the *)
(* canonical events of a case.  A case is a sequence `es` in the order of  *)
(* stable_sort: an event is its position there, so the order among equal   *)
(* times (by event id) is the order of the sequence.  Events without a     *)
(* time stand first, which no detector notices: they look at timed events  *)
(* only, or group the untimed ones apart.                                  *)
(* Metric values are small integers, so that mean, deviation and median    *)
(* comparisons are exact; wording, condition traces and hashes are left    *)
(* out: a candidate is what its identifier is made from.                   *)
(***************************************************************************)
EXTENDS Integers, Sequences, FiniteSets, FiniteSetsExt

CONSTANTS
    Kinds,              \* what the sources of a case report: records, see MCCaseFindings
    None,               \* an absent field
    Untimed,            \* the observed time of an event that has none
    AuthThreshold, AuthWindow, RateMultiplier,
    MinSamples, MaxSamples, Sigma, MinimumDelta, ChangeMultiplier,
    NetWindow, FanoutThreshold, ScanThreshold, FailureThreshold,
    SupportLimit,       \* events a network finding keeps (512)
    CorrelationWindow, MaxSpan,
    MaxLabelled,        \* events of a label finding
    MaliciousLabels, BenignLabels, KnownClasses

ASSUME ConfigConstants ==
    /\ {AuthThreshold, FanoutThreshold, ScanThreshold, FailureThreshold, MinSamples, MaxSamples} \subseteq Nat \ {0, 1}
    /\ {AuthWindow, NetWindow, CorrelationWindow, MaxSpan, SupportLimit, MaxLabelled} \subseteq Nat \ {0}
    /\ MaxSamples >= MinSamples /\ MaxSpan >= CorrelationWindow
    /\ KnownClasses \in [DOMAIN KnownClasses -> 0..100]

Ids(es) == 1..Len(es)
At(es, i) == es[i].at
IsTimed(es, i) == At(es, i) # Untimed
\* The n latest of a set of events.
Newest(S, n) == {i \in S : Cardinality({j \in S : j > i}) < n}

PrimaryEntity(es, i) ==
    LET k == es[i].kind IN
    IF k.device # None THEN k.device ELSE IF k.target # None THEN k.target ELSE k.actor

Candidate(rule, entity, about, support, triggers, count) ==
    [rule |-> rule, entity |-> entity, about |-> about, events |-> support,
     triggers |-> triggers, count |-> count]

\* _candidate raises on a trigger that is not among the supporting events.
WellFormed(c) == c.triggers \subseteq c.events
----------------------------------------------------------------------------
\* What a scan of S in the order of `key` marks: the first item, then each that is apart from the one
\* marked last.
Marks(S, key, apart) ==
    CHOOSE marked \in SUBSET S :
       \A x \in S :
          LET before == {m \in marked : key[m] < key[x]} IN
          x \in marked <=> \A m \in before : (\A l \in before : key[l] <= key[m]) => x \in apart[m]

\* Sessions of items in the order of `key`, which is the order of `time`: a gap, a span or a full session
\* starts a new one.
Sessionize(S, key, time, full) ==
    LET Parts(x, y) == \/ \A z \in S : key[z] < key[y] => time[y] - time[z] > CorrelationWindow
                       \/ time[y] - time[x] > MaxSpan
                       \/ y \in full[x]
        heads == Marks(S, key, [x \in S |-> {y \in S : Parts(x, y)}])
    IN {{y \in S : /\ key[x] <= key[y]
                   /\ \A h \in heads : key[h] <= key[y] => key[h] <= key[x]} : x \in heads}

LabelMatches(es, i) ==
    LET k == es[i].kind IN
    CASE k.source = "ton" -> k.label = "1"
      [] k.source = "cic" -> k.label # None /\ k.label \notin BenignLabels
      [] OTHER            -> k.label \in MaliciousLabels

AttackClass(es, i) ==
    LET k == es[i].kind IN
    IF k.class # None THEN k.class
    ELSE IF k.sourceType # None THEN k.sourceType
    ELSE k.label

LabelKey(es, i) == <<es[i].kind.source, es[i].kind.evidence, PrimaryEntity(es, i), AttackClass(es, i)>>
LabelKeys(es) == {LabelKey(es, i) : i \in {j \in Ids(es) : LabelMatches(es, j)}}

\* The timed records of a key, and the others, which only the size of a session keeps apart.
LabelRecords(es, key, timed) ==
    {i \in Ids(es) : LabelMatches(es, i) /\ LabelKey(es, i) = key /\ IsTimed(es, i) = timed}
LabelSessions(es, key, timed) ==
    LET S == LabelRecords(es, key, timed) IN
    Sessionize(S, [i \in S |-> i], [i \in S |-> At(es, i)],
               [i \in S |-> {j \in S : Cardinality({l \in S : i <= l /\ l < j}) >= MaxLabelled}])

MaliciousLabel(es) ==
    UNION {{Candidate("LABEL-001", p[1][3], p[1][4], session, session, Cardinality(session)) :
               session \in LabelSessions(es, p[1], p[2])} : p \in LabelKeys(es) \X BOOLEAN}

RequestRate(es) ==
    {Candidate("RATE-001", PrimaryEntity(es, i), None, {i}, {i}, 1) :
        i \in {j \in Ids(es) : /\ es[j].kind.usual > 0
                               /\ es[j].kind.requests >= RateMultiplier * es[j].kind.usual}}
----------------------------------------------------------------------------
\* The events of a group up to i that are still inside the window at i.
Active(es, group, i, window) == {j \in group : j <= i /\ At(es, i) - At(es, j) <= window}

\* A rule that fired at i stays silent for a window.
SilencedForEver(es, i, j, window) == TRUE
Silenced(es, i, j, window) == At(es, j) - At(es, i) <= window

\* Those of the events that reach a threshold at which the rule fires.
Triggers(es, reached, window) ==
    Marks(reached, [i \in reached |-> i], [i \in reached |-> {j \in reached : ~Silenced(es, i, j, window)}])

IsAuthenticationFailure(es, i) ==
    LET k == es[i].kind IN
    \/ k.type \in {"authentication_failure", "login_failure"}
    \/ k.action = "authenticate" /\ k.outcome \in {"denied", "failure", "failed"}

AuthEntity(es, i) == IF es[i].kind.device # None THEN es[i].kind.device ELSE es[i].kind.target
AuthGrouped(es, i) ==
    /\ IsTimed(es, i) /\ IsAuthenticationFailure(es, i)
    /\ AuthEntity(es, i) # None /\ es[i].kind.actor # None
AuthKey(es, i) == <<AuthEntity(es, i), es[i].kind.actor>>
AuthGroup(es, i) == {j \in Ids(es) : AuthGrouped(es, j) /\ AuthKey(es, j) = AuthKey(es, i)}
AuthGroups(es) == {AuthGroup(es, i) : i \in {j \in Ids(es) : AuthGrouped(es, j)}}
AuthReached(es, group, i) == Cardinality(Active(es, group, i, AuthWindow)) >= AuthThreshold
AuthTriggers(es, group) == Triggers(es, {i \in group : AuthReached(es, group, i)}, AuthWindow)

AuthenticationFailures(es) ==
    UNION {{Candidate("AUTH-001", AuthEntity(es, i), es[i].kind.actor,
                      Newest(Active(es, group, i, AuthWindow), AuthThreshold), {i}, AuthThreshold) :
               i \in AuthTriggers(es, group)} : group \in AuthGroups(es)}
----------------------------------------------------------------------------
\* Network flows with a source address, by that address.
IsFlow(es, i) == es[i].kind.type = "network_flow" /\ IsTimed(es, i) /\ es[i].kind.src # None
FlowGroup(es, i) == {j \in Ids(es) : IsFlow(es, j) /\ es[j].kind.src = es[i].kind.src}
FlowGroups(es) == {FlowGroup(es, i) : i \in {j \in Ids(es) : IsFlow(es, j)}}

FailureStates == {"s0", "rej", "rsto", "rstr", "sh", "shr", "failed", "failure"}
Failures(es, active) == {i \in active : es[i].kind.outcome \in FailureStates}
Destinations(es, active) == {es[i].kind.dst : i \in active} \ {None}
Ports(es, active) ==
    {<<es[i].kind.dst, es[i].kind.port>> :
        i \in {j \in active : es[j].kind.dst # None /\ es[j].kind.port # None}}

NetworkRules == {"NET-FANOUT-001", "NET-PORTSCAN-001", "NET-FAILURE-001"}
Measured(es, rule, active) ==
    CASE rule = "NET-FANOUT-001"   -> Cardinality(Destinations(es, active))
      [] rule = "NET-PORTSCAN-001" -> Cardinality(Ports(es, active))
      [] rule = "NET-FAILURE-001"  -> Cardinality(Failures(es, active))
Threshold(rule) ==
    CASE rule = "NET-FANOUT-001"   -> FanoutThreshold
      [] rule = "NET-PORTSCAN-001" -> ScanThreshold
      [] rule = "NET-FAILURE-001"  -> FailureThreshold
NetReached(es, rule, group, i) == Measured(es, rule, Active(es, group, i, NetWindow)) >= Threshold(rule)
NetTriggers(es, rule, group) == Triggers(es, {i \in group : NetReached(es, rule, group, i)}, NetWindow)
Supporting(es, rule, active) ==
    Newest(IF rule = "NET-FAILURE-001" THEN Failures(es, active) ELSE active, SupportLimit)

NetworkBehaviors(es) ==
    UNION {{LET active == Active(es, p[2], i, NetWindow) IN
            Candidate(p[1], PrimaryEntity(es, i), es[i].kind.src, Supporting(es, p[1], active),
                      {i}, Measured(es, p[1], active)) :
               i \in NetTriggers(es, p[1], p[2])} : p \in NetworkRules \X FlowGroups(es)}
----------------------------------------------------------------------------
\* Telemetry streams: the timed samples of one metric of one entity.
Measures(es, i) ==
    IF IsTimed(es, i) /\ es[i].kind.type = "telemetry" /\ PrimaryEntity(es, i) # None
    THEN DOMAIN es[i].kind.metrics \ {"sequence"} ELSE {}
Streams(es) == UNION {{<<PrimaryEntity(es, i), m>> : m \in Measures(es, i)} : i \in Ids(es)}
Samples(es, stream) ==
    {i \in Ids(es) : stream[2] \in Measures(es, i) /\ PrimaryEntity(es, i) = stream[1]}
Value(es, stream, i) == es[i].kind.metrics[stream[2]]
Earlier(S, i) == {j \in S : j < i}

\* value > mean + max(MinimumDelta, Sigma * population deviation), without fractions.
Exceeds(value, values) ==
    LET n == Cardinality(DOMAIN values)
        total == SumFunction(values)
        excess == n * value - total
        squares == SumFunction([i \in DOMAIN values |-> values[i] * values[i]])
    IN excess > n * MinimumDelta /\ excess * excess > Sigma * Sigma * (n * squares - total * total)

\* The samples a sample is compared with: the latest before it.
HistoryLatest(S, i) == Newest(S \ {i}, MaxSamples)
History(S, i) == Newest(Earlier(S, i), MaxSamples)

Spikes(es, stream) ==
    LET S == Samples(es, stream) IN
    {i \in S : /\ Cardinality(Earlier(S, i)) >= MinSamples
               /\ Exceeds(Value(es, stream, i), [j \in History(S, i) |-> Value(es, stream, j)])}
BaselineSpikes(es) ==
    UNION {{Candidate("BASELINE-001", stream[1], stream[2],
                      History(Samples(es, stream), i) \cup {i}, {i}, 1) :
               i \in Spikes(es, stream)} : stream \in Streams(es)}

\* The k-th smallest value of a function, and twice the median of its values.
Smallest(values, k) ==
    Min({v \in Range(values) : Cardinality({i \in DOMAIN values : values[i] <= v}) >= k})
TwiceMedian(values) ==
    LET n == Cardinality(DOMAIN values) IN
    Smallest(values, (n + 1) \div 2) + Smallest(values, (n + 2) \div 2)

\* The sample before, the change since, the earlier samples that changed, and the samples whose change is
\* unlike those.
Previous(S, i) == Max(Earlier(S, i))
Change(es, stream, i) ==
    LET delta == Value(es, stream, i) - Value(es, stream, Previous(Samples(es, stream), i))
    IN IF delta < 0 THEN -delta ELSE delta
Changed(S, i) == {j \in Earlier(S, i) : Earlier(S, j) # {}}
IsJump(es, stream, i) ==
    LET changes == Changed(Samples(es, stream), i) IN
    /\ Cardinality(changes) >= MinSamples
    /\ 2 * Change(es, stream, i)
         > Max({2 * MinimumDelta,
                ChangeMultiplier * TwiceMedian([j \in Newest(changes, MaxSamples) |-> Change(es, stream, j)])})
Jumps(es, stream) == {i \in Samples(es, stream) : IsJump(es, stream, i)}

\* Two changes in a row are one jump up and back.
Turns(S, jumps) == Marks(jumps, [i \in jumps |-> i], [i \in jumps |-> {j \in jumps : Previous(S, j) # i}])
TelemetryRateChange(es) ==
    UNION {LET S == Samples(es, stream) IN
           {Candidate("TELEMETRY-ROC-001", stream[1], stream[2], {Previous(S, i), i}, {i}, 1) :
               i \in Turns(S, Jumps(es, stream))} : stream \in Streams(es)}
----------------------------------------------------------------------------
Detect(es) ==
    MaliciousLabel(es) \cup RequestRate(es) \cup AuthenticationFailures(es)
        \cup NetworkBehaviors(es) \cup BaselineSpikes(es) \cup TelemetryRateChange(es)
=============================================================================
