---------------------------- MODULE CaseFindings ----------------------------
(***************************************************************************)
(* What one analysis makes of the events of a case: backend/app/analysis,  *)
(* without the detectors, which are in Detection.  Candidates are scored,  *)
(* live ones become alerts, findings are grouped into incidents, and the   *)
(* timeline, the entity graph and the activity windows are derived.        *)
(*                                                                         *)
(* Events arrive in observed order and the case is analysed after each one *)
(* (CaseAnalysis models when analyses run and what is stored of them).     *)
(* Every case is reached that way; an event that comes late or bears the   *)
(* time of an earlier one makes another case, which is reached by itself.  *)
(*                                                                         *)
(* A text is a value of a small set with a length, and a number past       *)
(* `Overflow` is one a float cannot hold.  Left out: letters whose case or *)
(* escape changes the length of a text, texts of blanks, an attack_type    *)
(* that is no text, a network record of counters or a protocol only, and   *)
(* the rounding of floats.                                                 *)
(***************************************************************************)
EXTENDS Detection

CONSTANTS
    Feeds,              \* sets of kinds that report together
    Horizon,            \* times are 0..Horizon
    MaxEvents,          \* events of a case the model goes up to
    FindingLimit,       \* events of a finding (512)
    MaxIncidentEvents,  \* 4096
    ReferenceLimit,     \* findings, alerts and links an incident names
    EdgeLimit,          \* events of a graph edge (4096)
    RelationLimit,      \* relationships of a graph edge (32)
    SampleLimit,        \* samples a baseline names (256)
    Overflow,           \* the least number past a float
    Calendar,           \* the times the charts can hold (1677 to 2262)
    Length(_),          \* of a label, a class or the name of a metric
    Minute, MinVolume   \* of the activity windows

ASSUME AnalysisConstants ==
    /\ \A kinds \in Feeds : kinds \subseteq Kinds
    /\ \A kind \in Kinds : {kind.timed, kind.live} \subseteq BOOLEAN /\ IsFiniteSet(DOMAIN kind.metrics)
    /\ Horizon \in Nat /\ Untimed \in Int \ 0..Horizon
    /\ {Minute, MinVolume, FindingLimit, MaxIncidentEvents} \subseteq Nat \ {0} /\ ReferenceLimit \in Nat
    /\ SampleLimit \in Nat
    /\ FindingLimit <= MaxIncidentEvents

VARIABLES
    feed,       \* the kinds of events this case gets
    events,     \* the canonical events of the case
    analysis,   \* the latest completed analysis
    failed      \* the last analysis raised

vars == <<feed, events, analysis, failed>>
----------------------------------------------------------------------------
Addresses(k) == (k.ips \cup {k.src, k.dst}) \ {None}

Reasons(k, l) ==
    {f \in {"device", "actor", "target", "service"} : k[f] # None /\ k[f] = l[f]}
      \cup {"address" : a \in Addresses(k) \cap Addresses(l)}

\* Pairs of timed events inside the window that share something.
Correlated(es, i, j) ==
    /\ i < j /\ IsTimed(es, i) /\ IsTimed(es, j)
    /\ At(es, j) - At(es, i) <= CorrelationWindow
    /\ Reasons(es[i].kind, es[j].kind) # {}
Correlate(es) == {p \in Ids(es) \X Ids(es) : Correlated(es, p[1], p[2])}

Evidence(es, c) == {es[i].kind.evidence : i \in c.events}

Corroboration(es, c, links) ==
    LET touching == {l \in links : l[1] \in c.events \/ l[2] \in c.events} IN
    IF \E l \in touching : ~({l[1], l[2]} \subseteq c.events) THEN 100
    ELSE IF touching # {} THEN 75
    ELSE IF Cardinality(Evidence(es, c)) > 1 THEN 50
    ELSE 0

SeverityScore(c) ==
    CASE c.rule = "AUTH-001"  -> 100
      [] c.rule = "LABEL-001" -> IF c.about \in DOMAIN KnownClasses THEN KnownClasses[c.about] ELSE 75
      [] OTHER                -> 75

Confidence(rule) ==
    CASE rule = "LABEL-001" -> 95 [] rule = "RATE-001" -> 90 [] rule = "AUTH-001" -> 98
      [] rule = "BASELINE-001" -> 80 [] rule = "TELEMETRY-ROC-001" -> 82
      [] rule = "NET-FANOUT-001" -> 85 [] rule = "NET-PORTSCAN-001" -> 88 [] rule = "NET-FAILURE-001" -> 90

RepetitionReference(rule) ==
    CASE rule \in {"LABEL-001", "RATE-001"} -> 4
      [] rule = "AUTH-001"                  -> AuthThreshold
      [] rule \in NetworkRules              -> Threshold(rule)
      [] OTHER                              -> 3

\* Fewer than ten prior changes.
LimitedBaseline(es, c) ==
    \A i \in c.triggers : Cardinality(Newest(Changed(Samples(es, <<c.entity, c.about>>), i), MaxSamples)) < 10
Penalty(es, c) ==
    (IF c.entity = None THEN 5 ELSE 0)
      + (IF \E i \in c.triggers : ~IsTimed(es, i) THEN 5 ELSE 0)
      + (IF c.rule = "LABEL-001" /\ c.about \notin DOMAIN KnownClasses THEN 10 ELSE 0)
      + (IF c.rule = "TELEMETRY-ROC-001" /\ LimitedBaseline(es, c) THEN 5 ELSE 0)

Weights == <<30, 25, 20, 15, 10>>
RoundHalfUp(n, d) == (2 * n + d) \div (2 * d)
SumOf(factors) == factors[1] + factors[2] + factors[3] + factors[4] + factors[5]
FactorScores(es, c, links) ==
    <<SeverityScore(c), Confidence(c.rule),
      Min({100, RoundHalfUp(100 * c.count, RepetitionReference(c.rule))}),
      50, Corroboration(es, c, links)>>
Weighted(scores) == [f \in 1..5 |-> scores[f] * Weights[f]]

\* Integer points by largest remainder: the factors with the largest fractions get one more.
Ahead(raw, f) == {g \in 1..5 : \/ raw[g] % 100 > raw[f] % 100
                               \/ raw[g] % 100 = raw[f] % 100 /\ g < f}
Allocate(raw) ==
    LET floors == [f \in 1..5 |-> raw[f] \div 100]
        left == Min({100, RoundHalfUp(SumOf(raw), 100)}) - SumOf(floors)
    IN [f \in 1..5 |-> floors[f] + IF Cardinality(Ahead(raw, f)) < left THEN 1 ELSE 0]

Score(es, c, links) ==
    LET points == Allocate(Weighted(FactorScores(es, c, links)))
    IN [candidate |-> c, points |-> points,
        risk |-> Max({0, SumOf(points) - Penalty(es, c)})]
----------------------------------------------------------------------------
\* The finding's identity is the candidate's, so an alert is named by it.
LiveTriggers(es, c) == {i \in c.triggers : es[i].kind.live}
Alerts(es, candidates) == {c \in candidates : LiveTriggers(es, c) # {}}

\* The trigger time of a finding.
Anchor(es, c) ==
    LET times == {At(es, i) : i \in c.triggers} \ {Untimed}
        support == {At(es, i) : i \in c.events} \ {Untimed}
    IN IF times # {} THEN Max(times) ELSE IF support # {} THEN Max(support) ELSE Untimed

\* Events of one finding belong together, whether or not they correlate.
AnchoredNever(c, i, j) == FALSE
Anchored(c, i, j) == i \in c.events /\ j = Min(c.events)

\* The events that hang together with i, over the events that support a finding.
Supports(candidates) == UNION {c.events : c \in candidates}
Joined(candidates, links, x, y) ==
    \/ <<x, y>> \in links \/ <<y, x>> \in links
    \/ \E c \in candidates : Anchored(c, x, y) \/ Anchored(c, y, x)
Component(candidates, links, i) ==
    LET relevant == Supports(candidates)
        Closed(S) == \A x \in S, y \in relevant : Joined(candidates, links, x, y) => y \in S
    IN {y \in relevant : \A S \in SUBSET relevant : i \in S /\ Closed(S) => y \in S}

\* The order of findings: by anchor, ties by identifier, which here is a number of our choice.
Numbers(candidates) == CHOOSE f \in [candidates -> 1..Cardinality(candidates)] : IsInjective(f)
AnchorKey(es, candidates) ==
    LET number == Numbers(candidates)
    IN [c \in candidates |-> Anchor(es, c) * (Cardinality(candidates) + 1) + number[c]]

\* Sessions of findings with an anchor, and of the others, which only their size keeps apart.
PartitionFindings(es, candidates, timed) ==
    LET S == {c \in candidates : (Anchor(es, c) # Untimed) = timed}
        key == AnchorKey(es, S)
        Between(c, d) == {e \in S : key[c] <= key[e] /\ key[e] <= key[d]}
    IN Sessionize(S, key, [c \in S |-> Anchor(es, c)],
                  [c \in S |-> {d \in S : Cardinality(Supports(Between(c, d))) > MaxIncidentEvents}])

\* The references an incident keeps of a set it counts in full.
Retained(S) == [count |-> Cardinality(S), kept |-> Min({Cardinality(S), ReferenceLimit}),
                truncated |-> Cardinality(S) > ReferenceLimit]

Incident(es, session, links, risks) ==
    LET members == Supports(session)
        times == {At(es, i) : i \in members} \ {Untimed}
    IN [findings |-> session, events |-> members,
        findingRefs |-> Retained(session),
        alertRefs |-> Retained(Alerts(es, session)),
        linkRefs |-> Retained({l \in links : {l[1], l[2]} \subseteq members}),
        started |-> IF times = {} THEN Untimed ELSE Min(times),
        ended |-> IF times = {} THEN Untimed ELSE Max(times),
        severity |-> Max({SeverityScore(c) : c \in session}),
        risk |-> Max({s.risk : s \in {r \in risks : r.candidate \in session}})]

Components(candidates, links) == {Component(candidates, links, i) : i \in Supports(candidates)}
Sessions(es, candidates, links) ==
    UNION {PartitionFindings(es, {c \in candidates : c.events \cap p[1] # {}}, p[2]) :
              p \in Components(candidates, links) \X BOOLEAN}
BuildIncidents(es, risks, links) ==
    {Incident(es, session, links, risks) : session \in Sessions(es, {s.candidate : s \in risks}, links)}
----------------------------------------------------------------------------
\* Nodes of the entity graph an event is about.
EntityNodes(k) == {k.device, k.actor, k.target} \ {None}
AddressNodes(k) == IF k.src = None \/ k.dst = None THEN {} ELSE {k.src, k.dst}
GraphNodes(es) == UNION {EntityNodes(es[i].kind) \cup AddressNodes(es[i].kind) : i \in Ids(es)}
Linking(k, pair) == pair \subseteq EntityNodes(k) \/ pair \subseteq AddressNodes(k)
EdgeEvents(es, pair) == {i \in Ids(es) : Linking(es[i].kind, pair)}
GraphEdges(es) == {pair \in kSubset(2, GraphNodes(es)) : EdgeEvents(es, pair) # {}}
NodeEvents(es, node) == {i \in Ids(es) : node \in EntityNodes(es[i].kind) \cup AddressNodes(es[i].kind)}
NodeRisk(es, node, risks) ==
    Max({0} \cup {s.risk : s \in {r \in risks : r.candidate.events \cap NodeEvents(es, node) # {}}})

\* What an edge calls the events of its two nodes: their action, or how the nodes met.
Role(k, node) == IF node = k.device THEN "device" ELSE IF node = k.actor THEN "actor" ELSE "target"
Relationship(k, pair) ==
    LET roles == {Role(k, node) : node \in pair} IN
    IF k.action # None THEN k.action
    ELSE IF {k.src, k.dst, k.port} # {None} THEN "network_communication"
    ELSE IF "device" \notin roles THEN "actor_to_target"
    ELSE IF "actor" \in roles THEN "actor_to_device" ELSE "device_to_target"
Relationships(es, pair) ==
    {Relationship(es[i].kind, pair) : i \in {j \in Ids(es) : pair \subseteq EntityNodes(es[j].kind)}}
      \cup {"network_communication" : i \in {j \in Ids(es) : pair \subseteq AddressNodes(es[j].kind)}}

\* Activity by minute: the counts, their median, and the minutes far above it.
Window(es, i) == At(es, i) \div Minute
Windows(es) == {Window(es, i) : i \in {j \in Ids(es) : IsTimed(es, j)}}
InWindow(es, w) == {i \in Ids(es) : IsTimed(es, i) /\ Window(es, i) = w}
WindowCounts(es) == [w \in Windows(es) |-> Cardinality(InWindow(es, w))]
IsVolumeAnomaly(es, w) ==
    LET count == Cardinality(InWindow(es, w)) IN
    count >= MinVolume /\ 2 * count >= 3 * TwiceMedian(WindowCounts(es))
CauseStatus(es, w, candidates) ==
    IF \E i \in InWindow(es, w) : es[i].kind.class \notin {None, "normal"} THEN "source_classified"
    ELSE IF \E c \in candidates : c.events \cap InWindow(es, w) # {} THEN "rule_context"
    ELSE "undetermined"

\* The ten most frequent classes of a minute, of equals those that came first.
Carriers(es, w, class) == {i \in InWindow(es, w) : es[i].kind.class = class}
WindowClasses(es, w) == {es[i].kind.class : i \in InWindow(es, w)} \ {None, "normal"}
Outnumbers(es, w, class, other) ==
    LET more == Carriers(es, w, class)
        less == Carriers(es, w, other)
    IN \/ Cardinality(more) > Cardinality(less)
       \/ Cardinality(more) = Cardinality(less) /\ Min(more) < Min(less)
MostCommon(es, w) ==
    {c \in WindowClasses(es, w) : Cardinality({d \in WindowClasses(es, w) : Outnumbers(es, w, d, c)}) < 10}

RiskBand(score) ==
    IF score >= 75 THEN "critical" ELSE IF score >= 50 THEN "high" ELSE IF score >= 25 THEN "medium" ELSE "low"

\* The chart counts: events by kind, origin, label and class where they have one, timed events by minute
\* and origin, findings by severity and band.
Counts(category) ==
    {[category |-> v, value |-> Cardinality({x \in DOMAIN category : category[x] = v})] : v \in Range(category)}
ChartPoints(es, risks) ==
    LET timed == {i \in Ids(es) : IsTimed(es, i)}
        labelled == {i \in Ids(es) : es[i].kind.label # None}
        classed == {i \in Ids(es) : es[i].kind.class # None}
    IN [event_type |-> Counts([i \in Ids(es) |-> es[i].kind.type]),
        origin |-> Counts([i \in Ids(es) |-> es[i].kind.live]),
        source_label |-> Counts([i \in labelled |-> es[i].kind.label]),
        attack_class |-> Counts([i \in classed |-> es[i].kind.class]),
        activity_minute |-> Counts([i \in timed |-> <<Window(es, i), es[i].kind.live>>]),
        finding_severity |-> Counts([s \in risks |-> SeverityScore(s.candidate)]),
        risk_band |-> Counts([s \in risks |-> RiskBand(s.risk)])]

\* Timeline entries and the key they are sorted by; an event is ingested after it was observed,
\* an alert bears the observed time of its trigger.
Ingested(i) == Horizon + i
Latest(es, S) == LET times == {At(es, i) : i \in S} \ {Untimed} IN IF times = {} THEN Untimed ELSE Max(times)
EventEntry(es, i) == [order |-> 0, occurred |-> At(es, i), ingested |-> Ingested(i)]
FindingEntry(es, c) ==
    [order |-> 1, occurred |-> Latest(es, c.events), ingested |-> Max({Ingested(i) : i \in c.events})]
AlertEntry(es, c) ==
    [order |-> 2, occurred |-> Latest(es, c.events),
     ingested |-> Max({IF IsTimed(es, i) THEN At(es, i) ELSE Ingested(i) : i \in LiveTriggers(es, c)})]
Precedes(a, b) ==       \* a is shown before b, whatever their identifiers
    IF (a.occurred = Untimed) # (b.occurred = Untimed) THEN b.occurred = Untimed
    ELSE \/ a.occurred < b.occurred
         \/ a.occurred = b.occurred /\ a.ingested < b.ingested
         \/ a.occurred = b.occurred /\ a.ingested = b.ingested /\ a.order < b.order
----------------------------------------------------------------------------
\* The fields of a result have room for a name of 128 and a text of 256 characters.
NameLimit == 128
TextLimit == 256
JoinedLength(texts) == SumFunction([t \in texts |-> Length(t)]) + Cardinality(texts) - 1

\* A label finding quotes its class, the labels of its records and the configured ones, a telemetry
\* finding the name of its metric as "attributes.<name>".
ClassTooLong(c) ==
    c.rule = "LABEL-001" /\ Length(c.about) \notin 0..(IF c.about \in DOMAIN KnownClasses THEN TextLimit ELSE NameLimit)
LabelsTooLong(es, c) ==
    c.rule = "LABEL-001" /\ JoinedLength({es[i].kind.label : i \in c.events}) > TextLimit
ConfiguredLabels(source) ==
    CASE source = "ton" -> {} [] source = "cic" -> BenignLabels [] OTHER -> MaliciousLabels
ConfigurationTooLong(es, c) ==
    c.rule = "LABEL-001" /\ \E i \in c.events : JoinedLength(ConfiguredLabels(es[i].kind.source)) > TextLimit
FieldTooLong(c) ==
    c.rule \in {"BASELINE-001", "TELEMETRY-ROC-001"} /\ Length(c.about) \notin 0..(NameLimit - 11)

\* Every evaluated sample makes a baseline, whose mean and threshold are finite.
IsFloat(n) == -Overflow < n /\ n < Overflow
NumberTooLarge(es, i) ==
    LET k == es[i].kind IN ~IsFloat(k.requests) \/ ~IsFloat(k.usual) \/ \E m \in Measures(es, i) : ~IsFloat(k.metrics[m])
Evaluated(es, stream) ==
    {i \in Samples(es, stream) : Cardinality(Earlier(Samples(es, stream), i)) >= MinSamples}
BaselineOverflows(es, stream, i) ==
    LET history == History(Samples(es, stream), i)
        ValuesTo(j) == [k \in {l \in history : l <= j} |-> Value(es, stream, k)]
    IN \/ \E j \in history : ~IsFloat(SumFunction(ValuesTo(j)))
       \/ ~Exceeds(Overflow, ValuesTo(i))
BaselineRefused(es, stream, i) ==
    \/ Length(stream[2]) \notin 0..NameLimit
    \/ Cardinality(History(Samples(es, stream), i)) > SampleLimit
    \/ BaselineOverflows(es, stream, i)

\* The charts refuse a class without a letter and a time out of their calendar.
ChartRefused(es, i) ==
    \/ es[i].kind.class # None /\ Length(es[i].kind.class) \notin 1..TextLimit
    \/ IsTimed(es, i) /\ At(es, i) \notin Calendar
EdgeRefused(es, pair) ==
    Cardinality(EdgeEvents(es, pair)) > EdgeLimit \/ Cardinality(Relationships(es, pair)) > RelationLimit
FindingRefused(es, c) ==
    \/ ~WellFormed(c) \/ Cardinality(c.events) > FindingLimit
    \/ ClassTooLong(c) \/ LabelsTooLong(es, c) \/ ConfigurationTooLong(es, c) \/ FieldTooLong(c)

\* The analysis raises, and with it the import or the live message that asked for it.
Raises(es, candidates) ==
    \/ \E c \in candidates : FindingRefused(es, c)
    \/ \E pair \in GraphEdges(es) : EdgeRefused(es, pair)
    \/ \E i \in Ids(es) : NumberTooLarge(es, i) \/ ChartRefused(es, i)
    \/ \E stream \in Streams(es) : \E i \in Evaluated(es, stream) : BaselineRefused(es, stream, i)
    \/ \E w \in Windows(es) : \E class \in MostCommon(es, w) : Length(class) \notin 0..NameLimit

Analyze(es, candidates) ==
    LET links == Correlate(es)
        risks == {Score(es, c, links) : c \in candidates}
    IN [risks |-> risks,
        alerts |-> Alerts(es, candidates),
        incidents |-> BuildIncidents(es, risks, links)]

Times(kind) == IF kind.timed THEN 0..Horizon ELSE {Untimed}
Nothing == [risks |-> {}, alerts |-> {}, incidents |-> {}]

Init ==
    /\ feed \in Feeds
    /\ events = <<>> /\ analysis = Nothing /\ failed = FALSE

\* stable_sort: by observed time, the untimed events apart.
InOrder(es, at) ==
    \A i \in Ids(es) : IsTimed(es, i) => (at # Untimed /\ At(es, i) <= at)

Arrive(kind, at) ==
    /\ Len(events) < MaxEvents /\ InOrder(events, at)
    /\ LET es == Append(events, [kind |-> kind, at |-> at])
           candidates == Detect(es)
       IN /\ events' = es
          /\ failed' = Raises(es, candidates)
          /\ analysis' = IF failed' THEN analysis ELSE Analyze(es, candidates)
    /\ UNCHANGED feed

Next == \E kind \in feed : \E at \in Times(kind) : Arrive(kind, at)

Spec == Init /\ [][Next]_vars
----------------------------------------------------------------------------
Found == {s.candidate : s \in analysis.risks}
Reports(rule, group, i, window) ==
    \E c \in Found : /\ c.rule = rule
                     /\ \E t \in c.triggers : t \in group /\ t <= i /\ At(events, i) - At(events, t) <= window

\* Whenever a group is over a threshold, a finding of that rule was triggered in the window before.
BurstsAreReported ==
    /\ \A group \in AuthGroups(events) : \A i \in group :
          AuthReached(events, group, i) => Reports("AUTH-001", group, i, AuthWindow)
    /\ \A group \in FlowGroups(events), rule \in NetworkRules : \A i \in group :
          NetReached(events, rule, group, i) => Reports(rule, group, i, NetWindow)

\* ... and not twice in one window.
BurstsAreReportedOnce ==
    \A c, d \in Found :
       c # d /\ c.rule = d.rule /\ c.rule \in NetworkRules \cup {"AUTH-001"} /\ c.about = d.about
         /\ (c.rule = "AUTH-001" => c.entity = d.entity)
         => LET a == Anchor(events, c)
                b == Anchor(events, d)
                window == IF c.rule = "AUTH-001" THEN AuthWindow ELSE NetWindow
            IN a - b > window \/ b - a > window

\* Every malicious record is in exactly one label finding, and none of them spans too much.
LabelsArePartitioned ==
    LET labelled == {c \in Found : c.rule = "LABEL-001"} IN
    /\ \A i \in Ids(events) : LabelMatches(events, i) =>
          Cardinality({c \in labelled : i \in c.events}) = 1
    /\ \A c \in labelled : /\ Cardinality(c.events) <= MaxLabelled
                           /\ \A i, j \in c.events : /\ IsTimed(events, i) = IsTimed(events, j)
                                                     /\ At(events, i) - At(events, j) <= MaxSpan

\* The stored points are the rounded weighted sum, each within one of its exact share.
RiskReconciles ==
    LET links == Correlate(events) IN
    \A s \in analysis.risks :
       LET scores == FactorScores(events, s.candidate, links) IN
       /\ s.risk \in 0..100
       /\ SumOf(s.points) = RoundHalfUp(SumOf(Weighted(scores)), 100)
       /\ \A f \in 1..5 :
            LET over == 100 * s.points[f] - scores[f] * Weights[f] IN -100 < over /\ over < 100

\* A finding is shown after the events it rests on, a node of the graph is as risky as the incidents
\* it is in, at most, less than half of the minutes stand out, and the chart and the activity windows
\* count the same events.
ViewsAgree ==
    /\ \A c \in Found : \A i \in c.events :
          Precedes(EventEntry(events, i), FindingEntry(events, c))
    /\ \A node \in GraphNodes(events) :
          NodeRisk(events, node, analysis.risks)
            <= Max({0} \cup {n.risk : n \in {m \in analysis.incidents :
                                               m.events \cap NodeEvents(events, node) # {}}})
    /\ 2 * Cardinality({w \in Windows(events) : IsVolumeAnomaly(events, w)})
          <= Max({0, Cardinality(Windows(events)) - 1})
    /\ \A w \in Windows(events) :
          LET points == ChartPoints(events, analysis.risks).activity_minute
              Charted(live) == {p.value : p \in {q \in points : q.category = <<w, live>>}}
          IN Max({0} \cup Charted(TRUE)) + Max({0} \cup Charted(FALSE)) = Cardinality(InWindow(events, w))
    /\ \A w \in Windows(events) :
          (\E n \in analysis.incidents : n.events \cap InWindow(events, w) # {})
             => CauseStatus(events, w, Found) # "undetermined"

\* An analysis raises only where a flow that did not fail finds a failure burst still in its window, where
\* two nodes have more events, or more kinds of events, in common than an edge may list, where an event
\* bears a number, a time, a class or the name of a metric that the result has no room for, where the
\* labels of a session together are too long, where finite numbers have no finite threshold, or where the
\* configuration lets a rule list more than a finding may (the default one does not).
BurstOnAnotherFlow ==
    \E group \in FlowGroups(events) : \E i \in group :
       /\ events[i].kind.outcome \notin FailureStates
       /\ NetReached(events, "NET-FAILURE-001", group, i)
NoRoomFor(i) ==
    \/ NumberTooLarge(events, i)
    \/ IsTimed(events, i) /\ At(events, i) \notin Calendar
    \/ events[i].kind.class # None /\ Length(events[i].kind.class) \notin 1..NameLimit
    \/ LabelMatches(events, i) /\ Length(AttackClass(events, i)) \notin 0..NameLimit
    \/ \E m \in Measures(events, i) : Length(m) \notin 0..(NameLimit - 11)
RaisesOnlyOnALimitOrABurst ==
    failed =>
    \/ BurstOnAnotherFlow
    \/ \E pair \in GraphEdges(events) : EdgeRefused(events, pair)
    \/ \E i \in Ids(events) : NoRoomFor(i)
    \/ \E p \in LabelKeys(events) \X BOOLEAN : \E session \in LabelSessions(events, p[1], p[2]) :
          JoinedLength({events[i].kind.label : i \in session}) > TextLimit
    \/ \E stream \in Streams(events) : \E i \in Evaluated(events, stream) : BaselineOverflows(events, stream, i)
    \/ FindingLimit < Max({AuthThreshold, SupportLimit, MaxLabelled, MaxSamples + 1})
    \/ SampleLimit < MaxSamples
    \/ \E source \in {"ton", "cic", "other"} : JoinedLength(ConfiguredLabels(source)) > TextLimit

\* What a completed analysis says of the events it was made from (detection.py, risk.py and the views):
\* a burst is reported once per window and never missed, a labelled record is in one finding, the points
\* add up, the derived views agree with the findings, and it is known what an analysis cannot complete on.
FindingsSound ==
    /\ ~failed => /\ BurstsAreReported /\ BurstsAreReportedOnce /\ LabelsArePartitioned
                  /\ RiskReconciles /\ ViewsAgree
    /\ RaisesOnlyOnALimitOrABurst

\* correlation.py: every finding is in exactly one incident; findings that share an event and a trigger
\* time are told as one incident; and an incident stays inside its bounds.  Incidents differ in their
\* events, from which their identifiers are made (a duplicate fails the insert of the analysis).  The one
\* exception to both is the bound on the events of an incident: a finding of the same time that went over
\* it has closed one of the incidents.
ClosedBy(n, e) == /\ e \notin n.findings /\ \E c \in n.findings : Anchor(events, c) = Anchor(events, e)
                  /\ Cardinality(n.events \cup e.events) > MaxIncidentEvents

IncidentsPartitionFindings ==
    ~failed =>
    /\ \A c \in Found : Cardinality({n \in analysis.incidents : c \in n.findings}) = 1
    /\ \A m, n \in analysis.incidents :
          m # n /\ m.events = n.events => \E e \in Found : ClosedBy(m, e) \/ ClosedBy(n, e)
    /\ \A c, d \in Found :
          c.events \cap d.events # {} /\ Anchor(events, c) = Anchor(events, d)
             => \/ \E n \in analysis.incidents : {c, d} \subseteq n.findings
                \/ \E n \in analysis.incidents, e \in Found : n.findings \cap {c, d} # {} /\ ClosedBy(n, e)
    /\ \A n \in analysis.incidents :
          /\ Cardinality(n.events) <= MaxIncidentEvents
          /\ \A c, d \in n.findings : /\ (Anchor(events, c) = Untimed) = (Anchor(events, d) = Untimed)
                                      /\ Anchor(events, c) - Anchor(events, d) <= MaxSpan
          /\ n.linkRefs.truncated <=> n.linkRefs.count > n.linkRefs.kept

\* An event observed after all others takes no alert away that an investigator may already have worked on
\* (the alert's state is kept by its identifier), except that of a label session, which grows.
AlertsPersist ==
    [][ (Len(events') > Len(events) /\ ~failed' /\ IsTimed(events', Len(events'))
           /\ \A i \in Ids(events) : At(events, i) < At(events', Len(events')))
        => \A c \in analysis.alerts : c.rule # "LABEL-001" => c \in analysis'.alerts ]_vars

\* Ties of the timeline are ordered event, finding, then alert (docs/contracts/deterministic-analysis.md:97):
\* an alert follows the finding it was made from, whose observed time it shares.
TiesAreOrdered ==
    ~failed => \A c \in analysis.alerts : Precedes(FindingEntry(events, c), AlertEntry(events, c))

\* Failed or incomplete connections that reach the threshold make a finding
\* (docs/contracts/deterministic-analysis.md:37); here, that every analysis of flows completes.
AnalysisCompletes == ~failed
=============================================================================
