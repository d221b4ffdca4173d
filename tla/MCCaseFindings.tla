--------------------------- MODULE MCCaseFindings ---------------------------
EXTENDS CaseFindings

Blank == [type |-> "telemetry", timed |-> TRUE, source |-> "other", evidence |-> "e1", live |-> TRUE,
          device |-> None, actor |-> None, target |-> None, ips |-> {}, service |-> None,
          src |-> None, dst |-> None, port |-> None, action |-> None, outcome |-> None,
          label |-> None, class |-> None, sourceType |-> None,
          metrics |-> [m \in {} |-> 0], requests |-> 0, usual |-> 0]

Failure == [Blank EXCEPT !.type = "login_failure", !.device = "lock", !.actor = "mallory"]
Denied == [Blank EXCEPT !.type = "access", !.action = "authenticate", !.outcome = "denied",
                        !.target = "lock", !.actor = "eve", !.live = FALSE]
Rejected == [Blank EXCEPT !.type = "network_flow", !.src = "ip1", !.dst = "ip2", !.port = "80", !.outcome = "rej"]
Scanned == [Rejected EXCEPT !.dst = "ip3", !.port = "22"]
Accepted == [Scanned EXCEPT !.outcome = "sf", !.device = "camera", !.live = FALSE]
Sample(v) == [Blank EXCEPT !.device = "fridge", !.metrics = [temperature |-> v, sequence |-> 7]]
Labelled == [Blank EXCEPT !.source = "ton", !.device = "fridge", !.label = "1", !.class = "ddos", !.live = FALSE]
Unnamed == [Blank EXCEPT !.source = "cic", !.type = "network_flow", !.label = "odd", !.timed = FALSE]
Benign == [Labelled EXCEPT !.label = "0", !.class = "normal"]
Requests == [Blank EXCEPT !.device = "lock", !.requests = 3, !.usual = 1, !.service = "http"]

Logins == {Failure, Denied}
Flows == {Rejected, Scanned, Accepted}
Telemetry == {Sample(0), Sample(1), Sample(4)}
Labels == {Labelled, Unnamed, Benign}
Mixed == {Failure, Requests, [Labelled EXCEPT !.device = "lock", !.evidence = "e2"]}
\* What the result has no room for: two names for what one pair does, a number past Overflow and two
\* that have no finite mean, a metric, a class and labels too long, a class that is empty.
Opened == [Failure EXCEPT !.type = "access", !.action = "open"]
Long(v) == [Blank EXCEPT !.device = "fridge", !.metrics = [long |-> v]]
Longer == [Blank EXCEPT !.device = "fridge", !.metrics = [longer |-> 0]]
Wordy == [Labelled EXCEPT !.class = "wordy", !.label = "0", !.live = TRUE]
Wordier == [Labelled EXCEPT !.class = "wordier", !.label = "0"]
Empty == [Labelled EXCEPT !.class = "empty", !.label = "0"]
LabelledAs(label, class) == [Unnamed EXCEPT !.label = label, !.class = class]

Renamed == {Failure, Opened}
Large == {Sample(0), Sample(6), Sample(12)}
Named == {Long(0), Long(4), Longer}
Worded == {Wordy, Wordier, Empty}
Quoted == {LabelledAs("long", "ddos"), LabelledAs("longer", "ddos"), LabelledAs("longer", None)}
AllKinds == Renamed \cup Large \cup Named \cup Worded \cup Quoted \cup Logins \cup Flows \cup Telemetry \cup Labels \cup Mixed
AllFeeds == {Logins, Flows, Telemetry, Labels, Mixed, Renamed, Large, Named, Worded, Quoted}
NoTime == -1
OnlyFlows == {Flows}
LengthOf(text) ==
    CASE text = "empty" -> 0 [] text = "long" -> 120 [] text \in {"longer", "wordy"} -> 140
      [] text = "wordier" -> 300 [] OTHER -> 10
\* A case with an event at 0 begins before the calendar does.
Years == 1..5
AllTimes == 0..4
Classes == [c \in {"ddos"} |-> 100]
=============================================================================
