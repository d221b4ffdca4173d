---------------------------- MODULE SourceLedger ----------------------------
(***************************************************************************)
(* What live ingest promises a sensor that numbers its frames (TV5-11):    *)
(* the accepted frames of a source strictly ascend, a frame becomes        *)
(* evidence at most once, and one that was given up never does.            *)
(***************************************************************************)
EXTENDS Integers

CONSTANT Frames     \* records with a source and a seq

VARIABLES
    accepted,   \* the numbered frames the backend took responsibility for
    recorded,   \* those that became evidence
    dropped     \* those that failed or were cancelled

ledger == <<accepted, recorded, dropped>>

Init == accepted = {} /\ recorded = {} /\ dropped = {}

\* A frame is accepted when it is ahead of everything its source sent before.
Accept(f) ==
    /\ \A g \in accepted : g.source = f.source => g.seq < f.seq
    /\ accepted' = accepted \cup {f}
    /\ UNCHANGED <<recorded, dropped>>

Record(f) ==
    /\ f \in accepted \ (recorded \cup dropped)
    /\ recorded' = recorded \cup {f}
    /\ UNCHANGED <<accepted, dropped>>

\* A full queue, a failure, a stopped session or a restart gives frames up.
Drop(F) ==
    /\ F \subseteq accepted \ recorded
    /\ dropped' = dropped \cup F
    /\ UNCHANGED <<accepted, recorded>>

Next ==
    \/ \E f \in Frames : Accept(f) \/ Record(f)
    \/ \E F \in SUBSET accepted : Drop(F)

Spec == Init /\ [][Next]_ledger
=============================================================================
