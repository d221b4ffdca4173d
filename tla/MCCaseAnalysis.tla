--------------------------- MODULE MCCaseAnalysis ---------------------------
(* Small instances of CaseAnalysis for TLC. *)
EXTENDS CaseAnalysis

CONSTANTS e1, e2, f1, f2, a1
=============================================================================
