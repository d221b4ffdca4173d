---------------------------- MODULE MCBatchImport ----------------------------
(* Small instances of BatchImport for TLC. *)
EXTENDS BatchImport, TLC

CONSTANTS k1, c1, c2, t1, t2

\* Every content validates without a rejected row.
MCAccepted == [c \in Contents |-> "accepted"]

\* c1 validates with some rejected rows, c2 (when present) is rejected.
MCMixed == [c \in Contents |-> IF c = c1 THEN "partial" ELSE "rejected"]

\* Request threads run the same code and are never told apart.
ClientSymmetry == Permutations(Clients)
=============================================================================
