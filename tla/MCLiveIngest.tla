---------------------------- MODULE MCLiveIngest ----------------------------
(* Small instances of LiveIngest for TLC. *)
EXTENDS LiveIngest, TLC

CONSTANTS k1, s1, s2, sim, x, y, u1, u2, t1, t2

\* Request threads and submitters run the same code and are never told apart.
ClientSymmetry == Permutations(Clients) \cup Permutations(Submitters)
=============================================================================
