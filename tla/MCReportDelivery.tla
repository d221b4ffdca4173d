-------------------------- MODULE MCReportDelivery --------------------------
EXTENDS ReportDelivery, TLC
CONSTANTS d1, t1, c1, c2
ThreadSymmetry == Permutations(Threads)
=============================================================================
