---------------------------- MODULE MCAnalyticsJobs ----------------------------
(* Small instances of AnalyticsJobs for TLC. *)
EXTENDS AnalyticsJobs, TLC

CONSTANTS p1, p2, j1, j2
=============================================================================
