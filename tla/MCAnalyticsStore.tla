--------------------------- MODULE MCAnalyticsStore ---------------------------
(* A small instance of AnalyticsStore for TLC. *)
EXTENDS AnalyticsStore

CONSTANTS c1, c2
===============================================================================
