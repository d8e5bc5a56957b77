--------------------------- MODULE MCOrderSelectors ---------------------------
(* A small instance of OrderSelectors for TLC. *)
EXTENDS OrderSelectors

CONSTANTS o1, acc1, c1
===============================================================================
