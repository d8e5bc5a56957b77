---------------------------- MODULE MCTokenSession ----------------------------
(* A small instance of TokenSession for TLC. *)
EXTENDS TokenSession, TLC

CONSTANTS k1, c1, u1
===============================================================================
