-------------------------- MODULE MCOrderWriteOutcome --------------------------
(* Small instances of OrderWriteOutcome for TLC. *)
EXTENDS OrderWriteOutcome, TLC

CONSTANTS o1, o2, o3

Symmetry == Permutations(OrderId)
=============================================================================
