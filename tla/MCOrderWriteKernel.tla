-------------------------- MODULE MCOrderWriteKernel --------------------------
(* Small instances of OrderWriteKernel for TLC. *)
EXTENDS OrderWriteKernel, TLC

CONSTANTS t1, t2, r1, r2, r3, th1, th2, k1, k2

Settings(env, kill, rs) ==
    [environment |-> env, live_writes_enabled |-> (env = "LIVE"),
     global_kill_switch |-> kill, permitted |-> rs \cap Request]

\* SIM and LIVE trading sessions that allow different requests, and LIVE with the kill switch on.
MCConfig == {Settings("SIM", FALSE, {r1, r2}), Settings("LIVE", FALSE, {r1, r2, r3}),
             Settings("LIVE", TRUE, {r1})}

Symmetry == Permutations(Token) \cup Permutations(Task)
=============================================================================
