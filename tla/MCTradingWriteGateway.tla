------------------------- MODULE MCTradingWriteGateway -------------------------
(* Small instances of TradingWriteGateway for TLC. *)
EXTENDS TradingWriteGateway, TLC

CONSTANTS t1, t2, r1, r2, th1, k1, k2

Settings(env, kill) ==
    [environment |-> env, live_writes_enabled |-> (env = "LIVE"),
     global_kill_switch |-> kill, permitted |-> Request]

\* SIM and LIVE sessions, and LIVE with the kill switch on.
MCConfig == {Settings("SIM", FALSE), Settings("LIVE", FALSE), Settings("LIVE", TRUE)}

Symmetry == Permutations(Token) \cup Permutations(Task)
=============================================================================
