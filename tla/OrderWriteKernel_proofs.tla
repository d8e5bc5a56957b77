----------------------- MODULE OrderWriteKernel_proofs -----------------------
(***************************************************************************)
(* Proofs about OrderWriteKernel, for any number of tokens, requests,      *)
(* worker threads, coroutines and settings, and any windows.               *)
(***************************************************************************)
EXTENDS OrderWriteKernel, TLAPS

\* The type of the shared dictionaries holds in every reachable state.
THEOREM TypeCorrect == Spec => []TypeOK
<1> USE DEF TypeOK, Caller, Never, StoredPreview
<1>1. Init => TypeOK
  <2>1. Init => setBack \in BOOLEAN
    BY Zenon DEF Init
  <2>2. QED BY <2>1, ConfigAssumption, TokenAssumption DEF Init
<1>2. ASSUME TypeOK, [Next]_vars PROVE TypeOK'
  <2> USE <1>2, ConfigAssumption, CallerAssumption, TokenAssumption, TimeAssumption,
          PreviewAssumption
  <2>0. Pruned \in [Request -> Nat \cup {Never}]
    BY DEF Pruned
  <2>1. ASSUME NEW r \in Request, NEW t \in Token, CreatePreview(r, t) PROVE TypeOK'
    <3>1. config.environment \in Environment
      BY DEF SafetyConfig
    <3>2. previews' \in [Token -> StoredPreview \cup {NoPreview}]
      BY <2>1, <3>1 DEF CreatePreview
    <3>3. QED BY <2>1, <2>0, <3>2 DEF CreatePreview, callers
  <2>2. ASSUME NEW r \in Request, NEW t \in Token, LosePreview(r, t) PROVE TypeOK'
    BY <2>2, <2>0 DEF LosePreview, callers
  <2>3. ASSUME NEW c \in Thread, NEW t \in Token, ListStale(c, t) PROVE TypeOK'
    BY <2>3 DEF ListStale, kernel, world
  <2>4. ASSUME NEW c \in Thread, NEW r \in Request, PruneEntry(c, r) PROVE TypeOK'
    BY <2>4 DEF PruneEntry, IsCommitted, world
  <2>5. ASSUME NEW c \in Thread, NEW stmt \in Token \cup {NoToken}, CommitTool(c, stmt)
        PROVE  TypeOK'
    BY <2>5 DEF CommitTool, CheckCommit, kernel
  <2>6. ASSUME NEW c \in Thread, CommitDenied(c) PROVE TypeOK'
    BY <2>6 DEF CommitDenied, Return, kernel, world
  <2>8. ASSUME NEW c \in Task, NEW t \in Token, NEW stmt \in Token \cup {NoToken},
               ExecuteTool(c, t, stmt) PROVE TypeOK'
    BY <2>0, <2>8 DEF ExecuteTool, CheckCommit
  <2>9. CASE CoroutineDenied
    BY <2>0, <2>9 DEF CoroutineDenied, callers, world
  <2>10. ASSUME NEW c \in Caller, AuditFails(c) PROVE TypeOK'
    BY <2>10 DEF AuditFails, Return, kernel, world
  <2>11. ASSUME NEW c \in Caller, Approve(c) PROVE TypeOK'
    BY <2>11 DEF Approve, kernel, world
  <2>12. ASSUME NEW c \in Caller, MarkFingerprint(c) PROVE TypeOK'
    BY <2>12 DEF MarkFingerprint, SetsBack, world
  <2>13. ASSUME NEW c \in Caller, MarkToken(c) PROVE TypeOK'
    <3>1. held[c] \in Token
      BY <2>13 DEF MarkToken
    <3>2. QED BY <2>13, <3>1 DEF MarkToken, world
  <2>14. ASSUME NEW c \in Caller, MarkTime(c)
         PROVE lastCommitAt' \in Nat \cup {Never} /\ setBack' \in BOOLEAN
    BY <2>14 DEF MarkTime, SetsBack
  <2>15. ASSUME NEW c \in Thread, ApproveTool(c) PROVE TypeOK'
    BY <2>14, <2>15 DEF ApproveTool, MarkTime, Return, world
  <2>16. ASSUME NEW c \in Task, ApproveExecution(c) PROVE TypeOK'
    <3>1. CASE previews[held[c]].request \in Unroutable
      BY <2>14, <2>16, <3>1 DEF ApproveExecution, MarkTime, Return, world
    <3>2. CASE previews[held[c]].request \notin Unroutable
      BY <2>14, <2>16, <3>2 DEF ApproveExecution, MarkTime, world
    <3>3. QED BY <3>1, <3>2
  <2>17. ASSUME NEW c \in Task, SendOrderWrite(c) PROVE TypeOK'
    BY <2>17 DEF SendOrderWrite, Return, kernel
  <2>18. ASSUME NEW cfg \in Config, Reconfigure(cfg) PROVE TypeOK'
    BY <2>18 DEF Reconfigure, kernel, callers, world
  <2>19. ASSUME NEW cfg \in Config, Restart(cfg) PROVE TypeOK'
    BY <2>19 DEF Restart
  <2>20. CASE Tick
    BY <2>20 DEF Tick, kernel, callers, world
  <2>21. CASE UNCHANGED vars
    BY <2>21 DEF vars, kernel, callers, world
  <2>22. QED
    BY <2>1, <2>2, <2>3, <2>4, <2>5, <2>6, <2>8, <2>9, <2>10, <2>11, <2>12, <2>13, <2>15,
       <2>16, <2>17, <2>18, <2>19, <2>20, <2>21
       DEF Next
<1>3. QED BY <1>1, <1>2, PTL DEF Spec
-----------------------------------------------------------------------------
(***************************************************************************)
(* The inductive invariant.  Its heart is the event loop: between the      *)
(* commit checks of an order tool and its send no other coroutine can      *)
(* spend the same token, and worker threads spend tokens without sending.  *)
(***************************************************************************)

\* The loop belongs to the coroutine inside a section, which never stops to prune;
\* threads never send.
LoopInv ==
    /\ \A c \in Task : pc[c] # "idle" <=> loop = c
    /\ \A c \in Task : pc[c] # "pruning"
    /\ \A c \in Thread : pc[c] # "send"

\* A preview that exists, or a token that was sent, was issued; a committed or
\* held token still has its preview; a LIVE preview's statement names it.
PreviewInv ==
    /\ \A t \in Token : previews[t] # NoPreview \/ sent[t] > 0 => t \in issued
    /\ \A t \in committedTokens : previews[t] # NoPreview
    /\ \A c \in Caller : pc[c] # "idle" => previews[held[c]] # NoPreview
    /\ \A t \in Token : previews[t] # NoPreview /\ previews[t].environment = "LIVE"
                            => previews[t].statement = t

\* A token that was sent is lost or committed; one that a coroutine holds was
\* never sent, and is committed before the coroutine sends it.
SpentInv ==
    /\ \A t \in Token : sent[t] > 0 /\ previews[t] # NoPreview => t \in committedTokens
    /\ \A c \in Task : pc[c] # "idle" => sent[held[c]] = 0
    /\ \A c \in Task : pc[c] \in {"token", "send"} => held[c] \in committedTokens

\* While a coroutine is inside a section the settings allow its write.
GateInv ==
    \A c \in Task : pc[c] # "idle" =>
        /\ Permitted(config, previews[held[c]].request)
        /\ previews[held[c]].environment = config.environment
        /\ config.environment = "LIVE" => held[c] \in given

OneShotInv == LoopInv /\ PreviewInv /\ SpentInv /\ GateInv /\ OneSendPerPreview

LEMMA OneShotInvInit == Init => OneShotInv
<1> SUFFICES ASSUME Init PROVE OneShotInv
  OBVIOUS
<1> USE DEF Init, Caller
<1>1. LoopInv /\ PreviewInv /\ SpentInv /\ GateInv
  BY CallerAssumption DEF LoopInv, PreviewInv, SpentInv, GateInv
<1>2. OneSendPerPreview
  BY DEF OneSendPerPreview
<1>3. QED BY <1>1, <1>2 DEF OneShotInv

LEMMA OneShotInvStep == TypeOK /\ OneShotInv /\ [Next]_vars => OneShotInv'
<1> SUFFICES ASSUME TypeOK, OneShotInv, [Next]_vars PROVE OneShotInv'
  OBVIOUS
<1> USE CallerAssumption, TokenAssumption, PreviewAssumption
    DEF OneShotInv, LoopInv, PreviewInv, SpentInv, GateInv, OneSendPerPreview, Permitted,
        Caller, TypeOK, StoredPreview, Never
<1>1. ASSUME NEW r \in Request, NEW t \in Token, CreatePreview(r, t) PROVE OneShotInv'
  BY <1>1 DEF CreatePreview, callers
<1>2. ASSUME NEW r \in Request, NEW t \in Token, LosePreview(r, t) PROVE OneShotInv'
  BY <1>2 DEF LosePreview, kernel, callers
<1>3. ASSUME NEW c \in Thread, NEW t \in Token, ListStale(c, t) PROVE OneShotInv'
  BY <1>3 DEF ListStale, kernel, world
<1>4. ASSUME NEW c \in Thread, NEW r \in Request, PruneEntry(c, r) PROVE OneShotInv'
  BY <1>4 DEF PruneEntry, IsCommitted, world
<1>5. ASSUME NEW c \in Thread, NEW stmt \in Token \cup {NoToken}, CommitTool(c, stmt)
      PROVE  OneShotInv'
  BY <1>5 DEF CommitTool, CheckCommit, CommitAllowed, kernel
<1>6. ASSUME NEW c \in Thread, CommitDenied(c) PROVE OneShotInv'
  BY <1>6 DEF CommitDenied, Return, kernel, world
<1>7. ASSUME NEW c \in Task, NEW t \in Token, NEW stmt \in Token \cup {NoToken},
             ExecuteTool(c, t, stmt) PROVE OneShotInv'
  BY <1>7 DEF ExecuteTool, CheckCommit, CommitAllowed, ChatApproved
<1>8. CASE CoroutineDenied
  BY <1>8 DEF CoroutineDenied, callers, world
<1>9. ASSUME NEW c \in Caller, AuditFails(c) PROVE OneShotInv'
  BY <1>9 DEF AuditFails, Return, kernel, world
<1>10. ASSUME NEW c \in Caller, Approve(c) PROVE OneShotInv'
  BY <1>10 DEF Approve, kernel, world
<1>11. ASSUME NEW c \in Caller, MarkFingerprint(c) PROVE OneShotInv'
  BY <1>11 DEF MarkFingerprint, SetsBack, world
<1>12. ASSUME NEW c \in Caller, MarkToken(c) PROVE OneShotInv'
  BY <1>12 DEF MarkToken, world
<1>13. ASSUME NEW c \in Thread, ApproveTool(c) PROVE OneShotInv'
  BY <1>13 DEF ApproveTool, MarkTime, SetsBack, Return, world
<1>14. ASSUME NEW c \in Task, ApproveExecution(c) PROVE OneShotInv'
  <2>1. CASE previews[held[c]].request \in Unroutable
    BY <1>14, <2>1 DEF ApproveExecution, MarkTime, SetsBack, Return, world
  <2>2. CASE previews[held[c]].request \notin Unroutable
    BY <1>14, <2>2 DEF ApproveExecution, MarkTime, SetsBack, world
  <2>3. QED BY <2>1, <2>2
<1>15. ASSUME NEW c \in Task, SendOrderWrite(c) PROVE OneShotInv'
  BY <1>15 DEF SendOrderWrite, Return, kernel
<1>16. ASSUME NEW cfg \in Config, Reconfigure(cfg) PROVE OneShotInv'
  BY <1>16 DEF Reconfigure, kernel, callers, world
<1>17. ASSUME NEW cfg \in Config, Restart(cfg) PROVE OneShotInv'
  BY <1>17 DEF Restart
<1>18. CASE Tick
  BY <1>18 DEF Tick, kernel, callers, world
<1>19. CASE UNCHANGED vars
  BY <1>19 DEF vars, kernel, callers, world
<1>20. QED
  BY <1>1, <1>2, <1>3, <1>4, <1>5, <1>6, <1>7, <1>8, <1>9, <1>10, <1>11, <1>12, <1>13,
     <1>14, <1>15, <1>16, <1>17, <1>18, <1>19
     DEF Next

\* A preview token puts at most one order write on the wire.
THEOREM OneSend == Spec => []OneSendPerPreview
<1>1. Spec => []OneShotInv
  BY TypeCorrect, OneShotInvInit, OneShotInvStep, PTL DEF Spec
<1>2. OneShotInv => OneSendPerPreview
  BY DEF OneShotInv
<1>3. QED BY <1>1, <1>2, PTL

\* At the moment an order write leaves, the current settings allow it.
THEOREM SendsPermitted == Spec => NoSendWhileBlocked
<1> DEFINE Safe == \A t \in Token : sent'[t] # sent[t] =>
                      /\ Permitted(config, previews[t].request)
                      /\ previews[t].environment = config.environment
<1>1. Spec => [](TypeOK /\ OneShotInv)
  BY TypeCorrect, OneShotInvInit, OneShotInvStep, PTL DEF Spec
<1>2. ASSUME TypeOK, OneShotInv, [Next]_vars PROVE [Safe]_vars
  <2>1. ASSUME NEW c \in Task, SendOrderWrite(c) PROVE Safe
    BY <1>2, <2>1 DEF SendOrderWrite, OneShotInv, GateInv, TypeOK
  <2>2. CASE \E c \in Task : SendOrderWrite(c)
    BY <2>1, <2>2
  <2>3. CASE ~ \E c \in Task : SendOrderWrite(c)
    <3>1. UNCHANGED sent
      BY <1>2, <2>3 DEF Next, vars, world, kernel, callers, CreatePreview, LosePreview,
         ListStale, PruneEntry, CommitTool, CommitDenied, ExecuteTool, CoroutineDenied,
         AuditFails, Approve, MarkFingerprint, MarkToken, MarkTime, ApproveTool,
         ApproveExecution, Reconfigure, Restart, Tick
    <3>2. QED BY <3>1
  <2>4. QED BY <2>2, <2>3
<1>3. QED BY <1>1, <1>2, PTL DEF Spec, NoSendWhileBlocked

-----------------------------------------------------------------------------
(***************************************************************************)
(* The spacing of sends.  A coroutine that passed the checks is far enough *)
(* from every send of this process, and stays so until it sends, because   *)
(* no other coroutine runs and, unless a worker thread sets one back, the  *)
(* times in the dictionaries only move forward or are pruned when they no  *)
(* longer matter.                                                          *)
(***************************************************************************)

\* Times come from the clock; a preview that was sent is still there, and a LIVE one had
\* its statement; a coroutine past the audit has read the clock.
ClockInv ==
    /\ lastCommitAt <= now
    /\ \A r \in Request : committedAt[r] <= now
    /\ \A c \in Caller : markedAt[c] <= now
    /\ \A c \in Task : pc[c] \in {"marking", "fingerprint", "token", "send"}
                            => markedAt[c] # Never
    /\ \A t \in Token : sentAt[t] # Never =>
          /\ previews[t] # NoPreview
          /\ previews[t].environment = "LIVE" => t \in given

\* A commit of request r at `time' left its mark, or the mark is too old to matter.
Marked(r, time) == time <= committedAt[r] \/ time + DupWindow <= now

\* Sends, and sends about to happen, left their marks in the dictionaries.
MarkInv ==
    /\ \A t \in Token : sentAt[t] # Never =>
          sentAt[t] <= lastCommitAt /\ Marked(previews[t].request, sentAt[t])
    /\ \A c \in Task :
          /\ pc[c] \in {"fingerprint", "token", "send"} =>
                 Marked(previews[held[c]].request, markedAt[c])
          /\ pc[c] = "send" => markedAt[c] <= lastCommitAt

\* A commit at `time' for the held token of c would be far from every send.
FarFromSends(c, time) ==
    \A t \in Token : sentAt[t] # Never =>
        /\ time - sentAt[t] >= RateWindow
        /\ previews[t].request = previews[held[c]].request => time - sentAt[t] >= DupWindow

FarInv ==
    \A c \in Task :
        /\ pc[c] = "checked" => FarFromSends(c, now)
        /\ pc[c] \in {"marking", "fingerprint", "token", "send"} => FarFromSends(c, markedAt[c])

SpacingInv == ClockInv /\ SendsSpaced /\ (setBack \/ (MarkInv /\ FarInv))

LEMMA SpacingInvInit == Init => SpacingInv
<1> USE CallerAssumption DEF Init, Caller, Never
<1>1. Init => ClockInv /\ MarkInv
  BY DEF ClockInv, MarkInv
<1>2. Init => FarInv /\ SendsSpaced
  BY DEF FarInv, SendsSpaced
<1>3. QED BY <1>1, <1>2 DEF SpacingInv

\* Pruning only takes marks that are too old to matter.
LEMMA PrunedMarks ==
    ASSUME TypeOK, committedAt' = Pruned, UNCHANGED now,
           NEW r \in Request, NEW time \in Nat \cup {Never}
    PROVE  /\ Marked(r, time) => Marked(r, time)'
           /\ committedAt[r] <= now => committedAt'[r] <= now
BY TimeAssumption DEF TypeOK, Pruned, IsCommitted, Marked, Never

LEMMA SpacingInvStep ==
    TypeOK /\ OneShotInv /\ SpacingInv /\ [Next]_vars => SpacingInv'
<1> SUFFICES ASSUME TypeOK, OneShotInv, SpacingInv, [Next]_vars PROVE SpacingInv'
  OBVIOUS
<1> USE CallerAssumption, TokenAssumption, PreviewAssumption, TimeAssumption
    DEF SpacingInv, ClockInv, MarkInv, Marked, FarInv, FarFromSends, SendsSpaced, Distance,
        LoopInv, PreviewInv, Caller, TypeOK, StoredPreview, Never
<1>1. ASSUME NEW r \in Request, NEW t \in Token, CreatePreview(r, t) PROVE SpacingInv'
  BY <1>1 DEF CreatePreview, Pruned, IsCommitted, callers, OneShotInv
<1>2. ASSUME NEW r \in Request, NEW t \in Token, LosePreview(r, t) PROVE SpacingInv'
  <2>1. committedAt' = Pruned /\ UNCHANGED now
    BY <1>2 DEF LosePreview
  <2>2. \A q \in Request : committedAt'[q] <= now
    BY <2>1, PrunedMarks
  <2>3. MarkInv => MarkInv'
    BY <1>2, <2>1, PrunedMarks DEF LosePreview, callers, OneShotInv
  <2>4. ClockInv' /\ SendsSpaced' /\ (FarInv => FarInv') /\ (setBack' <=> setBack)
    BY <1>2, <2>2 DEF LosePreview, callers
  <2>5. QED BY <2>3, <2>4, Zenon DEF SpacingInv
<1>3. ASSUME NEW c \in Thread, NEW t \in Token, ListStale(c, t) PROVE SpacingInv'
  BY <1>3 DEF ListStale, kernel, world
<1>4. ASSUME NEW c \in Thread, NEW r \in Request, PruneEntry(c, r) PROVE SpacingInv'
  <2>1. setBack' \/ (~setBack /\ ~IsCommitted(r))
    BY <1>4, Zenon DEF PruneEntry
  <2>2. ClockInv' /\ SendsSpaced'
    BY <1>4, <2>1 DEF PruneEntry, world
  <2>3. ~IsCommitted(r) /\ MarkInv => MarkInv'
    BY <1>4 DEF PruneEntry, IsCommitted, world
  <2>4. FarInv => FarInv'
    BY <1>4 DEF PruneEntry, world
  <2>5. QED BY <2>1, <2>2, <2>3, <2>4, Zenon DEF SpacingInv
<1>5. ASSUME NEW c \in Thread, NEW stmt \in Token \cup {NoToken}, CommitTool(c, stmt)
      PROVE  SpacingInv'
  BY <1>5 DEF CommitTool, CheckCommit, CommitAllowed, kernel
<1>6. ASSUME NEW c \in Thread, CommitDenied(c) PROVE SpacingInv'
  BY <1>6 DEF CommitDenied, Return, kernel, world
<1>7. ASSUME NEW c \in Task, NEW t \in Token, NEW stmt \in Token \cup {NoToken},
             ExecuteTool(c, t, stmt) PROVE SpacingInv'
  BY <1>7 DEF ExecuteTool, CheckCommit, CommitAllowed, RateLimited, Pruned, IsCommitted,
     OneShotInv
<1>8. CASE CoroutineDenied
  <2>1. committedAt' = Pruned /\ UNCHANGED now
    BY <1>8 DEF CoroutineDenied
  <2>2. \A q \in Request : committedAt'[q] <= now
    BY <2>1, PrunedMarks
  <2>3. MarkInv => MarkInv'
    BY <1>8, <2>1, PrunedMarks DEF CoroutineDenied, callers, world, OneShotInv
  <2>4. ClockInv' /\ SendsSpaced' /\ (FarInv => FarInv') /\ (setBack' <=> setBack)
    BY <1>8, <2>2 DEF CoroutineDenied, callers, world
  <2>5. QED BY <2>3, <2>4, Zenon DEF SpacingInv
<1>9. ASSUME NEW c \in Caller, AuditFails(c) PROVE SpacingInv'
  BY <1>9 DEF AuditFails, Return, kernel, world
<1>10. ASSUME NEW c \in Caller, Approve(c) PROVE SpacingInv'
  BY <1>10 DEF Approve, kernel, world
<1>11. ASSUME NEW c \in Caller, MarkFingerprint(c) PROVE SpacingInv'
  <2> DEFINE r == previews[held[c]].request
  <2>1. setBack' \/ (~setBack /\ ~SetsBack(c, committedAt[r]))
    BY <1>11, Zenon DEF MarkFingerprint
  <2>2. ClockInv' /\ SendsSpaced'
    BY <1>11, <2>1 DEF MarkFingerprint, world
  <2>3. ASSUME ~SetsBack(c, committedAt[r]), MarkInv, FarInv PROVE MarkInv'
    <3>1. /\ r \in Request
          /\ committedAt' = [committedAt EXCEPT ![r] = markedAt[c]]
          /\ UNCHANGED <<now, previews, lastCommitAt, markedAt, held, sentAt>>
      BY <1>11 DEF MarkFingerprint, world, OneShotInv
    <3>2. CASE c \in Thread
      BY <1>11, <2>3, <3>1, <3>2 DEF MarkFingerprint, SetsBack, world
    <3>3. CASE c \in Task
      <4>1. \A t \in Token : sentAt[t] # Never => sentAt[t] <= markedAt[c]
        BY <1>11, <2>3, <3>3 DEF MarkFingerprint
      <4>2. \A t \in Token : sentAt[t] # Never =>
              sentAt[t] <= lastCommitAt' /\ Marked(previews[t].request, sentAt[t])'
        BY <2>3, <3>1, <4>1
      <4>3. \A d \in Task : pc'[d] # "idle" => d = c
        BY <1>11, <3>3 DEF MarkFingerprint, OneShotInv
      <4>4. QED BY <1>11, <3>1, <4>2, <4>3 DEF MarkFingerprint
    <3>4. QED BY <3>2, <3>3
  <2>4. FarInv => FarInv'
    BY <1>11 DEF MarkFingerprint, world
  <2>5. QED BY <2>1, <2>2, <2>3, <2>4, Zenon DEF SpacingInv
<1>12. ASSUME NEW c \in Caller, MarkToken(c) PROVE SpacingInv'
  BY <1>12 DEF MarkToken, world
<1>13. ASSUME NEW c \in Thread, ApproveTool(c) PROVE SpacingInv'
  <2>1. setBack' \/ (~setBack /\ ~SetsBack(c, lastCommitAt))
    BY <1>13, Zenon DEF ApproveTool, MarkTime
  <2>2. ClockInv' /\ SendsSpaced'
    BY <1>13, <2>1 DEF ApproveTool, MarkTime, Return, world
  <2>3. ~SetsBack(c, lastCommitAt) /\ MarkInv => MarkInv'
    BY <1>13 DEF ApproveTool, MarkTime, SetsBack, Return, world
  <2>4. FarInv => FarInv'
    BY <1>13 DEF ApproveTool, MarkTime, Return, world
  <2>5. QED BY <2>1, <2>2, <2>3, <2>4, Zenon DEF SpacingInv
<1>14. ASSUME NEW c \in Task, ApproveExecution(c) PROVE SpacingInv'
  <2>1. ~setBack => ~setBack'
    BY <1>14, Zenon DEF ApproveExecution, MarkTime, SetsBack, Caller
  <2>2. setBack => setBack'
    BY <1>14, Zenon DEF ApproveExecution, MarkTime
  <2>3. CASE previews[held[c]].request \in Unroutable
    <3>1. ClockInv' /\ SendsSpaced'
      BY <1>14, <2>2, <2>3 DEF ApproveExecution, MarkTime, Return, world
    <3>2. ASSUME MarkInv, FarInv PROVE MarkInv'
      <4>1. \A t \in Token : sentAt[t] # Never => sentAt[t] <= markedAt[c]
        BY <1>14, <3>2 DEF ApproveExecution, MarkTime
      <4>2. QED BY <1>14, <2>3, <3>2, <4>1 DEF ApproveExecution, MarkTime, Return, world, OneShotInv
    <3>3. FarInv => FarInv'
      BY <1>14, <2>3 DEF ApproveExecution, MarkTime, Return, world
    <3>4. QED BY <2>1, <2>2, <3>1, <3>2, <3>3, Zenon DEF SpacingInv
  <2>4. CASE previews[held[c]].request \notin Unroutable
    <3>1. ClockInv' /\ SendsSpaced'
      BY <1>14, <2>2, <2>4 DEF ApproveExecution, MarkTime, world
    <3>2. ASSUME MarkInv, FarInv PROVE MarkInv'
      <4>1. \A t \in Token : sentAt[t] # Never => sentAt[t] <= markedAt[c]
        BY <1>14, <3>2 DEF ApproveExecution, MarkTime
      <4>2. QED BY <1>14, <2>4, <3>2, <4>1 DEF ApproveExecution, MarkTime, world, OneShotInv
    <3>3. FarInv => FarInv'
      BY <1>14, <2>4 DEF ApproveExecution, MarkTime, world
    <3>4. QED BY <2>1, <2>2, <3>1, <3>2, <3>3, Zenon DEF SpacingInv
  <2>5. QED BY <2>3, <2>4
<1>15. ASSUME NEW c \in Task, SendOrderWrite(c) PROVE SpacingInv'
  BY <1>15 DEF SendOrderWrite, Return, kernel, OneShotInv, GateInv
<1>16. ASSUME NEW cfg \in Config, Reconfigure(cfg) PROVE SpacingInv'
  BY <1>16 DEF Reconfigure, kernel, callers, world
<1>17. ASSUME NEW cfg \in Config, Restart(cfg) PROVE SpacingInv'
  BY <1>17 DEF Restart
<1>18. CASE Tick
  BY <1>18 DEF Tick, kernel, callers, world
<1>19. CASE UNCHANGED vars
  BY <1>19 DEF vars, kernel, callers, world
<1>20. QED
  BY <1>1, <1>2, <1>3, <1>4, <1>5, <1>6, <1>7, <1>8, <1>9, <1>10, <1>11, <1>12, <1>13,
     <1>14, <1>15, <1>16, <1>17, <1>18, <1>19
     DEF Next

LEMMA SpacingInvariant == Spec => []SpacingInv
BY TypeCorrect, OneShotInvInit, OneShotInvStep, SpacingInvInit, SpacingInvStep, PTL DEF Spec

\* The order writes of one process are spaced by both windows, unless a worker thread has
\* set a time back or deleted a newer one.
THEOREM Spacing == Spec => []SendsSpaced
<1>1. SpacingInv => SendsSpaced
  BY DEF SpacingInv
<1>2. QED BY <1>1, SpacingInvariant, PTL

\* Every LIVE order write followed a commit that came with its own approval statement.
THEOREM LiveApproval == Spec => []LiveSendsApproved
<1>1. TypeOK /\ SpacingInv => LiveSendsApproved
  BY DEF SpacingInv, ClockInv, LiveSendsApproved
<1>2. QED BY <1>1, TypeCorrect, SpacingInvariant, PTL

-----------------------------------------------------------------------------
(* The refinement. *)

\* A step that changes the status of one token only moves that token.
LEMMA OneMoves ==
    ASSUME NEW t \in Token, NEW from, NEW to,
           TokenStatus(t) = from, TokenStatus(t)' = to,
           \A u \in Token \ {t} : TokenStatus(u)' = TokenStatus(u)
    PROVE  OneShot!Move(t, from, to)
<1>1. TokenStatuses' = [TokenStatuses EXCEPT ![t] = to]
  BY DEF TokenStatuses
<1>2. TokenStatuses[t] = from
  BY DEF TokenStatuses
<1>3. QED BY <1>1, <1>2 DEF OneShot!Move

\* The kernel implements the one-shot token: initial states map to initial
\* states, and every step issues, consumes, spends or loses tokens, or changes
\* no token's status.
THEOREM Refinement == Spec => ImplementsOneShotWrite
<1>1. Init => OneShot!Init
  BY DEF Init, OneShot!Init, TokenStatuses, TokenStatus
<1>2. ASSUME TypeOK, OneShotInv, [Next]_vars
      PROVE  [OneShot!Next]_<<TokenStatuses, sent>>
  <2> USE <1>2, CallerAssumption, TokenAssumption, PreviewAssumption
      DEF OneShotInv, LoopInv, PreviewInv, SpentInv, TypeOK, Caller
  <2> DEFINE Stutter == UNCHANGED <<TokenStatuses, sent>>
  <2>1. ASSUME NEW r \in Request, NEW t \in Token, CreatePreview(r, t)
        PROVE  OneShot!Issue(t)
    <3>1. TokenStatus(t) = "unissued" /\ TokenStatus(t)' = "pending"
      <4>1. sent[t] = 0 /\ t \notin committedTokens
        BY <2>1 DEF CreatePreview
      <4>2. previews'[t] # NoPreview
        <5>1. config.environment \in Environment
          BY ConfigAssumption DEF SafetyConfig
        <5>2. previews'[t] \in StoredPreview
          BY <2>1, <5>1, TimeAssumption DEF CreatePreview, StoredPreview
        <5>3. QED BY <5>2
      <4>3. TokenStatus(t) = "unissued"
        BY <2>1, <4>1 DEF CreatePreview, TokenStatus
      <4>4. sent'[t] = 0 /\ t \in issued' /\ t \notin committedTokens'
        BY <2>1, <4>1 DEF CreatePreview
      <4>5. TokenStatus(t)' = "pending"
        BY <4>2, <4>4 DEF TokenStatus
      <4>6. QED BY <4>3, <4>5
    <3>2. \A u \in Token \ {t} : TokenStatus(u)' = TokenStatus(u)
      BY <2>1 DEF CreatePreview, TokenStatus
    <3>3. QED BY <2>1, <3>1, <3>2, OneMoves DEF OneShot!Issue, CreatePreview
  <2>2. ASSUME NEW r \in Request, NEW t \in Token, LosePreview(r, t)
        PROVE  OneShot!Discard(t)
    <3>1. TokenStatus(t) = "unissued" /\ TokenStatus(t)' = "lost"
      BY <2>2 DEF LosePreview, kernel, TokenStatus
    <3>2. \A u \in Token \ {t} : TokenStatus(u)' = TokenStatus(u)
      BY <2>2 DEF LosePreview, kernel, TokenStatus
    <3>3. QED BY <2>2, <3>1, <3>2, OneMoves DEF OneShot!Discard, LosePreview
  <2>3. ASSUME NEW c \in Caller, MarkToken(c) PROVE OneShot!Next \/ Stutter
    <3> USE DEF MarkToken, world
    <3>1. PICK t \in Token : t = held[c]
      BY <2>3
    <3>2. previews[t] # NoPreview /\ committedTokens' = committedTokens \cup {t}
      BY <2>3, <3>1
    <3>3. \A u \in Token \ {t} : TokenStatus(u)' = TokenStatus(u)
      BY <2>3, <3>2 DEF TokenStatus
    <3>4. CASE t \in committedTokens
      <4>1. committedTokens' = committedTokens
        BY <3>2, <3>4
      <4>2. QED BY <2>3, <4>1 DEF TokenStatuses, TokenStatus
    <3>5. CASE t \notin committedTokens
      <4>1. sent[t] = 0 /\ t \in issued
        BY <3>2, <3>5
      <4>2. TokenStatus(t) = "pending"
        BY <3>2, <3>5, <4>1 DEF TokenStatus
      <4>3. TokenStatus(t)' = "consumed"
        BY <2>3, <3>2, <4>1 DEF TokenStatus
      <4>4. OneShot!Consume(t)
        BY <2>3, <3>3, <4>2, <4>3, OneMoves DEF OneShot!Consume
      <4>5. QED BY <4>4 DEF OneShot!Next
    <3>6. QED BY <3>4, <3>5
  <2>4. ASSUME NEW c \in Task, SendOrderWrite(c) PROVE OneShot!Next
    <3>1. PICK t \in Token : t = held[c]
      BY <2>4 DEF SendOrderWrite
    <3>2. /\ previews[t] # NoPreview /\ sent[t] = 0
          /\ t \in committedTokens /\ t \in issued
      BY <2>4, <3>1 DEF SendOrderWrite
    <3>3. /\ sent' = [sent EXCEPT ![t] = @ + 1]
          /\ UNCHANGED <<previews, committedTokens, issued>>
      BY <2>4, <3>1 DEF SendOrderWrite, kernel
    <3>4. TokenStatus(t) = "consumed"
      BY <3>2 DEF TokenStatus
    <3>5. TokenStatus(t)' = "sent"
      <4>1. sent'[t] = 1
        BY <3>2, <3>3
      <4>2. QED BY <4>1 DEF TokenStatus
    <3>6. \A u \in Token \ {t} : TokenStatus(u)' = TokenStatus(u)
      BY <3>3 DEF TokenStatus
    <3>7. OneShot!Write(t)
      BY <3>3, <3>4, <3>5, <3>6, OneMoves DEF OneShot!Write
    <3>8. QED BY <3>7 DEF OneShot!Next
  <2>5. ASSUME NEW cfg \in Config, Restart(cfg) PROVE OneShot!Next
    <3>1. \A t \in Token : TokenStatus(t)' =
             IF TokenStatus(t) \in {"pending", "consumed"} THEN "lost" ELSE TokenStatus(t)
      BY <2>5 DEF Restart, TokenStatus
    <3>2. OneShot!LoseAll
      BY <2>5, <3>1 DEF Restart, OneShot!LoseAll, TokenStatuses
    <3>3. QED BY <3>2 DEF OneShot!Next
  <2>6. ASSUME UNCHANGED <<previews, committedTokens, issued, sent>> PROVE Stutter
    BY <2>6 DEF TokenStatuses, TokenStatus
  <2>7. CASE \E r \in Request, t \in Token : CreatePreview(r, t) \/ LosePreview(r, t)
    BY <2>1, <2>2, <2>7 DEF OneShot!Next
  <2>8. CASE \/ \E c \in Thread, t \in Token : ListStale(c, t)
             \/ \E c \in Thread, r \in Request : PruneEntry(c, r)
             \/ \E c \in Thread, stmt \in Token \cup {NoToken} : CommitTool(c, stmt)
             \/ \E c \in Thread : CommitDenied(c) \/ ApproveTool(c)
             \/ \E c \in Task, t \in Token, stmt \in Token \cup {NoToken} :
                    ExecuteTool(c, t, stmt)
             \/ CoroutineDenied
             \/ \E c \in Caller : AuditFails(c) \/ Approve(c) \/ MarkFingerprint(c)
             \/ \E c \in Task : ApproveExecution(c)
             \/ \E cfg \in Config : Reconfigure(cfg)
             \/ Tick
             \/ UNCHANGED vars
    <3>1. UNCHANGED <<previews, committedTokens, issued, sent>>
      BY <2>8 DEF ListStale, PruneEntry, CommitTool, CommitDenied, ExecuteTool,
         CoroutineDenied, AuditFails, Approve, MarkFingerprint, MarkTime, ApproveTool,
         ApproveExecution, Reconfigure, Tick, vars, kernel, world
    <3>2. QED BY <3>1, <2>6
  <2>9. QED
    BY <2>3, <2>4, <2>5, <2>7, <2>8 DEF Next
<1>3. QED
  BY <1>1, <1>2, TypeCorrect, OneShotInvInit, OneShotInvStep, PTL
     DEF Spec, ImplementsOneShotWrite, OneShot!Spec
=============================================================================
