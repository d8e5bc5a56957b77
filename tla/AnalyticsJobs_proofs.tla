------------------------- MODULE AnalyticsJobs_proofs -------------------------
(***************************************************************************)
(* Proofs about AnalyticsJobs, for any number of server processes, jobs    *)
(* and launches, any capacity, and with failing stores and cleanups.       *)
(***************************************************************************)
EXTENDS AnalyticsJobs, TLAPS

FinalCodes == {"job_completed", "job_failed", "job_cancelled", "job_expired"}

\* The jobs table, the stop intents and the finalizers, as far as the end of a job
\* depends on them.
RowsOK ==
    /\ rows \in [Job -> Row]
    /\ intents \in [Process -> [Job -> StopCode \cup {"none"}]]

\* A completed job has no workspace left that its finalizer could fail to remove:
\* _commit_analysis and _run_job remove it before they write the row.
CompletedIsClean ==
    \A j \in Job : rows[j].code = "job_completed" => j \notin workspaces

FinalInv == RowsOK /\ CompletedIsClean

\* What a step may do to the rows and the workspaces.
FinalStep ==
    \A j \in Job : rows[j].code \in FinalCodes
        => rows'[j].code = rows[j].code /\ (j \in workspaces' => j \in workspaces)

-----------------------------------------------------------------------------
\* A new code for an active row keeps what is final (_set_terminal, _write_row).
LEMMA ActiveRow ==
    ASSUME FinalInv, NEW j \in Job, NEW code \in StatusCode,
           rows' = [rows EXCEPT ![j].code = code], Active(j),
           workspaces' \subseteq workspaces,
           code = "job_completed" => j \notin workspaces'
    PROVE  /\ rows' \in [Job -> Row]
           /\ CompletedIsClean'
           /\ FinalStep
<1>1. rows' \in [Job -> Row]
  BY DEF FinalInv, RowsOK, Row
<1>2. CompletedIsClean'
  BY DEF FinalInv, RowsOK, Row, CompletedIsClean
<1>3. FinalStep
  BY DEF FinalInv, RowsOK, Row, FinalStep, FinalCodes, Active, ActiveCode
<1>4. QED BY <1>1, <1>2, <1>3

\* A step that leaves the rows alone and adds no workspace.
LEMMA SameRows ==
    ASSUME FinalInv, rows' = rows, workspaces' \subseteq workspaces
    PROVE  /\ rows' \in [Job -> Row]
           /\ CompletedIsClean'
           /\ FinalStep
BY DEF FinalInv, RowsOK, CompletedIsClean, FinalStep

\* The error path of _run_job writes an active row or none.
LEMMA RaiseStep ==
    ASSUME FinalInv, NEW p \in Process, NEW t \in Task,
           NEW code \in {"job_failed", "job_expired"}, Raise(p, t, code),
           workspaces' \subseteq workspaces
    PROVE  /\ rows' \in [Job -> Row]
           /\ CompletedIsClean'
           /\ FinalStep
<1>1. t[1] \in Job /\ code \in StatusCode
  BY DEF Task, StatusCode, StopCode
<1>2. CASE rows' = rows
  BY <1>2, SameRows
<1>3. CASE rows' = [rows EXCEPT ![t[1]].code = code] /\ Active(t[1])
  BY <1>1, <1>3, ActiveRow
<1>4. QED BY <1>2, <1>3 DEF Raise

\* A conclusion writes an active row whose workspace it has removed, or raises.
LEMMA ConcludeStep ==
    ASSUME FinalInv, NEW p \in Process, NEW t \in Task, NEW result,
           Conclude(p, t, result), Active(t[1])
    PROVE  /\ rows' \in [Job -> Row]
           /\ CompletedIsClean'
           /\ FinalStep
<1>1. t[1] \in Job /\ "job_completed" \in StatusCode
  BY DEF Task, StatusCode
<1>2. CASE /\ rows' = [rows EXCEPT ![t[1]].code = "job_completed"]
           /\ workspaces' = workspaces \ {t[1]}
  BY <1>1, <1>2, ActiveRow
<1>3. CASE Raise(p, t, "job_failed") /\ UNCHANGED workspaces
  BY <1>3, RaiseStep
<1>4. CASE Raise(p, t, "job_failed") /\ workspaces' = workspaces \ {t[1]}
  BY <1>4, RaiseStep
<1>5. QED BY <1>2, <1>3, <1>4 DEF Conclude

\* The code a finalizer chooses is a code of the jobs table.
LEMMA FinalCodeType ==
    ASSUME RowsOK, NEW p \in Process, NEW j \in Job, NEW g
    PROVE  FinalCode(p, <<j, g>>) \in StatusCode \ {"job_completed"}
<1>1. <<j, g>>[1] = j
  OBVIOUS
<1>2. intents[p][j] \in StopCode \cup {"none"}
  BY DEF RowsOK
<1>3. QED BY <1>1, <1>2 DEF FinalCode, StatusCode, StopCode
-----------------------------------------------------------------------------
\* Every step keeps the invariant, and what it does to the rows is final.
LEMMA InvariantStep ==
    ASSUME FinalInv, [Next]_vars
    PROVE  FinalInv' /\ FinalStep
<1>. DEFINE Good == /\ rows' \in [Job -> Row]
                    /\ CompletedIsClean'
                    /\ FinalStep
            SameIntents == intents' = intents
<1>1. ASSUME NEW p \in Process, OpenManager(p) \/ OpenFails(p) PROVE Good /\ SameIntents
  <2>1. \A j \in Job : rows'[j] = Interrupted(rows[j]) /\ rows[j] \in Row
    BY <1>1 DEF OpenManager, OpenFails, FinalInv, RowsOK
  <2>2. rows' \in [Job -> Row]
    BY <1>1, <2>1 DEF OpenManager, OpenFails, Interrupted, Row, StatusCode, StopCode
  <2>3. workspaces' \subseteq workspaces /\ analyses' = analyses /\ SameIntents
    BY <1>1 DEF OpenManager, OpenFails
  <2>4. \A j \in Job : \/ rows'[j].code = rows[j].code
                       \/ /\ rows[j].code \in ActiveCode
                          /\ rows'[j].code = "job_interrupted_restart_required"
    BY <2>1 DEF Interrupted, Row
  <2>5. CompletedIsClean'
    BY <2>3, <2>4 DEF CompletedIsClean, FinalInv
  <2>6. FinalStep
    BY <2>3, <2>4 DEF FinalStep, FinalCodes, ActiveCode
  <2>7. QED BY <2>2, <2>3, <2>5, <2>6
<1>2. ASSUME NEW p \in Process, Crash(p) PROVE Good /\ intents' \in
             [Process -> [Job -> StopCode \cup {"none"}]]
  BY <1>2, SameRows DEF Crash, store, NoIntent, FinalInv, RowsOK
<1>3. ASSUME NEW p \in Process, NEW j \in Job, StartJob(p, j) PROVE Good /\ SameIntents
  <2>1. /\ rows[j].code \in {"absent", "job_interrupted_restart_required"}
        /\ rows[j].run + 1 \in Run
        /\ rows' = [rows EXCEPT ![j] =
                      [code |-> "job_queued", run |-> rows[j].run + 1, expired |-> FALSE]]
        /\ workspaces' = workspaces \cup {j} /\ SameIntents
    BY <1>3 DEF StartJob
  <2>2. [code |-> "job_queued", run |-> rows[j].run + 1, expired |-> FALSE] \in Row
    BY <2>1 DEF Row, StatusCode, ActiveCode
  <2>3. rows' \in [Job -> Row]
    BY <2>1, <2>2 DEF FinalInv, RowsOK
  <2>4. \A i \in Job : i # j => rows'[i] = rows[i]
    BY <2>1 DEF FinalInv, RowsOK
  <2>5. rows'[j].code = "job_queued"
    BY <2>1 DEF FinalInv, RowsOK
  <2>6. QED
    BY <2>1, <2>3, <2>4, <2>5 DEF FinalInv, CompletedIsClean, FinalStep, FinalCodes
<1>4. ASSUME NEW p \in Process, NEW t \in Task, StartCalculation(p, t)
      PROVE  Good /\ SameIntents
  <2>1. t[1] \in Job /\ "job_running" \in StatusCode
    BY DEF Task, StatusCode, ActiveCode
  <2>2. CASE UNCHANGED store
    BY <2>2, <1>4, SameRows DEF StartCalculation, store
  <2>3. CASE /\ rows[t[1]].code = "job_queued" /\ UNCHANGED workspaces
             /\ rows' = [rows EXCEPT ![t[1]].code = "job_running"]
    BY <2>1, <2>3, <1>4, ActiveRow DEF StartCalculation, Active, ActiveCode
  <2>4. CASE /\ Raise(p, t, "job_expired") \/ Raise(p, t, "job_failed")
             /\ UNCHANGED workspaces
    BY <2>4, <1>4, RaiseStep DEF StartCalculation
  <2>5. QED BY <1>4, <2>2, <2>3, <2>4 DEF StartCalculation
<1>5. ASSUME NEW p \in Process, NEW t \in Task, RunReport(p, t) PROVE Good /\ SameIntents
  <2>1. CASE UNCHANGED store
    BY <2>1, <1>5, SameRows DEF RunReport, store
  <2>2. CASE /\ Raise(p, t, "job_failed") \/ Raise(p, t, "job_expired")
             /\ UNCHANGED workspaces
    BY <2>2, <1>5, RaiseStep DEF RunReport
  <2>3. CASE rows[t[1]].code = "job_queued" /\ Conclude(p, t, {})
    BY <2>3, <1>5, ConcludeStep DEF RunReport, Active, ActiveCode
  <2>4. QED BY <1>5, <2>1, <2>2, <2>3 DEF RunReport
<1>6. ASSUME NEW p \in Process, NEW t \in Task, PollRaises(p, t) PROVE Good /\ SameIntents
  <2>1. Raise(p, t, "job_failed") \/ Raise(p, t, "job_expired")
    BY <1>6 DEF PollRaises
  <2>2. QED BY <1>6, <2>1, RaiseStep DEF PollRaises
<1>7. ASSUME NEW p \in Process, NEW t \in Task, ConcludeTask(p, t)
      PROVE  Good /\ SameIntents
  <2>1. CASE /\ Raise(p, t, "job_failed") \/ Raise(p, t, "job_expired")
             /\ UNCHANGED workspaces
    BY <2>1, <1>7, RaiseStep DEF ConcludeTask
  <2>2. CASE ~Refused(p, t[1]) /\ Conclude(p, t, {t})
    BY <2>2, <1>7, ConcludeStep DEF ConcludeTask, Refused, Active, ActiveCode
  <2>3. QED BY <1>7, <2>1, <2>2 DEF ConcludeTask
<1>8. ASSUME NEW p \in Process, NEW t \in Task, DeliverCancel(p, t)
      PROVE  Good /\ SameIntents
  BY <1>8, SameRows DEF DeliverCancel, store
<1>9. ASSUME NEW p \in Process, NEW t \in Task, DrainEnds(p, t) PROVE Good /\ SameIntents
  <2>1. CASE UNCHANGED store
    BY <2>1, <1>9, SameRows DEF DrainEnds, store
  <2>2. CASE Raise(p, t, "job_failed") /\ UNCHANGED workspaces
    BY <2>2, <1>9, RaiseStep DEF DrainEnds
  <2>3. QED BY <1>9, <2>1, <2>2 DEF DrainEnds
<1>10. ASSUME NEW p \in Process, NEW t \in Task,
              \/ TaskDone(p, t) \/ CallerResumes(p, t) \/ CallerLeaves(p, t)
              \/ \E result \in {"ok", "error"} : WorkerEnds(p, t, result)
       PROVE  Good /\ SameIntents
  BY <1>10, SameRows DEF TaskDone, CallerResumes, CallerLeaves, WorkerEnds, store
<1>11. ASSUME NEW p \in Process, NEW j \in Job, FinalizeTask(p, j)
       PROVE  Good /\ intents' \in [Process -> [Job -> StopCode \cup {"none"}]]
  <2>1. PICK failed \in BOOLEAN :
          /\ failed => CleanupFails(j)
          /\ workspaces' = IF failed THEN workspaces ELSE workspaces \ {j}
          /\ \/ /\ rows' =
                     IF failed /\ (Active(j) \/ rows[j].code = "job_completed")
                       THEN [rows EXCEPT ![j].code = "job_failed"]
                     ELSE IF Active(j)
                       THEN [rows EXCEPT ![j].code = FinalCode(p, <<j, finalizers[p][j]>>)]
                     ELSE rows
                /\ intents' = [intents EXCEPT ![p][j] = "none"]
             \/ StoreMayFail /\ UNCHANGED <<rows, intents>>
    BY <1>11 DEF FinalizeTask
  <2>2. workspaces' \subseteq workspaces
    BY <2>1
  <2>3. rows[j].code = "job_completed" => ~failed
    BY <2>1 DEF CleanupFails, FinalInv, CompletedIsClean
  <2>4. Good
    <3>1. CASE rows' = rows
      BY <2>2, <3>1, SameRows
    <3>2. CASE rows' = [rows EXCEPT ![j].code = "job_failed"] /\ Active(j)
      <4>1. "job_failed" \in StatusCode /\ "job_failed" # "job_completed"
        BY DEF StatusCode
      <4>2. QED BY <2>2, <3>2, <4>1, ActiveRow
    <3>3. CASE /\ rows' = [rows EXCEPT ![j].code = FinalCode(p, <<j, finalizers[p][j]>>)]
               /\ Active(j)
      <4>1. FinalCode(p, <<j, finalizers[p][j]>>) \in StatusCode \ {"job_completed"}
        BY FinalCodeType DEF FinalInv
      <4>2. QED BY <2>2, <3>3, <4>1, ActiveRow
    <3>4. CASE failed /\ (Active(j) \/ rows[j].code = "job_completed")
      <4>1. Active(j)
        BY <2>3, <3>4
      <4>2. rows' = rows \/ rows' = [rows EXCEPT ![j].code = "job_failed"]
        BY <2>1, <3>4
      <4>3. QED BY <3>1, <3>2, <4>1, <4>2
    <3>5. CASE ~(failed /\ (Active(j) \/ rows[j].code = "job_completed"))
      BY <2>1, <3>1, <3>3, <3>5
    <3>6. QED BY <3>4, <3>5
  <2>5. intents' \in [Process -> [Job -> StopCode \cup {"none"}]]
    BY <2>1 DEF FinalInv, RowsOK
  <2>6. QED BY <2>4, <2>5
<1>12. ASSUME NEW p \in Process, NEW j \in Job, NEW code \in {"job_expired", "job_cancelled"},
              StopJob(p, j, code)
       PROVE  Good /\ intents' \in [Process -> [Job -> StopCode \cup {"none"}]]
  <2>1. code \in StatusCode \ {"job_completed"} /\ code \in StopCode
    BY DEF StatusCode, StopCode
  <2>2. CASE rows' = [rows EXCEPT ![j].code = code] /\ UNCHANGED intents
    BY <1>12, <2>1, <2>2, ActiveRow DEF StopJob, FinalInv, RowsOK
  <2>3. CASE /\ UNCHANGED rows
             /\ intents' = [intents EXCEPT ![p][j] = IF @ = "none" THEN code ELSE @]
    <3>1. Good
      BY <1>12, <2>3, SameRows DEF StopJob
    <3>2. QED BY <2>1, <2>3, <3>1 DEF FinalInv, RowsOK
  <2>4. QED BY <1>12, <2>2, <2>3 DEF StopJob
<1>13. ASSUME NEW p \in Process, Shutdown(p)
       PROVE  Good /\ intents' \in [Process -> [Job -> StopCode \cup {"none"}]]
  <2>1. Good
    BY <1>13, SameRows DEF Shutdown, store
  <2>2. intents' = [intents EXCEPT ![p] = [j \in Job |->
           IF tasks[p][j] # NoRun /\ intents[p][j] = "none"
             THEN "job_interrupted_restart_required" ELSE intents[p][j]]]
    BY <1>13 DEF Shutdown
  <2>3. QED BY <2>1, <2>2 DEF FinalInv, RowsOK, StopCode
<1>14. ASSUME NEW p \in Process, ShutdownStep(p)
       PROVE  Good /\ intents' \in [Process -> [Job -> StopCode \cup {"none"}]]
  BY <1>14, SameRows
     DEF ShutdownStep, ShutdownFinalizes, CloseStore, store, NoIntent, FinalInv, RowsOK
<1>15. ASSUME NEW j \in Job, Expire(j) PROVE Good /\ SameIntents
  BY <1>15 DEF Expire, FinalInv, RowsOK, Row, CompletedIsClean, FinalStep
<1>16. CASE UNCHANGED vars
  BY <1>16, SameRows DEF vars, store, FinalInv, RowsOK
<1>17. QED
  BY <1>1, <1>2, <1>3, <1>4, <1>5, <1>6, <1>7, <1>8, <1>9, <1>10, <1>11, <1>12, <1>13, <1>14,
     <1>15, <1>16 DEF Next, TaskStep, GetJob, CancelJob, FinalInv, RowsOK

\* A completed, failed, cancelled or expired job never gets another status
\* (_set_terminal, _write_row and their guards), however many processes share the
\* store and whatever fails.
THEOREM FinalEnd == Spec => EndIsFinal
<1>1. Init => FinalInv
  BY DEF Init, FinalInv, RowsOK, Row, StatusCode, CompletedIsClean, NoIntent
<1>2. FinalInv /\ [Next]_vars => FinalInv'
  BY InvariantStep
<1>3. FinalInv /\ [Next]_vars =>
        [\A j \in Job :
            rows[j].code \in {"job_completed", "job_failed", "job_cancelled", "job_expired"}
              => rows'[j].code = rows[j].code]_vars
  BY InvariantStep DEF FinalStep, FinalCodes
<1>4. QED BY <1>1, <1>2, <1>3, PTL DEF Spec, EndIsFinal
-----------------------------------------------------------------------------
(* Type correctness, for any number of processes. *)

\* A launch is its job and its number.
LEMMA Launch ==
    ASSUME NEW j \in Job, NEW g \in Run
    PROVE  /\ <<j, g>> \in Task /\ <<j, g>>[1] = j /\ <<j, g>>[2] = g
           /\ \A t \in Task : t[1] = j /\ t[2] = g => t = <<j, g>>
BY DEF Task

\* Its parts; no launch has the number NoRun.
LEMMA TaskParts == \A t \in Task : t[1] \in Job /\ t[2] \in Run /\ t[2] # NoRun
BY BoundAssumption DEF Task, Run, NoRun

\* What EnsureFinalizers leaves in _finalizers.
LEMMA Finalizers ==
    ASSUME finalizers \in [Process -> [Job -> Run \cup {NoRun}]],
           NEW p \in Process, NEW runs \in SUBSET Task, EnsureFinalizers(p, runs)
    PROVE  /\ finalizers' \in [Process -> [Job -> Run \cup {NoRun}]]
           /\ \A j \in Job : \/ finalizers'[p][j] = finalizers[p][j]
                             \/ <<j, finalizers'[p][j]>> \in runs /\ finalizers'[p][j] \in Run
<1>. DEFINE New(j) == CHOOSE g \in Run : <<j, g>> \in runs
<1>1. \A j \in Job : (\E g \in Run : <<j, g>> \in runs) => New(j) \in Run /\ <<j, New(j)>> \in runs
  OBVIOUS
<1>2. \A j \in Job : finalizers'[p][j] = IF finalizers[p][j] = NoRun /\ \E g \in Run : <<j, g>> \in runs
                                           THEN New(j) ELSE finalizers[p][j]
  BY DEF EnsureFinalizers
<1>. HIDE DEF New
<1>3. \A j \in Job : \/ finalizers'[p][j] = finalizers[p][j]
                     \/ <<j, finalizers'[p][j]>> \in runs /\ finalizers'[p][j] \in Run
  BY <1>1, <1>2
<1>4. \E f \in [Job -> Run \cup {NoRun}] : finalizers' = [finalizers EXCEPT ![p] = f]
  <2>. DEFINE f == [j \in Job |-> IF finalizers[p][j] = NoRun /\ \E g \in Run : <<j, g>> \in runs
                                    THEN New(j) ELSE finalizers[p][j]]
  <2>1. f \in [Job -> Run \cup {NoRun}]
    BY <1>1
  <2>2. finalizers' = [finalizers EXCEPT ![p] = f]
    BY DEF EnsureFinalizers, New
  <2>. QED BY <2>1, <2>2
<1>5. finalizers' \in [Process -> [Job -> Run \cup {NoRun}]]
  BY <1>4
<1>. QED BY <1>3, <1>5

\* What of the type is not about the rows and the intents.
RunsKnown == \A p \in Process, t \in Task : phase[p][t] # "none" => t[2] <= rows[t[1]].run

\* Only a task that may still run is asked to stop (task.done(), task.cancel()).
Requested == \A p \in Process : \A t \in cancelling[p] : phase[p][t] \in Live

LoopOK ==
    /\ phase \in [Process -> [Task -> Live \cup Ended \cup {"none"}]]
    /\ cancelling \in [Process -> SUBSET Task] /\ callbacks \in [Process -> SUBSET Task]
    /\ RunsKnown /\ Requested

\* A launch that is known stays known while no run of a row changes.
LEMMA KnownStays ==
    ASSUME RunsKnown, \A j \in Job : rows'[j].run = rows[j].run,
           \A p \in Process, t \in Task : phase'[p][t] # "none" => phase[p][t] # "none"
    PROVE  RunsKnown'
BY TaskParts DEF RunsKnown

\* A task that ends, or goes on, changes its coroutine, its request and its callback.
LEMMA EndType ==
    ASSUME LoopOK, NEW p \in Process, NEW t \in Task, phase[p][t] # "none",
           \E how \in Ended : End(p, t, how),
           \A j \in Job : rows'[j].run = rows[j].run
    PROVE  LoopOK'
<1>1. /\ phase' \in [Process -> [Task -> Live \cup Ended \cup {"none"}]]
      /\ \A q \in Process, u \in Task : phase'[q][u] # "none" => phase[q][u] # "none"
  BY DEF LoopOK, Requested, End
<1>2. cancelling' \in [Process -> SUBSET Task] /\ callbacks' \in [Process -> SUBSET Task]
  BY DEF LoopOK, Requested, End
<1>3. RunsKnown'
  BY <1>1, KnownStays DEF LoopOK
<1>4. Requested'
  BY DEF LoopOK, Requested, End
<1>. QED BY <1>1, <1>2, <1>3, <1>4 DEF LoopOK

\* Writing a code changes no run.
LEMMA CodeWritten ==
    ASSUME RowsOK, NEW i \in Job, NEW code, rows' = [rows EXCEPT ![i].code = code] \/ rows' = rows
    PROVE  \A j \in Job : rows'[j].run = rows[j].run
BY DEF RowsOK, Row

\* An error of _run_job, or a conclusion, ends the task.
LEMMA RaiseType ==
    ASSUME RowsOK, LoopOK, NEW p \in Process, NEW t \in Task, phase[p][t] # "none",
           \/ \E code : Raise(p, t, code)
           \/ \E result : Conclude(p, t, result)
    PROVE  LoopOK'
<1>1. \E how \in Ended : End(p, t, how)
  BY DEF Raise, Conclude, Ended
<1>2. rows' = rows \/ \E code : rows' = [rows EXCEPT ![t[1]].code = code]
  BY DEF Raise, Conclude
<1>3. \A j \in Job : rows'[j].run = rows[j].run
  BY <1>2, TaskParts, CodeWritten
<1>. QED BY <1>1, <1>3, EndType

\* Every step keeps the types, and what is known of a launch.
LEMMA TypeStep ==
    ASSUME TypeOK, FinalInv, Requested, [Next]_vars
    PROVE  TypeOK' /\ Requested'
<1>. DEFINE Rest == /\ analyses \subseteq Task /\ workspaces \subseteq Job
                    /\ manager \in [Process -> {"down", "open", "closing", "finalizing"}]
                    /\ tasks \in [Process -> [Job -> Run \cup {NoRun}]]
                    /\ finalizers \in [Process -> [Job -> Run \cup {NoRun}]]
                    /\ waiting \in [Process -> SUBSET Task] /\ stopping \in [Process -> SUBSET Task]
                    /\ worker \in [Process -> [Task -> {"none", "running", "ok", "error"}]]
<1>1. Rest /\ LoopOK /\ RowsOK
  BY DEF TypeOK, LoopOK, Requested, RowsOK, RunsKnown
<1>2. RowsOK'
  BY InvariantStep DEF FinalInv
<1>3. ASSUME NEW p \in Process, OpenManager(p) \/ OpenFails(p) PROVE Rest' /\ LoopOK'
  <2>1. \A j \in Job : rows'[j].run = rows[j].run
    <3>1. \A j \in Job : rows'[j] = Interrupted(rows[j]) /\ rows[j] \in Row
      BY <1>1, <1>3 DEF OpenManager, OpenFails, RowsOK
    <3>. QED BY <3>1 DEF Interrupted, Row
  <2>2. RunsKnown'
    BY <1>1, <1>3, <2>1, KnownStays DEF OpenManager, OpenFails, loop, LoopOK, Requested
  <2>. QED BY <1>1, <1>3, <2>2 DEF OpenManager, OpenFails, loop, LoopOK, Requested
<1>4. ASSUME NEW p \in Process, Crash(p) PROVE Rest' /\ LoopOK'
  <2>1. phase' \in [Process -> [Task -> Live \cup Ended \cup {"none"}]]
    BY <1>1, <1>4 DEF Crash, LoopOK, Requested, NoPhase
  <2>2. \A q \in Process, u \in Task : phase'[q][u] # "none" => phase[q][u] # "none"
    BY <1>1, <1>4 DEF Crash, LoopOK, Requested, NoPhase
  <2>3. RunsKnown'
    BY <1>1, <1>4, <2>2, KnownStays DEF Crash, store, LoopOK, Requested
  <2>. QED BY <1>1, <1>4, <2>1, <2>3 DEF Crash, store, LoopOK, Requested, NoTask, NoWorker, NoRun
<1>5. ASSUME NEW p \in Process, NEW j \in Job, StartJob(p, j) PROVE Rest' /\ LoopOK'
  <2>. DEFINE g == rows[j].run + 1
  <2>1. /\ g \in Run /\ <<j, g>> \in Task /\ <<j, g>>[1] = j /\ <<j, g>>[2] = g
    BY <1>5, Launch DEF StartJob
  <2>2. /\ rows'[j].run = g
        /\ \A i \in Job : i # j => rows'[i] = rows[i]
    BY <1>1, <1>5 DEF StartJob, RowsOK
  <2>3. \A q \in Process, t \in Task : phase'[q][t] # "none" => phase[q][t] # "none" \/ t = <<j, g>>
    BY <1>1, <1>5 DEF StartJob, LoopOK, Requested
  <2>4. rows[j].run <= g
    <3>1. rows[j].run \in Int
      BY <1>1, BoundAssumption DEF RowsOK, Row, Run, NoRun
    <3>. QED BY <3>1
  <2>5. RunsKnown'
    <3>1. SUFFICES ASSUME NEW q \in Process, NEW t \in Task, phase'[q][t] # "none"
                   PROVE  t[2] <= rows'[t[1]].run
      BY DEF RunsKnown
    <3>2. CASE t = <<j, g>>
      <4>1. g \in Int
        BY <2>1, BoundAssumption DEF Run
      <4>. QED BY <2>1, <2>2, <3>2, <4>1
    <3>3. CASE phase[q][t] # "none"
      <4>1. t[2] <= rows[t[1]].run /\ t[1] \in Job
        BY <1>1, <3>3, TaskParts DEF LoopOK, Requested, RunsKnown
      <4>2. CASE t[1] = j
        <5>1. t[2] \in Int /\ rows[j].run \in Int
          BY <1>1, BoundAssumption, TaskParts DEF RowsOK, Row, Run, NoRun
        <5>. QED BY <2>2, <2>4, <4>1, <4>2, <5>1
      <4>. QED BY <2>2, <4>1, <4>2
    <3>. QED BY <2>3, <3>1, <3>2, <3>3
  <2>6. phase' \in [Process -> [Task -> Live \cup Ended \cup {"none"}]]
    BY <1>1, <1>5, <2>1 DEF StartJob, LoopOK, Requested, Live
  <2>7. Requested'
    BY <1>1, <1>5, <2>1 DEF StartJob, LoopOK, Requested, Live
  <2>8. LoopOK'
    BY <1>1, <1>5, <2>5, <2>6, <2>7 DEF StartJob, LoopOK
  <2>. QED BY <1>1, <1>5, <2>1, <2>8 DEF StartJob
<1>6. ASSUME NEW p \in Process, NEW t \in Task, StartCalculation(p, t) PROVE Rest' /\ LoopOK'
  <2>1. phase[p][t] # "none"
    BY <1>6 DEF StartCalculation
  <2>2. CASE \/ End(p, t, "returned") /\ UNCHANGED <<store, worker>>
             \/ /\ Raise(p, t, "job_expired") \/ Raise(p, t, "job_failed")
                /\ UNCHANGED <<workspaces, worker>>
    <3>1. LoopOK'
      BY <1>1, <2>1, <2>2, EndType, RaiseType DEF store, Ended
    <3>. QED BY <1>1, <1>6, <2>2, <3>1 DEF StartCalculation, Raise, store
  <2>3. CASE /\ rows' = [rows EXCEPT ![t[1]].code = "job_running"]
             /\ phase' = [phase EXCEPT ![p][t] = "polling"]
             /\ worker' = [worker EXCEPT ![p][t] = "running"]
             /\ UNCHANGED <<analyses, workspaces, cancelling, callbacks>>
    <3>1. \A j \in Job : rows'[j].run = rows[j].run
      BY <1>1, <2>3, TaskParts, CodeWritten
    <3>2. /\ phase' \in [Process -> [Task -> Live \cup Ended \cup {"none"}]]
          /\ \A q \in Process, u \in Task : phase'[q][u] # "none" => phase[q][u] # "none"
      BY <1>1, <2>1, <2>3 DEF LoopOK, Requested, Live
    <3>3. RunsKnown'
      BY <1>1, <3>1, <3>2, KnownStays DEF LoopOK
    <3>4. Requested'
      BY <1>1, <2>3 DEF LoopOK, Requested, Live
    <3>. QED BY <1>1, <1>6, <2>3, <3>2, <3>3, <3>4 DEF StartCalculation, LoopOK
  <2>. QED BY <1>6, <2>2, <2>3 DEF StartCalculation
<1>7. ASSUME NEW p \in Process, NEW t \in Task, RunReport(p, t) PROVE Rest' /\ LoopOK'
  <2>1. phase[p][t] # "none"
    BY <1>7 DEF RunReport
  <2>2. \/ End(p, t, "returned") /\ UNCHANGED store
        \/ \E code : Raise(p, t, code) /\ UNCHANGED workspaces
        \/ Conclude(p, t, {})
    BY <1>7 DEF RunReport
  <2>3. LoopOK'
    BY <1>1, <2>1, <2>2, EndType, RaiseType DEF store, Ended
  <2>4. analyses' \subseteq Task /\ workspaces' \subseteq Job
    BY <1>1, <2>2 DEF Raise, Conclude, store
  <2>. QED BY <1>1, <1>7, <2>3, <2>4 DEF RunReport
<1>8. ASSUME NEW p \in Process, NEW t \in Task, PollRaises(p, t) PROVE Rest' /\ LoopOK'
  <2>1. phase[p][t] # "none" /\ \E code : Raise(p, t, code)
    BY <1>8 DEF PollRaises
  <2>2. LoopOK' /\ UNCHANGED analyses
    BY <1>1, <2>1, RaiseType DEF Raise
  <2>. QED BY <1>1, <1>8, <2>2 DEF PollRaises
<1>9. ASSUME NEW p \in Process, NEW t \in Task, ConcludeTask(p, t) PROVE Rest' /\ LoopOK'
  <2>1. phase[p][t] # "none"
    BY <1>9 DEF ConcludeTask
  <2>2. \/ \E code : Raise(p, t, code) /\ UNCHANGED workspaces
        \/ Conclude(p, t, {t})
    BY <1>9 DEF ConcludeTask
  <2>3. LoopOK'
    BY <1>1, <2>1, <2>2, RaiseType
  <2>4. analyses' \subseteq Task /\ workspaces' \subseteq Job
    BY <1>1, <2>2 DEF Raise, Conclude
  <2>. QED BY <1>1, <1>9, <2>3, <2>4 DEF ConcludeTask
<1>10. ASSUME NEW p \in Process, NEW t \in Task, DeliverCancel(p, t) PROVE Rest' /\ LoopOK'
  <2>1. phase[p][t] # "none"
    BY <1>1, <1>10 DEF DeliverCancel, LoopOK, Requested, Live
  <2>2. UNCHANGED store
    BY <1>10 DEF DeliverCancel
  <2>3. CASE End(p, t, "cancelled")
    <3>1. LoopOK'
      BY <1>1, <2>1, <2>2, <2>3, EndType DEF store, Ended
    <3>2. worker' \in [Process -> [Task -> {"none", "running", "ok", "error"}]]
      <4>1. worker' = worker \/ worker' = [worker EXCEPT ![p][t] = IF @ = "running" THEN @ ELSE "none"]
        BY <1>10 DEF DeliverCancel
      <4>2. worker \in [Process -> [Task -> {"none", "running", "ok", "error"}]]
        BY <1>1
      <4>. QED BY <4>1, <4>2
    <3>3. UNCHANGED <<analyses, workspaces, manager, tasks, finalizers, waiting, stopping>>
      BY <1>10 DEF DeliverCancel, store
    <3>. QED BY <1>1, <3>1, <3>2, <3>3
  <2>4. CASE /\ phase' = [phase EXCEPT ![p][t] = "draining"]
             /\ cancelling' = [cancelling EXCEPT ![p] = @ \ {t}]
             /\ UNCHANGED <<callbacks, worker>>
    <3>1. /\ phase' \in [Process -> [Task -> Live \cup Ended \cup {"none"}]]
          /\ \A q \in Process, u \in Task : phase'[q][u] # "none" => phase[q][u] # "none"
      BY <1>1, <2>1, <2>4 DEF LoopOK, Live
    <3>2. RunsKnown'
      BY <1>1, <2>2, <3>1, KnownStays DEF LoopOK, store
    <3>3. Requested'
      BY <1>1, <2>4 DEF LoopOK, Requested
    <3>. QED BY <1>1, <1>10, <2>2, <2>4, <3>1, <3>2, <3>3 DEF DeliverCancel, LoopOK, store
  <2>. QED BY <1>10, <2>3, <2>4 DEF DeliverCancel
<1>11. ASSUME NEW p \in Process, NEW t \in Task, DrainEnds(p, t) PROVE Rest' /\ LoopOK'
  <2>1. phase[p][t] # "none"
    BY <1>11 DEF DrainEnds
  <2>2. \/ End(p, t, "cancelled") /\ UNCHANGED store
        \/ Raise(p, t, "job_failed") /\ UNCHANGED workspaces
    BY <1>11 DEF DrainEnds
  <2>3. LoopOK'
    BY <1>1, <2>1, <2>2, EndType, RaiseType DEF store, Ended
  <2>4. analyses' \subseteq Task /\ workspaces' \subseteq Job
    BY <1>1, <2>2 DEF Raise, store
  <2>. QED BY <1>1, <1>11, <2>3, <2>4 DEF DrainEnds
<1>12. ASSUME NEW p \in Process, NEW t \in Task,
              \/ TaskDone(p, t) \/ CallerResumes(p, t) \/ CallerLeaves(p, t)
              \/ \E result \in {"ok", "error"} : WorkerEnds(p, t, result)
       PROVE  Rest' /\ LoopOK'
  <2>1. RunsKnown'
    BY <1>1, <1>12 DEF TaskDone, CallerResumes, CallerLeaves, WorkerEnds, store, LoopOK, Requested, RunsKnown
  <2>2. finalizers' \in [Process -> [Job -> Run \cup {NoRun}]]
    BY <1>1, <1>12, Finalizers DEF TaskDone, CallerResumes, CallerLeaves, WorkerEnds
  <2>3. worker' \in [Process -> [Task -> {"none", "running", "ok", "error"}]]
    <3>1. \/ worker' = worker
          \/ \E value \in {"none", "ok", "error"} : worker' = [worker EXCEPT ![p][t] = value]
      BY <1>12 DEF TaskDone, CallerResumes, CallerLeaves, WorkerEnds
    <3>2. \A value \in {"none", "ok", "error"} :
             [worker EXCEPT ![p][t] = value] \in [Process -> [Task -> {"none", "running", "ok", "error"}]]
      BY <1>1
    <3>3. CASE worker' = worker
      BY <1>1, <3>3
    <3>4. CASE \E value \in {"none", "ok", "error"} : worker' = [worker EXCEPT ![p][t] = value]
      BY <3>2, <3>4
    <3>. QED BY <3>1, <3>3, <3>4
  <2>4. UNCHANGED <<analyses, workspaces, manager, tasks, stopping, phase, cancelling>>
    BY <1>12 DEF TaskDone, CallerResumes, CallerLeaves, WorkerEnds, store
  <2>5. callbacks' \in [Process -> SUBSET Task] /\ waiting' \in [Process -> SUBSET Task]
    <3>1. callbacks' = callbacks \/ callbacks' = [callbacks EXCEPT ![p] = @ \ {t}]
      BY <1>12 DEF TaskDone, CallerResumes, CallerLeaves, WorkerEnds
    <3>2. waiting' = waiting \/ waiting' = [waiting EXCEPT ![p] = @ \ {t}]
      BY <1>12 DEF TaskDone, CallerResumes, CallerLeaves, WorkerEnds
    <3>3. /\ [callbacks EXCEPT ![p] = @ \ {t}] \in [Process -> SUBSET Task]
          /\ [waiting EXCEPT ![p] = @ \ {t}] \in [Process -> SUBSET Task]
      BY <1>1 DEF LoopOK
    <3>. QED BY <1>1, <3>1, <3>2, <3>3 DEF LoopOK
  <2>6. Requested'
    BY <1>1, <2>4 DEF LoopOK, Requested
  <2>7. LoopOK'
    BY <1>1, <2>1, <2>4, <2>5, <2>6 DEF LoopOK
  <2>. QED BY <1>1, <2>2, <2>3, <2>4, <2>5, <2>7
<1>13. ASSUME NEW p \in Process, NEW j \in Job, FinalizeTask(p, j) PROVE Rest' /\ LoopOK'
  <2>1. \A i \in Job : rows'[i].run = rows[i].run
    BY <1>1, <1>13, CodeWritten DEF FinalizeTask
  <2>2. RunsKnown'
    BY <1>1, <1>13, <2>1, KnownStays DEF FinalizeTask, loop, LoopOK, Requested
  <2>. QED BY <1>1, <1>13, <2>2 DEF FinalizeTask, loop, LoopOK, Requested
<1>14. ASSUME NEW p \in Process, NEW j \in Job, \E code : StopJob(p, j, code)
       PROVE  Rest' /\ LoopOK'
  <2>1. PICK code : StopJob(p, j, code)
    BY <1>14
  <2>2. \A i \in Job : rows'[i].run = rows[i].run
    BY <1>1, <2>1, CodeWritten DEF StopJob
  <2>3. RunsKnown'
    BY <1>1, <2>1, <2>2, KnownStays DEF StopJob, LoopOK, Requested
  <2>4. CASE tasks[p][j] = NoRun
    BY <1>1, <2>1, <2>3, <2>4 DEF StopJob, LoopOK, Requested
  <2>5. CASE tasks[p][j] # NoRun
    <3>. DEFINE t == <<j, tasks[p][j]>>
    <3>1. t \in Task
      BY <1>1, <2>5, Launch
    <3>2. /\ cancelling' = [cancelling EXCEPT ![p] = @ \cup {u \in {t} : phase[p][u] \in Live}]
          /\ waiting' = [waiting EXCEPT ![p] = @ \cup {t}]
          /\ phase' = phase /\ callbacks' = callbacks
      BY <2>1, <2>5 DEF StopJob, Cancel
    <3>. HIDE DEF t
    <3>3. Requested'
      BY <1>1, <3>1, <3>2 DEF LoopOK, Requested
    <3>4. LoopOK'
      BY <1>1, <2>3, <3>1, <3>2, <3>3 DEF LoopOK
    <3>5. waiting' \in [Process -> SUBSET Task]
      BY <1>1, <3>1, <3>2
    <3>6. /\ analyses' = analyses /\ workspaces' = workspaces /\ manager' = manager /\ tasks' = tasks
          /\ finalizers' = finalizers /\ stopping' = stopping /\ worker' = worker
      BY <2>1 DEF StopJob
    <3>. QED BY <1>1, <3>4, <3>5, <3>6
  <2>. QED BY <2>4, <2>5
<1>15. ASSUME NEW p \in Process, Shutdown(p) PROVE Rest' /\ LoopOK'
  BY <1>1, <1>15 DEF Shutdown, Cancel, store, LoopOK, Requested, RunsKnown
<1>16. ASSUME NEW p \in Process, ShutdownStep(p) PROVE Rest' /\ LoopOK'
  <2>1. CASE ShutdownFinalizes(p)
    <3>1. stopping[p] \subseteq Task
      BY <1>1
    <3>. QED BY <1>1, <2>1, <3>1, Finalizers DEF ShutdownFinalizes, store, loop, LoopOK, Requested, RunsKnown
  <2>2. CASE CloseStore(p)
    BY <1>1, <2>2 DEF CloseStore, store, LoopOK, Requested, RunsKnown, NoTask, NoRun
  <2>. QED BY <1>16, <2>1, <2>2 DEF ShutdownStep
<1>17. ASSUME NEW j \in Job, Expire(j) PROVE Rest' /\ LoopOK'
  <2>1. \A i \in Job : rows'[i].run = rows[i].run
    BY <1>1, <1>17 DEF Expire, RowsOK, Row
  <2>2. RunsKnown'
    BY <1>1, <1>17, <2>1, KnownStays DEF Expire, loop, LoopOK, Requested
  <2>. QED BY <1>1, <1>17, <2>2 DEF Expire, loop, LoopOK, Requested
<1>18. ASSUME UNCHANGED vars PROVE Rest' /\ LoopOK'
  <2>1. /\ rows' = rows /\ analyses' = analyses /\ workspaces' = workspaces /\ manager' = manager
        /\ tasks' = tasks /\ finalizers' = finalizers /\ waiting' = waiting /\ stopping' = stopping
        /\ worker' = worker /\ phase' = phase /\ cancelling' = cancelling /\ callbacks' = callbacks
    BY <1>18 DEF vars, store, loop
  <2>2. LoopOK'
    BY <1>1, <2>1 DEF LoopOK, Requested, RunsKnown
  <2>. QED BY <1>1, <2>1, <2>2
<1>19. Rest' /\ LoopOK'
  <2>. HIDE DEF Rest
  <2>1. ASSUME NEW p \in Process, NEW t \in Task, TaskStep(p, t) PROVE Rest' /\ LoopOK'
    BY <1>6, <1>7, <1>8, <1>9, <1>10, <1>11, <1>12, <2>1 DEF TaskStep
  <2>2. ASSUME NEW p \in Process, NEW j \in Job,
               StartJob(p, j) \/ GetJob(p, j) \/ CancelJob(p, j) \/ FinalizeTask(p, j)
        PROVE  Rest' /\ LoopOK'
    BY <1>5, <1>13, <1>14, <2>2 DEF GetJob, CancelJob
  <2>3. ASSUME NEW p \in Process, NEW t \in Task,
               \/ CallerResumes(p, t) \/ CallerLeaves(p, t)
               \/ \E result \in {"ok", "error"} : WorkerEnds(p, t, result)
        PROVE  Rest' /\ LoopOK'
    BY <1>12, <2>3
  <2>. QED BY <1>3, <1>4, <1>15, <1>16, <1>17, <1>18, <2>1, <2>2, <2>3 DEF Next
<1>. QED BY <1>2, <1>19 DEF TypeOK, LoopOK, Requested, RowsOK, RunsKnown

\* The jobs table and the manager's dictionaries keep their types, and a coroutine is of a
\* run the table knows.
THEOREM TypeCorrect == Spec => []TypeOK
<1>1. Init => TypeOK /\ FinalInv /\ Requested
  BY DEF Init, TypeOK, Requested, FinalInv, RowsOK, Row, StatusCode, CompletedIsClean, NoIntent, NoTask,
     NoPhase, NoWorker, NoRun
<1>2. TypeOK /\ FinalInv /\ Requested /\ [Next]_vars => (TypeOK /\ FinalInv /\ Requested)'
  BY TypeStep, InvariantStep
<1>. QED BY <1>1, <1>2, PTL DEF Spec
-----------------------------------------------------------------------------
(* How a job completes, for any number of processes. *)

CompletesNothing ==
    /\ analyses' = analyses
    /\ \A j \in Job : rows'[j].code = "job_completed"
                        => rows[j].code = "job_completed" /\ rows'[j].run = rows[j].run

\* The task that completes its job still runs, and no stop intent is set in its process.
Completes(p, t) ==
    /\ phase[p][t] \in Live /\ Active(t[1]) /\ intents[p][t[1]] = "none"
    /\ rows' = [rows EXCEPT ![t[1]].code = "job_completed"]
    /\ \/ t[1] \in Report /\ analyses' = analyses
       \/ phase[p][t] = "polling" /\ analyses' = analyses \cup {t}

\* Any other code than the completed one completes nothing.
LEMMA OtherCode ==
    ASSUME RowsOK, analyses' = analyses,
           \/ rows' = rows
           \/ \E j \in Job, code \in StatusCode \ {"job_completed"} : rows' = [rows EXCEPT ![j].code = code]
    PROVE  CompletesNothing
<1>1. CASE rows' = rows
  BY <1>1 DEF CompletesNothing
<1>2. ASSUME NEW i \in Job, NEW code \in StatusCode \ {"job_completed"},
             rows' = [rows EXCEPT ![i].code = code]
      PROVE  CompletesNothing
  BY <1>2 DEF CompletesNothing, RowsOK, Row
<1>. QED BY <1>1, <1>2

\* An error of _run_job completes nothing.
LEMMA RaiseCompletes ==
    ASSUME RowsOK, NEW p \in Process, NEW t \in Task,
           Raise(p, t, "job_failed") \/ Raise(p, t, "job_expired")
    PROVE  CompletesNothing
<1>1. /\ analyses' = analyses
      /\ \/ rows' = rows
         \/ \E code \in {"job_failed", "job_expired"} : rows' = [rows EXCEPT ![t[1]].code = code]
  BY DEF Raise
<1>2. {"job_failed", "job_expired"} \subseteq StatusCode \ {"job_completed"}
  BY DEF StatusCode, StopCode
<1>. QED BY <1>1, <1>2, TaskParts, OtherCode

\* Only a conclusion completes a job, and it does so for a task without a stop intent
\* (_commit_analysis, report_progress).
LEMMA Completion ==
    ASSUME TypeOK, FinalInv, [Next]_vars
    PROVE  CompletesNothing \/ \E p \in Process, t \in Task : Completes(p, t)
<1>. DEFINE Goal == CompletesNothing \/ \E p \in Process, t \in Task : Completes(p, t)
<1>1. RowsOK
  BY DEF FinalInv
<1>2. ASSUME analyses' = analyses, rows' = rows PROVE Goal
  BY <1>1, <1>2, OtherCode
<1>3. ASSUME NEW p \in Process, OpenManager(p) \/ OpenFails(p) PROVE Goal
  BY <1>1, <1>3 DEF OpenManager, OpenFails, Interrupted, CompletesNothing, RowsOK, Row
<1>4. ASSUME NEW p \in Process, NEW j \in Job, StartJob(p, j) PROVE Goal
  BY <1>1, <1>4 DEF StartJob, CompletesNothing, RowsOK, Row
<1>5. ASSUME NEW p \in Process, NEW t \in Task, StartCalculation(p, t) PROVE Goal
  <2>1. CASE rows' = [rows EXCEPT ![t[1]].code = "job_running"] /\ analyses' = analyses
    BY <1>1, <2>1, TaskParts, OtherCode DEF StatusCode, ActiveCode
  <2>. QED BY <1>1, <1>2, <1>5, <2>1, RaiseCompletes DEF StartCalculation, store
<1>6. ASSUME NEW p \in Process, NEW t \in Task, NEW result, Conclude(p, t, result),
             phase[p][t] \in Live, Active(t[1]), intents[p][t[1]] = "none",
             \/ t[1] \in Report /\ result = {}
             \/ phase[p][t] = "polling" /\ result = {t}
      PROVE  Goal
  <2>1. CASE /\ rows' = [rows EXCEPT ![t[1]].code = "job_completed"]
             /\ analyses' = analyses \cup result
    BY <1>6, <2>1 DEF Completes
  <2>. QED BY <1>1, <1>6, <2>1, RaiseCompletes DEF Conclude
<1>7. ASSUME NEW p \in Process, NEW t \in Task, RunReport(p, t) PROVE Goal
  <2>1. CASE rows[t[1]].code = "job_queued" /\ ~Stopped(p, t[1]) /\ Conclude(p, t, {})
    BY <1>6, <1>7, <2>1 DEF RunReport, Live, Active, ActiveCode, Stopped
  <2>. QED BY <1>1, <1>2, <1>7, <2>1, RaiseCompletes DEF RunReport, store
<1>8. ASSUME NEW p \in Process, NEW t \in Task, PollRaises(p, t) PROVE Goal
  BY <1>1, <1>8, RaiseCompletes DEF PollRaises
<1>9. ASSUME NEW p \in Process, NEW t \in Task, ConcludeTask(p, t) PROVE Goal
  <2>1. CASE ~Refused(p, t[1]) /\ Conclude(p, t, {t})
    BY <1>6, <1>9, <2>1 DEF ConcludeTask, Live, Active, ActiveCode, Refused, Stopped
  <2>. QED BY <1>1, <1>9, <2>1, RaiseCompletes DEF ConcludeTask
<1>10. ASSUME NEW p \in Process, NEW t \in Task, DrainEnds(p, t) PROVE Goal
  BY <1>1, <1>2, <1>10, RaiseCompletes DEF DrainEnds, store
<1>11. ASSUME NEW p \in Process, NEW j \in Job, FinalizeTask(p, j) PROVE Goal
  <2>1. /\ analyses' = analyses
        /\ \/ rows' = rows
           \/ rows' = [rows EXCEPT ![j].code = "job_failed"]
           \/ rows' = [rows EXCEPT ![j].code = FinalCode(p, <<j, finalizers[p][j]>>)]
    BY <1>11 DEF FinalizeTask
  <2>2. "job_failed" \in StatusCode \ {"job_completed"}
    BY DEF StatusCode
  <2>3. FinalCode(p, <<j, finalizers[p][j]>>) \in StatusCode \ {"job_completed"}
    BY <1>1, FinalCodeType
  <2>. QED BY <1>1, <2>1, <2>2, <2>3, OtherCode
<1>12. ASSUME NEW p \in Process, NEW j \in Job, NEW code \in {"job_expired", "job_cancelled"},
              StopJob(p, j, code)
       PROVE  Goal
  <2>1. /\ analyses' = analyses
        /\ rows' = rows \/ rows' = [rows EXCEPT ![j].code = code]
    BY <1>12 DEF StopJob
  <2>2. code \in StatusCode \ {"job_completed"}
    BY DEF StatusCode, StopCode
  <2>. QED BY <1>1, <2>1, <2>2, OtherCode
<1>13. ASSUME NEW j \in Job, Expire(j) PROVE Goal
  BY <1>1, <1>13 DEF Expire, CompletesNothing, RowsOK, Row
<1>14. ASSUME NEW p \in Process, Crash(p) \/ Shutdown(p) \/ ShutdownStep(p) PROVE Goal
  BY <1>2, <1>14 DEF Crash, Shutdown, ShutdownStep, ShutdownFinalizes, CloseStore, store
<1>15. ASSUME NEW p \in Process, NEW t \in Task,
              \/ DeliverCancel(p, t) \/ TaskDone(p, t) \/ CallerResumes(p, t) \/ CallerLeaves(p, t)
              \/ \E result \in {"ok", "error"} : WorkerEnds(p, t, result)
       PROVE  Goal
  BY <1>2, <1>15 DEF DeliverCancel, TaskDone, CallerResumes, CallerLeaves, WorkerEnds, store
<1>16. ASSUME UNCHANGED vars PROVE Goal
  BY <1>2, <1>16 DEF vars, store
<1>. HIDE DEF Goal
<1>17. ASSUME NEW p \in Process, NEW t \in Task, TaskStep(p, t) PROVE Goal
  BY <1>5, <1>7, <1>8, <1>9, <1>10, <1>15, <1>17 DEF TaskStep
<1>18. ASSUME NEW p \in Process, NEW j \in Job,
              StartJob(p, j) \/ GetJob(p, j) \/ CancelJob(p, j) \/ FinalizeTask(p, j)
       PROVE  Goal
  BY <1>4, <1>11, <1>12, <1>18 DEF GetJob, CancelJob
<1>19. Goal
  BY <1>3, <1>13, <1>14, <1>15, <1>16, <1>17, <1>18 DEF Next
<1>. QED BY <1>19 DEF Goal
-----------------------------------------------------------------------------
(* Whatever is waited for will come, for any number of processes. *)

\* WaitsEnd in one process, and what a caller that begins to wait relies on: a registered run
\* has a coroutine.
Answered(p) ==
    \A t \in Task :
        /\ phase[p][t] \in {"polling", "draining"} => worker[p][t] # "none"
        /\ t \in waiting[p] \cup stopping[p] =>
              t \in cancelling[p] \/ phase[p][t] \in Ended \cup {"draining"}
        /\ tasks[p][t[1]] = t[2] => phase[p][t] # "none"

\* A step that leaves the coroutines of a process alone, and adds no wait, worker or task.
LEMMA AnsweredStays ==
    ASSUME NEW p \in Process, Answered(p),
           phase'[p] = phase[p], cancelling[p] \subseteq cancelling'[p],
           waiting'[p] \subseteq waiting[p], stopping'[p] \subseteq stopping[p],
           \A t \in Task : worker[p][t] # "none" => worker'[p][t] # "none",
           \A j \in Job : tasks'[p][j] \in {tasks[p][j], NoRun}
    PROVE  Answered(p)'
BY TaskParts DEF Answered

\* A task that ends frees its callers.
LEMMA AnsweredByEnd ==
    ASSUME TypeOK, NEW p \in Process, Answered(p), NEW t \in Task,
           \E how \in Ended : End(p, t, how),
           waiting' = waiting, stopping' = stopping, tasks' = tasks,
           worker' = worker \/ \E w : worker' = [worker EXCEPT ![p][t] = w]
    PROVE  Answered(p)'
<1>1. PICK how \in Ended : End(p, t, how)
  OBVIOUS
<1>2. \A u \in Task : /\ phase'[p][u] = IF u = t THEN how ELSE phase[p][u]
                      /\ u # t => (u \in cancelling[p] => u \in cancelling'[p])
                      /\ u # t => worker'[p][u] = worker[p][u]
  BY <1>1 DEF End, TypeOK
<1>3. how # "none" /\ how \notin {"polling", "draining"}
  BY DEF Ended
<1>. QED BY <1>2, <1>3 DEF Answered

\* A step of one process concerns no other.
OnlyConcerns(q) ==
    \A p \in Process \ {q} :
        /\ phase'[p] = phase[p] /\ cancelling'[p] = cancelling[p] /\ waiting'[p] = waiting[p]
        /\ stopping'[p] = stopping[p] /\ worker'[p] = worker[p] /\ tasks'[p] = tasks[p]

LEMMA OtherProcess ==
    ASSUME TypeOK, NEW q \in Process,
           \/ OpenManager(q) \/ OpenFails(q) \/ Crash(q) \/ Shutdown(q) \/ ShutdownStep(q)
           \/ \E j \in Job : StartJob(q, j) \/ GetJob(q, j) \/ CancelJob(q, j) \/ FinalizeTask(q, j)
           \/ \E t \in Task : \/ TaskStep(q, t) \/ CallerResumes(q, t) \/ CallerLeaves(q, t)
                              \/ \E result \in {"ok", "error"} : WorkerEnds(q, t, result)
    PROVE  OnlyConcerns(q)
<1>1. ASSUME OpenManager(q) \/ OpenFails(q) \/ Crash(q) \/ Shutdown(q) \/ ShutdownStep(q) PROVE OnlyConcerns(q)
  BY <1>1 DEF OpenManager, OpenFails, Crash, Shutdown, Cancel, ShutdownStep, ShutdownFinalizes,
     CloseStore, loop, OnlyConcerns, TypeOK
<1>2. ASSUME NEW j \in Job, StartJob(q, j) \/ GetJob(q, j) \/ CancelJob(q, j) \/ FinalizeTask(q, j)
      PROVE  OnlyConcerns(q)
  BY <1>2 DEF StartJob, GetJob, CancelJob, StopJob, Cancel, FinalizeTask, loop, OnlyConcerns, TypeOK
<1>3. ASSUME NEW t \in Task, StartCalculation(q, t) \/ RunReport(q, t) PROVE OnlyConcerns(q)
  BY <1>3 DEF StartCalculation, RunReport, Conclude, Raise, End, OnlyConcerns, TypeOK
<1>4. ASSUME NEW t \in Task, PollRaises(q, t) \/ ConcludeTask(q, t) PROVE OnlyConcerns(q)
  BY <1>4 DEF PollRaises, ConcludeTask, Conclude, Raise, End, OnlyConcerns, TypeOK
<1>5. ASSUME NEW t \in Task, DeliverCancel(q, t) \/ DrainEnds(q, t) \/ TaskDone(q, t)
      PROVE  OnlyConcerns(q)
  BY <1>5 DEF DeliverCancel, DrainEnds, TaskDone, Raise, End, OnlyConcerns, TypeOK
<1>6. ASSUME NEW t \in Task, \/ CallerResumes(q, t) \/ CallerLeaves(q, t)
                             \/ \E result \in {"ok", "error"} : WorkerEnds(q, t, result)
      PROVE  OnlyConcerns(q)
  BY <1>6 DEF CallerResumes, CallerLeaves, WorkerEnds, OnlyConcerns, TypeOK
<1>. QED BY <1>1, <1>2, <1>3, <1>4, <1>5, <1>6 DEF TaskStep

\* The steps of a coroutine answer those who wait.
LEMMA AnsweredByTask ==
    ASSUME TypeOK, Requested, NEW p \in Process, Answered(p), NEW t \in Task, TaskStep(p, t)
    PROVE  Answered(p)'
<1>1. ASSUME \E how \in Ended : End(p, t, how), waiting' = waiting, stopping' = stopping, tasks' = tasks,
             worker' = worker \/ \E w : worker' = [worker EXCEPT ![p][t] = w]
      PROVE  Answered(p)'
  BY <1>1, AnsweredByEnd
<1>2. /\ \A code : Raise(p, t, code) => End(p, t, "returned")
      /\ \A result : Conclude(p, t, result) => End(p, t, "returned")
      /\ "returned" \in Ended /\ "cancelled" \in Ended
  BY DEF Raise, Conclude, Ended
<1>3. CASE StartCalculation(p, t)
  <2>1. CASE /\ phase' = [phase EXCEPT ![p][t] = "polling"]
             /\ worker' = [worker EXCEPT ![p][t] = "running"]
             /\ cancelling' = cancelling
    <3>1. \A u \in Task : /\ phase'[p][u] = IF u = t THEN "polling" ELSE phase[p][u]
                          /\ worker'[p][u] = IF u = t THEN "running" ELSE worker[p][u]
      BY <2>1 DEF TypeOK
    <3>2. t \notin waiting[p] \cup stopping[p]
      BY <1>3 DEF StartCalculation, Answered, Ended
    <3>. QED BY <1>3, <2>1, <3>1, <3>2 DEF StartCalculation, Answered
  <2>2. CASE End(p, t, "returned") /\ worker' = worker
    BY <1>1, <1>2, <1>3, <2>2 DEF StartCalculation
  <2>. QED BY <1>2, <1>3, <2>1, <2>2 DEF StartCalculation
<1>4. CASE RunReport(p, t)
  <2>1. End(p, t, "returned")
    BY <1>2, <1>4 DEF RunReport
  <2>. QED BY <1>1, <1>2, <1>4, <2>1 DEF RunReport
<1>5. CASE PollRaises(p, t)
  <2>1. End(p, t, "returned") /\ \E w : worker' = [worker EXCEPT ![p][t] = w]
    BY <1>2, <1>5 DEF PollRaises
  <2>. QED BY <1>1, <1>2, <1>5, <2>1 DEF PollRaises
<1>6. CASE ConcludeTask(p, t)
  <2>1. End(p, t, "returned") /\ \E w : worker' = [worker EXCEPT ![p][t] = w]
    BY <1>2, <1>6 DEF ConcludeTask
  <2>. QED BY <1>1, <1>2, <1>6, <2>1 DEF ConcludeTask
<1>7. CASE DeliverCancel(p, t)
  <2>1. CASE phase[p][t] = "polling"
    <3>1. \A u \in Task : /\ phase'[p][u] = IF u = t THEN "draining" ELSE phase[p][u]
                          /\ u # t => (u \in cancelling[p] => u \in cancelling'[p])
      BY <1>7, <2>1 DEF DeliverCancel, TypeOK
    <3>2. worker' = worker /\ waiting' = waiting /\ stopping' = stopping /\ tasks' = tasks
      BY <1>7, <2>1 DEF DeliverCancel
    <3>. QED BY <2>1, <3>1, <3>2 DEF Answered
  <2>2. CASE phase[p][t] # "polling"
    <3>1. End(p, t, "cancelled") /\ \E w : worker' = [worker EXCEPT ![p][t] = w]
      BY <1>7, <2>2 DEF DeliverCancel
    <3>. QED BY <1>1, <1>2, <1>7, <3>1 DEF DeliverCancel
  <2>. QED BY <2>1, <2>2
<1>8. CASE DrainEnds(p, t)
  <2>1. /\ End(p, t, "returned") \/ End(p, t, "cancelled")
        /\ \E w : worker' = [worker EXCEPT ![p][t] = w]
    BY <1>2, <1>8 DEF DrainEnds
  <2>. QED BY <1>1, <1>2, <1>8, <2>1 DEF DrainEnds
<1>9. CASE TaskDone(p, t)
  BY <1>9, AnsweredStays DEF TaskDone
<1>. QED BY <1>3, <1>4, <1>5, <1>6, <1>7, <1>8, <1>9 DEF TaskStep

\* start_job launches a run nobody waits for yet.
LEMMA AnsweredByStart ==
    ASSUME TypeOK, Requested, NEW p \in Process, Answered(p), NEW i \in Job, StartJob(p, i)
    PROVE  Answered(p)'
<1>. DEFINE g == rows[i].run + 1
            new == <<i, g>>
<1>1. /\ g \in Run /\ new \in Task /\ new[1] = i /\ new[2] = g
      /\ \A t \in Task : t[1] = i /\ t[2] = g => t = new
  BY Launch DEF StartJob
<1>2. phase[p][new] = "none"
  <2>1. rows[i].run \in Int
    BY BoundAssumption DEF TypeOK, Row, Run, NoRun
  <2>2. ~(g <= rows[i].run)
    BY <2>1
  <2>. QED BY <1>1, <2>2 DEF TypeOK
<1>3. new \notin waiting[p] \cup stopping[p]
  BY <1>1, <1>2 DEF Answered, Requested, Live, Ended
<1>4. /\ \A t \in Task : phase'[p][t] = IF t = new THEN "created" ELSE phase[p][t]
      /\ \A j \in Job : tasks'[p][j] = IF j = i THEN g ELSE tasks[p][j]
      /\ cancelling' = cancelling /\ waiting' = waiting /\ stopping' = stopping /\ worker' = worker
  BY <1>1 DEF StartJob, TypeOK
<1>. HIDE DEF g, new
<1>. QED BY <1>1, <1>2, <1>3, <1>4, TaskParts DEF Answered

\* Whoever begins to wait has the task cancelled, unless it has ended (_request_stop, _shutdown_impl).
LEMMA AnsweredByStop ==
    ASSUME TypeOK, NEW p \in Process, Answered(p), NEW runs \in SUBSET Task, Cancel(p, runs),
           \A t \in runs : tasks[p][t[1]] = t[2],
           waiting'[p] \cup stopping'[p] \subseteq waiting[p] \cup stopping[p] \cup runs,
           phase' = phase, worker' = worker, tasks' = tasks
    PROVE  Answered(p)'
<1>1. \A t \in Task : t \in cancelling'[p] <=> t \in cancelling[p] \/ (t \in runs /\ phase[p][t] \in Live)
  BY DEF Cancel, TypeOK
<1>2. \A t \in runs : t \in cancelling'[p] \/ phase[p][t] \in Ended
  BY <1>1 DEF Answered, TypeOK
<1>. QED BY <1>1, <1>2 DEF Answered

LEMMA AnsweredStep ==
    ASSUME TypeOK, Requested, NEW p \in Process, Answered(p), [Next]_vars
    PROVE  Answered(p)'
<1>1. ASSUME NEW q \in Process \ {p}, OnlyConcerns(q) PROVE Answered(p)'
  <2>1. p \in Process \ {q}
    BY <1>1
  <2>. QED BY <1>1, <2>1, AnsweredStays DEF OnlyConcerns
<1>2. ASSUME NEW t \in Task, CallerResumes(p, t) \/ CallerLeaves(p, t) PROVE Answered(p)'
  <2>1. waiting'[p] \subseteq waiting[p]
    BY <1>2 DEF CallerResumes, CallerLeaves, TypeOK
  <2>. QED BY <1>2, <2>1, AnsweredStays DEF CallerResumes, CallerLeaves
<1>3. ASSUME NEW t \in Task, NEW result \in {"ok", "error"}, WorkerEnds(p, t, result)
      PROVE  Answered(p)'
  <2>1. \A u \in Task : worker'[p][u] = IF u = t THEN IF phase[p][t] \in {"polling", "draining"} THEN result ELSE "none"
                                        ELSE worker[p][u]
    BY <1>3 DEF WorkerEnds, TypeOK
  <2>. QED BY <1>3, <2>1 DEF WorkerEnds, Answered
<1>4. ASSUME NEW j \in Job, FinalizeTask(p, j) PROVE Answered(p)'
  <2>1. \A i \in Job : tasks'[p][i] \in {tasks[p][i], NoRun}
    BY <1>4 DEF FinalizeTask, TypeOK
  <2>. QED BY <1>4, <2>1, AnsweredStays DEF FinalizeTask, loop
<1>5. ASSUME NEW j \in Job, NEW code, StopJob(p, j, code) PROVE Answered(p)'
  <2>1. CASE tasks[p][j] = NoRun
    BY <1>5, <2>1, AnsweredStays DEF StopJob
  <2>2. CASE tasks[p][j] # NoRun
    <3>. DEFINE t == <<j, tasks[p][j]>>
    <3>1. t \in Task /\ t[1] = j /\ t[2] = tasks[p][j]
      BY <2>2, Launch DEF TypeOK
    <3>2. /\ Cancel(p, {t}) /\ waiting' = [waiting EXCEPT ![p] = @ \cup {t}]
          /\ phase' = phase /\ worker' = worker /\ tasks' = tasks /\ stopping' = stopping
      BY <1>5, <2>2 DEF StopJob
    <3>. HIDE DEF t
    <3>3. waiting'[p] \cup stopping'[p] \subseteq waiting[p] \cup stopping[p] \cup {t}
      BY <3>2 DEF TypeOK
    <3>. QED BY <3>1, <3>2, <3>3, AnsweredByStop
  <2>. QED BY <2>1, <2>2
<1>6. ASSUME Shutdown(p) PROVE Answered(p)'
  <2>. DEFINE runs == {t \in Task : tasks[p][t[1]] = t[2]}
  <2>1. /\ Cancel(p, runs) /\ stopping'[p] = runs /\ waiting' = waiting
        /\ phase' = phase /\ worker' = worker /\ tasks' = tasks
    BY <1>6 DEF Shutdown, TypeOK
  <2>2. runs \in SUBSET Task /\ \A t \in runs : tasks[p][t[1]] = t[2]
    OBVIOUS
  <2>. HIDE DEF runs
  <2>. QED BY <2>1, <2>2, AnsweredByStop
<1>7. ASSUME ShutdownStep(p) PROVE Answered(p)'
  <2>1. CASE ShutdownFinalizes(p)
    BY <2>1, AnsweredStays DEF ShutdownFinalizes, loop
  <2>2. CASE CloseStore(p)
    <3>1. /\ waiting'[p] = {} /\ stopping'[p] = {} /\ \A j \in Job : tasks'[p][j] = NoRun
          /\ phase' = phase /\ cancelling' = cancelling /\ worker' = worker
      BY <2>2 DEF CloseStore, NoTask, TypeOK
    <3>. QED BY <3>1, AnsweredStays
  <2>. QED BY <1>7, <2>1, <2>2 DEF ShutdownStep
<1>8. ASSUME Crash(p) PROVE Answered(p)'
  <2>1. /\ waiting'[p] = {} /\ stopping'[p] = {} /\ \A j \in Job : tasks'[p][j] = NoRun
        /\ \A t \in Task : phase'[p][t] = "none"
    BY <1>8 DEF Crash, NoTask, NoPhase, TypeOK
  <2>. QED BY <2>1, TaskParts DEF Answered
<1>9. ASSUME OpenManager(p) \/ OpenFails(p) \/ (\E j \in Job : Expire(j)) \/ UNCHANGED vars PROVE Answered(p)'
  <2>1. /\ phase' = phase /\ cancelling' = cancelling /\ waiting' = waiting /\ worker' = worker
        /\ stopping' = stopping /\ tasks' = tasks
    BY <1>9 DEF OpenManager, OpenFails, Expire, loop, vars
  <2>. QED BY <2>1, AnsweredStays
<1>. QED BY <1>1, <1>2, <1>3, <1>4, <1>5, <1>6, <1>7, <1>8, <1>9, AnsweredByTask, AnsweredByStart, OtherProcess
         DEF Next, GetJob, CancelJob

\* A coroutine waits for a worker that runs or has left its result; a caller and a shutdown wait
\* for a task that has ended, is being cancelled, or waits for its worker.
THEOREM WaitsAreAnswered == Spec => []WaitsEnd
<1>. DEFINE Inv == TypeOK /\ FinalInv /\ Requested /\ \A p \in Process : Answered(p)
<1>1. Init => Inv
  <2>1. Init => TypeOK /\ FinalInv /\ Requested
    BY DEF Init, TypeOK, Requested, FinalInv, RowsOK, Row, StatusCode, CompletedIsClean, NoIntent, NoTask,
       NoPhase, NoWorker, NoRun
  <2>2. Init => \A p \in Process : Answered(p)
    BY TaskParts DEF Init, Answered, NoTask, NoPhase
  <2>. QED BY <2>1, <2>2
<1>2. Inv /\ [Next]_vars => Inv'
  BY TypeStep, InvariantStep, AnsweredStep
<1>3. Inv => WaitsEnd
  BY DEF Answered, WaitsEnd
<1>. QED BY <1>1, <1>2, <1>3, PTL DEF Spec
-----------------------------------------------------------------------------
(* One result for each job, for any number of processes. *)

\* Only a calculation has a worker to wait for.
OnlyCalculationsWait ==
    \A p \in Process, t \in Task : phase[p][t] \in {"polling", "draining"} => t[1] \notin Report

\* A job has a result exactly when it is a completed calculation, and never a second one:
\* whichever processes have launched it, and whichever of its launches are still running.
OneResult ==
    /\ \A t \in analyses : t[1] \notin Report /\ rows[t[1]].code = "job_completed"
    /\ \A j \in Job \ Report : rows[j].code = "job_completed" => \E t \in analyses : t[1] = j
    /\ \A t, u \in analyses : t[1] = u[1] => t = u

\* A coroutine begins to wait in the first step of a calculation only.
LEMMA WaitStep ==
    ASSUME TypeOK, OnlyCalculationsWait, [Next]_vars
    PROVE  OnlyCalculationsWait'
<1>1. SUFFICES ASSUME NEW p \in Process, NEW t \in Task, phase'[p][t] \in {"polling", "draining"}
               PROVE  t[1] \notin Report
  BY DEF OnlyCalculationsWait
<1>2. CASE phase[p][t] \in {"polling", "draining"}
  BY <1>2 DEF OnlyCalculationsWait
<1>3. CASE phase[p][t] \notin {"polling", "draining"}
  <2>1. ASSUME phase' = phase PROVE FALSE
    BY <1>1, <1>3, <2>1
  <2>2. ASSUME NEW q \in Process, NEW u \in Task, NEW how \in Ended, End(q, u, how) PROVE FALSE
    BY <1>1, <1>3, <2>2 DEF End, Ended, TypeOK
  <2>3. ASSUME NEW q \in Process, NEW u \in Task, StartCalculation(q, u) PROVE t[1] \notin Report
    <3>1. CASE phase' = [phase EXCEPT ![q][u] = "polling"]
      BY <1>1, <1>3, <2>3, <3>1 DEF StartCalculation, TypeOK
    <3>. QED BY <2>2, <2>3, <3>1 DEF StartCalculation, Raise, Ended
  <2>4. ASSUME NEW q \in Process, NEW u \in Task, DeliverCancel(q, u) PROVE FALSE
    <3>1. CASE phase[q][u] = "polling" /\ phase' = [phase EXCEPT ![q][u] = "draining"]
      BY <1>1, <1>3, <3>1 DEF TypeOK
    <3>. QED BY <2>2, <2>4, <3>1 DEF DeliverCancel, Ended
  <2>5. ASSUME NEW q \in Process, NEW u \in Task,
               RunReport(q, u) \/ PollRaises(q, u) \/ ConcludeTask(q, u) \/ DrainEnds(q, u)
        PROVE  FALSE
    BY <2>2, <2>5 DEF RunReport, PollRaises, ConcludeTask, DrainEnds, Raise, Conclude, Ended
  <2>6. ASSUME NEW q \in Process, NEW j \in Job, StartJob(q, j) PROVE FALSE
    <3>1. phase' = [phase EXCEPT ![q][<<j, rows[j].run + 1>>] = "created"]
          /\ <<j, rows[j].run + 1>> \in Task
      BY <2>6, Launch DEF StartJob
    <3>. QED BY <1>1, <1>3, <3>1 DEF TypeOK
  <2>7. ASSUME NEW q \in Process, Crash(q) PROVE FALSE
    BY <1>1, <1>3, <2>7 DEF Crash, NoPhase, TypeOK
  <2>8. ASSUME NEW q \in Process, OpenManager(q) \/ OpenFails(q) \/ Shutdown(q) \/ ShutdownStep(q) PROVE FALSE
    BY <2>1, <2>8 DEF OpenManager, OpenFails, Shutdown, ShutdownStep, ShutdownFinalizes, CloseStore, loop
  <2>9. ASSUME NEW q \in Process, NEW j \in Job, GetJob(q, j) \/ CancelJob(q, j) \/ FinalizeTask(q, j)
        PROVE  FALSE
    BY <2>1, <2>9 DEF GetJob, CancelJob, StopJob, FinalizeTask, loop
  <2>10. ASSUME NEW q \in Process, NEW u \in Task,
                \/ TaskDone(q, u) \/ CallerResumes(q, u) \/ CallerLeaves(q, u)
                \/ \E result \in {"ok", "error"} : WorkerEnds(q, u, result)
         PROVE  FALSE
    BY <2>1, <2>10 DEF TaskDone, CallerResumes, CallerLeaves, WorkerEnds
  <2>11. ASSUME (\E j \in Job : Expire(j)) \/ UNCHANGED vars PROVE FALSE
    BY <2>1, <2>11 DEF Expire, vars, loop
  <2>. QED BY <2>3, <2>4, <2>5, <2>6, <2>7, <2>8, <2>9, <2>10, <2>11 DEF Next, TaskStep
<1>. QED BY <1>2, <1>3

\* A job that completes had no result, and gets one.
LEMMA ResultStep ==
    ASSUME TypeOK, FinalInv, OnlyCalculationsWait, OneResult, [Next]_vars
    PROVE  OneResult'
<1>1. FinalStep /\ rows \in [Job -> Row] /\ analyses \subseteq Task
  BY InvariantStep DEF FinalInv, RowsOK, TypeOK
<1>2. CASE CompletesNothing
  <2>1. \A j \in Job : rows'[j].code = "job_completed" <=> rows[j].code = "job_completed"
    BY <1>1, <1>2 DEF CompletesNothing, FinalStep, FinalCodes
  <2>. QED BY <1>1, <1>2, <2>1, TaskParts DEF CompletesNothing, OneResult
<1>3. ASSUME NEW p \in Process, NEW t \in Task, Completes(p, t) PROVE OneResult'
  <2>1. /\ t[1] \in Job /\ rows[t[1]].code # "job_completed"
        /\ \A j \in Job : rows'[j].code = IF j = t[1] THEN "job_completed" ELSE rows[j].code
        /\ analyses' = IF t[1] \in Report THEN analyses ELSE analyses \cup {t}
    BY <1>1, <1>3, TaskParts DEF Completes, Active, ActiveCode, Row, OnlyCalculationsWait
  <2>2. \A u \in analyses : u[1] # t[1] /\ u[1] \in Job
    BY <1>1, <2>1, TaskParts DEF OneResult
  <2>3. CASE t[1] \in Report
    BY <2>1, <2>2, <2>3 DEF OneResult
  <2>4. CASE t[1] \notin Report
    <3>1. \A u \in analyses' : u = t \/ u \in analyses
      BY <2>1, <2>4
    <3>2. \A u \in analyses' : u[1] \notin Report /\ rows'[u[1]].code = "job_completed"
      BY <2>1, <2>2, <2>4, <3>1 DEF OneResult
    <3>3. \A j \in Job \ Report : rows'[j].code = "job_completed" => \E u \in analyses' : u[1] = j
      BY <2>1, <2>4 DEF OneResult
    <3>4. \A u, v \in analyses' : u[1] = v[1] => u = v
      BY <2>2, <3>1 DEF OneResult
    <3>. QED BY <3>2, <3>3, <3>4 DEF OneResult
  <2>. QED BY <2>3, <2>4
<1>. QED BY <1>2, <1>3, Completion

\* A job has a result exactly when it is a completed calculation, and only one
\* (put_analysis in _commit_analysis; docs/analytics.md:41-43), for any number of processes.
THEOREM ResultsAreUnique == Spec => []OneResult
<1>. DEFINE Inv == TypeOK /\ FinalInv /\ Requested /\ OnlyCalculationsWait /\ OneResult
<1>1. Init => Inv
  <2>1. Init => TypeOK /\ FinalInv /\ Requested
    BY DEF Init, TypeOK, Requested, FinalInv, RowsOK, Row, StatusCode, CompletedIsClean, NoIntent, NoTask,
       NoPhase, NoWorker, NoRun
  <2>2. Init => OnlyCalculationsWait /\ OneResult
    BY DEF Init, OnlyCalculationsWait, OneResult, NoPhase
  <2>. QED BY <2>1, <2>2
<1>2. Inv /\ [Next]_vars => Inv'
  BY TypeStep, InvariantStep, WaitStep, ResultStep
<1>. QED BY <1>1, <1>2, PTL DEF Spec
=============================================================================
