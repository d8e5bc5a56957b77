----------------------------- MODULE AnalyticsJobs -----------------------------
(***************************************************************************)
(* The local analytics job manager (analytics_jobs.py), the handlers it    *)
(* runs and the runtime that owns it (mcp_analytics_tools.py), over the    *)
(* jobs table and the workspaces of an owner store.                        *)
(*                                                                         *)
(* A manager lives in the event loop of one server process.  No block      *)
(* under its asyncio lock awaits, so the lock never suspends anyone and    *)
(* each callback the loop runs is one action: the first step of a job's    *)
(* task, a wake-up of its poll, the done callback, the finalizer, a tool   *)
(* call.  A calculation runs on a worker thread beside its task.  The      *)
(* store is shared by every server process of the owner; a manager lease   *)
(* is known to its own process only.                                       *)
(*                                                                         *)
(* A job stands for its request fingerprint and its row; each launch of it *)
(* is a run.  Progress counts are left out, the report_progress calls that *)
(* check the job's state are not.                                          *)
(***************************************************************************)
EXTENDS Integers, FiniteSets

CONSTANTS
    Process,            \* server processes over one owner store
    Job,                \* job requests, by fingerprint
    Report,             \* those of the kind report_generation
    Capacity,           \* limits.concurrent_jobs
    MaxRuns,            \* bound on the launches of a job
    StoreMayFail,       \* another process may hold the writer lock
    CleanupMayFail      \* a workspace may refuse to be removed

ASSUME JobAssumption == Report \subseteq Job
ASSUME BoundAssumption == Capacity \in Nat /\ MaxRuns \in Nat
ASSUME FailureAssumption == StoreMayFail \in BOOLEAN /\ CleanupMayFail \in BOOLEAN

Run == 1..MaxRuns
Task == Job \X Run      \* the coroutine of one run of a job
NoRun == 0

\* JobStatusCode; a row's state follows from its code.
ActiveCode == {"job_queued", "job_running"}
StopCode == {"job_cancelled", "job_expired", "job_interrupted_restart_required"}
StatusCode == {"absent", "job_completed", "job_failed"} \cup ActiveCode \cup StopCode

Row == [code : StatusCode, run : Run \cup {NoRun}, expired : BOOLEAN]

VARIABLES
    \* the owner store
    rows,           \* the jobs table
    analyses,       \* runs whose result put_analysis stored
    workspaces,     \* jobs with a directory under job-workspaces
    \* per process
    manager,        \* life of the manager and its runtime
    tasks,          \* _tasks: the run registered for a job
    intents,        \* _stop_intents
    finalizers,     \* _finalizers: the run a finalizer was created for
    phase,          \* where the coroutine of a run is
    cancelling,     \* runs with a cancellation request not yet delivered
    callbacks,      \* ended runs whose done callback has not run
    waiting,        \* runs a get_job or cancel_job call waits for
    stopping,       \* runs shutdown waits for
    worker          \* the worker thread of a run

store == <<rows, analyses, workspaces>>
loop == <<phase, cancelling, callbacks, waiting, worker>>
vars == <<store, manager, tasks, intents, finalizers, stopping, loop>>

Live == {"created", "polling", "draining"}
Ended == {"returned", "cancelled"}

Active(j) == rows[j].code \in ActiveCode
NoTask == [j \in Job |-> NoRun]
NoIntent == [j \in Job |-> "none"]
NoPhase == [t \in Task |-> "none"]
NoWorker == [t \in Task |-> "none"]

-----------------------------------------------------------------------------
Init ==
    /\ rows = [j \in Job |-> [code |-> "absent", run |-> NoRun, expired |-> FALSE]]
    /\ analyses = {} /\ workspaces = {}
    /\ manager = [p \in Process |-> "down"]
    /\ tasks = [p \in Process |-> NoTask]
    /\ intents = [p \in Process |-> NoIntent]
    /\ finalizers = [p \in Process |-> NoTask]
    /\ phase = [p \in Process |-> NoPhase]
    /\ cancelling = [p \in Process |-> {}]
    /\ callbacks = [p \in Process |-> {}]
    /\ waiting = [p \in Process |-> {}]
    /\ stopping = [p \in Process |-> {}]
    /\ worker = [p \in Process |-> NoWorker]

(* The manager comes and goes. *)

\* _recover_interrupted_rows
Interrupted(row) ==
    IF row.code \in ActiveCode
      THEN [row EXCEPT !.code = "job_interrupted_restart_required"] ELSE row

\* Mutant of OpenManager: recovery is left to the next start_job.
SkipsRecovery(p) ==
    /\ manager[p] = "down"
    /\ manager' = [manager EXCEPT ![p] = "open"]
    /\ UNCHANGED <<store, tasks, intents, finalizers, stopping, loop>>

\* _job_manager_for_config on the first job call: the lease, then recovery.
OpenManager(p) ==
    /\ manager[p] = "down"
    /\ manager' = [manager EXCEPT ![p] = "open"]
    /\ rows' = [j \in Job |-> Interrupted(rows[j])]
    /\ workspaces' = {}
    /\ UNCHANGED <<analyses, tasks, intents, finalizers, stopping, loop>>

\* The recovery is cut short after it has written the rows: a workspace refuses to go or is
\* unknown, so the lease is released and the store closed; or the process dies.
OpenFails(p) ==
    /\ manager[p] = "down"
    /\ rows' = [j \in Job |-> Interrupted(rows[j])]
    /\ workspaces' \in SUBSET workspaces
    /\ UNCHANGED <<analyses, manager, tasks, intents, finalizers, stopping, loop>>

\* The process dies.
Crash(p) ==
    /\ manager[p] # "down" \/ worker[p] # NoWorker
    /\ manager' = [manager EXCEPT ![p] = "down"]
    /\ tasks' = [tasks EXCEPT ![p] = NoTask]
    /\ intents' = [intents EXCEPT ![p] = NoIntent]
    /\ finalizers' = [finalizers EXCEPT ![p] = NoTask]
    /\ phase' = [phase EXCEPT ![p] = NoPhase]
    /\ cancelling' = [cancelling EXCEPT ![p] = {}]
    /\ callbacks' = [callbacks EXCEPT ![p] = {}]
    /\ waiting' = [waiting EXCEPT ![p] = {}]
    /\ stopping' = [stopping EXCEPT ![p] = {}]
    /\ worker' = [worker EXCEPT ![p] = NoWorker]
    /\ UNCHANGED store

(* start_job *)

StartJob(p, j) ==
    LET g == rows[j].run + 1 IN
    /\ manager[p] = "open"
    /\ rows[j].code \in {"absent", "job_interrupted_restart_required"}
    /\ Cardinality({i \in Job : Active(i)}) < Capacity
    /\ g \in Run
    /\ rows' = [rows EXCEPT ![j] = [code |-> "job_queued", run |-> g, expired |-> FALSE]]
    /\ workspaces' = workspaces \cup {j}
    /\ tasks' = [tasks EXCEPT ![p][j] = g]
    /\ phase' = [phase EXCEPT ![p][<<j, g>>] = "created"]
    /\ UNCHANGED <<analyses, manager, intents, finalizers, stopping, cancelling, callbacks,
                   waiting, worker>>

(* The coroutine _run_job, with its handler inside. *)

\* Task t of process p ends; its done callback is scheduled.
End(p, t, how) ==
    /\ phase' = [phase EXCEPT ![p][t] = how]
    /\ cancelling' = [cancelling EXCEPT ![p] = @ \ {t}]
    /\ callbacks' = [callbacks EXCEPT ![p] = @ \cup {t}]

\* An exception reaches _run_job, which writes the row unless a stop intent is
\* set; when that write fails too the task ends and the row keeps its code.
Raise(p, t, code) ==
    LET j == t[1] IN
    /\ End(p, t, "returned")
    /\ \/ rows' = IF intents[p][j] = "none" /\ Active(j)
                    THEN [rows EXCEPT ![j].code = code] ELSE rows
       \/ StoreMayFail /\ rows' = rows
    /\ UNCHANGED analyses

\* What report_progress and commit_analysis require of a running job, beside
\* its row: no stop intent, and before the expiry.
Stopped(p, j) == intents[p][j] # "none"
Refused(p, j) == rows[j].code # "job_running" \/ Stopped(p, j)

\* A workspace that cannot be removed stays.
CleanupFails(j) == CleanupMayFail /\ j \in workspaces

\* Mutant of Conclude: the workspace is left to the finalizer.
ConcludesFirst(p, t, result) ==
    /\ rows' = [rows EXCEPT ![t[1]].code = "job_completed"]
    /\ analyses' = analyses \cup result
    /\ UNCHANGED workspaces
    /\ End(p, t, "returned")

\* The workspace is removed, then the result and its receipt are written in one
\* transaction, and the task runs to its end without another await.
Conclude(p, t, result) ==
    \/ /\ rows' = [rows EXCEPT ![t[1]].code = "job_completed"]
       /\ analyses' = analyses \cup result
       /\ workspaces' = workspaces \ {t[1]}
       /\ End(p, t, "returned")
    \/ /\ CleanupFails(t[1])
       /\ Raise(p, t, "job_failed")
       /\ UNCHANGED workspaces
    \/ /\ StoreMayFail
       /\ Raise(p, t, "job_failed")
       /\ workspaces' = workspaces \ {t[1]}

\* The first step of a calculation: the row is running, report_progress(0), the
\* worker thread.  Anything but a queued row is left alone.
StartCalculation(p, t) ==
    LET j == t[1] IN
    /\ phase[p][t] = "created" /\ t \notin cancelling[p] /\ j \notin Report
    /\ \/ /\ rows[j].code # "job_queued"
          /\ End(p, t, "returned")
          /\ UNCHANGED <<store, worker>>
       \/ /\ rows[j].code = "job_queued" /\ ~Stopped(p, j) /\ ~rows[j].expired
          /\ rows' = [rows EXCEPT ![j].code = "job_running"]
          /\ phase' = [phase EXCEPT ![p][t] = "polling"]
          /\ worker' = [worker EXCEPT ![p][t] = "running"]
          /\ UNCHANGED <<analyses, workspaces, cancelling, callbacks>>
       \/ /\ rows[j].code = "job_queued"
          /\ \/ rows[j].expired /\ ~Stopped(p, j) /\ Raise(p, t, "job_expired")
             \/ StoreMayFail /\ Raise(p, t, "job_failed")
          /\ UNCHANGED <<workspaces, worker>>
    /\ UNCHANGED <<manager, tasks, intents, finalizers, stopping, waiting>>

\* A report is generated in one step: exported, and the job completed.  The export
\* may be refused.
RunReport(p, t) ==
    LET j == t[1] IN
    /\ phase[p][t] = "created" /\ t \notin cancelling[p] /\ j \in Report
    /\ \/ /\ rows[j].code # "job_queued"
          /\ End(p, t, "returned")
          /\ UNCHANGED store
       \/ /\ rows[j].code = "job_queued"
          /\ \/ Raise(p, t, "job_failed")
             \/ rows[j].expired /\ ~Stopped(p, j) /\ Raise(p, t, "job_expired")
          /\ UNCHANGED workspaces
       \/ /\ rows[j].code = "job_queued" /\ ~Stopped(p, j) /\ ~rows[j].expired
          /\ Conclude(p, t, {})
    /\ UNCHANGED <<manager, tasks, intents, finalizers, stopping, waiting, worker>>

\* A wake-up of the poll: report_progress may refuse.  The exception leaves a
\* worker thread that still runs to itself.
PollRaises(p, t) ==
    LET j == t[1] IN
    /\ phase[p][t] = "polling" /\ t \notin cancelling[p]
    /\ \/ (Refused(p, j) \/ StoreMayFail) /\ Raise(p, t, "job_failed")
       \/ ~Refused(p, j) /\ rows[j].expired /\ Raise(p, t, "job_expired")
    /\ worker' = [worker EXCEPT ![p][t] = IF @ = "running" THEN @ ELSE "none"]
    /\ UNCHANGED <<workspaces, manager, tasks, intents, finalizers, stopping, waiting>>

\* Mutant of WorkerEnds: only the poll is woken.
WakesPoll(p, t, result) ==
    /\ worker[p][t] = "running"
    /\ worker' = [worker EXCEPT ![p][t] = IF phase[p][t] = "polling" THEN result ELSE "none"]
    /\ UNCHANGED <<store, manager, tasks, intents, finalizers, stopping, phase, cancelling,
                   callbacks, waiting>>

\* The worker thread ends.  Nobody takes its result when its task has ended.
WorkerEnds(p, t, result) ==
    /\ worker[p][t] = "running"
    /\ worker' = [worker EXCEPT ![p][t] =
           IF phase[p][t] \in {"polling", "draining"} THEN result ELSE "none"]
    /\ UNCHANGED <<store, manager, tasks, intents, finalizers, stopping, phase, cancelling,
                   callbacks, waiting>>

\* The poll finds the worker done: its error, or commit_analysis.
ConcludeTask(p, t) ==
    LET j == t[1] IN
    /\ phase[p][t] = "polling" /\ t \notin cancelling[p]
    /\ \/ /\ worker[p][t] = "error" \/ (worker[p][t] = "ok" /\ Refused(p, j))
          /\ Raise(p, t, "job_failed")
          /\ UNCHANGED workspaces
       \/ /\ worker[p][t] = "ok" /\ ~Refused(p, j) /\ rows[j].expired
          /\ Raise(p, t, "job_expired")
          /\ UNCHANGED workspaces
       \/ /\ worker[p][t] = "ok" /\ ~Refused(p, j) /\ ~rows[j].expired
          /\ Conclude(p, t, {t})
    /\ worker' = [worker EXCEPT ![p][t] = "none"]
    /\ UNCHANGED <<manager, tasks, intents, finalizers, stopping, waiting>>

\* The loop throws CancelledError into the coroutine: one that has not started
\* never runs, a poll asks its worker to stop and waits for it, and a wait that
\* is cancelled again gives up.
DeliverCancel(p, t) ==
    /\ t \in cancelling[p]
    /\ IF phase[p][t] = "polling"
         THEN /\ phase' = [phase EXCEPT ![p][t] = "draining"]
              /\ cancelling' = [cancelling EXCEPT ![p] = @ \ {t}]
              /\ UNCHANGED <<callbacks, worker>>
         ELSE /\ End(p, t, "cancelled")
              /\ worker' = [worker EXCEPT ![p][t] = IF @ = "running" THEN @ ELSE "none"]
    /\ UNCHANGED <<store, manager, tasks, intents, finalizers, stopping, waiting>>

\* Mutant of DrainEnds: the handler goes on with the result it waited for.
TakesDrained(p, t) ==
    /\ phase[p][t] = "draining" /\ t \notin cancelling[p]
    /\ \/ worker[p][t] = "ok" /\ Conclude(p, t, {t})
       \/ worker[p][t] = "error" /\ Raise(p, t, "job_failed") /\ UNCHANGED workspaces
    /\ worker' = [worker EXCEPT ![p][t] = "none"]
    /\ UNCHANGED <<manager, tasks, intents, finalizers, stopping, waiting>>

\* The worker a cancelled poll waits for has stopped.
DrainEnds(p, t) ==
    /\ phase[p][t] = "draining" /\ t \notin cancelling[p]
    /\ \/ worker[p][t] \in {"ok", "error"} /\ End(p, t, "cancelled") /\ UNCHANGED store
       \/ worker[p][t] = "error" /\ Raise(p, t, "job_failed") /\ UNCHANGED workspaces
    /\ worker' = [worker EXCEPT ![p][t] = "none"]
    /\ UNCHANGED <<manager, tasks, intents, finalizers, stopping, waiting>>

(* The finalizer. *)

\* _ensure_task_finalizer, for a set of runs, one per job.
EnsureFinalizers(p, runs) ==
    finalizers' = [finalizers EXCEPT ![p] = [j \in Job |->
        IF finalizers[p][j] = NoRun /\ \E g \in Run : <<j, g>> \in runs
          THEN CHOOSE g \in Run : <<j, g>> \in runs ELSE finalizers[p][j]]]

\* Mutant of TaskDone: only a caller or shutdown finalizes.
DropsTask(p, t) ==
    /\ t \in callbacks[p]
    /\ callbacks' = [callbacks EXCEPT ![p] = @ \ {t}]
    /\ tasks' = [tasks EXCEPT ![p][t[1]] = IF @ = t[2] THEN NoRun ELSE @]
    /\ UNCHANGED <<store, manager, intents, finalizers, stopping, phase, cancelling, waiting,
                   worker>>

\* The done callback of the task, _schedule_task_finalizer.
TaskDone(p, t) ==
    /\ t \in callbacks[p]
    /\ callbacks' = [callbacks EXCEPT ![p] = @ \ {t}]
    /\ EnsureFinalizers(p, {t})
    /\ UNCHANGED <<store, manager, tasks, intents, stopping, phase, cancelling, waiting,
                   worker>>

\* Mutants of FinalCode: the finalizer trusts that an intent is set; a cancelled
\* task counts as interrupted.
TrustsIntent(p, t) == intents[p][t[1]]
PrefersOutcome(p, t) ==
    IF phase[p][t] = "cancelled" THEN "job_interrupted_restart_required"
    ELSE IF intents[p][t[1]] # "none" THEN intents[p][t[1]]
    ELSE "job_failed"

\* The code _finalize_job_task gives a row that is still active.
FinalCode(p, t) ==
    IF intents[p][t[1]] # "none" THEN intents[p][t[1]]
    ELSE IF phase[p][t] = "cancelled" THEN "job_interrupted_restart_required"
    ELSE "job_failed"

\* Mutant of FinalizeTask: a write that fails leaves the run registered.
KeepsRegistration(p, j) ==
    LET g == finalizers[p][j] IN
    /\ g # NoRun
    /\ workspaces' = workspaces \ {j}
    /\ \/ /\ rows' = IF Active(j) THEN [rows EXCEPT ![j].code = FinalCode(p, <<j, g>>)] ELSE rows
          /\ intents' = [intents EXCEPT ![p][j] = "none"]
          /\ tasks' = [tasks EXCEPT ![p][j] = IF @ = g THEN NoRun ELSE @]
       \/ StoreMayFail /\ UNCHANGED <<rows, intents, tasks>>
    /\ finalizers' = [finalizers EXCEPT ![p][j] = NoRun]
    /\ UNCHANGED <<analyses, manager, stopping, loop>>

\* Mutant of FinalizeTask: an intent is written over whatever the row says.
WritesIntent(p, j) ==
    LET g == finalizers[p][j] IN
    /\ g # NoRun
    /\ workspaces' = workspaces \ {j}
    /\ rows' = [rows EXCEPT ![j].code =
                   IF Active(j) \/ intents[p][j] # "none" THEN FinalCode(p, <<j, g>>) ELSE @]
    /\ intents' = [intents EXCEPT ![p][j] = "none"]
    /\ tasks' = [tasks EXCEPT ![p][j] = IF @ = g THEN NoRun ELSE @]
    /\ finalizers' = [finalizers EXCEPT ![p][j] = NoRun]
    /\ UNCHANGED <<analyses, manager, stopping, loop>>

\* _finalize_job_task and its _drop_task_finalizer: the workspace, the row, the
\* intent, the registration.  When the store fails, row and intent stay.
FinalizeTask(p, j) ==
    LET g == finalizers[p][j] IN
    /\ g # NoRun
    /\ \E failed \in BOOLEAN :
        /\ failed => CleanupFails(j)
        /\ workspaces' = IF failed THEN workspaces ELSE workspaces \ {j}
        /\ \/ /\ rows' =
                   IF failed /\ (Active(j) \/ rows[j].code = "job_completed")
                     THEN [rows EXCEPT ![j].code = "job_failed"]
                   ELSE IF Active(j) THEN [rows EXCEPT ![j].code = FinalCode(p, <<j, g>>)]
                   ELSE rows
              /\ intents' = [intents EXCEPT ![p][j] = "none"]
           \/ StoreMayFail /\ UNCHANGED <<rows, intents>>
    /\ tasks' = [tasks EXCEPT ![p][j] = IF @ = g THEN NoRun ELSE @]
    /\ finalizers' = [finalizers EXCEPT ![p][j] = NoRun]
    /\ UNCHANGED <<analyses, manager, stopping, loop>>

(* get_job, cancel_job *)

Cancel(p, runs) ==
    cancelling' = [cancelling EXCEPT ![p] = @ \cup {t \in runs : phase[p][t] \in Live}]

\* Mutant of StopJob: the row is terminal before the task is.
StopsAtOnce(p, j, code) ==
    LET t == <<j, tasks[p][j]>> IN
    /\ manager[p] = "open"
    /\ Active(j)
    /\ rows' = [rows EXCEPT ![j].code = code]
    /\ IF tasks[p][j] = NoRun
         THEN UNCHANGED <<cancelling, waiting>>
         ELSE Cancel(p, {t}) /\ waiting' = [waiting EXCEPT ![p] = @ \cup {t}]
    /\ UNCHANGED <<analyses, workspaces, manager, tasks, intents, finalizers, stopping, phase,
                   callbacks, worker>>

\* The first stop intent wins (setdefault); without a task the row is written.
StopJob(p, j, code) ==
    LET t == <<j, tasks[p][j]>> IN
    /\ manager[p] = "open"
    /\ Active(j)
    /\ IF tasks[p][j] = NoRun
         THEN /\ rows' = [rows EXCEPT ![j].code = code]
              /\ UNCHANGED <<intents, cancelling, waiting>>
         ELSE /\ intents' = [intents EXCEPT ![p][j] = IF @ = "none" THEN code ELSE @]
              /\ Cancel(p, {t})
              /\ waiting' = [waiting EXCEPT ![p] = @ \cup {t}]
              /\ UNCHANGED rows
    /\ UNCHANGED <<analyses, workspaces, manager, tasks, finalizers, stopping, phase,
                   callbacks, worker>>

GetJob(p, j) == rows[j].expired /\ StopJob(p, j, "job_expired")

CancelJob(p, j) == StopJob(p, j, "job_cancelled")

\* The task a caller waits for has ended: it makes sure of a finalizer, a second
\* one when the first has come and gone.
CallerResumes(p, t) ==
    /\ t \in waiting[p] \ callbacks[p]
    /\ phase[p][t] \in Ended
    /\ waiting' = [waiting EXCEPT ![p] = @ \ {t}]
    /\ EnsureFinalizers(p, {t})
    /\ UNCHANGED <<store, manager, tasks, intents, stopping, phase, cancelling, callbacks,
                   worker>>

\* The client cancels its call, or disconnects; the job is not touched.
CallerLeaves(p, t) ==
    /\ t \in waiting[p]
    /\ waiting' = [waiting EXCEPT ![p] = @ \ {t}]
    /\ UNCHANGED <<store, manager, tasks, intents, finalizers, stopping, phase, cancelling,
                   callbacks, worker>>

(* shutdown_analytics_runtime *)

\* _shutdown_impl under the lock.
Shutdown(p) ==
    LET runs == {t \in Task : tasks[p][t[1]] = t[2]} IN
    /\ manager[p] = "open"
    /\ manager' = [manager EXCEPT ![p] = "closing"]
    /\ stopping' = [stopping EXCEPT ![p] = runs]
    /\ intents' = [intents EXCEPT ![p] = [j \in Job |->
           IF tasks[p][j] # NoRun /\ @[j] = "none"
             THEN "job_interrupted_restart_required" ELSE @[j]]]
    /\ Cancel(p, runs)
    /\ UNCHANGED <<store, tasks, finalizers, phase, callbacks, waiting, worker>>

\* Every task has ended: shutdown makes sure of their finalizers.
ShutdownFinalizes(p) ==
    /\ manager[p] = "closing"
    /\ \A t \in stopping[p] : phase[p][t] \in Ended /\ t \notin callbacks[p]
    /\ manager' = [manager EXCEPT ![p] = "finalizing"]
    /\ EnsureFinalizers(p, stopping[p])
    /\ UNCHANGED <<store, tasks, intents, stopping, loop>>

\* The finalizers have ended: the lease is released, the store closed
\* and the manager forgotten.
CloseStore(p) ==
    /\ manager[p] = "finalizing"
    /\ \A t \in stopping[p] : finalizers[p][t[1]] = NoRun
    /\ manager' = [manager EXCEPT ![p] = "down"]
    /\ tasks' = [tasks EXCEPT ![p] = NoTask]
    /\ intents' = [intents EXCEPT ![p] = NoIntent]
    /\ finalizers' = [finalizers EXCEPT ![p] = NoTask]
    /\ stopping' = [stopping EXCEPT ![p] = {}]
    /\ waiting' = [waiting EXCEPT ![p] = {}]
    /\ UNCHANGED <<store, phase, cancelling, callbacks, worker>>

\* The expiry of an active job passes.
Expire(j) ==
    /\ Active(j) /\ ~rows[j].expired
    /\ rows' = [rows EXCEPT ![j].expired = TRUE]
    /\ UNCHANGED <<analyses, workspaces, manager, tasks, intents, finalizers, stopping, loop>>

\* What the event loop does by itself.
TaskStep(p, t) ==
    \/ StartCalculation(p, t) \/ RunReport(p, t) \/ PollRaises(p, t) \/ ConcludeTask(p, t)
    \/ DeliverCancel(p, t) \/ DrainEnds(p, t) \/ TaskDone(p, t)

ShutdownStep(p) == ShutdownFinalizes(p) \/ CloseStore(p)

Next ==
    \/ \E p \in Process :
         OpenManager(p) \/ OpenFails(p) \/ Crash(p) \/ Shutdown(p) \/ ShutdownStep(p)
    \/ \E p \in Process, j \in Job :
         StartJob(p, j) \/ GetJob(p, j) \/ CancelJob(p, j) \/ FinalizeTask(p, j)
    \/ \E p \in Process, t \in Task :
         \/ TaskStep(p, t) \/ CallerResumes(p, t) \/ CallerLeaves(p, t)
         \/ \E result \in {"ok", "error"} : WorkerEnds(p, t, result)
    \/ \E j \in Job : Expire(j)

Spec == Init /\ [][Next]_vars

\* The loop runs every callback it has scheduled, and a calculation, bounded by
\* its work units, comes to an end.
Fairness ==
    /\ \A p \in Process, t \in Task :
         WF_vars(TaskStep(p, t)) /\ WF_vars(\E result \in {"ok", "error"} : WorkerEnds(p, t, result))
    /\ \A p \in Process, j \in Job : WF_vars(FinalizeTask(p, j))
    /\ \A p \in Process : WF_vars(ShutdownStep(p))

FairSpec == Spec /\ Fairness

-----------------------------------------------------------------------------
(* What must hold. *)

\* Type correctness: the manager's dictionaries, and a coroutine of a run the jobs
\* table knows.
TypeOK ==
    /\ rows \in [Job -> Row]
    /\ analyses \subseteq Task /\ workspaces \subseteq Job
    /\ manager \in [Process -> {"down", "open", "closing", "finalizing"}]
    /\ tasks \in [Process -> [Job -> Run \cup {NoRun}]]
    /\ intents \in [Process -> [Job -> StopCode \cup {"none"}]]
    /\ finalizers \in [Process -> [Job -> Run \cup {NoRun}]]
    /\ phase \in [Process -> [Task -> Live \cup Ended \cup {"none"}]]
    /\ cancelling \in [Process -> SUBSET Task] /\ callbacks \in [Process -> SUBSET Task]
    /\ waiting \in [Process -> SUBSET Task] /\ stopping \in [Process -> SUBSET Task]
    /\ worker \in [Process -> [Task -> {"none", "running", "ok", "error"}]]
    /\ \A p \in Process, t \in Task : phase[p][t] # "none" => t[2] <= rows[t[1]].run

\* A calculation is published exactly when its job is completed: docs/analytics.md:41,
\* "Cancellation and result commitment share one atomic boundary: early cancellation
\* publishes no result, while completed work keeps its exact saved analysis"
\* (_commit_analysis against get_job, cancel_job, shutdown and the finalizer).
ConclusionAtomic ==
    analyses = {t \in Task : /\ t[1] \notin Report
                             /\ rows[t[1]].code = "job_completed" /\ rows[t[1]].run = t[2]}

\* A stop intent that was set on an active job is never overtaken by a conclusion
\* of the task it was set for: the job does not complete (_stop_intents).
StopIntentWins ==
    [][\A p \in Process, j \in Job :
          intents[p][j] # "none" /\ Active(j) => rows'[j].code # "job_completed"]_vars

\* A job's end is final: nothing a finalizer, a late caller, a stop or a shutdown does
\* gives a completed, failed, cancelled or expired job another status; only an
\* interrupted one is started again (start_job; docs/analytics.md:41).
EndIsFinal ==
    [][\A j \in Job :
          rows[j].code \in {"job_completed", "job_failed", "job_cancelled", "job_expired"}
            => rows'[j].code = rows[j].code]_vars

\* A task that may still run belongs to a row that counts as active, so a second
\* manager never interrupts a live row and a job that is being cancelled keeps its
\* slot (tests/test_analytics_jobs.py:700, :316).
LiveTaskCounted ==
    \A p \in Process, t \in Task :
        phase[p][t] \in Live => Active(t[1]) /\ rows[t[1]].run = t[2]

\* A finalizer, the second one of a late caller too, never finds a restarted job in
\* place of the run it was created for (_ensure_task_finalizer, start_job).
FinalizerOwnsRun ==
    \A p \in Process, j \in Job :
        finalizers[p][j] # NoRun /\ Active(j) => finalizers[p][j] = rows[j].run

\* No active job is stuck: its registered task may still run, or its
\* done callback or its finalizer is still to come.  Only a store that refused the last
\* write leaves an active row behind, and then without a registration, so that the next
\* cancel_job, or get_job after the expiry, writes the row itself (_drop_task_finalizer,
\* _request_stop).
NoJobStranded ==
    \A p \in Process, j \in Job :
        manager[p] # "down" /\ Active(j) =>
            LET t == <<j, tasks[p][j]>> IN
            IF tasks[p][j] = NoRun THEN StoreMayFail
            ELSE /\ tasks[p][j] = rows[j].run
                 /\ phase[p][t] \in Live \/ t \in callbacks[p] \/ finalizers[p][j] = tasks[p][j]

\* Whatever is waited for will come: a coroutine waits for a worker that runs or has left
\* its result, and a caller or a shutdown for a task that has ended, is being cancelled
\* or only waits for its worker (_poll, _request_stop, _shutdown_impl).
WaitsEnd ==
    \A p \in Process, t \in Task :
        /\ phase[p][t] \in {"polling", "draining"} => worker[p][t] # "none"
        /\ t \in waiting[p] \cup stopping[p] =>
              t \in cancelling[p] \/ phase[p][t] \in Ended \cup {"draining"}

\* docs/analytics.md:43, "Shutdown stops the worker before closing its store".
ShutdownStopsWorkers ==
    \A p \in Process, t \in Task : manager[p] = "down" => worker[p][t] # "running"

\* A job that was started comes to an end, if the process lives: a stop intent is
\* never stranded, whatever the callers that set it do.
JobEnds ==
    \A j \in Job : Active(j) ~> (~Active(j) \/ \A p \in Process : manager[p] = "down")

\* A shutdown that began comes to an end.
ShutdownEnds ==
    \A p \in Process : manager[p] = "closing" ~> manager[p] = "down"
-----------------------------------------------------------------------------
(* One process implements the life of a job: the refinement mapping. *)

Service ==
    IF \E p \in Process : manager[p] = "open" THEN "open"
    ELSE IF \E p \in Process : manager[p] # "down" THEN "closing"
    ELSE "down"

JobStatus == [j \in Job |-> IF Active(j) THEN "active" ELSE rows[j].code]
JobLaunch == [j \in Job |-> rows[j].run]
JobsStopping == {j \in Job : Active(j) /\ \E p \in Process : intents[p][j] # "none"}

Lifecycle == INSTANCE JobLifecycle WITH
    service <- Service, status <- JobStatus, launch <- JobLaunch, stopping <- JobsStopping,
    published <- analyses

\* Coroutines, workers, callbacks, finalizers, late callers, failing stores and crashes,
\* in whatever order, add up to the life of a job that docs/analytics.md:41-43 describes.
ImplementsJobLifecycle == Lifecycle!Spec
=============================================================================
