----------------------- MODULE AnalyticsJobsTasks_proofs -----------------------
(***************************************************************************)
(* Proofs about AnalyticsJobs when one server process owns the store, for  *)
(* any number of jobs and launches, any capacity, and with failing stores  *)
(* and cleanups: what a manager's dictionaries say of its tasks.  With two *)
(* processes a task may still run for a row that the other has interrupted *)
(* (AnalyticsJobsTwoProcesses.cfg).                                        *)
(***************************************************************************)
EXTENDS AnalyticsJobs_proofs

OneProcess == \A p, q \in Process : p = q

\* Rows that start_job takes.
Startable(j) == rows[j].code \in {"absent", "job_interrupted_restart_required"}

\* A task that may still run, or whose done callback is still to come, is registered, and the
\* job of one that may still run is active.
Registered(p) ==
    \A t \in Task :
        /\ phase[p][t] \in Live \/ t \in callbacks[p] => tasks[p][t[1]] = t[2]
        /\ phase[p][t] \in Live => Active(t[1])
        /\ t \in callbacks[p] => phase[p][t] \in Ended
        /\ phase[p][t] \in {"polling", "draining"} => t[1] \notin Report

\* Whatever names a run names the one in the row; its coroutine exists, and has ended before
\* there is a finalizer.
Named(p) ==
    \A t \in Task :
        /\ tasks[p][t[1]] = t[2] => rows[t[1]].run = t[2] /\ phase[p][t] # "none"
        /\ finalizers[p][t[1]] = t[2] =>
              rows[t[1]].run = t[2] /\ phase[p][t] \in Ended /\ t \notin callbacks[p]
        /\ t \in waiting[p] \/ t \in stopping[p] => rows[t[1]].run = t[2] /\ phase[p][t] # "none"

\* What the life of the manager says of its dictionaries: while it is open, nothing remembers a
\* job that may be started; a shutdown waits for every registered task, and has an intent for it.
Lifetime(p) ==
    /\ manager[p] = "down" =>
          /\ waiting[p] = {} /\ stopping[p] = {}
          /\ \A j \in Job : tasks[p][j] = NoRun /\ finalizers[p][j] = NoRun /\ intents[p][j] = "none"
    /\ manager[p] = "open" =>
          /\ stopping[p] = {}
          /\ \A j \in Job : intents[p][j] # "job_interrupted_restart_required"
          /\ \A j \in Job : Startable(j) =>
                /\ tasks[p][j] = NoRun /\ finalizers[p][j] = NoRun /\ \A t \in waiting[p] : t[1] # j
                /\ intents[p][j] = "none"
    /\ manager[p] = "closing" =>
          /\ \A t \in Task : tasks[p][t[1]] = t[2] => t \in stopping[p]
          /\ \A j \in Job : tasks[p][j] # NoRun => intents[p][j] # "none"
    /\ manager[p] = "finalizing" =>
          callbacks[p] = {} /\ \A t \in Task : phase[p][t] \notin Live

\* A task is only cancelled with a stop intent, which stays until its row has ended.
Intended(p) ==
    manager[p] # "down" =>
        \A t \in Task :
            /\ rows[t[1]].run = t[2] /\ Active(t[1])
            /\ t \in cancelling[p] \/ phase[p][t] \in {"draining", "cancelled"}
            => intents[p][t[1]] # "none"

TasksInv(p) == Registered(p) /\ Named(p) /\ Lifetime(p) /\ Intended(p)

JobsOK == TypeOK /\ FinalInv /\ Requested

-----------------------------------------------------------------------------
\* A launch is its parts.
LEMMA SameLaunch == \A t, u \in Task : t[1] = u[1] /\ t[2] = u[2] => t = u
BY DEF Task

\* A job has one task that may still run, or is still to be called back.
LEMMA OneTask ==
    ASSUME NEW p \in Process, Registered(p), NEW t \in Task, NEW u \in Task,
           phase[p][t] \in Live \/ t \in callbacks[p], phase[p][u] \in Live \/ u \in callbacks[p],
           t[1] = u[1]
    PROVE  t = u
BY SameLaunch DEF Registered

\* What the end of a task, or of a job without one, leaves in the jobs table.
EndsRow(i) ==
    \/ rows' = rows
    \/ Active(i) /\ \E code \in FinalCodes : rows' = [rows EXCEPT ![i].code = code]

\* No run changes, and no other row.
LEMMA RowsAfterEnd ==
    ASSUME RowsOK, NEW i \in Job, EndsRow(i)
    PROVE  \A j \in Job :
              /\ rows'[j].run = rows[j].run
              /\ Active(j)' => Active(j)
              /\ Startable(j)' => Startable(j)
              /\ j # i => rows'[j] = rows[j]
BY DEF EndsRow, RowsOK, Row, Active, Startable, ActiveCode, FinalCodes

\* A task ends: by itself, or by a cancellation that was asked for.
LEMMA TaskEnds ==
    ASSUME JobsOK, NEW p \in Process, TasksInv(p),
           NEW t \in Task, phase[p][t] \in Live, NEW how \in Ended, End(p, t, how),
           how = "cancelled" => phase[p][t] = "draining" \/ t \in cancelling[p],
           EndsRow(t[1]),
           manager' = manager, tasks' = tasks, intents' = intents, finalizers' = finalizers,
           stopping' = stopping, waiting' = waiting
    PROVE  TasksInv(p)'
<1>1. \A u \in Task : /\ phase'[p][u] = IF u = t THEN how ELSE phase[p][u]
                      /\ u \in cancelling'[p] <=> u \in cancelling[p] /\ u # t
                      /\ u \in callbacks'[p] <=> u \in callbacks[p] \/ u = t
  BY DEF JobsOK, TypeOK, End
<1>2. \A j \in Job : /\ rows'[j].run = rows[j].run
                     /\ Active(j)' => Active(j)
                     /\ Startable(j)' => Startable(j)
                     /\ j # t[1] => rows'[j] = rows[j]
  BY TaskParts, RowsAfterEnd DEF JobsOK, FinalInv
<1>3. how \notin Live /\ how # "none" /\ how \notin {"polling", "draining"}
  BY DEF Ended, Live
<1>4. Registered(p)'
  <2>1. \A u \in Task : u # t /\ phase[p][u] \in Live => Active(u[1])'
    <3>1. \A u \in Task : u # t /\ phase[p][u] \in Live => u[1] # t[1]
      BY OneTask DEF TasksInv
    <3>. QED BY <1>2, <3>1, TaskParts DEF TasksInv, Registered, Active
  <2>. QED BY <1>1, <1>3, <2>1 DEF TasksInv, Registered
<1>5. Named(p)'
  BY <1>1, <1>2, <1>3, TaskParts DEF TasksInv, Named, Live, Ended
<1>6. Lifetime(p)'
  BY <1>1, <1>2, <1>3, TaskParts DEF TasksInv, Lifetime
<1>7. Intended(p)'
  BY <1>1, <1>2, <1>3, TaskParts DEF TasksInv, Intended
<1>. QED BY <1>4, <1>5, <1>6, <1>7 DEF TasksInv

\* A task goes on: it takes its row, or waits for the worker of a poll that was cancelled.
LEMMA TaskGoesOn ==
    ASSUME JobsOK, NEW p \in Process, TasksInv(p),
           NEW t \in Task, phase[p][t] \in Live, t[1] \notin Report,
           NEW to \in {"polling", "draining"}, phase' = [phase EXCEPT ![p][t] = to],
           to = "draining" => t \in cancelling[p],
           cancelling' = cancelling \/ cancelling' = [cancelling EXCEPT ![p] = @ \ {t}],
           \/ rows' = rows
           \/ rows[t[1]].code = "job_queued" /\ rows' = [rows EXCEPT ![t[1]].code = "job_running"],
           manager' = manager, tasks' = tasks, intents' = intents, finalizers' = finalizers,
           stopping' = stopping, waiting' = waiting, callbacks' = callbacks
    PROVE  TasksInv(p)'
<1>1. \A u \in Task : /\ phase'[p][u] = IF u = t THEN to ELSE phase[p][u]
                      /\ u \in cancelling'[p] => u \in cancelling[p]
  BY DEF JobsOK, TypeOK
<1>2. \A j \in Job : /\ rows'[j].run = rows[j].run
                     /\ Active(j)' <=> Active(j)
                     /\ Startable(j)' <=> Startable(j)
  BY TaskParts DEF JobsOK, FinalInv, RowsOK, Row, Active, ActiveCode, Startable
<1>3. to \in Live /\ to # "none" /\ to \notin Ended /\ to # "cancelled"
  BY DEF Ended, Live
<1>4. Registered(p)'
  BY <1>1, <1>2, <1>3, TaskParts DEF TasksInv, Registered, Live, Ended
<1>5. Named(p)'
  BY <1>1, <1>2, <1>3, TaskParts DEF TasksInv, Named, Live, Ended
<1>6. Lifetime(p)'
  BY <1>1, <1>2, TaskParts DEF TasksInv, Lifetime
<1>7. Intended(p)'
  BY <1>1, <1>2, <1>3, TaskParts DEF TasksInv, Intended
<1>. QED BY <1>4, <1>5, <1>6, <1>7 DEF TasksInv

\* A finalizer is created for each of some runs that have ended, when their callbacks have run.
LEMMA Finalizing ==
    ASSUME JobsOK, NEW p \in Process, TasksInv(p),
           NEW runs \in SUBSET Task, EnsureFinalizers(p, runs),
           \A t \in runs : /\ rows[t[1]].run = t[2] /\ phase[p][t] \in Ended /\ t \notin callbacks'[p]
                           /\ manager[p] = "open" => ~Startable(t[1]),
           manager[p] # "down",
           \/ manager'[p] = manager[p]
           \/ /\ manager[p] = "closing" /\ manager'[p] = "finalizing"
              /\ callbacks[p] = {} /\ \A t \in Task : phase[p][t] \notin Live,
           callbacks'[p] \subseteq callbacks[p], waiting'[p] \subseteq waiting[p],
           rows' = rows, tasks' = tasks, intents' = intents, stopping' = stopping,
           phase' = phase, cancelling' = cancelling
    PROVE  TasksInv(p)'
<1>1. \A j \in Job : \/ finalizers'[p][j] = finalizers[p][j]
                     \/ /\ <<j, finalizers'[p][j]>> \in runs
                        /\ <<j, finalizers'[p][j]>>[1] = j
                        /\ <<j, finalizers'[p][j]>>[2] = finalizers'[p][j]
  BY Finalizers, Launch DEF JobsOK, TypeOK
<1>2. \A j \in Job : Active(j)' = Active(j) /\ Startable(j)' = Startable(j)
  BY DEF Active, Startable
<1>3. \A t \in Task : finalizers'[p][t[1]] = t[2] => finalizers[p][t[1]] = t[2] \/ t \in runs
  BY <1>1, TaskParts, SameLaunch
<1>4. \A j \in Job : \/ finalizers'[p][j] = finalizers[p][j]
                     \/ \E t \in runs : t[1] = j
  BY <1>1
<1>5. Registered(p)'
  BY <1>2, TaskParts DEF TasksInv, Registered
<1>6. Named(p)'
  BY <1>3 DEF TasksInv, Named
<1>7. Lifetime(p)'
  <2>1. manager[p] = "open" => \A j \in Job : Startable(j) =>
            /\ tasks[p][j] = NoRun /\ finalizers[p][j] = NoRun /\ \A t \in waiting[p] : t[1] # j
            /\ intents[p][j] = "none"
    BY DEF TasksInv, Lifetime
  <2>2. manager'[p] = "open" => \A j \in Job : Startable(j)' =>
            /\ tasks[p][j] = NoRun /\ finalizers'[p][j] = NoRun /\ \A t \in waiting'[p] : t[1] # j
            /\ intents[p][j] = "none"
    BY <1>2, <1>4, <2>1
  <2>. QED BY <2>2 DEF TasksInv, Lifetime
<1>8. Intended(p)'
  BY <1>2, TaskParts DEF TasksInv, Intended
<1>. QED BY <1>5, <1>6, <1>7, <1>8 DEF TasksInv

\* A step that only ends a call, or only concerns the worker.
LEMMA Unmoved ==
    ASSUME JobsOK, NEW p \in Process, TasksInv(p),
           manager' = manager, tasks' = tasks, intents' = intents, finalizers' = finalizers,
           stopping' = stopping, phase' = phase, cancelling' = cancelling, callbacks' = callbacks,
           waiting'[p] \subseteq waiting[p],
           \A j \in Job : rows'[j].run = rows[j].run /\ rows'[j].code = rows[j].code
    PROVE  TasksInv(p)'
<1>1. \A j \in Job : Active(j)' = Active(j) /\ Startable(j)' = Startable(j)
  BY DEF Active, Startable
<1>2. Registered(p)'
  BY <1>1, TaskParts DEF TasksInv, Registered
<1>3. Named(p)'
  BY TaskParts DEF TasksInv, Named
<1>4. Lifetime(p)'
  BY <1>1, TaskParts DEF TasksInv, Lifetime
<1>5. Intended(p)'
  BY <1>1, TaskParts DEF TasksInv, Intended
<1>. QED BY <1>2, <1>3, <1>4, <1>5 DEF TasksInv

-----------------------------------------------------------------------------
\* The steps of the coroutine.
LEMMA TaskSteps ==
    ASSUME JobsOK, NEW p \in Process, TasksInv(p), NEW t \in Task,
           \/ StartCalculation(p, t) \/ RunReport(p, t) \/ PollRaises(p, t) \/ ConcludeTask(p, t)
           \/ DeliverCancel(p, t) \/ DrainEnds(p, t)
    PROVE  TasksInv(p)'
<1>1. /\ phase[p][t] \in Live
      /\ manager' = manager /\ tasks' = tasks /\ intents' = intents /\ finalizers' = finalizers
      /\ stopping' = stopping /\ waiting' = waiting
  BY DEF StartCalculation, RunReport, PollRaises, ConcludeTask, DeliverCancel, DrainEnds, Live,
     JobsOK, Requested
<1>2. {"job_failed", "job_expired", "job_completed"} \subseteq FinalCodes
  BY DEF FinalCodes
<1>3. Active(t[1])
  BY <1>1 DEF TasksInv, Registered
<1>4. ASSUME NEW code \in {"job_failed", "job_expired"}, Raise(p, t, code) PROVE TasksInv(p)'
  <2>1. End(p, t, "returned") /\ EndsRow(t[1])
    BY <1>2, <1>4 DEF Raise, EndsRow
  <2>. QED BY <1>1, <2>1, TaskEnds DEF Ended
<1>5. ASSUME NEW result, Conclude(p, t, result) PROVE TasksInv(p)'
  <2>1. CASE End(p, t, "returned") /\ rows' = [rows EXCEPT ![t[1]].code = "job_completed"]
    <3>1. EndsRow(t[1])
      BY <1>2, <1>3, <2>1 DEF EndsRow
    <3>. QED BY <1>1, <2>1, <3>1, TaskEnds DEF Ended
  <2>. QED BY <1>4, <1>5, <2>1 DEF Conclude
<1>6. ASSUME NEW how \in Ended, End(p, t, how), UNCHANGED store,
             how = "cancelled" => phase[p][t] = "draining" \/ t \in cancelling[p]
      PROVE  TasksInv(p)'
  BY <1>1, <1>6, TaskEnds DEF store, EndsRow
<1>7. CASE StartCalculation(p, t)
  <2>1. CASE /\ rows[t[1]].code = "job_queued"
             /\ rows' = [rows EXCEPT ![t[1]].code = "job_running"]
             /\ phase' = [phase EXCEPT ![p][t] = "polling"]
             /\ UNCHANGED <<analyses, workspaces, cancelling, callbacks>>
    BY <1>1, <1>7, <2>1, TaskGoesOn DEF StartCalculation
  <2>. QED BY <1>4, <1>6, <1>7, <2>1 DEF StartCalculation, Ended
<1>8. CASE RunReport(p, t)
  BY <1>4, <1>5, <1>6, <1>8 DEF RunReport, Ended
<1>9. CASE PollRaises(p, t)
  BY <1>4, <1>9 DEF PollRaises
<1>10. CASE ConcludeTask(p, t)
  BY <1>4, <1>5, <1>10 DEF ConcludeTask
<1>11. CASE DeliverCancel(p, t)
  <2>1. CASE phase[p][t] = "polling"
    <3>1. t[1] \notin Report
      BY <2>1 DEF TasksInv, Registered
    <3>. QED BY <1>1, <1>11, <2>1, <3>1, TaskGoesOn DEF DeliverCancel, store
  <2>2. CASE phase[p][t] # "polling"
    BY <1>6, <1>11, <2>2 DEF DeliverCancel, Ended
  <2>. QED BY <2>1, <2>2
<1>12. CASE DrainEnds(p, t)
  BY <1>4, <1>6, <1>12 DEF DrainEnds, Ended
<1>. QED BY <1>7, <1>8, <1>9, <1>10, <1>11, <1>12

\* The steps that create finalizers: the done callback, a caller that waited, a shutdown.
LEMMA FinalizerSteps ==
    ASSUME JobsOK, NEW p \in Process, TasksInv(p),
           \/ \E t \in Task : TaskDone(p, t) \/ CallerResumes(p, t)
           \/ ShutdownFinalizes(p)
    PROVE  TasksInv(p)'
<1>1. ASSUME NEW t \in Task, TaskDone(p, t) PROVE TasksInv(p)'
  <2>1. /\ t \in callbacks[p] /\ tasks[p][t[1]] = t[2] /\ phase[p][t] \in Ended
        /\ rows[t[1]].run = t[2]
    BY <1>1 DEF TaskDone, TasksInv, Registered, Named
  <2>2. manager[p] # "down" /\ (manager[p] = "open" => ~Startable(t[1]))
    BY <2>1, TaskParts DEF TasksInv, Lifetime
  <2>3. callbacks'[p] = callbacks[p] \ {t}
    BY <1>1 DEF TaskDone, JobsOK, TypeOK
  <2>. QED BY <1>1, <2>1, <2>2, <2>3, Finalizing DEF TaskDone, store
<1>2. ASSUME NEW t \in Task, CallerResumes(p, t) PROVE TasksInv(p)'
  <2>1. /\ t \in waiting[p] /\ t \notin callbacks[p] /\ phase[p][t] \in Ended
        /\ rows[t[1]].run = t[2]
    BY <1>2 DEF CallerResumes, TasksInv, Named
  <2>2. manager[p] # "down" /\ (manager[p] = "open" => ~Startable(t[1]))
    BY <2>1, TaskParts DEF TasksInv, Lifetime
  <2>3. waiting'[p] = waiting[p] \ {t}
    BY <1>2 DEF CallerResumes, JobsOK, TypeOK
  <2>. QED BY <1>2, <2>1, <2>2, <2>3, Finalizing DEF CallerResumes, store
<1>3. ASSUME ShutdownFinalizes(p) PROVE TasksInv(p)'
  <2>1. \A t \in stopping[p] : rows[t[1]].run = t[2] /\ phase[p][t] \in Ended /\ t \notin callbacks[p]
    BY <1>3 DEF ShutdownFinalizes, TasksInv, Named, JobsOK, TypeOK
  <2>2. callbacks[p] = {} /\ \A t \in Task : phase[p][t] \notin Live
    <3>1. \A t \in Task : tasks[p][t[1]] = t[2] => t \in stopping[p]
      BY <1>3 DEF ShutdownFinalizes, TasksInv, Lifetime
    <3>2. \A t \in Task : t \notin callbacks[p] /\ phase[p][t] \notin Live
      BY <2>1, <3>1 DEF TasksInv, Registered, Ended, Live
    <3>. QED BY <3>2 DEF JobsOK, TypeOK
  <2>3. manager[p] = "closing" /\ manager'[p] = "finalizing"
    BY <1>3 DEF ShutdownFinalizes, JobsOK, TypeOK
  <2>. QED BY <1>3, <2>1, <2>2, <2>3, Finalizing DEF ShutdownFinalizes, store, loop, JobsOK, TypeOK
<1>. QED BY <1>1, <1>2, <1>3

\* The manager comes and goes.
LEMMA LifeSteps ==
    ASSUME JobsOK, NEW p \in Process, TasksInv(p),
           OpenManager(p) \/ OpenFails(p) \/ Crash(p) \/ Shutdown(p) \/ CloseStore(p)
    PROVE  TasksInv(p)'
<1>. USE DEF JobsOK, TypeOK
<1>1. CASE OpenManager(p) \/ OpenFails(p)
  <2>1. /\ manager[p] = "down" /\ manager'[p] \in {"open", "down"}
        /\ tasks' = tasks /\ finalizers' = finalizers /\ intents' = intents /\ stopping' = stopping
        /\ phase' = phase /\ cancelling' = cancelling /\ callbacks' = callbacks /\ waiting' = waiting
    BY <1>1 DEF OpenManager, OpenFails, loop
  <2>2. /\ waiting[p] = {} /\ stopping[p] = {}
        /\ \A j \in Job : tasks[p][j] = NoRun /\ finalizers[p][j] = NoRun /\ intents[p][j] = "none"
    BY <2>1 DEF TasksInv, Lifetime
  <2>3. \A t \in Task : phase[p][t] \notin Live /\ t \notin callbacks[p]
    <3>1. \A t \in Task : tasks[p][t[1]] # t[2]
      BY <2>2, TaskParts
    <3>. QED BY <3>1 DEF TasksInv, Registered
  <2>4. \A j \in Job : ~Active(j)'
    BY <1>1 DEF OpenManager, OpenFails, Interrupted, Active, ActiveCode, Row
  <2>5. Registered(p)'
    BY <2>1, <2>3, TaskParts DEF TasksInv, Registered
  <2>6. Named(p)' /\ Lifetime(p)'
    BY <2>1, <2>2, TaskParts DEF Named, Lifetime
  <2>7. Intended(p)'
    BY <2>4, TaskParts DEF Intended
  <2>. QED BY <2>5, <2>6, <2>7 DEF TasksInv
<1>2. CASE Crash(p)
  <2>1. /\ manager'[p] = "down" /\ waiting'[p] = {} /\ stopping'[p] = {} /\ callbacks'[p] = {}
        /\ \A j \in Job : tasks'[p][j] = NoRun /\ finalizers'[p][j] = NoRun /\ intents'[p][j] = "none"
        /\ \A t \in Task : phase'[p][t] = "none"
    BY <1>2 DEF Crash, NoTask, NoIntent, NoPhase
  <2>2. Registered(p)' /\ Named(p)'
    BY <2>1, TaskParts DEF Registered, Named, Live
  <2>3. Lifetime(p)' /\ Intended(p)'
    BY <2>1 DEF Lifetime, Intended
  <2>. QED BY <2>2, <2>3 DEF TasksInv
<1>3. CASE Shutdown(p)
  <2>1. /\ manager[p] = "open" /\ manager'[p] = "closing"
        /\ rows' = rows /\ tasks' = tasks /\ finalizers' = finalizers /\ phase' = phase
        /\ callbacks' = callbacks /\ waiting' = waiting
        /\ \A t \in Task : t \in stopping'[p] <=> tasks[p][t[1]] = t[2]
        /\ \A t \in Task : t \in cancelling'[p] => t \in cancelling[p] \/ tasks[p][t[1]] = t[2]
    BY <1>3 DEF Shutdown, Cancel, store
  <2>2. \A j \in Job : /\ intents[p][j] # "none" => intents'[p][j] # "none"
                       /\ tasks[p][j] # NoRun => intents'[p][j] # "none"
    BY <1>3 DEF Shutdown
  <2>3. \A j \in Job : Active(j)' = Active(j)
    BY <2>1 DEF Active
  <2>4. Registered(p)'
    BY <2>1, <2>3, TaskParts DEF TasksInv, Registered
  <2>5. Named(p)'
    BY <2>1 DEF TasksInv, Named
  <2>6. Lifetime(p)'
    BY <2>1, <2>2 DEF Lifetime
  <2>7. Intended(p)'
    BY <2>1, <2>2, <2>3, TaskParts DEF TasksInv, Intended
  <2>. QED BY <2>4, <2>5, <2>6, <2>7 DEF TasksInv
<1>4. CASE CloseStore(p)
  <2>1. /\ callbacks[p] = {} /\ \A t \in Task : phase[p][t] \notin Live
        /\ phase' = phase /\ callbacks' = callbacks
    BY <1>4 DEF CloseStore, TasksInv, Lifetime
  <2>2. /\ manager'[p] = "down" /\ waiting'[p] = {} /\ stopping'[p] = {}
        /\ \A j \in Job : tasks'[p][j] = NoRun /\ finalizers'[p][j] = NoRun /\ intents'[p][j] = "none"
    BY <1>4 DEF CloseStore, NoTask, NoIntent
  <2>3. Registered(p)'
    BY <2>1 DEF TasksInv, Registered
  <2>4. Named(p)'
    BY <2>2, TaskParts DEF Named
  <2>5. Lifetime(p)' /\ Intended(p)'
    BY <2>2 DEF Lifetime, Intended
  <2>. QED BY <2>3, <2>4, <2>5 DEF TasksInv
<1>. QED BY <1>1, <1>2, <1>3, <1>4

\* start_job registers a task for a run that nothing names yet.
LEMMA StartStep ==
    ASSUME JobsOK, NEW p \in Process, TasksInv(p), NEW i \in Job, StartJob(p, i)
    PROVE  TasksInv(p)'
<1>. DEFINE g == rows[i].run + 1
            new == <<i, g>>
<1>1. /\ g \in Run /\ new \in Task /\ new[1] = i /\ new[2] = g
      /\ \A t \in Task : t[1] = i /\ t[2] = g => t = new
  BY Launch DEF StartJob
<1>2. /\ Startable(i) /\ manager[p] = "open" /\ manager' = manager
      /\ rows'[i] = [code |-> "job_queued", run |-> g, expired |-> FALSE]
      /\ \A j \in Job : j # i => rows'[j] = rows[j]
      /\ \A j \in Job : tasks'[p][j] = IF j = i THEN g ELSE tasks[p][j]
      /\ \A t \in Task : phase'[p][t] = IF t = new THEN "created" ELSE phase[p][t]
      /\ intents' = intents /\ finalizers' = finalizers /\ stopping' = stopping
      /\ cancelling' = cancelling /\ callbacks' = callbacks /\ waiting' = waiting
  <2>1. rows \in [Job -> Row] /\ tasks \in [Process -> [Job -> Run \cup {NoRun}]]
        /\ phase \in [Process -> [Task -> Live \cup Ended \cup {"none"}]]
    BY DEF JobsOK, TypeOK
  <2>. QED BY <1>1, <2>1 DEF StartJob, Startable
<1>3. /\ stopping[p] = {} /\ tasks[p][i] = NoRun /\ finalizers[p][i] = NoRun
      /\ \A t \in Task : t \in waiting[p] => t[1] # i
  BY <1>2 DEF TasksInv, Lifetime
<1>4. \A t \in Task : t[1] = i => phase[p][t] \notin Live /\ t \notin callbacks[p]
  BY <1>3, TaskParts DEF TasksInv, Registered
<1>5. \A t \in Task : t \in cancelling[p] => t[1] # i
  BY <1>4 DEF JobsOK, Requested
<1>6. Active(i)' /\ ~Startable(i)'
  BY <1>2 DEF Active, ActiveCode, Startable
<1>7. \A j \in Job : j # i => Active(j)' = Active(j) /\ Startable(j)' = Startable(j)
  BY <1>2 DEF Active, Startable
<1>8. "created" \in Live /\ "created" \notin {"none", "polling", "draining", "cancelled"}
  BY DEF Live
<1>. HIDE DEF g, new
<1>9. Registered(p)'
  BY <1>1, <1>2, <1>4, <1>6, <1>7, <1>8, TaskParts DEF TasksInv, Registered
<1>10. Named(p)'
  BY <1>1, <1>2, <1>3, <1>4, <1>8, TaskParts DEF TasksInv, Named
<1>11. Lifetime(p)'
  BY <1>2, <1>3, <1>6, <1>7, TaskParts DEF TasksInv, Lifetime
<1>12. Intended(p)'
  <2>1. SUFFICES ASSUME NEW t \in Task, rows'[t[1]].run = t[2], Active(t[1])',
                        t \in cancelling'[p] \/ phase'[p][t] \in {"draining", "cancelled"}
                 PROVE  intents'[p][t[1]] # "none"
    BY DEF Intended
  <2>2. CASE t[1] = i
    BY <1>1, <1>2, <1>5, <1>8, <2>1, <2>2
  <2>3. CASE t[1] # i
    BY <1>1, <1>2, <1>7, <2>1, <2>3, TaskParts DEF TasksInv, Intended
  <2>. QED BY <2>2, <2>3
<1>. QED BY <1>9, <1>10, <1>11, <1>12 DEF TasksInv

FailCodes == {"job_failed", "job_cancelled", "job_expired", "job_interrupted_restart_required"}

\* What a finalizer does to row and intent: it ends an active row and drops the intent, or leaves
\* both when the store fails.
EndsOrLeaves(p, i) ==
    \/ rows' = rows /\ intents' = intents /\ (Active(i) => StoreMayFail)
    \/ /\ \/ ~Active(i) /\ rows' = rows
          \/ /\ Active(i) /\ ~Active(i)'
             /\ \E code \in FailCodes :
                   /\ rows' = [rows EXCEPT ![i].code = code]
                   /\ code = "job_interrupted_restart_required" => manager[p] # "open"
       /\ \A j \in Job : intents'[p][j] = IF j = i THEN "none" ELSE intents[p][j]

LEMMA FinalizedRow ==
    ASSUME JobsOK, NEW p \in Process, TasksInv(p), NEW i \in Job, FinalizeTask(p, i)
    PROVE  manager[p] # "down" /\ EndsOrLeaves(p, i)
<1>. DEFINE g == finalizers[p][i]
            done == <<i, g>>
<1>1. /\ g \in Run /\ done \in Task /\ done[1] = i /\ done[2] = g
  <2>1. g \in Run
    BY DEF FinalizeTask, JobsOK, TypeOK
  <2>. QED BY <2>1, Launch
<1>2. rows[i].run = g /\ phase[p][done] \in Ended /\ done \notin callbacks[p]
  BY <1>1 DEF TasksInv, Named
<1>. DEFINE code == FinalCode(p, <<i, finalizers[p][i]>>)
<1>3. PICK failed \in BOOLEAN :
        /\ failed => CleanupFails(i)
        /\ \/ /\ rows' =
                   IF failed /\ (Active(i) \/ rows[i].code = "job_completed")
                     THEN [rows EXCEPT ![i].code = "job_failed"]
                   ELSE IF Active(i) THEN [rows EXCEPT ![i].code = code]
                   ELSE rows
              /\ intents' = [intents EXCEPT ![p][i] = "none"]
           \/ rows' = rows /\ intents' = intents /\ StoreMayFail
  BY DEF FinalizeTask
<1>4. failed => rows[i].code # "job_completed"
  BY <1>3 DEF CleanupFails, JobsOK, FinalInv, CompletedIsClean
<1>5. manager[p] # "down"
  BY <1>1, TaskParts DEF TasksInv, Lifetime
<1>6. Active(i) => /\ code \in FailCodes
                   /\ code = "job_interrupted_restart_required" => manager[p] # "open"
  <2>1. intents[p][i] \in StopCode \cup {"none"}
    BY DEF JobsOK, TypeOK
  <2>2. manager[p] = "open" => intents[p][i] # "job_interrupted_restart_required"
    BY DEF TasksInv, Lifetime
  <2>3. Active(i) /\ phase[p][done] = "cancelled" => intents[p][i] # "none"
    BY <1>1, <1>2, <1>5 DEF TasksInv, Intended
  <2>4. code = IF intents[p][i] # "none" THEN intents[p][i]
               ELSE IF phase[p][done] = "cancelled" THEN "job_interrupted_restart_required"
               ELSE "job_failed"
    BY <1>1 DEF FinalCode
  <2>. QED BY <2>1, <2>2, <2>3, <2>4 DEF FailCodes, StopCode
<1>. HIDE DEF code
<1>7. \A c : rows' = [rows EXCEPT ![i].code = c] => rows'[i].code = c
  BY DEF JobsOK, FinalInv, RowsOK, Row
<1>8. intents' = [intents EXCEPT ![p][i] = "none"]
        => \A j \in Job : intents'[p][j] = IF j = i THEN "none" ELSE intents[p][j]
  BY DEF JobsOK, TypeOK
<1>9. "job_failed" \in FailCodes /\ FailCodes \cap ActiveCode = {}
  BY DEF FailCodes, ActiveCode
<1>10. CASE failed /\ Active(i) /\ rows' = [rows EXCEPT ![i].code = "job_failed"]
                  /\ intents' = [intents EXCEPT ![p][i] = "none"]
  BY <1>5, <1>7, <1>8, <1>9, <1>10 DEF Active, EndsOrLeaves
<1>11. CASE Active(i) /\ rows' = [rows EXCEPT ![i].code = code]
                     /\ intents' = [intents EXCEPT ![p][i] = "none"]
  BY <1>5, <1>6, <1>7, <1>8, <1>9, <1>11 DEF Active, EndsOrLeaves
<1>12. CASE ~Active(i) /\ rows' = rows /\ intents' = [intents EXCEPT ![p][i] = "none"]
  BY <1>5, <1>8, <1>12 DEF Active, EndsOrLeaves
<1>. QED BY <1>3, <1>4, <1>5, <1>10, <1>11, <1>12 DEF EndsOrLeaves

\* The finalizer ends its row, or leaves row and intent when the store fails.
LEMMA FinalizeStep ==
    ASSUME JobsOK, NEW p \in Process, TasksInv(p), NEW i \in Job, FinalizeTask(p, i)
    PROVE  TasksInv(p)'
<1>. DEFINE g == finalizers[p][i]
            done == <<i, g>>
<1>1. /\ g \in Run /\ done \in Task /\ done[1] = i /\ done[2] = g
      /\ \A t \in Task : t[1] = i /\ t[2] = g => t = done
  <2>1. g \in Run
    BY DEF FinalizeTask, JobsOK, TypeOK
  <2>. QED BY <2>1, Launch
<1>2. /\ \A j \in Job : tasks'[p][j] = IF j = i /\ tasks[p][i] = g THEN NoRun ELSE tasks[p][j]
      /\ \A j \in Job : finalizers'[p][j] = IF j = i THEN NoRun ELSE finalizers[p][j]
      /\ manager' = manager /\ stopping' = stopping /\ phase' = phase /\ cancelling' = cancelling
      /\ callbacks' = callbacks /\ waiting' = waiting
  BY DEF FinalizeTask, loop, JobsOK, TypeOK
<1>3. rows[i].run = g /\ phase[p][done] \in Ended /\ done \notin callbacks[p]
  BY <1>1 DEF TasksInv, Named
<1>4. \A t \in Task : t[1] = i => phase[p][t] \notin Live /\ (t \in callbacks[p] => tasks[p][i] # g)
  <2>1. ASSUME NEW t \in Task, t[1] = i, phase[p][t] \in Live \/ t \in callbacks[p]
        PROVE  t \in callbacks[p] /\ phase[p][t] \notin Live /\ tasks[p][i] # g
    <3>1. tasks[p][i] = t[2] /\ rows[i].run = t[2]
      BY <2>1 DEF TasksInv, Registered, Named
    <3>2. t = done
      BY <1>1, <1>3, <2>1, <3>1
    <3>. QED BY <1>3, <2>1, <3>2 DEF Live, Ended
  <2>. QED BY <2>1
<1>5. \/ rows' = rows /\ intents' = intents
      \/ /\ EndsRow(i) \/ (Active(i) /\ manager[p] # "open"
                           /\ rows' = [rows EXCEPT ![i].code = "job_interrupted_restart_required"])
         /\ ~Active(i)'
         /\ \A j \in Job : intents'[p][j] = IF j = i THEN "none" ELSE intents[p][j]
  <2>1. EndsOrLeaves(p, i)
    BY FinalizedRow
  <2>. QED BY <2>1 DEF EndsOrLeaves, EndsRow, FinalCodes, FailCodes, Active
<1>6. \A j \in Job : /\ rows'[j].run = rows[j].run
                     /\ Active(j)' => Active(j)
                     /\ Startable(j)' => Startable(j) \/ manager[p] # "open"
                     /\ j # i => rows'[j] = rows[j]
  <2>1. RowsOK
    BY DEF JobsOK, FinalInv
  <2>2. CASE rows' = [rows EXCEPT ![i].code = "job_interrupted_restart_required"] /\ manager[p] # "open"
             /\ Active(i)
    BY <2>1, <2>2 DEF RowsOK, Row, Active, ActiveCode
  <2>3. CASE EndsRow(i)
    BY <2>1, <2>3, RowsAfterEnd
  <2>. QED BY <1>5, <2>2, <2>3 DEF EndsRow
<1>11. tasks'[p][i] = NoRun
  <2>1. ASSUME tasks[p][i] # NoRun PROVE tasks[p][i] = g
    <3>1. tasks[p][i] \in Run
      BY <2>1 DEF JobsOK, TypeOK
    <3>2. rows[i].run = tasks[p][i]
      <4>1. <<i, tasks[p][i]>> \in Task
        BY <3>1, Launch
      <4>. QED BY <3>1, <4>1, Launch DEF TasksInv, Named
    <3>. QED BY <1>3, <3>2
  <2>. QED BY <1>2, <2>1
<1>. HIDE DEF g, done
<1>7. Registered(p)'
  BY <1>1, <1>2, <1>4, <1>6, TaskParts DEF TasksInv, Registered, Active
<1>8. Named(p)'
  BY <1>1, <1>2, <1>6, TaskParts DEF TasksInv, Named
<1>9. Lifetime(p)'
  BY <1>2, <1>5, <1>6, <1>11, TaskParts DEF TasksInv, Lifetime
<1>10. Intended(p)'
  BY <1>2, <1>5, <1>6, TaskParts DEF TasksInv, Intended
<1>. QED BY <1>7, <1>8, <1>9, <1>10 DEF TasksInv

\* get_job and cancel_job write a row without a task, or set the intent and cancel the task.
LEMMA StopStep ==
    ASSUME JobsOK, NEW p \in Process, TasksInv(p), NEW i \in Job,
           NEW code \in {"job_expired", "job_cancelled"}, StopJob(p, i, code)
    PROVE  TasksInv(p)'
<1>1. CASE tasks[p][i] = NoRun
  <2>1. /\ Active(i) /\ rows' = [rows EXCEPT ![i].code = code]
        /\ manager' = manager /\ tasks' = tasks /\ intents' = intents /\ finalizers' = finalizers
        /\ stopping' = stopping /\ phase' = phase /\ cancelling' = cancelling
        /\ callbacks' = callbacks /\ waiting' = waiting
    BY <1>1 DEF StopJob
  <2>2. EndsRow(i)
    BY <2>1 DEF EndsRow, FinalCodes
  <2>3. \A j \in Job : /\ rows'[j].run = rows[j].run
                       /\ Active(j)' => Active(j)
                       /\ Startable(j)' => Startable(j)
                       /\ j # i => rows'[j] = rows[j]
    BY <2>2, RowsAfterEnd DEF JobsOK, FinalInv
  <2>4. \A t \in Task : phase[p][t] \in Live => t[1] # i
    BY <1>1, TaskParts DEF TasksInv, Registered
  <2>5. Registered(p)'
    BY <2>1, <2>3, <2>4, TaskParts DEF TasksInv, Registered, Active
  <2>6. Named(p)'
    BY <2>1, <2>3, TaskParts DEF TasksInv, Named
  <2>7. Lifetime(p)'
    BY <2>1, <2>3, TaskParts DEF TasksInv, Lifetime
  <2>8. Intended(p)'
    BY <2>1, <2>3, TaskParts DEF TasksInv, Intended
  <2>. QED BY <2>5, <2>6, <2>7, <2>8 DEF TasksInv
<1>2. CASE tasks[p][i] # NoRun
  <2>. DEFINE t == <<i, tasks[p][i]>>
  <2>1. t \in Task /\ t[1] = i /\ t[2] = tasks[p][i]
    BY <1>2, Launch DEF JobsOK, TypeOK
  <2>2. /\ manager[p] = "open" /\ Active(i) /\ rows' = rows
        /\ manager' = manager /\ tasks' = tasks /\ finalizers' = finalizers
        /\ stopping' = stopping /\ phase' = phase /\ callbacks' = callbacks
        /\ intents' = [intents EXCEPT ![p][i] = IF @ = "none" THEN code ELSE @]
        /\ cancelling' = [cancelling EXCEPT ![p] = @ \cup {u \in {t} : phase[p][u] \in Live}]
        /\ waiting' = [waiting EXCEPT ![p] = @ \cup {t}]
    BY <1>2 DEF StopJob, Cancel
  <2>. HIDE DEF t
  <2>3. \A j \in Job : /\ intents'[p][j] = IF j = i /\ intents[p][j] = "none" THEN code ELSE intents[p][j]
                       /\ Active(j)' = Active(j) /\ Startable(j)' = Startable(j)
    BY <2>2 DEF JobsOK, TypeOK, Active, Startable
  <2>4. \A u \in Task : /\ u \in cancelling'[p] => u \in cancelling[p] \/ u = t
                        /\ u \in waiting'[p] => u \in waiting[p] \/ u = t
    BY <2>2 DEF JobsOK, TypeOK
  <2>5. rows[i].run = t[2] /\ phase[p][t] # "none" /\ ~Startable(i)
    BY <2>1, <2>2 DEF TasksInv, Named, Active, ActiveCode, Startable
  <2>6. Registered(p)'
    BY <2>2, <2>3, TaskParts DEF TasksInv, Registered
  <2>7. Named(p)'
    BY <2>1, <2>2, <2>4, <2>5, TaskParts DEF TasksInv, Named
  <2>8. Lifetime(p)'
    <3>1. \A u \in waiting'[p] : u \in waiting[p] \/ u = t
      BY <2>2 DEF JobsOK, TypeOK
    <3>. QED BY <2>1, <2>2, <2>3, <2>5, <3>1 DEF TasksInv, Lifetime
  <2>9. Intended(p)'
    BY <2>1, <2>2, <2>3, <2>4, TaskParts DEF TasksInv, Intended
  <2>. QED BY <2>6, <2>7, <2>8, <2>9 DEF TasksInv
<1>. QED BY <1>1, <1>2

-----------------------------------------------------------------------------
\* Every step of the process keeps the invariant.
LEMMA TasksStep ==
    ASSUME OneProcess, JobsOK, NEW p \in Process, TasksInv(p), [Next]_vars
    PROVE  TasksInv(p)'
<1>1. \A q \in Process : q = p
  BY DEF OneProcess
<1>2. ASSUME NEW j \in Job,
             StartJob(p, j) \/ GetJob(p, j) \/ CancelJob(p, j) \/ FinalizeTask(p, j)
      PROVE  TasksInv(p)'
  BY <1>2, StartStep, FinalizeStep, StopStep DEF GetJob, CancelJob
<1>3. ASSUME NEW t \in Task, TaskStep(p, t) \/ CallerResumes(p, t) PROVE TasksInv(p)'
  BY <1>3, TaskSteps, FinalizerSteps DEF TaskStep
<1>4. ASSUME NEW t \in Task,
             CallerLeaves(p, t) \/ \E result \in {"ok", "error"} : WorkerEnds(p, t, result)
      PROVE  TasksInv(p)'
  <2>1. waiting'[p] \subseteq waiting[p]
    BY <1>4 DEF CallerLeaves, WorkerEnds, JobsOK, TypeOK
  <2>. QED BY <1>4, <2>1, Unmoved DEF CallerLeaves, WorkerEnds, store
<1>5. ASSUME NEW j \in Job, Expire(j) PROVE TasksInv(p)'
  <2>1. \A i \in Job : rows'[i].run = rows[i].run /\ rows'[i].code = rows[i].code
    BY <1>5 DEF Expire, JobsOK, FinalInv, RowsOK, Row
  <2>. QED BY <1>5, <2>1, Unmoved DEF Expire, loop
<1>6. ASSUME UNCHANGED vars PROVE TasksInv(p)'
  BY <1>6, Unmoved DEF vars, store, loop
<1>7. ASSUME OpenManager(p) \/ OpenFails(p) \/ Crash(p) \/ Shutdown(p) \/ ShutdownStep(p) PROVE TasksInv(p)'
  BY <1>7, LifeSteps, FinalizerSteps DEF ShutdownStep
<1>. QED BY <1>1, <1>2, <1>3, <1>4, <1>5, <1>6, <1>7 DEF Next

\* What is published matches what is completed, before and after every step.
LEMMA ConclusionStep ==
    ASSUME OneProcess, JobsOK, \A p \in Process : TasksInv(p), ConclusionAtomic, [Next]_vars
    PROVE  ConclusionAtomic'
<1>1. RowsOK /\ FinalStep
  BY InvariantStep DEF JobsOK, FinalInv
<1>2. CASE CompletesNothing
  <2>1. \A j \in Job : rows'[j].code = "job_completed" <=> rows[j].code = "job_completed"
    BY <1>1, <1>2 DEF CompletesNothing, FinalStep, FinalCodes
  <2>2. \A j \in Job : rows[j].code = "job_completed" => rows'[j].run = rows[j].run
    BY <1>2, <2>1 DEF CompletesNothing
  <2>. QED BY <1>2, <2>1, <2>2, TaskParts DEF CompletesNothing, ConclusionAtomic
<1>3. ASSUME NEW p \in Process, NEW t \in Task, Completes(p, t) PROVE ConclusionAtomic'
  <2>1. rows[t[1]].run = t[2] /\ (phase[p][t] = "polling" => t[1] \notin Report)
    BY <1>3 DEF Completes, TasksInv, Registered, Named
  <2>2. /\ rows'[t[1]].code = "job_completed" /\ rows'[t[1]].run = t[2]
        /\ \A j \in Job : j # t[1] => rows'[j] = rows[j]
    BY <1>1, <1>3, <2>1, TaskParts DEF Completes, RowsOK, Row
  <2>3. rows[t[1]].code # "job_completed"
    BY <1>3 DEF Completes, Active, ActiveCode
  <2>4. \A u \in Task : u \in analyses <=>
            u[1] \notin Report /\ rows[u[1]].code = "job_completed" /\ rows[u[1]].run = u[2]
    BY DEF ConclusionAtomic
  <2>5. \A u \in Task : u \in analyses' <=>
            u[1] \notin Report /\ rows'[u[1]].code = "job_completed" /\ rows'[u[1]].run = u[2]
    BY <1>3, <2>1, <2>2, <2>3, <2>4, TaskParts, SameLaunch DEF Completes
  <2>6. analyses' \subseteq Task
    BY <1>3 DEF Completes, JobsOK, TypeOK
  <2>. QED BY <2>5, <2>6 DEF ConclusionAtomic
<1>. QED BY <1>2, <1>3, Completion DEF JobsOK

-----------------------------------------------------------------------------
(* Nobody owns a job that is stuck. *)

\* What a step of a coroutine does to its row: it ends, or goes on.
LEMMA TaskOutcome ==
    ASSUME JobsOK, NEW p \in Process, TasksInv(p), NEW t \in Task,
           \/ StartCalculation(p, t) \/ RunReport(p, t) \/ PollRaises(p, t) \/ ConcludeTask(p, t)
           \/ DeliverCancel(p, t) \/ DrainEnds(p, t)
    PROVE  /\ phase[p][t] \in Live
           /\ manager' = manager /\ tasks' = tasks /\ intents' = intents /\ finalizers' = finalizers
           /\ \/ EndsRow(t[1]) /\ \E how \in Ended : End(p, t, how)
              \/ /\ \/ rows' = rows
                    \/ rows[t[1]].code = "job_queued" /\ rows' = [rows EXCEPT ![t[1]].code = "job_running"]
                 /\ callbacks' = callbacks
                 /\ \E to \in {"polling", "draining"} : phase' = [phase EXCEPT ![p][t] = to]
<1>. DEFINE Ends == EndsRow(t[1]) /\ \E how \in Ended : End(p, t, how)
<1>1. /\ phase[p][t] \in Live
      /\ manager' = manager /\ tasks' = tasks /\ intents' = intents /\ finalizers' = finalizers
  BY DEF StartCalculation, RunReport, PollRaises, ConcludeTask, DeliverCancel, DrainEnds, Live,
     JobsOK, Requested
<1>2. Active(t[1]) /\ {"job_failed", "job_expired", "job_completed"} \subseteq FinalCodes
  BY <1>1 DEF TasksInv, Registered, FinalCodes
<1>3. \A code \in {"job_failed", "job_expired"} : Raise(p, t, code) => Ends
  BY <1>2 DEF Raise, EndsRow, Ended
<1>4. \A result : Conclude(p, t, result) => Ends
  BY <1>2, <1>3 DEF Conclude, EndsRow, Ended
<1>5. \A how \in Ended : End(p, t, how) /\ rows' = rows => Ends
  BY DEF EndsRow
<1>6. "returned" \in Ended /\ "cancelled" \in Ended
  BY DEF Ended
<1>. HIDE DEF Ends
<1>7. CASE StartCalculation(p, t)
  BY <1>1, <1>3, <1>5, <1>6, <1>7 DEF StartCalculation, store, Ends
<1>8. CASE RunReport(p, t)
  BY <1>1, <1>3, <1>4, <1>5, <1>6, <1>8 DEF RunReport, store, Ends
<1>9. CASE PollRaises(p, t) \/ ConcludeTask(p, t)
  BY <1>1, <1>3, <1>4, <1>9 DEF PollRaises, ConcludeTask, Ends
<1>10. CASE DeliverCancel(p, t) \/ DrainEnds(p, t)
  BY <1>1, <1>3, <1>5, <1>6, <1>10 DEF DeliverCancel, DrainEnds, store, Ends
<1>. QED BY <1>7, <1>8, <1>9, <1>10

\* A job that will go on, or be finalized, or that a refused write left behind.
Attended(p, j) ==
    LET t == <<j, tasks[p][j]>> IN
    \/ tasks[p][j] = NoRun /\ StoreMayFail
    \/ /\ tasks[p][j] # NoRun
       /\ phase[p][t] \in Live \/ t \in callbacks[p] \/ finalizers[p][j] = tasks[p][j]

AllAttended(p) == manager[p] # "down" => \A j \in Job : Active(j) => Attended(p, j)

\* Jobs whose registration and finalizer are left alone stay attended while their tasks go on
\* or end with a callback.
LEMMA StillAttended ==
    ASSUME JobsOK, NEW p \in Process, NEW j \in Job, Attended(p, j),
           tasks'[p][j] = tasks[p][j], finalizers'[p][j] = finalizers[p][j],
           \A t \in Task : t[1] = j =>
               /\ t \in callbacks[p] => t \in callbacks'[p]
               /\ phase[p][t] \in Live => phase'[p][t] \in Live \/ t \in callbacks'[p]
    PROVE  Attended(p, j)'
<1>1. tasks[p][j] # NoRun => <<j, tasks[p][j]>> \in Task /\ <<j, tasks[p][j]>>[1] = j
  BY Launch DEF JobsOK, TypeOK
<1>. QED BY <1>1 DEF Attended

\* The finalizer a callback, a caller or a shutdown makes sure of attends to the job.
LEMMA AttendedByFinalizer ==
    ASSUME JobsOK, NEW p \in Process, TasksInv(p), TasksInv(p)', AllAttended(p),
           NEW runs \in SUBSET Task, EnsureFinalizers(p, runs), manager[p] # "down",
           rows' = rows, tasks' = tasks, phase' = phase,
           \A t \in callbacks[p] : t \in callbacks'[p] \/ t \in runs
    PROVE  AllAttended(p)'
<1>1. SUFFICES ASSUME NEW j \in Job, Active(j) PROVE Attended(p, j)'
  BY DEF AllAttended, Active
<1>2. Attended(p, j)
  BY <1>1 DEF AllAttended
<1>. DEFINE t == <<j, tasks[p][j]>>
<1>3. CASE tasks[p][j] = NoRun
  BY <1>2, <1>3 DEF Attended
<1>4. CASE tasks[p][j] # NoRun
  <2>1. tasks[p][j] \in Run /\ t \in Task /\ t[1] = j /\ t[2] = tasks[p][j]
    BY <1>4, Launch DEF JobsOK, TypeOK
  <2>2. rows[j].run = tasks[p][j]
    BY <2>1 DEF TasksInv, Named
  <2>3. finalizers[p][j] = tasks[p][j] => finalizers'[p][j] = tasks[p][j]
    BY <2>1, TaskParts DEF EnsureFinalizers, JobsOK, TypeOK
  <2>4. t \in runs => finalizers'[p][j] = tasks[p][j]
    <3>1. ASSUME t \in runs PROVE finalizers'[p][j] # NoRun
      <4>1. \E g \in Run : <<j, g>> \in runs
        BY <2>1, <3>1
      <4>2. \A g \in Run : g # NoRun
        BY BoundAssumption DEF Run, NoRun
      <4>3. finalizers'[p][j] = IF finalizers[p][j] = NoRun
                                  THEN CHOOSE g \in Run : <<j, g>> \in runs ELSE finalizers[p][j]
        BY <4>1 DEF EnsureFinalizers, JobsOK, TypeOK
      <4>. QED BY <4>1, <4>2, <4>3
    <3>2. finalizers'[p][j] \in Run \cup {NoRun}
      BY Finalizers DEF JobsOK, TypeOK
    <3>3. ASSUME finalizers'[p][j] \in Run PROVE finalizers'[p][j] = rows[j].run
      <4>1. <<j, finalizers'[p][j]>> \in Task /\ <<j, finalizers'[p][j]>>[1] = j
            /\ <<j, finalizers'[p][j]>>[2] = finalizers'[p][j]
        BY <3>3, Launch
      <4>. QED BY <4>1 DEF TasksInv, Named
    <3>. QED BY <2>2, <3>1, <3>2, <3>3
  <2>. HIDE DEF t
  <2>5. phase[p][t] \in Live \/ t \in callbacks[p] \/ finalizers[p][j] = tasks[p][j]
    BY <1>2, <1>4 DEF Attended, t
  <2>6. phase'[p][t] \in Live \/ t \in callbacks'[p] \/ finalizers'[p][j] = tasks[p][j]
    BY <2>3, <2>4, <2>5
  <2>. QED BY <1>4, <2>6 DEF Attended, t
<1>. QED BY <1>3, <1>4

\* No step leaves an active job alone.
LEMMA AttendedStep ==
    ASSUME OneProcess, JobsOK, NEW p \in Process, TasksInv(p), TasksInv(p)', AllAttended(p), [Next]_vars
    PROVE  AllAttended(p)'
<1>1. \A q \in Process : q = p
  BY DEF OneProcess
<1>2. ASSUME manager'[p] = "down" \/ \A j \in Job : ~Active(j)' PROVE AllAttended(p)'
  BY <1>2 DEF AllAttended
<1>3. ASSUME manager[p] # "down", tasks' = tasks, finalizers' = finalizers, phase' = phase,
             callbacks' = callbacks, \A j \in Job : Active(j)' => Active(j)
      PROVE  AllAttended(p)'
  BY <1>3, StillAttended DEF AllAttended
<1>4. ASSUME OpenManager(p) \/ OpenFails(p) PROVE AllAttended(p)'
  <2>1. \A j \in Job : ~Active(j)'
    BY <1>4 DEF OpenManager, OpenFails, Interrupted, Active, ActiveCode, Row, JobsOK, TypeOK
  <2>. QED BY <1>2, <2>1
<1>5. ASSUME Crash(p) \/ CloseStore(p) PROVE AllAttended(p)'
  <2>1. manager'[p] = "down"
    BY <1>5 DEF Crash, CloseStore, JobsOK, TypeOK
  <2>. QED BY <1>2, <2>1
<1>6. ASSUME Shutdown(p) PROVE AllAttended(p)'
  BY <1>3, <1>6 DEF Shutdown, store, Active
<1>7. ASSUME ShutdownFinalizes(p) PROVE AllAttended(p)'
  <2>1. stopping[p] \subseteq Task
    BY DEF JobsOK, TypeOK
  <2>2. /\ EnsureFinalizers(p, stopping[p]) /\ manager[p] # "down" /\ rows' = rows /\ tasks' = tasks
        /\ phase' = phase /\ callbacks' = callbacks
    BY <1>7 DEF ShutdownFinalizes, store, loop
  <2>. QED BY <2>1, <2>2, AttendedByFinalizer
<1>8. ASSUME NEW t \in Task, TaskDone(p, t) \/ CallerResumes(p, t) PROVE AllAttended(p)'
  <2>1. /\ EnsureFinalizers(p, {t}) /\ rows' = rows /\ tasks' = tasks /\ phase' = phase
        /\ \A u \in callbacks[p] : u \in callbacks'[p] \/ u \in {t}
    BY <1>8 DEF TaskDone, CallerResumes, store, JobsOK, TypeOK
  <2>2. manager[p] # "down"
    BY <1>8, TaskParts DEF TaskDone, CallerResumes, TasksInv, Registered, Lifetime
  <2>. QED BY <2>1, <2>2, AttendedByFinalizer
<1>9. ASSUME NEW i \in Job, StartJob(p, i) PROVE AllAttended(p)'
  <2>. DEFINE new == <<i, rows[i].run + 1>>
  <2>1. rows[i].run + 1 \in Run /\ new \in Task /\ rows[i].run + 1 # NoRun
    BY <1>9, Launch, TaskParts DEF StartJob
  <2>2. manager[p] # "down"
    BY <1>9 DEF StartJob
  <2>3. Attended(p, i)'
    <3>1. tasks'[p][i] = rows[i].run + 1 /\ phase'[p][new] \in Live
      BY <1>9, <2>1 DEF StartJob, JobsOK, TypeOK, Live
    <3>. QED BY <2>1, <3>1 DEF Attended
  <2>4. ASSUME NEW j \in Job, j # i, Active(j)' PROVE Attended(p, j)'
    <3>1. Active(j) /\ tasks'[p][j] = tasks[p][j] /\ finalizers' = finalizers /\ callbacks' = callbacks
      BY <1>9, <2>4 DEF StartJob, Active, JobsOK, TypeOK
    <3>2. \A t \in Task : phase[p][t] \in Live => phase'[p][t] \in Live
      BY <1>9, <2>1 DEF StartJob, JobsOK, TypeOK, Live
    <3>. QED BY <2>2, <3>1, <3>2, StillAttended DEF AllAttended
  <2>. QED BY <2>3, <2>4 DEF AllAttended
<1>10. ASSUME NEW i \in Job, FinalizeTask(p, i) PROVE AllAttended(p)'
  <2>1. /\ manager[p] # "down"
        /\ \/ rows' = rows /\ (Active(i) => StoreMayFail)
           \/ (\E code \in FailCodes : rows' = [rows EXCEPT ![i].code = code]) /\ ~Active(i)'
    <3>1. manager[p] # "down" /\ EndsOrLeaves(p, i)
      BY <1>10, FinalizedRow
    <3>. QED BY <3>1 DEF EndsOrLeaves
  <2>2. \A j \in Job : Active(j)' => Active(j)
    <3>1. \A j \in Job : j # i => rows'[j] = rows[j]
      BY <2>1 DEF JobsOK, TypeOK
    <3>. QED BY <2>1, <3>1 DEF Active
  <2>3. tasks'[p][i] = NoRun
    <3>1. ASSUME tasks[p][i] # NoRun PROVE tasks[p][i] = finalizers[p][i]
      <4>1. tasks[p][i] \in Run /\ finalizers[p][i] \in Run
        BY <1>10, <3>1 DEF FinalizeTask, JobsOK, TypeOK
      <4>2. <<i, tasks[p][i]>> \in Task /\ <<i, finalizers[p][i]>> \in Task
        BY <4>1, Launch
      <4>3. rows[i].run = tasks[p][i] /\ rows[i].run = finalizers[p][i]
        BY <4>1, <4>2, Launch DEF TasksInv, Named
      <4>. QED BY <4>3
    <3>. QED BY <1>10, <3>1 DEF FinalizeTask, JobsOK, TypeOK
  <2>4. ASSUME Active(i)' PROVE Attended(p, i)'
    BY <2>1, <2>2, <2>3, <2>4 DEF Attended
  <2>5. ASSUME NEW j \in Job, j # i, Active(j)' PROVE Attended(p, j)'
    <3>1. /\ tasks'[p][j] = tasks[p][j] /\ finalizers'[p][j] = finalizers[p][j]
          /\ phase' = phase /\ callbacks' = callbacks
      BY <1>10, <2>5 DEF FinalizeTask, loop, JobsOK, TypeOK
    <3>. QED BY <2>1, <2>2, <2>5, <3>1, StillAttended DEF AllAttended
  <2>. QED BY <2>4, <2>5 DEF AllAttended
<1>11. ASSUME NEW i \in Job, NEW code \in {"job_expired", "job_cancelled"}, StopJob(p, i, code)
       PROVE  AllAttended(p)'
  <2>1. \A j \in Job : Active(j)' => Active(j)
    BY <1>11 DEF StopJob, Active, ActiveCode, JobsOK, TypeOK, Row
  <2>. QED BY <1>3, <1>11, <2>1 DEF StopJob
<1>12. ASSUME NEW t \in Task,
              \/ StartCalculation(p, t) \/ RunReport(p, t) \/ PollRaises(p, t) \/ ConcludeTask(p, t)
              \/ DeliverCancel(p, t) \/ DrainEnds(p, t)
       PROVE  AllAttended(p)'
  <2>1. /\ phase[p][t] \in Live
        /\ manager' = manager /\ tasks' = tasks /\ finalizers' = finalizers
        /\ \/ EndsRow(t[1]) /\ \E how \in Ended : End(p, t, how)
           \/ /\ \/ rows' = rows
                 \/ rows[t[1]].code = "job_queued" /\ rows' = [rows EXCEPT ![t[1]].code = "job_running"]
              /\ callbacks' = callbacks
              /\ \E to \in {"polling", "draining"} : phase' = [phase EXCEPT ![p][t] = to]
    BY <1>12, TaskOutcome
  <2>2. Active(t[1])
    BY <2>1 DEF TasksInv, Registered
  <2>3. \A j \in Job : Active(j)' => Active(j)
    <3>1. CASE EndsRow(t[1])
      BY <3>1, TaskParts, RowsAfterEnd DEF JobsOK, FinalInv
    <3>2. CASE ~EndsRow(t[1])
      BY <2>1, <2>2, <3>2 DEF Active, JobsOK, TypeOK
    <3>. QED BY <3>1, <3>2
  <2>4. \A u \in Task : /\ u \in callbacks[p] => u \in callbacks'[p]
                        /\ phase[p][u] \in Live => phase'[p][u] \in Live \/ u \in callbacks'[p]
    BY <2>1 DEF End, JobsOK, TypeOK, Live
  <2>. QED BY <2>1, <2>3, <2>4, StillAttended DEF AllAttended
<1>13. ASSUME \/ \E t \in Task : \/ CallerLeaves(p, t)
                                 \/ \E result \in {"ok", "error"} : WorkerEnds(p, t, result)
              \/ \E i \in Job : Expire(i)
              \/ UNCHANGED vars
       PROVE  AllAttended(p)'
  <2>1. /\ manager' = manager /\ tasks' = tasks /\ finalizers' = finalizers /\ phase' = phase
        /\ callbacks' = callbacks
    BY <1>13 DEF CallerLeaves, WorkerEnds, Expire, vars, loop
  <2>2. \A j \in Job : Active(j)' => Active(j)
    BY <1>13 DEF CallerLeaves, WorkerEnds, Expire, vars, store, Active, JobsOK, TypeOK, Row
  <2>. QED BY <1>2, <1>3, <2>1, <2>2
<1>14. ASSUME NEW t \in Task, TaskStep(p, t) PROVE AllAttended(p)'
  BY <1>8, <1>12, <1>14 DEF TaskStep
<1>15. ASSUME NEW j \in Job,
              StartJob(p, j) \/ GetJob(p, j) \/ CancelJob(p, j) \/ FinalizeTask(p, j)
       PROVE  AllAttended(p)'
  BY <1>9, <1>10, <1>11, <1>15 DEF GetJob, CancelJob
<1>. QED BY <1>1, <1>4, <1>5, <1>6, <1>7, <1>8, <1>13, <1>14, <1>15 DEF Next, ShutdownStep

\* The inductive invariant.
JobsInv == JobsOK /\ ConclusionAtomic /\ \A p \in Process : TasksInv(p) /\ AllAttended(p)

\* The inductive invariant of one process holds in every state.
LEMMA JobsInvAlways == ASSUME OneProcess PROVE Spec => []JobsInv
<1>1. Init => JobsInv
  <2>1. Init => TypeOK /\ FinalInv /\ Requested
    BY DEF Init, TypeOK, Requested, FinalInv, RowsOK, Row, StatusCode, CompletedIsClean, NoIntent,
       NoTask, NoPhase, NoWorker, NoRun
  <2>2. Init => ConclusionAtomic
    BY TaskParts DEF Init, ConclusionAtomic
  <2>3. Init => \A p \in Process : TasksInv(p)
    BY TaskParts DEF Init, TasksInv, Registered, Named, Lifetime, Intended, NoTask, NoIntent,
       NoPhase, Live
  <2>4. Init => \A p \in Process : AllAttended(p)
    BY DEF Init, AllAttended
  <2>. QED BY <2>1, <2>2, <2>3, <2>4 DEF JobsInv, JobsOK
<1>2. JobsInv /\ [Next]_vars => JobsInv'
  <2>1. SUFFICES ASSUME JobsInv, [Next]_vars PROVE JobsInv'
    OBVIOUS
  <2>2. JobsOK' /\ ConclusionAtomic'
    BY <2>1, TypeStep, InvariantStep, ConclusionStep DEF JobsInv, JobsOK
  <2>3. ASSUME NEW p \in Process PROVE TasksInv(p)' /\ AllAttended(p)'
    <3>1. TasksInv(p)'
      BY <2>1, TasksStep DEF JobsInv
    <3>. QED BY <2>1, <3>1, AttendedStep DEF JobsInv
  <2>. QED BY <2>2, <2>3 DEF JobsInv
<1>. QED BY <1>1, <1>2, PTL DEF Spec

\* A task that may still run belongs to the active row of its run: a job that is being
\* cancelled keeps its slot (tests/test_analytics_jobs.py:316).
THEOREM TasksCounted == ASSUME OneProcess PROVE Spec => []LiveTaskCounted
<1>1. JobsInv => LiveTaskCounted
  BY DEF JobsInv, TasksInv, Registered, Named, LiveTaskCounted
<1>. QED BY <1>1, JobsInvAlways, PTL

\* A calculation is published exactly when its job is completed (docs/analytics.md:41).
THEOREM ConclusionsAtomic == ASSUME OneProcess PROVE Spec => []ConclusionAtomic
<1>1. JobsInv => ConclusionAtomic
  BY DEF JobsInv
<1>. QED BY <1>1, JobsInvAlways, PTL

\* A finalizer never finds a restarted job in place of the run it was created for
\* (_ensure_task_finalizer, start_job).
THEOREM FinalizersOwnRuns == ASSUME OneProcess PROVE Spec => []FinalizerOwnsRun
<1>1. ASSUME JobsInv, NEW p \in Process, NEW j \in Job, finalizers[p][j] # NoRun
      PROVE  finalizers[p][j] = rows[j].run
  <2>1. finalizers[p][j] \in Run
    BY <1>1 DEF JobsInv, JobsOK, TypeOK
  <2>2. <<j, finalizers[p][j]>> \in Task
    BY <2>1, Launch
  <2>. QED BY <1>1, <2>1, <2>2, Launch DEF JobsInv, TasksInv, Named
<1>2. JobsInv => FinalizerOwnsRun
  BY <1>1 DEF FinalizerOwnsRun
<1>. QED BY <1>2, JobsInvAlways, PTL

\* A stop intent on an active job is not overtaken by a conclusion of its task
\* (_stop_intents, report_progress, commit_analysis).
THEOREM IntentsWin == ASSUME OneProcess PROVE Spec => StopIntentWins
<1>1. JobsInv /\ [Next]_vars =>
        [\A p \in Process, j \in Job :
            intents[p][j] # "none" /\ Active(j) => rows'[j].code # "job_completed"]_vars
  <2>1. SUFFICES ASSUME JobsInv, [Next]_vars, NEW p \in Process, NEW j \in Job,
                        intents[p][j] # "none", Active(j)
                 PROVE  rows'[j].code # "job_completed"
    OBVIOUS
  <2>2. rows[j].code # "job_completed"
    BY <2>1 DEF Active, ActiveCode
  <2>3. CASE CompletesNothing
    BY <2>2, <2>3 DEF CompletesNothing
  <2>4. ASSUME NEW q \in Process, NEW t \in Task, Completes(q, t) PROVE rows'[j].code # "job_completed"
    <3>1. t[1] # j
      BY <2>1, <2>4 DEF Completes, OneProcess
    <3>2. rows'[j] = rows[j]
      BY <2>1, <2>4, <3>1 DEF Completes, JobsInv, JobsOK, FinalInv, RowsOK
    <3>. QED BY <2>2, <3>2
  <2>. QED BY <2>1, <2>3, <2>4, Completion DEF JobsInv, JobsOK
<1>. QED BY <1>1, JobsInvAlways, PTL DEF Spec, StopIntentWins

\* Nobody owns an active job that is stuck: its task may still run, or its callback or its
\* finalizer is still to come, unless the store refused the last write (_drop_task_finalizer).
THEOREM NobodyStranded == ASSUME OneProcess PROVE Spec => []NoJobStranded
<1>1. ASSUME JobsInv, NEW p \in Process, NEW j \in Job, tasks[p][j] # NoRun
      PROVE  tasks[p][j] = rows[j].run
  <2>1. tasks[p][j] \in Run /\ <<j, tasks[p][j]>> \in Task
    BY <1>1, Launch DEF JobsInv, JobsOK, TypeOK
  <2>. QED BY <1>1, <2>1, Launch DEF JobsInv, TasksInv, Named
<1>2. JobsInv => NoJobStranded
  BY <1>1 DEF JobsInv, AllAttended, Attended, NoJobStranded
<1>. QED BY <1>2, JobsInvAlways, PTL
-----------------------------------------------------------------------------
(* The life of a job. *)

\* What the mapping shows of the state of the one process.
LEMMA Mapped ==
    ASSUME OneProcess, NEW p \in Process
    PROVE  /\ Service = IF manager[p] = "open" THEN "open"
                        ELSE IF manager[p] # "down" THEN "closing" ELSE "down"
           /\ Service' = IF manager'[p] = "open" THEN "open"
                         ELSE IF manager'[p] # "down" THEN "closing" ELSE "down"
           /\ JobsStopping = {j \in Job : Active(j) /\ intents[p][j] # "none"}
           /\ JobsStopping' = {j \in Job : Active(j)' /\ intents'[p][j] # "none"}
<1>1. \A q \in Process : q = p
  BY DEF OneProcess
<1>2. /\ Service = IF manager[p] = "open" THEN "open"
                   ELSE IF manager[p] # "down" THEN "closing" ELSE "down"
      /\ Service' = IF manager'[p] = "open" THEN "open"
                    ELSE IF manager'[p] # "down" THEN "closing" ELSE "down"
  BY <1>1 DEF Service
<1>3. /\ \A j : (\E q \in Process : intents[q][j] # "none") <=> intents[p][j] # "none"
      /\ \A j : (\E q \in Process : intents'[q][j] # "none") <=> intents'[p][j] # "none"
  BY <1>1
<1>. QED BY <1>2, <1>3 DEF JobsStopping

\* The status of a job that is active, and of one that is not.
LEMMA StatusOf ==
    ASSUME rows \in [Job -> Row]
    PROVE  \A j \in Job : /\ JobStatus[j] = "active" <=> Active(j)
                          /\ ~Active(j) => JobStatus[j] = rows[j].code
                          /\ JobLaunch[j] = rows[j].run
BY DEF JobStatus, JobLaunch, Row, StatusCode, ActiveCode, StopCode, Active

\* A step nobody outside sees.
LEMMA Unseen ==
    ASSUME OneProcess, NEW p \in Process,
           \/ manager' = manager
           \/ manager[p] \in {"closing", "finalizing"} /\ manager'[p] \in {"closing", "finalizing"},
           analyses' = analyses,
           \A j \in Job : /\ Active(j)' = Active(j) /\ rows'[j].run = rows[j].run
                          /\ ~Active(j) => rows'[j].code = rows[j].code
                          /\ Active(j) => (intents'[p][j] = "none" <=> intents[p][j] = "none")
    PROVE  UNCHANGED Lifecycle!vars
<1>1. Service' = Service /\ JobsStopping' = JobsStopping
  BY Mapped
<1>2. JobStatus' = JobStatus /\ JobLaunch' = JobLaunch
  BY DEF JobStatus, JobLaunch
<1>. QED BY <1>1, <1>2 DEF Lifecycle!vars

\* One job's code is written.
LEMMA StatusWritten ==
    ASSUME JobsOK, NEW i \in Job, NEW code, code \notin ActiveCode, rows' = [rows EXCEPT ![i].code = code]
    PROVE  /\ ~Active(i)' /\ \A j \in Job : j # i => Active(j)' = Active(j)
           /\ JobStatus' = [JobStatus EXCEPT ![i] = code]
           /\ JobLaunch' = JobLaunch
<1>1. \A j \in Job : /\ rows'[j].run = rows[j].run
                     /\ rows'[j].code = IF j = i THEN code ELSE rows[j].code
  BY DEF JobsOK, TypeOK, Row
<1>. QED BY <1>1 DEF JobStatus, JobLaunch, Active

LEMMA Fails ==
    ASSUME OneProcess, JobsOK, NEW p \in Process, NEW i \in Job, Active(i),
           NEW code \in FailCodes,
           code = "job_interrupted_restart_required" => manager[p] # "open",
           rows' = [rows EXCEPT ![i].code = code],
           manager[p] # "down", manager' = manager, analyses' = analyses,
           \A j \in Job : j # i => intents'[p][j] = intents[p][j]
    PROVE  Lifecycle!Fail(i)
<1>1. code \notin ActiveCode
  BY DEF FailCodes, ActiveCode
<1>2. /\ ~Active(i)' /\ \A j \in Job : j # i => Active(j)' = Active(j)
      /\ JobStatus' = [JobStatus EXCEPT ![i] = code] /\ JobLaunch' = JobLaunch
  BY <1>1, StatusWritten
<1>3. /\ Service' = Service /\ Service # "down"
      /\ code = "job_interrupted_restart_required" => Service = "closing"
  BY Mapped
<1>4. JobsStopping' = JobsStopping \ {i}
  BY <1>2, Mapped
<1>5. JobStatus[i] = "active"
  BY StatusOf DEF JobsOK, TypeOK
<1>. QED BY <1>2, <1>3, <1>4, <1>5 DEF Lifecycle!Fail, Lifecycle!Interrupted, FailCodes

\* A conclusion happens while the manager is open: a shutdown has set an intent for every task.
LEMMA CompletesJob ==
    ASSUME OneProcess, JobsOK, NEW p \in Process, TasksInv(p), NEW t \in Task, Completes(p, t),
           manager' = manager, intents' = intents
    PROVE  Lifecycle!Complete(t[1])
<1>. DEFINE i == t[1]
<1>1. i \in Job /\ tasks[p][i] = t[2] /\ tasks[p][i] # NoRun /\ rows[i].run = t[2] /\ t = <<i, t[2]>>
  BY TaskParts DEF Completes, TasksInv, Registered, Named, Task
<1>2. Service = "open" /\ Service' = "open"
  <2>1. manager[p] \notin {"down", "closing", "finalizing"}
    BY <1>1 DEF Completes, TasksInv, Lifetime
  <2>2. manager[p] = "open"
    BY <2>1 DEF JobsOK, TypeOK
  <2>. QED BY <2>2, Mapped
<1>3. "job_completed" \notin ActiveCode
  BY DEF ActiveCode
<1>4. /\ ~Active(i)' /\ \A j \in Job : j # i => Active(j)' = Active(j)
      /\ JobStatus' = [JobStatus EXCEPT ![i] = "job_completed"] /\ JobLaunch' = JobLaunch
  BY <1>1, <1>3, StatusWritten DEF Completes
<1>5. JobStatus[i] = "active" /\ JobLaunch[i] = t[2]
  BY <1>1, StatusOf DEF Completes, JobsOK, TypeOK
<1>6. i \notin JobsStopping /\ JobsStopping' = JobsStopping
  <2>1. Active(i) /\ intents[p][i] = "none"
    BY DEF Completes
  <2>. QED BY <1>4, <2>1, Mapped
<1>7. analyses' = IF i \in Report THEN analyses ELSE analyses \cup {<<i, JobLaunch[i]>>}
  BY <1>1, <1>5 DEF Completes, TasksInv, Registered
<1>. QED BY <1>2, <1>4, <1>5, <1>6, <1>7 DEF Lifecycle!Complete

\* Every step of a coroutine completes its job, fails it, or is not seen.
LEMMA TaskLife ==
    ASSUME OneProcess, JobsOK, NEW p \in Process, TasksInv(p), NEW t \in Task, [Next]_vars,
           \/ StartCalculation(p, t) \/ RunReport(p, t) \/ PollRaises(p, t) \/ ConcludeTask(p, t)
           \/ DeliverCancel(p, t) \/ DrainEnds(p, t)
    PROVE  \/ UNCHANGED Lifecycle!vars
           \/ \E j \in Job : Lifecycle!Complete(j) \/ Lifecycle!Fail(j)
<1>1. /\ phase[p][t] \in Live
      /\ manager' = manager /\ intents' = intents
      /\ \/ EndsRow(t[1])
         \/ rows' = rows
         \/ rows[t[1]].code = "job_queued" /\ rows' = [rows EXCEPT ![t[1]].code = "job_running"]
  BY TaskOutcome
<1>2. manager[p] # "down" /\ Active(t[1]) /\ t[1] \in Job
  BY <1>1, TaskParts DEF TasksInv, Registered, Lifetime
<1>3. ASSUME NEW q \in Process, NEW u \in Task, Completes(q, u) PROVE Lifecycle!Complete(u[1])
  <2>1. q = p
    BY DEF OneProcess
  <2>. QED BY <1>1, <1>3, <2>1, CompletesJob
<1>4. CASE CompletesNothing
  <2>1. CASE rows' = rows
    BY <1>1, <1>4, <2>1, Unseen DEF Active, CompletesNothing
  <2>2. CASE rows[t[1]].code = "job_queued" /\ rows' = [rows EXCEPT ![t[1]].code = "job_running"]
    <3>1. \A j \in Job : /\ Active(j)' = Active(j) /\ rows'[j].run = rows[j].run
                         /\ ~Active(j) => rows'[j].code = rows[j].code
      BY <1>2, <2>2 DEF Active, ActiveCode, JobsOK, TypeOK, Row
    <3>. QED BY <1>1, <1>4, <3>1, Unseen DEF CompletesNothing
  <2>3. ASSUME NEW code \in FinalCodes, rows' = [rows EXCEPT ![t[1]].code = code]
        PROVE  Lifecycle!Fail(t[1])
    <3>1. code # "job_completed"
      BY <1>2, <1>4, <2>3 DEF CompletesNothing, Active, ActiveCode, JobsOK, TypeOK, Row
    <3>2. code \in FailCodes /\ code # "job_interrupted_restart_required"
      BY <3>1 DEF FinalCodes, FailCodes
    <3>. QED BY <1>1, <1>2, <1>4, <2>3, <3>2, Fails DEF CompletesNothing
  <2>. QED BY <1>1, <1>2, <2>1, <2>2, <2>3 DEF EndsRow
<1>. QED BY <1>3, <1>4, TaskParts, Completion DEF JobsOK

\* The manager comes, goes, and shuts down.
LEMMA ServiceLife ==
    ASSUME OneProcess, JobsOK, NEW p \in Process, TasksInv(p),
           OpenManager(p) \/ OpenFails(p) \/ Crash(p) \/ Shutdown(p) \/ ShutdownStep(p)
    PROVE  [Lifecycle!Next]_(Lifecycle!vars)
<1>1. CASE OpenManager(p) \/ OpenFails(p)
  <2>1. /\ manager[p] = "down" /\ manager'[p] \in {"open", "down"}
        /\ intents' = intents /\ analyses' = analyses
    BY <1>1 DEF OpenManager, OpenFails, JobsOK, TypeOK
  <2>2. /\ \A j \in Job : rows'[j].run = rows[j].run
        /\ \A j \in Job : rows'[j].code = IF Active(j) THEN "job_interrupted_restart_required"
                                          ELSE rows[j].code
    <3>1. \A j \in Job : rows'[j] = Interrupted(rows[j]) /\ rows[j] \in Row
      BY <1>1 DEF OpenManager, OpenFails, JobsOK, TypeOK
    <3>. QED BY <3>1 DEF Interrupted, Active, Row
  <2>3. \A j \in Job : ~Active(j)'
    BY <2>2 DEF Active, ActiveCode
  <2>4. Service = "down" /\ Service' \in {"open", "down"}
    BY <2>1, Mapped
  <2>5. JobsStopping = {} /\ JobsStopping' = {}
    BY <2>1, <2>3, Mapped DEF TasksInv, Lifetime
  <2>6. JobLaunch' = JobLaunch
    BY <2>2 DEF JobLaunch
  <2>7. JobStatus' = [j \in Job |-> IF JobStatus[j] = "active" THEN "job_interrupted_restart_required"
                                    ELSE JobStatus[j]]
    <3>1. \A j \in Job : JobStatus[j] = "active" <=> Active(j)
      BY StatusOf DEF JobsOK, TypeOK
    <3>. QED BY <2>2, <2>3, <3>1 DEF JobStatus
  <2>8. Lifecycle!Open
    BY <2>1, <2>4, <2>5, <2>6, <2>7 DEF Lifecycle!Open, Lifecycle!Interrupted
  <2>. QED BY <2>8 DEF Lifecycle!Next
<1>2. CASE Crash(p) \/ CloseStore(p)
  <2>1. /\ manager'[p] = "down" /\ rows' = rows /\ analyses' = analyses
        /\ \A j \in Job : intents'[p][j] = "none"
    BY <1>2 DEF Crash, CloseStore, store, NoIntent, JobsOK, TypeOK
  <2>2. JobStatus' = JobStatus /\ JobLaunch' = JobLaunch
    BY <2>1 DEF JobStatus, JobLaunch, Active
  <2>3. Service' = "down" /\ JobsStopping' = {}
    BY <2>1, Mapped
  <2>4. CASE manager[p] = "down"
    <3>1. Service = "down" /\ JobsStopping = {}
      BY <2>4, Mapped DEF TasksInv, Lifetime
    <3>. QED BY <2>1, <2>2, <2>3, <3>1 DEF Lifecycle!vars
  <2>5. CASE manager[p] # "down"
    <3>1. Lifecycle!Die
      BY <2>1, <2>2, <2>3, <2>5, Mapped DEF Lifecycle!Die
    <3>. QED BY <3>1 DEF Lifecycle!Next
  <2>. QED BY <2>4, <2>5
<1>3. CASE Shutdown(p)
  <2>1. /\ manager[p] = "open" /\ manager'[p] = "closing" /\ rows' = rows /\ analyses' = analyses
        /\ \A j \in Job : intents'[p][j] = IF tasks[p][j] # NoRun /\ intents[p][j] = "none"
                                             THEN "job_interrupted_restart_required" ELSE intents[p][j]
    BY <1>3 DEF Shutdown, store, JobsOK, TypeOK
  <2>2. /\ JobStatus' = JobStatus /\ JobLaunch' = JobLaunch
        /\ Service = "open" /\ Service' = "closing"
    BY <2>1, Mapped DEF JobStatus, JobLaunch, Active
  <2>. DEFINE jobs == {j \in Job : Active(j) /\ tasks[p][j] # NoRun}
  <2>3. JobsStopping' = JobsStopping \cup jobs
    BY <2>1, Mapped DEF Active
  <2>4. jobs \in SUBSET Lifecycle!ActiveJobs
    BY StatusOf DEF Lifecycle!ActiveJobs, JobsOK, TypeOK
  <2>. HIDE DEF jobs
  <2>5. Lifecycle!Close
    BY <2>1, <2>2, <2>3, <2>4 DEF Lifecycle!Close
  <2>. QED BY <2>5 DEF Lifecycle!Next
<1>4. CASE ShutdownFinalizes(p)
  <2>1. /\ manager[p] = "closing" /\ manager'[p] = "finalizing"
        /\ rows' = rows /\ analyses' = analyses /\ intents' = intents
    BY <1>4 DEF ShutdownFinalizes, store, JobsOK, TypeOK
  <2>. QED BY <2>1, Unseen DEF Active
<1>. QED BY <1>1, <1>2, <1>3, <1>4 DEF ShutdownStep

\* start_job, the finalizer, get_job and cancel_job.
LEMMA CallLife ==
    ASSUME OneProcess, JobsOK, NEW p \in Process, TasksInv(p), NEW i \in Job,
           \/ StartJob(p, i) \/ FinalizeTask(p, i)
           \/ \E code \in {"job_expired", "job_cancelled"} : StopJob(p, i, code)
    PROVE  [Lifecycle!Next]_(Lifecycle!vars)
<1>1. CASE StartJob(p, i)
  <2>1. /\ manager[p] = "open" /\ manager' = manager /\ Startable(i) /\ ~Active(i)
        /\ Cardinality({j \in Job : Active(j)}) < Capacity
        /\ \A j \in Job : j # i => rows'[j] = rows[j]
        /\ rows'[i].code = "job_queued" /\ rows'[i].run = rows[i].run + 1
        /\ intents' = intents /\ analyses' = analyses
    BY <1>1 DEF StartJob, Startable, Active, ActiveCode, JobsOK, TypeOK
  <2>2. Active(i)' /\ \A j \in Job : j # i => Active(j)' = Active(j)
    BY <2>1 DEF Active, ActiveCode
  <2>3. JobStatus' = [JobStatus EXCEPT ![i] = "active"] /\ JobLaunch' = [JobLaunch EXCEPT ![i] = @ + 1]
    BY <2>1, <2>2 DEF JobStatus, JobLaunch
  <2>4. Service = "open" /\ Service' = "open"
    BY <2>1, Mapped
  <2>5. JobsStopping' = JobsStopping
    <3>1. intents[p][i] = "none"
      BY <2>1 DEF TasksInv, Lifetime
    <3>. QED BY <2>1, <2>2, <3>1, Mapped
  <2>6. Lifecycle!Cardinality(Lifecycle!ActiveJobs) < Capacity
    <3>1. Lifecycle!ActiveJobs = {j \in Job : Active(j)}
      BY StatusOf DEF Lifecycle!ActiveJobs, JobsOK, TypeOK
    <3>2. Lifecycle!Cardinality(Lifecycle!ActiveJobs) = Cardinality(Lifecycle!ActiveJobs)
      BY DEF Lifecycle!Cardinality, Cardinality
    <3>. QED BY <2>1, <3>1, <3>2
  <2>7. JobStatus[i] \in {"absent", "job_interrupted_restart_required"}
    BY <2>1, StatusOf DEF Startable, JobsOK, TypeOK
  <2>8. analyses' = analyses
    BY <2>1
  <2>9. Lifecycle!Start(i)
    BY <2>3, <2>4, <2>5, <2>6, <2>7, <2>8 DEF Lifecycle!Start, Lifecycle!Interrupted
  <2>. QED BY <2>9 DEF Lifecycle!Next
<1>2. CASE FinalizeTask(p, i)
  <2>1. manager' = manager /\ analyses' = analyses
    BY <1>2 DEF FinalizeTask
  <2>2. CASE /\ rows' = rows
             /\ \/ intents' = intents
                \/ ~Active(i) /\ \A j \in Job : j # i => intents'[p][j] = intents[p][j]
    BY <2>1, <2>2, Unseen DEF Active
  <2>3. ASSUME NEW code \in FailCodes, Active(i), rows' = [rows EXCEPT ![i].code = code],
               code = "job_interrupted_restart_required" => manager[p] # "open",
               \A j \in Job : intents'[p][j] = IF j = i THEN "none" ELSE intents[p][j]
        PROVE  Lifecycle!Fail(i)
    <3>1. manager[p] # "down"
      BY <1>2, FinalizedRow
    <3>. QED BY <2>1, <2>3, <3>1, Fails
  <2>4. EndsOrLeaves(p, i)
    BY <1>2, FinalizedRow
  <2>. QED BY <2>2, <2>3, <2>4 DEF EndsOrLeaves, Lifecycle!Next
<1>3. ASSUME NEW code \in {"job_expired", "job_cancelled"}, StopJob(p, i, code)
      PROVE  [Lifecycle!Next]_(Lifecycle!vars)
  <2>1. manager[p] = "open" /\ manager' = manager /\ Active(i) /\ analyses' = analyses
    BY <1>3 DEF StopJob
  <2>2. CASE tasks[p][i] = NoRun
    <3>1. Lifecycle!Fail(i)
      BY <1>3, <2>1, <2>2, Fails DEF StopJob, FailCodes
    <3>. QED BY <3>1 DEF Lifecycle!Next
  <2>3. CASE tasks[p][i] # NoRun
    <3>1. /\ rows' = rows
          /\ \A j \in Job : intents'[p][j] = IF j = i /\ intents[p][j] = "none" THEN code ELSE intents[p][j]
      BY <1>3, <2>3 DEF StopJob, JobsOK, TypeOK
    <3>2. JobStatus' = JobStatus /\ JobLaunch' = JobLaunch
      BY <3>1 DEF JobStatus, JobLaunch, Active
    <3>3. JobsStopping' = JobsStopping \cup {i}
      BY <2>1, <3>1, Mapped DEF Active
    <3>4. JobStatus[i] = "active"
      BY <2>1, StatusOf DEF JobsOK, TypeOK
    <3>5. Lifecycle!Stop(i)
      BY <2>1, <3>2, <3>3, <3>4, Mapped DEF Lifecycle!Stop
    <3>. QED BY <3>5 DEF Lifecycle!Next
  <2>. QED BY <2>2, <2>3
<1>. QED BY <1>1, <1>2, <1>3

\* One server process, whatever its coroutines, workers, callbacks, finalizers, late callers,
\* failing stores and crashes do, implements the life of a job (docs/analytics.md:41-43).
THEOREM JobLife == ASSUME OneProcess PROVE Spec => ImplementsJobLifecycle
<1>1. Init => Lifecycle!Init
  <2>. SUFFICES ASSUME Init PROVE Lifecycle!Init
    OBVIOUS
  <2>1. Service = "down" /\ \A j \in Job : ~Active(j) /\ rows[j].code = "absent" /\ rows[j].run = 0
    BY DEF Init, Service, Active, ActiveCode, NoRun
  <2>2. JobsStopping = {}
    BY <2>1 DEF JobsStopping
  <2>3. JobStatus = [j \in Job |-> "absent"] /\ JobLaunch = [j \in Job |-> 0]
    BY <2>1 DEF JobStatus, JobLaunch
  <2>. QED BY <2>1, <2>2, <2>3 DEF Init, Lifecycle!Init
<1>2. ASSUME JobsInv, [Next]_vars PROVE [Lifecycle!Next]_(Lifecycle!vars)
  <2>1. JobsOK /\ \A p \in Process : TasksInv(p)
    BY <1>2 DEF JobsInv
  <2>2. ASSUME NEW p \in Process, NEW t \in Task,
               \/ StartCalculation(p, t) \/ RunReport(p, t) \/ PollRaises(p, t) \/ ConcludeTask(p, t)
               \/ DeliverCancel(p, t) \/ DrainEnds(p, t)
        PROVE  [Lifecycle!Next]_(Lifecycle!vars)
    BY <1>2, <2>1, <2>2, TaskLife DEF Lifecycle!Next
  <2>3. ASSUME NEW p \in Process, NEW t \in Task,
               \/ TaskDone(p, t) \/ CallerResumes(p, t) \/ CallerLeaves(p, t)
               \/ \E result \in {"ok", "error"} : WorkerEnds(p, t, result)
        PROVE  UNCHANGED Lifecycle!vars
    <3>1. rows' = rows /\ analyses' = analyses /\ manager' = manager /\ intents' = intents
      BY <2>3 DEF TaskDone, CallerResumes, CallerLeaves, WorkerEnds, store
    <3>. QED BY <3>1, Unseen DEF Active
  <2>4. ASSUME NEW p \in Process,
               OpenManager(p) \/ OpenFails(p) \/ Crash(p) \/ Shutdown(p) \/ ShutdownStep(p)
        PROVE  [Lifecycle!Next]_(Lifecycle!vars)
    BY <2>1, <2>4, ServiceLife
  <2>5. ASSUME NEW p \in Process, NEW j \in Job,
               StartJob(p, j) \/ GetJob(p, j) \/ CancelJob(p, j) \/ FinalizeTask(p, j)
        PROVE  [Lifecycle!Next]_(Lifecycle!vars)
    BY <2>1, <2>5, CallLife DEF GetJob, CancelJob
  <2>6. ASSUME (\E j \in Job : Expire(j)) \/ UNCHANGED vars PROVE UNCHANGED Lifecycle!vars
    <3>1. /\ analyses' = analyses /\ manager' = manager /\ intents' = intents
          /\ \A j \in Job : rows'[j].run = rows[j].run /\ rows'[j].code = rows[j].code
      <4>1. CASE UNCHANGED vars
        BY <4>1 DEF vars, store
      <4>2. CASE \E j \in Job : Expire(j)
        BY <2>1, <4>2 DEF Expire, JobsOK, TypeOK, Row
      <4>. QED BY <2>6, <4>1, <4>2
    <3>2. \A j \in Job : Active(j)' = Active(j)
      BY <3>1 DEF Active
    <3>3. JobStatus' = JobStatus /\ JobLaunch' = JobLaunch
      BY <3>1, <3>2 DEF JobStatus, JobLaunch
    <3>4. Service' = Service /\ JobsStopping' = JobsStopping
      BY <3>1, <3>2 DEF Service, JobsStopping
    <3>. QED BY <3>1, <3>3, <3>4 DEF Lifecycle!vars
  <2>7. ASSUME NEW p \in Process, NEW t \in Task, TaskStep(p, t) PROVE [Lifecycle!Next]_(Lifecycle!vars)
    BY <2>2, <2>3, <2>7 DEF TaskStep
  <2>. QED BY <1>2, <2>3, <2>4, <2>5, <2>6, <2>7 DEF Next
<1>. QED BY <1>1, <1>2, JobsInvAlways, PTL DEF Spec, ImplementsJobLifecycle, Lifecycle!Spec
===============================================================================
