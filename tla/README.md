# Saxo Bank MCP server: TLA+ models, checks and proofs

This directory verifies the state-changing core of `saxo-bank-mcp`, a FastMCP
server that lets an agent read from and trade at Saxo Bank: the preview tokens
that authorise a write, the tools that send it and report on it, the selectors and
sessions these tools run with, the manager of the local analytics jobs, and the
artifacts of the store the jobs write to. All paths below are relative to `src/`, the
repository; `pkg/` stands for `src/saxo_bank_mcp/`. `PROJECT.json` maps every
definition of the modules to the lines it models.

## 1. The system

One server process runs one asyncio event loop. FastMCP calls an `async` tool as
a coroutine on the loop and a plain `def` tool on a worker thread; state is kept
in module-level dictionaries, in files of the owner (token caches, audit log) and
in a DuckDB store. Nothing but the files survives the process.

| component | state | operations | interacts with |
|---|---|---|---|
| Preview tokens and commit gate (`safety.py`, `safety_state.py`, `safety_checks.py`) | `_PREVIEWS`, `_COMMITTED_FINGERPRINTS`, `_COMMITTED_PREVIEW_TOKENS`, `_last_commit_at`; settings read from `os.environ` by each call | create, discard, commit a preview | the preview and order tools (loop), `saxo_commit_write_preview` (worker thread), the audit log, the approval statement that comes with a LIVE commit |
| Order write tools (`order_mutation_*.py`) | none of their own; one in-flight write per call | commit, resolve the route, send once, parse, read back, report | the commit gate, Saxo's order API, the agent that acts on the report |
| Trading write gateway (`trading_write_*.py`) | `_PREVIEWS`, `_CONSUMED_PREVIEW_TOKEN_FINGERPRINTS` (its own) | prepare (thread), execute (loop) | the safety settings, Saxo's Trading API |
| Analytics job manager (`analytics_jobs.py`, `mcp_analytics_tools.py`) | the `jobs` table, workspaces; `_tasks`, `_stop_intents`, `_finalizers`, the lease | start, check, cancel, shut down; a task, a finalizer and a worker thread per job | the owner store, shared with other processes; the server lifespan |
| One-time selectors (`process_scoped_selectors.py`) | `_ORDER_BINDINGS`: generation, account, order, expiry, consumed flag | bind, resolve, consume all-or-nothing | the order tools that hand them out, `saxo_create_write_preview`, the cached token |
| LIVE session (`live_token_refresh.py`, `live_login.py`, `oauth.py`, `token_cache.py`) | the token cache file, a refresh lock, a write lock, the keeper's stopped revision | poll, refresh on demand, log in, save | Saxo's token endpoint, other processes of the owner |
| SIM session (`sim_token_refresh.py`, `sim_session_keeper.py`, `mcp_auth_tools.py`) | the token cache file, the two locks, the attempt marker | refresh once per cache revision, refresh by a tool, cache a portal token, log in | as above |
| Authorization callback and PKCE (`mcp_pkce_state.py`) | one pending login file with an expiry | start, exchange, drop | the SIM cache, the portal tool |
| Streaming (`streaming*.py`) | subscriptions at the broker | subscribe, receive, clean up | Saxo's streaming API |
| Analytics store (`analytics_store.py`) | tables, artifact files, deletion tokens, a writer lock, `_file_state_poisoned` per store object | put, preview a deletion, delete, open with reconciliation | every analytics tool, other processes over the same file |
| Analytics sync and sources | cursors, source processes | fetch, page, ingest | store, Saxo's read API |
| Analytics calculations | none | pure functions | store, job handlers |
| Request ledger | active captures | capture, record | HTTP client hooks |
| Reads, registries, server registration | static tables | one request per call | HTTP client |
| Release, evaluation, QA harness | evidence files | tests and packaging | the server as a child process |

### What is hard

* **Interleaving.** Coroutines run without interruption between awaits, so the
  order tools rely on the absence of an await between the commit checks and the
  send; the commit tool and the gateway's prepare tool run on threads and rely on
  nothing.
* **Unreliable answers.** Saxo may apply a write and lose, delay or garble the
  answer; the report decides whether an agent sends the order again.
* **Stale decisions.** A preview lives for five hours; settings, environment and
  duplicate window change meanwhile.
* **Cancellation.** A job is stopped by a client, its expiry or a shutdown while
  it starts, computes on a thread, concludes or is being finalized.
* **Partial failure.** The audit log, the store and the workspace may each refuse
  one step of several.
* **Restarts and second processes.** Module state vanishes; the store, the token
  cache and the attempt marker do not, and other processes write them.
* **Rotation.** A refresh token is good once; whoever presents an old one, or saves
  it over a new one, ends the session.
* **Two stores in one.** A row and a file change together or the artifact is lost,
  and a COMMIT that raises may have been applied.

`PROJECT.json` lists each hazard at its line with the properties that watch it;
the ones without a property carry the reason.

### What makes each component correct

* *Commit gate*: a token sends at most one write; sends respect the rate and
  duplicate windows; nothing leaves that the settings of that moment did not allow, or
  in LIVE without the statement of its own preview.
* *Order reports*: acting on a report never duplicates an order, never loses an
  open one, never believes a cancellation that did not happen.
* *Gateway*: one send per handed-out token; a money-moving write that may have
  happened is never called safe to retry (but after a 429, finding 2).
* *Jobs*: a result is published exactly with its completed row; a stop decided
  first wins; an end is final; a live task is always counted; no active job is
  without somebody to end it, and nobody waits for what nobody will do; jobs and
  shutdowns end.
* *Selectors*: one kept preview per selector, whoever races.
* *Sessions*: the refresh token in the file is the one Saxo takes; no refresh undoes
  a newer save of its own session; SIM tries a revision once; a keeper gives up on a
  refused token, and only on one that Saxo will never take or answered as it answers such
  a one, and resumes after a login.
* *Store*: rows and files agree after every crash; a deletion removes what its
  preview named, and for good; to its owner each put and each deletion happens at
  once; no file stays under a marker.

## 2. Modules

| module | what it is |
|---|---|
| `OneShotWrite` | abstract: a token is unissued, pending, consumed, sent or lost, and only a consumed one writes |
| `JobLifecycle` | abstract: a job is active, ends once and publishes its result in the step that completes it; only an interrupted one is launched again |
| `ArtifactLifecycle` | abstract: artifacts are stored and deleted, each at once; a preview is carried out once, whole, and is void after any other change |
| `OrderWriteKernel` | previews, the commit gate, the order tools up to the send |
| `OrderWriteOutcome` | the order tools from the send on, with the broker and the agent |
| `TradingWriteGateway` | the gateway, prepare to report |
| `AnalyticsJobs` | the job manager with its tasks, finalizers, worker threads, store and processes |
| `TokenCache` | the cache file, its locks, what an actor is doing, the token endpoint, time |
| `LiveTokenRefresh`, `SimTokenRefresh` | the two refresh protocols over `TokenCache`; the second with the portal tool and the pending login |
| `TokenSession` | their composition with login commands, crashes and fairness |
| `OrderSelectors` | bind, resolve and consume order selectors |
| `AnalyticsStore` | artifacts, deletions and reconciliation of the owner store |
| `MC*` | TLC instances: model values, settings, symmetry |
| `*_proofs` | theorems and proofs, one module per component, two for the jobs |

`OrderWriteKernel` and `OrderWriteOutcome` meet at the send: `SendOrderWrite` of
the first is `Send` of the second. `OrderWriteKernel` and `TradingWriteGateway`
each implement `OneShotWrite` through a refinement mapping (`OneShot ==
INSTANCE OneShotWrite WITH ...`), so the promise of a preview token is stated
once and shown of both. `AnalyticsJobs` implements `JobLifecycle` (`Lifecycle`) and
`AnalyticsStore` implements `ArtifactLifecycle` (`Owner`): what a task, its callbacks, its
finalizer and its worker do to a job, and a client's markers, transactions and
reconciliations to an artifact, is one step for the owner or none. A deletion token
that is being carried out counts as open although its time runs out meanwhile
(`InUse`, `PreviewStatus`): the code looks at the clock once, when it takes the token, and
a rollback after that moment is the lapse. `AnalyticsJobs` takes two operations of the store, a row
write and a transaction, that may fail; `AnalyticsStore` is the other side, for the
artifacts. `OrderWriteKernel.LosePreview` covers the preview that a lost race over a
selector discards, `OrderSelectors` the race.

### OrderWriteKernel

`loop` names the coroutine that has not reached an await; every action of another
coroutine needs `loop = NoTask`, actions of threads do not. A commit is `CheckCommit`
(`_stored_commit_denial_reasons`), `Approve` (the audit write, then the clock that
`mark_committed` reads first), and its three writes, `MarkFingerprint`, `MarkToken` and
`MarkTime`: the commit tool's thread may be interrupted between any two of them, and
between the entries its pruning has listed (`ListStale`) and deletes (`PruneEntry`). In an
order tool the steps up to `SendOrderWrite` hold the loop against other coroutines.
A thread that is held up writes the time it has read over a newer one, or deletes an entry
that has become a newer one, and the window starts too early. `setBack` remembers
that this happened, and `SendsSpaced` excepts it and nothing else: without the exception
TLC finds two sends closer than the rate window after a thread read the clock, a coroutine
committed and sent, and the thread's older time landed on top (hazard at
`safety_state.py:56`).

`LosePreview` covers both ways a preview is generated and not kept. A request is its own
fingerprint, a LIVE statement the token it embeds. A commit may come with any statement
the server has handed out: the code compares the text with the stored prompt, which
`create_preview` also returned to the agent (`pkg/safety.py:162`, `:265`), so `given` says
that the statement came and not who wrote it. That the agent passes on only what the
human sent is the agent's part of the bargain (`README.md:191`). The allowlists, limits and
risk fields are one set `permitted` per configuration. `Reconfigure` changes the
settings between two calls, as the in-process QA harness does
(`pkg/qa_safety_probes.py:133`). A coroutine prunes in the step of its lookup; a thread
between its read of an entry and its deletion is left out, as are the errors an iteration
raises when the dictionary changes under it. The clock does not go backwards.

### OrderWriteOutcome

One write at a time: sent, answered, reported. `Response` keeps what the parser
looks at: HTTP status, ids, error codes (a plain rejection, an unknown-state code,
a duplicate code). The broker applies, refuses, defers or changes, and answers
from the sets `Confirmations`, `Unresolved`, `Refusals`; `NetworkError` is a lost
answer. The tables (`OutcomeOf`, `ExecutionStatus`, `CleanupStatus`,
`StatusWithCleanup`, `OrderCancelled`, `EmitsHandles`) are the functions of the
same names. The agent places its order again only while the report says that
nothing may have happened and a retry is not unsafe.

`Ambiguous` is the set of refusal statuses the broker may also send for a write it applied:
429 and 500, a rate limit or a failure behind the write boundary (`Denials`). The code
takes both for a write that did not happen and calls a retry safe, so nothing it does can
keep the agent from a second order then. `placements` holds what each place request
created and `denied` those that were answered so; the properties speak of the others, and
hold while denials come in between. What the documents say of a 429 is finding 2.

### TradingWriteGateway

Prepare stores the preview, then writes the audit event and only then hands the
token out (`StorePreview`, `HandOut`, `PrepareFails`); execute checks, spends and
sends without an await in between. Saxo may apply a write long after it was sent
(`BrokerApplies`), but not one it refused with 401 or 403; a 429 may be an applied one,
which `SafeRetryUnapplied` excepts as the code does. A LIVE call may come with any prompt
handed out before, as in the kernel.

### AnalyticsJobs

No block under the manager's `asyncio.Lock` awaits, so each callback the loop runs
is one action: the first step of a task (`StartCalculation`, `RunReport`), a
wake-up of the poll (`PollRaises`, `ConcludeTask`), the delivery of a
`CancelledError` (`DeliverCancel`), the end of a wait for a cancelled worker
(`DrainEnds`), the done callback (`TaskDone`), the finalizer (`FinalizeTask`), a
tool call (`StartJob`, `GetJob`, `CancelJob`) and the resumption of its caller
(`CallerResumes`, `CallerLeaves`). `commit_analysis` writes result and receipt in
one transaction and the task runs from there to its end without another await:
one action, `Conclude`. The worker thread runs beside (`WorkerEnds`). A job is its
request fingerprint, a launch of it a run. `StoreMayFail` lets any store write of
a task or a finalizer fail, `CleanupMayFail` any removal of an existing workspace.
`OpenManager` is a recovery that ends with the manager open, `OpenFails` one that is cut
short after it has written the rows, by a workspace that refuses to go or by a crash: the
rows are interrupted, some workspaces stay, and no manager is open. A tool call whose own store access fails changes nothing and is left out.

### TokenCache, LiveTokenRefresh, SimTokenRefresh, TokenSession

An actor is a keeper, a tool call or a user; each does one thing at a time, held in
`call`. `environment` is chosen once: the caches of SIM and LIVE are different
files. A token is the number of its session (each code exchange starts one), its
generation within it, and its life, `fresh`, `due`, `expired` or
`refresh_expired`; `revision` numbers the saves of the file, as
`cache_revision` distinguishes them. Saxo (`Issue`, `IssueUnheard`, `Reject`,
`Unanswered`) takes the newest generation of a session that has not ended and makes
the former one void (`pkg/agent_skill_matrix_env.py:299` relies on it); its answer
may be lost. `lost` names the sessions of which a rotation reached no file.
`Condemn` is an answer that the code takes for a rejection though the token was good: a 4xx
other than 408 and 429, or new tokens in a body it cannot read
(`pkg/live_token_refresh.py:189`, `pkg/oauth.py:197`); the second rotates and is lost.
`condemned` is the revision a keeper had seen when it was answered so.

LIVE holds the refresh lock over the network and the write lock in the save only, so
a login saves whenever it wants (`LiveSaveRefreshed`, `LoginSave`). SIM holds the
write lock over the network; its keeper first writes the attempt marker, in
`SimRequest`. The asyncio locks inside a process are subsumed by the file locks. A
cancelled call, a save or a marker that raises, and a process that dies are one
action, `Crash`. `saxo_start_pkce_login` takes no lock, so the portal tool may
delete a login that was started between its check and its save; the code promises
nothing else, and the pending login is a flag.

### OrderSelectors

The token is read, the account rows are awaited, then the selectors are resolved
against the token that was read: one of the former generation still resolves when a
login comes in between. Resolving, creating the preview and consuming follow without
an await, but `tests/test_process_scoped_selectors.py:734` runs them in threads, and
the model does too. `Spellings` says how an agent may write a selector; see finding 5.

### AnalyticsStore

A client is a store object. The file of an artifact is renamed and never copied, so
it has one name at a time: none, its own, the write marker, the delete marker of a
client. A put stages (`StageArtifact`), commits (`CommitArtifact`) and publishes
(`Publish`); a deletion spends its token (`BeginDelete`), renames file by file
(`StageDeletion`), commits (`CommitDelete`) and unlinks (`Remove`) or restores
(`Restore`), in any order of the files and after the lock is gone. `CommitRaises` is
the COMMIT that raises, applied or not: the store object is poisoned and leaves the
files alone. `OpenStore` lists the directory with the rows, under the lock;
`Reconcile` settles one artifact at a time against that listing and `OpenRaises`
when a file is no longer where it was listed. A put or a deletion whose file another
client's reconciliation has settled first reports a failure although its work is done.
Left out: file effects inside a caller's own transaction (no caller uses them), the
quota, the other tables and migrations.

## 3. Runs

| run | instance | shows |
|---|---|---|
| `order_kernel` | 2 tokens, 3 requests (one unroutable, one refused in LIVE), 1 thread, 2 coroutines, 3 settings, clock 0..3 | `TypeOK`, `OneSendPerPreview`, `SendsSpaced`, `LiveSendsApproved`, `NoSendWhileBlocked`, refinement of `OneShotWrite` |
| `order_kernel_approval` | 1 token, 1 thread, 1 coroutine | **violated**: `ApprovedOnce` |
| `order_outcome` | 3 order ids, 3 writes, an applied write may be answered 429 or 500 | `TypeOK`, `NoDoubleOrder`, `NoOrphanOrder`, `CancelledIsGone` |
| `order_outcome_rate_limited` | the same, 429 only | **violated**: `RateLimitedMayHaveMutated` |
| `trading_gateway` | 2 tokens, a money-moving request and another, 1 thread, 2 coroutines | `TypeOK`, `SafeRetryUnapplied`, `NoSendWhileBlocked`, refinement of `OneShotWrite` |
| `analytics_jobs` | 1 process, a calculation and a report, 1 slot, 1 launch each, store and cleanups may fail | `TypeOK`, `ConclusionAtomic`, `LiveTaskCounted`, `StopIntentWins`, `EndIsFinal`, `NoJobStranded`, `WaitsEnd` |
| `analytics_jobs_fair` | 1 process, 1 calculation, 3 launches, cleanups may fail, fairness | `FinalizerOwnsRun`, `JobEnds`, `ShutdownEnds`, refinement of `JobLifecycle` |
| `analytics_jobs_shutdown` | 1 process, 1 calculation | **violated**: `ShutdownStopsWorkers` |
| `analytics_jobs_two_processes` | 2 processes, 1 calculation | **violated**: `LiveTaskCounted` |
| `token_session` | 1 keeper, 1 tool, 1 user, either environment, 2 logins, 1 tool call, 2 steps of time, 1 fault (a crash or an unlucky answer), fairness | `TypeOK`, `CachedTokenUsable`, `RefreshReplacesItsOwn`, `OneAttemptPerRevision`, `KeeperGivesUp`, `PortalNeverDiscards`, `StoppedAtDeadToken`, `LapsingSessionRefreshed` |
| `analytics_store` | 2 store objects, 2 artifacts, 2 deletion tokens, 2 faults, fairness | `TypeOK`, `RowKeepsFile`, `NoOrphan`, `DeletedStaysGone`, `DeletesWhatWasPreviewed`, refinement of `ArtifactLifecycle`, `MarkerSettled` |
| `order_selectors_blanks` | 1 order, 1 account, 1 call, 2 generations, selectors as given or after blanks | **violated**: `OneTime` |

**Bounds.** Two tokens give two previews of one request and of two, and two
coroutines with a thread every race over a token; the clock passes the rate window
(1), the duplicate window (2) and the expiry (3), so a token outlives the memory of
its fingerprint. The theorems below drop these bounds. In `OrderWriteOutcome` three
writes are a placement, a retry or change, and another; three ids let a placement
have a related order and a second placement still be possible. `MaxWrites` ends the
session, which is why that run (and its violation twin) turns deadlock checking
off. In `AnalyticsJobs` one slot for two jobs makes them compete; three launches
put two restarts behind an old finalizer. Two jobs with two launches each also
hold (9.1 million states), and take too long to be a standing run.
In `TokenSession` a keeper, a tool and a user are the three kinds of actor that meet at
the locks, and two logins give an older and a newer session; the inductive invariant
of its proof was also checked with two keepers and two tools. In `AnalyticsStore` two
store objects are one that is half-way and one that opens, and two artifacts make a
deletion stop between its files. `MaxTime`, `MaxWrites`, `MaxRuns`, `MaxGeneration`,
`MaxLogins`, `MaxCalls`, `MaxAges`, `MaxFaults`, `MaxArtifacts` and `MaxTokens` are the
only bounds on counters.

**Symmetry** permutes tokens, coroutines and order ids in runs that check no
liveness; the two jobs differ in kind and are not symmetric.

**Deadlock** is not checked in `token_session`, where a LIVE keeper that stopped waits
for a login that need not come, nor in `order_selectors_blanks`, whose clock ends.

**Fairness** (`FairSpec`). Jobs: weak fairness of each step the loop has scheduled (a
task's step, a done callback, a finalizer, shutdown's own continuation), because
asyncio runs every ready callback, and of the end of a worker thread, because a
calculation is bounded by its work units. Nothing is assumed about clients, expiry
or crashes: callers may leave at any time, which is what `JobEnds` is about.
`JobEnds` is checked without store failures; when the store refuses the
finalizer's write, the row does stay active until somebody checks or cancels it
(hazard at `analytics_jobs.py:937`). `NoJobStranded`, in the run with store failures,
says what is left then: a row that a check or a cancellation still settles.

Sessions: strong fairness of the steps of keepers, tools and users, whose next step
may wait for a lock that others take and give up again (a blocked `flock` is served);
weak fairness of an answer to a tool or a user (the HTTP client has a timeout); and
strong fairness of `Decides` for a keeper: an endpoint that is asked again and again
does not time out for ever. Nobody has to call a tool, to log in or to crash.
Store: weak fairness of an operation's own steps, of closing a poisoned store object
and of the expiry of a deletion token (ten minutes); strong fairness of `OpenStore`,
since another client may hold the lock whenever one looks, and not always does.

### Findings

1. `ApprovedOnce`: the commit tool on its worker thread and an order tool on the
   loop can both approve one preview; `skills/saxo-trading/references/approval-dialogue.md:33`
   calls it single-use. The order still leaves only once.
2. `RateLimitedMayHaveMutated`: a placement that was applied and answered 429 is reported
   as no mutation, safe to retry (`pkg/order_mutation_execution.py:199`; the gateway alike,
   `pkg/trading_write_execution.py:404`).
   `skills/saxo-safety-recovery/references/status-recovery.md:63` says mutation possible:
   true, do not retry blindly; `skills/saxo-trading/references/order-lifecycle.md:139` and
   `approval-dialogue.md:94` beside it say the same. A 5xx answer without a body is
   treated alike, as `failed` (`pkg/order_mutation_models.py:232`), and there
   `status-recovery.md:32` says mutation possible: false, as the code does.
3. `ShutdownStopsWorkers`: a job that expires at a progress report ends without
   stopping its worker, and shutdown closes the store beside it;
   `docs/analytics.md:43` says the worker is stopped first. A second cancellation
   during the wait for the worker has the same effect.
4. `LiveTaskCounted` with two processes: the manager lease is known to its own
   process, so a second server over the same store interrupts live rows, which
   `tests/test_analytics_jobs.py:700` rules out for a second manager.
5. `OneTime`: the resolver strips a selector before it looks it up, the list of
   selectors to consume is made of the values as they were written
   (`pkg/process_scoped_selectors.py:228`, `:491`, `:508`). A selector after blanks is
   good for any number of previews; `skills/saxo-trading/references/order-lifecycle.md:122`
   calls each one-time. Selectors as they were given are (`PlainSelectorsOneTime`).

## 4. Proofs

Each theorem holds for every value of the constants that satisfies the named
assumptions of the module (disjoint callers, markers outside the sets, the rate
window no longer than the duplicate window).

**OrderWriteKernel_proofs.** `TypeCorrect`, then an inductive invariant in named
parts. `LoopInv` says that the loop belongs to the coroutine inside a section and
that threads never send: without it two coroutines could hold one checked token.
`PreviewInv` ties tokens to previews and LIVE previews to their own statement;
the send invariants say that a coroutine about to send holds a committed, unsent
token whose settings still allow it. `OneSend`, `SendsPermitted` and `Refinement`
follow. `Spacing` needs more. As long as nothing was set back, the commit times of
sends are bounded by `lastCommitAt` and by the duplicate entry of their request
(`MarkInv`), every write of `mark_committed` and every deletion of a thread keeps them so
or sets `setBack`, and a coroutine that has passed the checks is far from every send
(`FarInv`); after `setBack` nothing is claimed of that process. `LiveApproval` carries the
statement of the preview from the check to the send.

**OrderWriteOutcome_proofs.** `OneOrder`, `NoOrphan` and `Cancelled`, whatever statuses are
`Ambiguous`. The invariant follows one placement that was not denied through send, answer
and report: while its answer is outstanding or its report admits a mutation, no second
placement is intended; as long as the agent wants its order, the broker has only denied
ones. The proof goes through the answers to an applied write: each that is no denial is
classified as one that may have mutated.

**TradingWriteGateway_proofs.** As for the kernel, with the gateway's own order of
steps; `SafeRetry` is by cases on the status table, 429 excepted, and takes the disjointness of
applied and refused writes from the invariant.

**AnalyticsJobs_proofs.** `FinalEnd`: an end is final, for any number of processes,
jobs and launches and with failing stores and cleanups. The strengthening is that
a completed job has no workspace (`CompletedIsClean`): it is what keeps the
finalizer's failed cleanup from turning a completed job into a failed one.
`TypeCorrect` adds that only a task that may still run is asked to stop (`Requested`).
`WaitsAreAnswered` shows that a task waits only for a worker that runs or has left its
result, and a caller or a shutdown only for a task that has ended, is being cancelled or
waits for its worker.
`ResultsAreUnique` rests on `OneResult`: a job has a result exactly when it is a completed
calculation, and then only one.

**AnalyticsJobsTasks_proofs.** `TasksCounted`, `ConclusionsAtomic`, `FinalizersOwnRuns` and
`IntentsWin`, for one server process (`OneProcess`); with two, `LiveTaskCounted` is finding
4. The invariant says of each process: a task that may still run, or whose done callback
is to come, is registered and its job is active (`Registered`); tasks, finalizers, waits and
rows name the same run (`Named`); while the manager is open nothing remembers a job that
may be started, and a shutdown waits for every registered task (`Lifetime`); a task is only
cancelled with a stop intent that stays until its row has ended (`Intended`). The last two
keep each other: without the intent a finalizer would write an interrupted row while the
manager is open, and a late caller's finalizer could then meet a restarted job.
`Completion` says which steps complete a job: the conclusion of a task that may still run,
without an intent; `ConclusionsAtomic` and `IntentsWin` rest on it. `Attended` says
who is left to end an active job: its registered task, which may still run or whose done
callback is to come, or a finalizer under way, or nobody after a store write that was
refused. It is kept step by step, and `NobodyStranded` follows. `JobLife` is the refinement of
`JobLifecycle`: starts, conclusions, finalizers and the recovery, whether or not a manager comes of it,
each map to one step of it (`Open` leaves the service open or down), every callback in between to a stutter.

**OrderSelectors_proofs.** `PlainSelectorsOneTime`: a selector a preview was kept for is
consumed, and neither a new binding nor time undoes that, so no second call finds it
usable when it consumes. The assumption `Spellings = {"plain"}` is finding 5.

**AnalyticsStore_proofs.** `StoreInv` gives each client, by the place it is at, the files
that are its own (`Owns`): a write marker belongs to the put that staged it, a delete
marker to the deletion that made it; `OneOwner` says that no two clients put one
artifact. What makes it inductive is what each client knows while others run: after a
COMMIT that returned, a deleted artifact has no row and only its own file step is left,
and a client that reconciles has the lock, so no row changes while it compares.
`RowsKeepTheirFiles`, `NoFileIsOrphaned` and `DeletionsAreFinal` are conjuncts of it.
`DeletionsKeepToTheirPreview` needs `Counted` beside it: a token of the present revision
was made of the present rows, because every write of rows moves the revision on.
`StoreImplementsLifecycle` is the refinement of `ArtifactLifecycle`. The step that applies a
transaction is the owner's `Put` or `Delete`, whether or not its COMMIT raises; the
rollback of a token that has expired in the meantime is a `Lapse`; the last `Remove` of a
deletion is its receipt; everything else, reconciliation included, is a stutter. It
needs that one client at a time has a token in use, and that nothing has changed since it
was taken: the token is still open and its plan is what the client has to move and has
moved (`TokenInUse`).

**TokenSession_proofs.** `SessionInv` has a control part, which steps an actor can be at and
which locks it then holds (`Role`, `Locks`), and a data part: sessions are numbered by
logins (`Numbered`), a session that is being exchanged is in one actor's hands and not yet
in the file (`OwnSession`), whoever refreshes presents what the file has, or in LIVE had
until a login (`OwnToken`), Saxo is exactly one generation ahead of a token it has
answered (`Rotated`), and the marker tells of the newest attempt (`Marked`).
`CacheStaysUsable`, `RefreshesReplaceTheirOwn`, `OneAttempt` and `PortalKeepsSession`
follow. `KeepersGiveUp` needs a second invariant, `RefusalInv`: after one refusal at a
revision the keeper has read that revision before it asks again; after two it waits.
`StoppedKeepersMissNothing` shows the other side, `StoppedAtDeadToken`. It needs that
nobody holds a token the endpoint has not issued (`NobodyAhead`), so that a token which
is dead stays dead whatever is issued later, and that a keeper saw a revision no newer
than the token it asks with (`ErrandInv`): a login that saved in between is never taken for
the refused session. A good token that was answered like a bad one excepts the revision
the keeper had seen then, and no later one (`condemned`).

Model-checked only: `JobEnds`, `ShutdownEnds`, `LapsingSessionRefreshed` and
`MarkerSettled`, since liveness under fairness is out of the prover's reach. The safety
each of them stands on is proved: `NoJobStranded` and `WaitsEnd`, `StoppedAtDeadToken`,
`RowKeepsFile` and `NoOrphan`.

## 5. What is not modelled, and the plan

Left out of the modelled components: session access before a commit (a denial that
changes nothing), a dictionary that changes while a thread iterates over it, a lagging
open-order list, cancellation of a tool call in flight, a `create_task` that fails,
a COMMIT whose outcome is unknown in the jobs (it is modelled in the store), the
artifact of a report. Account selectors are only looked up; a collision of two selector
digests is not modelled.

Not modelled at all: streaming subscriptions (one sequential tool call, whose only state
is at the broker), the request ledger, the synchronisation of analytics sources, the
LIVE precheck proof. The first two have control state and come next. Numerical code,
rendering, reads, registries, and the QA, evaluation and release tooling, which make up
most of the lines of the repository, are sequential code that transforms data or runs
other programs: a model of them would repeat them. The share of the repository these
models stand for is small for that reason and will stay so.

Next, in this order:

1. `StreamingPrices` (`streaming_execution.py`): which subscription is left when a step
   or a cleanup fails.
2. `RequestLedger`: a process-wide capture and context-scoped ones over one hook.
3. The artifact of a report job, over `AnalyticsStore`.
