--------------------------- MODULE OrderWriteKernel ---------------------------
(***************************************************************************)
(* The order-write safety kernel of the Saxo MCP server: server-created    *)
(* preview tokens, the commit gate, and the order tools that spend a       *)
(* token to send one request to Saxo (safety.py, safety_state.py,          *)
(* safety_checks.py, order_mutation_execution.py).                         *)
(*                                                                         *)
(* Two kinds of callers share the module-level dictionaries of             *)
(* safety_state.py.  A Task is a coroutine on the event loop: from its     *)
(* first statement to its first await no other coroutine runs, so `loop'   *)
(* names the coroutine inside such a section.  A Thread runs the           *)
(* synchronous tool saxo_commit_write_preview, which the MCP framework     *)
(* calls on a worker thread: its steps interleave with everything, so that *)
(* each write of mark_committed, and each deletion of the pruning, is a    *)
(* step of its own.                                                        *)
(*                                                                         *)
(* A request stands for its own fingerprint (request_fingerprint is a      *)
(* digest of the whole request), a token for its own fingerprint, and the  *)
(* approval statement of a LIVE preview, which embeds                      *)
(* "fingerprint:token fingerprint", for the token it names.  The commit    *)
(* compares the statement with the stored one, which the preview tool also *)
(* returned to the agent: who wrote it the code cannot tell.  `given'      *)
(* keeps the statements that came with a commit.                           *)
(***************************************************************************)
EXTENDS Integers, FiniteSets

CONSTANTS
    Token,          \* the values secrets.token_urlsafe can return
    Request,        \* write requests
    Thread,         \* worker threads running saxo_commit_write_preview
    Task,           \* coroutines running the preview and order tools
    Config,         \* safety settings the process environment may hold
    Unroutable,     \* requests whose body lacks the route key of their operation
    Refused,        \* requests refused in LIVE: ManualOrder is not true
    NoToken,        \* no statement, no token
    NoTask,         \* the event loop is between coroutines
    NoPreview,      \* the token has no entry in _PREVIEWS
    PreviewTTL,     \* PREVIEW_TTL_SECONDS
    DupWindow,      \* SAXO_DUPLICATE_REQUEST_WINDOW_SECONDS
    RateWindow,     \* the one second of rate_limit_reason
    MaxTime         \* bound on the clock

Caller == Thread \cup Task

Environment == {"SIM", "LIVE"}

\* The settings SafetyConfig.from_env reads.  `permitted' collects what the
\* account and instrument allowlists, the two limits and the risk fields
\* decide about a request.
SafetyConfig == [environment : Environment, live_writes_enabled : BOOLEAN,
                 global_kill_switch : BOOLEAN, permitted : SUBSET Request]

ASSUME ConfigAssumption == Config # {} /\ Config \subseteq SafetyConfig
ASSUME CallerAssumption == Thread \cap Task = {} /\ NoTask \notin Task
ASSUME TokenAssumption == NoToken \notin Token
ASSUME TimeAssumption ==
    /\ PreviewTTL \in Nat /\ MaxTime \in Nat
    /\ DupWindow \in Nat /\ RateWindow \in Nat \ {0} /\ RateWindow <= DupWindow

Never == -1

StoredPreview == [request : Request, expires_at : Nat, environment : Environment,
                  statement : Token \cup {NoToken}]

ASSUME PreviewAssumption == NoPreview \notin StoredPreview

VARIABLES
    now,                \* datetime.now(UTC), in seconds
    config,             \* os.environ, read again by every call
    previews,           \* _PREVIEWS
    committedTokens,    \* _COMMITTED_PREVIEW_TOKENS
    committedAt,        \* _COMMITTED_FINGERPRINTS
    lastCommitAt,       \* _last_commit_at
    loop,               \* the coroutine that has not reached an await
    pc, held, markedAt, \* per caller: control, its token, the time mark_committed read
    stale,              \* per caller: entries its pruning has listed and not yet deleted
    setBack,            \* history: a worker thread put an older time, or none, over a newer one
    \* what the outside world has seen
    issued,             \* tokens the server ever generated
    given,              \* LIVE approval statements that came with a commit
    sent,               \* how often a token's request was sent to Saxo
    sentAt              \* commit time of that send, in this process

kernel == <<previews, committedTokens, committedAt, lastCommitAt>>
callers == <<loop, pc, held, markedAt, stale>>
world == <<issued, given, sent, sentAt>>
vars == <<now, config, kernel, callers, setBack, world>>

-----------------------------------------------------------------------------
(* The gates. *)

\* current_safety_reasons returns no reason.
Permitted(cfg, r) ==
    /\ cfg.environment = "LIVE" <=> cfg.live_writes_enabled
    /\ ~cfg.global_kill_switch
    /\ r \in cfg.permitted

\* Mutant of IsCommitted: the entry is pruned one second early.
PrunesEarly(r) == committedAt[r] # Never /\ now + 1 - committedAt[r] < DupWindow

\* is_committed.  Entries as old as the window are pruned before the lookup.
IsCommitted(r) == committedAt[r] # Never /\ now - committedAt[r] < DupWindow

\* _prune_committed_fingerprints, by a coroutine.
Pruned == [r \in Request |-> IF IsCommitted(r) THEN committedAt[r] ELSE Never]

\* rate_limit_reason.
RateLimited == lastCommitAt # Never /\ now - lastCommitAt < RateWindow

\* Mutant of ChatApproved: any statement will do.
AnyStatement(t, stmt) == config.environment = "LIVE" => stmt # NoToken

\* The approval statement the caller passed is the one stored with the preview.
ChatApproved(t, stmt) ==
    config.environment = "LIVE" => stmt # NoToken /\ stmt = previews[t].statement

\* Mutant of CommitAllowed: a committed token is not refused.
ReusesToken(t, stmt) ==
    /\ previews[t] # NoPreview
    /\ now < previews[t].expires_at
    /\ previews[t].environment = config.environment
    /\ Permitted(config, previews[t].request)
    /\ ChatApproved(t, stmt)
    /\ ~IsCommitted(previews[t].request)
    /\ ~RateLimited

\* _stored_commit_denial_reasons returns no reason.
CommitAllowed(t, stmt) ==
    /\ previews[t] # NoPreview
    /\ now < previews[t].expires_at
    /\ previews[t].environment = config.environment
    /\ Permitted(config, previews[t].request)
    /\ ChatApproved(t, stmt)
    /\ t \notin committedTokens
    /\ ~IsCommitted(previews[t].request)
    /\ ~RateLimited

\* The checks of execute_order_write that come before the commit.
ExecutionAdmitted(t) ==
    /\ previews[t] # NoPreview
    /\ config.environment = "LIVE" => previews[t].request \notin Refused

-----------------------------------------------------------------------------
Init ==
    /\ now = 0
    /\ config \in Config
    /\ previews = [t \in Token |-> NoPreview]
    /\ committedTokens = {}
    /\ committedAt = [r \in Request |-> Never]
    /\ lastCommitAt = Never
    /\ loop = NoTask
    /\ pc = [c \in Caller |-> "idle"]
    /\ held = [c \in Caller |-> NoToken]
    /\ markedAt = [c \in Caller |-> Never]
    /\ stale = [c \in Caller |-> {}]
    /\ setBack = FALSE
    /\ issued = {}
    /\ given = {}
    /\ sent = [t \in Token |-> 0]
    /\ sentAt = [t \in Token |-> Never]

(* The preview tools. *)

\* create_preview, from an async preview tool: no await between the checks,
\* the preview_created audit event and store_preview.
CreatePreview(r, t) ==
    /\ loop = NoTask
    /\ t \notin issued
    /\ Permitted(config, r)
    /\ ~IsCommitted(r)
    /\ committedAt' = Pruned
    /\ issued' = issued \cup {t}
    /\ previews' = [previews EXCEPT ![t] =
           [request |-> r, expires_at |-> now + PreviewTTL,
            environment |-> config.environment,
            statement |-> IF config.environment = "LIVE" THEN t ELSE NoToken]]
    /\ UNCHANGED <<now, config, committedTokens, lastCommitAt, callers, setBack,
                   given, sent, sentAt>>

\* saxo_create_write_preview loses the race for a one-time order selector and
\* discards the preview it has just stored; or the preview_created audit event
\* cannot be written and nothing is stored.  The token is spent either way.
LosePreview(r, t) ==
    /\ loop = NoTask
    /\ t \notin issued
    /\ Permitted(config, r)
    /\ ~IsCommitted(r)
    /\ committedAt' = Pruned
    /\ issued' = issued \cup {t}
    /\ UNCHANGED <<now, config, previews, committedTokens, lastCommitAt, callers, setBack,
                   given, sent, sentAt>>

(* The commit gate: the checks, the audit write, the mark. *)

\* Mutant of Return: the caller keeps the token it was working on.
KeepsToken(c) ==
    /\ pc' = [pc EXCEPT ![c] = "idle"]
    /\ markedAt' = [markedAt EXCEPT ![c] = Never]
    /\ stale' = [stale EXCEPT ![c] = {}]
    /\ loop' = IF c \in Task THEN NoTask ELSE loop
    /\ UNCHANGED held

\* A caller returns to its client; a coroutine gives the loop up.
Return(c) ==
    /\ pc' = [pc EXCEPT ![c] = "idle"]
    /\ held' = [held EXCEPT ![c] = NoToken]
    /\ markedAt' = [markedAt EXCEPT ![c] = Never]
    /\ stale' = [stale EXCEPT ![c] = {}]
    /\ loop' = IF c \in Task THEN NoTask ELSE loop

\* In LIVE the client passes a statement that it has seen: a prompt of any preview,
\* its own or another.  In SIM the argument is ignored.
CheckCommit(c, t, stmt) ==
    /\ stmt \in IF config.environment = "LIVE" THEN issued \cup {NoToken} ELSE {NoToken}
    /\ CommitAllowed(t, stmt)
    /\ pc' = [pc EXCEPT ![c] = "checked"]
    /\ held' = [held EXCEPT ![c] = t]
    /\ given' = given \cup ({stmt} \ {NoToken})

\* saxo_commit_write_preview on a worker thread comes to is_committed: it lists the entries
\* that are as old as the window.
ListStale(c, t) ==
    /\ pc[c] = "idle"
    /\ previews[t] # NoPreview /\ t \notin committedTokens
    /\ stale' = [stale EXCEPT ![c] = {r \in Request : committedAt[r] # Never /\ ~IsCommitted(r)}]
    /\ pc' = [pc EXCEPT ![c] = "pruning"]
    /\ held' = [held EXCEPT ![c] = t]
    /\ UNCHANGED <<now, config, kernel, loop, markedAt, setBack, world>>

\* It deletes one of them, whatever the entry has become.
PruneEntry(c, r) ==
    /\ pc[c] = "pruning"
    /\ r \in stale[c] /\ committedAt[r] # Never
    /\ committedAt' = [committedAt EXCEPT ![r] = Never]
    /\ stale' = [stale EXCEPT ![c] = @ \ {r}]
    /\ setBack' = (setBack \/ IsCommitted(r))
    /\ UNCHANGED <<now, config, previews, committedTokens, lastCommitAt, loop, pc, held,
                   markedAt, world>>

\* The commit is denied, or raises KeyError because the entry is gone.
CommitDenied(c) ==
    /\ pc[c] = "pruning"
    /\ Return(c)
    /\ UNCHANGED <<now, config, kernel, setBack, world>>

CommitTool(c, stmt) ==
    /\ pc[c] = "pruning" /\ stale[c] = {}
    /\ CheckCommit(c, held[c], stmt)
    /\ UNCHANGED <<now, config, kernel, loop, markedAt, stale, setBack, issued, sent, sentAt>>

\* Mutant of ExecuteTool: an await separates the checks from the mark.
AwaitsBeforeMark(c, t, stmt) ==
    /\ pc[c] = "idle"
    /\ loop = NoTask
    /\ ExecutionAdmitted(t)
    /\ CheckCommit(c, t, stmt)
    /\ committedAt' = Pruned
    /\ UNCHANGED <<now, config, previews, committedTokens, lastCommitAt, loop, markedAt, stale,
                   setBack, issued, sent, sentAt>>

\* execute_order_write up to the commit checks.
ExecuteTool(c, t, stmt) ==
    /\ pc[c] = "idle"
    /\ loop = NoTask
    /\ ExecutionAdmitted(t)
    /\ CheckCommit(c, t, stmt)
    /\ committedAt' = Pruned
    /\ loop' = c
    /\ UNCHANGED <<now, config, previews, committedTokens, lastCommitAt, markedAt, stale,
                   setBack, issued, sent, sentAt>>

\* A coroutine whose checks deny it has pruned and done nothing else.
CoroutineDenied ==
    /\ loop = NoTask
    /\ committedAt' = Pruned
    /\ UNCHANGED <<now, config, previews, committedTokens, lastCommitAt, callers, setBack, world>>

\* The commit_approved audit event cannot be written: the commit is denied.
AuditFails(c) ==
    /\ pc[c] = "checked"
    /\ Return(c)
    /\ UNCHANGED <<now, config, kernel, setBack, world>>

\* The audit event is written; mark_committed reads the clock.
Approve(c) ==
    /\ pc[c] = "checked"
    /\ markedAt' = [markedAt EXCEPT ![c] = now]
    /\ pc' = [pc EXCEPT ![c] = "marking"]
    /\ UNCHANGED <<now, config, kernel, loop, held, stale, setBack, world>>

\* A worker thread writes the time it read over a newer one.
SetsBack(c, time) == c \in Thread /\ markedAt[c] < time

MarkFingerprint(c) ==
    LET r == previews[held[c]].request IN
    /\ pc[c] = "marking"
    /\ committedAt' = [committedAt EXCEPT ![r] = markedAt[c]]
    /\ setBack' = (setBack \/ SetsBack(c, committedAt[r]))
    /\ pc' = [pc EXCEPT ![c] = "fingerprint"]
    /\ UNCHANGED <<now, config, previews, committedTokens, lastCommitAt, loop, held, markedAt,
                   stale, world>>

\* Mutant of MarkToken: mark_committed does not record the token.
ForgetsToken(c) ==
    /\ pc[c] = "fingerprint"
    /\ pc' = [pc EXCEPT ![c] = "token"]
    /\ UNCHANGED <<now, config, kernel, loop, held, markedAt, stale, setBack, world>>

MarkToken(c) ==
    /\ pc[c] = "fingerprint"
    /\ committedTokens' = committedTokens \cup {held[c]}
    /\ pc' = [pc EXCEPT ![c] = "token"]
    /\ UNCHANGED <<now, config, previews, committedAt, lastCommitAt, loop, held, markedAt,
                   stale, setBack, world>>

MarkTime(c) ==
    /\ pc[c] = "token"
    /\ lastCommitAt' = markedAt[c]
    /\ setBack' = (setBack \/ SetsBack(c, lastCommitAt))
    /\ UNCHANGED <<now, config, previews, committedTokens, committedAt, world>>

\* The worker thread reports approved_for_simulation or approved_for_execution.
ApproveTool(c) == MarkTime(c) /\ Return(c)

\* The order tool goes on to resolve its route.  A body without the route key
\* is denied here, after its token has been spent.
ApproveExecution(c) ==
    /\ MarkTime(c)
    /\ IF previews[held[c]].request \in Unroutable
         THEN Return(c)
         ELSE /\ pc' = [pc EXCEPT ![c] = "send"]
              /\ UNCHANGED <<loop, held, markedAt, stale>>

\* _send_order_write: one attempt, never retried; the await ends the section.
SendOrderWrite(c) ==
    LET t == held[c] IN
    /\ pc[c] = "send"
    /\ sent' = [sent EXCEPT ![t] = @ + 1]
    /\ sentAt' = [sentAt EXCEPT ![t] = markedAt[c]]
    /\ Return(c)
    /\ UNCHANGED <<now, config, kernel, setBack, issued, given>>

-----------------------------------------------------------------------------
(* The environment. *)

\* os.environ changes between two calls, as the in-process QA harness does.
Reconfigure(cfg) ==
    /\ loop = NoTask
    /\ config' = cfg
    /\ UNCHANGED <<now, kernel, callers, setBack, world>>

Tick ==
    /\ now < MaxTime
    /\ now' = now + 1
    /\ UNCHANGED <<config, kernel, callers, setBack, world>>

\* The process dies and a new one starts: every module dictionary is empty.
Restart(cfg) ==
    /\ config' = cfg
    /\ previews' = [t \in Token |-> NoPreview]
    /\ committedTokens' = {}
    /\ committedAt' = [r \in Request |-> Never]
    /\ lastCommitAt' = Never
    /\ loop' = NoTask
    /\ pc' = [c \in Caller |-> "idle"]
    /\ held' = [c \in Caller |-> NoToken]
    /\ markedAt' = [c \in Caller |-> Never]
    /\ stale' = [c \in Caller |-> {}]
    /\ setBack' = FALSE
    /\ sentAt' = [t \in Token |-> Never]
    /\ UNCHANGED <<now, issued, given, sent>>

Next ==
    \/ \E r \in Request, t \in Token : CreatePreview(r, t) \/ LosePreview(r, t)
    \/ \E c \in Thread, t \in Token : ListStale(c, t)
    \/ \E c \in Thread, r \in Request : PruneEntry(c, r)
    \/ \E c \in Thread, stmt \in Token \cup {NoToken} : CommitTool(c, stmt)
    \/ \E c \in Thread : CommitDenied(c)
    \/ \E c \in Task, t \in Token, stmt \in Token \cup {NoToken} : ExecuteTool(c, t, stmt)
    \/ CoroutineDenied
    \/ \E c \in Caller : AuditFails(c) \/ Approve(c) \/ MarkFingerprint(c) \/ MarkToken(c)
    \/ \E c \in Thread : ApproveTool(c)
    \/ \E c \in Task : ApproveExecution(c) \/ SendOrderWrite(c)
    \/ \E cfg \in Config : Reconfigure(cfg) \/ Restart(cfg)
    \/ Tick

Spec == Init /\ [][Next]_vars

-----------------------------------------------------------------------------
(* What must hold. *)

\* Type correctness: every variable keeps the shape the kernel's dictionaries
\* have, and a caller holds a token exactly while it is inside a commit.
TypeOK ==
    /\ now \in Nat
    /\ config \in Config
    /\ previews \in [Token -> StoredPreview \cup {NoPreview}]
    /\ committedTokens \subseteq Token
    /\ committedAt \in [Request -> Nat \cup {Never}]
    /\ lastCommitAt \in Nat \cup {Never}
    /\ loop \in Task \cup {NoTask}
    /\ pc \in [Caller -> {"idle", "pruning", "checked", "marking", "fingerprint", "token", "send"}]
    /\ held \in [Caller -> Token \cup {NoToken}]
    /\ markedAt \in [Caller -> Nat \cup {Never}]
    /\ stale \in [Caller -> SUBSET Request]
    /\ setBack \in BOOLEAN
    /\ issued \subseteq Token
    /\ given \subseteq Token
    /\ sent \in [Token -> Nat]
    /\ sentAt \in [Token -> Nat \cup {Never}]
    /\ \A c \in Caller : pc[c] = "idle" <=> held[c] = NoToken

\* A preview token puts at most one order write on the wire, over any number of
\* order-tool calls, concurrent commits on worker threads, clock ticks past the
\* duplicate window and restarts: README.md:192, the approval "is single-use".
OneSendPerPreview == \A t \in Token : sent[t] <= 1

Distance(a, b) == IF a < b THEN b - a ELSE a - b

\* The order writes one process sends were committed at least RateWindow apart,
\* and at least DupWindow apart when they carry the same request (rate_limit_reason,
\* is_committed), whatever commits worker threads slip in between, unless one of
\* these was overtaken: interrupted in mark_committed or in the pruning, it put the
\* time it had read over a newer one, or deleted an entry that had become a newer one.
SendsSpaced ==
    setBack \/ \A t, u \in Token :
        t # u /\ sentAt[t] # Never /\ sentAt[u] # Never =>
            /\ Distance(sentAt[t], sentAt[u]) >= RateWindow
            /\ previews[t].request = previews[u].request =>
                   Distance(sentAt[t], sentAt[u]) >= DupWindow

\* At the moment an order write leaves, the settings of that moment allow it and
\* its preview was made for their environment: README.md:192-194, the kill switch,
\* allowlists, limits and environment are checked "immediately before execution".
NoSendWhileBlocked ==
    [][\A t \in Token : sent'[t] # sent[t] =>
          /\ Permitted(config, previews[t].request)
          /\ previews[t].environment = config.environment]_vars

\* A LIVE order write left only after a commit that came with its own approval statement:
\* statements of other previews, of the same request too, never stand in for it, over
\* denials, failing audits and changing settings.  Who wrote the statement the code cannot
\* tell: that the agent passes on only what the human sent (README.md:191) is its part.
LiveSendsApproved ==
    \A t \in Token :
        sentAt[t] # Never /\ previews[t].environment = "LIVE" => t \in given

\* A preview is approved at most once: approval-dialogue.md:33, "It is single-use.
\* A consumed preview or committed request cannot be reused."  A commit whose approval is
\* on record finds its token unspent, and no other commit has it approved.
Approving == {c \in Caller : pc[c] \in {"marking", "fingerprint"}}

ApprovedOnce ==
    \A c \in Approving :
        /\ held[c] \notin committedTokens
        /\ \A d \in Approving : held[c] = held[d] => c = d

-----------------------------------------------------------------------------
(* The kernel implements the one-shot token: the refinement mapping. *)

TokenStatus(t) ==
    IF sent[t] > 0 THEN "sent"
    ELSE IF t \notin issued THEN "unissued"
    ELSE IF previews[t] = NoPreview THEN "lost"
    ELSE IF t \in committedTokens THEN "consumed"
    ELSE "pending"

TokenStatuses == [t \in Token |-> TokenStatus(t)]

OneShot == INSTANCE OneShotWrite WITH status <- TokenStatuses, writes <- sent

\* Every step of the kernel, whatever the interleaving of coroutines, worker
\* threads and restarts, is a step of a one-shot token (or changes none):
\* store_preview, mark_committed and _send_order_write happen in this order.
ImplementsOneShotWrite == OneShot!Spec
=============================================================================
