--------------------------- MODULE TradingWriteGateway ---------------------------
(***************************************************************************)
(* The gateway for registered Trading writes other than orders             *)
(* (trading_write_state.py, trading_write_execution.py): prepare stores a  *)
(* preview and hands its token out, execute checks the token, spends it    *)
(* and sends the write.  It shares the safety settings with the order      *)
(* kernel and nothing else: it has dictionaries of its own, and neither a  *)
(* duplicate window nor a rate limit.                                      *)
(*                                                                         *)
(* saxo_prepare_trading_write is a synchronous tool, so it runs on a       *)
(* worker thread (Thread); saxo_execute_trading_write is a coroutine       *)
(* (Task), and `loop' names the one between its first check and its await. *)
(***************************************************************************)
EXTENDS Integers, FiniteSets

CONSTANTS
    Token,          \* the values secrets.token_urlsafe can return
    Request,        \* write requests that pass validation
    MoneyMoving,    \* those whose operation has the risk class money_moving
    Thread, Task,   \* worker threads, coroutines
    Config,         \* safety settings the process environment may hold
    NoToken, NoTask, NoPreview, NoReport,
    PreviewTTL,     \* PREVIEW_TTL_SECONDS
    MaxTime         \* bound on the clock

Caller == Thread \cup Task

Environment == {"SIM", "LIVE"}

\* `permitted' collects what the allowlists, limits and bindings of
\* trading_write_safety.py decide about a request.
SafetyConfig == [environment : Environment, live_writes_enabled : BOOLEAN,
                 global_kill_switch : BOOLEAN, permitted : SUBSET Request]

HttpStatus == {200, 202, 400, 401, 403, 409, 429, 500}

ASSUME ConfigAssumption == Config # {} /\ Config \subseteq SafetyConfig
ASSUME CallerAssumption == Thread \cap Task = {} /\ NoTask \notin Task
ASSUME TokenAssumption == NoToken \notin Token
ASSUME TimeAssumption == PreviewTTL \in Nat /\ MaxTime \in Nat
ASSUME RiskAssumption == MoneyMoving \subseteq Request

PreparedTradingWrite == [request : Request, expires_at : Nat, environment : Environment,
                         statement : Token \cup {NoToken}]

ASSUME PreviewAssumption == NoPreview \notin PreparedTradingWrite

Status == {"completed", "partial_success", "unknown_state", "rate_limited",
           "duplicate_or_conflict", "failed"}

\* What a call tells the agent about its write.
Report == [status : Status, mutation_may_have_occurred : BOOLEAN, retry_unsafe : BOOLEAN]

ASSUME ReportAssumption == NoReport \notin Report

VARIABLES
    now, config,
    previews,       \* _PREVIEWS
    consumed,       \* _CONSUMED_PREVIEW_TOKEN_FINGERPRINTS
    loop,           \* the coroutine that has not reached an await
    pc, held,       \* per caller: control, its token
    \* what the outside world has seen
    issued,         \* tokens the server ever generated
    handed,         \* tokens it returned to a client
    given,          \* LIVE approval statements that came with a call
    sent,           \* how often a token's write was sent to Saxo
    applied,        \* tokens whose write Saxo carried out
    refused,        \* tokens whose write Saxo refused to look at
    report          \* what the client was told about a token's write

callers == <<loop, pc, held>>
world == <<issued, handed, given, sent, applied, refused, report>>
vars == <<now, config, previews, consumed, callers, world>>

-----------------------------------------------------------------------------
(* The checks. *)

\* trading_write_safety_errors returns nothing.
Permitted(cfg, r) ==
    /\ ~cfg.global_kill_switch
    /\ cfg.environment = "LIVE" => cfg.live_writes_enabled
    /\ r \in cfg.permitted

\* Mutant of NoDenial: the environment of the preview is not compared.
IgnoresEnvironment(t, stmt) ==
    /\ now < previews[t].expires_at
    /\ t \notin consumed
    /\ Permitted(config, previews[t].request)
    /\ previews[t].statement # NoToken => stmt = previews[t].statement

\* Mutant of NoDenial: a spent token is not refused.
ReusesToken(t, stmt) ==
    /\ now < previews[t].expires_at
    /\ previews[t].environment = config.environment
    /\ Permitted(config, previews[t].request)
    /\ previews[t].statement # NoToken => stmt = previews[t].statement

\* _execution_denial returns None.
NoDenial(t, stmt) ==
    /\ now < previews[t].expires_at
    /\ t \notin consumed
    /\ previews[t].environment = config.environment
    /\ Permitted(config, previews[t].request)
    /\ previews[t].statement # NoToken => stmt = previews[t].statement

-----------------------------------------------------------------------------
(* The report: _response_status and _response_payload. *)

ErrorState == {"none", "failed", "partial_success"}

ResponseStatus(http, error) ==
    CASE http = 202 -> "unknown_state"
      [] http \in (200..299) \ {202} ->
           IF error = "none" THEN "completed" ELSE error
      [] http = 429 -> "rate_limited"
      [] http = 409 -> "duplicate_or_conflict"
      [] OTHER -> "failed"

\* Mutant of RetryUnsafe: only an accepted write is unsafe to retry.
UnsafeWhenAccepted(r, http) == http = 202

RetryUnsafe(r, http) ==
    http = 202 \/ (r \in MoneyMoving /\ http \notin {401, 403, 429})

ResponseReport(r, http, error) ==
    [status |-> ResponseStatus(http, error),
     mutation_may_have_occurred |->
         ResponseStatus(http, error) \in {"completed", "partial_success", "unknown_state"},
     retry_unsafe |-> RetryUnsafe(r, http)]

\* httpx2.HTTPError: unknown_state.
NetworkReport == [status |-> "unknown_state", mutation_may_have_occurred |-> TRUE,
                  retry_unsafe |-> TRUE]

-----------------------------------------------------------------------------
Init ==
    /\ now = 0 /\ config \in Config
    /\ previews = [t \in Token |-> NoPreview]
    /\ consumed = {}
    /\ loop = NoTask
    /\ pc = [c \in Caller |-> "idle"]
    /\ held = [c \in Caller |-> NoToken]
    /\ issued = {} /\ handed = {} /\ given = {} /\ applied = {} /\ refused = {}
    /\ sent = [t \in Token |-> 0]
    /\ report = [t \in Token |-> NoReport]

\* Mutant of Return: the caller keeps the token it was working on.
KeepsToken(c) ==
    /\ pc' = [pc EXCEPT ![c] = "idle"]
    /\ UNCHANGED held

Return(c) ==
    /\ pc' = [pc EXCEPT ![c] = "idle"]
    /\ held' = [held EXCEPT ![c] = NoToken]

(* prepare_registered_trading_write, on a worker thread. *)

\* The checks, then create_trading_write_preview: the preview is stored first.
StorePreview(c, r, t) ==
    /\ pc[c] = "idle"
    /\ t \notin issued
    /\ Permitted(config, r)
    /\ issued' = issued \cup {t}
    /\ previews' = [previews EXCEPT ![t] =
           [request |-> r, expires_at |-> now + PreviewTTL,
            environment |-> config.environment,
            statement |-> IF config.environment = "LIVE" THEN t ELSE NoToken]]
    /\ pc' = [pc EXCEPT ![c] = "stored"]
    /\ held' = [held EXCEPT ![c] = t]
    /\ UNCHANGED <<now, config, consumed, loop, handed, given, sent, applied,
                   refused, report>>

\* The audit event is written and the token returned.
HandOut(c) ==
    /\ pc[c] = "stored"
    /\ handed' = handed \cup {held[c]}
    /\ Return(c)
    /\ UNCHANGED <<now, config, previews, consumed, loop, issued, given, sent, applied,
                   refused, report>>

\* It cannot be written: denied, and the preview stays behind its unreturned token.
PrepareFails(c) ==
    /\ pc[c] = "stored"
    /\ Return(c)
    /\ UNCHANGED <<now, config, previews, consumed, loop, world>>

(* execute_trading_write, a coroutine. *)

\* A client calls with a token it was given, for a LIVE preview with a prompt that it was
\* given, this preview's or another's: the checks, then the token is spent.
ExecuteWrite(c, t, stmt) ==
    /\ loop = NoTask
    /\ pc[c] = "idle"
    /\ t \in handed /\ previews[t] # NoPreview
    /\ stmt \in IF previews[t].statement = NoToken THEN {NoToken} ELSE handed \cup {NoToken}
    /\ NoDenial(t, stmt)
    /\ given' = given \cup ({stmt} \ {NoToken})
    /\ consumed' = consumed \cup {t}
    /\ loop' = c
    /\ pc' = [pc EXCEPT ![c] = "send"]
    /\ held' = [held EXCEPT ![c] = t]
    /\ UNCHANGED <<now, config, previews, issued, handed, sent, applied, refused, report>>

\* client.request with no transport retry; the await gives the loop up.
SendWrite(c) ==
    /\ pc[c] = "send"
    /\ sent' = [sent EXCEPT ![held[c]] = @ + 1]
    /\ loop' = NoTask
    /\ pc' = [pc EXCEPT ![c] = "awaiting"]
    /\ UNCHANGED <<now, config, previews, consumed, held, issued, handed, given, applied,
                   refused, report>>

\* Saxo carries a write out at any time after it was sent, unless it has refused it.
BrokerApplies(t) ==
    /\ sent[t] > 0
    /\ t \notin applied \cup refused
    /\ applied' = applied \cup {t}
    /\ UNCHANGED <<now, config, previews, consumed, callers, issued, handed, given, sent,
                   refused, report>>

\* Saxo refuses authentication and permission before it looks at the write.  A rate limit
\* may be met after it.
Refusal == {401, 403}

ReceiveResponse(c, http, error) ==
    /\ pc[c] = "awaiting"
    /\ held[c] \in applied => http \notin Refusal
    /\ refused' = IF http \in Refusal THEN refused \cup {held[c]} ELSE refused
    /\ report' = [report EXCEPT ![held[c]] =
           ResponseReport(previews[held[c]].request, http, error)]
    /\ Return(c)
    /\ UNCHANGED <<now, config, previews, consumed, loop, issued, handed, given, sent, applied>>

NetworkFails(c) ==
    /\ pc[c] = "awaiting"
    /\ report' = [report EXCEPT ![held[c]] = NetworkReport]
    /\ Return(c)
    /\ UNCHANGED <<now, config, previews, consumed, loop, issued, handed, given, sent, applied,
                   refused>>

(* The environment. *)

\* os.environ changes between two calls.
Reconfigure(cfg) ==
    /\ loop = NoTask
    /\ config' = cfg
    /\ UNCHANGED <<now, previews, consumed, callers, world>>

Tick ==
    /\ now < MaxTime
    /\ now' = now + 1
    /\ UNCHANGED <<config, previews, consumed, callers, world>>

\* The process dies and a new one starts with empty dictionaries.
Restart(cfg) ==
    /\ config' = cfg
    /\ previews' = [t \in Token |-> NoPreview]
    /\ consumed' = {}
    /\ loop' = NoTask
    /\ pc' = [c \in Caller |-> "idle"]
    /\ held' = [c \in Caller |-> NoToken]
    /\ UNCHANGED <<now, world>>

Next ==
    \/ \E c \in Thread, r \in Request, t \in Token : StorePreview(c, r, t)
    \/ \E c \in Thread : HandOut(c) \/ PrepareFails(c)
    \/ \E c \in Task, t \in Token, stmt \in Token \cup {NoToken} : ExecuteWrite(c, t, stmt)
    \/ \E c \in Task : SendWrite(c) \/ NetworkFails(c)
    \/ \E c \in Task, http \in HttpStatus, error \in ErrorState : ReceiveResponse(c, http, error)
    \/ \E t \in Token : BrokerApplies(t)
    \/ \E cfg \in Config : Reconfigure(cfg) \/ Restart(cfg)
    \/ Tick

Spec == Init /\ [][Next]_vars

-----------------------------------------------------------------------------
(* What must hold. *)

\* Type correctness: a caller holds a token exactly while it works on one.
TypeOK ==
    /\ now \in Nat
    /\ config \in Config
    /\ previews \in [Token -> PreparedTradingWrite \cup {NoPreview}]
    /\ consumed \subseteq Token
    /\ loop \in Task \cup {NoTask}
    /\ pc \in [Caller -> {"idle", "stored", "send", "awaiting"}]
    /\ held \in [Caller -> Token \cup {NoToken}]
    /\ issued \subseteq Token /\ handed \subseteq Token /\ given \subseteq Token
    /\ sent \in [Token -> Nat]
    /\ applied \subseteq Token /\ refused \subseteq Token
    /\ report \in [Token -> Report \cup {NoReport}]
    /\ \A c \in Caller : pc[c] = "idle" <=> held[c] = NoToken

\* When a write leaves, the settings of that moment allow it, its preview was made
\* for their environment, and in LIVE that preview's own statement came with a call
\* (_execution_denial): neither an edited environment nor an approval meant for
\* another preview lets it out.  Whether the human sent the statement the code cannot
\* tell.
NoSendWhileBlocked ==
    [][\A t \in Token : sent'[t] # sent[t] =>
          /\ Permitted(config, previews[t].request)
          /\ previews[t].environment = config.environment
          /\ config.environment = "LIVE" => t \in given]_vars

\* A money-moving write that Saxo carried out, before the answer or after it, is never
\* reported as impossible and safe to retry, whatever the answer says (retry_unsafe),
\* except when that answer is a rate limit: there the code (trading_write_execution.py:409)
\* calls a retry safe and the documentation (status-recovery.md:63) does not.
SafeRetryUnapplied ==
    \A t \in Token :
        report[t] # NoReport /\ previews[t] # NoPreview
          /\ previews[t].request \in MoneyMoving /\ t \in applied =>
            \/ report[t].mutation_may_have_occurred
            \/ report[t].retry_unsafe
            \/ report[t].status = "rate_limited"

(* The gateway implements the one-shot token: the refinement mapping.  A token
   counts as issued when a client has it; an orphan preview is never issued. *)

TokenStatus(t) ==
    IF sent[t] > 0 THEN "sent"
    ELSE IF t \notin handed THEN "unissued"
    ELSE IF previews[t] = NoPreview THEN "lost"
    ELSE IF t \in consumed THEN "consumed"
    ELSE "pending"

TokenStatuses == [t \in Token |-> TokenStatus(t)]

OneShot == INSTANCE OneShotWrite WITH status <- TokenStatuses, writes <- sent

\* The gateway keeps the same promise as the order kernel: a token it handed out
\* sends one write at most, in the order handed out, spent, sent, and none after
\* the process that knew it died.
ImplementsOneShotWrite == OneShot!Spec
=============================================================================
