----------------------------- MODULE OrderSelectors -----------------------------
(***************************************************************************)
(* One-time order selectors (process_scoped_selectors.py): a placement     *)
(* whose order is still open hands out a selector for it, and             *)
(* saxo_create_write_preview resolves the selectors of a request, stores   *)
(* the preview and then consumes them (mcp_safety_tools.py).               *)
(*                                                                         *)
(* A selector is an HMAC of the token generation, the account and the      *)
(* order, so it is modelled by these three; the environment is SIM where   *)
(* they are made and where they are resolved.  Calls may run in several    *)
(* threads: resolving, and storing with consuming, are separate steps.     *)
(***************************************************************************)
EXTENDS Integers

CONSTANTS
    Orders, Accounts,
    Calls,              \* calls of saxo_create_write_preview
    Spellings,          \* how agents write a selector: as given, or after blanks
    TTL,                \* ORDER_SELECTOR_TTL_SECONDS
    MaxGeneration,      \* bound: token generations
    MaxTime             \* bound: the clock

VARIABLES
    generation,     \* token_generation of the cached token
    now,
    bindings,       \* _ORDER_BINDINGS
    call,           \* what each call is doing
    kept            \* history: previews kept for each selector

vars == <<generation, now, bindings, call, kept>>

Selector == [generation : 0..MaxGeneration, account : Accounts, order : Orders]
Reference == [selector : Selector, spelling : {"plain", "blanks"}]
Binding == [bound : BOOLEAN, expires_at : Int, consumed : BOOLEAN]

Unbound == [bound |-> FALSE, expires_at |-> 0, consumed |-> FALSE]
Returned == [at |-> "idle", generation |-> 0, references |-> {}]

Init ==
    /\ generation = 0
    /\ now = 0
    /\ bindings = [s \in Selector |-> Unbound]
    /\ call = [c \in Calls |-> Returned]
    /\ kept = [s \in Selector |-> 0]

\* public_order_selectors, with a token that was read before the order was sent: a selector
\* that is bound again lives longer, and stays consumed.
EmitSelectors(orders, account, g) ==
    /\ bindings' = [s \in Selector |->
          IF s.generation = g /\ s.account = account /\ s.order \in orders /\ ~bindings[s].consumed
          THEN [bound |-> TRUE, expires_at |-> now + TTL, consumed |-> FALSE]
          ELSE bindings[s]]
    /\ UNCHANGED <<generation, now, call, kept>>

\* The call reads the cached token and waits for the account rows.  Its account is written as a
\* selector: with a raw account, a call whose references all stand after blanks resolves nothing.
BeginPreview(c, references) ==
    /\ call[c].at = "idle"
    /\ references # {}
    /\ call' = [call EXCEPT ![c] = [at |-> "fetching", generation |-> generation, references |-> references]]
    /\ UNCHANGED <<generation, now, bindings, kept>>

\* resolve_order_id_input strips the reference before it looks it up.
Usable(s) == bindings[s].bound /\ ~bindings[s].consumed /\ now < bindings[s].expires_at

Resolved(c, account) ==
    \A r \in call[c].references :
        Usable(r.selector) /\ r.selector.generation = call[c].generation /\ r.selector.account = account

Resolve(c, account) ==
    /\ call[c].at = "fetching"
    /\ Resolved(c, account)
    /\ call' = [call EXCEPT ![c].at = "resolved"]
    /\ UNCHANGED <<generation, now, bindings, kept>>

\* A selector or the account is refused, or create_preview denies the request.
Denied(c) ==
    /\ call[c].at # "idle"
    /\ call' = [call EXCEPT ![c] = Returned]
    /\ UNCHANGED <<generation, now, bindings, kept>>

\* _resolve_order_field recognises a selector by its prefix, before anything is stripped.
Pending(c) == {r.selector : r \in {q \in call[c].references : q.spelling = "plain"}}

\* The preview is stored; consume_order_selectors takes all pending selectors or none, and when
\* it refuses the preview is discarded.
Consume(c) ==
    /\ call[c].at = "resolved"
    /\ IF \A s \in Pending(c) : Usable(s)
       THEN /\ bindings' = [s \in Selector |->
                  IF s \in Pending(c) THEN [bindings[s] EXCEPT !.consumed = TRUE] ELSE bindings[s]]
            /\ kept' = [s \in Selector |->
                  IF \E r \in call[c].references : r.selector = s THEN kept[s] + 1 ELSE kept[s]]
       ELSE UNCHANGED <<bindings, kept>>
    /\ call' = [call EXCEPT ![c] = Returned]
    /\ UNCHANGED <<generation, now>>

\* A login, or a portal token: the cached token has another generation.
NewGeneration ==
    /\ generation < MaxGeneration
    /\ generation' = generation + 1
    /\ UNCHANGED <<now, bindings, call, kept>>

Tick ==
    /\ now < MaxTime
    /\ now' = now + 1
    /\ UNCHANGED <<generation, bindings, call, kept>>

Next ==
    \/ \E orders \in SUBSET Orders \ {{}}, a \in Accounts, g \in 0..generation : EmitSelectors(orders, a, g)
    \/ \E c \in Calls :
          \/ \E references \in SUBSET [selector : Selector, spelling : Spellings] : BeginPreview(c, references)
          \/ \E a \in Accounts : Resolve(c, a)
          \/ Denied(c) \/ Consume(c)
    \/ NewGeneration \/ Tick

Spec == Init /\ [][Next]_vars

--------------------------------------------------------------------------------

\* A selector is good for one preview that is kept, whoever races for it, is told again of the
\* order, logs in, or lets time pass (skills/saxo-trading/references/order-lifecycle.md:122).
OneTime == \A s \in Selector : kept[s] <= 1
===============================================================================
