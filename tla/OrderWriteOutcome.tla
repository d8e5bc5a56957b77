--------------------------- MODULE OrderWriteOutcome ---------------------------
(***************************************************************************)
(* What an order tool reports about a write it has sent                    *)
(* (order_mutation_models.py, order_mutation_execution.py from the send    *)
(* on), together with the broker that applies the write and the agent that *)
(* acts on the report.  One order write at a time: execute_order_write     *)
(* awaits its response, reads the open orders back, and returns.           *)
(*                                                                         *)
(* The broker is external: it applies a write, refuses it, or defers it,   *)
(* and answers with an HTTP status, order ids and error codes, or the      *)
(* answer is lost.  Three error codes tell the cases of the parser apart:  *)
(* a plain rejection, one of UNKNOWN_STATE_ERROR_CODES, and one of         *)
(* DUPLICATE_ERROR_CODES.  The multileg classes follow the class they      *)
(* extend in every table below and are folded into it.                     *)
(***************************************************************************)
EXTENDS Integers, FiniteSets

CONSTANTS
    OrderId,        \* the ids the broker may assign
    Ambiguous,      \* refusal statuses the broker may also send for a write it applied
    MaxWrites       \* bound on the writes of one session

ASSUME WritesAssumption == MaxWrites \in Nat

WriteClass == {"place", "modify", "cancel", "cancel-by-instrument"}
Environment == {"SIM", "LIVE"}

HttpStatus == {200, 202, 400, 409, 429, 500}
ErrorCode == {"Rejected", "TradeNotCompleted", "DuplicateRequest"}

ASSUME AmbiguousAssumption == Ambiguous \subseteq HttpStatus \ {200, 202}

Response == [http : HttpStatus, ids : SUBSET OrderId, errors : SUBSET ErrorCode]

NetworkError == [lost |-> TRUE]

Outcome == {"success", "failed", "partial_success", "unknown_state", "rate_limited"}

\* The fields of the tool result a later step depends on.
Result == [status : Outcome \cup {"completed", "completed_unverified", "network_error", "none"},
           mutation_may_have_occurred : BOOLEAN, retry_unsafe : BOOLEAN,
           order_cancelled : {"yes", "no", "unknown"},
           safe_order_selectors : SUBSET OrderId,
           cleanup_requires_reconciliation : BOOLEAN]

NoResult == [status |-> "none", mutation_may_have_occurred |-> FALSE, retry_unsafe |-> FALSE,
             order_cancelled |-> "no", safe_order_selectors |-> {},
             cleanup_requires_reconciliation |-> FALSE]

VARIABLES
    environment,    \* the session trades in SIM or in LIVE
    stage,          \* idle, sent (awaiting the broker), answered (reading back)
    class, target,  \* the write under way and the orders it names
    response,       \* the broker's answer to it
    removed,        \* orders the broker took out of the book for it
    results,        \* the last tool result of each write class
    intended,       \* the agent still wants its order placed
    writes,         \* writes sent so far
    \* the broker
    book,           \* open orders
    deferred,       \* orders accepted but not in the book yet
    placements,     \* the orders of every place request the broker applied or deferred
    denied          \* those of them it answered with a refusal nevertheless

tool == <<stage, class, target, response, removed, results>>
broker == <<book, deferred, placements, denied>>
vars == <<environment, tool, intended, writes, broker>>

\* The orders ever created for this session.
created == UNION placements

-----------------------------------------------------------------------------
(* parse_order_mutation_response *)

UNKNOWN_STATE_ERROR_CODES == {"TradeNotCompleted"}
DUPLICATE_ERROR_CODES == {"DuplicateRequest"}

PartialSuccess(r) == r.ids # {} /\ r.errors # {}
UnknownState(r) == r.http = 202 \/ UNKNOWN_STATE_ERROR_CODES \cap r.errors # {}
Duplicate(r) == r.http = 409 \/ DUPLICATE_ERROR_CODES \cap r.errors # {}
Succeeded(r) == r.errors = {} /\ (r.ids # {} \/ r.http \in 200..299)

OutcomeOf(r) ==
    IF r.http = 429 THEN "rate_limited"
    ELSE IF UnknownState(r) THEN "unknown_state"
    ELSE IF PartialSuccess(r) THEN "partial_success"
    ELSE IF Succeeded(r) THEN "success"
    ELSE "failed"

NeedsReadback(r) == PartialSuccess(r) \/ UnknownState(r) \/ Duplicate(r)

-----------------------------------------------------------------------------
(* The tables of order_mutation_execution.py: what the result says. *)

ORDER_ID_PROOF_REQUIRED_CLASSES == {"place", "modify", "cancel-by-instrument"}

ExecutionStatus(c, r) ==
    IF OutcomeOf(r) # "success" THEN OutcomeOf(r)
    ELSE IF c \in ORDER_ID_PROOF_REQUIRED_CLASSES /\ r.ids = {} THEN "completed_unverified"
    ELSE "completed"

\* What _readback saw: the open orders of a valid page, or nothing usable.
Readback == {"valid", "unusable"}

CleanupStatus(c, r, rb, open) ==
    IF c # "place" \/ OutcomeOf(r) # "success" \/ r.ids = {} THEN "not_required_by_executor"
    ELSE IF rb = "unusable" THEN "open_order_status_unverified"
    ELSE IF r.ids \cap open # {} THEN "open_order_still_present_cleanup_not_attempted"
    ELSE "verified_no_open_order"

\* Mutant of StatusWithCleanup: a readback that failed does not lower the status.
TrustsPlacement(status, cleanup) ==
    IF status = "completed" /\ cleanup = "open_order_still_present_cleanup_not_attempted"
      THEN "completed_unverified" ELSE status

\* Mutant of StatusWithCleanup: the cleanup status stands in for the status.
ReportsCleanup(status, cleanup) ==
    IF status = "completed" /\ cleanup \in {"open_order_status_unverified",
                                            "open_order_still_present_cleanup_not_attempted"}
      THEN cleanup ELSE status

StatusWithCleanup(status, cleanup) ==
    IF status = "completed" /\ cleanup \in {"open_order_status_unverified",
                                            "open_order_still_present_cleanup_not_attempted"}
      THEN "completed_unverified" ELSE status

\* Mutant of OrderCancelled: an empty success is a cancellation.
BelievesEmptySuccess(c, r) ==
    IF c \notin {"cancel", "cancel-by-instrument"} THEN "no"
    ELSE IF OutcomeOf(r) \in {"partial_success", "unknown_state"} THEN "unknown"
    ELSE IF OutcomeOf(r) = "success" THEN "yes" ELSE "no"

OrderCancelled(c, r) ==
    IF c \notin {"cancel", "cancel-by-instrument"} THEN "no"
    ELSE IF OutcomeOf(r) \in {"partial_success", "unknown_state"} THEN "unknown"
    ELSE IF OutcomeOf(r) # "success" THEN "no"
    ELSE IF c = "cancel-by-instrument" /\ r.ids = {} THEN "unknown"
    ELSE "yes"

\* _should_emit_sim_order_cleanup_handles
EmitsHandles(c, r, cleanup) ==
    /\ environment = "SIM" /\ c = "place" /\ r.ids # {}
    /\ cleanup = "open_order_still_present_cleanup_not_attempted"

\* The result of a write whose response arrived.
Reported(c, r, rb) ==
    LET cleanup == CleanupStatus(c, r, rb, book)
        status == StatusWithCleanup(ExecutionStatus(c, r), cleanup)
        handles == EmitsHandles(c, r, cleanup) IN
    [status |-> status,
     mutation_may_have_occurred |->
         OutcomeOf(r) \in {"success", "partial_success", "unknown_state"},
     retry_unsafe |-> NeedsReadback(r),
     order_cancelled |-> OrderCancelled(c, r),
     safe_order_selectors |-> IF handles THEN r.ids ELSE {},
     cleanup_requires_reconciliation |->
         /\ ~handles /\ environment = "SIM"
         /\ status \in {"partial_success", "unknown_state", "completed_unverified"}]

\* Mutant of Indeterminate: a lost answer counts as a write that never happened.
LostIsNothing(c) == [NoResult EXCEPT !.status = "network_error"]

\* The result after httpx2.HTTPError: _network_error and _indeterminate_flags.
Indeterminate(c) ==
    [NoResult EXCEPT !.status = "network_error", !.mutation_may_have_occurred = TRUE,
                     !.retry_unsafe = TRUE,
                     !.order_cancelled = IF c \in {"cancel", "cancel-by-instrument"}
                                           THEN "unknown" ELSE "no"]

-----------------------------------------------------------------------------
Init ==
    /\ environment \in Environment
    /\ stage = "idle" /\ class = "place" /\ target = {} /\ removed = {}
    /\ response = NetworkError
    /\ results = [c \in WriteClass |-> NoResult]
    /\ intended = TRUE
    /\ writes = 0
    /\ book = {} /\ deferred = {}
    /\ placements = {} /\ denied = {}

(* The agent, and the send. *)

Send(c, ids) ==
    /\ stage = "idle"
    /\ writes < MaxWrites
    /\ stage' = "sent"
    /\ class' = c
    /\ target' = ids
    /\ removed' = {}
    /\ writes' = writes + 1
    /\ UNCHANGED <<environment, response, results, intended, broker>>

\* The agent places its order, and again while the report of the last attempt
\* says that nothing may have happened and a retry is safe.
PlaceOrder == intended /\ Send("place", {})

\* It cancels or modifies an order it knows by id, or by instrument.
ChangeOrder(c, ids) ==
    /\ c \in {"modify", "cancel"} => ids # {}
    /\ c = "cancel-by-instrument" => ids = {}
    /\ Send(c, ids)

(* The broker. *)

\* A bare refusal of a write that was applied: a rate limit met after the write
\* boundary, a server that fails after it.
Denials == {[http |-> h, ids |-> {}, errors |-> {}] : h \in Ambiguous}

Unresolved(ids) ==
    {[http |-> 202, ids |-> {}, errors |-> {}], [http |-> 202, ids |-> ids, errors |-> {}],
     [http |-> 400, ids |-> {}, errors |-> {"TradeNotCompleted"}], NetworkError}

Refusals(ids) ==
    {[http |-> 400, ids |-> {}, errors |-> {"Rejected"}],
     [http |-> 200, ids |-> ids, errors |-> {"Rejected"}],
     [http |-> 409, ids |-> {}, errors |-> {}],
     [http |-> 400, ids |-> {}, errors |-> {"DuplicateRequest"}],
     [http |-> 429, ids |-> {}, errors |-> {}], [http |-> 500, ids |-> {}, errors |-> {}]}

\* A write that was applied may be confirmed without its ids (an empty body),
\* or with the errors of the legs and related orders that were not applied.
Confirmations(ids) ==
    {[http |-> 200, ids |-> ids, errors |-> {}], [http |-> 200, ids |-> {}, errors |-> {}]}
    \cup (IF ids = {} THEN {} ELSE {[http |-> 200, ids |-> ids, errors |-> {"Rejected"}]})

Answer(replies) ==
    /\ stage = "sent"
    /\ stage' = "answered"
    /\ response' \in replies
    /\ UNCHANGED <<environment, class, target, results, intended, writes>>

BrokerRefuses ==
    /\ Answer(Refusals(target) \cup Unresolved(target))
    /\ UNCHANGED <<removed, broker>>

\* The broker takes the orders of a placement on.
Accept(ids) ==
    /\ class = "place"
    /\ ids # {} /\ ids \cap created = {}
    /\ placements' = placements \cup {ids}
    /\ denied' = IF response' \in Denials THEN denied \cup {ids} ELSE denied
    /\ UNCHANGED removed

\* A placement creates an order, with its related orders.
BrokerPlaces(ids) ==
    /\ Answer(Confirmations(ids) \cup Unresolved(ids) \cup Denials)
    /\ Accept(ids)
    /\ book' = book \cup ids
    /\ UNCHANGED deferred

BrokerDefers(ids) ==
    /\ Answer(Unresolved(ids) \cup Denials)
    /\ Accept(ids)
    /\ deferred' = deferred \cup ids
    /\ UNCHANGED book

\* A cancellation by id names its orders; one by instrument takes all of them.
\* A modification leaves the book as it is.
BrokerChanges ==
    /\ class # "place"
    /\ LET gone == IF class = "cancel" THEN target \cap book
                   ELSE IF class = "modify" THEN {} ELSE book IN
       /\ class = "cancel" => target \subseteq book
       /\ Answer(Confirmations(IF class = "modify" THEN target ELSE gone)
                 \cup Unresolved(target) \cup Denials)
       /\ removed' = gone
       /\ book' = book \ gone
    /\ UNCHANGED <<deferred, placements, denied>>

\* An open order fills or expires; a deferred one reaches the book or is dropped.
BrokerMoves(o) ==
    /\ \/ o \in book /\ book' = book \ {o} /\ UNCHANGED deferred
       \/ o \in deferred /\ book' = book \cup {o} /\ deferred' = deferred \ {o}
       \/ o \in deferred /\ deferred' = deferred \ {o} /\ UNCHANGED book
    /\ UNCHANGED <<environment, tool, intended, writes, placements, denied>>

(* The tool after the send: parse, read back, report. *)

FinishWrite(rb) ==
    LET result == IF response = NetworkError THEN Indeterminate(class)
                  ELSE Reported(class, response, rb) IN
    /\ stage = "answered"
    /\ stage' = "idle"
    /\ results' = [results EXCEPT ![class] = result]
    /\ intended' = (/\ intended
                    /\ class = "place" =>
                         ~result.mutation_may_have_occurred /\ ~result.retry_unsafe)
    /\ UNCHANGED <<environment, class, target, response, removed, writes, broker>>

Next ==
    \/ PlaceOrder
    \/ \E c \in WriteClass \ {"place"}, ids \in SUBSET created : ChangeOrder(c, ids)
    \/ BrokerRefuses
    \/ \E ids \in SUBSET OrderId : BrokerPlaces(ids) \/ BrokerDefers(ids)
    \/ BrokerChanges
    \/ \E o \in OrderId : BrokerMoves(o)
    \/ \E rb \in Readback : FinishWrite(rb)

Spec == Init /\ [][Next]_vars

-----------------------------------------------------------------------------
(* What must hold. *)

\* Type correctness: the tool's record of the write and the broker's orders.
TypeOK ==
    /\ environment \in Environment
    /\ stage \in {"idle", "sent", "answered"}
    /\ class \in WriteClass
    /\ target \subseteq OrderId /\ removed \subseteq OrderId
    /\ response \in Response \cup {NetworkError}
    /\ results \in [WriteClass -> Result]
    /\ intended \in BOOLEAN
    /\ writes \in 0..MaxWrites
    /\ placements \subseteq SUBSET OrderId /\ denied \subseteq placements
    /\ book \subseteq created /\ deferred \subseteq created

\* An agent that retries only when the report says that nothing may have happened
\* and a retry is safe (mutation_may_have_occurred, retry_unsafe) places its order at
\* most once, whatever answers are lost, late, partial or deferred; a second order
\* follows only a placement that the broker applied and answered with a refusal.
NoDoubleOrder == \A p, q \in placements \ denied : p = q

\* A rate limit met after the write boundary is not reported as a placement that never
\* happened: status-recovery.md:63, row `rate_limited', mutation possible "true".
RateLimitedMayHaveMutated ==
    LET r == results["place"] IN
    stage = "idle" /\ class = "place" /\ r.status = "rate_limited" /\ created # {} =>
        r.mutation_may_have_occurred \/ r.retry_unsafe

\* An order that is still open when its place call has returned is never reported
\* completed; in SIM the report carries handles to cancel it or says that the
\* state must be reconciled (cleanup_status, order-lifecycle.md:113-115).  The orders of
\* a placement that the broker answered with a refusal are excepted.
NoOrphanOrder ==
    LET r == results["place"] IN
    stage = "idle" /\ class = "place" /\ book \cap UNION (placements \ denied) # {} =>
        /\ r.status # "completed"
        /\ r.mutation_may_have_occurred
        /\ \/ r.safe_order_selectors # {}
           \/ r.cleanup_requires_reconciliation
           \/ r.retry_unsafe
           \/ environment = "LIVE"

\* A cancellation reported as done took at least one order out of the book, and
\* none of the orders it names is open or can come back: order-lifecycle.md, Saxo
\* "can return empty success when no order matched" (_order_cancelled_flag).
CancelledIsGone ==
    \A c \in {"cancel", "cancel-by-instrument"} :
        stage = "idle" /\ class = c /\ results[c].order_cancelled = "yes" =>
            removed # {} /\ (target \cup removed) \cap (book \cup deferred) = {}
=============================================================================
