------------------------ MODULE OrderWriteOutcome_proofs ------------------------
(***************************************************************************)
(* Proofs about OrderWriteOutcome, for any set of order ids and any number *)
(* of writes.                                                              *)
(***************************************************************************)
EXTENDS OrderWriteOutcome, TLAPS

-----------------------------------------------------------------------------
(* The tables, for every response and readback. *)

\* Every response gets one of the five outcomes.
LEMMA OutcomeType == ASSUME NEW r \in Response PROVE OutcomeOf(r) \in Outcome
BY DEF OutcomeOf, Outcome

\* A report is a tool result.
LEMMA ReportType ==
    ASSUME NEW c \in WriteClass, NEW r \in Response, NEW rb \in Readback,
           book \subseteq OrderId
    PROVE  Reported(c, r, rb) \in Result
<1>1. OutcomeOf(r) \in Outcome
  BY OutcomeType
<1>2. ExecutionStatus(c, r) \in Outcome \cup {"completed", "completed_unverified"}
  BY <1>1 DEF ExecutionStatus
<1>3. \A cleanup : StatusWithCleanup(ExecutionStatus(c, r), cleanup)
                     \in Outcome \cup {"completed", "completed_unverified"}
  BY <1>2 DEF StatusWithCleanup
<1>4. OrderCancelled(c, r) \in {"yes", "no", "unknown"}
  BY DEF OrderCancelled
<1>5. NeedsReadback(r) \in BOOLEAN
  BY DEF NeedsReadback, PartialSuccess, UnknownState, Duplicate
<1>6. r.ids \subseteq OrderId
  BY DEF Response
<1>7. QED BY <1>1, <1>3, <1>4, <1>5, <1>6 DEF Reported, Result, EmitsHandles

\* Whatever the broker answers is a response, or nothing.
LEMMA AnswerType ==
    ASSUME NEW ids \in SUBSET OrderId
    PROVE  Refusals(ids) \cup Unresolved(ids) \cup Confirmations(ids) \cup Denials
             \subseteq Response \cup {NetworkError}
<1>1. Refusals(ids) \subseteq Response
  BY DEF Refusals, Response, HttpStatus, ErrorCode
<1>2. Unresolved(ids) \subseteq Response \cup {NetworkError}
  BY DEF Unresolved, Response, HttpStatus, ErrorCode
<1>3. Confirmations(ids) \subseteq Response
  BY DEF Confirmations, Response, HttpStatus, ErrorCode
<1>4. Denials \subseteq Response
  BY AmbiguousAssumption DEF Denials, Response
<1>5. QED BY <1>1, <1>2, <1>3, <1>4

-----------------------------------------------------------------------------
(* Type correctness. *)

LEMMA TypeStep == ASSUME TypeOK, [Next]_vars PROVE TypeOK'
<1> USE TypeOK, WritesAssumption DEF TypeOK
<1>0. book \subseteq OrderId
  BY DEF created
<1>1. CASE PlaceOrder
  BY <1>1 DEF PlaceOrder, Send, broker, WriteClass, created
<1>2. ASSUME NEW c \in WriteClass \ {"place"}, NEW ids \in SUBSET created,
             ChangeOrder(c, ids) PROVE TypeOK'
  BY <1>2 DEF ChangeOrder, Send, broker, created
<1>3. CASE BrokerRefuses
  <2>1. response' \in Response \cup {NetworkError}
    BY <1>3, AnswerType DEF BrokerRefuses, Answer
  <2>2. QED BY <1>3, <2>1 DEF BrokerRefuses, Answer, broker, created
<1>4. ASSUME NEW ids \in SUBSET OrderId, BrokerPlaces(ids) PROVE TypeOK'
  <2>1. response' \in Response \cup {NetworkError}
    BY <1>4, AnswerType DEF BrokerPlaces, Answer
  <2>2. placements' \subseteq SUBSET OrderId /\ denied' \subseteq placements'
    BY <1>4 DEF BrokerPlaces, Accept
  <2>3. created' = created \cup ids
    BY <1>4 DEF BrokerPlaces, Accept, created
  <2>4. QED BY <1>4, <2>1, <2>2, <2>3 DEF BrokerPlaces, Answer, Accept
<1>5. ASSUME NEW ids \in SUBSET OrderId, BrokerDefers(ids) PROVE TypeOK'
  <2>1. response' \in Response \cup {NetworkError}
    BY <1>5, AnswerType DEF BrokerDefers, Answer
  <2>2. placements' \subseteq SUBSET OrderId /\ denied' \subseteq placements'
    BY <1>5 DEF BrokerDefers, Accept
  <2>3. created' = created \cup ids
    BY <1>5 DEF BrokerDefers, Accept, created
  <2>4. QED BY <1>5, <2>1, <2>2, <2>3 DEF BrokerDefers, Answer, Accept
<1>6. CASE BrokerChanges
  <2> DEFINE gone == IF class = "cancel" THEN target \cap book
                     ELSE IF class = "modify" THEN {} ELSE book
             named == IF class = "modify" THEN target ELSE gone
  <2>1. /\ Answer(Confirmations(named) \cup Unresolved(target) \cup Denials)
        /\ removed' = gone /\ book' = book \ gone
        /\ UNCHANGED <<deferred, placements, denied>>
    BY <1>6 DEF BrokerChanges
  <2>2. gone \subseteq OrderId /\ named \subseteq OrderId
    BY <1>0
  <2> HIDE DEF gone, named
  <2>3. response' \in Response \cup {NetworkError}
    BY <2>1, <2>2, AnswerType DEF Answer
  <2>4. QED BY <2>1, <2>2, <2>3 DEF Answer, created
<1>7. ASSUME NEW o \in OrderId, BrokerMoves(o) PROVE TypeOK'
  BY <1>7 DEF BrokerMoves, tool, created
<1>8. ASSUME NEW rb \in Readback, FinishWrite(rb) PROVE TypeOK'
  <2> DEFINE result == IF response = NetworkError THEN Indeterminate(class)
                       ELSE Reported(class, response, rb)
  <2>1. Indeterminate(class) \in Result
    BY DEF Indeterminate, NoResult, Result
  <2>2. result \in Result
    BY <1>0, <2>1, ReportType
  <2>3. results' = [results EXCEPT ![class] = result] /\ intended' \in BOOLEAN
    BY <1>8 DEF FinishWrite
  <2> HIDE DEF result
  <2>4. QED BY <1>8, <2>2, <2>3 DEF FinishWrite, broker, created
<1>9. CASE UNCHANGED vars
  BY <1>9 DEF vars, tool, broker, created
<1>10. QED
  BY <1>1, <1>2, <1>3, <1>4, <1>5, <1>6, <1>7, <1>8, <1>9 DEF Next

\* The tool's record and the broker's orders keep their types.
THEOREM TypeCorrect == Spec => []TypeOK
<1>1. Init => TypeOK
  BY WritesAssumption DEF Init, TypeOK, WriteClass, NoResult, Result, created
<1>2. QED BY <1>1, TypeStep, PTL DEF Spec

-----------------------------------------------------------------------------
(* Placements. *)

\* A report that admits the placement and does not close it.
Admits(r) ==
    /\ r.mutation_may_have_occurred
    /\ \/ r.safe_order_selectors # {}
       \/ r.cleanup_requires_reconciliation
       \/ r.retry_unsafe
       \/ environment = "LIVE"

\* While the agent still wants its order, the broker has only denied ones; an answer
\* to a placement that was applied and not denied is a confirmation or leaves the
\* outcome open; and once reported, that placement is admitted, and completed only
\* when nothing of it is left.
PlaceInv ==
    /\ NoDoubleOrder
    /\ {} \notin placements
    /\ book \cap deferred = {}
    /\ class = "place" /\ stage # "idle" => intended
    /\ intended /\ ~(class = "place" /\ stage = "answered") => placements \subseteq denied
    /\ class = "place" /\ stage = "answered" => \A p \in placements \ denied :
           \/ response \in Unresolved(p)
           \/ response \in Confirmations(p) /\ p \cap deferred = {}
    /\ class = "place" /\ stage = "idle" => \A p \in placements \ denied :
           /\ results["place"].status = "completed" => p \cap (book \cup deferred) = {}
           /\ results["place"].status = "completed" \/ Admits(results["place"])
           /\ results["place"].mutation_may_have_occurred

\* How an answer to a placement that was applied is parsed.
LEMMA AppliedOutcome ==
    ASSUME NEW ids \in SUBSET OrderId, ids # {},
           NEW r \in Unresolved(ids) \cup Confirmations(ids), r # NetworkError
    PROVE  \/ OutcomeOf(r) \in {"unknown_state", "partial_success"} /\ NeedsReadback(r)
           \/ OutcomeOf(r) = "success" /\ r.ids = {}
           \/ OutcomeOf(r) = "success" /\ r = [http |-> 200, ids |-> ids, errors |-> {}]
<1> USE DEF NeedsReadback, OutcomeOf, PartialSuccess, UnknownState, Succeeded,
            UNKNOWN_STATE_ERROR_CODES
<1>1. CASE r = [http |-> 202, ids |-> {}, errors |-> {}]
  <2>1. r.http = 202
    BY <1>1
  <2>2. QED BY <2>1
<1>2. CASE r = [http |-> 202, ids |-> ids, errors |-> {}]
  <2>1. r.http = 202
    BY <1>2
  <2>2. QED BY <2>1
<1>3. CASE r = [http |-> 400, ids |-> {}, errors |-> {"TradeNotCompleted"}]
  <2>1. r.http # 429 /\ "TradeNotCompleted" \in r.errors
    BY <1>3
  <2>2. QED BY <2>1
<1>4. CASE r = [http |-> 200, ids |-> {}, errors |-> {}]
  <2>1. r.http = 200 /\ r.ids = {} /\ r.errors = {}
    BY <1>4
  <2>2. QED BY <2>1
<1>5. CASE r = [http |-> 200, ids |-> ids, errors |-> {}]
  <2>1. r.http = 200 /\ r.ids = ids /\ r.errors = {}
    BY <1>5
  <2>2. QED BY <1>5, <2>1
<1>6. CASE r = [http |-> 200, ids |-> ids, errors |-> {"Rejected"}]
  <2>1. r.http = 200 /\ r.ids = ids /\ r.errors = {"Rejected"}
    BY <1>6
  <2>2. QED BY <2>1
<1>7. QED
  BY <1>1, <1>2, <1>3, <1>4, <1>5, <1>6 DEF Unresolved, Confirmations

\* An answer to a placement that was applied is reported as a mutation.
LEMMA AppliedIsAdmitted ==
    ASSUME NEW ids \in SUBSET OrderId, ids # {}, NEW rb \in Readback,
           NEW r \in Unresolved(ids) \cup Confirmations(ids), r # NetworkError,
           environment \in Environment
    PROVE  /\ Reported("place", r, rb).mutation_may_have_occurred
           /\ \/ Admits(Reported("place", r, rb))
              \/ /\ Reported("place", r, rb).status = "completed"
                 /\ r = [http |-> 200, ids |-> ids, errors |-> {}]
                 /\ ids \cap book = {}
           /\ Reported("place", r, rb).status = "completed" =>
                 r = [http |-> 200, ids |-> ids, errors |-> {}] /\ ids \cap book = {}
<1> DEFINE cleanup == CleanupStatus("place", r, rb, book)
           status == StatusWithCleanup(ExecutionStatus("place", r), cleanup)
           handles == EmitsHandles("place", r, cleanup)
<1>1. /\ Reported("place", r, rb).status = status
      /\ Reported("place", r, rb).mutation_may_have_occurred <=>
            OutcomeOf(r) \in {"success", "partial_success", "unknown_state"}
      /\ Reported("place", r, rb).retry_unsafe <=> NeedsReadback(r)
      /\ Reported("place", r, rb).safe_order_selectors = IF handles THEN r.ids ELSE {}
      /\ Reported("place", r, rb).cleanup_requires_reconciliation <=>
            /\ ~handles /\ environment = "SIM"
            /\ status \in {"partial_success", "unknown_state", "completed_unverified"}
  BY DEF Reported
<1>2. CASE OutcomeOf(r) \in {"unknown_state", "partial_success"} /\ NeedsReadback(r)
  <2>1. status # "completed"
    BY <1>2 DEF ExecutionStatus, StatusWithCleanup
  <2>2. QED BY <1>1, <1>2, <2>1 DEF Admits
<1>3. CASE OutcomeOf(r) = "success" /\ r.ids = {}
  <2>1. status = "completed_unverified" /\ ~handles
    BY <1>3 DEF ExecutionStatus, StatusWithCleanup, EmitsHandles, ORDER_ID_PROOF_REQUIRED_CLASSES
  <2>2. QED BY <1>1, <1>3, <2>1 DEF Admits, Environment
<1>4. CASE OutcomeOf(r) = "success" /\ r = [http |-> 200, ids |-> ids, errors |-> {}]
  <2>1. r.ids = ids /\ ExecutionStatus("place", r) = "completed"
    BY <1>4 DEF ExecutionStatus
  <2>2. CASE rb = "unusable"
    <3>1. status = "completed_unverified" /\ ~handles
      BY <1>4, <2>1, <2>2 DEF CleanupStatus, StatusWithCleanup, EmitsHandles
    <3>2. QED BY <1>1, <1>4, <3>1 DEF Admits, Environment
  <2>3. CASE rb = "valid" /\ ids \cap book # {}
    <3>1. status = "completed_unverified"
      BY <1>4, <2>1, <2>3 DEF CleanupStatus, StatusWithCleanup
    <3>2. handles <=> environment = "SIM"
      BY <1>4, <2>1, <2>3 DEF CleanupStatus, EmitsHandles
    <3>3. QED BY <1>1, <1>4, <2>1, <3>1, <3>2 DEF Admits, Environment
  <2>4. CASE rb = "valid" /\ ids \cap book = {}
    <3>1. status = "completed"
      BY <1>4, <2>1, <2>4 DEF CleanupStatus, StatusWithCleanup
    <3>2. QED BY <1>1, <1>4, <2>4, <3>1
  <2>5. QED BY <2>2, <2>3, <2>4 DEF Readback
<1>5. QED BY <1>2, <1>3, <1>4, AppliedOutcome

LEMMA PlaceStep == ASSUME TypeOK, PlaceInv, [Next]_vars PROVE PlaceInv'
<1> USE TypeOK, PlaceInv DEF TypeOK, PlaceInv, NoDoubleOrder
<1>1. CASE PlaceOrder
  BY <1>1 DEF PlaceOrder, Send, broker
<1>2. ASSUME NEW c \in WriteClass \ {"place"}, NEW ids \in SUBSET created,
             ChangeOrder(c, ids) PROVE PlaceInv'
  BY <1>2 DEF ChangeOrder, Send, broker
<1>3. CASE BrokerRefuses
  BY <1>3 DEF BrokerRefuses, Answer, broker
<1>4. ASSUME NEW ids \in SUBSET OrderId, BrokerPlaces(ids) PROVE PlaceInv'
  <2>1. /\ class = "place" /\ stage = "sent" /\ placements \subseteq denied
        /\ ids # {} /\ ids \cap created = {}
        /\ response' \in Confirmations(ids) \cup Unresolved(ids) \cup Denials
        /\ placements' \ denied' \subseteq {ids}
        /\ placements' \ denied' # {} => response' \notin Denials
        /\ {} \notin placements'
    BY <1>4 DEF BrokerPlaces, Accept, Answer
  <2>2. ids \cap deferred = {}
    BY <2>1
  <2>3. QED BY <1>4, <2>1, <2>2 DEF BrokerPlaces, Accept, Answer
<1>5. ASSUME NEW ids \in SUBSET OrderId, BrokerDefers(ids) PROVE PlaceInv'
  <2>1. /\ class = "place" /\ stage = "sent" /\ placements \subseteq denied
        /\ ids # {} /\ ids \cap created = {}
        /\ response' \in Unresolved(ids) \cup Denials
        /\ placements' \ denied' \subseteq {ids}
        /\ placements' \ denied' # {} => response' \notin Denials
        /\ {} \notin placements'
    BY <1>5 DEF BrokerDefers, Accept, Answer
  <2>2. ids \cap book = {}
    BY <2>1
  <2>3. QED BY <1>5, <2>1, <2>2 DEF BrokerDefers, Accept, Answer
<1>6. CASE BrokerChanges
  BY <1>6 DEF BrokerChanges, Answer
<1>7. ASSUME NEW o \in OrderId, BrokerMoves(o) PROVE PlaceInv'
  BY <1>7 DEF BrokerMoves, tool, Admits
<1>8. ASSUME NEW rb \in Readback, FinishWrite(rb) PROVE PlaceInv'
  <2>1. CASE class # "place"
    BY <1>8, <2>1 DEF FinishWrite, broker
  <2>2. CASE class = "place" /\ placements \subseteq denied
    BY <1>8, <2>2 DEF FinishWrite, broker
  <2>3. CASE class = "place" /\ ~(placements \subseteq denied) /\ response = NetworkError
    BY <1>8, <2>3 DEF FinishWrite, broker, Indeterminate, NoResult, Admits, WriteClass
  <2>4. CASE class = "place" /\ ~(placements \subseteq denied) /\ response # NetworkError
    <3> DEFINE rep == Reported("place", response, rb)
    <3>1. PICK p \in placements \ denied : TRUE
      BY <2>4
    <3>2. p \in SUBSET OrderId /\ p # {} /\ placements \ denied = {p}
      BY <3>1
    <3>3. /\ response \in Unresolved(p) \cup Confirmations(p)
          /\ response \in Unresolved(p) \/ p \cap deferred = {}
      BY <1>8, <2>4, <3>1 DEF FinishWrite
    <3>4. /\ rep.mutation_may_have_occurred
          /\ \/ Admits(rep)
             \/ rep.status = "completed"
          /\ rep.status = "completed" =>
               /\ response = [http |-> 200, ids |-> p, errors |-> {}]
               /\ p \cap book = {}
      BY <2>4, <3>2, <3>3, AppliedIsAdmitted
    <3>5. rep.status = "completed" => p \cap (book \cup deferred) = {}
      <4>1. ASSUME response = [http |-> 200, ids |-> p, errors |-> {}]
            PROVE  response \notin Unresolved(p)
        <5>1. response.http = 200 /\ response.ids # {} /\ response.errors = {}
          BY <3>2, <4>1
        <5>2. \A u \in Unresolved(p) : u = NetworkError \/ u.http # 200
          BY DEF Unresolved
        <5>3. QED BY <2>4, <5>1, <5>2
      <4>2. QED BY <3>3, <3>4, <4>1
    <3>6. results'["place"] = rep
      BY <1>8, <2>4 DEF FinishWrite
    <3> HIDE DEF rep
    <3>7. Admits(rep) => Admits(results["place"])'
      BY <1>8, <3>6 DEF FinishWrite, Admits
    <3>8. ~intended'
      BY <1>8, <2>4, <3>4 DEF FinishWrite, rep
    <3>9. QED BY <1>8, <2>4, <3>2, <3>4, <3>5, <3>6, <3>7, <3>8 DEF FinishWrite, broker
  <2>5. QED BY <2>1, <2>2, <2>3, <2>4
<1>9. CASE UNCHANGED vars
  BY <1>9 DEF vars, tool, broker, Admits
<1>10. QED
  BY <1>1, <1>2, <1>3, <1>4, <1>5, <1>6, <1>7, <1>8, <1>9 DEF Next

LEMMA PlaceInvariant == Spec => []PlaceInv
<1>1. Init => PlaceInv
  BY DEF Init, PlaceInv, NoDoubleOrder
<1>2. TypeOK /\ PlaceInv /\ [Next]_vars => PlaceInv'
  BY PlaceStep
<1>3. QED BY <1>1, <1>2, TypeCorrect, PTL DEF Spec

\* The order is placed at most once, but for placements that the broker applied and
\* answered with a refusal.
THEOREM OneOrder == Spec => []NoDoubleOrder
<1>1. PlaceInv => NoDoubleOrder
  BY DEF PlaceInv
<1>2. QED BY <1>1, PlaceInvariant, PTL

\* No open order, but for such a placement's, is left without a report that admits it.
THEOREM NoOrphan == Spec => []NoOrphanOrder
<1>1. TypeOK /\ PlaceInv => NoOrphanOrder
  BY DEF TypeOK, PlaceInv, NoOrphanOrder, Admits
<1>2. QED BY <1>1, TypeCorrect, PlaceInvariant, PTL

-----------------------------------------------------------------------------
(* Cancellations. *)

\* The orders of the write under way are out of the book for good.
Gone == removed # {} /\ (target \cup removed) \cap (book \cup deferred) = {}

\* An answer that will be reported as a cancellation comes from a broker that has
\* taken the orders out of the book.
CancelInv ==
    /\ book \cap deferred = {}
    /\ class = "cancel" /\ stage = "sent" => target # {}
    /\ class = "cancel-by-instrument" /\ stage = "sent" => target = {}
    /\ stage = "answered" /\ response # NetworkError
         /\ OrderCancelled(class, response) = "yes" => Gone
    /\ CancelledIsGone

\* No refusal, open or denying answer is reported as a cancellation.
LEMMA UnresolvedIsNoCancel ==
    ASSUME NEW ids \in SUBSET OrderId, NEW c \in WriteClass,
           NEW r \in Refusals(ids) \cup Unresolved(ids) \cup Denials, r # NetworkError
    PROVE  OrderCancelled(c, r) # "yes"
<1>1. \/ r.errors # {}
      \/ r.http = 202
      \/ r.http \notin {200, 202} /\ r.ids = {}
  BY AmbiguousAssumption DEF Refusals, Unresolved, Denials
<1>2. r.http \in HttpStatus
  BY AmbiguousAssumption DEF Refusals, Unresolved, Denials, HttpStatus
<1>3. OutcomeOf(r) # "success"
  BY <1>1, <1>2 DEF OutcomeOf, UnknownState, PartialSuccess, Succeeded, HttpStatus
<1>4. QED BY <1>3 DEF OrderCancelled

\* A confirmation reported as a cancellation names no error, and its orders when it
\* is by instrument.
LEMMA CancelConfirmation ==
    ASSUME NEW ids \in SUBSET OrderId, NEW c \in WriteClass, NEW r \in Confirmations(ids),
           OrderCancelled(c, r) = "yes"
    PROVE  c \in {"cancel", "cancel-by-instrument"} /\ (c = "cancel-by-instrument" => ids # {})
<1>1. r.ids # {} => ids # {}
  BY DEF Confirmations
<1>2. QED BY <1>1 DEF OrderCancelled

LEMMA CancelStep ==
    ASSUME TypeOK, CancelInv, [Next]_vars PROVE CancelInv'
<1> USE TypeOK, CancelInv DEF TypeOK, CancelInv, CancelledIsGone, Gone
<1>0. book \subseteq OrderId
  BY DEF created
<1>1. CASE PlaceOrder
  BY <1>1 DEF PlaceOrder, Send, broker
<1>2. ASSUME NEW c \in WriteClass \ {"place"}, NEW ids \in SUBSET created,
             ChangeOrder(c, ids) PROVE CancelInv'
  BY <1>2 DEF ChangeOrder, Send, broker
<1>3. CASE BrokerRefuses
  <2>1. response' # NetworkError => OrderCancelled(class, response') # "yes"
    BY <1>3, UnresolvedIsNoCancel DEF BrokerRefuses, Answer
  <2>2. QED BY <1>3, <2>1 DEF BrokerRefuses, Answer, broker
<1>4. ASSUME NEW ids \in SUBSET OrderId, BrokerPlaces(ids) PROVE CancelInv'
  BY <1>4 DEF BrokerPlaces, Accept, Answer, OrderCancelled
<1>5. ASSUME NEW ids \in SUBSET OrderId, BrokerDefers(ids) PROVE CancelInv'
  BY <1>5 DEF BrokerDefers, Accept, Answer, OrderCancelled
<1>6. CASE BrokerChanges
  <2> DEFINE gone == IF class = "cancel" THEN target \cap book
                     ELSE IF class = "modify" THEN {} ELSE book
             named == IF class = "modify" THEN target ELSE gone
  <2>1. /\ Answer(Confirmations(named) \cup Unresolved(target) \cup Denials)
        /\ removed' = gone /\ book' = book \ gone
        /\ class = "cancel" => target \subseteq book
        /\ class # "place" /\ stage = "sent"
        /\ UNCHANGED <<deferred, placements, denied>>
    BY <1>6 DEF BrokerChanges, Answer
  <2>2. named \in SUBSET OrderId
    BY <1>0
  <2>3. ASSUME response' # NetworkError, OrderCancelled(class, response') = "yes"
        PROVE  class \in {"cancel", "cancel-by-instrument"} /\ named # {}
    <3>1. response' \in Confirmations(named)
      BY <2>1, <2>3, UnresolvedIsNoCancel DEF Answer
    <3> HIDE DEF named
    <3>2. /\ class \in {"cancel", "cancel-by-instrument"}
          /\ class = "cancel-by-instrument" => named # {}
      BY <2>2, <2>3, <3>1, CancelConfirmation
    <3> USE DEF named
    <3>3. QED BY <2>1, <3>2
  <2>4. ASSUME class \in {"cancel", "cancel-by-instrument"}, named # {} PROVE Gone'
    BY <2>1, <2>4 DEF Answer
  <2>5. QED BY <2>1, <2>3, <2>4 DEF Answer
<1>7. ASSUME NEW o \in OrderId, BrokerMoves(o) PROVE CancelInv'
  BY <1>7 DEF BrokerMoves, tool
<1>8. ASSUME NEW rb \in Readback, FinishWrite(rb) PROVE CancelInv'
  <2>1. Indeterminate(class).order_cancelled # "yes"
    BY DEF Indeterminate, NoResult
  <2>2. Reported(class, response, rb).order_cancelled = OrderCancelled(class, response)
    BY DEF Reported
  <2>3. stage = "answered" /\ stage' = "idle"
        /\ results'[class].order_cancelled =
             IF response = NetworkError THEN Indeterminate(class).order_cancelled
             ELSE OrderCancelled(class, response)
    BY <1>8, <2>2 DEF FinishWrite
  <2>4. QED BY <1>8, <2>1, <2>3 DEF FinishWrite, broker
<1>9. CASE UNCHANGED vars
  BY <1>9 DEF vars, tool, broker
<1>10. QED
  BY <1>1, <1>2, <1>3, <1>4, <1>5, <1>6, <1>7, <1>8, <1>9 DEF Next

\* A cancellation reported as done is done.
THEOREM Cancelled == Spec => []CancelledIsGone
<1>1. Init => CancelInv
  BY DEF Init, CancelInv, CancelledIsGone
<1>2. TypeOK /\ CancelInv /\ [Next]_vars => CancelInv'
  BY CancelStep
<1>3. CancelInv => CancelledIsGone
  BY DEF CancelInv
<1>4. QED BY <1>1, <1>2, <1>3, TypeCorrect, PTL DEF Spec
=============================================================================
