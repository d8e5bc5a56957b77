------------------------ MODULE TradingWriteGateway_proofs ------------------------
(***************************************************************************)
(* Proofs about TradingWriteGateway, for any number of tokens, requests,   *)
(* worker threads, coroutines and settings.                                *)
(***************************************************************************)
EXTENDS TradingWriteGateway, TLAPS

\* What a client is told about a response is a report.
LEMMA ReportType ==
    ASSUME NEW r, NEW http \in HttpStatus, NEW error \in ErrorState
    PROVE  ResponseReport(r, http, error) \in Report
<1>1. ResponseStatus(http, error) \in Status
  <2>1. CASE http = 202
    BY <2>1 DEF ResponseStatus, Status
  <2>2. CASE http = 200
    BY <2>2 DEF ResponseStatus, Status, ErrorState
  <2>3. CASE http \in HttpStatus \ {200, 202}
    BY <2>3 DEF ResponseStatus, Status, HttpStatus
  <2>4. QED BY <2>1, <2>2, <2>3 DEF HttpStatus
<1>2. RetryUnsafe(r, http) \in BOOLEAN
  BY DEF RetryUnsafe
<1>3. QED BY <1>1, <1>2 DEF ResponseReport, Report

\* The type of the shared dictionaries is kept by every step.
LEMMA TypeStep == ASSUME TypeOK, [Next]_vars PROVE TypeOK'
<1> USE TypeOK, ConfigAssumption, CallerAssumption, TokenAssumption, TimeAssumption,
        PreviewAssumption DEF TypeOK, Caller
<1>1. ASSUME NEW c \in Thread, NEW r \in Request, NEW t \in Token, StorePreview(c, r, t)
      PROVE  TypeOK'
  <2>1. config.environment \in Environment
    BY DEF SafetyConfig
  <2>2. previews' \in [Token -> PreparedTradingWrite \cup {NoPreview}]
    BY <1>1, <2>1 DEF StorePreview, PreparedTradingWrite
  <2>3. QED BY <1>1, <2>2 DEF StorePreview
<1>2. ASSUME NEW c \in Thread, HandOut(c) PROVE TypeOK'
  BY <1>2 DEF HandOut, Return
<1>3. ASSUME NEW c \in Thread, PrepareFails(c) PROVE TypeOK'
  BY <1>3 DEF PrepareFails, Return, world
<1>4. ASSUME NEW c \in Task, NEW t \in Token, NEW stmt \in Token \cup {NoToken},
             ExecuteWrite(c, t, stmt) PROVE TypeOK'
  BY <1>4 DEF ExecuteWrite, world
<1>5. ASSUME NEW c \in Task, SendWrite(c) PROVE TypeOK'
  BY <1>5 DEF SendWrite
<1>6. ASSUME NEW c \in Task, NetworkFails(c) PROVE TypeOK'
  BY <1>6 DEF NetworkFails, Return, NetworkReport, Report, Status
<1>7. ASSUME NEW c \in Task, NEW http \in HttpStatus, NEW error \in ErrorState,
             ReceiveResponse(c, http, error) PROVE TypeOK'
  BY <1>7, ReportType DEF ReceiveResponse, Return
<1>8. ASSUME NEW t \in Token, BrokerApplies(t) PROVE TypeOK'
  BY <1>8 DEF BrokerApplies, callers
<1>10. ASSUME NEW cfg \in Config, Reconfigure(cfg) PROVE TypeOK'
  BY <1>10 DEF Reconfigure, callers, world
<1>11. ASSUME NEW cfg \in Config, Restart(cfg) PROVE TypeOK'
  BY <1>11 DEF Restart, world
<1>12. CASE Tick
  BY <1>12 DEF Tick, callers, world
<1>13. CASE UNCHANGED vars
  BY <1>13 DEF vars, callers, world
<1>14. QED
  BY <1>1, <1>2, <1>3, <1>4, <1>5, <1>6, <1>7, <1>8, <1>10, <1>11, <1>12, <1>13
     DEF Next

\* The type of the shared dictionaries holds in every reachable state.
THEOREM TypeCorrect == Spec => []TypeOK
<1>1. Init => TypeOK
  BY ConfigAssumption, TokenAssumption DEF Init, TypeOK
<1>2. QED BY <1>1, TypeStep, PTL DEF Spec

-----------------------------------------------------------------------------
(* The inductive invariant. *)

\* Between its checks and its await a coroutine has the loop.
LoopInv == \A c \in Caller : pc[c] = "send" => c \in Task /\ loop = c

\* A token is generated before it is stored, handed out, spent and sent, and a
\* LIVE preview's statement is its own.
OrderInv ==
    \A t \in Token :
        /\ previews[t] # NoPreview => t \in issued
        /\ previews[t] # NoPreview /\ previews[t].environment = "LIVE" =>
               previews[t].statement = t
        /\ t \in handed => t \in issued
        /\ t \in consumed => t \in handed
        /\ sent[t] <= 1
        /\ sent[t] > 0 => t \in handed /\ (previews[t] # NoPreview => t \in consumed)

\* A caller holds tokens that were generated, and the one of a preview that is being
\* prepared is known to its thread alone.
PrepareInv ==
    /\ \A c \in Caller : pc[c] # "idle" => held[c] \in issued
    /\ \A c \in Caller : pc[c] = "stored" =>
           /\ c \in Thread
           /\ previews[held[c]] # NoPreview
           /\ held[c] \notin handed
           /\ \A d \in Caller \ {c} : held[d] # held[c]

\* A coroutine about to send has spent its token, and the settings it checked are
\* still those of the process.
SendInv ==
    \A c \in Caller : pc[c] = "send" =>
        /\ held[c] \in consumed /\ sent[held[c]] = 0
        /\ previews[held[c]] # NoPreview
        /\ Permitted(config, previews[held[c]].request)
        /\ previews[held[c]].environment = config.environment
        /\ config.environment = "LIVE" => held[c] \in given

GatewayInv == LoopInv /\ OrderInv /\ PrepareInv /\ SendInv

LEMMA GatewayInit == Init => GatewayInv
BY TokenAssumption DEF Init, GatewayInv, LoopInv, OrderInv, PrepareInv, SendInv

LEMMA GatewayStep == ASSUME TypeOK, GatewayInv, [Next]_vars PROVE GatewayInv'
<1> USE TypeOK, GatewayInv, CallerAssumption, TokenAssumption, PreviewAssumption
    DEF TypeOK, Caller, GatewayInv, LoopInv, OrderInv, PrepareInv, SendInv
<1>1. ASSUME NEW c \in Thread, NEW r \in Request, NEW t \in Token, StorePreview(c, r, t)
      PROVE  GatewayInv'
  <2>1. previews'[t] # NoPreview
    <3>1. config.environment \in Environment
      BY ConfigAssumption DEF SafetyConfig
    <3>2. previews'[t] \in PreparedTradingWrite
      BY <1>1, <3>1, TimeAssumption DEF StorePreview, PreparedTradingWrite
    <3>3. QED BY <3>2
  <2>2. \A d \in Caller : held[d] # t
    BY <1>1 DEF StorePreview
  <2>3. QED BY <1>1, <2>1, <2>2 DEF StorePreview
<1>2. ASSUME NEW c \in Thread, HandOut(c) PROVE GatewayInv'
  BY <1>2 DEF HandOut, Return
<1>3. ASSUME NEW c \in Thread, PrepareFails(c) PROVE GatewayInv'
  BY <1>3 DEF PrepareFails, Return, world
<1>4. ASSUME NEW c \in Task, NEW t \in Token, NEW stmt \in Token \cup {NoToken},
             ExecuteWrite(c, t, stmt) PROVE GatewayInv'
  BY <1>4 DEF ExecuteWrite, NoDenial, world
<1>5. ASSUME NEW c \in Task, SendWrite(c) PROVE GatewayInv'
  BY <1>5 DEF SendWrite
<1>6. ASSUME NEW c \in Task, NetworkFails(c) PROVE GatewayInv'
  BY <1>6 DEF NetworkFails, Return
<1>7. ASSUME NEW c \in Task, NEW http \in HttpStatus, NEW error \in ErrorState,
             ReceiveResponse(c, http, error) PROVE GatewayInv'
  BY <1>7 DEF ReceiveResponse, Return
<1>8. ASSUME NEW t \in Token, BrokerApplies(t) PROVE GatewayInv'
  BY <1>8 DEF BrokerApplies, callers
<1>10. ASSUME NEW cfg \in Config, Reconfigure(cfg) PROVE GatewayInv'
  BY <1>10 DEF Reconfigure, callers, world
<1>11. ASSUME NEW cfg \in Config, Restart(cfg) PROVE GatewayInv'
  BY <1>11 DEF Restart, world
<1>12. CASE Tick
  BY <1>12 DEF Tick, callers, world
<1>13. CASE UNCHANGED vars
  BY <1>13 DEF vars, callers, world
<1>14. QED
  BY <1>1, <1>2, <1>3, <1>4, <1>5, <1>6, <1>7, <1>8, <1>10, <1>11, <1>12, <1>13
     DEF Next

LEMMA GatewayInvariant == Spec => [](TypeOK /\ GatewayInv)
<1>1. TypeOK /\ GatewayInv /\ [Next]_vars => GatewayInv'
  BY GatewayStep
<1>2. QED BY <1>1, GatewayInit, TypeCorrect, PTL DEF Spec

\* No write leaves while the settings of that moment forbid it, under another
\* environment, or without its own LIVE approval.
THEOREM SendsPermitted == Spec => NoSendWhileBlocked
<1> DEFINE A == \A t \in Token : sent'[t] # sent[t] =>
                    /\ Permitted(config, previews[t].request)
                    /\ previews[t].environment = config.environment
                    /\ config.environment = "LIVE" => t \in given
<1>1. ASSUME TypeOK, GatewayInv, [Next]_vars PROVE [A]_vars
  <2>1. ASSUME NEW c \in Task, SendWrite(c) PROVE A
    BY <1>1, <2>1 DEF SendWrite, GatewayInv, SendInv, TypeOK, Caller
  <2>2. CASE UNCHANGED sent
    BY <2>2
  <2>3. QED
    BY <1>1, <2>1, <2>2 DEF Next, StorePreview, HandOut, PrepareFails, ExecuteWrite,
       NetworkFails, ReceiveResponse, BrokerApplies, Reconfigure, Restart,
       Tick, world, vars
<1>2. QED BY <1>1, GatewayInvariant, PTL DEF Spec, NoSendWhileBlocked

-----------------------------------------------------------------------------
(* Reports. *)

\* A write is not both refused and carried out, and a report that calls a money-moving
\* write impossible and safe to retry comes from a refusal or a rate limit.
ReportInv ==
    \A t \in Token :
        /\ report[t] # NoReport => t \in issued
        /\ t \in refused => t \notin applied
        /\ report[t] # NoReport /\ previews[t] # NoPreview
             /\ previews[t].request \in MoneyMoving =>
               \/ report[t].mutation_may_have_occurred
               \/ report[t].retry_unsafe
               \/ report[t].status = "rate_limited"
               \/ t \in refused

\* Only a refusal or a rate limit is reported safe to retry.
LEMMA SafeIsRefusal ==
    ASSUME NEW http \in HttpStatus, NEW error,
           NEW r \in MoneyMoving, ~ResponseReport(r, http, error).retry_unsafe
    PROVE  \/ http \in Refusal
           \/ ResponseReport(r, http, error).status = "rate_limited"
<1>1. ~RetryUnsafe(r, http)
  BY DEF ResponseReport
<1>2. http \in {401, 403, 429}
  BY <1>1 DEF RetryUnsafe
<1>3. http = 429 => ResponseStatus(http, error) = "rate_limited"
  BY DEF ResponseStatus
<1>4. QED BY <1>2, <1>3 DEF Refusal, ResponseReport

\* No money-moving write that was carried out is reported as impossible and safe to
\* retry, unless its answer was a rate limit.
THEOREM SafeRetry == Spec => []SafeRetryUnapplied
<1>1. Init => ReportInv
  BY DEF Init, ReportInv
<1>2. ASSUME TypeOK, GatewayInv, ReportInv, [Next]_vars PROVE ReportInv'
  <2> USE <1>2, CallerAssumption, TokenAssumption, PreviewAssumption
      DEF TypeOK, Caller, ReportInv, GatewayInv, PrepareInv
  <2>1. ASSUME NEW c \in Thread, NEW r \in Request, NEW t \in Token, StorePreview(c, r, t)
        PROVE  ReportInv'
    <3>1. report[t] = NoReport
      BY <2>1 DEF StorePreview
    <3>2. QED BY <2>1, <3>1 DEF StorePreview
  <2>2. ASSUME NEW c \in Task, NetworkFails(c) PROVE ReportInv'
    BY <2>2 DEF NetworkFails, NetworkReport
  <2>3. ASSUME NEW c \in Task, NEW http \in HttpStatus, NEW error \in ErrorState,
               ReceiveResponse(c, http, error) PROVE ReportInv'
    <3>1. PICK t \in Token : t = held[c]
      BY <2>3 DEF ReceiveResponse
    <3>2. /\ report' = [report EXCEPT ![t] =
                ResponseReport(previews[t].request, http, error)]
          /\ previews' = previews /\ applied' = applied
          /\ refused' = IF http \in Refusal THEN refused \cup {t} ELSE refused
          /\ t \in applied => http \notin Refusal
      BY <2>3, <3>1 DEF ReceiveResponse
    <3>3. previews[t] # NoPreview /\ previews[t].request \in MoneyMoving =>
             \/ report'[t].retry_unsafe
             \/ report'[t].status = "rate_limited"
             \/ t \in refused'
      <4>1. report'[t] = ResponseReport(previews[t].request, http, error)
        BY <3>2
      <4>2. ASSUME previews[t].request \in MoneyMoving,
                   ~ResponseReport(previews[t].request, http, error).retry_unsafe
            PROVE  \/ http \in Refusal
                   \/ ResponseReport(previews[t].request, http, error).status = "rate_limited"
        BY <4>2, SafeIsRefusal
      <4>3. QED BY <3>2, <4>1, <4>2
    <3>4. t \in issued /\ issued' = issued
      BY <2>3, <3>1 DEF ReceiveResponse
    <3>5. QED BY <3>2, <3>3, <3>4
  <2>4. ASSUME NEW t \in Token, BrokerApplies(t) PROVE ReportInv'
    BY <2>4 DEF BrokerApplies, callers
  <2>5. ASSUME NEW cfg \in Config, Restart(cfg) PROVE ReportInv'
    BY <2>5 DEF Restart, world
  <2>6. CASE UNCHANGED <<previews, issued, report, applied, refused>>
    BY <2>6
  <2>7. QED
    BY <2>1, <2>2, <2>3, <2>4, <2>5, <2>6 DEF Next, HandOut, PrepareFails, ExecuteWrite,
       SendWrite, Reconfigure, Tick, world, vars
<1>3. ReportInv => SafeRetryUnapplied
  BY DEF ReportInv, SafeRetryUnapplied
<1>4. QED BY <1>1, <1>2, <1>3, GatewayInvariant, PTL DEF Spec

-----------------------------------------------------------------------------
(* The refinement. *)

\* A step that changes the status of one token only moves that token.
LEMMA OneMoves ==
    ASSUME NEW t \in Token, NEW from, NEW to,
           TokenStatus(t) = from, TokenStatus(t)' = to,
           \A u \in Token \ {t} : TokenStatus(u)' = TokenStatus(u)
    PROVE  OneShot!Move(t, from, to)
<1>1. TokenStatuses' = [TokenStatuses EXCEPT ![t] = to] /\ TokenStatuses[t] = from
  BY DEF TokenStatuses
<1>2. QED BY <1>1 DEF OneShot!Move

\* The gateway implements the one-shot token: handing a token out issues it, the
\* checks of execute_trading_write consume it, the send spends it.
THEOREM Refinement == Spec => ImplementsOneShotWrite
<1>1. Init => OneShot!Init
  BY DEF Init, OneShot!Init, TokenStatuses, TokenStatus
<1>2. ASSUME TypeOK, GatewayInv, [Next]_vars
      PROVE  [OneShot!Next]_<<TokenStatuses, sent>>
  <2> USE <1>2, CallerAssumption, TokenAssumption, PreviewAssumption
      DEF GatewayInv, LoopInv, OrderInv, PrepareInv, SendInv, TypeOK, Caller
  <2> DEFINE Stutter == UNCHANGED <<TokenStatuses, sent>>
  <2>1. ASSUME NEW c \in Thread, HandOut(c) PROVE OneShot!Next
    <3>1. PICK t \in Token : t = held[c]
      BY <2>1 DEF HandOut
    <3>2. /\ previews[t] # NoPreview /\ t \notin handed /\ t \notin consumed /\ sent[t] = 0
          /\ handed' = handed \cup {t}
          /\ UNCHANGED <<previews, consumed, sent>>
      BY <2>1, <3>1 DEF HandOut
    <3>3. TokenStatus(t) = "unissued"
      BY <3>2 DEF TokenStatus
    <3>4. TokenStatus(t)' = "pending"
      BY <3>2 DEF TokenStatus
    <3>5. \A u \in Token \ {t} : TokenStatus(u)' = TokenStatus(u)
      BY <3>2 DEF TokenStatus
    <3>6. OneShot!Issue(t)
      BY <3>2, <3>3, <3>4, <3>5, OneMoves DEF OneShot!Issue
    <3>7. QED BY <3>6 DEF OneShot!Next
  <2>2. ASSUME NEW c \in Task, NEW t \in Token, NEW stmt \in Token \cup {NoToken},
               ExecuteWrite(c, t, stmt) PROVE OneShot!Next
    <3>1. /\ previews[t] # NoPreview /\ t \in handed /\ t \notin consumed
          /\ consumed' = consumed \cup {t}
          /\ UNCHANGED <<previews, handed, sent>>
      BY <2>2 DEF ExecuteWrite, NoDenial, world
    <3>2. sent[t] = 0
      BY <3>1
    <3>3. TokenStatus(t) = "pending"
      BY <3>1, <3>2 DEF TokenStatus
    <3>4. TokenStatus(t)' = "consumed"
      BY <3>1, <3>2 DEF TokenStatus
    <3>5. \A u \in Token \ {t} : TokenStatus(u)' = TokenStatus(u)
      BY <3>1 DEF TokenStatus
    <3>6. OneShot!Consume(t)
      BY <3>1, <3>3, <3>4, <3>5, OneMoves DEF OneShot!Consume
    <3>7. QED BY <3>6 DEF OneShot!Next
  <2>3. ASSUME NEW c \in Task, SendWrite(c) PROVE OneShot!Next
    <3>1. PICK t \in Token : t = held[c]
      BY <2>3 DEF SendWrite
    <3>2. /\ previews[t] # NoPreview /\ t \in handed /\ t \in consumed /\ sent[t] = 0
          /\ sent' = [sent EXCEPT ![t] = @ + 1]
          /\ UNCHANGED <<previews, handed, consumed>>
      BY <2>3, <3>1 DEF SendWrite
    <3>3. TokenStatus(t) = "consumed"
      BY <3>2 DEF TokenStatus
    <3>4. TokenStatus(t)' = "sent"
      <4>1. sent'[t] = 1
        BY <3>2
      <4>2. QED BY <4>1 DEF TokenStatus
    <3>5. \A u \in Token \ {t} : TokenStatus(u)' = TokenStatus(u)
      BY <3>2 DEF TokenStatus
    <3>6. OneShot!Write(t)
      BY <3>2, <3>3, <3>4, <3>5, OneMoves DEF OneShot!Write
    <3>7. QED BY <3>6 DEF OneShot!Next
  <2>4. ASSUME NEW cfg \in Config, Restart(cfg) PROVE OneShot!Next
    <3>1. \A t \in Token : TokenStatus(t)' =
             IF TokenStatus(t) \in {"pending", "consumed"} THEN "lost" ELSE TokenStatus(t)
      BY <2>4 DEF Restart, TokenStatus, world
    <3>2. OneShot!LoseAll
      BY <2>4, <3>1 DEF Restart, OneShot!LoseAll, TokenStatuses, world
    <3>3. QED BY <3>2 DEF OneShot!Next
  <2>5. ASSUME NEW c \in Thread, NEW r \in Request, NEW t \in Token, StorePreview(c, r, t)
        PROVE  Stutter
    <3>1. t \notin handed /\ sent[t] = 0
      BY <2>5 DEF StorePreview
    <3>2. \A u \in Token : TokenStatus(u)' = TokenStatus(u)
      BY <2>5, <3>1 DEF StorePreview, TokenStatus
    <3>3. QED BY <2>5, <3>2 DEF StorePreview, TokenStatuses
  <2>6. ASSUME UNCHANGED <<previews, consumed, handed, sent>> PROVE Stutter
    BY <2>6 DEF TokenStatuses, TokenStatus
  <2>7. QED
    BY <2>1, <2>2, <2>3, <2>4, <2>5, <2>6 DEF Next, PrepareFails, NetworkFails,
       ReceiveResponse, BrokerApplies, Reconfigure, Tick, world, vars
<1>3. QED
  BY <1>1, <1>2, GatewayInvariant, PTL DEF Spec, ImplementsOneShotWrite, OneShot!Spec
=============================================================================
