---------------------------- MODULE SimTokenRefresh ----------------------------
(***************************************************************************)
(* SIM: the one-shot keeper launchd starts every minute, the tools that    *)
(* refresh, exchange a PKCE code or cache a portal token                   *)
(* (sim_token_refresh.py, sim_session_keeper.py, mcp_auth_tools.py,        *)
(* mcp_entitlement_tools.py, mcp_portal_token_tools.py, mcp_pkce_state.py).*)
(* Every refresh holds the write lock from its read of the cache to the    *)
(* save; the keeper takes the refresh lock first, and writes a durable     *)
(* marker naming the revision before it sends a request.                   *)
(***************************************************************************)
EXTENDS TokenCache

VARIABLES
    marker,     \* the revision in <cache>.sim-refresh-attempt, 0: no marker
    attempted,  \* history: revisions whose token a SIM keeper has presented
    pending     \* whether a started PKCE login is on file in <cache>.pending-pkce.json

simVars == <<marker, attempted, pending>>

SimInit ==
    /\ marker = 0
    /\ attempted = {}
    /\ pending = FALSE

--------------------------------------------------------------------------------
(* The keeper: refresh_sim_token_if_needed.                                    *)

SimKeeperStart(k) ==
    /\ environment = "SIM"
    /\ At(k, "idle")
    /\ Begin(k, "keeper")
    /\ UNCHANGED <<environment, cache, grants, ended, lost, writeLock, refreshLock, logins, calls, ages, faults, simVars>>

SimTakeRefreshLock(k) ==
    /\ environment = "SIM"
    /\ At(k, "waiting")
    /\ refreshLock = NoOne
    /\ refreshLock' = k
    /\ Goto(k, "locked")
    /\ UNCHANGED <<environment, cache, grants, ended, lost, writeLock, logins, calls, ages, faults, simVars>>

\* One attempt per revision: the marker of an attempt that failed, or whose process died, stays.
AttemptDue == Refreshable /\ cache.life # "fresh" /\ marker # cache.revision

\* token_missing, fresh, login_required, refresh_attempt_suppressed.
SimNoRequest(k) ==
    /\ environment = "SIM"
    /\ At(k, "locked")
    /\ writeLock = NoOne
    /\ ~AttemptDue
    /\ refreshLock' = Released(refreshLock, k)
    /\ End(k)
    /\ UNCHANGED <<environment, cache, grants, ended, lost, writeLock, logins, calls, ages, faults, simVars>>

SimRequest(k) ==
    /\ environment = "SIM"
    /\ At(k, "locked")
    /\ writeLock = NoOne
    /\ AttemptDue
    /\ writeLock' = k
    /\ marker' = cache.revision
    /\ attempted' = attempted \cup {cache.revision}
    /\ Ask(k, cache)
    /\ UNCHANGED <<environment, cache, grants, ended, lost, refreshLock, logins, calls, ages, faults, pending>>

SimKeeperDone(k) ==
    /\ writeLock' = Released(writeLock, k)
    /\ refreshLock' = Released(refreshLock, k)
    /\ End(k)
    /\ UNCHANGED <<environment, grants, ended, logins, calls, ages, attempted, pending>>

\* Mutant of SimRefreshFailed: the marker is cleared after a failed attempt.
ClearsMarker(k) ==
    /\ environment = "SIM"
    /\ At(k, "answered")
    /\ Op(k) = "keeper"
    /\ call[k].answer \in {"rejected", "unanswered"}
    /\ SimKeeperDone(k)
    /\ marker' = 0
    /\ UNCHANGED <<cache, lost, faults>>

\* refresh_rejected, whatever the reason: the marker stays.
SimRefreshFailed(k) ==
    /\ environment = "SIM"
    /\ At(k, "answered")
    /\ Op(k) = "keeper"
    /\ call[k].answer \in {"rejected", "unanswered"}
    /\ SimKeeperDone(k)
    /\ UNCHANGED <<cache, lost, marker, faults>>

\* The file must still have the revision of the request (cache_changed otherwise); the marker
\* is cleared last.
SimSaveRefreshed(k) ==
    /\ environment = "SIM"
    /\ At(k, "answered")
    /\ Op(k) = "keeper"
    /\ call[k].answer = "issued"
    /\ IF cache.revision = call[k].token.revision
       THEN /\ SaveTokenCache(Refreshed(call[k].token))
            /\ marker' = 0
            /\ UNCHANGED lost
       ELSE /\ lost' = lost \cup {call[k].token.session}
            /\ UNCHANGED <<cache, marker>>
    /\ SimKeeperDone(k)
    /\ UNCHANGED faults

\* cache_save_failed before or after the rename, or marker_clear_failed: the marker stays.
SimSaveFailed(k) ==
    /\ environment = "SIM"
    /\ faults < MaxFaults
    /\ At(k, "answered")
    /\ Op(k) = "keeper"
    /\ call[k].answer = "issued"
    /\ cache.revision = call[k].token.revision
    /\ \/ /\ SaveTokenCache(Refreshed(call[k].token))
          /\ UNCHANGED lost
       \/ /\ lost' = lost \cup {call[k].token.session}
          /\ UNCHANGED cache
    /\ SimKeeperDone(k)
    /\ faults' = faults + 1
    /\ UNCHANGED marker

SimKeeperStep(k) ==
    \/ SimKeeperStart(k) \/ SimTakeRefreshLock(k) \/ SimNoRequest(k) \/ SimRequest(k)
    \/ SimRefreshFailed(k) \/ SimSaveRefreshed(k) \/ SimSaveFailed(k)

--------------------------------------------------------------------------------
(* The tools.  A call that waits for the write lock is of saxo_refresh_token,  *)
(* which refreshes whatever the age of the token, of saxo_get_session_         *)
(* capabilities or saxo_get_entitlements, which refresh an expired one, or of  *)
(* saxo_cache_sim_access_token; which one shows when it has the lock.          *)

SimToolCall(c) ==
    /\ environment = "SIM"
    /\ At(c, "idle")
    /\ calls < MaxCalls
    /\ Begin(c, "tool")
    /\ calls' = calls + 1
    /\ UNCHANGED <<environment, cache, grants, ended, lost, writeLock, refreshLock, logins, ages, faults, simVars>>

\* Mutant of SimToolRequest: the write lock is not held while Saxo answers.
AsksUnlocked(c) ==
    /\ environment = "SIM"
    /\ At(c, "waiting")
    /\ writeLock = NoOne
    /\ Refreshable
    /\ Ask(c, cache)
    /\ UNCHANGED <<environment, cache, grants, ended, lost, writeLock, refreshLock, logins, calls, ages, faults, simVars>>

SimToolRequest(c) ==
    /\ environment = "SIM"
    /\ At(c, "waiting")
    /\ writeLock = NoOne
    /\ Refreshable
    /\ writeLock' = c
    /\ Ask(c, cache)
    /\ UNCHANGED <<environment, cache, grants, ended, lost, refreshLock, logins, calls, ages, faults, simVars>>

\* No token, not refreshable, or still valid.
SimToolNoRequest(c) ==
    /\ environment = "SIM"
    /\ At(c, "waiting")
    /\ writeLock = NoOne
    /\ ~Refreshable \/ cache.life \in {"fresh", "due"}
    /\ End(c)
    /\ UNCHANGED <<environment, cache, grants, ended, lost, writeLock, refreshLock, logins, calls, ages, faults, simVars>>

SimToolDone(c) ==
    /\ environment = "SIM"
    /\ At(c, "answered")
    /\ Op(c) = "tool"
    /\ IF call[c].answer = "issued" THEN SaveTokenCache(Refreshed(call[c].token)) ELSE UNCHANGED cache
    /\ writeLock' = Released(writeLock, c)
    /\ End(c)
    /\ UNCHANGED <<environment, grants, ended, lost, refreshLock, logins, calls, ages, faults, simVars>>

\* Mutant of SimPortalCheck: the write lock is not held between the check and the save.
ChecksUnlocked(c) ==
    /\ environment = "SIM"
    /\ At(c, "waiting")
    /\ writeLock = NoOne
    /\ \E replace \in BOOLEAN :
          IF ~replace /\ (Refreshable \/ pending)
          THEN End(c)
          ELSE call' = [call EXCEPT ![c].op = IF replace THEN "portal_replace" ELSE "portal",
                                    ![c].at = "saving"]
    /\ UNCHANGED <<environment, cache, grants, ended, lost, writeLock, refreshLock, logins, calls, ages, faults, simVars>>

\* saxo_cache_sim_access_token reads the cache and the pending login under the write lock, and
\* without replace_existing_cache leaves both alone when there is anything to lose.
SimPortalCheck(c) ==
    /\ environment = "SIM"
    /\ At(c, "waiting")
    /\ writeLock = NoOne
    /\ \E replace \in BOOLEAN :
          IF ~replace /\ (Refreshable \/ pending)
          THEN End(c) /\ UNCHANGED writeLock
          ELSE /\ call' = [call EXCEPT ![c].op = IF replace THEN "portal_replace" ELSE "portal",
                                       ![c].at = "saving"]
               /\ writeLock' = c
    /\ UNCHANGED <<environment, cache, grants, ended, lost, refreshLock, logins, calls, ages, faults, simVars>>

\* The portal token belongs to no login of this cache and cannot be refreshed; the session
\* number is that of the portal, above every login's.
PortalToken == [session |-> MaxLogins + 1, generation |-> 0, refreshable |-> FALSE,
                life |-> "fresh", revision |-> cache.revision + 1]

SimPortalSave(c) ==
    /\ environment = "SIM"
    /\ At(c, "saving")
    /\ SaveTokenCache(PortalToken)
    /\ pending' = FALSE
    /\ writeLock' = Released(writeLock, c)
    /\ End(c)
    /\ UNCHANGED <<environment, grants, ended, lost, refreshLock, logins, calls, ages, faults, marker, attempted>>

\* saxo_start_pkce_login: the new login replaces the one on file.
SimStartPkceLogin ==
    /\ environment = "SIM"
    /\ logins < MaxLogins
    /\ pending' = TRUE
    /\ UNCHANGED <<cacheVars, marker, attempted>>

\* saxo_exchange_pkce_code: a login must be on file, and its code is sent to Saxo before any
\* lock is taken.  A login older than PENDING_AUTH_TTL is deleted instead.
SimExchange(u) ==
    /\ environment = "SIM"
    /\ At(u, "idle")
    /\ logins < MaxLogins
    /\ pending
    /\ logins' = logins + 1
    /\ call' = [call EXCEPT ![u] = [Idle EXCEPT !.op = "exchange", !.at = "asking",
                                                !.token = [NoToken EXCEPT !.session = logins + 1]]]
    /\ UNCHANGED <<environment, cache, grants, ended, lost, writeLock, refreshLock, calls, ages, faults, simVars>>

SimExchangeTooLate ==
    /\ environment = "SIM"
    /\ pending
    /\ pending' = FALSE
    /\ UNCHANGED <<cacheVars, marker, attempted>>

\* Whatever pending login is on file by now is deleted.
SimExchangeSave(u) ==
    /\ environment = "SIM"
    /\ At(u, "answered")
    /\ Op(u) = "exchange"
    /\ call[u].answer = "issued"
    /\ writeLock = NoOne
    /\ SaveTokenCache(Refreshed(call[u].token))
    /\ pending' = FALSE
    /\ End(u)
    /\ UNCHANGED <<environment, grants, ended, lost, writeLock, refreshLock, logins, calls, ages, faults, marker, attempted>>

SimExchangeFailed(u) ==
    /\ environment = "SIM"
    /\ At(u, "answered")
    /\ Op(u) = "exchange"
    /\ call[u].answer # "issued"
    /\ End(u)
    /\ UNCHANGED <<environment, cache, grants, ended, lost, writeLock, refreshLock, logins, calls, ages, faults, simVars>>

SimToolStep(c) ==
    \/ SimToolRequest(c) \/ SimToolNoRequest(c) \/ SimToolDone(c)
    \/ SimPortalCheck(c) \/ SimPortalSave(c)

SimExchangeStep(u) == SimExchangeSave(u) \/ SimExchangeFailed(u)
===============================================================================
