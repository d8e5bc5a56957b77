---------------------------- MODULE LiveTokenRefresh ---------------------------
(***************************************************************************)
(* LIVE: the session keeper, the tools that refresh an expired token on    *)
(* demand, and the login command (live_token_refresh.py, live_login.py).   *)
(* The refresh lock is held from the read of the cache to the save; the    *)
(* write lock only inside a save, so that a login saves whenever it wants. *)
(***************************************************************************)
EXTENDS TokenCache

VARIABLES
    stopped,    \* stopped_cache_revision of each LIVE keeper, 0: None
    refused,    \* history: the file revision whose token a keeper was last told is refused, and how often
    condemned   \* history: the revision each keeper had seen when a good token was answered like a bad one

liveVars == <<stopped, refused, condemned>>

LiveInit ==
    /\ stopped = [k \in Keepers |-> 0]
    /\ refused = [k \in Keepers |-> [revision |-> 0, times |-> 0]]
    /\ condemned = [k \in Keepers |-> 0]

--------------------------------------------------------------------------------
\* External: the endpoint answers a token it takes with one of the other 4xx statuses, or
\* with new tokens in a body _parse_token_response cannot read.  The code takes both for
\* a rejection.
Condemn(a) ==
    /\ environment = "LIVE"
    /\ faults < MaxFaults
    /\ At(a, "asking")
    /\ Accepts(call[a].token)
    /\ \/ UNCHANGED <<grants, lost>>
       \/ /\ Rotate(call[a].token.session)
          /\ lost' = lost \cup {call[a].token.session}
    /\ Answer(a, "rejected")
    /\ condemned' = IF a \in Keepers THEN [condemned EXCEPT ![a] = call[a].seen] ELSE condemned
    /\ faults' = faults + 1
    /\ UNCHANGED <<environment, cache, ended, writeLock, refreshLock, logins, calls, ages, stopped, refused>>

--------------------------------------------------------------------------------

\* keep_live_token_fresh reads the revision before it looks for work: a login that comes
\* during the refresh makes the next poll start again.
LivePoll(k) ==
    /\ environment = "LIVE"
    /\ At(k, "idle")
    /\ stopped[k] = 0 \/ stopped[k] # cache.revision
    /\ call' = [call EXCEPT ![k] = [Idle EXCEPT !.op = "keeper", !.at = "waiting", !.seen = cache.revision]]
    /\ UNCHANGED <<environment, cache, grants, ended, lost, writeLock, refreshLock, logins, calls, ages, faults, liveVars>>

\* live_token_for_tool goes on to a refresh only when the cached access token has expired.
LiveToolCall(c) ==
    /\ environment = "LIVE"
    /\ At(c, "idle")
    /\ calls < MaxCalls
    /\ cache.life \in {"expired", "refresh_expired"}
    /\ Begin(c, "tool")
    /\ calls' = calls + 1
    /\ UNCHANGED <<environment, cache, grants, ended, lost, writeLock, refreshLock, logins, ages, faults, liveVars>>

\* minimum_validity: REFRESH_MARGIN for the keeper, 0 for a tool.
RefreshNeeded(a) ==
    cache.life # "fresh" /\ (cache.life = "due" => Op(a) = "keeper")

\* Mutants of KeeperStops: the keeper goes on whatever it was told; it stops at the revision
\* the file has when the refresh ends.
NeverStops(a, stops) ==
    stopped' = IF Op(a) = "keeper" THEN [stopped EXCEPT ![a] = 0] ELSE stopped
StopsAtNewest(a, stops) ==
    stopped' = IF Op(a) = "keeper"
               THEN [stopped EXCEPT ![a] = IF stops THEN cache.revision ELSE 0]
               ELSE stopped

\* The keeper's stop statuses are refresh_rejected and refresh_expired.
KeeperStops(a, stops) ==
    stopped' = IF Op(a) = "keeper"
               THEN [stopped EXCEPT ![a] = IF stops THEN call[a].seen ELSE 0]
               ELSE stopped

\* token_missing, fresh, login_required, refresh_expired: nothing is sent.
LiveNoRequest(a) ==
    /\ environment = "LIVE"
    /\ At(a, "waiting")
    /\ refreshLock = NoOne
    /\ ~Refreshable \/ ~RefreshNeeded(a) \/ cache.life = "refresh_expired"
    /\ End(a)
    /\ KeeperStops(a, cache.life = "refresh_expired")
    /\ UNCHANGED <<environment, cache, grants, ended, lost, writeLock, refreshLock, logins, calls, ages, faults, refused, condemned>>

LiveRequest(a) ==
    /\ environment = "LIVE"
    /\ At(a, "waiting")
    /\ refreshLock = NoOne
    /\ Refreshable
    /\ RefreshNeeded(a)
    /\ cache.life # "refresh_expired"
    /\ refreshLock' = a
    /\ Ask(a, cache)
    /\ UNCHANGED <<environment, cache, grants, ended, lost, writeLock, logins, calls, ages, faults, liveVars>>

\* The refreshed token is saved over whatever the file holds by now.
LiveSaveRefreshed(a) ==
    /\ environment = "LIVE"
    /\ At(a, "answered")
    /\ Op(a) \in {"keeper", "tool"}
    /\ call[a].answer = "issued"
    /\ writeLock = NoOne
    /\ SaveTokenCache(Refreshed(call[a].token))
    /\ refreshLock' = Released(refreshLock, a)
    /\ End(a)
    /\ KeeperStops(a, FALSE)
    /\ UNCHANGED <<environment, grants, ended, lost, writeLock, logins, calls, ages, faults, refused, condemned>>

\* _is_transient: no answer, 5xx, 408 and 429 are refresh_retryable; every other status and an
\* unreadable body are refresh_rejected.
LiveRefreshFailed(a) ==
    /\ environment = "LIVE"
    /\ At(a, "answered")
    /\ Op(a) \in {"keeper", "tool"}
    /\ call[a].answer \in {"rejected", "unanswered"}
    /\ refreshLock' = Released(refreshLock, a)
    /\ End(a)
    /\ KeeperStops(a, call[a].answer = "rejected")
    /\ refused' = IF Op(a) = "keeper" /\ call[a].answer = "rejected"
                  THEN [refused EXCEPT ![a] =
                          [revision |-> call[a].token.revision,
                           times |-> IF @.revision = call[a].token.revision THEN @.times + 1 ELSE 1]]
                  ELSE refused
    /\ UNCHANGED <<environment, cache, grants, ended, lost, writeLock, logins, calls, ages, faults, condemned>>

LiveKeeperStep(k) ==
    LivePoll(k) \/ LiveNoRequest(k) \/ LiveRequest(k) \/ LiveSaveRefreshed(k) \/ LiveRefreshFailed(k)

LiveToolStep(c) ==
    LiveNoRequest(c) \/ LiveRequest(c) \/ LiveSaveRefreshed(c) \/ LiveRefreshFailed(c)
===============================================================================
