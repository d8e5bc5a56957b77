----------------------------- MODULE TokenSession -----------------------------
(***************************************************************************)
(* Everyone who reads and writes one token cache: the keepers, tools and   *)
(* login commands of the LIVE protocol or of the SIM protocol, the token   *)
(* endpoint, time, and processes that die or are cancelled at any step.    *)
(***************************************************************************)
EXTENDS LiveTokenRefresh, SimTokenRefresh

vars == <<cacheVars, liveVars, simVars>>

Init == CacheInit /\ LiveInit /\ SimInit

--------------------------------------------------------------------------------
(* run_live_login and run_sim_login: the code is exchanged, then saved under   *)
(* the write lock alone.                                                       *)

LoginCommand(u) ==
    /\ At(u, "idle")
    /\ logins < MaxLogins
    /\ logins' = logins + 1
    /\ call' = [call EXCEPT ![u] = [Idle EXCEPT !.op = "login", !.at = "asking",
                                                !.token = [NoToken EXCEPT !.session = logins + 1]]]
    /\ UNCHANGED <<environment, cache, grants, ended, lost, writeLock, refreshLock, calls, ages, faults, liveVars, simVars>>

LoginSave(u) ==
    /\ At(u, "answered")
    /\ Op(u) = "login"
    /\ call[u].answer = "issued"
    /\ writeLock = NoOne
    /\ SaveTokenCache(Refreshed(call[u].token))
    /\ End(u)
    /\ UNCHANGED <<environment, grants, ended, lost, writeLock, refreshLock, logins, calls, ages, faults, liveVars, simVars>>

LoginFailed(u) ==
    /\ At(u, "answered")
    /\ Op(u) = "login"
    /\ call[u].answer # "issued"
    /\ End(u)
    /\ UNCHANGED <<environment, cache, grants, ended, lost, writeLock, refreshLock, logins, calls, ages, faults, liveVars, simVars>>

LoginStep(u) == LoginSave(u) \/ LoginFailed(u)

\* The process of an actor dies, its client cancels it, or its save raises: the locks it held
\* are free, and a token it had not saved is gone.  A request that was out may or may not be
\* carried out.  A LIVE keeper that launchd starts again has forgotten where it stopped.
Crash(a) ==
    /\ faults < MaxFaults
    /\ ~At(a, "idle")
    /\ LET token == call[a].token
           unsaved == At(a, "answered") /\ call[a].answer = "issued" IN
       \/ /\ lost' = IF unsaved THEN lost \cup {token.session} ELSE lost
          /\ UNCHANGED grants
       \/ /\ At(a, "asking")
          /\ Accepts(token)
          /\ Rotate(token.session)
          /\ lost' = lost \cup {token.session}
    /\ writeLock' = Released(writeLock, a)
    /\ refreshLock' = Released(refreshLock, a)
    /\ End(a)
    /\ stopped' = IF a \in Keepers THEN [stopped EXCEPT ![a] = 0] ELSE stopped
    /\ refused' = IF a \in Keepers THEN [refused EXCEPT ![a] = [revision |-> 0, times |-> 0]] ELSE refused
    /\ condemned' = IF a \in Keepers THEN [condemned EXCEPT ![a] = 0] ELSE condemned
    /\ faults' = faults + 1
    /\ UNCHANGED <<environment, cache, ended, logins, calls, ages, simVars>>

KeeperStep(k) ==
    \/ LiveKeeperStep(k) /\ UNCHANGED simVars
    \/ SimKeeperStep(k) /\ UNCHANGED liveVars

ToolStep(c) ==
    \/ LiveToolStep(c) /\ UNCHANGED simVars
    \/ SimToolStep(c) /\ UNCHANGED liveVars

UserStep(u) ==
    \/ SimExchangeStep(u) /\ UNCHANGED liveVars
    \/ LoginStep(u)

ToolBegins(c) ==
    \/ LiveToolCall(c) /\ UNCHANGED simVars
    \/ SimToolCall(c) /\ UNCHANGED liveVars

UserBegins(u) ==
    \/ SimExchange(u) /\ UNCHANGED liveVars
    \/ LoginCommand(u)

Responds(a) ==
    \/ Respond(a) /\ UNCHANGED <<liveVars, simVars>>
    \/ Condemn(a) /\ UNCHANGED simVars

\* The endpoint carries the request out or refuses it, rather than not answering.
Decides(a) == (Issue(a) \/ IssueUnheard(a) \/ Reject(a)) /\ UNCHANGED <<liveVars, simVars>>

Next ==
    \/ \E k \in Keepers : KeeperStep(k)
    \/ \E c \in Tools : ToolBegins(c) \/ ToolStep(c)
    \/ \E u \in Users : UserBegins(u) \/ UserStep(u)
    \/ (SimStartPkceLogin \/ SimExchangeTooLate) /\ UNCHANGED liveVars
    \/ \E a \in Actors : Responds(a) \/ Crash(a)
    \/ (EndSession \/ Age) /\ UNCHANGED <<liveVars, simVars>>

Spec == Init /\ [][Next]_vars

\* Keepers poll for ever and what was begun goes on (the event loop and the flocks, whose
\* waiters are served); requests end, by a timeout if by nothing else; and the endpoint is not
\* unreachable for ever.  Nobody has to call a tool, log in, or be interrupted.
Fairness ==
    /\ \A k \in Keepers : SF_vars(KeeperStep(k)) /\ SF_vars(Decides(k))
    /\ \A c \in Tools : SF_vars(ToolStep(c)) /\ WF_vars(Responds(c))
    /\ \A u \in Users : SF_vars(UserStep(u)) /\ WF_vars(Responds(u))

FairSpec == Spec /\ Fairness

--------------------------------------------------------------------------------
(* Properties.                                                                 *)

TypeOK ==
    /\ environment \in {"SIM", "LIVE"}
    /\ cache \in Token
    /\ grants \in [1..MaxLogins -> Nat]
    /\ ended \subseteq 1..MaxLogins
    /\ lost \subseteq 1..MaxLogins
    /\ writeLock \in Actors \cup {NoOne}
    /\ refreshLock \in Actors \cup {NoOne}
    /\ call \in [Actors -> Call]
    /\ \A a \in Actors : At(a, "idle") => call[a] = Idle
    /\ logins \in 0..MaxLogins
    /\ calls \in Nat
    /\ ages \in Nat
    /\ faults \in Nat
    /\ stopped \in [Keepers -> Nat]
    /\ refused \in [Keepers -> [revision : Nat, times : Nat]]
    /\ condemned \in [Keepers -> Nat]
    /\ marker \in Nat
    /\ attempted \subseteq Nat
    /\ pending \in BOOLEAN

\* The actor refreshes a token; logins and exchanges save one of their own.
Refreshes(a) == Op(a) \in {"keeper", "tool"}

\* An actor holds a newer token of session s than the file, and is about to save it.
BeingSaved(s) ==
    \E a \in Actors : At(a, "answered") /\ call[a].answer = "issued" /\ call[a].token.session = s

\* The refresh token in the file is one Saxo still takes, unless an answer of Saxo was lost on
\* the way or a process died before it had saved it: no order of keepers, tools and logins puts
\* a used refresh token back (live_token_refresh.py:64, mcp_auth_tools.py:186).
CachedTokenUsable ==
    Refreshable /\ cache.session \notin lost =>
        \/ cache.generation = grants[cache.session]
        \/ BeingSaved(cache.session)

\* A refresh replaces the very token it presented, so that a login or tool that saved in
\* between is not undone (sim-session-keeper-design.md:34).  In LIVE it may replace another
\* one, but only of another session: a login's, never a newer token of its own session
\* (live_token_refresh.py:84).
RefreshReplacesItsOwn ==
    [][\A a \in Actors :
         Refreshes(a) /\ At(a, "answered") /\ cache'.revision # cache.revision /\ call'[a] = Idle =>
             \/ cache.revision = call[a].token.revision
             \/ environment = "LIVE" /\ cache.session # call[a].token.session]_vars

\* Over all runs of the SIM keeper, whatever interrupted them, one request is made for a
\* revision of the cache (sim_token_refresh.py:81).
OneAttemptPerRevision ==
    [][\A k \in Keepers :
         environment = "SIM" /\ At(k, "locked") /\ call'[k].at = "asking" =>
             cache.revision \notin attempted]_vars

\* A LIVE keeper presents a token Saxo refused at most once more: when the file changed between
\* its look at the revision and its refresh (live_token_refresh.py:160).
KeeperGivesUp == \A k \in Keepers : refused[k].times <= 2

\* A LIVE keeper that waits for the file to change waits at a token Saxo would refuse, or at one
\* whose refresh Saxo answered as it answers a bad one: a login, or a tool's refresh, that saved
\* while the keeper's request was out starts it again, because it remembers the revision it saw
\* before the request (live_token_refresh.py:160, :168, :189).
StoppedAtDeadToken ==
    \A k \in Keepers : CachePresent /\ stopped[k] = cache.revision =>
        ~Accepts(cache) \/ condemned[k] = cache.revision

\* Without replace_existing_cache, the portal tool never replaces a token that can be refreshed
\* (mcp_portal_token_tools.py:77).
PortalNeverDiscards ==
    [][\A c \in Tools :
         At(c, "saving") /\ Op(c) = "portal" /\ cache'.revision # cache.revision => ~Refreshable]_vars

\* A session that Saxo would still refresh, and whose access token lapses.
Lapsing ==
    /\ Refreshable
    /\ cache.life \in {"due", "expired"}
    /\ cache.session \notin ended
    /\ cache.generation = grants[cache.session]

\* A keeper that has no reason to leave the cached token alone: a LIVE one was not answered
\* about it as about a bad token, the SIM one has not used its one attempt.
KeeperDue ==
    CASE environment = "LIVE" -> \E k \in Keepers : condemned[k] # cache.revision
      [] environment = "SIM" -> marker # cache.revision

\* The keepers refresh a lapsing session while it lasts: a LIVE keeper even when it had stopped
\* at an earlier revision, or at this one in an earlier process
\* (live_token_refresh.py:161, :189, sim_token_refresh.py:81).
LapsingSessionRefreshed == (Lapsing /\ KeeperDue) ~> ~(Lapsing /\ KeeperDue)
===============================================================================
