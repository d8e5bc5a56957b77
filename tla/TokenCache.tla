------------------------------ MODULE TokenCache ------------------------------
(***************************************************************************)
(* The token cache file, its two file locks, and Saxo's token endpoint as  *)
(* the code uses it (token_cache.py, oauth.py, auth.py): the state that    *)
(* the LIVE protocol (LiveTokenRefresh) and the SIM protocol               *)
(* (SimTokenRefresh) share.                                                *)
(*                                                                         *)
(* A login opens a session, named by a number (in the code: its PKCE code  *)
(* verifier, which every refresh keeps).  Each refresh of a session        *)
(* returns a new access token and a new refresh token: its generation goes *)
(* up by one, and the endpoint then accepts the new refresh token only     *)
(* (agent_skill_matrix_env.py:299 calls it one-time material).  An         *)
(* authorization code is generation 0.  The file is replaced by an atomic  *)
(* rename: a read sees one token or another, never a mixture, and its      *)
(* revision (mtime, inode and size in the code) is new at each save.       *)
(*                                                                         *)
(* An actor is a keeper process, a tool call or a login; what it           *)
(* holds between two of its steps is in call.  Only the flocks are         *)
(* modelled: the anyio locks add nothing to their exclusion.               *)
(***************************************************************************)
EXTENDS Naturals

CONSTANTS
    Keepers,        \* session keeper processes
    Tools,          \* calls of tools that read or replace the token
    Users,          \* login commands and PKCE code exchanges: what a user's browser login ends in
    NoOne,          \* holder of a free lock
    MaxLogins,      \* bound: logins whose code is sent to Saxo
    MaxCalls,       \* bound: tool calls begun
    MaxAges,        \* bound: times the cached token grows older
    MaxFaults       \* bound: crashes, cancellations, failed saves, revocations and odd answers

ASSUME NoOneAssumption == NoOne \notin Keepers \cup Tools \cup Users
ASSUME ActorAssumption ==
    /\ Keepers \cap Tools = {}
    /\ Keepers \cap Users = {}
    /\ Tools \cap Users = {}
ASSUME BoundAssumption == {MaxLogins, MaxCalls, MaxAges, MaxFaults} \subseteq Nat

VARIABLES
    environment,    \* the environment of the settings every actor runs with
    cache,          \* the token in the file; session 0: no file
    grants,         \* generation of each session the token endpoint accepts
    ended,          \* sessions Saxo has ended
    lost,           \* history: sessions with a rotation that was never saved
    writeLock,      \* holder of <cache>.write.lock
    refreshLock,    \* holder of <cache>.refresh.lock or <cache>.sim-refresh.lock
    call,           \* what each actor is doing
    logins,         \* logins whose code was sent to Saxo
    calls,          \* tool calls begun
    ages, faults    \* the counters of the other two bounds

cacheVars == <<environment, cache, grants, ended, lost, writeLock, refreshLock,
               call, logins, calls, ages, faults>>

Actors == Keepers \cup Tools \cup Users

\* How old a token is: valid beyond the refresh margin, inside the margin, access token
\* expired, refresh token expired as well.
Lives == {"fresh", "due", "expired", "refresh_expired"}

Token == [session : Nat, generation : Nat, refreshable : BOOLEAN, life : Lives, revision : Nat]

NoToken == [session |-> 0, generation |-> 0, refreshable |-> FALSE, life |-> "fresh", revision |-> 0]

Answers == {"none", "issued", "rejected", "unanswered"}

\* seen: the revision a LIVE keeper read before its refresh; token: what the actor presented.
Call == [op : {"none", "keeper", "tool", "login", "exchange", "portal", "portal_replace"},
         at : {"idle", "waiting", "locked", "asking", "answered", "saving"},
         token : Token, answer : Answers, seen : Nat]

Idle == [op |-> "none", at |-> "idle", token |-> NoToken, answer |-> "none", seen |-> 0]

CacheInit ==
    /\ environment \in {"SIM", "LIVE"}
    /\ cache = NoToken
    /\ grants = [s \in 1..MaxLogins |-> 0]
    /\ ended = {}
    /\ lost = {}
    /\ writeLock = NoOne
    /\ refreshLock = NoOne
    /\ call = [a \in Actors |-> Idle]
    /\ logins = 0
    /\ calls = 0
    /\ ages = 0
    /\ faults = 0

At(a, place) == call[a].at = place
Op(a) == call[a].op

Goto(a, place) == call' = [call EXCEPT ![a].at = place]
Begin(a, op) == call' = [call EXCEPT ![a] = [Idle EXCEPT !.op = op, !.at = "waiting"]]
Ask(a, token) == call' = [call EXCEPT ![a].at = "asking", ![a].token = token]

\* Mutant of End: what the actor was doing is not forgotten.
KeepsCall(a) == Goto(a, "idle")

End(a) == call' = [call EXCEPT ![a] = Idle]

Released(lock, a) == IF lock = a THEN NoOne ELSE lock

\* load_token_cache, refresh_material
CachePresent == cache.session # 0
Refreshable == CachePresent /\ cache.refreshable

\* Mutant of Refreshed: the refresh token that was presented is kept.
KeepsOldRefreshToken(token) ==
    [session |-> token.session, generation |-> token.generation, refreshable |-> TRUE,
     life |-> "fresh", revision |-> cache.revision + 1]

\* to_token_set: the next generation of the session whose refresh token or code was presented.
\* A save numbers the new file.
Refreshed(token) ==
    [session |-> token.session, generation |-> token.generation + 1, refreshable |-> TRUE,
     life |-> "fresh", revision |-> cache.revision + 1]

SaveTokenCache(token) == cache' = token

--------------------------------------------------------------------------------
(* The token endpoint, external: it accepts the newest generation of a session *)
(* that has not ended.  Its answer may be lost on the way, or never be made.   *)

Accepts(token) ==
    /\ token.session \notin ended
    /\ grants[token.session] = token.generation
    /\ token.life # "refresh_expired"

Rotate(s) == grants' = [grants EXCEPT ![s] = @ + 1]

Answer(a, answer) == call' = [call EXCEPT ![a].at = "answered", ![a].answer = answer]

EndpointFrame == UNCHANGED <<environment, cache, ended, writeLock, refreshLock, logins, calls, ages, faults>>

Issue(a) ==
    /\ At(a, "asking")
    /\ Accepts(call[a].token)
    /\ Rotate(call[a].token.session)
    /\ Answer(a, "issued")
    /\ UNCHANGED lost
    /\ EndpointFrame

IssueUnheard(a) ==
    /\ At(a, "asking")
    /\ Accepts(call[a].token)
    /\ Rotate(call[a].token.session)
    /\ lost' = lost \cup {call[a].token.session}
    /\ Answer(a, "unanswered")
    /\ EndpointFrame

Reject(a) ==
    /\ At(a, "asking")
    /\ ~Accepts(call[a].token)
    /\ Answer(a, "rejected")
    /\ UNCHANGED <<grants, lost>>
    /\ EndpointFrame

Unanswered(a) ==
    /\ At(a, "asking")
    /\ Answer(a, "unanswered")
    /\ UNCHANGED <<grants, lost>>
    /\ EndpointFrame

Respond(a) == Issue(a) \/ IssueUnheard(a) \/ Reject(a) \/ Unanswered(a)

\* Saxo ends a session of its own accord.
EndSession ==
    /\ faults < MaxFaults
    /\ Refreshable
    /\ cache.session \notin ended
    /\ ended' = ended \cup {cache.session}
    /\ faults' = faults + 1
    /\ UNCHANGED <<environment, cache, grants, lost, writeLock, refreshLock, call, logins, calls, ages>>

\* Time passes, by a little or, on a machine that slept, by a lot.
OlderThan(life) ==
    CASE life = "fresh" -> {"due", "expired", "refresh_expired"}
      [] life = "due" -> {"expired", "refresh_expired"}
      [] life = "expired" -> {"refresh_expired"}
      [] life = "refresh_expired" -> {}

Age ==
    /\ ages < MaxAges
    /\ CachePresent
    /\ \E life \in OlderThan(cache.life) :
          /\ life = "refresh_expired" => cache.refreshable
          /\ cache' = [cache EXCEPT !.life = life]
    /\ ages' = ages + 1
    /\ UNCHANGED <<environment, grants, ended, lost, writeLock, refreshLock, call, logins, calls, faults>>
===============================================================================
