--------------------------- MODULE TokenSession_proofs ---------------------------
(***************************************************************************)
(* Proofs about TokenSession, for any number of keepers, tools, users and  *)
(* logins: who holds the locks, which token a refresh replaces, and that   *)
(* the cached refresh token stays usable.                                  *)
(***************************************************************************)
EXTENDS TokenSession, TLAPS

\* The actor has sent a token or a code to Saxo and not yet dealt with the answer.
Out(a) == call[a].at \in {"asking", "answered"}

Session(a) == call[a].token.session

Refreshers == Keepers \cup Tools

--------------------------------------------------------------------------------
(* The inductive invariant.                                                    *)

\* What each actor can be doing.
Role(a) ==
    \/ At(a, "idle")
    \/ Op(a) = "keeper" /\ a \in Keepers /\ call[a].at \in {"waiting", "locked", "asking", "answered"}
    \/ Op(a) = "tool" /\ a \in Tools /\ call[a].at \in {"waiting", "asking", "answered"}
    \/ Op(a) \in {"portal", "portal_replace"} /\ a \in Tools /\ At(a, "saving") /\ environment = "SIM"
    \/ Op(a) \in {"login", "exchange"} /\ a \in Users /\ Out(a)

\* In SIM everyone but a user sends and saves under the write lock; a keeper takes the refresh
\* lock first.  LIVE refreshes under the refresh lock.
HoldsWrite(a) == environment = "SIM" /\ a \in Refreshers /\ (Out(a) \/ At(a, "saving"))

HoldsRefresh(a) ==
    IF environment = "LIVE" THEN a \in Refreshers /\ Out(a)
    ELSE a \in Keepers /\ (Out(a) \/ At(a, "locked"))

Locks == \A a \in Actors : (writeLock = a <=> HoldsWrite(a)) /\ (refreshLock = a <=> HoldsRefresh(a))

\* Sessions are numbered as their codes are sent.
Numbered ==
    /\ cache.refreshable => cache.session \in 1..logins
    /\ cache.session \in 0..logins \cup {MaxLogins + 1}
    /\ lost \subseteq 1..logins
    /\ \A s \in 1..MaxLogins : s > logins => grants[s] = 0
    /\ \A a \in Actors : Out(a) => Session(a) \in 1..logins

\* A login's session is in nobody else's hands, nor in the file.
OwnSession ==
    \A u \in Users :
       Out(u) =>
          /\ Session(u) # cache.session
          /\ \A b \in Actors \ {u} : Out(b) => Session(b) # Session(u)

\* The file has the token a refresh presented; in LIVE a login may have replaced it.
OwnToken ==
    \A a \in Refreshers :
       Out(a) =>
          /\ call[a].token.refreshable
          /\ environment = "SIM" \/ cache.session = Session(a) =>
                /\ cache.session = Session(a)
                /\ cache.generation = call[a].token.generation
                /\ cache.revision = call[a].token.revision

\* The endpoint is as far as the token in an actor's hands.
Rotated ==
    \A a \in Actors :
       Session(a) \notin lost =>
          /\ At(a, "asking") => grants[Session(a)] = call[a].token.generation
          /\ At(a, "answered") /\ call[a].answer = "issued" =>
                grants[Session(a)] = call[a].token.generation + 1

\* Revisions are new at each save, and the marker tells of the attempt at the newest one.
Marked ==
    /\ \A r \in attempted : r <= cache.revision
    /\ cache.revision \in attempted => marker = cache.revision

NothingToDiscard == \A c \in Tools : Op(c) = "portal" /\ At(c, "saving") => ~Refreshable

Control == TypeOK /\ (\A a \in Actors : Role(a)) /\ Locks
Data == Numbered /\ OwnSession /\ OwnToken /\ Rotated /\ Marked /\ NothingToDiscard /\ CachedTokenUsable
SessionInv == Control /\ Data

--------------------------------------------------------------------------------
(* What the steps of one actor change.                                         *)

\* Only the call of actor a changes.
Only(a) == call' \in [Actors -> Call] /\ \A b \in Actors \ {a} : call'[b] = call[b]

LEMMA GotoEffect ==
    ASSUME call \in [Actors -> Call], NEW a \in Actors,
           NEW place \in {"idle", "waiting", "locked", "asking", "answered", "saving"}, Goto(a, place)
    PROVE  Only(a) /\ call'[a].at = place /\ call'[a].op = call[a].op /\ call'[a].token = call[a].token
<1>1. call[a] \in Call
  OBVIOUS
<1>2. [call[a] EXCEPT !.at = place] \in Call
  BY <1>1 DEF Call
<1>3. call' = [call EXCEPT ![a] = [call[a] EXCEPT !.at = place]]
  BY DEF Goto
<1> QED
  BY <1>1, <1>2, <1>3 DEF Only, Call

LEMMA IdleType == Idle \in Call /\ Idle.at = "idle" /\ Idle.op = "none" /\ NoToken \in Token
  BY DEF Idle, Call, NoToken, Token, Lives, Answers

LEMMA BeginEffect ==
    ASSUME call \in [Actors -> Call], NEW a \in Actors, NEW op \in {"keeper", "tool"}, Begin(a, op)
    PROVE  Only(a) /\ call'[a].at = "waiting" /\ call'[a].op = op
<1> DEFINE next == [Idle EXCEPT !.op = op, !.at = "waiting"]
<1>1. next \in Call /\ next.at = "waiting" /\ next.op = op
  BY IdleType DEF Call, Idle
<1>2. call' = [call EXCEPT ![a] = next]
  BY DEF Begin
<1> QED
  BY <1>1, <1>2 DEF Only

LEMMA SendEffect ==
    ASSUME call \in [Actors -> Call], NEW a \in Actors, NEW op \in {"login", "exchange"}, NEW s \in Nat,
           call' = [call EXCEPT ![a] = [Idle EXCEPT !.op = op, !.at = "asking",
                                                    !.token = [NoToken EXCEPT !.session = s]]]
    PROVE  /\ Only(a) /\ call'[a].at = "asking" /\ call'[a].op = op
           /\ call'[a].token.session = s /\ call'[a].token.generation = 0
<1> DEFINE token == [NoToken EXCEPT !.session = s]
           next == [Idle EXCEPT !.op = op, !.at = "asking", !.token = token]
<1>1. token \in Token /\ token.session = s /\ token.generation = 0
  BY IdleType DEF Token, NoToken
<1>2. next \in Call /\ next.at = "asking" /\ next.op = op /\ next.token = token
  BY <1>1, IdleType DEF Call, Idle
<1> QED
  BY <1>1, <1>2 DEF Only

LEMMA AskEffect ==
    ASSUME call \in [Actors -> Call], NEW a \in Actors, NEW token \in Token, Ask(a, token)
    PROVE  Only(a) /\ call'[a].at = "asking" /\ call'[a].token = token /\ call'[a].op = call[a].op
<1> DEFINE next == [call[a] EXCEPT !.at = "asking", !.token = token]
<1>1. call[a] \in Call
  OBVIOUS
<1>2. next \in Call /\ next.at = "asking" /\ next.token = token /\ next.op = call[a].op
  BY <1>1 DEF Call
<1>3. call' = [call EXCEPT ![a] = next]
  BY <1>1 DEF Ask, Call
<1> QED
  BY <1>2, <1>3 DEF Only

LEMMA AnswerEffect ==
    ASSUME call \in [Actors -> Call], NEW a \in Actors, NEW answer \in Answers, Answer(a, answer)
    PROVE  /\ Only(a) /\ call'[a].at = "answered" /\ call'[a].answer = answer
           /\ call'[a].token = call[a].token /\ call'[a].op = call[a].op
<1> DEFINE next == [call[a] EXCEPT !.at = "answered", !.answer = answer]
<1>1. call[a] \in Call
  OBVIOUS
<1>2. next \in Call /\ next.at = "answered" /\ next.answer = answer /\ next.token = call[a].token
      /\ next.op = call[a].op
  BY <1>1 DEF Call
<1>3. call' = [call EXCEPT ![a] = next]
  BY <1>1 DEF Answer, Call
<1> QED
  BY <1>2, <1>3 DEF Only

LEMMA EndEffect ==
    ASSUME call \in [Actors -> Call], NEW a \in Actors, End(a)
    PROVE  Only(a) /\ call'[a] = Idle
  BY IdleType DEF End, Only

LEMMA LockStep ==
    ASSUME Control, NEW a \in Actors, Only(a), UNCHANGED environment,
           HoldsWrite(a)' => writeLock \in {NoOne, a} /\ writeLock' = a,
           ~HoldsWrite(a)' => writeLock' = Released(writeLock, a),
           HoldsRefresh(a)' => refreshLock \in {NoOne, a} /\ refreshLock' = a,
           ~HoldsRefresh(a)' => refreshLock' = Released(refreshLock, a)
    PROVE  /\ Locks' /\ writeLock' \in Actors \cup {NoOne} /\ refreshLock' \in Actors \cup {NoOne}
           /\ \A b \in Actors \ {a} : Role(b)'
<1>1. \A b \in Actors \ {a} : /\ Role(b)'
                              /\ HoldsWrite(b)' <=> HoldsWrite(b)
                              /\ HoldsRefresh(b)' <=> HoldsRefresh(b)
  BY DEF Control, Only, Role, HoldsWrite, HoldsRefresh, At, Op, Out
<1>2. NoOne \notin Actors
  BY NoOneAssumption DEF Actors
<1>3. \A b \in Actors : writeLock' = b <=> HoldsWrite(b)'
  BY <1>1, <1>2 DEF Control, Locks, TypeOK, Released
<1>4. \A b \in Actors : refreshLock' = b <=> HoldsRefresh(b)'
  BY <1>1, <1>2 DEF Control, Locks, TypeOK, Released
<1> QED
  BY <1>1, <1>3, <1>4 DEF Locks, Control, TypeOK, Released

LEMMA RefreshedType ==
    ASSUME cache \in Token, NEW token \in Token
    PROVE  /\ Refreshed(token) \in Token
           /\ Refreshed(token).session = token.session
           /\ Refreshed(token).generation = token.generation + 1
           /\ Refreshed(token).refreshable
           /\ Refreshed(token).revision = cache.revision + 1
  BY DEF Refreshed, Token, Lives

\* Two refreshes are never out at a time, and nobody saves a portal token meanwhile.
LEMMA OneOut ==
    ASSUME Control, NEW a \in Refreshers, Out(a)
    PROVE  /\ \A b \in Refreshers \ {a} : ~Out(b)
           /\ \A b \in Actors : ~At(b, "saving")
<1>1. a \in Actors /\ Refreshers \subseteq Actors
  BY DEF Refreshers, Actors
<1>2. environment \in {"SIM", "LIVE"}
  BY DEF Control, TypeOK
<1>3. CASE environment = "LIVE"
  <2>1. \A b \in Actors : HoldsRefresh(b) <=> b \in Refreshers /\ Out(b)
    BY <1>3 DEF HoldsRefresh
  <2>2. \A b \in Refreshers \ {a} : ~Out(b)
    BY <1>1, <2>1 DEF Control, Locks
  <2>3. \A b \in Actors : ~At(b, "saving")
    BY <1>3 DEF Control, Role, At, Out
  <2> QED
    BY <2>2, <2>3
<1>4. CASE environment = "SIM"
  <2>1. writeLock = a
    BY <1>1, <1>4 DEF Control, Locks, HoldsWrite
  <2>2. \A b \in Refreshers \ {a} : ~Out(b)
    BY <1>1, <1>4, <2>1 DEF Control, Locks, HoldsWrite
  <2>3. ASSUME NEW b \in Actors, At(b, "saving") PROVE FALSE
    <3>1. b \in Refreshers
      BY <2>3 DEF Control, Role, At, Out, Refreshers
    <3>2. b = a
      BY <1>4, <2>1, <2>3, <3>1 DEF Control, Locks, HoldsWrite
    <3> QED
      BY <2>3, <3>2 DEF At, Out
  <2> QED
    BY <2>2, <2>3
<1> QED
  BY <1>2, <1>3, <1>4

--------------------------------------------------------------------------------
(* The invariant, by what a step does with the token in an actor's hands.      *)

\* The actor has nothing in its hands afterwards, and threw no token away.
LEMMA QuietStep ==
    ASSUME SessionInv, NEW a \in Actors, Only(a), Role(a)',
           call'[a].at \in {"idle", "waiting", "locked"}, At(a, "idle")' => call'[a] = Idle,
           ~(At(a, "answered") /\ call[a].answer = "issued"),
           UNCHANGED <<environment, cache, grants, ended, lost, logins, ages, marker, attempted, pending>>,
           calls' \in Nat, faults' \in Nat,
           stopped' \in [Keepers -> Nat], condemned' \in [Keepers -> Nat],
           refused' \in [Keepers -> [revision : Nat, times : Nat]],
           writeLock' = Released(writeLock, a),
           IF environment = "SIM" /\ a \in Keepers /\ At(a, "locked")'
           THEN refreshLock \in {NoOne, a} /\ refreshLock' = a
           ELSE refreshLock' = Released(refreshLock, a)
    PROVE  SessionInv'
<1> USE DEF At
<1>1. Control /\ Data /\ TypeOK
  BY DEF SessionInv, Control
<1>2. ~Out(a)'
  BY DEF Out
<1>3. Locks' /\ writeLock' \in Actors \cup {NoOne} /\ refreshLock' \in Actors \cup {NoOne}
      /\ \A b \in Actors \ {a} : Role(b)'
  <2>1. ~HoldsWrite(a)'
    BY <1>2 DEF HoldsWrite
  <2>2. HoldsRefresh(a)' <=> environment = "SIM" /\ a \in Keepers /\ At(a, "locked")'
    BY <1>1, <1>2 DEF HoldsRefresh, TypeOK
  <2> QED
    BY <1>1, <2>1, <2>2, LockStep
<1>4. TypeOK'
  BY <1>1, <1>3 DEF TypeOK, Only
<1>5. \A b \in Actors : Out(b)' => b # a /\ Out(b) /\ call'[b] = call[b]
  BY <1>2 DEF Only, Out
<1>6. Numbered'
  BY <1>1, <1>5 DEF Data, Numbered, Session
<1>7. OwnSession'
  BY <1>1, <1>5 DEF Data, OwnSession, Session, Actors
<1>8. OwnToken'
  BY <1>1, <1>5 DEF Data, OwnToken, Session, Actors, Refreshers
<1>9. Rotated'
  BY <1>1, <1>5 DEF Data, Rotated, Session, Out
<1>10. Marked'
  BY <1>1 DEF Data, Marked
<1>11. NothingToDiscard'
  BY <1>1 DEF Data, NothingToDiscard, Only, Op, Refreshable, CachePresent, Actors
<1>12. CachedTokenUsable'
  <2>1. BeingSaved(cache.session) => BeingSaved(cache.session)'
    BY DEF BeingSaved, Only
  <2> QED
    BY <1>1, <2>1 DEF Data, CachedTokenUsable, Refreshable, CachePresent
<1> QED
  BY <1>3, <1>4, <1>6, <1>7, <1>8, <1>9, <1>10, <1>11, <1>12 DEF SessionInv, Control, Data

\* A refresh presents the token of the file.
LEMMA AskStep ==
    ASSUME SessionInv, NEW a \in Refreshers, Only(a), ~Out(a), Role(a)', Refreshable,
           call'[a].at = "asking", call'[a].token = cache,
           UNCHANGED <<environment, cache, grants, ended, lost, logins, calls, ages, faults, stopped, refused, condemned, pending>>,
           \/ UNCHANGED <<marker, attempted>>
           \/ marker' = cache.revision /\ attempted' = attempted \cup {cache.revision},
           environment = "SIM" => writeLock = NoOne /\ writeLock' = a,
           environment = "LIVE" => writeLock' = writeLock,
           HoldsRefresh(a)' => refreshLock \in {NoOne, a} /\ refreshLock' = a,
           ~HoldsRefresh(a)' => refreshLock' = Released(refreshLock, a)
    PROVE  SessionInv'
<1> USE DEF At
<1>1. Control /\ Data /\ TypeOK /\ a \in Actors
  BY DEF SessionInv, Control, Refreshers, Actors
<1>2. Out(a)'
  BY DEF Out
<1>3. environment \in {"SIM", "LIVE"} /\ cache \in Token /\ NoOne \notin Actors /\ Refreshers \subseteq Actors
  BY <1>1, NoOneAssumption DEF TypeOK, Actors, Refreshers
<1>4. \A b \in Refreshers \ {a} : ~Out(b)
  <2>1. CASE environment = "SIM"
    BY <1>1, <1>3, <2>1 DEF Control, Locks, HoldsWrite
  <2>2. CASE environment = "LIVE"
    <3>1. HoldsRefresh(a)'
      BY <1>2, <2>2 DEF HoldsRefresh
    <3> QED
      BY <1>1, <1>3, <2>2, <3>1 DEF Control, Locks, HoldsRefresh
  <2> QED
    BY <1>3, <2>1, <2>2
<1>5. Locks' /\ writeLock' \in Actors \cup {NoOne} /\ refreshLock' \in Actors \cup {NoOne}
      /\ \A b \in Actors \ {a} : Role(b)'
  <2>1. HoldsWrite(a)' <=> environment = "SIM"
    BY <1>2 DEF HoldsWrite
  <2>2. environment = "LIVE" => ~HoldsWrite(a)
    BY DEF HoldsWrite
  <2>3. ~HoldsWrite(a)' => writeLock' = Released(writeLock, a)
    BY <1>1, <1>3, <2>1, <2>2 DEF Control, Locks, Released
  <2> QED
    BY <1>1, <2>1, <2>3, LockStep
<1>6. TypeOK'
  BY <1>1, <1>3, <1>5 DEF TypeOK, Only, Token
<1>7. \A b \in Actors \ {a} : call'[b] = call[b]
  BY DEF Only
<1>8. cache.session \in 1..logins /\ cache.refreshable
  BY <1>1 DEF Refreshable, Data, Numbered
<1>9. Numbered'
  BY <1>1, <1>7, <1>8 DEF Data, Numbered, Session, Out
<1>10. OwnSession'
  <2>1. a \notin Users
    BY ActorAssumption DEF Refreshers
  <2> QED
    BY <1>1, <1>7, <2>1 DEF Data, OwnSession, Session, Out, Actors
<1>11. OwnToken'
  BY <1>3, <1>4, <1>7, <1>8 DEF OwnToken, Session, Out
<1>12. cache.session \notin lost => cache.generation = grants[cache.session]
  <2>1. ~BeingSaved(cache.session)
    <3> SUFFICES ASSUME NEW b \in Actors, At(b, "answered"), Session(b) = cache.session PROVE FALSE
      BY DEF BeingSaved, Session
    <3>1. Out(b) /\ b # a
      BY DEF Out
    <3> QED
      BY <1>1, <1>4, <3>1 DEF Data, OwnSession, Actors, Refreshers
  <2> QED
    BY <1>1, <2>1 DEF Data, CachedTokenUsable
<1>13. Rotated'
  BY <1>1, <1>7, <1>12 DEF Data, Rotated, Session
<1>14. Marked'
  BY <1>1, <1>3 DEF Data, Marked, Token
<1>15. NothingToDiscard'
  BY <1>1, <1>7 DEF Data, NothingToDiscard, Op, Refreshable, CachePresent, Actors
<1>16. CachedTokenUsable'
  BY <1>12 DEF CachedTokenUsable
<1> QED
  BY <1>1, <1>5, <1>6, <1>9, <1>10, <1>11, <1>13, <1>14, <1>15, <1>16 DEF SessionInv, Control, Data

\* A refresh saves what Saxo issued.
LEMMA SaveStep ==
    ASSUME SessionInv, NEW a \in Refreshers, At(a, "answered"), call[a].answer = "issued", Only(a), call'[a] = Idle,
           cache' = Refreshed(call[a].token),
           UNCHANGED <<environment, grants, ended, lost, logins, calls, ages, refused, condemned, attempted, pending>>,
           marker' \in {marker, 0}, faults' \in Nat, stopped' \in [Keepers -> Nat],
           writeLock' = Released(writeLock, a), refreshLock' = Released(refreshLock, a)
    PROVE  SessionInv'
<1> USE DEF At
<1>1. Control /\ Data /\ TypeOK /\ a \in Actors /\ call[a] \in Call
  BY DEF SessionInv, Control, TypeOK, Refreshers, Actors
<1>2. Out(a) /\ ~Out(a)' /\ call'[a].at = "idle"
  BY IdleType DEF Out
<1>3. cache \in Token /\ Refreshers \subseteq Actors /\ call[a].token \in Token
  BY <1>1 DEF TypeOK, Actors, Refreshers, Call
<1>4. /\ \A b \in Refreshers \ {a} : ~Out(b)
      /\ \A b \in Actors : ~At(b, "saving")
  BY <1>1, <1>2, OneOut
<1>5. Locks' /\ writeLock' \in Actors \cup {NoOne} /\ refreshLock' \in Actors \cup {NoOne}
      /\ \A b \in Actors \ {a} : Role(b)'
  <2>1. ~HoldsWrite(a)' /\ ~HoldsRefresh(a)'
    BY <1>2 DEF HoldsWrite, HoldsRefresh
  <2> QED
    BY <1>1, <2>1, LockStep
<1>6. /\ cache' \in Token /\ cache'.session = Session(a) /\ cache'.refreshable
      /\ cache'.generation = call[a].token.generation + 1 /\ cache'.revision = cache.revision + 1
  BY <1>3, RefreshedType DEF Session
<1>7. marker' \in Nat
  BY <1>1 DEF TypeOK
<1>8. TypeOK'
  BY <1>1, <1>5, <1>6, <1>7 DEF TypeOK, Only
<1>9. \A b \in Actors : Out(b)' => b # a /\ Out(b) /\ call'[b] = call[b]
  BY <1>2 DEF Only, Out
<1>10. Session(a) \in 1..logins
  BY <1>1, <1>2 DEF Data, Numbered
<1>11. Numbered'
  BY <1>1, <1>6, <1>9, <1>10 DEF Data, Numbered, Session
<1>12. OwnSession'
  BY <1>1, <1>2, <1>6, <1>9 DEF Data, OwnSession, Session, Actors
<1>13. OwnToken'
  BY <1>3, <1>4, <1>9 DEF OwnToken
<1>14. Rotated'
  BY <1>1, <1>9 DEF Data, Rotated, Session, Out
<1>15. Marked'
  <2>1. cache.revision \in Nat /\ attempted \subseteq Nat
    BY <1>1, <1>3 DEF TypeOK, Token
  <2>2. \A r \in attempted : r <= cache'.revision /\ r # cache'.revision
    BY <1>1, <1>6, <2>1 DEF Data, Marked
  <2> QED
    BY <2>2 DEF Marked
<1>16. NothingToDiscard'
  BY <1>2, <1>4 DEF NothingToDiscard, Only, Actors
<1>17. CachedTokenUsable'
  BY <1>1, <1>6 DEF Data, CachedTokenUsable, Rotated, Session
<1> QED
  BY <1>1, <1>2, <1>5, <1>8, <1>11, <1>12, <1>13, <1>14, <1>15, <1>16, <1>17 DEF SessionInv, Control, Data, Role

\* A login or an exchange saves the first token of its session.
LEMMA LoginStepSaves ==
    ASSUME SessionInv, NEW u \in Users, At(u, "answered"), call[u].answer = "issued", Only(u), call'[u] = Idle,
           writeLock = NoOne, cache' = Refreshed(call[u].token), pending' \in BOOLEAN,
           UNCHANGED <<environment, grants, ended, lost, writeLock, refreshLock, logins, calls, ages, faults,
                       stopped, refused, condemned, marker, attempted>>
    PROVE  SessionInv'
<1> USE DEF At
<1>1. Control /\ Data /\ TypeOK /\ u \in Actors /\ call[u] \in Call /\ u \notin Refreshers
  BY ActorAssumption DEF SessionInv, Control, TypeOK, Refreshers, Actors
<1>2. Out(u) /\ ~Out(u)' /\ call'[u].at = "idle"
  BY IdleType DEF Out
<1>3. cache \in Token /\ call[u].token \in Token /\ environment \in {"SIM", "LIVE"} /\ NoOne \notin Actors
  BY <1>1, NoOneAssumption DEF TypeOK, Call, Actors
<1>4. environment = "SIM" => \A b \in Refreshers : ~Out(b) /\ ~At(b, "saving")
  BY <1>1, <1>3 DEF Control, Locks, HoldsWrite, Actors, Refreshers
<1>5. Locks' /\ writeLock' \in Actors \cup {NoOne} /\ refreshLock' \in Actors \cup {NoOne}
      /\ \A b \in Actors \ {u} : Role(b)'
  <2>1. ~HoldsWrite(u)' /\ ~HoldsRefresh(u)' /\ ~HoldsWrite(u) /\ ~HoldsRefresh(u)
    BY <1>1 DEF HoldsWrite, HoldsRefresh, Refreshers
  <2>2. writeLock' = Released(writeLock, u) /\ refreshLock' = Released(refreshLock, u)
    BY <1>1, <2>1 DEF Control, Locks, Released
  <2> QED
    BY <1>1, <2>1, <2>2, LockStep
<1>6. /\ cache' \in Token /\ cache'.session = Session(u) /\ cache'.refreshable
      /\ cache'.generation = call[u].token.generation + 1 /\ cache'.revision = cache.revision + 1
  BY <1>3, RefreshedType DEF Session
<1>7. TypeOK'
  BY <1>1, <1>5, <1>6 DEF TypeOK, Only
<1>8. \A b \in Actors : Out(b)' => b # u /\ Out(b) /\ call'[b] = call[b]
  BY <1>2 DEF Only, Out
<1>9. Session(u) \in 1..logins /\ \A b \in Actors \ {u} : Out(b) => Session(b) # Session(u)
  BY <1>1, <1>2 DEF Data, Numbered, OwnSession
<1>10. Numbered'
  BY <1>1, <1>6, <1>8, <1>9 DEF Data, Numbered, Session
<1>11. OwnSession'
  BY <1>1, <1>6, <1>8, <1>9 DEF Data, OwnSession, Session, Actors
<1>12. OwnToken'
  BY <1>1, <1>3, <1>4, <1>6, <1>8, <1>9 DEF Data, OwnToken, Session, Actors, Refreshers
<1>13. Rotated'
  BY <1>1, <1>8 DEF Data, Rotated, Session, Out
<1>14. Marked'
  <2>1. cache.revision \in Nat /\ attempted \subseteq Nat
    BY <1>1, <1>3 DEF TypeOK, Token
  <2>2. \A r \in attempted : r <= cache'.revision /\ r # cache'.revision
    BY <1>1, <1>6, <2>1 DEF Data, Marked
  <2> QED
    BY <2>2 DEF Marked
<1>15. NothingToDiscard'
  <2>1. \A c \in Tools : ~At(c, "saving")
    BY <1>1, <1>3, <1>4 DEF Control, Role, Out, Actors, Refreshers
  <2> QED
    BY <1>1, <2>1 DEF NothingToDiscard, Only, Actors, Refreshers
<1>16. CachedTokenUsable'
  BY <1>1, <1>6 DEF Data, CachedTokenUsable, Rotated, Session
<1> QED
  BY <1>1, <1>2, <1>5, <1>7, <1>10, <1>11, <1>12, <1>13, <1>14, <1>15, <1>16 DEF SessionInv, Control, Data, Role

LEMMA SessionBounds ==
    ASSUME TypeOK, Numbered
    PROVE  /\ logins \in Nat /\ MaxLogins \in Nat /\ logins <= MaxLogins
           /\ lost \subseteq 1..logins /\ 1..logins \subseteq 1..MaxLogins
           /\ \A b \in Actors : Out(b) => Session(b) \in 1..logins /\ Session(b) \in 1..MaxLogins
           /\ Refreshable => cache.session \in 1..logins /\ cache.session \in 1..MaxLogins
<1>1. logins \in Nat /\ MaxLogins \in Nat /\ logins <= MaxLogins
  BY BoundAssumption DEF TypeOK
<1>2. 1..logins \subseteq 1..MaxLogins
  BY <1>1
<1> QED
  BY <1>1, <1>2 DEF Numbered, Refreshable

\* A token in an actor's hands, or the answer to it, is thrown away: its session is lost.
LEMMA LostStep ==
    ASSUME SessionInv, NEW a \in Actors, Out(a), Only(a), call'[a] = Idle,
           lost' = lost \cup {Session(a)},
           grants' = grants \/ (At(a, "asking") /\ Rotate(Session(a))),
           UNCHANGED <<environment, cache, ended, logins, calls, ages, attempted, marker, pending>>,
           faults' \in Nat, stopped' \in [Keepers -> Nat], condemned' \in [Keepers -> Nat],
           refused' \in [Keepers -> [revision : Nat, times : Nat]],
           writeLock' = Released(writeLock, a), refreshLock' = Released(refreshLock, a)
    PROVE  SessionInv'
<1> USE DEF At
<1>1. Control /\ Data /\ TypeOK
  BY DEF SessionInv, Control
<1>2. ~Out(a)' /\ call'[a].at = "idle"
  BY IdleType DEF Out
<1>3. Session(a) \in 1..logins /\ Session(a) \in 1..MaxLogins /\ logins \in Nat
  BY <1>1, SessionBounds DEF Data
<1>4. Locks' /\ writeLock' \in Actors \cup {NoOne} /\ refreshLock' \in Actors \cup {NoOne}
      /\ \A b \in Actors \ {a} : Role(b)'
  <2>1. ~HoldsWrite(a)' /\ ~HoldsRefresh(a)'
    BY <1>2 DEF HoldsWrite, HoldsRefresh
  <2> QED
    BY <1>1, <2>1, LockStep
<1>5. grants' \in [1..MaxLogins -> Nat] /\ \A s \in 1..MaxLogins : s # Session(a) => grants'[s] = grants[s]
  <2>1. grants \in [1..MaxLogins -> Nat]
    BY <1>1 DEF TypeOK
  <2>2. CASE grants' = grants
    BY <2>1, <2>2
  <2>3. CASE grants' = [grants EXCEPT ![Session(a)] = @ + 1]
    BY <2>1, <2>3, <1>3
  <2> QED
    BY <2>2, <2>3 DEF Rotate
<1>6. lost' \subseteq 1..MaxLogins
  BY <1>1, <1>3 DEF TypeOK
<1>7. TypeOK'
  BY <1>1, <1>4, <1>5, <1>6 DEF TypeOK, Only
<1>8. \A b \in Actors : Out(b)' => b # a /\ Out(b) /\ call'[b] = call[b]
  BY <1>2 DEF Only, Out
<1>9. Numbered'
  <2>1. \A s \in 1..MaxLogins : s > logins => grants'[s] = 0
    BY <1>1, <1>3, <1>5 DEF Data, Numbered, TypeOK
  <2> QED
    BY <1>1, <1>3, <1>8, <2>1 DEF Data, Numbered, Session
<1>10. OwnSession'
  BY <1>1, <1>8 DEF Data, OwnSession, Session, Actors
<1>11. OwnToken'
  BY <1>1, <1>8 DEF Data, OwnToken, Session, Actors, Refreshers
<1>12. Rotated'
  <2> SUFFICES ASSUME NEW b \in Actors, Out(b)', Session(b)' \notin lost'
               PROVE  /\ At(b, "asking")' => grants'[Session(b)'] = call'[b].token.generation
                      /\ At(b, "answered")' /\ call'[b].answer = "issued" =>
                            grants'[Session(b)'] = call'[b].token.generation + 1
    BY DEF Rotated, Out
  <2>1. call'[b] = call[b] /\ Session(b)' = Session(b) /\ Session(b) # Session(a) /\ Session(b) \notin lost
        /\ Out(b)
    BY <1>8 DEF Session
  <2>2. Session(b) \in 1..MaxLogins
    BY <1>1, <2>1, SessionBounds DEF Data
  <2> QED
    BY <1>1, <1>5, <2>1, <2>2 DEF Data, Rotated
<1>13. Marked' /\ NothingToDiscard'
  BY <1>1, <1>2 DEF Data, Marked, NothingToDiscard, Only, Op, Refreshable, CachePresent, Actors
<1>14. CachedTokenUsable'
  <2> SUFFICES ASSUME Refreshable, cache.session \notin lost'
               PROVE  cache.generation = grants'[cache.session] \/ BeingSaved(cache.session)'
    BY DEF CachedTokenUsable, Refreshable, CachePresent
  <2>1. cache.session \in 1..MaxLogins /\ cache.session # Session(a) /\ cache.session \notin lost
    BY <1>1, SessionBounds DEF Data
  <2>2. BeingSaved(cache.session) => BeingSaved(cache.session)'
    BY <2>1 DEF BeingSaved, Only, Session
  <2> QED
    BY <1>1, <1>5, <2>1, <2>2 DEF Data, CachedTokenUsable
<1> QED
  BY <1>1, <1>2, <1>4, <1>7, <1>9, <1>10, <1>11, <1>12, <1>13, <1>14 DEF SessionInv, Control, Data, Role

\* The endpoint answers, or the answer never comes.
LEMMA RespondStep ==
    ASSUME SessionInv, NEW a \in Actors, Responds(a)
    PROVE  SessionInv'
<1> USE DEF At
<1>1. Control /\ Data /\ TypeOK
  BY DEF SessionInv, Control
<1>2. At(a, "asking") /\ Out(a)
  BY DEF Responds, Respond, Condemn, Issue, IssueUnheard, Reject, Unanswered, Out
<1>3. UNCHANGED <<environment, cache, ended, writeLock, refreshLock, logins, calls, ages, stopped, refused, simVars>>
  BY DEF Responds, Respond, Condemn, Issue, IssueUnheard, Reject, Unanswered, EndpointFrame, liveVars
<1>4. PICK answer \in Answers : Answer(a, answer) /\ (answer = "issued" => Issue(a))
  BY DEF Responds, Respond, Condemn, Issue, IssueUnheard, Reject, Unanswered, Answers
<1>5. /\ Only(a) /\ call'[a].at = "answered" /\ call'[a].answer = answer
      /\ call'[a].token = call[a].token /\ call'[a].op = call[a].op
  BY <1>1, <1>4, AnswerEffect DEF TypeOK
<1>6. \/ grants' = grants /\ lost' = lost /\ answer # "issued"
      \/ Rotate(Session(a)) /\ lost' = lost /\ answer = "issued"
      \/ Rotate(Session(a)) /\ lost' = lost \cup {Session(a)} /\ answer # "issued"
  <2>1. CASE Issue(a)
    <3>1. call'[a].answer = "issued"
      BY <1>1, <2>1, AnswerEffect DEF Issue, TypeOK, Answers
    <3> QED
      BY <1>5, <2>1, <3>1 DEF Issue, Session
  <2>2. CASE IssueUnheard(a)
    <3>1. call'[a].answer = "unanswered"
      BY <1>1, <2>2, AnswerEffect DEF IssueUnheard, TypeOK, Answers
    <3> QED
      BY <1>5, <2>2, <3>1 DEF IssueUnheard, Session
  <2>3. CASE Reject(a) \/ Unanswered(a)
    <3>1. call'[a].answer \in {"rejected", "unanswered"}
      BY <1>1, <2>3, AnswerEffect DEF Reject, Unanswered, TypeOK, Answers
    <3> QED
      BY <1>5, <2>3, <3>1 DEF Reject, Unanswered
  <2>4. CASE Condemn(a)
    <3>1. call'[a].answer = "rejected"
      BY <1>1, <2>4, AnswerEffect DEF Condemn, TypeOK, Answers
    <3> QED
      BY <1>5, <2>4, <3>1 DEF Condemn, Session
  <2> QED
    BY <2>1, <2>2, <2>3, <2>4 DEF Responds, Respond
<1>7. Session(a) \in 1..logins /\ Session(a) \in 1..MaxLogins /\ logins \in Nat
  BY <1>1, <1>2, SessionBounds DEF Data
<1>8. /\ grants' \in [1..MaxLogins -> Nat]
      /\ \A s \in 1..MaxLogins : s # Session(a) => grants'[s] = grants[s]
      /\ answer = "issued" => grants'[Session(a)] = grants[Session(a)] + 1
      /\ lost \subseteq lost' /\ lost' \subseteq lost \cup {Session(a)}
      /\ Session(a) \in lost' \/ grants' = grants \/ answer = "issued"
  <2>1. grants \in [1..MaxLogins -> Nat]
    BY <1>1 DEF TypeOK
  <2>2. CASE grants' = grants /\ lost' = lost /\ answer # "issued"
    BY <2>1, <2>2
  <2>3. CASE Rotate(Session(a))
    <3>1. grants' = [grants EXCEPT ![Session(a)] = grants[Session(a)] + 1]
      BY <2>3 DEF Rotate
    <3>2. grants' \in [1..MaxLogins -> Nat]
          /\ (\A s \in 1..MaxLogins : s # Session(a) => grants'[s] = grants[s])
          /\ grants'[Session(a)] = grants[Session(a)] + 1
      BY <3>1, <2>1, <1>7
    <3> QED
      BY <3>2, <1>6
  <2> QED
    BY <1>6, <2>2, <2>3
<1>9. \A b \in Actors : /\ Out(b)' <=> Out(b)
                        /\ Op(b)' = Op(b)
                        /\ At(b, "saving")' <=> At(b, "saving")
                        /\ At(b, "locked")' <=> At(b, "locked")
                        /\ call'[b].token = call[b].token
                        /\ Role(b)'
  BY <1>1, <1>2, <1>3, <1>5 DEF Only, Out, Op, Control, Role
<1>10. Locks'
  BY <1>1, <1>3, <1>9 DEF Control, Locks, HoldsWrite, HoldsRefresh
<1>11. TypeOK'
  <2>1. lost' \subseteq 1..MaxLogins
    BY <1>1, <1>7, <1>8, BoundAssumption DEF TypeOK
  <2>2. faults' \in Nat
    BY <1>1 DEF Responds, Respond, Condemn, Issue, IssueUnheard, Reject, Unanswered, EndpointFrame, TypeOK
  <2>3. condemned' \in [Keepers -> Nat]
    <3>1. condemned \in [Keepers -> Nat] /\ call[a].seen \in Nat
      BY <1>1 DEF TypeOK, Call
    <3>2. condemned' = condemned \/ condemned' = [condemned EXCEPT ![a] = call[a].seen]
      BY DEF Responds, Condemn, liveVars
    <3> QED
      BY <3>1, <3>2
  <2> QED
    BY <1>1, <1>3, <1>5, <1>8, <2>1, <2>2, <2>3 DEF TypeOK, Only, simVars
<1>12. Numbered'
  <2>1. \A s \in 1..MaxLogins : s > logins => grants'[s] = 0
    BY <1>1, <1>7, <1>8 DEF Data, Numbered, TypeOK
  <2>2. \A b \in Actors : Session(b)' = Session(b)
    BY <1>9 DEF Session
  <2> QED
    BY <1>1, <1>3, <1>7, <1>8, <1>9, <2>1, <2>2 DEF Data, Numbered
<1>13. OwnSession' /\ OwnToken'
  BY <1>1, <1>3, <1>9 DEF Data, OwnSession, OwnToken, Session, Actors, Refreshers
<1>14. \A b \in Actors \ {a} : Out(b) => Session(b) # Session(a)
  <2> SUFFICES ASSUME NEW b \in Actors \ {a}, Out(b), Session(b) = Session(a) PROVE FALSE
    OBVIOUS
  <2>1. a \in Refreshers /\ b \in Refreshers
    BY <1>1, <1>2 DEF Data, OwnSession, Actors, Refreshers
  <2> QED
    BY <1>1, <1>2, <2>1, OneOut
<1>15. Rotated'
  <2>1. Session(a)' = Session(a) /\ \A b \in Actors \ {a} : call'[b] = call[b] /\ Session(b)' = Session(b)
    BY <1>5 DEF Only, Session
  <2>2. \A b \in Actors \ {a} : Out(b) => grants'[Session(b)] = grants[Session(b)]
    BY <1>1, <1>8, <1>14, SessionBounds DEF Data
  <2>3. ASSUME NEW b \in Actors \ {a}, Session(b) \notin lost'
        PROVE  /\ At(b, "asking") => grants'[Session(b)] = call[b].token.generation
               /\ At(b, "answered") /\ call[b].answer = "issued" =>
                     grants'[Session(b)] = call[b].token.generation + 1
    BY <1>1, <1>8, <2>2, <2>3 DEF Data, Rotated, Out
  <2>4. Session(a) \notin lost' /\ answer = "issued" => grants'[Session(a)] = call[a].token.generation + 1
    BY <1>1, <1>2, <1>8 DEF Data, Rotated
  <2> QED
    BY <1>5, <2>1, <2>3, <2>4 DEF Rotated
<1>16. Marked' /\ NothingToDiscard'
  <2>1. marker' = marker /\ attempted' = attempted
    BY <1>3 DEF simVars
  <2>2. \A c \in Tools : (Op(c)' = Op(c)) /\ (At(c, "saving")' <=> At(c, "saving"))
    BY <1>9 DEF Actors
  <2>3. NothingToDiscard'
    BY <1>1, <1>3, <2>2 DEF Data, NothingToDiscard, Refreshable, CachePresent
  <2> QED
    BY <1>1, <1>3, <2>1, <2>3 DEF Data, Marked
<1>17. CachedTokenUsable'
  <2> SUFFICES ASSUME Refreshable, cache.session \notin lost'
               PROVE  cache.generation = grants'[cache.session] \/ BeingSaved(cache.session)'
    BY <1>3 DEF CachedTokenUsable, Refreshable, CachePresent
  <2>1. cache.session \in 1..MaxLogins /\ cache.session \notin lost
    BY <1>1, <1>8, SessionBounds DEF Data
  <2>2. BeingSaved(cache.session) => BeingSaved(cache.session)'
    BY <1>2, <1>3, <1>5 DEF BeingSaved, Only
  <2>3. cache.session = Session(a) /\ answer = "issued" => BeingSaved(cache.session)'
    BY <1>3, <1>5 DEF BeingSaved, Session
  <2> QED
    BY <1>1, <1>8, <2>1, <2>2, <2>3 DEF Data, CachedTokenUsable
<1> QED
  BY <1>9, <1>10, <1>11, <1>12, <1>13, <1>15, <1>16, <1>17 DEF SessionInv, Control, Data

\* A code is sent: it is the first of its session.
LEMMA SendStep ==
    ASSUME SessionInv, NEW u \in Users, NEW op \in {"login", "exchange"}, logins < MaxLogins, logins' = logins + 1,
           call' = [call EXCEPT ![u] = [Idle EXCEPT !.op = op, !.at = "asking",
                                                    !.token = [NoToken EXCEPT !.session = logins + 1]]],
           At(u, "idle"),
           UNCHANGED <<environment, cache, grants, ended, lost, writeLock, refreshLock, calls, ages, faults, liveVars, simVars>>
    PROVE  SessionInv'
<1> USE DEF At
<1>1. Control /\ Data /\ TypeOK /\ u \in Actors /\ u \notin Refreshers
  BY ActorAssumption DEF SessionInv, Control, Refreshers, Actors
<1>2. logins \in Nat /\ MaxLogins \in Nat /\ logins + 1 \in 1..MaxLogins /\ lost \subseteq 1..logins
      /\ \A b \in Actors : Out(b) => Session(b) \in 1..logins
  BY <1>1, SessionBounds DEF Data
<1>3. /\ Only(u) /\ call'[u].at = "asking" /\ call'[u].op = op
      /\ call'[u].token.session = logins + 1 /\ call'[u].token.generation = 0
  <2>1. call \in [Actors -> Call] /\ logins + 1 \in Nat
    BY <1>1, <1>2 DEF TypeOK
  <2> QED
    BY <1>1, <2>1, SendEffect
<1>4. Locks' /\ \A b \in Actors \ {u} : Role(b)'
  <2>1. ~HoldsWrite(u)' /\ ~HoldsRefresh(u)' /\ ~HoldsWrite(u) /\ ~HoldsRefresh(u)
    BY <1>1 DEF HoldsWrite, HoldsRefresh, Refreshers
  <2>2. writeLock' = Released(writeLock, u) /\ refreshLock' = Released(refreshLock, u)
    BY <1>1, <2>1 DEF Control, Locks, Released
  <2> QED
    BY <1>1, <1>3, <2>1, <2>2, LockStep
<1>5. Role(u)'
  BY <1>3 DEF Role, Op, Out
<1>6. TypeOK'
  BY <1>1, <1>2, <1>3 DEF TypeOK, Only, liveVars, simVars
<1>7. \A b \in Actors \ {u} : call'[b] = call[b] /\ (Out(b)' <=> Out(b)) /\ Session(b)' = Session(b)
  BY <1>3 DEF Only, Out, Session
<1>8. Session(u)' = logins + 1 /\ 1..logins \subseteq 1..logins'
  BY <1>2, <1>3 DEF Session
<1>9. Numbered'
  <2>1. cache'.session \in 0..logins' \cup {MaxLogins + 1}
    BY <1>1, <1>2 DEF Data, Numbered
  <2>2. \A b \in Actors : Out(b)' => Session(b)' \in 1..logins'
    BY <1>2, <1>7, <1>8
  <2>3. \A s \in 1..MaxLogins : s > logins' => grants'[s] = 0
    BY <1>1, <1>2 DEF Data, Numbered
  <2> QED
    BY <1>1, <1>2, <1>8, <2>1, <2>2, <2>3 DEF Data, Numbered
<1>10. OwnSession'
  <2>1. logins + 1 # cache.session
    BY <1>1, <1>2 DEF Data, Numbered
  <2>2. \A b \in Actors \ {u} : Out(b)' => Session(b)' # logins + 1
    BY <1>2, <1>7
  <2> QED
    BY <1>1, <1>7, <1>8, <2>1, <2>2 DEF Data, OwnSession, Actors
<1>11. OwnToken'
  BY <1>1, <1>7 DEF Data, OwnToken, Actors, Refreshers
<1>12. Rotated'
  <2>1. grants'[Session(u)'] = 0
    BY <1>1, <1>2, <1>8 DEF Data, Numbered
  <2> QED
    BY <1>1, <1>3, <1>7, <2>1 DEF Data, Rotated
<1>13. Marked' /\ NothingToDiscard'
  <2>1. marker' = marker /\ attempted' = attempted
    BY DEF simVars
  <2>2. \A c \in Tools : call'[c] = call[c]
    BY <1>1, <1>3 DEF Only, Actors, Refreshers
  <2>3. NothingToDiscard'
    BY <1>1, <2>2 DEF Data, NothingToDiscard, Refreshable, CachePresent, Op
  <2> QED
    BY <1>1, <2>1, <2>3 DEF Data, Marked
<1>14. CachedTokenUsable'
  <2>1. BeingSaved(cache.session) => BeingSaved(cache.session)'
    BY <1>3 DEF BeingSaved, Only
  <2> QED
    BY <1>1, <2>1 DEF Data, CachedTokenUsable, Refreshable, CachePresent
<1> QED
  BY <1>4, <1>5, <1>6, <1>9, <1>10, <1>11, <1>12, <1>13, <1>14 DEF SessionInv, Control, Data

LEMMA PortalCheckStep ==
    ASSUME SessionInv, NEW c \in Tools, NEW op \in {"portal", "portal_replace"}, environment = "SIM",
           At(c, "waiting"), writeLock = NoOne, op = "portal" => ~Refreshable, writeLock' = c,
           call' = [call EXCEPT ![c].op = op, ![c].at = "saving"],
           UNCHANGED <<environment, cache, grants, ended, lost, refreshLock, logins, calls, ages, faults, liveVars, simVars>>
    PROVE  SessionInv'
<1> USE DEF At
<1>1. Control /\ Data /\ TypeOK /\ c \in Actors /\ c \in Refreshers /\ c \notin Keepers /\ call[c] \in Call
  BY ActorAssumption DEF SessionInv, Control, Refreshers, Actors, TypeOK
<1>2. Only(c) /\ call'[c].at = "saving" /\ call'[c].op = op
  <2> DEFINE next == [call[c] EXCEPT !.op = op, !.at = "saving"]
  <2>1. next \in Call /\ next.at = "saving" /\ next.op = op
    BY <1>1 DEF Call
  <2>2. call' = [call EXCEPT ![c] = next]
    BY <1>1 DEF Call
  <2> QED
    BY <1>1, <2>1, <2>2 DEF Only, TypeOK
<1>3. ~Out(c) /\ ~Out(c)'
  BY <1>2 DEF Out
<1>4. Locks' /\ \A b \in Actors \ {c} : Role(b)'
  <2>1. HoldsWrite(c)' /\ ~HoldsRefresh(c)' /\ ~HoldsRefresh(c)
    BY <1>1, <1>2, <1>3 DEF HoldsWrite, HoldsRefresh
  <2>2. refreshLock' = Released(refreshLock, c)
    BY <1>1, <2>1 DEF Control, Locks, Released
  <2> QED
    BY <1>1, <1>2, <2>1, <2>2, LockStep
<1>5. TypeOK'
  BY <1>1, <1>2 DEF TypeOK, Only, liveVars, simVars
<1>6. \A b \in Actors : Out(b)' => b # c /\ Out(b) /\ call'[b] = call[b]
  BY <1>2, <1>3 DEF Only, Out
<1>7. Numbered' /\ OwnSession'
  BY <1>1, <1>6 DEF Data, Numbered, OwnSession, Session, Actors
<1>8. OwnToken'
  BY <1>1, <1>6 DEF Data, OwnToken, Session, Actors, Refreshers
<1>9. Rotated'
  <2>1. UNCHANGED <<grants, lost>>
    OBVIOUS
  <2>2. ASSUME NEW b \in Actors, Out(b)' PROVE call'[b] = call[b] /\ b \in Actors
    BY <1>6, <2>2
  <2> QED
    BY <1>1, <2>1, <2>2 DEF Data, Rotated, Session, Out
<1>10. Marked' /\ NothingToDiscard'
  <2>1. marker' = marker /\ attempted' = attempted
    BY DEF simVars
  <2>2. \A d \in Tools \ {c} : call'[d] = call[d]
    BY <1>2 DEF Only, Actors
  <2>3. NothingToDiscard'
    BY <1>1, <1>2, <2>2 DEF Data, NothingToDiscard, Refreshable, CachePresent, Op
  <2> QED
    BY <1>1, <2>1, <2>3 DEF Data, Marked
<1>11. CachedTokenUsable'
  <2>1. BeingSaved(cache.session) => BeingSaved(cache.session)'
    BY <1>2 DEF BeingSaved, Only
  <2> QED
    BY <1>1, <2>1 DEF Data, CachedTokenUsable, Refreshable, CachePresent
<1> QED
  BY <1>1, <1>2, <1>4, <1>5, <1>7, <1>8, <1>9, <1>10, <1>11 DEF SessionInv, Control, Data, Role, Op

LEMMA PortalSaveStep ==
    ASSUME SessionInv, NEW c \in Tools, SimPortalSave(c), UNCHANGED liveVars
    PROVE  SessionInv'
<1> USE DEF At
<1>1. Control /\ Data /\ TypeOK /\ c \in Actors /\ c \in Refreshers /\ c \notin Keepers
  BY ActorAssumption DEF SessionInv, Control, Refreshers, Actors
<1>2. Only(c) /\ call'[c] = Idle /\ call'[c].at = "idle" /\ ~Out(c)' /\ environment = "SIM" /\ At(c, "saving")
  BY <1>1, EndEffect, IdleType DEF SimPortalSave, TypeOK, Out
<1>3. /\ UNCHANGED <<environment, grants, ended, lost, refreshLock, logins, calls, ages, faults, marker, attempted, liveVars>>
      /\ pending' = FALSE /\ writeLock' = Released(writeLock, c)
  BY DEF SimPortalSave
<1>4. \A b \in Refreshers : ~Out(b)
  BY <1>1, <1>2, OneOut
<1>5. Locks' /\ writeLock' \in Actors \cup {NoOne} /\ \A b \in Actors \ {c} : Role(b)'
  <2>1. ~HoldsWrite(c)' /\ ~HoldsRefresh(c)' /\ ~HoldsRefresh(c)
    BY <1>1, <1>2 DEF HoldsWrite, HoldsRefresh
  <2>2. refreshLock' = Released(refreshLock, c)
    BY <1>1, <1>3, <2>1 DEF Control, Locks, Released
  <2> QED
    BY <1>1, <1>2, <1>3, <2>1, <2>2, LockStep
<1>6. logins \in Nat /\ MaxLogins \in Nat /\ logins <= MaxLogins /\ cache.revision \in Nat
      /\ \A b \in Actors : Out(b) => Session(b) \in 1..logins
  BY <1>1, SessionBounds DEF Data, TypeOK, Token
<1>7. cache' \in Token /\ cache'.session = MaxLogins + 1 /\ ~cache'.refreshable /\ cache'.revision = cache.revision + 1
  BY <1>6 DEF SimPortalSave, SaveTokenCache, PortalToken, Token, Lives
<1>8. TypeOK'
  BY <1>1, <1>2, <1>3, <1>5, <1>7 DEF TypeOK, Only, liveVars
<1>9. \A b \in Actors : Out(b)' => b # c /\ Out(b) /\ call'[b] = call[b]
  BY <1>2 DEF Only, Out
<1>10. Numbered'
  BY <1>1, <1>3, <1>7, <1>9 DEF Data, Numbered, Session
<1>11. OwnSession'
  <2>1. \A u \in Users : Out(u)' => Session(u)' # cache'.session
    BY <1>6, <1>7, <1>9 DEF Session, Actors
  <2> QED
    BY <1>1, <1>9, <2>1 DEF Data, OwnSession, Session, Actors
<1>12. OwnToken'
  BY <1>4, <1>9 DEF OwnToken, Actors, Refreshers
<1>13. Rotated'
  BY <1>1, <1>3, <1>9 DEF Data, Rotated, Session, Out
<1>14. Marked'
  <2>1. attempted \subseteq Nat
    BY <1>1 DEF TypeOK
  <2>2. \A r \in attempted : r <= cache'.revision /\ r # cache'.revision
    BY <1>1, <1>6, <1>7, <2>1 DEF Data, Marked
  <2> QED
    BY <1>3, <2>2 DEF Marked
<1>15. NothingToDiscard' /\ CachedTokenUsable'
  BY <1>7 DEF NothingToDiscard, CachedTokenUsable, Refreshable
<1> QED
  BY <1>1, <1>2, <1>5, <1>8, <1>10, <1>11, <1>12, <1>13, <1>14, <1>15 DEF SessionInv, Control, Data, Role

--------------------------------------------------------------------------------
(* The invariant, action by action.                                            *)

\* A lock that an actor does not hold is not released.
LEMMA NotHolding ==
    ASSUME Control, NEW a \in Actors
    PROVE  /\ ~HoldsWrite(a) => Released(writeLock, a) = writeLock
           /\ ~HoldsRefresh(a) => Released(refreshLock, a) = refreshLock
  BY DEF Control, Locks, Released

LEMMA HoldsNothing ==
    ASSUME Control, NEW a \in Actors, call[a].at \in {"idle", "waiting"}
    PROVE  Released(writeLock, a) = writeLock /\ Released(refreshLock, a) = refreshLock
<1>1. ~HoldsWrite(a) /\ ~HoldsRefresh(a)
  BY DEF HoldsWrite, HoldsRefresh, Out, At
<1> QED
  BY <1>1, NotHolding

LEMMA StopsType ==
    ASSUME TypeOK, NEW a \in Actors, NEW b \in BOOLEAN, KeeperStops(a, b)
    PROVE  stopped' \in [Keepers -> Nat]
<1>1. call[a] \in Call /\ stopped \in [Keepers -> Nat]
  BY DEF TypeOK
<1>2. call[a].seen \in Nat
  BY <1>1 DEF Call
<1> QED
  BY <1>1, <1>2 DEF KeeperStops

LEMMA LiveStepInv ==
    ASSUME SessionInv, NEW a \in Refreshers, UNCHANGED simVars,
           \/ a \in Keepers /\ LiveKeeperStep(a)
           \/ a \in Tools /\ (LiveToolCall(a) \/ LiveToolStep(a))
    PROVE  SessionInv'
<1> USE DEF At
<1>1. Control /\ Data /\ TypeOK /\ a \in Actors /\ call[a] \in Call
  BY DEF SessionInv, Control, Actors, Refreshers, TypeOK
<1>2. /\ calls \in Nat /\ faults \in Nat /\ stopped \in [Keepers -> Nat]
      /\ condemned \in [Keepers -> Nat] /\ refused \in [Keepers -> [revision : Nat, times : Nat]]
  BY <1>1 DEF TypeOK
<1>3. UNCHANGED <<marker, attempted, pending>>
  BY DEF simVars
<1>4. ASSUME a \in Keepers, LivePoll(a) PROVE SessionInv'
  <2> DEFINE next == [Idle EXCEPT !.op = "keeper", !.at = "waiting", !.seen = cache.revision]
  <2>1. next \in Call /\ next.op = "keeper" /\ next.at = "waiting"
    BY <1>1, IdleType DEF TypeOK, Token, Call, Idle
  <2>2. Only(a) /\ call'[a].op = "keeper" /\ call'[a].at = "waiting"
    BY <1>1, <1>4, <2>1 DEF LivePoll, Only, TypeOK
  <2>3. Role(a)'
    BY <1>4, <2>2 DEF Role, Op
  <2>4. writeLock' = Released(writeLock, a) /\ refreshLock' = Released(refreshLock, a) /\ environment = "LIVE"
    BY <1>1, <1>4, HoldsNothing DEF LivePoll
  <2> QED
    BY <1>1, <1>3, <1>4, <2>2, <2>3, <2>4, <1>2, QuietStep DEF LivePoll, liveVars
<1>5. ASSUME a \in Tools, LiveToolCall(a) PROVE SessionInv'
  <2>1. Only(a) /\ call'[a].op = "tool" /\ call'[a].at = "waiting"
    BY <1>1, <1>5, BeginEffect DEF LiveToolCall, TypeOK
  <2>2. Role(a)'
    BY <1>5, <2>1 DEF Role, Op
  <2>3. writeLock' = Released(writeLock, a) /\ refreshLock' = Released(refreshLock, a) /\ environment = "LIVE"
    BY <1>1, <1>5, HoldsNothing DEF LiveToolCall
  <2> QED
    <3>1. /\ calls' \in Nat /\ call[a].at = "idle"
          /\ UNCHANGED <<environment, cache, grants, ended, lost, logins, ages, faults, stopped, refused, condemned>>
      BY <1>2, <1>5 DEF LiveToolCall, liveVars
    <3> QED
      BY <1>1, <1>2, <1>3, <2>1, <2>2, <2>3, <3>1, QuietStep
<1>6. ASSUME LiveNoRequest(a) PROVE SessionInv'
  <2>1. Only(a) /\ call'[a] = Idle /\ call'[a].at = "idle"
    BY <1>1, <1>6, EndEffect, IdleType DEF LiveNoRequest, TypeOK
  <2>2. writeLock' = Released(writeLock, a) /\ refreshLock' = Released(refreshLock, a) /\ environment = "LIVE"
    BY <1>1, <1>6, HoldsNothing DEF LiveNoRequest
  <2>3. stopped' \in [Keepers -> Nat]
    BY <1>1, <1>6, StopsType DEF LiveNoRequest
  <2> QED
    BY <1>1, <1>3, <1>6, <2>1, <2>2, <2>3, <1>2, QuietStep DEF LiveNoRequest, Role
<1>7. ASSUME LiveRequest(a) PROVE SessionInv'
  <2>1. Only(a) /\ call'[a].at = "asking" /\ call'[a].token = cache /\ call'[a].op = call[a].op
    BY <1>1, <1>7, AskEffect DEF LiveRequest, TypeOK
  <2>2. Role(a)' /\ environment = "LIVE"
    BY <1>1, <1>7, <2>1 DEF LiveRequest, Control, Role, Op, Out
  <2>3. HoldsRefresh(a)' /\ ~Out(a)
    BY <1>7, <2>1, <2>2 DEF HoldsRefresh, LiveRequest, Out
  <2> QED
    BY <1>1, <1>3, <1>7, <2>1, <2>2, <2>3, AskStep DEF LiveRequest, liveVars
<1>8. ASSUME LiveSaveRefreshed(a) PROVE SessionInv'
  <2>1. Only(a) /\ call'[a] = Idle
    BY <1>1, <1>8, EndEffect DEF LiveSaveRefreshed, TypeOK
  <2>2. writeLock' = Released(writeLock, a)
    BY <1>1, <1>8, NotHolding DEF LiveSaveRefreshed, HoldsWrite
  <2>3. stopped' \in [Keepers -> Nat]
    BY <1>1, <1>8, StopsType DEF LiveSaveRefreshed
  <2> QED
    BY <1>1, <1>3, <1>8, <2>1, <2>2, <2>3, SaveStep DEF LiveSaveRefreshed, SaveTokenCache, TypeOK
<1>9. ASSUME LiveRefreshFailed(a) PROVE SessionInv'
  <2>1. Only(a) /\ call'[a] = Idle /\ call'[a].at = "idle"
    BY <1>1, <1>9, EndEffect, IdleType DEF LiveRefreshFailed, TypeOK
  <2>2. writeLock' = Released(writeLock, a) /\ refreshLock' = Released(refreshLock, a) /\ environment = "LIVE"
    BY <1>1, <1>9, NotHolding DEF LiveRefreshFailed, HoldsWrite
  <2>3. stopped' \in [Keepers -> Nat]
    BY <1>1, <1>9, StopsType DEF LiveRefreshFailed
  <2>4. refused' \in [Keepers -> [revision : Nat, times : Nat]]
    <3> DEFINE next == [revision |-> call[a].token.revision,
                        times |-> IF refused[a].revision = call[a].token.revision THEN refused[a].times + 1 ELSE 1]
    <3>1. a \in Keepers => next \in [revision : Nat, times : Nat]
      BY <1>1, <1>2 DEF Call, Token
    <3>2. refused' = refused \/ refused' = [refused EXCEPT ![a] = next]
      BY <1>9 DEF LiveRefreshFailed
    <3> QED
      BY <1>2, <3>1, <3>2
  <2> QED
    BY <1>1, <1>3, <1>9, <2>1, <2>2, <2>3, <2>4, <1>2, QuietStep DEF LiveRefreshFailed, Role
<1> QED
  BY <1>4, <1>5, <1>6, <1>7, <1>8, <1>9 DEF LiveKeeperStep, LiveToolStep

LEMMA SimKeeperInv ==
    ASSUME SessionInv, NEW k \in Keepers, SimKeeperStep(k), UNCHANGED liveVars
    PROVE  SessionInv'
<1> USE DEF At
<1>1. Control /\ Data /\ TypeOK /\ k \in Actors /\ k \in Refreshers /\ call[k] \in Call
  BY DEF SessionInv, Control, Actors, Refreshers, TypeOK
<1>2. environment = "SIM" /\ UNCHANGED <<stopped, refused, condemned>>
  BY DEF SimKeeperStep, SimKeeperStart, SimTakeRefreshLock, SimNoRequest, SimRequest, SimRefreshFailed,
         SimSaveRefreshed, SimSaveFailed, liveVars
<1>3. ASSUME SimKeeperStart(k) PROVE SessionInv'
  <2>1. Only(k) /\ call'[k].op = "keeper" /\ call'[k].at = "waiting"
    BY <1>1, <1>3, BeginEffect DEF SimKeeperStart, TypeOK
  <2>2. Role(k)'
    BY <2>1 DEF Role, Op
  <2>3. writeLock' = Released(writeLock, k) /\ refreshLock' = Released(refreshLock, k)
    BY <1>1, <1>2, <1>3, NotHolding DEF SimKeeperStart, HoldsWrite, HoldsRefresh, Out
  <2> QED
    BY <1>1, <1>2, <1>3, <2>1, <2>2, <2>3, QuietStep DEF SimKeeperStart, simVars, TypeOK
<1>4. ASSUME SimTakeRefreshLock(k) PROVE SessionInv'
  <2>1. Only(k) /\ call'[k].op = call[k].op /\ call'[k].at = "locked"
    BY <1>1, <1>4, GotoEffect DEF SimTakeRefreshLock, TypeOK
  <2>2. Role(k)'
    BY <1>1, <1>4, <2>1, ActorAssumption DEF SimTakeRefreshLock, Control, Role, Op, Out
  <2>3. writeLock' = Released(writeLock, k)
    BY <1>1, <1>4, NotHolding DEF SimTakeRefreshLock, HoldsWrite, Out
  <2> QED
    BY <1>1, <1>2, <1>4, <2>1, <2>2, <2>3, QuietStep DEF SimTakeRefreshLock, simVars, TypeOK
<1>5. ASSUME SimNoRequest(k) PROVE SessionInv'
  <2>1. Only(k) /\ call'[k] = Idle /\ call'[k].at = "idle"
    BY <1>1, <1>5, EndEffect, IdleType DEF SimNoRequest, TypeOK
  <2>2. writeLock' = Released(writeLock, k)
    BY <1>1, <1>5, NotHolding DEF SimNoRequest, HoldsWrite, Out
  <2> QED
    BY <1>1, <1>2, <1>5, <2>1, <2>2, QuietStep DEF SimNoRequest, simVars, TypeOK, Role
<1>6. ASSUME SimRequest(k) PROVE SessionInv'
  <2>1. Only(k) /\ call'[k].at = "asking" /\ call'[k].token = cache /\ call'[k].op = call[k].op
    BY <1>1, <1>6, AskEffect DEF SimRequest, TypeOK
  <2>2. Role(k)'
    BY <1>1, <1>6, <2>1 DEF SimRequest, Control, Role, Op, Out
  <2>3. HoldsRefresh(k)' /\ refreshLock = k /\ ~Out(k)
    BY <1>1, <1>2, <1>6, <2>1 DEF SimRequest, Control, Locks, HoldsRefresh, Out
  <2> QED
    BY <1>1, <1>2, <1>6, <2>1, <2>2, <2>3, AskStep DEF SimRequest, AttemptDue
<1>7. ASSUME SimRefreshFailed(k) PROVE SessionInv'
  <2>1. Only(k) /\ call'[k] = Idle /\ call'[k].at = "idle"
    BY <1>1, <1>7, EndEffect, IdleType DEF SimRefreshFailed, SimKeeperDone, TypeOK
  <2> QED
    BY <1>1, <1>2, <1>7, <2>1, QuietStep DEF SimRefreshFailed, SimKeeperDone, TypeOK, Role
<1>8. ASSUME SimSaveRefreshed(k) \/ SimSaveFailed(k) PROVE SessionInv'
  <2>1. /\ At(k, "answered") /\ Out(k) /\ call[k].answer = "issued"
        /\ writeLock' = Released(writeLock, k) /\ refreshLock' = Released(refreshLock, k) /\ End(k)
        /\ UNCHANGED <<environment, grants, ended, logins, calls, ages, attempted, pending>>
        /\ faults' \in Nat
    BY <1>1, <1>8 DEF SimSaveRefreshed, SimSaveFailed, SimKeeperDone, TypeOK, Out
  <2>2. Only(k) /\ call'[k] = Idle
    BY <1>1, <2>1, EndEffect DEF TypeOK
  <2>3. CASE cache' = Refreshed(call[k].token) /\ lost' = lost /\ marker' \in {marker, 0}
    BY <1>1, <1>2, <2>1, <2>2, <2>3, SaveStep DEF TypeOK
  <2>4. CASE cache' = cache /\ lost' = lost \cup {Session(k)} /\ marker' = marker
    BY <1>1, <1>2, <2>1, <2>2, <2>4, LostStep DEF TypeOK
  <2> QED
    BY <1>8, <2>3, <2>4 DEF SimSaveRefreshed, SimSaveFailed, SaveTokenCache, Session
<1> QED
  BY <1>3, <1>4, <1>5, <1>6, <1>7, <1>8 DEF SimKeeperStep

LEMMA SimToolInv ==
    ASSUME SessionInv, NEW c \in Tools, SimToolCall(c) \/ SimToolStep(c), UNCHANGED liveVars
    PROVE  SessionInv'
<1> USE DEF At
<1>1. Control /\ Data /\ TypeOK /\ c \in Actors /\ c \in Refreshers /\ c \notin Keepers /\ call[c] \in Call
  BY ActorAssumption DEF SessionInv, Control, Actors, Refreshers, TypeOK
<1>2. /\ environment = "SIM" /\ UNCHANGED <<stopped, refused, condemned>>
      /\ calls \in Nat /\ faults \in Nat /\ stopped \in [Keepers -> Nat]
      /\ condemned \in [Keepers -> Nat] /\ refused \in [Keepers -> [revision : Nat, times : Nat]]
  BY <1>1 DEF SimToolCall, SimToolStep, SimToolRequest, SimToolNoRequest, SimToolDone, SimPortalCheck, SimPortalSave,
              liveVars, TypeOK
<1>3. ~HoldsRefresh(c)
  BY <1>1, <1>2 DEF HoldsRefresh
<1>4. ASSUME SimToolCall(c) PROVE SessionInv'
  <2>1. Only(c) /\ call'[c].op = "tool" /\ call'[c].at = "waiting"
    BY <1>1, <1>4, BeginEffect DEF SimToolCall, TypeOK
  <2>2. Role(c)'
    BY <2>1 DEF Role, Op
  <2>3. writeLock' = Released(writeLock, c) /\ refreshLock' = Released(refreshLock, c)
    BY <1>1, <1>4, HoldsNothing DEF SimToolCall
  <2>4. /\ calls' \in Nat /\ call[c].at = "idle"
        /\ UNCHANGED <<environment, cache, grants, ended, lost, logins, ages, faults, marker, attempted, pending>>
    BY <1>2, <1>4 DEF SimToolCall, simVars
  <2> QED
    BY <1>1, <1>2, <2>1, <2>2, <2>3, <2>4, QuietStep
<1>5. ASSUME SimToolNoRequest(c) PROVE SessionInv'
  <2>1. Only(c) /\ call'[c] = Idle /\ call'[c].at = "idle"
    BY <1>1, <1>5, EndEffect, IdleType DEF SimToolNoRequest, TypeOK
  <2>2. writeLock' = Released(writeLock, c) /\ refreshLock' = Released(refreshLock, c)
    BY <1>1, <1>5, HoldsNothing DEF SimToolNoRequest
  <2> QED
    BY <1>1, <1>2, <1>5, <2>1, <2>2, QuietStep DEF SimToolNoRequest, simVars, Role
<1>6. ASSUME SimToolRequest(c) PROVE SessionInv'
  <2>1. Only(c) /\ call'[c].at = "asking" /\ call'[c].token = cache /\ call'[c].op = call[c].op
    BY <1>1, <1>6, AskEffect DEF SimToolRequest, TypeOK
  <2>2. Role(c)'
    BY <1>1, <1>6, <2>1 DEF SimToolRequest, Control, Role, Op, Out
  <2>3. ~HoldsRefresh(c)' /\ ~Out(c) /\ refreshLock' = Released(refreshLock, c)
    BY <1>1, <1>3, <1>6, NotHolding DEF HoldsRefresh, SimToolRequest, Out
  <2> QED
    BY <1>1, <1>2, <1>6, <2>1, <2>2, <2>3, AskStep DEF SimToolRequest, simVars
<1>7. ASSUME SimToolDone(c) PROVE SessionInv'
  <2>1. Only(c) /\ call'[c] = Idle /\ call'[c].at = "idle"
    BY <1>1, <1>7, EndEffect, IdleType DEF SimToolDone, TypeOK
  <2>2. writeLock' = Released(writeLock, c) /\ refreshLock' = Released(refreshLock, c)
    BY <1>1, <1>3, <1>7, NotHolding DEF SimToolDone
  <2>3. CASE call[c].answer = "issued"
    <3>1. cache' = Refreshed(call[c].token)
      BY <1>7, <2>3 DEF SimToolDone, SaveTokenCache
    <3> QED
      BY <1>1, <1>2, <1>7, <2>1, <2>2, <2>3, <3>1, SaveStep DEF SimToolDone, simVars
  <2>4. CASE call[c].answer # "issued"
    <3>1. cache' = cache
      BY <1>7, <2>4 DEF SimToolDone
    <3> QED
      BY <1>1, <1>2, <1>7, <2>1, <2>2, <2>4, <3>1, QuietStep DEF SimToolDone, simVars, Role
  <2> QED
    BY <2>3, <2>4
<1>8. ASSUME SimPortalCheck(c) PROVE SessionInv'
  <2>1. PICK replace \in BOOLEAN :
          IF ~replace /\ (Refreshable \/ pending)
          THEN End(c) /\ UNCHANGED writeLock
          ELSE /\ call' = [call EXCEPT ![c].op = IF replace THEN "portal_replace" ELSE "portal",
                                       ![c].at = "saving"]
               /\ writeLock' = c
    BY <1>8 DEF SimPortalCheck
  <2>2. CASE ~replace /\ (Refreshable \/ pending)
    <3>1. Only(c) /\ call'[c] = Idle /\ call'[c].at = "idle"
      BY <1>1, <2>1, <2>2, EndEffect, IdleType DEF TypeOK
    <3>2. writeLock' = Released(writeLock, c) /\ refreshLock' = Released(refreshLock, c)
      BY <1>1, <1>8, <2>1, <2>2, HoldsNothing DEF SimPortalCheck
    <3> QED
      BY <1>1, <1>2, <1>8, <3>1, <3>2, QuietStep DEF SimPortalCheck, simVars, Role
  <2>3. CASE ~(~replace /\ (Refreshable \/ pending))
    <3> DEFINE op == IF replace THEN "portal_replace" ELSE "portal"
    <3>1. op \in {"portal", "portal_replace"} /\ (op = "portal" => ~Refreshable)
      BY <2>3
    <3>2. call' = [call EXCEPT ![c].op = op, ![c].at = "saving"] /\ writeLock' = c
      BY <2>1, <2>3
    <3> QED
      BY <1>2, <1>8, <3>1, <3>2, PortalCheckStep DEF SimPortalCheck
  <2> QED
    BY <2>2, <2>3
<1>9. ASSUME SimPortalSave(c) PROVE SessionInv'
  BY <1>9, PortalSaveStep
<1> QED
  BY <1>4, <1>5, <1>6, <1>7, <1>8, <1>9 DEF SimToolStep

LEMMA UserInv ==
    ASSUME SessionInv, NEW u \in Users, UserBegins(u) \/ UserStep(u)
    PROVE  SessionInv'
<1> USE DEF At
<1>1. Control /\ Data /\ TypeOK /\ u \in Actors /\ u \notin Refreshers /\ call[u] \in Call
  BY ActorAssumption DEF SessionInv, Control, Actors, Refreshers, TypeOK
<1>2. writeLock = Released(writeLock, u) /\ refreshLock = Released(refreshLock, u)
  BY <1>1, NotHolding DEF HoldsWrite, HoldsRefresh, Refreshers
<1>3. ASSUME UserBegins(u) PROVE SessionInv'
  <2>1. UNCHANGED liveVars
    BY <1>3 DEF UserBegins, LoginCommand
  <2> QED
    BY <1>3, <2>1, SendStep DEF UserBegins, SimExchange, LoginCommand
<1>4. ASSUME SimExchangeSave(u) \/ LoginSave(u), UserStep(u) PROVE SessionInv'
  <2>1. Only(u) /\ call'[u] = Idle
    BY <1>1, <1>4, EndEffect DEF SimExchangeSave, LoginSave, TypeOK
  <2>2. pending' \in BOOLEAN /\ UNCHANGED <<marker, attempted>>
    BY <1>1, <1>4 DEF SimExchangeSave, LoginSave, simVars, TypeOK
  <2>3. UNCHANGED <<stopped, refused, condemned>>
    BY <1>4 DEF UserStep, LoginStep, LoginSave, LoginFailed, SimExchangeStep, liveVars
  <2> QED
    BY <1>1, <1>4, <2>1, <2>2, <2>3, LoginStepSaves DEF SimExchangeSave, LoginSave, SaveTokenCache
<1>5. ASSUME SimExchangeFailed(u) \/ LoginFailed(u), UserStep(u) PROVE SessionInv'
  <2>1. Only(u) /\ call'[u] = Idle /\ call'[u].at = "idle"
    BY <1>1, <1>5, EndEffect, IdleType DEF SimExchangeFailed, LoginFailed, TypeOK
  <2>2. /\ call[u].answer # "issued"
        /\ UNCHANGED <<environment, cache, grants, ended, lost, writeLock, refreshLock, logins, ages, marker, attempted, pending>>
    BY <1>5 DEF SimExchangeFailed, LoginFailed, simVars
  <2>3. UNCHANGED <<stopped, refused, condemned, calls, faults>>
    BY <1>5 DEF UserStep, LoginStep, LoginSave, LoginFailed, SimExchangeStep, SimExchangeSave, SimExchangeFailed, liveVars
  <2>4. u \notin Keepers
    BY <1>1 DEF Refreshers
  <2> QED
    BY <1>1, <1>2, <2>1, <2>2, <2>3, <2>4, QuietStep DEF Role, TypeOK
<1> QED
  BY <1>3, <1>4, <1>5 DEF UserStep, LoginStep, SimExchangeStep

LEMMA CrashInv ==
    ASSUME SessionInv, NEW a \in Actors, Crash(a)
    PROVE  SessionInv'
<1> USE DEF At
<1>1. Control /\ Data /\ TypeOK /\ call[a] \in Call
  BY DEF SessionInv, Control, TypeOK
<1>2. Only(a) /\ call'[a] = Idle /\ call'[a].at = "idle"
  BY <1>1, EndEffect, IdleType DEF Crash, TypeOK
<1>3. /\ writeLock' = Released(writeLock, a) /\ refreshLock' = Released(refreshLock, a)
      /\ UNCHANGED <<environment, cache, ended, logins, calls, ages, marker, attempted, pending>>
      /\ faults' \in Nat /\ calls' \in Nat
      /\ stopped' \in [Keepers -> Nat] /\ condemned' \in [Keepers -> Nat]
      /\ refused' \in [Keepers -> [revision : Nat, times : Nat]]
  BY <1>1 DEF Crash, TypeOK, simVars
<1>4. CASE At(a, "answered") /\ call[a].answer = "issued"
  <2>1. lost' = lost \cup {Session(a)} /\ grants' = grants /\ Out(a)
    BY <1>4 DEF Crash, Session, Out
  <2> QED
    BY <1>1, <1>2, <1>3, <2>1, LostStep
<1>5. CASE ~(At(a, "answered") /\ call[a].answer = "issued") /\ lost' = lost /\ grants' = grants
  BY <1>1, <1>2, <1>3, <1>5, QuietStep DEF Role
<1>6. CASE At(a, "asking") /\ Rotate(Session(a)) /\ lost' = lost \cup {Session(a)}
  BY <1>1, <1>2, <1>3, <1>6, LostStep DEF Out
<1> QED
  BY <1>4, <1>5, <1>6 DEF Crash, Session

\* Time, Saxo and logins that are only begun leave the token of the file as it is.
LEMMA WorldInv ==
    ASSUME SessionInv,
           \/ (SimStartPkceLogin \/ SimExchangeTooLate) /\ UNCHANGED liveVars
           \/ (EndSession \/ Age) /\ UNCHANGED <<liveVars, simVars>>
           \/ UNCHANGED vars
    PROVE  SessionInv'
<1>1. Control /\ Data /\ TypeOK
  BY DEF SessionInv, Control
<1>2. UNCHANGED <<environment, grants, lost, writeLock, refreshLock, call, logins, calls, stopped, refused, condemned, marker, attempted>>
  BY DEF SimStartPkceLogin, SimExchangeTooLate, EndSession, Age, vars, cacheVars, liveVars, simVars
<1>3. ages' \in Nat /\ faults' \in Nat /\ pending' \in BOOLEAN
  <2>1. ages \in Nat /\ faults \in Nat /\ pending \in BOOLEAN
    BY <1>1 DEF TypeOK
  <2>2. CASE SimStartPkceLogin \/ SimExchangeTooLate
    BY <2>1, <2>2 DEF SimStartPkceLogin, SimExchangeTooLate, cacheVars
  <2>3. CASE (EndSession \/ Age) /\ UNCHANGED simVars
    BY <2>1, <2>3 DEF EndSession, Age, simVars
  <2>4. CASE UNCHANGED vars
    BY <2>1, <2>4 DEF vars, cacheVars, simVars
  <2> QED
    BY <2>2, <2>3, <2>4
<1>4. ended' \subseteq 1..MaxLogins
  <2>1. Refreshable => cache.session \in 1..MaxLogins
    BY <1>1, SessionBounds DEF Data
  <2> QED
    BY <1>1, <2>1 DEF SimStartPkceLogin, SimExchangeTooLate, EndSession, Age, vars, cacheVars, TypeOK
<1>5. /\ cache' \in Token /\ cache'.session = cache.session /\ cache'.generation = cache.generation
      /\ cache'.refreshable = cache.refreshable /\ cache'.revision = cache.revision
  <2>1. cache' = cache \/ \E life \in OlderThan(cache.life) : cache' = [cache EXCEPT !.life = life]
    BY DEF SimStartPkceLogin, SimExchangeTooLate, EndSession, Age, vars, cacheVars
  <2>2. OlderThan(cache.life) \subseteq Lives
    BY <1>1 DEF OlderThan, Lives, TypeOK, Token
  <2> QED
    BY <1>1, <2>1, <2>2 DEF TypeOK, Token
<1>6. TypeOK'
  BY <1>1, <1>2, <1>3, <1>4, <1>5 DEF TypeOK, At
<1>7. Locks' /\ \A a \in Actors : Role(a)'
  BY <1>1, <1>2 DEF Control, Locks, HoldsWrite, HoldsRefresh, Out, At, Role, Op
<1>8. Numbered' /\ OwnSession' /\ OwnToken'
  BY <1>1, <1>2, <1>5 DEF Data, Numbered, OwnSession, OwnToken, Session, Out, At
<1>9. Rotated' /\ Marked'
  BY <1>1, <1>2, <1>5 DEF Data, Rotated, Marked, Session, At
<1>10. NothingToDiscard' /\ CachedTokenUsable'
  BY <1>1, <1>2, <1>5
     DEF Data, NothingToDiscard, CachedTokenUsable, BeingSaved, Refreshable, CachePresent, Op, At
<1> QED
  BY <1>6, <1>7, <1>8, <1>9, <1>10 DEF SessionInv, Control, Data

LEMMA SessionInvStep == ASSUME SessionInv, [Next]_vars PROVE SessionInv'
<1>1. ASSUME NEW k \in Keepers, KeeperStep(k) PROVE SessionInv'
  BY <1>1, LiveStepInv, SimKeeperInv DEF KeeperStep, Refreshers
<1>2. ASSUME NEW c \in Tools, ToolBegins(c) \/ ToolStep(c) PROVE SessionInv'
  BY <1>2, LiveStepInv, SimToolInv DEF ToolBegins, ToolStep, Refreshers
<1>3. ASSUME NEW u \in Users, UserBegins(u) \/ UserStep(u) PROVE SessionInv'
  BY <1>3, UserInv
<1>4. ASSUME NEW a \in Actors, Responds(a) \/ Crash(a) PROVE SessionInv'
  BY <1>4, RespondStep, CrashInv
<1> QED
  BY <1>1, <1>2, <1>3, <1>4, WorldInv DEF Next

LEMMA SessionInvAlways == Spec => []SessionInv
<1>1. Init => SessionInv
  <2> SUFFICES ASSUME Init PROVE SessionInv
    OBVIOUS
  <2> USE DEF Init, CacheInit, LiveInit, SimInit
  <2>1. \A a \in Actors : call[a] = Idle /\ At(a, "idle") /\ ~Out(a)
    BY IdleType DEF At, Out
  <2>2. TypeOK
    <3>1. grants \in [1..MaxLogins -> Nat] /\ call \in [Actors -> Call] /\ logins \in 0..MaxLogins
      BY IdleType, BoundAssumption
    <3>2. /\ stopped \in [Keepers -> Nat] /\ condemned \in [Keepers -> Nat] /\ refused \in [Keepers -> [revision : Nat, times : Nat]]
          /\ marker \in Nat /\ attempted \subseteq Nat /\ pending \in BOOLEAN
      OBVIOUS
    <3> QED
      BY <2>1, <3>1, <3>2, IdleType DEF TypeOK
  <2>3. Locks /\ \A a \in Actors : Role(a)
    BY <2>1, NoOneAssumption DEF Locks, Role, HoldsWrite, HoldsRefresh, At, Actors
  <2>4. Numbered /\ OwnSession /\ OwnToken
    BY <2>1, BoundAssumption DEF Numbered, OwnSession, OwnToken, Actors, Refreshers, NoToken
  <2>5. Rotated /\ Marked /\ NothingToDiscard /\ CachedTokenUsable
    BY <2>1 DEF Rotated, Marked, NothingToDiscard, CachedTokenUsable, Refreshable, CachePresent, At, NoToken, Actors
  <2> QED
    BY <2>2, <2>3, <2>4, <2>5 DEF SessionInv, Control, Data
<1>2. SessionInv /\ [Next]_vars => SessionInv'
  BY SessionInvStep
<1> QED
  BY <1>1, <1>2, PTL DEF Spec

--------------------------------------------------------------------------------
(* What follows of it.                                                         *)

\* Each variable keeps its type (token_cache.py:62).
THEOREM SessionTypes == Spec => []TypeOK
<1>1. SessionInv => TypeOK
  BY DEF SessionInv, Control
<1> QED
  BY <1>1, SessionInvAlways, PTL

\* The refresh token in the file is the newest of its session, whatever the order of refreshes
\* and logins, except when a rotation never reached the file (live_token_refresh.py:64).
THEOREM CacheStaysUsable == Spec => []CachedTokenUsable
<1>1. SessionInv => CachedTokenUsable
  BY DEF SessionInv, Data
<1> QED
  BY <1>1, SessionInvAlways, PTL

\* A refresh undoes no save of its own session, and in SIM none at all
\* (sim_token_refresh.py:102).
THEOREM RefreshesReplaceTheirOwn == Spec => RefreshReplacesItsOwn
<1>1. ASSUME SessionInv, NEW a \in Actors, Refreshes(a), At(a, "answered")
      PROVE  \/ cache.revision = call[a].token.revision
             \/ environment = "LIVE" /\ cache.session # call[a].token.session
  <2>1. a \in Refreshers /\ Out(a)
    BY <1>1 DEF SessionInv, Control, Role, Refreshes, At, Out, Refreshers
  <2> QED
    BY <1>1, <2>1 DEF SessionInv, Control, TypeOK, Data, OwnToken, Session
<1>2. SessionInv =>
        [\A a \in Actors :
           Refreshes(a) /\ At(a, "answered") /\ cache'.revision # cache.revision /\ call'[a] = Idle =>
              \/ cache.revision = call[a].token.revision
              \/ environment = "LIVE" /\ cache.session # call[a].token.session]_vars
  BY <1>1
<1> QED
  BY <1>2, SessionInvAlways, PTL DEF RefreshReplacesItsOwn

LEMMA OthersKept ==
    ASSUME TypeOK, NEW a \in Actors, NEW b \in Actors \ {a},
           \/ KeeperStep(a) \/ ToolBegins(a) \/ ToolStep(a) \/ UserBegins(a) \/ UserStep(a)
           \/ Responds(a) \/ Crash(a)
    PROVE  call'[b] = call[b]
<1>1. call \in [Actors -> Call]
  BY DEF TypeOK
<1>2. CASE KeeperStep(a) \/ ToolBegins(a) \/ ToolStep(a)
  BY <1>1, <1>2
     DEF KeeperStep, ToolBegins, ToolStep, LiveKeeperStep, LiveToolStep, LivePoll, LiveToolCall, LiveNoRequest,
         LiveRequest, LiveSaveRefreshed, LiveRefreshFailed, SimKeeperStep, SimKeeperStart, SimTakeRefreshLock,
         SimNoRequest, SimRequest, SimRefreshFailed, SimSaveRefreshed, SimSaveFailed, SimKeeperDone,
         SimToolCall, SimToolStep, SimToolRequest, SimToolNoRequest, SimToolDone, SimPortalCheck, SimPortalSave,
         Begin, Goto, Ask, End
<1>3. CASE UserBegins(a) \/ UserStep(a) \/ Responds(a) \/ Crash(a)
  BY <1>1, <1>3
     DEF UserBegins, UserStep, SimExchange, LoginCommand, SimExchangeStep, SimExchangeSave, SimExchangeFailed,
         LoginStep, LoginSave, LoginFailed, Responds, Respond, Condemn, Issue, IssueUnheard, Reject, Unanswered, Crash,
         Answer, End
<1> QED
  BY <1>2, <1>3

\* The SIM keepers together send one request for a revision of the file, whatever crashes
\* (sim_token_refresh.py:81).
THEOREM OneAttempt == Spec => OneAttemptPerRevision
<1>1. ASSUME SessionInv, [Next]_vars, NEW k \in Keepers, environment = "SIM", At(k, "locked"),
             call'[k].at = "asking"
      PROVE  cache.revision \notin attempted
  <2>1. k \in Actors /\ Control /\ Data /\ TypeOK
    BY <1>1 DEF Actors, SessionInv, Control
  <2>2. CASE SimRequest(k)
    BY <2>1, <2>2 DEF SimRequest, AttemptDue, Data, Marked
  <2>3. CASE ~SimRequest(k)
    <3>1. k \notin Tools /\ k \notin Users /\ call[k].at = "locked" /\ call[k] # call'[k]
      BY <1>1, ActorAssumption DEF At
    <3>2. KeeperStep(k) \/ Responds(k) \/ Crash(k)
      <4>1. CASE UNCHANGED call
        BY <3>1, <4>1
      <4>2. CASE \E a \in Actors : KeeperStep(a) \/ ToolBegins(a) \/ ToolStep(a) \/ UserBegins(a) \/ UserStep(a)
                                  \/ Responds(a) \/ Crash(a)
        <5>1. PICK a \in Actors : KeeperStep(a) \/ ToolBegins(a) \/ ToolStep(a) \/ UserBegins(a) \/ UserStep(a)
                                  \/ Responds(a) \/ Crash(a)
          BY <4>2
        <5>2. a = k
          BY <2>1, <3>1, <5>1, OthersKept
        <5>3. ~ToolBegins(k) /\ ~ToolStep(k) /\ ~UserBegins(k) /\ ~UserStep(k)
          BY <1>1, <2>3, <3>1
             DEF ToolBegins, ToolStep, LiveToolStep, SimToolStep, LiveToolCall, SimToolCall, LiveNoRequest, LiveRequest,
                 LiveSaveRefreshed, LiveRefreshFailed, SimToolRequest, SimToolNoRequest, SimToolDone, SimPortalCheck,
                 SimPortalSave, UserBegins, UserStep, SimExchange, LoginCommand, SimExchangeStep, SimExchangeSave,
                 SimExchangeFailed, LoginStep, LoginSave, LoginFailed, At
        <5> QED
          BY <5>1, <5>2, <5>3
      <4>3. UNCHANGED call \/ \E a \in Actors : KeeperStep(a) \/ ToolBegins(a) \/ ToolStep(a) \/ UserBegins(a)
                                               \/ UserStep(a) \/ Responds(a) \/ Crash(a)
        BY <1>1 DEF Next, vars, cacheVars, SimStartPkceLogin, SimExchangeTooLate, EndSession, Age, Actors
      <4> QED
        BY <4>1, <4>2, <4>3
    <3>3. ~Responds(k)
      BY <3>1 DEF Responds, Respond, Condemn, Issue, IssueUnheard, Reject, Unanswered, At
    <3>4. call'[k] = Idle
      <4>1. SimNoRequest(k) \/ Crash(k)
        BY <1>1, <2>3, <3>1, <3>2, <3>3
           DEF KeeperStep, LiveKeeperStep, LivePoll, LiveNoRequest, LiveRequest, LiveSaveRefreshed,
               LiveRefreshFailed, SimKeeperStep, SimKeeperStart, SimTakeRefreshLock, SimRefreshFailed,
               SimSaveRefreshed, SimSaveFailed, At
      <4>2. End(k)
        BY <4>1 DEF SimNoRequest, Crash
      <4> QED
        BY <2>1, <4>2, EndEffect DEF TypeOK
    <3> QED
      BY <1>1, <3>4, IdleType
  <2> QED
    BY <2>2, <2>3
<1>2. SessionInv /\ [Next]_vars =>
        [\A k \in Keepers :
           environment = "SIM" /\ At(k, "locked") /\ call'[k].at = "asking" =>
              cache.revision \notin attempted]_vars
  BY <1>1
<1> QED
  BY <1>2, SessionInvAlways, PTL DEF Spec, OneAttemptPerRevision

\* Without replace_existing_cache a portal token is saved only while there is nothing to
\* refresh: what was checked under the write lock is still so at the save
\* (mcp_portal_token_tools.py:77).
THEOREM PortalKeepsSession == Spec => PortalNeverDiscards
<1>1. SessionInv =>
        [\A c \in Tools :
           At(c, "saving") /\ Op(c) = "portal" /\ cache'.revision # cache.revision => ~Refreshable]_vars
  BY DEF SessionInv, Data, NothingToDiscard
<1> QED
  BY <1>1, SessionInvAlways, PTL DEF PortalNeverDiscards

--------------------------------------------------------------------------------
(* A LIVE keeper gives up on a refused token.                                  *)

\* A keeper that was refused the token of revision r once read r before it asks again; after
\* the second refusal it waits, until the file has another revision.
Refusals(k) ==
    LET r == refused[k].revision
        n == refused[k].times IN
    /\ r <= cache.revision
    /\ n \in 0..2
    /\ environment = "SIM" => n = 0
    /\ environment = "LIVE" /\ Out(k) => call[k].token.revision \in 1..cache.revision
    /\ n = 1 =>
          /\ At(k, "waiting") /\ cache.revision = r => call[k].seen = r
          /\ Out(k) /\ call[k].token.revision = r => call[k].seen = r
    /\ n = 2 =>
          /\ r # 0
          /\ Out(k) => call[k].token.revision # r
          /\ cache.revision = r => At(k, "idle") /\ stopped[k] = r

RefusalInv ==
    /\ CachePresent => cache.revision # 0
    /\ \A k \in Keepers : Refusals(k)

\* The file has the token it had, which may have grown older.
SameToken ==
    /\ cache'.revision = cache.revision
    /\ cache'.session = cache.session
    /\ cache'.generation = cache.generation
    /\ cache'.refreshable = cache.refreshable
    /\ cache.life = "refresh_expired" => cache'.life = "refresh_expired"

\* A save numbers the file; nothing else does.
LEMMA RevisionStep ==
    ASSUME SessionInv, [Next]_vars
    PROVE  \/ SameToken
           \/ cache'.revision = cache.revision + 1
<1>1. cache \in Token
  BY DEF SessionInv, Control, TypeOK
<1>2. \A token : Refreshed(token).revision = cache.revision + 1
  BY DEF Refreshed
<1>3. PortalToken.revision = cache.revision + 1
  BY DEF PortalToken
<1>4. ASSUME NEW k \in Keepers, KeeperStep(k)
      PROVE  cache' = cache \/ cache'.revision = cache.revision + 1
  BY <1>2, <1>4
     DEF KeeperStep, LiveKeeperStep, LivePoll, LiveNoRequest, LiveRequest, LiveSaveRefreshed, LiveRefreshFailed,
         SimKeeperStep, SimKeeperStart, SimTakeRefreshLock, SimNoRequest, SimRequest, SimRefreshFailed,
         SimSaveRefreshed, SimSaveFailed, SimKeeperDone, SaveTokenCache, cacheVars
<1>5. ASSUME NEW c \in Tools, ToolBegins(c) \/ ToolStep(c)
      PROVE  cache' = cache \/ cache'.revision = cache.revision + 1
  BY <1>2, <1>3, <1>5
     DEF ToolBegins, ToolStep, LiveToolCall, SimToolCall, LiveToolStep, LiveNoRequest, LiveRequest, LiveSaveRefreshed,
         LiveRefreshFailed, SimToolStep, SimToolRequest, SimToolNoRequest, SimToolDone, SimPortalCheck, SimPortalSave,
         SaveTokenCache, cacheVars
<1>6. ASSUME NEW u \in Users, UserBegins(u) \/ UserStep(u)
      PROVE  cache' = cache \/ cache'.revision = cache.revision + 1
  BY <1>2, <1>6
     DEF UserBegins, UserStep, SimExchange, LoginCommand, SimExchangeStep, SimExchangeSave, SimExchangeFailed,
         LoginStep, LoginSave, LoginFailed, SaveTokenCache, cacheVars
<1>7. ASSUME NEW a \in Actors, Responds(a) \/ Crash(a) PROVE cache' = cache
  BY <1>7 DEF Responds, Respond, Condemn, Issue, IssueUnheard, Reject, Unanswered, EndpointFrame, Crash
<1>8. ASSUME SimStartPkceLogin \/ SimExchangeTooLate \/ EndSession \/ Age \/ UNCHANGED vars
      PROVE  SameToken
  <2>1. \/ cache' = cache
        \/ \E life \in OlderThan(cache.life) : cache' = [cache EXCEPT !.life = life]
    BY <1>8 DEF SimStartPkceLogin, SimExchangeTooLate, EndSession, Age, vars, cacheVars
  <2>2. cache.life = "refresh_expired" => OlderThan(cache.life) = {}
    BY DEF OlderThan
  <2> QED
    BY <1>1, <2>1, <2>2 DEF SameToken, Token
<1>9. cache' = cache => SameToken
  BY DEF SameToken
<1> QED
  BY <1>4, <1>5, <1>6, <1>7, <1>8, <1>9 DEF Next

\* What the steps of others, and of time, leave of a keeper's affairs.
LEMMA RefusalsKept ==
    ASSUME SessionInv, RefusalInv, [Next]_vars, NEW k \in Keepers,
           call'[k] = call[k], refused'[k] = refused[k], stopped'[k] = stopped[k], environment' = environment
    PROVE  Refusals(k)'
<1>1. cache.revision \in Nat /\ cache'.revision \in Nat /\ refused[k].revision \in Nat
  BY SessionInvStep DEF SessionInv, Control, TypeOK, Token
<1>2. cache'.revision = cache.revision \/ cache'.revision = cache.revision + 1
  BY RevisionStep DEF SameToken
<1>3. Refusals(k)
  BY DEF RefusalInv
<1>4. call'[k].at = call[k].at /\ call'[k].token = call[k].token /\ call'[k].seen = call[k].seen
  OBVIOUS
<1>5. Out(k) => call[k].token.revision \in Nat
  <2>1. call[k] \in Call
    BY DEF SessionInv, Control, TypeOK, Actors
  <2> QED
    BY <2>1 DEF Call, Token
<1> QED
  BY <1>1, <1>2, <1>3, <1>4, <1>5 DEF Refusals, Out, At

LEMMA KeeperRefusals ==
    ASSUME SessionInv, RefusalInv, [Next]_vars, NEW k \in Keepers, KeeperStep(k) \/ Responds(k) \/ Crash(k)
    PROVE  Refusals(k)'
<1>1. /\ k \in Actors /\ call \in [Actors -> Call] /\ call[k] \in Call /\ cache \in Token
      /\ stopped \in [Keepers -> Nat] /\ condemned \in [Keepers -> Nat] /\ refused \in [Keepers -> [revision : Nat, times : Nat]]
      /\ environment \in {"SIM", "LIVE"} /\ Refusals(k)
  BY DEF SessionInv, Control, TypeOK, Actors, RefusalInv
<1>2. /\ cache.revision \in Nat /\ call[k].seen \in Nat /\ call[k].token.revision \in Nat
      /\ refused[k].revision \in Nat /\ refused[k].times \in Nat
  BY <1>1 DEF Token, Call
<1>3. cache'.revision = cache.revision \/ cache'.revision = cache.revision + 1
  BY RevisionStep DEF SameToken
<1>4. ASSUME environment = "SIM", environment' = environment, refused'[k] = refused[k] PROVE Refusals(k)'
  BY <1>1, <1>2, <1>3, <1>4 DEF Refusals
<1>5. ASSUME LivePoll(k) PROVE Refusals(k)'
  <2>1. call'[k].at = "waiting" /\ call'[k].seen = cache.revision
    BY <1>1, <1>5 DEF LivePoll, Idle
  <2>2. UNCHANGED <<environment, cache, stopped, refused, condemned>> /\ (stopped[k] = 0 \/ stopped[k] # cache.revision)
    BY <1>5 DEF LivePoll, liveVars
  <2> QED
    BY <1>1, <1>2, <2>1, <2>2 DEF Refusals, At, Out
<1>6. ASSUME LiveNoRequest(k) PROVE Refusals(k)'
  <2>1. call'[k].at = "idle"
    BY <1>1, <1>6, EndEffect, IdleType DEF LiveNoRequest
  <2>2. UNCHANGED <<environment, cache, refused>> /\ At(k, "waiting")
    BY <1>6 DEF LiveNoRequest
  <2> QED
    BY <1>1, <1>2, <2>1, <2>2 DEF Refusals, At, Out
<1>7. ASSUME LiveRequest(k) PROVE Refusals(k)'
  <2>1. call'[k].at = "asking" /\ call'[k].token = cache /\ call'[k].seen = call[k].seen
    BY <1>1, <1>7 DEF LiveRequest, Ask, Call
  <2>2. UNCHANGED <<environment, cache, stopped, refused, condemned>> /\ At(k, "waiting") /\ cache.revision # 0
    BY <1>7 DEF LiveRequest, liveVars, Refreshable, RefusalInv
  <2> QED
    BY <1>1, <1>2, <2>1, <2>2 DEF Refusals, At, Out
<1>8. ASSUME LiveSaveRefreshed(k) PROVE Refusals(k)'
  <2>1. call'[k].at = "idle"
    BY <1>1, <1>8, EndEffect, IdleType DEF LiveSaveRefreshed
  <2>2. UNCHANGED <<environment, refused>> /\ cache'.revision = cache.revision + 1 /\ environment = "LIVE"
    BY <1>8 DEF LiveSaveRefreshed, SaveTokenCache, Refreshed
  <2> QED
    BY <1>1, <1>2, <2>1, <2>2 DEF Refusals, At, Out
<1>9. ASSUME LiveRefreshFailed(k) PROVE Refusals(k)'
  <2>1. call'[k].at = "idle" /\ Out(k) /\ environment = "LIVE"
    BY <1>1, <1>9, EndEffect, IdleType DEF LiveRefreshFailed, Out, At
  <2>2. UNCHANGED <<environment, cache>>
    BY <1>9 DEF LiveRefreshFailed
  <2>3. CASE refused'[k] = refused[k]
    <3>1. refused[k].times = 2 => cache.revision # refused[k].revision
      BY <1>1, <2>1 DEF Refusals, Out, At
    <3> QED
      BY <1>1, <1>2, <2>1, <2>2, <2>3, <3>1 DEF Refusals, At, Out
  <2>4. CASE Op(k) = "keeper" /\ call[k].answer = "rejected"
    <3> DEFINE r == call[k].token.revision
    <3>1. refused'[k] = [revision |-> r,
                         times |-> IF refused[k].revision = r THEN refused[k].times + 1 ELSE 1]
      BY <1>1, <1>9, <2>4 DEF LiveRefreshFailed
    <3>2. stopped'[k] = call[k].seen
      BY <1>1, <1>9, <2>4 DEF LiveRefreshFailed, KeeperStops
    <3>3. refused'[k].revision = r /\ r \in 1..cache.revision
      BY <1>1, <2>1, <3>1 DEF Refusals
    <3>4. refused'[k].times = 1 \/ (refused'[k].times = 2 /\ call[k].seen = r)
      <4>1. CASE refused[k].revision = r
        BY <1>1, <1>2, <2>1, <3>1, <4>1 DEF Refusals
      <4>2. CASE refused[k].revision # r
        BY <3>1, <4>2
      <4> QED
        BY <4>1, <4>2
    <3> QED
      BY <1>1, <1>2, <2>1, <2>2, <3>2, <3>3, <3>4 DEF Refusals, At, Out
  <2> QED
    BY <1>1, <1>9, <2>3, <2>4 DEF LiveRefreshFailed
<1>10. ASSUME SimKeeperStep(k), UNCHANGED liveVars PROVE Refusals(k)'
  <2>1. environment = "SIM" /\ UNCHANGED <<environment, refused>>
    BY <1>10 DEF liveVars, SimKeeperStep, SimKeeperStart, SimTakeRefreshLock, SimNoRequest, SimRequest,
                 SimRefreshFailed, SimSaveRefreshed, SimSaveFailed, SimKeeperDone
  <2> QED
    BY <1>4, <2>1
<1>11. ASSUME Responds(k) PROVE Refusals(k)'
  <2>1. \E answer \in Answers : Answer(k, answer)
    BY <1>11 DEF Responds, Respond, Condemn, Issue, IssueUnheard, Reject, Unanswered, Answers
  <2>2. call'[k].at = "answered" /\ call'[k].token = call[k].token /\ call'[k].seen = call[k].seen
    BY <1>1, <2>1 DEF Answer, Call
  <2>3. UNCHANGED <<environment, cache, stopped, refused>> /\ At(k, "asking")
    BY <1>11 DEF Responds, Respond, Condemn, Issue, IssueUnheard, Reject, Unanswered, EndpointFrame, liveVars
  <2> QED
    BY <1>1, <1>2, <2>2, <2>3 DEF Refusals, At, Out
<1>12. ASSUME Crash(k) PROVE Refusals(k)'
  <2>1. call'[k].at = "idle" /\ refused'[k].revision = 0 /\ refused'[k].times = 0
    BY <1>1, <1>12, EndEffect, IdleType DEF Crash
  <2>2. UNCHANGED <<environment, cache>>
    BY <1>12 DEF Crash
  <2> QED
    BY <1>1, <1>2, <2>1, <2>2 DEF Refusals, At, Out
<1> QED
  BY <1>5, <1>6, <1>7, <1>8, <1>9, <1>10, <1>11, <1>12 DEF KeeperStep, LiveKeeperStep

LEMMA EnvironmentStays == ASSUME [Next]_vars PROVE environment' = environment
<1>1. ASSUME NEW k \in Keepers, KeeperStep(k) PROVE environment' = environment
  BY <1>1 DEF KeeperStep, LiveKeeperStep, LivePoll, LiveNoRequest, LiveRequest, LiveSaveRefreshed,
              LiveRefreshFailed, SimKeeperStep, SimKeeperStart, SimTakeRefreshLock, SimNoRequest, SimRequest,
              SimRefreshFailed, SimSaveRefreshed, SimSaveFailed, SimKeeperDone
<1>2. ASSUME NEW c \in Tools, ToolBegins(c) \/ ToolStep(c) PROVE environment' = environment
  BY <1>2 DEF ToolBegins, ToolStep, LiveToolCall, SimToolCall, LiveToolStep, LiveNoRequest, LiveRequest,
              LiveSaveRefreshed, LiveRefreshFailed, SimToolStep, SimToolRequest, SimToolNoRequest, SimToolDone,
              SimPortalCheck, SimPortalSave
<1>3. ASSUME NEW u \in Users, UserBegins(u) \/ UserStep(u) PROVE environment' = environment
  BY <1>3 DEF UserBegins, UserStep, SimExchange, LoginCommand, SimExchangeStep, SimExchangeSave,
              SimExchangeFailed, LoginStep, LoginSave, LoginFailed
<1>4. ASSUME NEW a \in Actors, Responds(a) \/ Crash(a) PROVE environment' = environment
  BY <1>4 DEF Responds, Respond, Condemn, Issue, IssueUnheard, Reject, Unanswered, EndpointFrame, Crash
<1>5. CASE SimStartPkceLogin \/ SimExchangeTooLate \/ EndSession \/ Age \/ UNCHANGED vars
  BY <1>5 DEF SimStartPkceLogin, SimExchangeTooLate, EndSession, Age, vars, cacheVars
<1> QED
  BY <1>1, <1>2, <1>3, <1>4, <1>5 DEF Next

\* A keeper's affairs are its own, the endpoint's, and the fault's that ends its process.
LEMMA KeeperMoves ==
    ASSUME SessionInv, [Next]_vars, NEW k \in Keepers
    PROVE  \/ /\ call'[k] = call[k] /\ stopped'[k] = stopped[k]
              /\ refused'[k] = refused[k] /\ condemned'[k] = condemned[k]
           \/ KeeperStep(k) \/ Responds(k) \/ Crash(k)
<1>1. TypeOK /\ k \in Actors /\ k \notin Tools /\ k \notin Users
  BY ActorAssumption DEF SessionInv, Control, Actors
<1>2. ASSUME NEW a \in Actors \ {k},
             \/ a \in Keepers /\ KeeperStep(a)
             \/ a \in Tools /\ (ToolBegins(a) \/ ToolStep(a))
             \/ a \in Users /\ (UserBegins(a) \/ UserStep(a))
             \/ Responds(a) \/ Crash(a)
      PROVE  /\ call'[k] = call[k] /\ stopped'[k] = stopped[k]
             /\ refused'[k] = refused[k] /\ condemned'[k] = condemned[k]
  <2>1. call'[k] = call[k]
    BY <1>1, <1>2, OthersKept
  <2>2. /\ stopped \in [Keepers -> Nat] /\ condemned \in [Keepers -> Nat]
        /\ refused \in [Keepers -> [revision : Nat, times : Nat]]
    BY <1>1 DEF TypeOK
  <2>3. CASE Responds(a)
    <3>1. stopped' = stopped /\ refused' = refused
      BY <2>3 DEF Responds, Condemn, liveVars
    <3>2. condemned' = condemned \/ condemned' = [condemned EXCEPT ![a] = call[a].seen]
      BY <2>3 DEF Responds, Condemn, liveVars
    <3> QED
      BY <2>1, <2>2, <3>1, <3>2
  <2>4. CASE ~Responds(a)
    <3>1. stopped'[k] = stopped[k] /\ refused'[k] = refused[k]
      BY <1>2, <2>2, <2>4
         DEF KeeperStep, LiveKeeperStep, LivePoll, LiveNoRequest, LiveRequest, LiveSaveRefreshed,
             LiveRefreshFailed, KeeperStops, ToolBegins, ToolStep, LiveToolCall, LiveToolStep, UserBegins,
             UserStep, SimExchange, LoginCommand, SimExchangeStep, LoginStep, LoginSave, LoginFailed, Crash,
             liveVars
    <3>2. condemned'[k] = condemned[k]
      BY <1>2, <2>2, <2>4
         DEF KeeperStep, LiveKeeperStep, LivePoll, LiveNoRequest, LiveRequest, LiveSaveRefreshed,
             LiveRefreshFailed, ToolBegins, ToolStep, LiveToolCall, LiveToolStep, UserBegins,
             UserStep, SimExchange, LoginCommand, SimExchangeStep, LoginStep, LoginSave, LoginFailed, Crash,
             liveVars
    <3> QED
      BY <2>1, <3>1, <3>2
  <2> QED
    BY <2>3, <2>4
<1>3. ASSUME \/ (SimStartPkceLogin \/ SimExchangeTooLate) /\ UNCHANGED liveVars
             \/ (EndSession \/ Age) /\ UNCHANGED <<liveVars, simVars>>
             \/ UNCHANGED vars
      PROVE  UNCHANGED <<call, stopped, refused, condemned>>
  BY <1>3 DEF SimStartPkceLogin, SimExchangeTooLate, EndSession, Age, vars, cacheVars, liveVars
<1>4. ~(KeeperStep(k) \/ Responds(k) \/ Crash(k)) =>
        \/ \E a \in Actors \ {k} :
              \/ a \in Keepers /\ KeeperStep(a)
              \/ a \in Tools /\ (ToolBegins(a) \/ ToolStep(a))
              \/ a \in Users /\ (UserBegins(a) \/ UserStep(a))
              \/ Responds(a) \/ Crash(a)
        \/ (SimStartPkceLogin \/ SimExchangeTooLate) /\ UNCHANGED liveVars
        \/ (EndSession \/ Age) /\ UNCHANGED <<liveVars, simVars>>
        \/ UNCHANGED vars
  BY <1>1 DEF Next, Actors
<1> QED
  BY <1>2, <1>3, <1>4

LEMMA RefusalInvStep == ASSUME SessionInv, RefusalInv, [Next]_vars PROVE RefusalInv'
<1>1. CachePresent' => cache'.revision # 0
  <2>1. cache.revision \in Nat
    BY DEF SessionInv, Control, TypeOK, Token
  <2> QED
    BY <2>1, RevisionStep DEF SameToken, RefusalInv, CachePresent
<1>2. ASSUME NEW k \in Keepers PROVE Refusals(k)'
  BY <1>2, KeeperMoves, KeeperRefusals, RefusalsKept, EnvironmentStays
<1> QED
  BY <1>1, <1>2 DEF RefusalInv

\* However often it polls, a keeper that runs on is refused the token of one revision twice at
\* most, and not again before the file has another one (live_token_refresh.py:160).
THEOREM KeepersGiveUp == Spec => []KeeperGivesUp
<1>1. Init => RefusalInv
  BY IdleType DEF Init, CacheInit, LiveInit, RefusalInv, Refusals, CachePresent, NoToken, Out, Actors
<1>2. RefusalInv => KeeperGivesUp
  <2>1. \A n \in 0..2 : n <= 2
    OBVIOUS
  <2> QED
    BY <2>1 DEF RefusalInv, Refusals, KeeperGivesUp
<1> QED
  BY <1>1, <1>2, RefusalInvStep, SessionInvAlways, PTL DEF Spec
--------------------------------------------------------------------------------
(* A stopped keeper misses nothing.                                            *)

\* Nobody is ahead of the endpoint: it has issued every token that the file or an actor has.
Behind(a) ==
    Out(a) =>
       /\ call[a].token.generation <= grants[Session(a)]
       /\ At(a, "answered") /\ call[a].answer = "issued" => call[a].token.generation < grants[Session(a)]

NobodyAhead ==
    /\ cache.refreshable => cache.generation <= grants[cache.session]
    /\ \A a \in Actors : Behind(a)

LEMMA ActorMoves ==
    ASSUME SessionInv, [Next]_vars, NEW a \in Actors
    PROVE  \/ call'[a] = call[a]
           \/ a \in Keepers /\ KeeperStep(a)
           \/ a \in Tools /\ (ToolBegins(a) \/ ToolStep(a))
           \/ a \in Users /\ (UserBegins(a) \/ UserStep(a))
           \/ Responds(a)
           \/ Crash(a)
<1>1. TypeOK
  BY DEF SessionInv, Control
<1>2. ASSUME NEW b \in Actors \ {a},
             \/ KeeperStep(b) \/ ToolBegins(b) \/ ToolStep(b) \/ UserBegins(b) \/ UserStep(b)
             \/ Responds(b) \/ Crash(b)
      PROVE  call'[a] = call[a]
  BY <1>1, <1>2, OthersKept
<1>3. CASE SimStartPkceLogin \/ SimExchangeTooLate \/ EndSession \/ Age \/ UNCHANGED vars
  BY <1>3 DEF SimStartPkceLogin, SimExchangeTooLate, EndSession, Age, vars, cacheVars
<1> QED
  BY <1>2, <1>3 DEF Next, Actors

\* What an actor asks with: the token of the file, or the code of a login.
LEMMA AskedWith ==
    ASSUME SessionInv, [Next]_vars, NEW a \in Actors
    PROVE  \/ call'[a] = call[a]
           \/ ~Out(a)'
           \/ call'[a].at = "asking" /\ call'[a].token = cache /\ Refreshable
           \/ call'[a].at = "asking" /\ call'[a].token.generation = 0
           \/ Responds(a)
<1>1. call \in [Actors -> Call] /\ cache \in Token /\ logins \in Nat /\ MaxLogins \in Nat
  BY BoundAssumption DEF SessionInv, Control, TypeOK
<1>2. End(a) => ~Out(a)'
  BY <1>1, EndEffect, IdleType DEF Out
<1>3. \A op \in {"keeper", "tool"} : Begin(a, op) => ~Out(a)'
  BY <1>1, BeginEffect DEF Out
<1>4. Ask(a, cache) => call'[a].at = "asking" /\ call'[a].token = cache
  BY <1>1, AskEffect
<1>5. ASSUME a \in Keepers, LiveKeeperStep(a) PROVE ~Out(a)' \/ (Ask(a, cache) /\ Refreshable)
  <2>1. CASE LivePoll(a)
    BY <1>1, <2>1 DEF LivePoll, Idle, Out
  <2> QED
    BY <1>2, <1>5, <2>1 DEF LiveKeeperStep, LiveNoRequest, LiveRequest, LiveSaveRefreshed, LiveRefreshFailed
<1>6. ASSUME a \in Keepers, SimKeeperStep(a) PROVE ~Out(a)' \/ (Ask(a, cache) /\ Refreshable)
  <2>1. CASE SimTakeRefreshLock(a)
    BY <1>1, <2>1, GotoEffect DEF SimTakeRefreshLock, Out
  <2> QED
    BY <1>2, <1>3, <1>6, <2>1
       DEF SimKeeperStep, SimKeeperStart, SimNoRequest, SimRequest, SimRefreshFailed, SimSaveRefreshed,
           SimSaveFailed, SimKeeperDone, AttemptDue
<1>7. ASSUME a \in Tools, ToolBegins(a) \/ ToolStep(a) PROVE ~Out(a)' \/ (Ask(a, cache) /\ Refreshable)
  <2>1. CASE SimPortalCheck(a)
    BY <1>1, <1>2, <2>1 DEF SimPortalCheck, Out, Call
  <2> QED
    BY <1>2, <1>3, <1>7, <2>1
       DEF ToolBegins, ToolStep, LiveToolCall, SimToolCall, LiveToolStep, LiveNoRequest, LiveRequest,
           LiveSaveRefreshed, LiveRefreshFailed, SimToolStep, SimToolRequest, SimToolNoRequest, SimToolDone,
           SimPortalSave
<1>8. ASSUME a \in Users, UserBegins(a) \/ UserStep(a)
      PROVE  ~Out(a)' \/ (call'[a].at = "asking" /\ call'[a].token.generation = 0)
  <2>1. CASE UserBegins(a)
    <3>1. logins + 1 \in Nat
      BY <1>1
    <3>2. \E op \in {"login", "exchange"} :
             call' = [call EXCEPT ![a] = [Idle EXCEPT !.op = op, !.at = "asking",
                                                      !.token = [NoToken EXCEPT !.session = logins + 1]]]
      BY <2>1 DEF UserBegins, SimExchange, LoginCommand
    <3> QED
      BY <1>1, <3>1, <3>2, SendEffect
  <2> QED
    BY <1>2, <1>8, <2>1
       DEF UserStep, SimExchangeStep, SimExchangeSave, SimExchangeFailed, LoginStep, LoginSave, LoginFailed
<1>9. Crash(a) => ~Out(a)'
  BY <1>2 DEF Crash
<1> QED
  BY <1>4, <1>5, <1>6, <1>7, <1>8, <1>9, ActorMoves DEF KeeperStep
LEMMA GrantsGrow ==
    ASSUME SessionInv, [Next]_vars
    PROVE  \A s \in 1..MaxLogins : grants[s] \in Nat /\ grants'[s] \in Nat /\ grants[s] <= grants'[s]
<1>1. grants \in [1..MaxLogins -> Nat] /\ grants' \in [1..MaxLogins -> Nat]
  BY SessionInvStep DEF SessionInv, Control, TypeOK
<1>2. grants' = grants \/ \E s : Rotate(s)
  <2>1. ASSUME NEW k \in Keepers, KeeperStep(k) PROVE grants' = grants
    BY <2>1 DEF KeeperStep, LiveKeeperStep, LivePoll, LiveNoRequest, LiveRequest, LiveSaveRefreshed,
                LiveRefreshFailed, SimKeeperStep, SimKeeperStart, SimTakeRefreshLock, SimNoRequest, SimRequest,
                SimRefreshFailed, SimSaveRefreshed, SimSaveFailed, SimKeeperDone
  <2>2. ASSUME NEW c \in Tools, ToolBegins(c) \/ ToolStep(c) PROVE grants' = grants
    BY <2>2 DEF ToolBegins, ToolStep, LiveToolCall, SimToolCall, LiveToolStep, LiveNoRequest, LiveRequest,
                LiveSaveRefreshed, LiveRefreshFailed, SimToolStep, SimToolRequest, SimToolNoRequest, SimToolDone,
                SimPortalCheck, SimPortalSave
  <2>3. ASSUME NEW u \in Users, UserBegins(u) \/ UserStep(u) PROVE grants' = grants
    BY <2>3 DEF UserBegins, UserStep, SimExchange, LoginCommand, SimExchangeStep, SimExchangeSave,
                SimExchangeFailed, LoginStep, LoginSave, LoginFailed
  <2>4. ASSUME NEW a \in Actors, Responds(a) \/ Crash(a) PROVE grants' = grants \/ \E s : Rotate(s)
    BY <2>4 DEF Responds, Respond, Condemn, Issue, IssueUnheard, Reject, Unanswered, Crash
  <2>5. CASE SimStartPkceLogin \/ SimExchangeTooLate \/ EndSession \/ Age \/ UNCHANGED vars
    BY <2>5 DEF SimStartPkceLogin, SimExchangeTooLate, EndSession, Age, vars, cacheVars
  <2> QED
    BY <2>1, <2>2, <2>3, <2>4, <2>5 DEF Next
<1>3. \A s \in 1..MaxLogins : grants'[s] = grants[s] \/ grants'[s] = grants[s] + 1
  <2>1. ASSUME NEW r, Rotate(r), NEW s \in 1..MaxLogins PROVE grants'[s] = grants[s] \/ grants'[s] = grants[s] + 1
    <3>1. grants' = [grants EXCEPT ![r] = grants[r] + 1]
      BY <2>1 DEF Rotate
    <3> QED
      BY <1>1, <3>1
  <2> QED
    BY <1>2, <2>1
<1>4. ASSUME NEW s \in 1..MaxLogins PROVE grants[s] \in Nat /\ grants'[s] \in Nat /\ grants[s] <= grants'[s]
  <2>1. grants[s] \in Nat /\ grants'[s] \in Nat
    BY <1>1
  <2> QED
    BY <1>3, <2>1
<1> QED
  BY <1>4

\* What a save puts in the file: the answer of Saxo to the one who saves, or a portal token.
LEMMA SavedToken ==
    ASSUME SessionInv, [Next]_vars
    PROVE  \/ /\ cache'.session = cache.session /\ cache'.generation = cache.generation
              /\ cache'.refreshable = cache.refreshable
           \/ ~cache'.refreshable
           \/ \E a \in Actors : /\ At(a, "answered") /\ call[a].answer = "issued"
                               /\ cache' = Refreshed(call[a].token)
<1>1. cache \in Token
  BY DEF SessionInv, Control, TypeOK
<1>2. ASSUME NEW k \in Keepers, KeeperStep(k)
      PROVE  \/ cache' = cache
             \/ At(k, "answered") /\ call[k].answer = "issued" /\ cache' = Refreshed(call[k].token)
  BY <1>2 DEF KeeperStep, LiveKeeperStep, LivePoll, LiveNoRequest, LiveRequest, LiveSaveRefreshed,
              LiveRefreshFailed, SimKeeperStep, SimKeeperStart, SimTakeRefreshLock, SimNoRequest, SimRequest,
              SimRefreshFailed, SimSaveRefreshed, SimSaveFailed, SimKeeperDone, SaveTokenCache
<1>3. ASSUME NEW c \in Tools, ToolBegins(c) \/ ToolStep(c)
      PROVE  \/ cache' = cache
             \/ ~cache'.refreshable
             \/ At(c, "answered") /\ call[c].answer = "issued" /\ cache' = Refreshed(call[c].token)
  <2>1. ~PortalToken.refreshable
    BY DEF PortalToken
  <2>2. CASE LiveToolStep(c)
    BY <2>2 DEF LiveToolStep, LiveNoRequest, LiveRequest, LiveSaveRefreshed, LiveRefreshFailed, SaveTokenCache
  <2>3. CASE SimToolStep(c)
    BY <2>1, <2>3 DEF SimToolStep, SimToolRequest, SimToolNoRequest, SimToolDone, SimPortalCheck, SimPortalSave,
                      SaveTokenCache
  <2>4. CASE ToolBegins(c)
    BY <2>4 DEF ToolBegins, LiveToolCall, SimToolCall
  <2> QED
    BY <1>3, <2>2, <2>3, <2>4 DEF ToolStep
<1>4. ASSUME NEW u \in Users, UserBegins(u) \/ UserStep(u)
      PROVE  \/ cache' = cache
             \/ At(u, "answered") /\ call[u].answer = "issued" /\ cache' = Refreshed(call[u].token)
  BY <1>4 DEF UserBegins, UserStep, SimExchange, LoginCommand, SimExchangeStep, SimExchangeSave,
              SimExchangeFailed, LoginStep, LoginSave, LoginFailed, SaveTokenCache
<1>5. ASSUME NEW a \in Actors, Responds(a) \/ Crash(a) PROVE cache' = cache
  BY <1>5 DEF Responds, Respond, Condemn, Issue, IssueUnheard, Reject, Unanswered, EndpointFrame, Crash
<1>6. CASE SimStartPkceLogin \/ SimExchangeTooLate \/ EndSession \/ Age \/ UNCHANGED vars
  BY <1>1, <1>6 DEF SimStartPkceLogin, SimExchangeTooLate, EndSession, Age, vars, cacheVars, Token
<1> QED
  BY <1>2, <1>3, <1>4, <1>5, <1>6 DEF Next, Actors

LEMMA NobodyAheadStep == ASSUME SessionInv, NobodyAhead, [Next]_vars PROVE NobodyAhead'
<1>1. SessionInv' /\ TypeOK /\ TypeOK' /\ Numbered /\ Numbered'
  BY SessionInvStep DEF SessionInv, Control, Data
<1>2. \A a \in Actors : Out(a) => Session(a) \in 1..MaxLogins /\ call[a].token.generation \in Nat
  <2>1. call \in [Actors -> Call]
    BY <1>1 DEF TypeOK
  <2>2. \A a \in Actors : call[a].token.generation \in Nat
    BY <2>1 DEF Call, Token
  <2> QED
    BY <1>1, <2>2, SessionBounds
<1>3. cache.refreshable => cache.session \in 1..MaxLogins
  BY <1>1, SessionBounds DEF Numbered
<1>4. cache.generation \in Nat
  BY <1>1 DEF TypeOK, Token
<1>5. ASSUME cache'.refreshable PROVE cache'.generation <= grants'[cache'.session]
  <2>1. CASE cache'.session = cache.session /\ cache'.generation = cache.generation /\ cache.refreshable
    <3>1. cache.generation <= grants[cache.session]
      BY <2>1 DEF NobodyAhead
    <3> QED
      BY <1>3, <1>4, <2>1, <3>1, GrantsGrow
  <2>2. ASSUME NEW a \in Actors, At(a, "answered"), call[a].answer = "issued", cache' = Refreshed(call[a].token)
        PROVE  cache'.generation <= grants'[cache'.session]
    <3>1. Out(a) /\ call[a].token.generation < grants[Session(a)]
      BY <2>2 DEF NobodyAhead, Behind, Out, At
    <3>2. cache'.generation = call[a].token.generation + 1 /\ cache'.session = Session(a)
      BY <2>2 DEF Refreshed, Session
    <3> QED
      BY <1>2, <3>1, <3>2, GrantsGrow
  <2> QED
    BY <1>5, <2>1, <2>2, SavedToken
<1>6. ASSUME NEW a \in Actors PROVE Behind(a)'
  <2> SUFFICES ASSUME Out(a)'
               PROVE  /\ call'[a].token.generation <= grants'[Session(a)']
                      /\ call'[a].at = "answered" /\ call'[a].answer = "issued" =>
                            call'[a].token.generation < grants'[Session(a)']
    BY DEF Behind, At
  <2>1. CASE call'[a] = call[a]
    <3>1. Out(a) /\ Session(a)' = Session(a) /\ Behind(a)
      BY <2>1 DEF Out, Session, NobodyAhead
    <3> QED
      BY <1>2, <2>1, <3>1, GrantsGrow DEF Behind, At
  <2>2. CASE call'[a].at = "asking" /\ call'[a].token = cache /\ Refreshable
    <3>1. cache.generation <= grants[cache.session]
      BY <2>2 DEF NobodyAhead, Refreshable
    <3> QED
      BY <1>3, <1>4, <2>2, <3>1, GrantsGrow DEF Refreshable, Session
  <2>3. CASE call'[a].at = "asking" /\ call'[a].token.generation = 0
    <3>1. Session(a)' \in 1..MaxLogins
      BY <1>1, BoundAssumption DEF Numbered, TypeOK
    <3> QED
      BY <2>3, <3>1, GrantsGrow
  <2>4. CASE Responds(a)
    <3>1. Out(a) /\ call[a].token.generation <= grants[Session(a)]
      BY <2>4 DEF Responds, Respond, Condemn, Issue, IssueUnheard, Reject, Unanswered, At, Out, NobodyAhead, Behind
    <3>2. \E answer \in Answers : Answer(a, answer) /\ (answer = "issued" => Issue(a))
      BY <2>4 DEF Responds, Respond, Condemn, Issue, IssueUnheard, Reject, Unanswered, Answers
    <3>3. Session(a)' = Session(a) /\ call'[a].token = call[a].token /\ (call'[a].answer = "issued" => Issue(a))
      BY <1>1, <3>2, AnswerEffect DEF TypeOK, Session
    <3>4. Issue(a) => grants'[Session(a)] = grants[Session(a)] + 1
      BY <1>1, <1>2, <3>1 DEF Issue, Rotate, TypeOK, Session
    <3> QED
      BY <1>2, <3>1, <3>3, <3>4, GrantsGrow
  <2> QED
    BY <2>1, <2>2, <2>3, <2>4, AskedWith
<1> QED
  BY <1>5, <1>6 DEF NobodyAhead
\* Saxo will never take the token again.
Dead(token) == token.session \in ended \/ token.generation < grants[token.session]

LEMMA DeadStays ==
    ASSUME SessionInv, [Next]_vars, NEW token, token.session \in 1..MaxLogins, token.generation \in Nat, Dead(token)
    PROVE  token.session \in ended' \/ token.generation < grants'[token.session]
<1>1. ended \subseteq ended'
  <2>1. ASSUME NEW k \in Keepers, KeeperStep(k) PROVE ended' = ended
    BY <2>1 DEF KeeperStep, LiveKeeperStep, LivePoll, LiveNoRequest, LiveRequest, LiveSaveRefreshed,
                LiveRefreshFailed, SimKeeperStep, SimKeeperStart, SimTakeRefreshLock, SimNoRequest, SimRequest,
                SimRefreshFailed, SimSaveRefreshed, SimSaveFailed, SimKeeperDone
  <2>2. ASSUME NEW c \in Tools, ToolBegins(c) \/ ToolStep(c) PROVE ended' = ended
    BY <2>2 DEF ToolBegins, ToolStep, LiveToolCall, SimToolCall, LiveToolStep, LiveNoRequest, LiveRequest,
                LiveSaveRefreshed, LiveRefreshFailed, SimToolStep, SimToolRequest, SimToolNoRequest, SimToolDone,
                SimPortalCheck, SimPortalSave
  <2>3. ASSUME NEW u \in Users, UserBegins(u) \/ UserStep(u) PROVE ended' = ended
    BY <2>3 DEF UserBegins, UserStep, SimExchange, LoginCommand, SimExchangeStep, SimExchangeSave,
                SimExchangeFailed, LoginStep, LoginSave, LoginFailed
  <2>4. ASSUME NEW a \in Actors, Responds(a) \/ Crash(a) PROVE ended' = ended
    BY <2>4 DEF Responds, Respond, Condemn, Issue, IssueUnheard, Reject, Unanswered, EndpointFrame, Crash
  <2>5. CASE SimStartPkceLogin \/ SimExchangeTooLate \/ EndSession \/ Age \/ UNCHANGED vars
    BY <2>5 DEF SimStartPkceLogin, SimExchangeTooLate, EndSession, Age, vars, cacheVars
  <2> QED
    BY <2>1, <2>2, <2>3, <2>4, <2>5 DEF Next
<1>2. grants[token.session] <= grants'[token.session] /\ grants[token.session] \in Nat /\ grants'[token.session] \in Nat
  BY GrantsGrow
<1>3. token.generation < grants[token.session] => token.generation < grants'[token.session]
  BY <1>2
<1> QED
  BY <1>1, <1>3 DEF Dead

\* What a LIVE keeper is at: it saw a revision before it read the token that it asks with, and
\* had not stopped at that; a token that was rejected is dead, and so is the file's token when
\* the keeper has stopped at it, unless the answer was one that a good token does not deserve.
Errand(k) ==
    /\ environment = "SIM" => stopped[k] = 0
    /\ environment = "LIVE" =>
          /\ stopped[k] <= cache.revision
          /\ ~At(k, "idle") => call[k].seen <= cache.revision /\ (stopped[k] = 0 \/ stopped[k] < cache.revision)
          /\ Out(k) =>
                /\ call[k].seen <= call[k].token.revision
                /\ call[k].token.revision <= cache.revision
                /\ call[k].token.life # "refresh_expired"
                /\ call[k].token.revision = cache.revision =>
                      call[k].token.session = cache.session /\ call[k].token.generation = cache.generation
                /\ At(k, "answered") /\ call[k].answer = "rejected" =>
                      Dead(call[k].token) \/ condemned[k] = call[k].seen
          /\ CachePresent /\ stopped[k] = cache.revision =>
                \/ cache.life = "refresh_expired"
                \/ cache.session \in 1..MaxLogins /\ Dead(cache)
                \/ condemned[k] = cache.revision

ErrandInv == RefusalInv /\ NobodyAhead /\ \A k \in Keepers : Errand(k)

LEMMA ErrandTypes ==
    ASSUME SessionInv, NEW k \in Keepers
    PROVE  /\ k \in Actors /\ call \in [Actors -> Call] /\ call[k] \in Call /\ cache \in Token
           /\ stopped \in [Keepers -> Nat] /\ condemned \in [Keepers -> Nat] /\ environment \in {"SIM", "LIVE"}
           /\ cache.revision \in Nat /\ cache.generation \in Nat
           /\ call[k].seen \in Nat /\ call[k].token.revision \in Nat /\ call[k].token.generation \in Nat
           /\ stopped[k] \in Nat /\ condemned \in [Keepers -> Nat]
           /\ Out(k) => call[k].token.session \in 1..MaxLogins
           /\ Refreshable => cache.session \in 1..MaxLogins
<1>1. /\ k \in Actors /\ call \in [Actors -> Call] /\ call[k] \in Call /\ cache \in Token
      /\ stopped \in [Keepers -> Nat] /\ condemned \in [Keepers -> Nat] /\ environment \in {"SIM", "LIVE"}
  BY DEF SessionInv, Control, TypeOK, Actors
<1>2. /\ Out(k) => call[k].token.session \in 1..MaxLogins
      /\ Refreshable => cache.session \in 1..MaxLogins
  BY <1>1, SessionBounds DEF SessionInv, Control, Data, Session
<1> QED
  BY <1>1, <1>2 DEF Call, Token

LEMMA ErrandKept ==
    ASSUME SessionInv, ErrandInv, [Next]_vars, NEW k \in Keepers, call'[k] = call[k], stopped'[k] = stopped[k],
           condemned'[k] = condemned[k]
    PROVE  Errand(k)'
<1>1. Errand(k) /\ environment' = environment /\ (SameToken \/ cache'.revision = cache.revision + 1)
  BY EnvironmentStays, RevisionStep DEF ErrandInv
<1>2. Out(k)' <=> Out(k)
  BY DEF Out
<1>3. Out(k) /\ Dead(call[k].token) => Dead(call[k].token)'
  BY ErrandTypes, DeadStays DEF Dead
<1>4. SameToken /\ cache.session \in 1..MaxLogins /\ Dead(cache) => Dead(cache)'
  BY ErrandTypes, DeadStays DEF SameToken, Dead
<1>5. CASE SameToken
  BY <1>1, <1>2, <1>3, <1>4, <1>5 DEF Errand, SameToken, CachePresent, At
<1>6. CASE cache'.revision = cache.revision + 1
  BY <1>1, <1>2, <1>3, <1>6, ErrandTypes DEF Errand, At
<1> QED
  BY <1>1, <1>5, <1>6

LEMMA KeeperErrands ==
    ASSUME SessionInv, ErrandInv, [Next]_vars, NEW k \in Keepers, KeeperStep(k) \/ Responds(k) \/ Crash(k)
    PROVE  Errand(k)'
<1>1. Errand(k) /\ environment' = environment /\ NobodyAhead
  BY EnvironmentStays DEF ErrandInv
<1>2. ASSUME LivePoll(k) PROVE Errand(k)'
  <2>1. call'[k].at = "waiting" /\ call'[k].seen = cache.revision
    BY <1>2, ErrandTypes DEF LivePoll, Idle
  <2>2. UNCHANGED <<cache, stopped, condemned, ended, grants>> /\ (stopped[k] = 0 \/ stopped[k] # cache.revision)
    BY <1>2 DEF LivePoll, liveVars
  <2> QED
    BY <1>1, <2>1, <2>2, ErrandTypes DEF Errand, At, Out, Dead, CachePresent
<1>3. ASSUME LiveNoRequest(k) PROVE Errand(k)'
  <2>1. call'[k].at = "idle"
    BY <1>3, ErrandTypes, EndEffect, IdleType DEF LiveNoRequest
  <2>2. UNCHANGED <<cache, condemned, ended, grants>> /\ call[k].seen <= cache.revision /\ environment = "LIVE"
    BY <1>1, <1>3 DEF LiveNoRequest, Errand, At
  <2>3. \/ stopped'[k] = 0 \/ stopped'[k] = stopped[k]
        \/ stopped'[k] = call[k].seen /\ cache.life = "refresh_expired"
    BY <1>3, ErrandTypes DEF LiveNoRequest, KeeperStops
  <2>4. CachePresent => cache.revision # 0
    BY DEF ErrandInv, RefusalInv
  <2> QED
    BY <1>1, <2>1, <2>2, <2>3, <2>4, ErrandTypes DEF Errand, At, Out, Dead, CachePresent
<1>4. ASSUME LiveRequest(k) PROVE Errand(k)'
  <2>1. call'[k].at = "asking" /\ call'[k].token = cache /\ call'[k].seen = call[k].seen
    BY <1>4, ErrandTypes DEF LiveRequest, Ask, Call
  <2>2. UNCHANGED <<cache, stopped, condemned, ended, grants>> /\ At(k, "waiting") /\ cache.life # "refresh_expired"
    BY <1>4 DEF LiveRequest, liveVars
  <2> QED
    BY <1>1, <2>1, <2>2, ErrandTypes DEF Errand, At, Out, Dead, CachePresent
<1>5. ASSUME LiveSaveRefreshed(k) PROVE Errand(k)'
  <2>1. call'[k].at = "idle" /\ cache'.revision = cache.revision + 1 /\ environment = "LIVE"
    BY <1>5, ErrandTypes, EndEffect, IdleType DEF LiveSaveRefreshed, SaveTokenCache, Refreshed
  <2>2. stopped'[k] = 0 \/ stopped'[k] = stopped[k]
    BY <1>5, ErrandTypes DEF LiveSaveRefreshed, KeeperStops
  <2> QED
    BY <1>1, <2>1, <2>2, ErrandTypes DEF Errand, At, Out
<1>6. ASSUME LiveRefreshFailed(k) PROVE Errand(k)'
  <2>1. call'[k].at = "idle" /\ environment = "LIVE" /\ Out(k) /\ At(k, "answered")
    BY <1>6, ErrandTypes, EndEffect, IdleType DEF LiveRefreshFailed, Out, At
  <2>2. UNCHANGED <<cache, condemned, ended, grants>>
    BY <1>6 DEF LiveRefreshFailed
  <2>3. \/ stopped'[k] = 0 \/ stopped'[k] = stopped[k]
        \/ stopped'[k] = call[k].seen /\ call[k].answer = "rejected"
    BY <1>6, ErrandTypes DEF LiveRefreshFailed, KeeperStops
  <2>4. CachePresent => cache.revision # 0
    BY DEF ErrandInv, RefusalInv
  <2>5. call[k].answer = "rejected" /\ call[k].seen = cache.revision =>
          \/ cache.session \in 1..MaxLogins /\ Dead(cache)
          \/ condemned[k] = cache.revision
    <3> SUFFICES ASSUME call[k].answer = "rejected", call[k].seen = cache.revision, ~Dead(call[k].token)
                 PROVE  condemned[k] = cache.revision
      <4>1. call[k].seen = cache.revision =>
              call[k].token.session = cache.session /\ call[k].token.generation = cache.generation
        BY <1>1, <2>1, ErrandTypes DEF Errand
      <4> QED
        BY <2>1, <4>1, ErrandTypes DEF Dead
    <3> QED
      BY <1>1, <2>1 DEF Errand
  <2>6. call[k].seen <= cache.revision
    BY <1>1, <2>1 DEF Errand, At
  <2>7. CachePresent /\ stopped'[k] = cache.revision =>
          \/ cache.life = "refresh_expired"
          \/ cache.session \in 1..MaxLogins /\ Dead(cache)
          \/ condemned[k] = cache.revision
    BY <1>1, <2>1, <2>3, <2>4, <2>5 DEF Errand
  <2>8. stopped'[k] <= cache.revision
    BY <1>1, <2>1, <2>3, <2>6, ErrandTypes DEF Errand
  <2> QED
    BY <1>1, <2>1, <2>2, <2>7, <2>8 DEF Errand, At, Out, Dead, CachePresent
<1>7. ASSUME SimKeeperStep(k), UNCHANGED liveVars PROVE Errand(k)'
  <2>1. environment = "SIM" /\ stopped' = stopped
    BY <1>7 DEF liveVars, SimKeeperStep, SimKeeperStart, SimTakeRefreshLock, SimNoRequest, SimRequest,
                SimRefreshFailed, SimSaveRefreshed, SimSaveFailed
  <2> QED
    BY <1>1, <2>1 DEF Errand
<1>8. ASSUME Responds(k) PROVE Errand(k)'
  <2>1. PICK answer \in Answers : Answer(k, answer) /\ (answer = "rejected" => Reject(k) \/ Condemn(k))
    BY <1>8 DEF Responds, Respond, Condemn, Issue, IssueUnheard, Reject, Unanswered, Answers
  <2>2. /\ call'[k].at = "answered" /\ call'[k].token = call[k].token /\ call'[k].seen = call[k].seen
        /\ call'[k].answer = answer
    BY <2>1, ErrandTypes DEF Answer, Call
  <2>3. UNCHANGED <<cache, stopped, ended>> /\ At(k, "asking")
    BY <1>8 DEF Responds, Respond, Condemn, Issue, IssueUnheard, Reject, Unanswered, EndpointFrame, liveVars
  <2>4. Reject(k) /\ environment = "LIVE" => Dead(call[k].token)'
    <3>1. Reject(k) => grants' = grants /\ ~Accepts(call[k].token)
      BY DEF Reject
    <3>2. call[k].token.generation <= grants[call[k].token.session] /\ grants[call[k].token.session] \in Nat
      BY <1>1, <2>3, ErrandTypes, GrantsGrow DEF NobodyAhead, Behind, Out, At, Session
    <3>3. environment = "LIVE" => call[k].token.life # "refresh_expired"
      BY <1>1, <2>3 DEF Errand, Out, At
    <3> QED
      BY <2>2, <2>3, <3>1, <3>2, <3>3, ErrandTypes DEF Accepts, Dead
  <2>5. Condemn(k) => condemned'[k] = call'[k].seen
    BY <2>2, ErrandTypes DEF Condemn
  <2>6. environment = "LIVE" => ~(CachePresent /\ stopped[k] = cache.revision)
    BY <1>1, <2>3, ErrandTypes DEF Errand, At, ErrandInv, RefusalInv
  <2>7. cache.session \in 1..MaxLogins /\ Dead(cache) => Dead(cache)'
    BY <2>3, ErrandTypes, DeadStays DEF Dead
  <2>8. Dead(call'[k].token) <=> Dead(call[k].token)
    BY <2>2
  <2> QED
    BY <1>1, <2>1, <2>2, <2>3, <2>4, <2>5, <2>6, <2>7, <2>8, ErrandTypes DEF Errand, At, Out, CachePresent, Dead
<1>9. ASSUME Crash(k) PROVE Errand(k)'
  <2>1. call'[k].at = "idle" /\ stopped'[k] = 0
    BY <1>9, ErrandTypes, EndEffect, IdleType DEF Crash
  <2>2. UNCHANGED <<cache, ended>> /\ (CachePresent => cache.revision # 0)
    BY <1>9 DEF Crash, ErrandInv, RefusalInv
  <2> QED
    BY <1>1, <2>1, <2>2, ErrandTypes DEF Errand, At, Out, CachePresent
<1> QED
  BY <1>2, <1>3, <1>4, <1>5, <1>6, <1>7, <1>8, <1>9 DEF KeeperStep, LiveKeeperStep

LEMMA ErrandInvStep == ASSUME SessionInv, ErrandInv, [Next]_vars PROVE ErrandInv'
<1>1. \A k \in Keepers : Errand(k)'
  BY KeeperMoves, KeeperErrands, ErrandKept
<1> QED
  BY <1>1, RefusalInvStep, NobodyAheadStep DEF ErrandInv

\* A keeper that waits for the file to change never sleeps through a session it could refresh:
\* Saxo would refuse the token it has stopped at, or has answered this very keeper's request for
\* it as it answers a bad token (live_token_refresh.py:160, :189).
THEOREM StoppedKeepersMissNothing == Spec => []StoppedAtDeadToken
<1>1. Init => ErrandInv
  <2> SUFFICES ASSUME Init PROVE ErrandInv
    OBVIOUS
  <2>1. \A a \in Actors : call[a] = Idle /\ ~Out(a) /\ At(a, "idle")
    BY IdleType DEF Init, CacheInit, Out, At
  <2>2. RefusalInv /\ NobodyAhead
    BY <2>1, IdleType
       DEF Init, CacheInit, LiveInit, RefusalInv, Refusals, CachePresent, NoToken, Actors, NobodyAhead, Behind
  <2> QED
    BY <2>1, <2>2 DEF Init, CacheInit, LiveInit, ErrandInv, Errand, CachePresent, NoToken, Actors
<1>2. SessionInv /\ ErrandInv => StoppedAtDeadToken
  <2> SUFFICES ASSUME SessionInv, ErrandInv, NEW k \in Keepers, CachePresent, stopped[k] = cache.revision
               PROVE  ~Accepts(cache) \/ condemned[k] = cache.revision
    BY DEF StoppedAtDeadToken
  <2>1. environment = "LIVE"
    BY ErrandTypes DEF ErrandInv, RefusalInv, Errand
  <2>2. \/ cache.life = "refresh_expired"
        \/ cache.session \in 1..MaxLogins /\ Dead(cache)
        \/ condemned[k] = cache.revision
    BY <2>1 DEF ErrandInv, Errand
  <2>3. cache.session \in 1..MaxLogins => grants[cache.session] \in Nat
    BY DEF SessionInv, Control, TypeOK
  <2> QED
    BY <2>2, <2>3, ErrandTypes DEF Accepts, Dead
<1> QED
  BY <1>1, <1>2, ErrandInvStep, SessionInvAlways, PTL DEF Spec
===============================================================================
