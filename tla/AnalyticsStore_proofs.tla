-------------------------- MODULE AnalyticsStore_proofs --------------------------
(***************************************************************************)
(* Proofs about AnalyticsStore, for any number of store objects, artifacts,*)
(* tokens and faults: rows and files stay together, deletions are final.   *)
(***************************************************************************)
EXTENDS AnalyticsStore, TLAPS

Locked == {"reconciling", "staged", "deleting"}

--------------------------------------------------------------------------------
(* Type correctness.                                                           *)

LEMMA RestType == ASSUME NEW s \in {"closed", "open", "poisoned"} PROVE Rest(s) \in Client
  BY DEF Rest, Client, NowhereListed, Place

LEMMA RestAt == \A s : Rest(s).at = "idle"
  BY DEF Rest

LEMMA FinishType ==
    ASSUME NEW c \in Clients, client \in [Clients -> Client], NEW a, NEW b \in BOOLEAN, Finish(c, a, b)
    PROVE  /\ client' \in [Clients -> Client]
           /\ \A d \in Clients : d # c => client'[d] = client[d]
           /\ client'[c].at \in {"idle", client[c].at}
<1> DEFINE left == client[c].todo \ {a}
           bad == client[c].failed \/ b
           next == IF left = {} THEN Rest(IF bad THEN "poisoned" ELSE "open")
                   ELSE [client[c] EXCEPT !.todo = left, !.failed = bad]
<1>1. client' = [client EXCEPT ![c] = next]
  BY DEF Finish, Set
<1>2. left \in SUBSET Artifacts /\ bad \in BOOLEAN /\ client[c] \in Client
  BY DEF Client
<1>3. Rest(IF bad THEN "poisoned" ELSE "open") \in Client
  BY RestType
<1>4. [client[c] EXCEPT !.todo = left, !.failed = bad] \in Client
  BY <1>2 DEF Client
<1>5. next \in Client
  BY <1>3, <1>4
<1>6. next.at \in {"idle", client[c].at}
  BY <1>2 DEF Rest, Client
<1> QED
  BY <1>1, <1>5, <1>6

LEMMA MoveType ==
    ASSUME TypeOK, NEW c \in Clients, NEW a \in Artifacts, NEW from \in Place, NEW to \in Place,
           Move(c, a, from, to), client[c].at \notin Locked
    PROVE  /\ file' \in [Artifacts -> Place]
           /\ client' \in [Clients -> Client]
           /\ \A d \in Clients : d # c => client'[d] = client[d]
           /\ client'[c].at \notin Locked
<1>1. client \in [Clients -> Client]
  BY DEF TypeOK
<1>2. PICK b \in BOOLEAN : Finish(c, a, b)
  BY DEF Move
<1>3. file' \in [Artifacts -> Place]
  BY DEF Move, TypeOK
<1> QED
  BY <1>1, <1>2, <1>3, FinishType DEF Locked

LEMMA AppliedType ==
    ASSUME TypeOK, NEW c \in Clients, Applied(c)
    PROVE  rows' \in SUBSET Artifacts /\ revision' \in Nat /\ tokens' \in [Tokens -> DeletionToken]
<1>1. client[c] \in Client
  BY DEF TypeOK
<1>2. rows' \in SUBSET Artifacts /\ revision' \in Nat
  BY <1>1 DEF TypeOK, Applied, Client
<1>3. \A t \in Tokens : [tokens[t] EXCEPT !.used = @ \/ t \in client[c].token] \in DeletionToken
  <2> TAKE t \in Tokens
  <2>1. tokens[t] \in DeletionToken
    BY DEF TypeOK
  <2>2. (tokens[t].used \/ t \in client[c].token) \in BOOLEAN
    OBVIOUS
  <2> QED
    BY <2>1, <2>2 DEF DeletionToken
<1> QED
  BY <1>2, <1>3 DEF Applied

LEMMA TypeStep == ASSUME TypeOK, [Next]_vars PROVE TypeOK'
<1> USE NoOneAssumption, BoundAssumption, PlaceAssumption DEF TypeOK, Locked
<1>1. ASSUME NEW c \in Clients, OpenStore(c) PROVE TypeOK'
  <2>1. CASE {a \in Artifacts : a \in rows \/ file[a] # "none"} = {}
    <3>1. client' = [client EXCEPT ![c] = Rest("open")] /\ lock' = lock /\ lock = NoOne
      BY <1>1, <2>1 DEF OpenStore, Set
    <3> QED
      BY <1>1, <3>1, RestType, RestAt DEF OpenStore
  <2>2. CASE {a \in Artifacts : a \in rows \/ file[a] # "none"} # {}
    <3> DEFINE found == {a \in Artifacts : a \in rows \/ file[a] # "none"}
               next == [Rest("closed") EXCEPT !.at = "reconciling", !.todo = found, !.listing = file]
    <3>1. next \in Client /\ next.at = "reconciling"
      BY RestType DEF Client, Rest
    <3>2. client' = [client EXCEPT ![c] = next] /\ lock' = c /\ lock = NoOne
      BY <1>1, <2>2 DEF OpenStore, Set
    <3> QED
      BY <1>1, <3>1, <3>2 DEF OpenStore
  <2> QED
    BY <2>1, <2>2
<1>2. ASSUME NEW c \in Clients, Reconcile(c) PROVE TypeOK'
  <2>1. lock = c /\ client[c] \in Client
    BY <1>2 DEF Reconcile, At
  <2>2. PICK a \in client[c].todo :
          /\ file' = [file EXCEPT ![a] = IF a \in rows THEN "canonical" ELSE "none"]
          /\ IF client[c].todo = {a}
             THEN Set(c, Rest("open")) /\ lock' = NoOne
             ELSE client' = [client EXCEPT ![c].todo = @ \ {a}] /\ UNCHANGED lock
    BY <1>2 DEF Reconcile
  <2>3. file' \in [Artifacts -> Place]
    BY <2>2, <2>1 DEF Place, Client
  <2>4. CASE client[c].todo = {a}
    <3>1. client' = [client EXCEPT ![c] = Rest("open")] /\ lock' = NoOne
      BY <2>2, <2>4 DEF Set
    <3> QED
      BY <1>2, <2>1, <2>3, <3>1, RestType, RestAt DEF Reconcile
  <2>5. CASE client[c].todo # {a}
    <3>1. [client[c] EXCEPT !.todo = @ \ {a}] \in Client
      BY <2>1 DEF Client
    <3>2. client' = [client EXCEPT ![c] = [client[c] EXCEPT !.todo = @ \ {a}]] /\ lock' = lock
      BY <2>2, <2>5
    <3>3. [client[c] EXCEPT !.todo = @ \ {a}].at = client[c].at
      BY <2>1 DEF Client
    <3> QED
      BY <1>2, <2>1, <2>3, <3>1, <3>2, <3>3 DEF Reconcile
  <2> QED
    BY <2>4, <2>5
<1>3. ASSUME NEW c \in Clients, OpenRaises(c) \/ CloseStore(c) PROVE TypeOK'
  <2>1. client' = [client EXCEPT ![c] = Rest("closed")]
    BY <1>3 DEF OpenRaises, CloseStore, Set
  <2>2. \/ lock = c /\ lock' = NoOne
        \/ client[c].at = "idle" /\ lock' = lock
    BY <1>3 DEF OpenRaises, CloseStore, At
  <2>3. UNCHANGED <<rows, revision, file, tokens, issued, gone, faults>>
    BY <1>3 DEF OpenRaises, CloseStore
  <2> QED
    BY <2>1, <2>2, <2>3, RestType, RestAt
<1>4. ASSUME NEW c \in Clients, FileStep(c) PROVE TypeOK'
  <2>1. client[c] \in Client /\ client[c].at \notin Locked
    BY <1>4 DEF FileStep, Publish, Discard, Remove, Restore, At
  <2>2. PICK a \in Artifacts, from \in Place, to \in Place : Move(c, a, from, to)
    BY <1>4, <2>1 DEF FileStep, Publish, Discard, Remove, Restore, Client, Place
  <2>3. /\ file' \in [Artifacts -> Place]
        /\ client' \in [Clients -> Client]
        /\ \A d \in Clients : d # c => client'[d] = client[d]
        /\ client'[c].at \notin Locked
    BY <2>1, <2>2, MoveType
  <2>4. UNCHANGED <<rows, revision, tokens, lock, issued, faults>>
    BY <1>4 DEF FileStep, Publish, Discard, Remove, Restore
  <2>5. \A t \in client[c].token : tokens[t].plan \subseteq Artifacts
    BY <2>1 DEF Client, DeletionToken
  <2>6. gone' = gone \/ gone' = gone \cup UNION {tokens[t].plan : t \in client[c].token}
    BY <1>4 DEF FileStep, Publish, Discard, Remove, Restore
  <2>7. gone' \subseteq Artifacts
    BY <2>5, <2>6
  <2> QED
    BY <2>1, <2>3, <2>4, <2>7
<1>5. ASSUME NEW c \in Clients, FileStepFails(c) PROVE TypeOK'
  <2>1. client[c] \in Client /\ client[c].at \notin Locked
    BY <1>5 DEF FileStepFails
  <2>2. PICK a \in client[c].todo : Finish(c, a, TRUE)
    BY <1>5 DEF FileStepFails
  <2>3. /\ client' \in [Clients -> Client]
        /\ \A d \in Clients : d # c => client'[d] = client[d]
        /\ client'[c].at \notin Locked
    BY <2>1, <2>2, FinishType
  <2> QED
    BY <1>5, <2>1, <2>3 DEF FileStepFails, Fault
<1>6. ASSUME NEW c \in Clients, StageArtifact(c) PROVE TypeOK'
  <2> DEFINE next == [Rest("open") EXCEPT !.at = "staged", !.todo = {issued'}]
  <2>1. issued' \in Artifacts /\ issued' = issued + 1
    BY <1>6 DEF StageArtifact, Artifacts
  <2>2. next \in Client /\ next.at = "staged"
    BY <2>1, RestType DEF Client, Rest
  <2>3. client' = [client EXCEPT ![c] = next] /\ lock' = c /\ lock = NoOne
    BY <1>6 DEF StageArtifact, Set, Free
  <2>4. file' \in [Artifacts -> Place]
    BY <1>6, <2>1 DEF StageArtifact, Place
  <2>5. issued' \in 0..MaxArtifacts
    BY <2>1 DEF Artifacts
  <2> QED
    BY <1>6, <2>2, <2>3, <2>4, <2>5 DEF StageArtifact
<1>7. ASSUME NEW c \in Clients, CommitArtifact(c) \/ CommitDelete(c) PROVE TypeOK'
  <2>1. client[c] \in Client /\ lock = c /\ lock' = NoOne
    BY <1>7 DEF CommitArtifact, CommitDelete, At
  <2>2. PICK next \in Client : client' = [client EXCEPT ![c] = next] /\ next.at \in {"publishing", "removing"}
    <3>1. CASE CommitArtifact(c)
      <4>1. [client[c] EXCEPT !.at = "publishing"] \in Client
        BY <2>1 DEF Client
      <4>2. client' = [client EXCEPT ![c] = [client[c] EXCEPT !.at = "publishing"]]
        BY <3>1 DEF CommitArtifact
      <4>3. [client[c] EXCEPT !.at = "publishing"].at = "publishing"
        BY <2>1 DEF Client
      <4> QED
        BY <4>1, <4>2, <4>3
    <3>2. CASE CommitDelete(c)
      <4> DEFINE left == [client[c] EXCEPT !.at = "removing", !.todo = client[c].moved]
      <4>1. left \in Client /\ left.at = "removing"
        BY <2>1 DEF Client
      <4>2. client' = [client EXCEPT ![c] = left]
        BY <3>2, <2>1 DEF CommitDelete, Client
      <4> QED
        BY <4>1, <4>2
    <3> QED
      BY <1>7, <3>1, <3>2
  <2>3. rows' \in SUBSET Artifacts /\ revision' \in Nat /\ tokens' \in [Tokens -> DeletionToken]
    <3>1. Applied(c)
      BY <1>7 DEF CommitArtifact, CommitDelete
    <3> QED
      BY <2>1, <3>1, AppliedType
  <2>4. UNCHANGED <<file, issued, gone, faults>>
    BY <1>7 DEF CommitArtifact, CommitDelete
  <2> QED
    BY <2>1, <2>2, <2>3, <2>4
<1>8. ASSUME NEW c \in Clients, PutFails(c) PROVE TypeOK'
  <2> DEFINE next == [client[c] EXCEPT !.at = "discarding"]
  <2>1. client[c] \in Client /\ lock = c
    BY <1>8 DEF PutFails, At
  <2>2. next \in Client /\ next.at = "discarding"
    BY <2>1 DEF Client
  <2>3. client' = [client EXCEPT ![c] = next] /\ lock' = NoOne
    BY <1>8 DEF PutFails
  <2> QED
    BY <1>8, <2>1, <2>2, <2>3 DEF PutFails, Fault
<1>9. ASSUME NEW c \in Clients, NEW t \in Tokens, PreviewDelete(c, t) PROVE TypeOK'
  <2>1. PICK plan \in SUBSET rows :
          tokens' = [tokens EXCEPT ![t] = [NoToken EXCEPT !.issued = TRUE, !.plan = plan,
                                                          !.revision = revision, !.before = rows]]
    BY <1>9 DEF PreviewDelete
  <2>2. rows \subseteq Artifacts
    BY DEF Artifacts
  <2>3. [NoToken EXCEPT !.issued = TRUE, !.plan = plan, !.revision = revision, !.before = rows]
            \in DeletionToken
    BY <2>2 DEF NoToken, DeletionToken
  <2> QED
    BY <1>9, <2>1, <2>3 DEF PreviewDelete
<1>10. ASSUME NEW t \in Tokens, Expire(t) PROVE TypeOK'
  <2>1. [tokens[t] EXCEPT !.expired = TRUE] \in DeletionToken
    BY DEF DeletionToken
  <2>2. tokens' = [tokens EXCEPT ![t] = [tokens[t] EXCEPT !.expired = TRUE]]
    BY <1>10 DEF Expire
  <2> QED
    BY <1>10, <2>1, <2>2 DEF Expire
<1>11. ASSUME NEW c \in Clients, NEW t \in Tokens, BeginDelete(c, t) PROVE TypeOK'
  <2> DEFINE next == [Rest("open") EXCEPT !.at = "deleting", !.todo = tokens[t].plan, !.token = {t}]
  <2>1. next \in Client /\ next.at = "deleting"
    BY RestType DEF Client, Rest, DeletionToken
  <2>2. client' = [client EXCEPT ![c] = next] /\ lock' = c /\ lock = NoOne
    BY <1>11 DEF BeginDelete, Set, Free
  <2> QED
    BY <1>11, <2>1, <2>2 DEF BeginDelete
<1>12. ASSUME NEW c \in Clients, StageDeletion(c) PROVE TypeOK'
  <2>1. client[c] \in Client
    OBVIOUS
  <2>2. PICK a \in client[c].todo :
          /\ file' = [file EXCEPT ![a] = c]
          /\ client' = [client EXCEPT ![c].todo = @ \ {a}, ![c].moved = @ \cup {a}]
    BY <1>12 DEF StageDeletion
  <2> DEFINE next == [client[c] EXCEPT !.todo = client[c].todo \ {a}, !.moved = client[c].moved \cup {a}]
  <2>3. a \in Artifacts
    BY <2>1, <2>2 DEF Client
  <2>4. client' = [client EXCEPT ![c] = next]
    BY <2>2, <2>1 DEF Client
  <2>5. next \in Client /\ next.at = client[c].at
    BY <2>1, <2>3 DEF Client
  <2>6. file' \in [Artifacts -> Place]
    BY <2>2, <2>3 DEF Place
  <2> QED
    BY <1>12, <2>4, <2>5, <2>6 DEF StageDeletion
<1>13. ASSUME NEW c \in Clients, DeleteFails(c) PROVE TypeOK'
  <2> DEFINE back == [client[c] EXCEPT !.at = "restoring", !.todo = client[c].moved, !.moved = {}]
             next == IF client[c].moved = {} THEN Rest("open") ELSE back
  <2>1. client[c] \in Client /\ lock = c
    BY <1>13 DEF DeleteFails, At
  <2>2. back \in Client /\ back.at = "restoring"
    BY <2>1 DEF Client
  <2>3. next \in Client /\ next.at \in {"idle", "restoring"}
    BY <2>2, RestType DEF Rest
  <2>4. client' = [client EXCEPT ![c] = next] /\ lock' = NoOne
    BY <1>13 DEF DeleteFails, RollBack, Set
  <2> QED
    BY <1>13, <2>1, <2>3, <2>4 DEF DeleteFails, RollBack, Fault
<1>14. ASSUME NEW c \in Clients, CommitRaises(c) PROVE TypeOK'
  <2>1. lock = c /\ lock' = NoOne
    BY <1>14 DEF CommitRaises, Committing, At
  <2>2. client' = [client EXCEPT ![c] = Rest("poisoned")]
    BY <1>14 DEF CommitRaises, Set
  <2>3. rows' \in SUBSET Artifacts /\ revision' \in Nat /\ tokens' \in [Tokens -> DeletionToken]
    BY <1>14, AppliedType DEF CommitRaises
  <2>4. UNCHANGED <<file, issued, gone>> /\ faults' \in 0..MaxFaults
    BY <1>14 DEF CommitRaises, Fault
  <2> QED
    BY <2>1, <2>2, <2>3, <2>4, RestType, RestAt
<1>15. ASSUME NEW c \in Clients, PreviewRaises(c) \/ Crash(c) PROVE TypeOK'
  <2>1. PICK s \in {"closed", "poisoned"} : client' = [client EXCEPT ![c] = Rest(s)]
    BY <1>15 DEF PreviewRaises, Crash, Set
  <2>2. \/ lock = c /\ lock' = NoOne
        \/ lock # c /\ lock' = lock
    BY <1>15 DEF PreviewRaises, Crash, Free
  <2>3. UNCHANGED <<rows, revision, file, tokens, issued, gone>> /\ faults' \in 0..MaxFaults
    BY <1>15 DEF PreviewRaises, Crash, Fault
  <2> QED
    BY <2>1, <2>2, <2>3, RestType, RestAt
<1>16. CASE UNCHANGED vars
  BY <1>16 DEF vars
<1> QED
  BY <1>1, <1>2, <1>3, <1>4, <1>5, <1>6, <1>7, <1>8, <1>9, <1>10, <1>11, <1>12, <1>13, <1>14, <1>15,
     <1>16 DEF Next, Reconciles, Put, Delete

--------------------------------------------------------------------------------
(* The inductive invariant: who may touch which file, and why.                 *)

Given == 1..issued

Putting(c) == client[c].at \in {"staged", "publishing", "discarding"}

\* Numbers are given out once, and a token of the current revision saw the current rows.
Counted ==
    /\ rows \subseteq Given
    /\ gone \subseteq Given
    /\ \A t \in Tokens :
          /\ tokens[t].plan \subseteq tokens[t].before
          /\ tokens[t].before \subseteq Given
          /\ tokens[t].revision <= revision
          /\ tokens[t].issued /\ tokens[t].revision = revision => tokens[t].before = rows

\* Two puts never share an artifact.
OneOwner ==
    \A c \in Clients :
       Putting(c) =>
          /\ client[c].todo \subseteq Given
          /\ \A d \in Clients \ {c} : Putting(d) => client[c].todo \cap client[d].todo = {}

\* The file waits under its write marker, and nobody has heard of the artifact.
Staged(c) ==
    At(c, "staged") =>
       /\ client[c].moved = {}
       /\ client[c].token = {}
       /\ \E a \in Artifacts : client[c].todo = {a}
       /\ \A a \in client[c].todo :
             /\ file[a] = "write"
             /\ a \notin rows \cup gone
             /\ \A t \in Tokens : a \notin tokens[t].plan

\* A reconciliation may have been faster.
Published(c) ==
    At(c, "publishing") => \A a \in client[c].todo : file[a] = "write" => a \in rows

Discarded(c) ==
    At(c, "discarding") => client[c].todo \cap rows = {}

\* The files under the client's delete markers are its plan so far.
Deleting(c) ==
    At(c, "deleting") =>
       \E t \in Tokens :
          /\ client[c].token = {t}
          /\ tokens[t].issued
          /\ ~tokens[t].used
          /\ tokens[t].revision = revision
          /\ tokens[t].plan = client[c].todo \cup client[c].moved
          /\ ~client[c].failed
          /\ \A a \in client[c].moved : file[a] = c

Restoring(c) ==
    At(c, "restoring") => \A a \in client[c].todo : file[a] = c => a \in rows

\* What has been done of it without an error is done for good.
Removing(c) ==
    At(c, "removing") =>
       \E t \in Tokens :
          /\ client[c].token = {t}
          /\ tokens[t].issued
          /\ tokens[t].used
          /\ client[c].todo \subseteq tokens[t].plan
          /\ tokens[t].plan \cap rows = {}
          /\ ~client[c].failed => \A a \in tokens[t].plan \ client[c].todo : file[a] = "none"

Owns(c) == Staged(c) /\ Published(c) /\ Discarded(c) /\ Deleting(c) /\ Restoring(c) /\ Removing(c)

StoreInv ==
    /\ TypeOK
    /\ Counted
    /\ OneOwner
    /\ \A c \in Clients : Owns(c)
    /\ RowKeepsFile
    /\ NoOrphan
    /\ DeletedStaysGone

--------------------------------------------------------------------------------
(* Steps that move no file.                                                    *)

\* A client that comes to rest, or starts to reconcile, has nothing in its hands.
LEMMA QuietStep ==
    ASSUME StoreInv, TypeOK', NEW c \in Clients,
           UNCHANGED <<rows, revision, file, tokens, issued, gone>>,
           \A d \in Clients : d # c => client'[d] = client[d],
           client'[c].at \in {"idle", "reconciling"}
    PROVE  StoreInv'
<1>1. Counted' /\ RowKeepsFile' /\ NoOrphan' /\ DeletedStaysGone'
  BY DEF StoreInv, Counted, RowKeepsFile, NoOrphan, DeletedStaysGone, Given
<1>2. OneOwner'
  BY DEF StoreInv, OneOwner, Given, Putting
<1>3. ASSUME NEW d \in Clients PROVE Owns(d)'
  <2>1. CASE d = c
    BY <2>1 DEF Owns, At, Staged, Published, Discarded, Deleting, Restoring, Removing
  <2>2. CASE d # c
    BY <2>2 DEF StoreInv, Owns, At, Staged, Published, Discarded, Deleting, Restoring, Removing
  <2> QED
    BY <2>1, <2>2
<1> QED
  BY <1>1, <1>2, <1>3 DEF StoreInv

LEMMA StoreInvExpire ==
    ASSUME StoreInv, TypeOK', NEW u \in Tokens, Expire(u)
    PROVE  StoreInv'
<1>1. UNCHANGED <<rows, revision, file, client, issued, gone>>
  BY DEF Expire
<1>2. \A t \in Tokens : /\ tokens'[t].issued = tokens[t].issued
                        /\ tokens'[t].plan = tokens[t].plan
                        /\ tokens'[t].revision = tokens[t].revision
                        /\ tokens'[t].used = tokens[t].used
                        /\ tokens'[t].before = tokens[t].before
  BY DEF Expire, StoreInv, TypeOK, DeletionToken
<1>3. Counted' /\ RowKeepsFile' /\ NoOrphan' /\ DeletedStaysGone' /\ OneOwner'
  BY <1>1, <1>2 DEF StoreInv, Counted, RowKeepsFile, NoOrphan, DeletedStaysGone, OneOwner, Given, Putting
<1>4. ASSUME NEW d \in Clients PROVE Owns(d)'
  BY <1>1, <1>2 DEF StoreInv, Owns, At, Staged, Published, Discarded, Deleting, Restoring, Removing
<1> QED
  BY <1>3, <1>4 DEF StoreInv

LEMMA StoreInvPreview ==
    ASSUME StoreInv, TypeOK', NEW c \in Clients, NEW u \in Tokens, PreviewDelete(c, u)
    PROVE  StoreInv'
<1>1. UNCHANGED <<rows, revision, file, client, issued, gone>> /\ ~tokens[u].issued /\ lock = NoOne
  BY DEF PreviewDelete, Free
<1>2. /\ \A t \in Tokens : t # u => tokens'[t] = tokens[t]
      /\ tokens'[u].plan \subseteq rows
      /\ tokens'[u].before = rows
      /\ tokens'[u].revision = revision
  BY DEF PreviewDelete, StoreInv, TypeOK, NoToken
<1>3. Counted' /\ RowKeepsFile' /\ NoOrphan' /\ DeletedStaysGone' /\ OneOwner'
  <2>1. rows \subseteq Given /\ revision \in Nat
    BY DEF StoreInv, Counted, TypeOK
  <2>2. ASSUME NEW t \in Tokens
        PROVE  /\ tokens'[t].plan \subseteq tokens'[t].before
               /\ tokens'[t].before \subseteq Given
               /\ tokens'[t].revision <= revision
               /\ tokens'[t].issued /\ tokens'[t].revision = revision => tokens'[t].before = rows
    <3>1. CASE t = u
      BY <3>1, <1>2, <2>1
    <3>2. CASE t # u
      BY <3>2, <1>2 DEF StoreInv, Counted
    <3> QED
      BY <3>1, <3>2
  <2>3. Counted'
    BY <1>1, <2>1, <2>2 DEF StoreInv, Counted, Given
  <2> QED
    BY <1>1, <2>3 DEF StoreInv, RowKeepsFile, NoOrphan, DeletedStaysGone, OneOwner, Given, Putting
<1>4. ASSUME NEW d \in Clients PROVE Owns(d)'
  <2>1. Owns(d)
    BY DEF StoreInv
  <2>2. ~At(d, "staged") /\ ~At(d, "deleting")
    BY <1>1, NoOneAssumption DEF StoreInv, TypeOK, At
  <2> QED
    BY <1>1, <1>2, <2>1, <2>2 DEF Owns, At, Staged, Published, Discarded, Deleting, Restoring, Removing
<1> QED
  BY <1>3, <1>4 DEF StoreInv

LEMMA StoreInvBeginDelete ==
    ASSUME StoreInv, TypeOK', NEW c \in Clients, NEW u \in Tokens, BeginDelete(c, u)
    PROVE  StoreInv'
<1>1. UNCHANGED <<rows, revision, file, tokens, issued, gone>> /\ Authorized(u)
  BY DEF BeginDelete
<1>2. /\ \A d \in Clients : d # c => client'[d] = client[d]
      /\ client'[c] = [Rest("open") EXCEPT !.at = "deleting", !.todo = tokens[u].plan, !.token = {u}]
  BY DEF BeginDelete, Set, StoreInv, TypeOK
<1>3. /\ client'[c].at = "deleting"
      /\ client'[c].todo = tokens[u].plan
      /\ client'[c].token = {u}
      /\ client'[c].moved = {}
      /\ ~client'[c].failed
  BY <1>2 DEF Rest
<1>4. Counted' /\ RowKeepsFile' /\ NoOrphan' /\ DeletedStaysGone' /\ OneOwner'
  BY <1>1, <1>2, <1>3 DEF StoreInv, Counted, RowKeepsFile, NoOrphan, DeletedStaysGone, OneOwner, Given, Putting
<1>5. ASSUME NEW d \in Clients PROVE Owns(d)'
  <2>1. CASE d = c
    <3>1. Deleting(c)'
      BY <1>1, <1>3 DEF Deleting, Authorized
    <3> QED
      BY <2>1, <1>3, <3>1 DEF Owns, At, Staged, Published, Discarded, Restoring, Removing
  <2>2. CASE d # c
    BY <1>1, <1>2, <2>2 DEF StoreInv, Owns, At, Staged, Published, Discarded, Deleting, Restoring, Removing
  <2> QED
    BY <2>1, <2>2
<1> QED
  BY <1>4, <1>5 DEF StoreInv

LEMMA StoreInvPutFails ==
    ASSUME StoreInv, TypeOK', NEW c \in Clients, PutFails(c)
    PROVE  StoreInv'
<1>1. UNCHANGED <<rows, revision, file, tokens, issued, gone>> /\ At(c, "staged")
  BY DEF PutFails
<1>2. /\ \A d \in Clients : d # c => client'[d] = client[d]
      /\ client'[c].at = "discarding"
      /\ client'[c].todo = client[c].todo
  BY DEF PutFails, StoreInv, TypeOK, Client
<1>3. Counted' /\ RowKeepsFile' /\ NoOrphan' /\ DeletedStaysGone'
  BY <1>1, <1>2 DEF StoreInv, Counted, RowKeepsFile, NoOrphan, DeletedStaysGone, Given
<1>4. OneOwner'
  BY <1>1, <1>2 DEF StoreInv, OneOwner, Given, Putting, At
<1>5. ASSUME NEW d \in Clients PROVE Owns(d)'
  <2>1. CASE d = c
    <3>1. Discarded(c)'
      BY <1>1, <1>2 DEF Discarded, StoreInv, Owns, Staged
    <3> QED
      BY <2>1, <1>2, <3>1 DEF Owns, At, Staged, Published, Deleting, Restoring, Removing
  <2>2. CASE d # c
    BY <1>1, <1>2, <2>2 DEF StoreInv, Owns, At, Staged, Published, Discarded, Deleting, Restoring, Removing
  <2> QED
    BY <2>1, <2>2
<1> QED
  BY <1>3, <1>4, <1>5 DEF StoreInv

LEMMA StoreInvDeleteFails ==
    ASSUME StoreInv, TypeOK', NEW c \in Clients, DeleteFails(c)
    PROVE  StoreInv'
<1>1. UNCHANGED <<rows, revision, file, tokens, issued, gone>> /\ At(c, "deleting")
  BY DEF DeleteFails, RollBack
<1>2. \A d \in Clients : d # c => client'[d] = client[d]
  BY DEF DeleteFails, RollBack, Set, StoreInv, TypeOK
<1>3. CASE client[c].moved = {}
  <2>1. client'[c].at = "idle"
    BY <1>3 DEF DeleteFails, RollBack, Set, StoreInv, TypeOK, Rest
  <2> QED
    BY <1>1, <1>2, <2>1, QuietStep
<1>4. CASE client[c].moved # {}
  <2>1. client'[c].at = "restoring" /\ client'[c].todo = client[c].moved
    BY <1>4 DEF DeleteFails, RollBack, Set, StoreInv, TypeOK, Client
  <2>2. Counted' /\ RowKeepsFile' /\ NoOrphan' /\ DeletedStaysGone' /\ OneOwner'
    BY <1>1, <1>2, <2>1 DEF StoreInv, Counted, RowKeepsFile, NoOrphan, DeletedStaysGone, OneOwner, Given, Putting
  <2>3. ASSUME NEW d \in Clients PROVE Owns(d)'
    <3>1. CASE d = c
      <4>1. client[c].moved \subseteq rows
        BY <1>1 DEF StoreInv, Owns, Deleting, Counted
      <4>2. Restoring(c)'
        BY <1>1, <2>1, <4>1 DEF Restoring
      <4> QED
        BY <3>1, <2>1, <4>2 DEF Owns, At, Staged, Published, Discarded, Deleting, Removing
    <3>2. CASE d # c
      BY <1>1, <1>2, <3>2 DEF StoreInv, Owns, At, Staged, Published, Discarded, Deleting, Restoring, Removing
    <3> QED
      BY <3>1, <3>2
  <2> QED
    BY <2>2, <2>3 DEF StoreInv
<1> QED
  BY <1>3, <1>4

--------------------------------------------------------------------------------
(* A COMMIT that is applied, whatever its client is told.                      *)

\* For every other client, and for rows and files.
LEMMA AppliedStep ==
    ASSUME StoreInv, NEW c \in Clients, Committing(c), Applied(c), UNCHANGED <<file, issued, gone>>,
           \A d \in Clients : d # c => client'[d] = client[d]
    PROVE  /\ Counted' /\ RowKeepsFile' /\ NoOrphan' /\ DeletedStaysGone'
           /\ \A d \in Clients : d # c => Owns(d)'
<1> USE DEF At
<1>1. TypeOK /\ Counted /\ OneOwner /\ Owns(c) /\ RowKeepsFile /\ NoOrphan /\ DeletedStaysGone
  BY DEF StoreInv
<1>2. lock = c /\ \A d \in Clients : d # c => ~At(d, "staged") /\ ~At(d, "deleting")
  BY <1>1 DEF TypeOK, Committing
<1>3. /\ revision \in Nat
      /\ revision' = revision + 1
      /\ \A t \in Tokens : /\ tokens'[t].issued = tokens[t].issued
                           /\ tokens'[t].plan = tokens[t].plan
                           /\ tokens'[t].revision = tokens[t].revision
                           /\ tokens'[t].before = tokens[t].before
                           /\ tokens[t].used => tokens'[t].used
  BY <1>1 DEF Applied, TypeOK, DeletionToken
<1>4. \A t \in Tokens : tokens[t].revision \in Nat
  BY <1>1 DEF TypeOK, DeletionToken
<1>5A. \A t \in Tokens :
          /\ tokens'[t].plan \subseteq tokens'[t].before
          /\ tokens'[t].before \subseteq Given'
          /\ tokens'[t].revision <= revision'
          /\ tokens'[t].issued /\ tokens'[t].revision = revision' => tokens'[t].before = rows'
  <2> TAKE t \in Tokens
  <2>1. /\ tokens[t].plan \subseteq tokens[t].before
        /\ tokens[t].before \subseteq Given
        /\ tokens[t].revision <= revision
    BY <1>1 DEF Counted
  <2>2. tokens[t].revision <= revision + 1 /\ tokens[t].revision # revision + 1
    BY <2>1, <1>3, <1>4
  <2>3. Given' = Given
    BY DEF Given
  <2> QED
    BY <1>3, <2>1, <2>2, <2>3
<1>5. CASE At(c, "staged")
  <2>1. rows' = rows \cup client[c].todo
    BY <1>1, <1>5 DEF Applied, Owns, Staged
  <2>2. client[c].todo \subseteq Given
    BY <1>1, <1>5 DEF OneOwner, Putting
  <2>3. \A a \in client[c].todo : file[a] = "write" /\ a \notin gone /\ \A t \in Tokens : a \notin tokens[t].plan
    BY <1>1, <1>5 DEF Owns, Staged
  <2>4. Counted'
    <3>1. rows' \subseteq Given' /\ gone' \subseteq Given'
      BY <1>1, <2>1, <2>2 DEF Counted, Given
    <3> QED
      BY <3>1, <1>5A DEF Counted
  <2>5. RowKeepsFile' /\ NoOrphan' /\ DeletedStaysGone'
    BY <1>1, <2>1, <2>3 DEF RowKeepsFile, NoOrphan, DeletedStaysGone
  <2>6. ASSUME NEW d \in Clients, d # c PROVE Owns(d)'
    <3>1. Owns(d) /\ client'[d] = client[d] /\ ~At(d, "staged") /\ ~At(d, "deleting")
      BY <1>2, <2>6 DEF StoreInv
    <3>2. At(d, "discarding") => client[d].todo \cap client[c].todo = {}
      BY <1>1, <1>5, <2>6 DEF OneOwner, Putting
    <3>3. Published(d)' /\ Discarded(d)' /\ Restoring(d)'
      BY <2>1, <3>1, <3>2 DEF Owns, Published, Discarded, Restoring
    <3>4. Removing(d)'
      BY <1>3, <2>1, <2>3, <3>1 DEF Owns, Removing
    <3> QED
      BY <3>1, <3>3, <3>4 DEF Owns, Staged, Deleting
  <2> QED
    BY <2>4, <2>5, <2>6
<1>6. CASE At(c, "deleting") /\ client[c].todo = {}
  <2>1. rows' = rows \ client[c].moved
    BY <1>1, <1>6 DEF Applied
  <2>2. \A a \in client[c].moved : file[a] = c
    BY <1>1, <1>6 DEF Owns, Deleting
  <2>3. Counted'
    <3>1. rows' \subseteq Given' /\ gone' \subseteq Given'
      BY <1>1, <2>1 DEF Counted, Given
    <3> QED
      BY <3>1, <1>5A DEF Counted
  <2>4. c \notin {"none", "write", "canonical"}
    BY PlaceAssumption
  <2>5. client[c].moved \subseteq Artifacts
    BY <1>1 DEF TypeOK, Client
  <2>6. RowKeepsFile' /\ NoOrphan' /\ DeletedStaysGone'
    BY <1>1, <2>1, <2>2, <2>4 DEF RowKeepsFile, NoOrphan, DeletedStaysGone
  <2>7. ASSUME NEW d \in Clients, d # c PROVE Owns(d)'
    <3>1. Owns(d) /\ client'[d] = client[d] /\ ~At(d, "staged") /\ ~At(d, "deleting")
      BY <1>2, <2>7 DEF StoreInv
    <3>2. Published(d)' /\ Discarded(d)' /\ Restoring(d)'
      BY <2>1, <2>2, <2>4, <2>7, <3>1 DEF Owns, Published, Discarded, Restoring
    <3>3. Removing(d)'
      BY <1>3, <2>1, <3>1 DEF Owns, Removing
    <3> QED
      BY <3>1, <3>2, <3>3 DEF Owns, Staged, Deleting
  <2> QED
    BY <2>3, <2>6, <2>7
<1> QED
  BY <1>5, <1>6 DEF Committing

LEMMA StoreInvCommitArtifact ==
    ASSUME StoreInv, TypeOK', NEW c \in Clients, CommitArtifact(c)
    PROVE  StoreInv'
<1>1. UNCHANGED <<file, issued, gone>> /\ Applied(c) /\ At(c, "staged") /\ Committing(c)
  BY DEF CommitArtifact, Committing
<1>2. /\ \A d \in Clients : d # c => client'[d] = client[d]
      /\ client'[c].at = "publishing"
      /\ client'[c].todo = client[c].todo
  BY DEF CommitArtifact, StoreInv, TypeOK, Client
<1>3. /\ Counted' /\ RowKeepsFile' /\ NoOrphan' /\ DeletedStaysGone'
      /\ \A d \in Clients : d # c => Owns(d)'
  BY <1>1, <1>2, AppliedStep
<1>4. OneOwner'
  BY <1>1, <1>2 DEF StoreInv, OneOwner, Given, Putting, At
<1>5. client[c].moved = {}
  BY <1>1 DEF StoreInv, Owns, Staged
<1>6. Published(c)'
  BY <1>1, <1>2, <1>5 DEF Published, Applied
<1>7. Owns(c)'
  BY <1>2, <1>6 DEF Owns, At, Staged, Discarded, Deleting, Restoring, Removing
<1> QED
  BY <1>3, <1>4, <1>7 DEF StoreInv

LEMMA StoreInvCommitDelete ==
    ASSUME StoreInv, TypeOK', NEW c \in Clients, CommitDelete(c)
    PROVE  StoreInv'
<1>1. /\ UNCHANGED <<file, issued, gone>> /\ Applied(c) /\ Committing(c)
      /\ At(c, "deleting") /\ client[c].todo = {}
  BY DEF CommitDelete, Committing
<1>2. /\ \A d \in Clients : d # c => client'[d] = client[d]
      /\ client'[c].at = "removing"
      /\ client'[c].todo = client[c].moved
      /\ client'[c].token = client[c].token
  BY DEF CommitDelete, StoreInv, TypeOK, Client
<1>3. /\ Counted' /\ RowKeepsFile' /\ NoOrphan' /\ DeletedStaysGone'
      /\ \A d \in Clients : d # c => Owns(d)'
  BY <1>1, <1>2, AppliedStep
<1>4. OneOwner'
  BY <1>1, <1>2 DEF StoreInv, OneOwner, Given, Putting
<1>5. PICK t \in Tokens :
        /\ client[c].token = {t}
        /\ tokens[t].issued
        /\ tokens[t].plan = client[c].moved
  BY <1>1 DEF StoreInv, Owns, Deleting
<1>6. tokens'[t].issued /\ tokens'[t].used /\ tokens'[t].plan = client[c].moved /\ rows' = rows \ client[c].moved
  BY <1>1, <1>5 DEF Applied, StoreInv, TypeOK, DeletionToken
<1>7. Removing(c)'
  BY <1>2, <1>5, <1>6 DEF Removing
<1>8. Owns(c)'
  BY <1>2, <1>7 DEF Owns, At, Staged, Published, Discarded, Deleting, Restoring
<1> QED
  BY <1>3, <1>4, <1>8 DEF StoreInv

LEMMA StoreInvCommitRaises ==
    ASSUME StoreInv, TypeOK', NEW c \in Clients, CommitRaises(c)
    PROVE  StoreInv'
<1>1. UNCHANGED <<file, issued, gone>> /\ Committing(c)
  BY DEF CommitRaises
<1>2. (\A d \in Clients : d # c => client'[d] = client[d]) /\ client'[c].at = "idle"
  BY DEF CommitRaises, Set, StoreInv, TypeOK, Rest
<1>3. CASE UNCHANGED <<rows, revision, tokens>>
  BY <1>1, <1>2, <1>3, QuietStep
<1>4. CASE Applied(c)
  <2>1. /\ Counted' /\ RowKeepsFile' /\ NoOrphan' /\ DeletedStaysGone'
        /\ \A d \in Clients : d # c => Owns(d)'
    BY <1>1, <1>2, <1>4, AppliedStep
  <2>2. OneOwner'
    BY <1>1, <1>2 DEF StoreInv, OneOwner, Given, Putting
  <2>3. Owns(c)'
    BY <1>2 DEF Owns, At, Staged, Published, Discarded, Deleting, Restoring, Removing
  <2> QED
    BY <2>1, <2>2, <2>3 DEF StoreInv
<1> QED
  BY <1>3, <1>4 DEF CommitRaises

--------------------------------------------------------------------------------
(* Steps that move one file.                                                   *)

\* No other client minds, when it is none of theirs under the lock and the name fits the rows.
LEMMA MovedStep ==
    ASSUME StoreInv, NEW c \in Clients, NEW a \in Artifacts,
           file' \in [Artifacts -> Place], \A b \in Artifacts : b # a => file'[b] = file[b],
           file'[a] \in {file[a], "canonical", "none"},
           file'[a] = "canonical" => a \in rows /\ file[a] # "none",
           file'[a] = "none" => a \notin rows,
           UNCHANGED <<rows, revision, tokens, issued>>,
           \A d \in Clients : d # c => client'[d] = client[d],
           \A d \in Clients \ {c} : (At(d, "staged") => a \notin client[d].todo)
                                    /\ (At(d, "deleting") => a \notin client[d].moved)
    PROVE  /\ RowKeepsFile' /\ NoOrphan'
           /\ \A b \in gone : b \notin rows' /\ file'[b] = "none"
           /\ gone' = gone => Counted'
           /\ gone' = gone => \A d \in Clients : d # c => Owns(d)'
           /\ \A d \in Clients : d # c /\ ~At(d, "staged") => Owns(d)'
<1> USE DEF At
<1>1. TypeOK /\ Counted /\ OneOwner /\ RowKeepsFile /\ NoOrphan /\ DeletedStaysGone
  BY DEF StoreInv
<1>2. RowKeepsFile'
  BY <1>1 DEF TypeOK, RowKeepsFile
<1>3. NoOrphan'
  BY <1>1 DEF NoOrphan
<1>4. \A b \in gone : b \notin rows' /\ file'[b] = "none"
  BY <1>1 DEF TypeOK, DeletedStaysGone
<1>5. gone' = gone => Counted'
  BY <1>1 DEF Counted, Given
<1>6. ASSUME NEW d \in Clients, d # c
      PROVE  /\ (At(d, "staged") => gone' = gone) => Staged(d)'
             /\ Published(d)' /\ Discarded(d)' /\ Deleting(d)' /\ Restoring(d)' /\ Removing(d)'
  <2>1. Owns(d) /\ client'[d] = client[d] /\ client[d] \in Client
    BY <1>1, <1>6 DEF StoreInv, TypeOK
  <2>2. d \notin {"none", "write", "canonical"}
    BY PlaceAssumption
  <2>3. client[d].todo \subseteq Artifacts /\ client[d].moved \subseteq Artifacts
    BY <2>1 DEF Client
  <2>4. \A t \in Tokens : tokens[t].plan \subseteq Artifacts
    BY <1>1 DEF TypeOK, DeletionToken
  <2>5. (At(d, "staged") => gone' = gone) => Staged(d)'
    BY <1>6, <2>1, <2>3 DEF Owns, Staged
  <2>6. Published(d)' /\ Discarded(d)' /\ Restoring(d)'
    BY <2>1, <2>2, <2>3 DEF Owns, Published, Discarded, Restoring
  <2>7. Deleting(d)'
    BY <1>6, <2>1, <2>3 DEF Owns, Deleting
  <2>8. Removing(d)'
    BY <2>1, <2>4 DEF Owns, Removing
  <2> QED
    BY <2>5, <2>6, <2>7, <2>8
<1>7. \A d \in Clients : d # c /\ (At(d, "staged") => gone' = gone) => Owns(d)'
  BY <1>6 DEF Owns
<1> QED
  BY <1>2, <1>3, <1>4, <1>5, <1>7

\* Less to do, and nothing else in the client's hands changes until it comes to rest.
LEMMA FinishStep ==
    ASSUME TypeOK, NEW c \in Clients, NEW a, NEW b \in BOOLEAN, Finish(c, a, b)
    PROVE  /\ \A d \in Clients : d # c => client'[d] = client[d]
           /\ \/ /\ client'[c].at = "idle"
                 /\ client'[c].store = "open" => ~client[c].failed /\ ~b /\ client[c].todo \subseteq {a}
              \/ /\ client'[c].at = client[c].at
                 /\ client'[c].todo = client[c].todo \ {a}
                 /\ client'[c].token = client[c].token
                 /\ client'[c].failed = (client[c].failed \/ b)
<1> DEFINE left == client[c].todo \ {a}
<1>1. client \in [Clients -> Client] /\ client[c] \in Client
  BY DEF TypeOK
<1>2. CASE left = {}
  <2>1. client' = [client EXCEPT ![c] = Rest(IF client[c].failed \/ b THEN "poisoned" ELSE "open")]
    BY <1>2 DEF Finish, Set
  <2> QED
    BY <1>1, <1>2, <2>1 DEF Rest
<1>3. CASE left # {}
  <2>1. client' = [client EXCEPT ![c] = [client[c] EXCEPT !.todo = left, !.failed = client[c].failed \/ b]]
    BY <1>3 DEF Finish, Set
  <2>2. (client[c].failed \/ b) \in BOOLEAN
    OBVIOUS
  <2> QED
    BY <1>1, <2>1, <2>2 DEF Client
<1> QED
  BY <1>2, <1>3

LEMMA OneOwnerKept ==
    ASSUME OneOwner, NEW c \in Clients, UNCHANGED issued,
           \A d \in Clients : d # c => client'[d] = client[d],
           client'[c].at \in {"idle", client[c].at},
           client'[c].at = "idle" \/ client'[c].todo \subseteq client[c].todo
    PROVE  OneOwner'
  BY DEF OneOwner, Putting, Given

\* An artifact a client has in its hands after the lock is in nobody's under the lock.
LEMMA NotUnderLock ==
    ASSUME StoreInv, NEW c \in Clients, NEW a \in client[c].todo,
           At(c, "publishing") \/ At(c, "discarding") \/ (file[a] = c /\ ~At(c, "deleting"))
    PROVE  \A d \in Clients \ {c} : (At(d, "staged") => a \notin client[d].todo)
                                    /\ (At(d, "deleting") => a \notin client[d].moved \/ file[a] = d)
<1> TAKE d \in Clients \ {c}
<1>1. Owns(d) /\ OneOwner
  BY DEF StoreInv
<1>2. At(d, "deleting") => a \notin client[d].moved \/ file[a] = d
  BY <1>1 DEF Owns, Deleting
<1>3. At(d, "staged") => a \notin client[d].todo
  <2>1. CASE At(c, "publishing") \/ At(c, "discarding")
    BY <1>1, <2>1 DEF OneOwner, Putting, At
  <2>2. CASE file[a] = c
    BY <1>1, <2>2, PlaceAssumption DEF Owns, Staged
  <2> QED
    BY <2>1, <2>2
<1> QED
  BY <1>2, <1>3

\* The step is done, or has failed, without a file being moved.
LEMMA KeptStep ==
    ASSUME StoreInv, TypeOK', NEW c \in Clients, NEW a \in client[c].todo, NEW b \in BOOLEAN, Finish(c, a, b),
           client[c].at \in {"publishing", "discarding", "removing", "restoring"},
           At(c, "removing") => b,
           UNCHANGED <<rows, revision, file, tokens, issued, gone>>
    PROVE  StoreInv'
<1>1. TypeOK /\ OneOwner
  BY DEF StoreInv
<1>2. /\ \A d \in Clients : d # c => client'[d] = client[d]
      /\ \/ client'[c].at = "idle"
         \/ /\ client'[c].at = client[c].at
            /\ client'[c].todo = client[c].todo \ {a}
            /\ client'[c].token = client[c].token
            /\ client'[c].failed = (client[c].failed \/ b)
  BY <1>1, FinishStep
<1>3. Counted' /\ RowKeepsFile' /\ NoOrphan' /\ DeletedStaysGone'
  BY DEF StoreInv, Counted, RowKeepsFile, NoOrphan, DeletedStaysGone, Given
<1>4. ASSUME NEW d \in Clients, d # c PROVE Owns(d)'
  BY <1>2, <1>4 DEF StoreInv, Owns, At, Staged, Published, Discarded, Deleting, Restoring, Removing
<1>5. Owns(c)'
  <2>1. Owns(c)
    BY DEF StoreInv
  <2>2. Published(c)' /\ Discarded(c)' /\ Restoring(c)' /\ Staged(c)' /\ Deleting(c)'
    BY <1>2, <2>1 DEF Owns, At, Staged, Published, Discarded, Deleting, Restoring
  <2>3. Removing(c)'
    BY <1>2, <2>1 DEF Owns, At, Removing
  <2> QED
    BY <2>2, <2>3 DEF Owns
<1>6. OneOwner'
  BY <1>1, <1>2, OneOwnerKept
<1> QED
  BY <1>3, <1>4, <1>5, <1>6 DEF StoreInv

LEMMA StoreInvFileStepFails ==
    ASSUME StoreInv, TypeOK', NEW c \in Clients, FileStepFails(c)
    PROVE  StoreInv'
<1>1. PICK a \in client[c].todo : Finish(c, a, TRUE)
  BY DEF FileStepFails
<1> QED
  BY <1>1, KeptStep DEF FileStepFails

LEMMA StoreInvPublish ==
    ASSUME StoreInv, TypeOK', NEW c \in Clients, Publish(c)
    PROVE  StoreInv'
<1>1. PICK a \in client[c].todo : Move(c, a, "write", "canonical")
  BY DEF Publish
<1>2. At(c, "publishing") /\ UNCHANGED <<rows, revision, tokens, issued, gone>>
  BY DEF Publish
<1>3. PICK b \in BOOLEAN : Finish(c, a, b)
  BY <1>1 DEF Move
<1>4. TypeOK /\ Owns(c) /\ OneOwner /\ a \in Artifacts
  BY DEF StoreInv, TypeOK, Client
<1>5. /\ \A d \in Clients : d # c => client'[d] = client[d]
      /\ \/ client'[c].at = "idle"
         \/ client'[c].at = "publishing" /\ client'[c].todo = client[c].todo \ {a}
  BY <1>2, <1>3, <1>4, FinishStep DEF At
<1>6. /\ file' \in [Artifacts -> Place]
      /\ \A x \in Artifacts : x # a => file'[x] = file[x]
      /\ file'[a] = file[a] \/ (file[a] = "write" /\ file'[a] = "canonical")
  BY <1>1, <1>4 DEF Move, TypeOK, Place
<1>7. file[a] = "write" => a \in rows
  BY <1>2, <1>4 DEF Owns, Published
<1>8. \A d \in Clients \ {c} : /\ At(d, "staged") => a \notin client[d].todo
                               /\ At(d, "deleting") => a \notin client[d].moved \/ file[a] = d
  BY <1>2, NotUnderLock
<1>9. CASE file'[a] = file[a]
  <2>1. file' = file
    BY <1>4, <1>6, <1>9 DEF TypeOK
  <2> QED
    BY <1>2, <1>3, <2>1, KeptStep DEF At
<1>10. CASE file[a] = "write" /\ file'[a] = "canonical"
  <2>1. \A d \in Clients \ {c} : At(d, "deleting") => a \notin client[d].moved
    BY <1>8, <1>10, PlaceAssumption
  <2>2. /\ RowKeepsFile' /\ NoOrphan' /\ Counted'
        /\ \A x \in gone : x \notin rows' /\ file'[x] = "none"
        /\ \A d \in Clients : d # c => Owns(d)'
    BY <1>2, <1>4, <1>5, <1>6, <1>7, <1>8, <1>10, <2>1, MovedStep
  <2>3. Owns(c)'
    <3>1. client[c].todo \subseteq Artifacts
      BY <1>4 DEF TypeOK, Client
    <3> QED
      BY <1>2, <1>4, <1>5, <1>6, <3>1
        DEF Owns, At, Staged, Published, Discarded, Deleting, Restoring, Removing
  <2> QED
    BY <1>2, <1>4, <1>5, <2>2, <2>3, OneOwnerKept DEF StoreInv, At, DeletedStaysGone
<1> QED
  BY <1>6, <1>9, <1>10

LEMMA StoreInvDiscard ==
    ASSUME StoreInv, TypeOK', NEW c \in Clients, Discard(c)
    PROVE  StoreInv'
<1>1. PICK a \in client[c].todo : Move(c, a, "write", "none")
  BY DEF Discard
<1>2. At(c, "discarding") /\ UNCHANGED <<rows, revision, tokens, issued, gone>>
  BY DEF Discard
<1>3. PICK b \in BOOLEAN : Finish(c, a, b)
  BY <1>1 DEF Move
<1>4. TypeOK /\ Owns(c) /\ OneOwner /\ a \in Artifacts
  BY DEF StoreInv, TypeOK, Client
<1>5. /\ \A d \in Clients : d # c => client'[d] = client[d]
      /\ \/ client'[c].at = "idle"
         \/ client'[c].at = "discarding" /\ client'[c].todo = client[c].todo \ {a}
  BY <1>2, <1>3, <1>4, FinishStep DEF At
<1>6. /\ file' \in [Artifacts -> Place]
      /\ \A x \in Artifacts : x # a => file'[x] = file[x]
      /\ file' = file \/ (file[a] = "write" /\ file'[a] = "none")
  BY <1>1, <1>4 DEF Move, TypeOK, Place
<1>7. CASE file' = file
  BY <1>2, <1>3, <1>7, KeptStep DEF At
<1>8. CASE file[a] = "write" /\ file'[a] = "none"
  <2>1. a \notin rows
    BY <1>2, <1>4 DEF Owns, Discarded
  <2>2. \A d \in Clients \ {c} : /\ At(d, "staged") => a \notin client[d].todo
                                 /\ At(d, "deleting") => a \notin client[d].moved
    BY <1>2, <1>8, NotUnderLock, PlaceAssumption
  <2>3. /\ RowKeepsFile' /\ NoOrphan' /\ Counted'
        /\ \A x \in gone : x \notin rows' /\ file'[x] = "none"
        /\ \A d \in Clients : d # c => Owns(d)'
    BY <1>2, <1>4, <1>5, <1>6, <1>8, <2>1, <2>2, MovedStep
  <2>4. Owns(c)'
    BY <1>2, <1>4, <1>5 DEF Owns, At, Staged, Published, Discarded, Deleting, Restoring, Removing
  <2> QED
    BY <1>2, <1>4, <1>5, <2>3, <2>4, OneOwnerKept DEF StoreInv, At, DeletedStaysGone
<1> QED
  BY <1>6, <1>7, <1>8

LEMMA StoreInvRestore ==
    ASSUME StoreInv, TypeOK', NEW c \in Clients, Restore(c)
    PROVE  StoreInv'
<1>1. PICK a \in client[c].todo :
        Move(c, a, IF file[a] = "canonical" THEN "canonical" ELSE c, "canonical")
  BY DEF Restore
<1>2. At(c, "restoring") /\ UNCHANGED <<rows, revision, tokens, issued, gone>>
  BY DEF Restore
<1>3. PICK b \in BOOLEAN : Finish(c, a, b)
  BY <1>1 DEF Move
<1>4. TypeOK /\ Owns(c) /\ OneOwner /\ a \in Artifacts
  BY DEF StoreInv, TypeOK, Client
<1>5. /\ \A d \in Clients : d # c => client'[d] = client[d]
      /\ \/ client'[c].at = "idle"
         \/ client'[c].at = "restoring" /\ client'[c].todo = client[c].todo \ {a}
  BY <1>2, <1>3, <1>4, FinishStep DEF At
<1>6. /\ file' \in [Artifacts -> Place]
      /\ \A x \in Artifacts : x # a => file'[x] = file[x]
      /\ file' = file \/ (file[a] = c /\ file'[a] = "canonical")
  BY <1>1, <1>4 DEF Move, TypeOK, Place
<1>7. CASE file' = file
  BY <1>2, <1>3, <1>7, KeptStep DEF At
<1>8. CASE file[a] = c /\ file'[a] = "canonical"
  <2>1. a \in rows
    BY <1>2, <1>4, <1>8 DEF Owns, Restoring
  <2>2. \A d \in Clients \ {c} : /\ At(d, "staged") => a \notin client[d].todo
                                 /\ At(d, "deleting") => a \notin client[d].moved
    BY <1>2, <1>8, NotUnderLock DEF At
  <2>3. /\ RowKeepsFile' /\ NoOrphan' /\ Counted'
        /\ \A x \in gone : x \notin rows' /\ file'[x] = "none"
        /\ \A d \in Clients : d # c => Owns(d)'
    BY <1>2, <1>4, <1>5, <1>6, <1>8, <2>1, <2>2, PlaceAssumption, MovedStep
  <2>4. Owns(c)'
    <3>1. client[c].todo \subseteq Artifacts
      BY <1>4 DEF TypeOK, Client
    <3> QED
      BY <1>2, <1>4, <1>5, <1>6, <3>1 DEF Owns, At, Staged, Published, Discarded, Deleting, Restoring, Removing
  <2> QED
    BY <1>2, <1>4, <1>5, <2>3, <2>4, OneOwnerKept DEF StoreInv, At, DeletedStaysGone
<1> QED
  BY <1>6, <1>7, <1>8

LEMMA StoreInvRemove ==
    ASSUME StoreInv, TypeOK', NEW c \in Clients, Remove(c)
    PROVE  StoreInv'
<1>1. PICK a \in client[c].todo :
        /\ Move(c, a, c, "none")
        /\ gone' = IF client'[c] = Rest("open")
                   THEN gone \cup UNION {tokens[t].plan : t \in client[c].token}
                   ELSE gone
  BY DEF Remove
<1>2. At(c, "removing") /\ UNCHANGED <<rows, revision, tokens, issued>>
  BY DEF Remove
<1>3. TypeOK /\ Owns(c) /\ OneOwner /\ a \in Artifacts
  BY DEF StoreInv, TypeOK, Client
<1>4. PICK t \in Tokens :
        /\ client[c].token = {t}
        /\ tokens[t].issued
        /\ tokens[t].used
        /\ client[c].todo \subseteq tokens[t].plan
        /\ tokens[t].plan \cap rows = {}
        /\ ~client[c].failed => \A x \in tokens[t].plan \ client[c].todo : file[x] = "none"
  BY <1>2, <1>3 DEF Owns, Removing
<1>5. gone' \in {gone, gone \cup tokens[t].plan}
  BY <1>1, <1>4
<1>6. CASE file[a] # c
  <2>1. file' = file /\ Finish(c, a, TRUE)
    BY <1>1, <1>6 DEF Move
  <2>2. client'[c] # Rest("open")
    <3>1. client'[c].at = "idle" => client'[c].store # "open"
      BY <1>2, <1>3, <2>1, FinishStep DEF At
    <3> QED
      BY <3>1 DEF Rest
  <2>3. gone' = gone
    BY <1>1, <2>2
  <2> QED
    BY <1>2, <2>1, <2>3, KeptStep DEF At
<1>7. CASE file[a] = c
  <2>1. /\ file' \in [Artifacts -> Place]
        /\ \A x \in Artifacts : x # a => file'[x] = file[x]
        /\ file'[a] = "none"
        /\ Finish(c, a, FALSE)
    BY <1>1, <1>3, <1>7 DEF Move, TypeOK, Place
  <2>2. /\ \A d \in Clients : d # c => client'[d] = client[d]
        /\ \/ /\ client'[c].at = "idle"
              /\ client'[c].store = "open" => ~client[c].failed /\ client[c].todo \subseteq {a}
           \/ /\ client'[c].at = "removing"
              /\ client'[c].todo = client[c].todo \ {a}
              /\ client'[c].token = client[c].token
              /\ client'[c].failed = (client[c].failed \/ FALSE)
    BY <1>2, <1>3, <2>1, FinishStep DEF At
  <2>3. a \notin rows
    BY <1>4
  <2>4. \A d \in Clients \ {c} : /\ At(d, "staged") => a \notin client[d].todo
                                 /\ At(d, "deleting") => a \notin client[d].moved
    BY <1>2, <1>7, NotUnderLock DEF At
  <2>5. /\ RowKeepsFile' /\ NoOrphan'
        /\ \A x \in gone : x \notin rows' /\ file'[x] = "none"
        /\ gone' = gone => \A d \in Clients : d # c => Owns(d)'
        /\ \A d \in Clients : d # c /\ ~At(d, "staged") => Owns(d)'
    BY <1>2, <1>3, <2>1, <2>2, <2>3, <2>4, MovedStep
  <2>6. tokens[t].plan \subseteq Given /\ rows \subseteq Given /\ gone \subseteq Given
    BY DEF StoreInv, Counted
  <2>7. Counted'
    BY <1>2, <1>5, <2>6 DEF StoreInv, Counted, Given
  <2>8. tokens[t].plan \subseteq Artifacts
    BY <1>3 DEF TypeOK, DeletionToken
  <2>9. DeletedStaysGone'
    <3>1. CASE client'[c] = Rest("open")
      <4>1. ~client[c].failed /\ client[c].todo \subseteq {a}
        BY <2>2, <3>1, <1>2 DEF Rest
      <4>2. \A x \in tokens[t].plan : x \notin rows /\ file'[x] = "none"
        BY <1>4, <2>1, <2>8, <4>1
      <4> QED
        BY <1>2, <1>5, <2>5, <4>2 DEF DeletedStaysGone
    <3>2. CASE client'[c] # Rest("open")
      BY <1>1, <3>2, <2>5 DEF DeletedStaysGone
    <3> QED
      BY <3>1, <3>2
  <2>10. ASSUME NEW d \in Clients, d # c PROVE Owns(d)'
    <3>1. CASE At(d, "staged")
      <4>1. Owns(d) /\ client'[d] = client[d] /\ client[d].todo \subseteq Artifacts
        BY <2>2, <1>3, <2>10 DEF StoreInv, TypeOK, Client
      <4>2. Staged(d)'
        BY <1>2, <1>5, <2>1, <2>4, <2>10, <3>1, <4>1 DEF Owns, Staged, At
      <4> QED
        BY <3>1, <4>1, <4>2 DEF Owns, At, Published, Discarded, Deleting, Restoring, Removing
    <3>2. CASE ~At(d, "staged")
      BY <3>2, <2>5, <2>10
    <3> QED
      BY <3>1, <3>2
  <2>11. Owns(c)'
    <3>1. Removing(c)'
      BY <1>2, <1>4, <2>1, <2>2, <2>8 DEF Removing, At
    <3> QED
      BY <2>2, <3>1 DEF Owns, At, Staged, Published, Discarded, Deleting, Restoring
  <2>12. OneOwner'
    BY <1>2, <1>3, <2>2, OneOwnerKept DEF At
  <2> QED
    BY <2>5, <2>7, <2>9, <2>10, <2>11, <2>12 DEF StoreInv
<1> QED
  BY <1>6, <1>7

LEMMA StoreInvReconcile ==
    ASSUME StoreInv, TypeOK', NEW c \in Clients, Reconcile(c)
    PROVE  StoreInv'
<1>1. PICK a \in client[c].todo :
        /\ a \in rows => file[a] # "none"
        /\ file' = [file EXCEPT ![a] = IF a \in rows THEN "canonical" ELSE "none"]
        /\ IF client[c].todo = {a}
           THEN Set(c, Rest("open")) /\ lock' = NoOne
           ELSE client' = [client EXCEPT ![c].todo = @ \ {a}] /\ UNCHANGED lock
  BY DEF Reconcile
<1>2. At(c, "reconciling") /\ UNCHANGED <<rows, revision, tokens, issued, gone>>
  BY DEF Reconcile
<1>3. TypeOK /\ OneOwner /\ lock = c /\ a \in Artifacts /\ client[c] \in Client
  BY <1>2 DEF StoreInv, TypeOK, Client, At
<1>4. \A d \in Clients \ {c} : ~At(d, "staged") /\ ~At(d, "deleting")
  BY <1>3 DEF TypeOK, At
<1>5. /\ \A d \in Clients : d # c => client'[d] = client[d]
      /\ client'[c].at \in {"idle", "reconciling"}
  BY <1>1, <1>2, <1>3 DEF TypeOK, Set, Rest, At, Client
<1>6. /\ file' \in [Artifacts -> Place]
      /\ \A x \in Artifacts : x # a => file'[x] = file[x]
      /\ file'[a] = IF a \in rows THEN "canonical" ELSE "none"
  BY <1>1, <1>3 DEF TypeOK, Place
<1>7. /\ RowKeepsFile' /\ NoOrphan' /\ Counted'
      /\ \A x \in gone : x \notin rows' /\ file'[x] = "none"
      /\ \A d \in Clients : d # c => Owns(d)'
  BY <1>1, <1>2, <1>3, <1>4, <1>5, <1>6, MovedStep
<1>8. Owns(c)' /\ OneOwner'
  BY <1>2, <1>3, <1>5
    DEF OneOwner, Putting, Given, Owns, At, Staged, Published, Discarded, Deleting, Restoring, Removing
<1> QED
  BY <1>2, <1>7, <1>8 DEF StoreInv, DeletedStaysGone

LEMMA StoreInvStageDeletion ==
    ASSUME StoreInv, TypeOK', NEW c \in Clients, StageDeletion(c)
    PROVE  StoreInv'
<1>1. PICK a \in client[c].todo :
        /\ file[a] = "canonical"
        /\ file' = [file EXCEPT ![a] = c]
        /\ client' = [client EXCEPT ![c].todo = @ \ {a}, ![c].moved = @ \cup {a}]
  BY DEF StageDeletion
<1>2. At(c, "deleting") /\ UNCHANGED <<rows, revision, tokens, issued, gone>>
  BY DEF StageDeletion
<1>3. TypeOK /\ OneOwner /\ Owns(c) /\ RowKeepsFile /\ lock = c /\ a \in Artifacts /\ client[c] \in Client
  BY <1>2 DEF StoreInv, TypeOK, Client, At
<1>4. \A d \in Clients \ {c} : ~At(d, "staged") /\ ~At(d, "deleting")
  BY <1>3 DEF TypeOK, At
<1>5. /\ \A d \in Clients : d # c => client'[d] = client[d]
      /\ client'[c].at = "deleting"
      /\ client'[c].todo = client[c].todo \ {a}
      /\ client'[c].moved = client[c].moved \cup {a}
      /\ client'[c].token = client[c].token
      /\ client'[c].failed = client[c].failed
  BY <1>1, <1>2, <1>3 DEF TypeOK, Client, At
<1>6. /\ \A x \in Artifacts : x # a => file'[x] = file[x]
      /\ file'[a] = c /\ c \notin {"none", "write", "canonical"}
  BY <1>1, <1>3, PlaceAssumption DEF TypeOK
<1>7. a \in rows /\ a \notin gone
  BY <1>1, <1>3 DEF StoreInv, NoOrphan, DeletedStaysGone
<1>8. rows \subseteq Artifacts /\ gone \subseteq Artifacts
  BY <1>3 DEF TypeOK
<1>9. RowKeepsFile' /\ NoOrphan' /\ DeletedStaysGone' /\ Counted'
  BY <1>2, <1>6, <1>7, <1>8 DEF StoreInv, RowKeepsFile, NoOrphan, DeletedStaysGone, Counted, Given
<1>10. OneOwner'
  BY <1>2, <1>3, <1>5 DEF OneOwner, Putting, Given
<1>11. ASSUME NEW d \in Clients PROVE Owns(d)'
  <2>1. CASE d = c
    <3>1. PICK t \in Tokens :
            /\ client[c].token = {t}
            /\ tokens[t].issued
            /\ ~tokens[t].used
            /\ tokens[t].revision = revision
            /\ tokens[t].plan = client[c].todo \cup client[c].moved
            /\ ~client[c].failed
            /\ \A x \in client[c].moved : file[x] = c
      BY <1>2, <1>3 DEF Owns, Deleting
    <3>2. client[c].moved \subseteq Artifacts
      BY <1>3 DEF Client
    <3>3. \A x \in client'[c].moved : file'[x] = c
      BY <1>5, <1>6, <3>1, <3>2
    <3>4. tokens'[t].plan = client'[c].todo \cup client'[c].moved
      BY <1>2, <1>5, <3>1
    <3>5. Deleting(c)'
      BY <1>2, <1>5, <3>1, <3>3, <3>4 DEF Deleting
    <3> QED
      BY <2>1, <1>5, <3>5 DEF Owns, At, Staged, Published, Discarded, Restoring, Removing
  <2>2. CASE d # c
    <3>1. Owns(d) /\ client'[d] = client[d] /\ ~At(d, "staged") /\ ~At(d, "deleting") /\ client[d].todo \subseteq Artifacts
      BY <1>3, <1>4, <1>5, <2>2 DEF StoreInv, TypeOK, Client
    <3>2. Published(d)' /\ Discarded(d)' /\ Restoring(d)'
      BY <1>2, <1>6, <1>7, <2>2, <3>1 DEF Owns, At, Published, Discarded, Restoring
    <3>3. Removing(d)'
      <4>1. \A t \in Tokens : tokens[t].plan \subseteq Artifacts
        BY <1>3 DEF TypeOK, DeletionToken
      <4> QED
        BY <1>2, <1>6, <1>7, <3>1, <4>1 DEF Owns, At, Removing
    <3> QED
      BY <3>1, <3>2, <3>3 DEF Owns, At, Staged, Deleting
  <2> QED
    BY <2>1, <2>2
<1> QED
  BY <1>9, <1>10, <1>11 DEF StoreInv

LEMMA StoreInvStageArtifact ==
    ASSUME StoreInv, TypeOK', NEW c \in Clients, StageArtifact(c)
    PROVE  StoreInv'
<1> DEFINE new == issued + 1
<1>1. UNCHANGED <<rows, revision, tokens, gone>> /\ lock = NoOne
  BY DEF StageArtifact, Free
<1>2. TypeOK /\ OneOwner /\ Counted
  BY DEF StoreInv
<1>3. issued' = new /\ new \in Artifacts /\ new \notin Given /\ Given \subseteq Given' /\ new \in Given'
  BY <1>2, BoundAssumption DEF StageArtifact, Given, Artifacts, TypeOK
<1>4. \A d \in Clients : ~At(d, "staged") /\ ~At(d, "deleting")
  BY <1>1, <1>2, NoOneAssumption DEF TypeOK, At
<1>5. /\ \A d \in Clients : d # c => client'[d] = client[d]
      /\ client'[c] = [Rest("open") EXCEPT !.at = "staged", !.todo = {new}]
  BY <1>2 DEF StageArtifact, Set, TypeOK
<1>6. /\ client'[c].at = "staged" /\ client'[c].todo = {new}
      /\ client'[c].moved = {} /\ client'[c].token = {}
  BY <1>5 DEF Rest
<1>7. (\A x \in Artifacts : x # new => file'[x] = file[x]) /\ file'[new] = "write"
  BY <1>2, <1>3 DEF StageArtifact, TypeOK
<1>8. rows \subseteq Given /\ gone \subseteq Given /\ \A t \in Tokens : tokens[t].plan \subseteq Given
  BY <1>2 DEF Counted
<1>9. rows \subseteq Artifacts /\ gone \subseteq Artifacts
  BY <1>2 DEF TypeOK
<1>10. RowKeepsFile' /\ NoOrphan' /\ DeletedStaysGone'
  BY <1>1, <1>3, <1>7, <1>8, <1>9 DEF StoreInv, RowKeepsFile, NoOrphan, DeletedStaysGone
<1>11. Counted'
  BY <1>1, <1>2, <1>3 DEF Counted
<1>12. OneOwner'
  <2> SUFFICES ASSUME NEW e \in Clients, Putting(e)'
               PROVE  /\ client'[e].todo \subseteq Given'
                      /\ \A d \in Clients \ {e} : Putting(d)' => client'[e].todo \cap client'[d].todo = {}
    BY DEF OneOwner
  <2>1. \A d \in Clients \ {c} : Putting(d)' => client'[d].todo \subseteq Given
    BY <1>2, <1>5 DEF OneOwner, Putting
  <2>2. CASE e = c
    BY <1>3, <1>6, <2>1, <2>2
  <2>3. CASE e # c
    <3>1. client'[e].todo \subseteq Given'
      BY <1>3, <2>1, <2>3
    <3>2. ASSUME NEW d \in Clients \ {e}, Putting(d)' PROVE client'[e].todo \cap client'[d].todo = {}
      <4>1. CASE d = c
        BY <1>3, <1>6, <2>1, <2>3, <4>1
      <4>2. CASE d # c
        BY <1>2, <1>5, <2>3, <3>2, <4>2 DEF OneOwner, Putting
      <4> QED
        BY <4>1, <4>2
    <3> QED
      BY <3>1, <3>2
  <2> QED
    BY <2>2, <2>3
<1>13. ASSUME NEW d \in Clients PROVE Owns(d)'
  <2>1. CASE d = c
    <3>1. Staged(c)'
      BY <1>1, <1>3, <1>6, <1>7, <1>8 DEF Staged
    <3> QED
      BY <2>1, <1>6, <3>1 DEF Owns, At, Published, Discarded, Deleting, Restoring, Removing
  <2>2. CASE d # c
    <3>1. Owns(d) /\ client'[d] = client[d] /\ ~At(d, "staged") /\ ~At(d, "deleting") /\ client[d].todo \subseteq Artifacts
      BY <1>2, <1>4, <1>5, <2>2 DEF StoreInv, TypeOK, Client
    <3>2. At(d, "publishing") => new \notin client[d].todo
      BY <1>2, <1>3 DEF OneOwner, Putting, At
    <3>3. Published(d)' /\ Discarded(d)' /\ Restoring(d)'
      BY <1>1, <1>7, <3>1, <3>2, PlaceAssumption DEF Owns, At, Published, Discarded, Restoring
    <3>4. Removing(d)'
      <4>1. \A t \in Tokens : tokens[t].plan \subseteq Artifacts
        BY <1>2 DEF TypeOK, DeletionToken
      <4> QED
        BY <1>1, <1>3, <1>7, <1>8, <3>1, <4>1 DEF Owns, At, Removing
    <3> QED
      BY <3>1, <3>3, <3>4 DEF Owns, At, Staged, Deleting
  <2> QED
    BY <2>1, <2>2
<1> QED
  BY <1>10, <1>11, <1>12, <1>13 DEF StoreInv

LEMMA StoreInvResting ==
    ASSUME StoreInv, TypeOK', NEW c \in Clients,
           OpenStore(c) \/ OpenRaises(c) \/ CloseStore(c) \/ PreviewRaises(c) \/ Crash(c)
    PROVE  StoreInv'
<1>1. UNCHANGED <<rows, revision, file, tokens, issued, gone>>
  BY DEF OpenStore, OpenRaises, CloseStore, PreviewRaises, Crash
<1>2. PICK next \in Client : next.at \in {"idle", "reconciling"} /\ client' = [client EXCEPT ![c] = next]
  <2>1. \A s \in {"closed", "open", "poisoned"} : Rest(s) \in Client /\ Rest(s).at = "idle"
    BY RestType, RestAt
  <2>2. CASE OpenStore(c)
    <3> DEFINE found == {a \in Artifacts : a \in rows \/ file[a] # "none"}
               next == [Rest("closed") EXCEPT !.at = "reconciling", !.todo = found, !.listing = file]
    <3>1. next \in Client /\ next.at = "reconciling"
      BY RestType DEF Client, Rest, StoreInv, TypeOK
    <3>2. client' = [client EXCEPT ![c] = Rest("open")] \/ client' = [client EXCEPT ![c] = next]
      BY <2>2 DEF OpenStore, Set
    <3> QED
      BY <2>1, <3>1, <3>2
  <2>3. CASE OpenRaises(c) \/ CloseStore(c) \/ PreviewRaises(c) \/ Crash(c)
    BY <2>1, <2>3 DEF OpenRaises, CloseStore, PreviewRaises, Crash, Set
  <2> QED
    BY <2>2, <2>3
<1>3. (\A d \in Clients : d # c => client'[d] = client[d]) /\ client'[c].at \in {"idle", "reconciling"}
  BY <1>2 DEF StoreInv, TypeOK
<1> QED
  BY <1>1, <1>3, QuietStep

LEMMA StoreInvStep == ASSUME StoreInv, [Next]_vars PROVE StoreInv'
<1>1. TypeOK'
  BY TypeStep DEF StoreInv
<1>2. CASE UNCHANGED vars
  <2>1. ASSUME NEW c \in Clients PROVE Owns(c)'
    <3>1. Owns(c)
      BY DEF StoreInv
    <3>2. Staged(c)' /\ Published(c)' /\ Discarded(c)'
      BY <1>2, <3>1 DEF vars, Owns, At, Staged, Published, Discarded
    <3>3. Deleting(c)' /\ Restoring(c)' /\ Removing(c)'
      BY <1>2, <3>1 DEF vars, Owns, At, Deleting, Restoring, Removing
    <3> QED
      BY <3>2, <3>3 DEF Owns
  <2>2. Counted' /\ OneOwner' /\ RowKeepsFile' /\ NoOrphan' /\ DeletedStaysGone'
    BY <1>2 DEF vars, StoreInv, Counted, OneOwner, RowKeepsFile, NoOrphan, DeletedStaysGone, Given, Putting
  <2> QED
    BY <1>1, <2>1, <2>2 DEF StoreInv
<1>3. ASSUME NEW t \in Tokens, Expire(t) PROVE StoreInv'
  BY <1>1, <1>3, StoreInvExpire
<1>4. ASSUME NEW c \in Clients, Put(c) PROVE StoreInv'
  BY <1>1, <1>4, StoreInvStageArtifact, StoreInvCommitArtifact, StoreInvPutFails DEF Put
<1>5. ASSUME NEW c \in Clients, Delete(c) PROVE StoreInv'
  BY <1>1, <1>5, StoreInvPreview, StoreInvBeginDelete, StoreInvStageDeletion, StoreInvDeleteFails,
     StoreInvCommitDelete DEF Delete
<1>6. ASSUME NEW c \in Clients, FileStep(c) \/ FileStepFails(c) \/ CommitRaises(c) PROVE StoreInv'
  BY <1>1, <1>6, StoreInvPublish, StoreInvDiscard, StoreInvRemove, StoreInvRestore, StoreInvFileStepFails,
     StoreInvCommitRaises DEF FileStep
<1>7. ASSUME NEW c \in Clients,
             OpenStore(c) \/ Reconciles(c) \/ CloseStore(c) \/ PreviewRaises(c) \/ Crash(c)
      PROVE  StoreInv'
  BY <1>1, <1>7, StoreInvResting, StoreInvReconcile DEF Reconciles
<1> QED
  BY <1>2, <1>3, <1>4, <1>5, <1>6, <1>7 DEF Next

LEMMA StoreInvAlways == Spec => []StoreInv
<1>1. Init => StoreInv
  <2> SUFFICES ASSUME Init PROVE StoreInv
    OBVIOUS
  <2> USE DEF Init
  <2>1. NoToken \in DeletionToken
    BY DEF NoToken, DeletionToken
  <2>2. NowhereListed \in [Artifacts -> Place]
    BY DEF NowhereListed, Place
  <2>3. Rest("closed") \in Client
    BY RestType
  <2>4. TypeOK
    BY <2>1, <2>2, <2>3, RestAt, BoundAssumption, NoOneAssumption DEF TypeOK
  <2>5. Counted
    BY DEF Counted, NoToken, Given
  <2>6. OneOwner /\ \A c \in Clients : Owns(c)
    BY RestAt DEF OneOwner, Putting, Owns, At, Staged, Published, Discarded, Deleting, Restoring, Removing
  <2>7. RowKeepsFile /\ NoOrphan /\ DeletedStaysGone
    BY DEF RowKeepsFile, NoOrphan, DeletedStaysGone, NowhereListed
  <2> QED
    BY <2>4, <2>5, <2>6, <2>7 DEF StoreInv
<1>2. StoreInv /\ [Next]_vars => StoreInv'
  BY StoreInvStep
<1> QED
  BY <1>1, <1>2, PTL DEF Spec

--------------------------------------------------------------------------------
(* What follows of it.                                                         *)

\* Each variable keeps its type, and the writer lock is held by exactly the client that is
\* between its first statement and its COMMIT (analytics_store.py:899).
THEOREM StoreTypes == Spec => []TypeOK
<1>1. StoreInv => TypeOK
  BY DEF StoreInv
<1> QED
  BY <1>1, StoreInvAlways, PTL

\* Wherever a process dies, the file of a committed row is still there for the next open to
\* find, under one name or another (analytics_store.py:4280).
THEOREM RowsKeepTheirFiles == Spec => []RowKeepsFile
<1>1. StoreInv => RowKeepsFile
  BY DEF StoreInv
<1> QED
  BY <1>1, StoreInvAlways, PTL

\* No put, deletion, restore or reconciliation leaves a file under an artifact's own name
\* without its row (analytics_store.py:4303).
THEOREM NoFileIsOrphaned == Spec => []NoOrphan
<1>1. StoreInv => NoOrphan
  BY DEF StoreInv
<1> QED
  BY <1>1, StoreInvAlways, PTL

\* A deletion whose receipt was returned stays done, against every recovery of every client
\* (analytics_store.py:4292).
THEOREM DeletionsAreFinal == Spec => []DeletedStaysGone
<1>1. StoreInv => DeletedStaysGone
  BY DEF StoreInv
<1> QED
  BY <1>1, StoreInvAlways, PTL

\* A step that removes rows removes the plan of one unused token, whose preview saw the rows
\* as they are, and spends it (analytics_store.py:3664).
THEOREM DeletionsKeepToTheirPreview == Spec => DeletesWhatWasPreviewed
<1>1. ASSUME StoreInv, [Next]_vars, ~(rows \subseteq rows')
      PROVE  \E t \in Tokens : /\ tokens[t].plan = rows \ rows'
                               /\ tokens[t].before = rows
                               /\ ~tokens[t].used /\ tokens'[t].used
  <2>1. PICK c \in Clients : Committing(c) /\ Applied(c)
    BY <1>1 DEF Next, vars, OpenStore, Reconciles, Reconcile, OpenRaises, CloseStore, Put, StageArtifact,
       CommitArtifact, PutFails, Delete, PreviewDelete, BeginDelete, StageDeletion, DeleteFails, RollBack,
       CommitDelete, FileStep, Publish, Discard, Remove, Restore, FileStepFails, CommitRaises, PreviewRaises,
       Crash, Expire, Committing
  <2>2. Owns(c) /\ TypeOK /\ Counted
    BY <1>1 DEF StoreInv
  <2>3. client[c].moved # {}
    BY <1>1, <2>1 DEF Applied
  <2>4. At(c, "deleting") /\ client[c].todo = {}
    BY <2>1, <2>2, <2>3 DEF Committing, Owns, Staged
  <2>5. PICK t \in Tokens :
          /\ client[c].token = {t}
          /\ tokens[t].issued
          /\ ~tokens[t].used
          /\ tokens[t].revision = revision
          /\ tokens[t].plan = client[c].moved
    BY <2>2, <2>4 DEF Owns, Deleting
  <2>6. tokens[t].before = rows /\ tokens[t].plan \subseteq rows
    BY <2>2, <2>5 DEF Counted
  <2>7. tokens[t].plan = rows \ rows'
    BY <2>1, <2>4, <2>5, <2>6 DEF Applied
  <2>8. tokens'[t].used
    BY <2>1, <2>2, <2>5 DEF Applied, TypeOK, DeletionToken
  <2> QED
    BY <2>5, <2>6, <2>7, <2>8
<1>2. StoreInv /\ [Next]_vars =>
        [~(rows \subseteq rows') =>
            \E t \in Tokens : /\ tokens[t].plan = rows \ rows'
                              /\ tokens[t].before = rows
                              /\ ~tokens[t].used /\ tokens'[t].used]_vars
  BY <1>1
<1> QED
  BY <1>2, StoreInvAlways, PTL DEF Spec, DeletesWhatWasPreviewed
--------------------------------------------------------------------------------
(* The owner's view.                                                           *)

Previews == [t \in Tokens |-> PreviewStatus(t)]
Plans == [t \in Tokens |-> tokens[t].plan]

\* Only one client deletes, and with one token, which is open till the end.
LEMMA TokenInUse ==
    ASSUME StoreInv, NEW c \in Clients, At(c, "deleting")
    PROVE  \E t \in Tokens :
              /\ client[c].token = {t}
              /\ PreviewStatus(t) = "open"
              /\ tokens[t].plan = client[c].todo \cup client[c].moved
              /\ \A u \in Tokens : InUse(u) <=> u = t
<1>1. Owns(c) /\ TypeOK
  BY DEF StoreInv
<1>2. PICK t \in Tokens :
        /\ client[c].token = {t}
        /\ tokens[t].issued
        /\ ~tokens[t].used
        /\ tokens[t].revision = revision
        /\ tokens[t].plan = client[c].todo \cup client[c].moved
  BY <1>1 DEF Owns, Deleting
<1>3. \A d \in Clients : At(d, "deleting") => d = c
  BY <1>1, NoOneAssumption DEF TypeOK, At
<1>4. \A u \in Tokens : InUse(u) <=> u = t
  BY <1>2, <1>3 DEF InUse
<1> QED
  BY <1>2, <1>4 DEF PreviewStatus

\* While nobody is deleting, no expired token is open.
LEMMA NotInUse == ASSUME \A c \in Clients : ~At(c, "deleting") PROVE \A t : ~InUse(t)
  BY DEF InUse

\* What leaves tokens and deletions alone leaves the owner's view alone.
LEMMA UnseenStep ==
    ASSUME UNCHANGED <<rows, revision, tokens, gone>>, \A t \in Tokens : InUse(t)' <=> InUse(t)
    PROVE  UNCHANGED Owner!vars
<1>1. \A t \in Tokens : PreviewStatus(t)' = PreviewStatus(t)
  BY DEF PreviewStatus
<1>2. Previews' = Previews /\ Plans' = Plans
  BY <1>1 DEF Previews, Plans
<1> QED
  BY <1>2 DEF Owner!vars, Previews, Plans

LEMMA SameUse ==
    ASSUME TypeOK, NEW c \in Clients, \A d \in Clients : d # c => client'[d] = client[d],
           At(c, "deleting") \/ client'[c].at = "deleting" =>
              client[c].at = client'[c].at /\ client'[c].token = client[c].token
    PROVE  \A t \in Tokens : InUse(t)' <=> InUse(t)
  BY DEF InUse, At

\* A deletion that does not get to its COMMIT gives its token back: if its time has run out
\* meanwhile, the preview lapses now.
LEMMA TokenBack ==
    ASSUME StoreInv, NEW c \in Clients, At(c, "deleting"), UNCHANGED <<rows, revision, tokens, gone>>,
           \A d \in Clients : d # c => client'[d] = client[d], client'[c].at # "deleting"
    PROVE  Owner!Next \/ UNCHANGED Owner!vars
<1>1. PICK t \in Tokens : PreviewStatus(t) = "open" /\ \A u \in Tokens : InUse(u) <=> u = t
  BY TokenInUse
<1>2. \A u \in Tokens : ~InUse(u)'
  <2>1. \A d \in Clients : At(d, "deleting") => d = c
    BY NoOneAssumption DEF StoreInv, TypeOK, At
  <2> QED
    BY <2>1 DEF InUse, At
<1>3. \A u \in Tokens : u # t => PreviewStatus(u)' = PreviewStatus(u)
  BY <1>1, <1>2 DEF PreviewStatus
<1>4. Plans' = Plans
  BY DEF Plans
<1>5. CASE ~tokens[t].expired
  <2>1. PreviewStatus(t)' = PreviewStatus(t)
    BY <1>5 DEF PreviewStatus
  <2>2. Previews' = Previews
    BY <1>3, <2>1 DEF Previews
  <2> QED
    BY <1>4, <2>2 DEF Owner!vars, Previews, Plans
<1>6. CASE tokens[t].expired
  <2>1. PreviewStatus(t)' = "void"
    BY <1>1, <1>2, <1>6 DEF PreviewStatus
  <2>2. Previews' = [Previews EXCEPT ![t] = "void"] /\ Previews[t] = "open"
    BY <1>1, <1>3, <2>1 DEF Previews
  <2>3. Owner!Lapse(t)
    BY <1>4, <2>2 DEF Owner!Lapse, Previews, Plans
  <2> QED
    BY <2>3 DEF Owner!Next
<1> QED
  BY <1>5, <1>6

\* The COMMIT of a put or of a deletion, whoever hears of it.
LEMMA AppliedOwner ==
    ASSUME StoreInv, NEW c \in Clients, Committing(c), Applied(c), UNCHANGED gone,
           \A d \in Clients : d # c => client'[d] = client[d], client'[c].at # "deleting",
           TypeOK
    PROVE  Owner!Next \/ UNCHANGED Owner!vars
<1>1. Owns(c) /\ Counted /\ revision \in Nat /\ tokens \in [Tokens -> DeletionToken] /\ rows \subseteq Artifacts
  BY DEF StoreInv, TypeOK
<1>2. \A t \in Tokens : /\ tokens'[t].issued = tokens[t].issued
                        /\ tokens'[t].plan = tokens[t].plan
                        /\ tokens'[t].revision = tokens[t].revision
                        /\ tokens'[t].used = (tokens[t].used \/ t \in client[c].token)
  BY <1>1 DEF Applied, DeletionToken
<1>3. \A t \in Tokens : tokens[t].revision # revision + 1
  <2>1. \A t \in Tokens : tokens[t].revision \in Nat /\ tokens[t].revision <= revision
    BY <1>1 DEF Counted, DeletionToken
  <2> QED
    BY <1>1, <2>1
<1>4. \A t \in Tokens : t \notin client[c].token =>
         PreviewStatus(t)' = IF PreviewStatus(t) = "open" THEN "void" ELSE PreviewStatus(t)
  <2> SUFFICES ASSUME NEW t \in Tokens, t \notin client[c].token
               PROVE  PreviewStatus(t)' = IF PreviewStatus(t) = "open" THEN "void" ELSE PreviewStatus(t)
    OBVIOUS
  <2>1. revision' = revision + 1
    BY DEF Applied
  <2>2. /\ tokens'[t].issued = tokens[t].issued
        /\ tokens'[t].revision = tokens[t].revision
        /\ tokens[t].used \in BOOLEAN /\ tokens'[t].used = tokens[t].used
    BY <1>1, <1>2 DEF DeletionToken
  <2>3. tokens'[t].revision # revision'
    BY <1>3, <2>1, <2>2
  <2>4. PreviewStatus(t)' = IF ~tokens[t].issued THEN "none" ELSE IF tokens[t].used THEN "spent" ELSE "void"
    BY <2>2, <2>3 DEF PreviewStatus
  <2> QED
    BY <2>4 DEF PreviewStatus
<1>5. Plans' = Plans
  BY <1>2 DEF Plans
<1>6. CASE At(c, "staged")
  <2>1. client[c].token = {} /\ client[c].moved = {} /\ rows' = rows \cup client[c].todo
    BY <1>1, <1>6 DEF Owns, Staged, Applied
  <2>2. Previews' = [t \in Tokens |-> IF Previews[t] = "open" THEN "void" ELSE Previews[t]]
    BY <1>4, <2>1 DEF Previews
  <2>3. PICK a \in Artifacts : client[c].todo = {a}
    BY <1>1, <1>6 DEF Owns, Staged
  <2>4. a \notin rows /\ \A t \in Tokens : a \notin tokens[t].plan
    BY <1>1, <1>6, <2>3 DEF Owns, Staged
  <2>5. a \notin UNION {Plans[t] : t \in {u \in Tokens : Previews[u] = "spent"}}
    BY <2>4 DEF Plans
  <2>6. Owner!Put(a)
    BY <1>5, <2>1, <2>2, <2>3, <2>4, <2>5 DEF Owner!Put, Owner!Voided, Owner!Deleted, Previews, Plans
  <2> QED
    BY <2>6 DEF Owner!Next
<1>7. CASE At(c, "deleting") /\ client[c].todo = {}
  <2>1. PICK t \in Tokens :
          client[c].token = {t} /\ PreviewStatus(t) = "open" /\ tokens[t].plan = client[c].moved
    BY <1>7, TokenInUse
  <2>2. PreviewStatus(t)' = "spent"
    BY <1>2, <2>1 DEF PreviewStatus
  <2>3. Previews' = [[u \in Tokens |-> IF Previews[u] = "open" THEN "void" ELSE Previews[u]] EXCEPT ![t] = "spent"]
    BY <1>4, <2>1, <2>2 DEF Previews
  <2>4. rows' = rows \ Plans[t] /\ Previews[t] = "open"
    BY <1>7, <2>1 DEF Applied, Plans, Previews
  <2>5. Owner!Delete(t)
    BY <1>5, <2>3, <2>4 DEF Owner!Delete, Owner!Voided, Previews, Plans
  <2> QED
    BY <2>5 DEF Owner!Next
<1> QED
  BY <1>6, <1>7 DEF Committing
LEMMA DeleteOwner ==
    ASSUME StoreInv, NEW c \in Clients, Delete(c)
    PROVE  Owner!Next \/ UNCHANGED Owner!vars
<1>1. TypeOK /\ client[c] \in Client
  BY DEF StoreInv, TypeOK
<1>2. ASSUME NEW t \in Tokens, PreviewDelete(c, t) PROVE Owner!Next
  <2>1. PICK plan \in SUBSET rows \ {{}} :
          tokens' = [tokens EXCEPT ![t] = [NoToken EXCEPT !.issued = TRUE, !.plan = plan,
                                                          !.revision = revision, !.before = rows]]
    BY <1>2 DEF PreviewDelete
  <2>2. /\ \A u \in Tokens : u # t => tokens'[u] = tokens[u]
        /\ tokens'[t].issued /\ ~tokens'[t].used /\ ~tokens'[t].expired /\ tokens'[t].revision = revision
        /\ tokens'[t].plan = plan
    BY <1>1, <2>1 DEF TypeOK, NoToken
  <2>3. ~tokens[t].issued /\ UNCHANGED <<rows, revision, client, gone>>
    BY <1>2 DEF PreviewDelete
  <2>4. \A u \in Tokens : InUse(u)' <=> InUse(u)
    BY <2>3 DEF InUse, At
  <2>5. PreviewStatus(t)' = "open" /\ PreviewStatus(t) = "none"
    BY <2>2, <2>3 DEF PreviewStatus
  <2>6. \A u \in Tokens : u # t => PreviewStatus(u)' = PreviewStatus(u)
    BY <2>2, <2>3, <2>4 DEF PreviewStatus
  <2>7. Previews' = [Previews EXCEPT ![t] = "open"] /\ Previews[t] = "none"
    BY <2>5, <2>6 DEF Previews
  <2>8. Plans' = [Plans EXCEPT ![t] = plan]
    BY <2>2 DEF Plans
  <2>9. Owner!Preview(t)
    BY <2>3, <2>7, <2>8 DEF Owner!Preview, Previews, Plans
  <2> QED
    BY <2>9 DEF Owner!Next
<1>3. ASSUME NEW t \in Tokens, BeginDelete(c, t) PROVE UNCHANGED Owner!vars
  <2>1. \A d \in Clients : ~At(d, "deleting")
    BY <1>1, <1>3, NoOneAssumption DEF BeginDelete, Free, TypeOK, At
  <2>2. client' = [client EXCEPT ![c] = [Rest("open") EXCEPT !.at = "deleting", !.todo = tokens[t].plan, !.token = {t}]]
    BY <1>3 DEF BeginDelete, Set
  <2>3. client'[c].at = "deleting" /\ client'[c].token = {t} /\ \A d \in Clients : d # c => client'[d] = client[d]
    BY <1>1, <2>2 DEF TypeOK, Rest
  <2>4. \A u \in Tokens : (InUse(u)' <=> u = t) /\ ~InUse(u)
    BY <2>1, <2>3 DEF InUse, At
  <2>5. UNCHANGED <<rows, revision, tokens, gone>> /\ ~tokens[t].expired
    BY <1>3 DEF BeginDelete, Authorized
  <2>6. \A u \in Tokens : PreviewStatus(u)' = PreviewStatus(u)
    BY <2>4, <2>5 DEF PreviewStatus
  <2>7. Previews' = Previews /\ Plans' = Plans
    BY <2>5, <2>6 DEF Previews, Plans
  <2> QED
    BY <2>5, <2>7 DEF Owner!vars, Previews, Plans
<1>4. ASSUME StageDeletion(c) PROVE UNCHANGED Owner!vars
  <2>1. PICK a \in client[c].todo :
          client' = [client EXCEPT ![c] = [client[c] EXCEPT !.todo = client[c].todo \ {a},
                                                            !.moved = client[c].moved \cup {a}]]
    BY <1>1, <1>4 DEF StageDeletion, Client
  <2>2. /\ \A d \in Clients : d # c => client'[d] = client[d]
        /\ client'[c].at = client[c].at /\ client'[c].token = client[c].token
    BY <1>1, <2>1 DEF TypeOK, Client
  <2>3. UNCHANGED <<rows, revision, tokens, gone>>
    BY <1>4 DEF StageDeletion
  <2> QED
    BY <1>1, <2>2, <2>3, SameUse, UnseenStep
<1>5. ASSUME DeleteFails(c) PROVE Owner!Next \/ UNCHANGED Owner!vars
  <2> DEFINE back == [client[c] EXCEPT !.at = "restoring", !.todo = client[c].moved, !.moved = {}]
  <2>1. client' = [client EXCEPT ![c] = IF client[c].moved = {} THEN Rest("open") ELSE back]
    BY <1>5 DEF DeleteFails, RollBack, Set
  <2>2. back.at = "restoring" /\ Rest("open").at = "idle"
    BY <1>1 DEF Client, Rest
  <2>3. client'[c].at # "deleting" /\ \A d \in Clients : d # c => client'[d] = client[d]
    BY <1>1, <2>1, <2>2 DEF TypeOK
  <2>4. At(c, "deleting") /\ UNCHANGED <<rows, revision, tokens, gone>>
    BY <1>5 DEF DeleteFails, RollBack
  <2> QED
    BY <2>3, <2>4, TokenBack
<1>6. ASSUME CommitDelete(c) PROVE Owner!Next \/ UNCHANGED Owner!vars
  <2>1. client'[c].at = "removing" /\ \A d \in Clients : d # c => client'[d] = client[d]
    BY <1>1, <1>6 DEF CommitDelete, TypeOK, Client
  <2>2. Committing(c) /\ Applied(c) /\ UNCHANGED gone
    BY <1>6 DEF CommitDelete, Committing
  <2> QED
    BY <1>1, <2>1, <2>2, AppliedOwner
<1> QED
  BY <1>2, <1>3, <1>4, <1>5, <1>6 DEF Delete

LEMMA RemoveOwner ==
    ASSUME StoreInv, NEW c \in Clients, Remove(c)
    PROVE  Owner!Next \/ UNCHANGED Owner!vars
<1>1. Owns(c) /\ TypeOK /\ At(c, "removing") /\ UNCHANGED <<rows, revision, tokens>>
  BY DEF Remove, StoreInv
<1>2. PICK t \in Tokens : client[c].token = {t} /\ tokens[t].issued /\ tokens[t].used
  BY <1>1 DEF Owns, Removing
<1>3. gone' = gone \/ gone' = gone \cup tokens[t].plan
  BY <1>2 DEF Remove
<1>4. PICK a \in client[c].todo, failed \in BOOLEAN : Finish(c, a, failed)
  BY DEF Remove, Move
<1>5. (\A d \in Clients : d # c => client'[d] = client[d]) /\ client'[c].at # "deleting"
  BY <1>1, <1>4, FinishType DEF TypeOK, At
<1>6. \A u \in Tokens : InUse(u)' <=> InUse(u)
  BY <1>1, <1>5, SameUse DEF At
<1>7. CASE gone' = gone
  BY <1>1, <1>6, <1>7, UnseenStep
<1>8. CASE gone' = gone \cup tokens[t].plan
  <2>1. \A u \in Tokens : PreviewStatus(u)' = PreviewStatus(u)
    BY <1>1, <1>6 DEF PreviewStatus
  <2>2. Previews' = Previews /\ Plans' = Plans
    BY <1>1, <2>1 DEF Previews, Plans
  <2>3. Previews[t] = "spent" /\ Plans[t] = tokens[t].plan
    BY <1>2 DEF Previews, Plans, PreviewStatus
  <2>4. Owner!Receipt(t)
    BY <1>1, <1>8, <2>2, <2>3 DEF Owner!Receipt, Previews, Plans
  <2> QED
    BY <2>4 DEF Owner!Next
<1> QED
  BY <1>3, <1>7, <1>8

LEMMA ExpireOwner ==
    ASSUME StoreInv, NEW t \in Tokens, Expire(t)
    PROVE  Owner!Next \/ UNCHANGED Owner!vars
<1>1. UNCHANGED <<rows, revision, client, gone>> /\ tokens' = [tokens EXCEPT ![t].expired = TRUE] /\ TypeOK
  BY DEF Expire, StoreInv
<1>2. /\ \A u \in Tokens : u # t => tokens'[u] = tokens[u]
      /\ tokens'[t].issued = tokens[t].issued /\ tokens'[t].used = tokens[t].used
      /\ tokens'[t].revision = tokens[t].revision /\ tokens'[t].plan = tokens[t].plan
      /\ tokens'[t].expired
  BY <1>1 DEF TypeOK, DeletionToken
<1>3. \A u \in Tokens : InUse(u)' <=> InUse(u)
  BY <1>1 DEF InUse, At
<1>4. Plans' = Plans /\ \A u \in Tokens : u # t => PreviewStatus(u)' = PreviewStatus(u)
  BY <1>1, <1>2, <1>3 DEF Plans, PreviewStatus
<1>5. PreviewStatus(t)' = PreviewStatus(t) \/ (PreviewStatus(t) = "open" /\ PreviewStatus(t)' = "void")
  BY <1>1, <1>2, <1>3 DEF PreviewStatus
<1>6. CASE PreviewStatus(t)' = PreviewStatus(t)
  <2>1. Previews' = Previews
    BY <1>4, <1>6 DEF Previews
  <2> QED
    BY <1>1, <1>4, <2>1 DEF Owner!vars, Previews, Plans
<1>7. CASE PreviewStatus(t) = "open" /\ PreviewStatus(t)' = "void"
  <2>1. Previews' = [Previews EXCEPT ![t] = "void"] /\ Previews[t] = "open"
    BY <1>4, <1>7 DEF Previews
  <2>2. Owner!Lapse(t)
    BY <1>1, <1>4, <2>1 DEF Owner!Lapse, Previews, Plans
  <2> QED
    BY <2>2 DEF Owner!Next
<1> QED
  BY <1>5, <1>6, <1>7
\* Puts before and after their COMMIT, files that move, and stores that open and close.
LEMMA UnseenOwner ==
    ASSUME StoreInv, NEW c \in Clients,
           \/ OpenStore(c) \/ Reconciles(c) \/ CloseStore(c) \/ StageArtifact(c) \/ PutFails(c)
           \/ Publish(c) \/ Discard(c) \/ Restore(c) \/ FileStepFails(c) \/ PreviewRaises(c)
    PROVE  UNCHANGED Owner!vars
<1>1. TypeOK /\ client \in [Clients -> Client] /\ client[c] \in Client
  BY DEF StoreInv, TypeOK
<1>2. /\ \A d \in Clients : d # c => client'[d] = client[d]
      /\ client[c].at # "deleting" /\ client'[c].at # "deleting"
  <2>1. CASE OpenStore(c)
    <3> DEFINE found == {a \in Artifacts : a \in rows \/ file[a] # "none"}
               next == [Rest("closed") EXCEPT !.at = "reconciling", !.todo = found, !.listing = file]
    <3>1. next.at = "reconciling" /\ Rest("open").at = "idle"
      BY DEF Rest
    <3>2. client' = [client EXCEPT ![c] = Rest("open")] \/ client' = [client EXCEPT ![c] = next]
      BY <2>1 DEF OpenStore, Set
    <3> QED
      BY <1>1, <2>1, <3>1, <3>2 DEF OpenStore, At
  <2>2. CASE Reconcile(c)
    <3>1. PICK a \in client[c].todo :
            \/ client' = [client EXCEPT ![c] = Rest("open")]
            \/ client' = [client EXCEPT ![c] = [client[c] EXCEPT !.todo = client[c].todo \ {a}]]
      BY <1>1, <2>2 DEF Reconcile, Set, Client
    <3>2. [client[c] EXCEPT !.todo = client[c].todo \ {a}].at = client[c].at
      BY <1>1 DEF Client
    <3> QED
      BY <1>1, <2>2, <3>1, <3>2, RestAt DEF Reconcile, At
  <2>3. CASE OpenRaises(c) \/ CloseStore(c) \/ PreviewRaises(c)
    BY <1>1, <2>3, RestAt DEF OpenRaises, CloseStore, PreviewRaises, Free, Set, At
  <2>4. CASE StageArtifact(c)
    <3>1. client' = [client EXCEPT ![c] = [Rest("open") EXCEPT !.at = "staged", !.todo = {issued'}]]
      BY <2>4 DEF StageArtifact, Set
    <3>2. [Rest("open") EXCEPT !.at = "staged", !.todo = {issued'}].at = "staged"
      BY DEF Rest
    <3> QED
      BY <1>1, <2>4, <3>1, <3>2 DEF StageArtifact, Free, At
  <2>5. CASE PutFails(c)
    BY <1>1, <2>5 DEF PutFails, At, Client
  <2>6. CASE Publish(c) \/ Discard(c) \/ Restore(c) \/ FileStepFails(c)
    <3>1. client[c].at \in {"publishing", "discarding", "removing", "restoring"}
      BY <2>6 DEF Publish, Discard, Restore, FileStepFails, At
    <3>2. PICK a \in client[c].todo, failed \in BOOLEAN : Finish(c, a, failed)
      BY <2>6 DEF Publish, Discard, Restore, FileStepFails, Move
    <3> QED
      BY <1>1, <3>1, <3>2, FinishType
  <2> QED
    BY <2>1, <2>2, <2>3, <2>4, <2>5, <2>6 DEF Reconciles
<1>3. UNCHANGED <<rows, revision, tokens, gone>>
  BY DEF OpenStore, Reconciles, Reconcile, OpenRaises, CloseStore, StageArtifact, PutFails, Publish, Discard, Restore,
         FileStepFails, PreviewRaises
<1>4. \A t \in Tokens : InUse(t)' <=> InUse(t)
  BY <1>1, <1>2, SameUse DEF At
<1> QED
  BY <1>3, <1>4, UnseenStep

LEMMA EndsOwner ==
    ASSUME StoreInv, NEW c \in Clients, CommitArtifact(c) \/ CommitRaises(c) \/ Crash(c)
    PROVE  Owner!Next \/ UNCHANGED Owner!vars
<1>1. TypeOK /\ client \in [Clients -> Client] /\ client[c] \in Client
  BY DEF StoreInv, TypeOK
<1>2. (\A d \in Clients : d # c => client'[d] = client[d]) /\ client'[c].at \in {"idle", "publishing"}
  BY <1>1, RestAt DEF CommitArtifact, CommitRaises, Crash, Set, Client
<1>3. ASSUME Committing(c), Applied(c), UNCHANGED gone PROVE Owner!Next \/ UNCHANGED Owner!vars
  BY <1>1, <1>2, <1>3, AppliedOwner
<1>4. ASSUME UNCHANGED <<rows, revision, tokens, gone>> PROVE Owner!Next \/ UNCHANGED Owner!vars
  <2>1. CASE At(c, "deleting")
    BY <1>2, <1>4, <2>1, TokenBack
  <2>2. CASE ~At(c, "deleting")
    <3>1. \A t \in Tokens : InUse(t)' <=> InUse(t)
      BY <1>1, <1>2, <2>2, SameUse DEF At
    <3> QED
      BY <1>4, <3>1, UnseenStep
  <2> QED
    BY <2>1, <2>2
<1> QED
  BY <1>3, <1>4 DEF CommitArtifact, CommitRaises, Crash, Committing

\* For any number of store objects, artifacts and tokens, whatever fails and whoever dies: the
\* store carries out the puts and the previewed deletions of its owner one at a time, each at
\* once (docs/analytics-bi-vision.md:936, analytics_store.py:3664).
THEOREM StoreImplementsLifecycle == Spec => ImplementsArtifactLifecycle
<1>1. Init => Owner!Init
  <2> SUFFICES ASSUME Init PROVE Owner!Init
    OBVIOUS
  <2>1. \A t \in Tokens : PreviewStatus(t) = "none" /\ tokens[t].plan = {}
    BY DEF Init, PreviewStatus, NoToken
  <2> QED
    BY <2>1 DEF Init, Owner!Init
<1>2. StoreInv /\ [Next]_vars => [Owner!Next]_(Owner!vars)
  <2> SUFFICES ASSUME StoreInv, [Next]_vars PROVE Owner!Next \/ UNCHANGED Owner!vars
    OBVIOUS
  <2>1. ASSUME NEW c \in Clients, Put(c) \/ FileStep(c) PROVE Owner!Next \/ UNCHANGED Owner!vars
    BY <2>1, UnseenOwner, EndsOwner, RemoveOwner DEF Put, FileStep
  <2>2. ASSUME NEW c \in Clients,
               \/ OpenStore(c) \/ Reconciles(c) \/ CloseStore(c) \/ Delete(c)
               \/ FileStepFails(c) \/ CommitRaises(c) \/ PreviewRaises(c) \/ Crash(c)
        PROVE  Owner!Next \/ UNCHANGED Owner!vars
    BY <2>2, UnseenOwner, EndsOwner, DeleteOwner
  <2>3. ASSUME NEW t \in Tokens, Expire(t) PROVE Owner!Next \/ UNCHANGED Owner!vars
    BY <2>3, ExpireOwner
  <2>4. CASE UNCHANGED vars
    <3>1. UNCHANGED <<rows, revision, tokens, gone>> /\ \A t \in Tokens : InUse(t)' <=> InUse(t)
      BY <2>4 DEF vars, InUse, At
    <3> QED
      BY <3>1, UnseenStep
  <2> QED
    BY <2>1, <2>2, <2>3, <2>4 DEF Next
<1> QED
  BY <1>1, <1>2, StoreInvAlways, PTL DEF Spec, ImplementsArtifactLifecycle, Owner!Spec
===============================================================================
