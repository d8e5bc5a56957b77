----------------------------- MODULE AnalyticsStore -----------------------------
(***************************************************************************)
(* Owner artifacts of the analytics store (analytics_store.py): a row of   *)
(* the DuckDB file and a file of the artifact directory that have to       *)
(* change together and cannot.  A put stages the file under a write        *)
(* marker, a delete renames it to a delete marker; the writer lock is held *)
(* from there to the COMMIT, and the file takes its last step, or its step *)
(* back, after the lock is gone.  Opening the store reconciles rows and    *)
(* files under the lock.                                                   *)
(*                                                                         *)
(* A client is an AnalyticsStore object in a process of its own or in the  *)
(* server's: tool calls open one each, the job manager keeps one.  The     *)
(* file of an artifact is renamed and never copied, so it has one name at  *)
(* a time: its own, its write marker, or the delete marker of a client.    *)
(***************************************************************************)
EXTENDS Naturals

CONSTANTS
    Clients,        \* store objects
    NoOne,          \* holder of a free writer lock
    MaxArtifacts,   \* bound: artifacts put
    MaxTokens,      \* bound: deletion tokens given out
    MaxFaults       \* bound: crashes, failed statements, COMMITs and file operations

ASSUME NoOneAssumption == NoOne \notin Clients
ASSUME PlaceAssumption == {"none", "write", "canonical"} \cap Clients = {}
ASSUME BoundAssumption == {MaxArtifacts, MaxTokens, MaxFaults} \subseteq Nat

VARIABLES
    rows,       \* artifacts with a committed row
    revision,   \* store_metadata.revision
    file,       \* the name each artifact's file has
    tokens,     \* the rows of deletion_tokens
    lock,       \* holder of the writer lock
    client,     \* what each client is doing
    issued,     \* artifacts whose put has begun
    gone,       \* history: artifacts of deletions that returned a receipt
    faults

vars == <<rows, revision, file, tokens, lock, client, issued, gone, faults>>

\* new_safe_handle never gives out a handle twice: handles are numbered as they are given out.
Artifacts == 1..MaxArtifacts
Tokens == 1..MaxTokens

\* A delete marker is named by the client that made it: its other markers of that artifact are
\* gone by then.
Place == {"none", "write", "canonical"} \cup Clients

NowhereListed == [a \in Artifacts |-> "none"]

\* before: history, the rows at the preview.
NoToken == [issued |-> FALSE, plan |-> {}, revision |-> 0, expired |-> FALSE, used |-> FALSE, before |-> {}]

DeletionToken == [issued : BOOLEAN, plan : SUBSET Artifacts, revision : Nat, expired : BOOLEAN,
                  used : BOOLEAN, before : SUBSET Artifacts]

\* todo, moved: the artifacts an operation has still to handle, and the files it has staged;
\* failed: the first_error of its file work; token: the tokens it uses; listing: the directory.
Client == [store : {"closed", "open", "poisoned"},
           at : {"idle", "reconciling", "staged", "publishing", "discarding",
                 "deleting", "removing", "restoring"},
           todo : SUBSET Artifacts, moved : SUBSET Artifacts, token : SUBSET Tokens,
           failed : BOOLEAN, listing : [Artifacts -> Place]]

Rest(store) == [store |-> store, at |-> "idle", todo |-> {}, moved |-> {}, token |-> {},
                failed |-> FALSE, listing |-> NowhereListed]

Init ==
    /\ rows = {}
    /\ revision = 0
    /\ file = NowhereListed
    /\ tokens = [t \in Tokens |-> NoToken]
    /\ lock = NoOne
    /\ client = [c \in Clients |-> Rest("closed")]
    /\ issued = 0
    /\ gone = {}
    /\ faults = 0

At(c, place) == client[c].at = place
Set(c, state) == client' = [client EXCEPT ![c] = state]

\* _require_open, and a writer lock nobody else has: StoreBusyError otherwise.
Free(c) == client[c].store = "open" /\ At(c, "idle") /\ lock = NoOne

Fault == faults < MaxFaults /\ faults' = faults + 1

--------------------------------------------------------------------------------
(* Opening.                                                                    *)

\* Mutant of OpenStore: the artifact directory is not reconciled.
SkipsReconciliation(c) ==
    /\ client[c].store = "closed"
    /\ At(c, "idle")
    /\ lock = NoOne
    /\ Set(c, Rest("open"))
    /\ UNCHANGED <<rows, revision, file, tokens, lock, issued, gone, faults>>

\* _reconcile_owned_artifacts: no row can change before the lock is given up, files can.
OpenStore(c) ==
    /\ client[c].store = "closed"
    /\ At(c, "idle")
    /\ lock = NoOne
    /\ LET found == {a \in Artifacts : a \in rows \/ file[a] # "none"} IN
       IF found = {}
       THEN Set(c, Rest("open")) /\ UNCHANGED lock
       ELSE /\ Set(c, [Rest("closed") EXCEPT !.at = "reconciling", !.todo = found, !.listing = file])
            /\ lock' = c
    /\ UNCHANGED <<rows, revision, file, tokens, issued, gone, faults>>

\* The file of a row gets its name back, from either marker; a file without a row is removed
\* or, had it the artifact's own name, set aside.
Reconcile(c) ==
    /\ At(c, "reconciling")
    /\ \E a \in client[c].todo :
          /\ file[a] = client[c].listing[a]
          /\ a \in rows => file[a] # "none"
          /\ file' = [file EXCEPT ![a] = IF a \in rows THEN "canonical" ELSE "none"]
          /\ IF client[c].todo = {a}
             THEN Set(c, Rest("open")) /\ lock' = NoOne
             ELSE client' = [client EXCEPT ![c].todo = @ \ {a}] /\ UNCHANGED lock
    /\ UNCHANGED <<rows, revision, tokens, issued, gone, faults>>

\* A listed file has another name by now, or a row has no file: open raises.
OpenRaises(c) ==
    /\ At(c, "reconciling")
    /\ \E a \in client[c].todo :
          file[a] # client[c].listing[a] \/ (a \in rows /\ file[a] = "none")
    /\ Set(c, Rest("closed"))
    /\ lock' = NoOne
    /\ UNCHANGED <<rows, revision, file, tokens, issued, gone, faults>>

CloseStore(c) ==
    /\ client[c].store # "closed"
    /\ At(c, "idle")
    /\ Set(c, Rest("closed"))
    /\ UNCHANGED <<rows, revision, file, tokens, lock, issued, gone, faults>>

--------------------------------------------------------------------------------
(* File steps after the lock is gone.                                          *)

\* Mutant of Finish: only the error of the last file counts.
ForgetsError(c, a, failed) ==
    LET left == client[c].todo \ {a} IN
    Set(c, IF left = {} THEN Rest(IF failed THEN "poisoned" ELSE "open")
           ELSE [client[c] EXCEPT !.todo = left])

\* One file of the operation is done; an error is kept and poisons the store at the end.
Finish(c, a, failed) ==
    LET left == client[c].todo \ {a}
        bad == client[c].failed \/ failed IN
    Set(c, IF left = {} THEN Rest(IF bad THEN "poisoned" ELSE "open")
           ELSE [client[c] EXCEPT !.todo = left, !.failed = bad])

Move(c, a, from, to) ==
    IF file[a] = from
    THEN file' = [file EXCEPT ![a] = to] /\ Finish(c, a, FALSE)
    ELSE UNCHANGED file /\ Finish(c, a, TRUE)

\* _publish_staged_artifact.
Publish(c) ==
    /\ At(c, "publishing")
    /\ \E a \in client[c].todo : Move(c, a, "write", "canonical")
    /\ UNCHANGED <<rows, revision, tokens, lock, issued, gone, faults>>

\* _discard_staged_artifact.
Discard(c) ==
    /\ At(c, "discarding")
    /\ \E a \in client[c].todo : Move(c, a, "write", "none")
    /\ UNCHANGED <<rows, revision, tokens, lock, issued, gone, faults>>

\* _remove_staged_artifact_files; the last one returns the receipt unless one of them failed.
Remove(c) ==
    /\ At(c, "removing")
    /\ \E a \in client[c].todo :
          /\ Move(c, a, c, "none")
          /\ gone' = IF client'[c] = Rest("open")
                     THEN gone \cup UNION {tokens[t].plan : t \in client[c].token}
                     ELSE gone
    /\ UNCHANGED <<rows, revision, tokens, lock, issued, faults>>

\* _restore_staged_artifact_files: a file that is back already is no error.
Restore(c) ==
    /\ At(c, "restoring")
    /\ \E a \in client[c].todo :
          Move(c, a, IF file[a] = "canonical" THEN "canonical" ELSE c, "canonical")
    /\ UNCHANGED <<rows, revision, tokens, lock, issued, gone, faults>>

\* The file system refuses one of these steps.
FileStepFails(c) ==
    /\ client[c].at \in {"publishing", "discarding", "removing", "restoring"}
    /\ Fault
    /\ \E a \in client[c].todo : Finish(c, a, TRUE)
    /\ UNCHANGED <<rows, revision, file, tokens, lock, issued, gone>>
--------------------------------------------------------------------------------
(* put_owned_artifact.                                                         *)

StageArtifact(c) ==
    /\ Free(c)
    /\ issued < MaxArtifacts
    /\ issued' = issued + 1
    /\ file' = [file EXCEPT ![issued'] = "write"]
    /\ lock' = c
    /\ Set(c, [Rest("open") EXCEPT !.at = "staged", !.todo = {issued'}])
    /\ UNCHANGED <<rows, revision, tokens, gone, faults>>

\* What the transaction of a put or a delete changes when it is applied.
Applied(c) ==
    /\ rows' = (rows \cup client[c].todo) \ client[c].moved
    /\ revision' = revision + 1
    /\ tokens' = [t \in Tokens |-> [tokens[t] EXCEPT !.used = @ \/ t \in client[c].token]]

CommitArtifact(c) ==
    /\ At(c, "staged")
    /\ Applied(c)
    /\ lock' = NoOne
    /\ client' = [client EXCEPT ![c].at = "publishing"]
    /\ UNCHANGED <<file, issued, gone, faults>>

\* The transaction fails before its COMMIT: the lock goes first, then the file.
PutFails(c) ==
    /\ At(c, "staged")
    /\ Fault
    /\ lock' = NoOne
    /\ client' = [client EXCEPT ![c].at = "discarding"]
    /\ UNCHANGED <<rows, revision, file, tokens, issued, gone>>

--------------------------------------------------------------------------------
(* preview_delete and delete_previewed.                                        *)

\* The plan is a set of rows; nothing else changes, the revision neither.
PreviewDelete(c, t) ==
    /\ Free(c)
    /\ ~tokens[t].issued
    /\ \A u \in 1..t - 1 : tokens[u].issued
    /\ \E plan \in SUBSET rows \ {{}} :
          tokens' = [tokens EXCEPT ![t] = [NoToken EXCEPT !.issued = TRUE, !.plan = plan,
                                                          !.revision = revision, !.before = rows]]
    /\ UNCHANGED <<rows, revision, file, lock, client, issued, gone, faults>>

Expire(t) ==
    /\ tokens[t].issued
    /\ ~tokens[t].expired
    /\ tokens' = [tokens EXCEPT ![t].expired = TRUE]
    /\ UNCHANGED <<rows, revision, file, lock, client, issued, gone, faults>>

\* Mutant of Authorized: the revision of the preview is not compared.
IgnoresRevision(t) ==
    /\ tokens[t].issued
    /\ ~tokens[t].used
    /\ ~tokens[t].expired

\* The same: its age is not looked at.
IgnoresExpiry(t) ==
    /\ tokens[t].issued
    /\ ~tokens[t].used
    /\ tokens[t].revision = revision

\* _authorize_deletion_token: unknown, used, expired and outdated tokens are refused.
Authorized(t) ==
    /\ tokens[t].issued
    /\ ~tokens[t].used
    /\ ~tokens[t].expired
    /\ tokens[t].revision = revision

BeginDelete(c, t) ==
    /\ Free(c)
    /\ Authorized(t)
    /\ lock' = c
    /\ Set(c, [Rest("open") EXCEPT !.at = "deleting", !.todo = tokens[t].plan, !.token = {t}])
    /\ UNCHANGED <<rows, revision, file, tokens, issued, gone, faults>>

StageDeletion(c) ==
    /\ At(c, "deleting")
    /\ \E a \in client[c].todo :
          /\ file[a] = "canonical"
          /\ file' = [file EXCEPT ![a] = c]
          /\ client' = [client EXCEPT ![c].todo = @ \ {a}, ![c].moved = @ \cup {a}]
    /\ UNCHANGED <<rows, revision, tokens, lock, issued, gone, faults>>

\* Mutant of RollBack: the lock is not given up.
KeepsLock(c) ==
    /\ Set(c, IF client[c].moved = {} THEN Rest("open")
              ELSE [client[c] EXCEPT !.at = "restoring", !.todo = client[c].moved, !.moved = {}])
    /\ UNCHANGED <<rows, revision, file, tokens, lock, issued, gone>>

\* ROLLBACK, and the lock goes before the files are put back.
RollBack(c) ==
    /\ lock' = NoOne
    /\ Set(c, IF client[c].moved = {} THEN Rest("open")
              ELSE [client[c] EXCEPT !.at = "restoring", !.todo = client[c].moved, !.moved = {}])
    /\ UNCHANGED <<rows, revision, file, tokens, issued, gone>>

\* The file of a row is not there under its name, or a statement fails.
DeleteFails(c) ==
    /\ At(c, "deleting")
    /\ \/ (\E a \in client[c].todo : file[a] # "canonical") /\ UNCHANGED faults
       \/ Fault
    /\ RollBack(c)

CommitDelete(c) ==
    /\ At(c, "deleting")
    /\ client[c].todo = {}
    /\ Applied(c)
    /\ lock' = NoOne
    /\ client' = [client EXCEPT ![c].at = "removing", ![c].todo = client[c].moved]
    /\ UNCHANGED <<file, issued, gone, faults>>

--------------------------------------------------------------------------------
(* A COMMIT that raises and may have been applied, and a client that dies.     *)

Committing(c) == At(c, "staged") \/ (At(c, "deleting") /\ client[c].todo = {})

\* Mutants of CommitRaises: the staged file is discarded; the deleted files are put back.
DiscardsAnyway(c) ==
    /\ Committing(c)
    /\ Fault
    /\ UNCHANGED <<rows, revision, tokens>> \/ Applied(c)
    /\ lock' = NoOne
    /\ Set(c, IF At(c, "deleting") THEN Rest("poisoned")
              ELSE [Rest("open") EXCEPT !.at = "discarding", !.todo = client[c].todo])
    /\ UNCHANGED <<file, issued, gone>>
RestoresAnyway(c) ==
    /\ Committing(c)
    /\ Fault
    /\ UNCHANGED <<rows, revision, tokens>> \/ Applied(c)
    /\ lock' = NoOne
    /\ Set(c, IF At(c, "staged") THEN Rest("poisoned")
              ELSE [Rest("open") EXCEPT !.at = "restoring", !.todo = client[c].moved])
    /\ UNCHANGED <<file, issued, gone>>

\* The client knows neither way: it leaves the files as they are, and refuses every call until
\* it is closed.
CommitRaises(c) ==
    /\ Committing(c)
    /\ Fault
    /\ UNCHANGED <<rows, revision, tokens>> \/ Applied(c)
    /\ lock' = NoOne
    /\ Set(c, Rest("poisoned"))
    /\ UNCHANGED <<file, issued, gone>>

\* The same in preview_delete, whose token nobody learns.
PreviewRaises(c) ==
    /\ Free(c)
    /\ Fault
    /\ Set(c, Rest("poisoned"))
    /\ UNCHANGED <<rows, revision, file, tokens, lock, issued, gone>>

Crash(c) ==
    /\ ~At(c, "idle")
    /\ Fault
    /\ lock' = IF lock = c THEN NoOne ELSE lock
    /\ Set(c, Rest("closed"))
    /\ UNCHANGED <<rows, revision, file, tokens, issued, gone>>

--------------------------------------------------------------------------------

Put(c) ==
    \/ StageArtifact(c) \/ CommitArtifact(c) \/ PutFails(c)

Delete(c) ==
    \/ \E t \in Tokens : PreviewDelete(c, t) \/ BeginDelete(c, t)
    \/ StageDeletion(c) \/ DeleteFails(c) \/ CommitDelete(c)

FileStep(c) == Publish(c) \/ Discard(c) \/ Remove(c) \/ Restore(c)

Reconciles(c) == Reconcile(c) \/ OpenRaises(c)

Next ==
    \/ \E c \in Clients :
          \/ OpenStore(c) \/ Reconciles(c) \/ CloseStore(c)
          \/ Put(c) \/ Delete(c) \/ FileStep(c)
          \/ FileStepFails(c) \/ CommitRaises(c) \/ PreviewRaises(c) \/ Crash(c)
    \/ \E t \in Tokens : Expire(t)

Spec == Init /\ [][Next]_vars

\* A call that has begun goes on to its end, a poisoned store is closed, the store is opened
\* again, as tools are called now and then, and the few minutes of a token pass.
Fairness ==
    /\ \A c \in Clients :
          /\ WF_vars(Reconciles(c))
          /\ WF_vars(CommitArtifact(c))
          /\ WF_vars(StageDeletion(c) \/ DeleteFails(c) \/ CommitDelete(c))
          /\ WF_vars(FileStep(c))
          /\ WF_vars(client[c].store = "poisoned" /\ CloseStore(c))
          /\ SF_vars(OpenStore(c))
    /\ \A t \in Tokens : WF_vars(Expire(t))

FairSpec == Spec /\ Fairness

--------------------------------------------------------------------------------
(* Properties.                                                                 *)

TypeOK ==
    /\ rows \subseteq Artifacts
    /\ revision \in Nat
    /\ file \in [Artifacts -> Place]
    /\ tokens \in [Tokens -> DeletionToken]
    /\ lock \in Clients \cup {NoOne}
    /\ \A c \in Clients : lock = c <=> client[c].at \in {"reconciling", "staged", "deleting"}
    /\ client \in [Clients -> Client]
    /\ issued \in 0..MaxArtifacts
    /\ gone \subseteq Artifacts
    /\ faults \in 0..MaxFaults

\* A row has its file, under one name or another, at every point where a process may die: the
\* next open finds what it needs (analytics_store.py:4280).
RowKeepsFile == \A a \in rows : file[a] # "none"

\* A file under the artifact's own name has its row: nothing the program does leaves an orphan
\* for _quarantine_unreferenced_artifact (analytics_store.py:4303).
NoOrphan == \A a \in Artifacts : file[a] = "canonical" => a \in rows

\* What a deletion removes is what the preview named, all of it, and no row has come or gone
\* since: a token spends itself and every other preview of its revision
\* (docs/analytics-bi-vision.md:936).
DeletesWhatWasPreviewed ==
    [][~(rows \subseteq rows') =>
          \E t \in Tokens :
             /\ tokens[t].plan = rows \ rows'
             /\ tokens[t].before = rows
             /\ ~tokens[t].used /\ tokens'[t].used]_vars

\* A deletion that returned a receipt is never undone: no recovery brings a file or a row of it
\* back, whatever a reconciliation had listed before (analytics_store.py:4292).
DeletedStaysGone == \A a \in gone : a \notin rows /\ file[a] = "none"

\* A file does not keep a marker's name for ever: its operation or a later open, even one that
\* lost a race, settles it (analytics_store.py:969).
MarkerSettled == \A a \in Artifacts : file[a] \notin {"none", "canonical"} ~> file[a] \in {"none", "canonical"}
\* The store as its owner sees it.  A token that a deletion is using is good until that deletion
\* ends, whatever the time.
InUse(t) == \E c \in Clients : At(c, "deleting") /\ t \in client[c].token

PreviewStatus(t) ==
    IF ~tokens[t].issued THEN "none"
    ELSE IF tokens[t].used THEN "spent"
    ELSE IF tokens[t].revision = revision /\ (~tokens[t].expired \/ InUse(t)) THEN "open"
    ELSE "void"

Owner == INSTANCE ArtifactLifecycle
           WITH Artifact <- Artifacts, Token <- Tokens, stored <- rows, receipts <- gone,
                preview <- [t \in Tokens |-> PreviewStatus(t)],
                plan <- [t \in Tokens |-> tokens[t].plan]

\* Whatever the clients do at once, and wherever one dies, the owner sees artifacts stored and
\* previews carried out one at a time, each at once, and a preview used once, before anything
\* else has changed (docs/analytics-bi-vision.md:936, analytics_store.py:3664).
ImplementsArtifactLifecycle == Owner!Spec
===============================================================================
