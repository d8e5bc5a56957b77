--------------------------- MODULE ArtifactLifecycle ---------------------------
(***************************************************************************)
(* What the analytics store promises the owner of its artifacts            *)
(* (docs/analytics-bi-vision.md:936 of the repository): an artifact is     *)
(* stored and later deleted, each at once; a deletion carries out one      *)
(* preview, all of it, and the preview is void as soon as anything else    *)
(* was stored or deleted; what was deleted is never stored again.          *)
(***************************************************************************)

CONSTANTS Artifact, Token

VARIABLES stored, preview, plan, receipts

vars == <<stored, preview, plan, receipts>>

Deleted == UNION {plan[t] : t \in {u \in Token : preview[u] = "spent"}}

\* Every preview of what was stored before is void.
Voided == [t \in Token |-> IF preview[t] = "open" THEN "void" ELSE preview[t]]

Init ==
    /\ stored = {}
    /\ preview = [t \in Token |-> "none"]
    /\ plan = [t \in Token |-> {}]
    /\ receipts = {}

Put(a) ==
    /\ a \notin stored \cup Deleted
    /\ stored' = stored \cup {a}
    /\ preview' = Voided
    /\ UNCHANGED <<plan, receipts>>

Preview(t) ==
    /\ preview[t] = "none"
    /\ preview' = [preview EXCEPT ![t] = "open"]
    /\ \E artifacts \in SUBSET stored \ {{}} : plan' = [plan EXCEPT ![t] = artifacts]
    /\ UNCHANGED <<stored, receipts>>

\* A preview runs out.
Lapse(t) ==
    /\ preview[t] = "open"
    /\ preview' = [preview EXCEPT ![t] = "void"]
    /\ UNCHANGED <<stored, plan, receipts>>

Delete(t) ==
    /\ preview[t] = "open"
    /\ stored' = stored \ plan[t]
    /\ preview' = [Voided EXCEPT ![t] = "spent"]
    /\ UNCHANGED <<plan, receipts>>

\* The owner is told that the deletion is done.
Receipt(t) ==
    /\ preview[t] = "spent"
    /\ receipts' = receipts \cup plan[t]
    /\ UNCHANGED <<stored, preview, plan>>

Next ==
    \/ \E a \in Artifact : Put(a)
    \/ \E t \in Token : Preview(t) \/ Lapse(t) \/ Delete(t) \/ Receipt(t)

Spec == Init /\ [][Next]_vars
===============================================================================
