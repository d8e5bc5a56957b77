----------------------------- MODULE JobLifecycle -----------------------------
(***************************************************************************)
(* What the job tools promise their callers (docs/analytics.md:41-43 of    *)
(* the repository), as one owner sees it: a job is active, ends once, and  *)
(* publishes its result in the step that completes it; only an interrupted *)
(* job is launched again.  Stopping a job is a promise that it will not    *)
(* complete; it is forgotten when the service dies, and the next service   *)
(* interrupts what it finds active, whether or not it then comes up.       *)
(***************************************************************************)
EXTENDS Naturals, FiniteSets

CONSTANTS Job, Report, Capacity

VARIABLES service, status, launch, stopping, published

vars == <<service, status, launch, stopping, published>>

Interrupted == "job_interrupted_restart_required"

ActiveJobs == {j \in Job : status[j] = "active"}

Init ==
    /\ service = "down"
    /\ status = [j \in Job |-> "absent"]
    /\ launch = [j \in Job |-> 0]
    /\ stopping = {} /\ published = {}

\* The service comes up, or fails to after it has interrupted what it found.
Open ==
    /\ service = "down" /\ service' \in {"open", "down"}
    /\ status' = [j \in Job |-> IF status[j] = "active" THEN Interrupted ELSE status[j]]
    /\ UNCHANGED <<launch, stopping, published>>

Start(j) ==
    /\ service = "open"
    /\ status[j] \in {"absent", Interrupted}
    /\ Cardinality(ActiveJobs) < Capacity
    /\ status' = [status EXCEPT ![j] = "active"]
    /\ launch' = [launch EXCEPT ![j] = @ + 1]
    /\ UNCHANGED <<service, stopping, published>>

\* A calculation publishes the result of its launch; a report publishes nothing here.
Complete(j) ==
    /\ service = "open"
    /\ status[j] = "active" /\ j \notin stopping
    /\ status' = [status EXCEPT ![j] = "job_completed"]
    /\ published' = IF j \in Report THEN published ELSE published \cup {<<j, launch[j]>>}
    /\ UNCHANGED <<service, launch, stopping>>

\* Only a service that is closing interrupts a job.
Fail(j) ==
    /\ service # "down"
    /\ status[j] = "active"
    /\ \E code \in {"job_failed", "job_cancelled", "job_expired", Interrupted} :
          /\ code = Interrupted => service = "closing"
          /\ status' = [status EXCEPT ![j] = code]
    /\ stopping' = stopping \ {j}
    /\ UNCHANGED <<service, launch, published>>

Stop(j) ==
    /\ service = "open"
    /\ status[j] = "active"
    /\ stopping' = stopping \cup {j}
    /\ UNCHANGED <<service, status, launch, published>>

Close ==
    /\ service = "open" /\ service' = "closing"
    /\ \E jobs \in SUBSET ActiveJobs : stopping' = stopping \cup jobs
    /\ UNCHANGED <<status, launch, published>>

\* The service ends, in order or not.
Die ==
    /\ service # "down" /\ service' = "down"
    /\ stopping' = {}
    /\ UNCHANGED <<status, launch, published>>

Next ==
    \/ Open \/ Close \/ Die
    \/ \E j \in Job : Start(j) \/ Complete(j) \/ Fail(j) \/ Stop(j)

Spec == Init /\ [][Next]_vars
===============================================================================
