----------------------------- MODULE OneShotWrite -----------------------------
(***************************************************************************)
(* What a preview token promises (README.md:189-194 of the repository): it *)
(* authorises one request, is consumed by an approval, and is spent by the *)
(* one write that follows.  A token that was not spent may be lost, when   *)
(* its preview is discarded or the process dies; it never comes back.      *)
(***************************************************************************)
EXTENDS Naturals

CONSTANT Token

VARIABLES status, writes

Status == {"unissued", "pending", "consumed", "sent", "lost"}

Init ==
    /\ status = [t \in Token |-> "unissued"]
    /\ writes = [t \in Token |-> 0]

Move(t, from, to) ==
    /\ status[t] = from
    /\ status' = [status EXCEPT ![t] = to]

Issue(t) == Move(t, "unissued", "pending") /\ UNCHANGED writes

Consume(t) == Move(t, "pending", "consumed") /\ UNCHANGED writes

\* The only step that writes, and it needs a consumed token.
Write(t) ==
    /\ Move(t, "consumed", "sent")
    /\ writes' = [writes EXCEPT ![t] = @ + 1]

\* A token is generated and its preview is never handed out.
Discard(t) == Move(t, "unissued", "lost") /\ UNCHANGED writes

\* The process dies with every token it had not spent.
LoseAll ==
    /\ status' = [t \in Token |->
           IF status[t] \in {"pending", "consumed"} THEN "lost" ELSE status[t]]
    /\ UNCHANGED writes

Next ==
    \/ \E t \in Token : Issue(t) \/ Consume(t) \/ Write(t) \/ Discard(t)
    \/ LoseAll

Spec == Init /\ [][Next]_<<status, writes>>
=============================================================================
