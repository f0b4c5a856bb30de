--------------------------- MODULE MCAssistantTask ---------------------------
(* Instances of AssistantTask for TLC. *)
EXTENDS AssistantTask

CONSTANTS write1, write2, read, denied

FourCalls  == {write1, write2, read, denied}
ThreeCalls == {write1, write2, read}
Writes     == {write1, write2}
Denied     == {denied}
NoCalls    == {}

\* Users who never cancel, on a process that never crashes.
CalmUsers ==
    \/ create_assistant_task
    \/ retry_task
    \/ retry_queued
    \/ \E c \in Calls, d \in {"approved", "rejected"} : decide_approval(c, d)

\* The event loop keeps stepping a live worker: every wait in it is bounded
\* by the model, tool or run timeout.  Nothing obliges a user to act.
CalmSpec == Init /\ [][CalmUsers \/ Clock \/ Worker]_vars /\ WF_vars(Worker)

\* The same, deciding a card only while the task really is paused.
PatientUsers ==
    \/ create_assistant_task
    \/ retry_task
    \/ \E c \in Calls, d \in {"approved", "rejected"} : pc = "idle" /\ decide_approval(c, d)

PatientSpec == Init /\ [][PatientUsers \/ Clock \/ Worker]_vars /\ WF_vars(Worker)
=============================================================================
