--------------------------- MODULE TaskEventStream ---------------------------
(***************************************************************************)
(* The event log of one assistant task, the SSE generator that replays and *)
(* tails it (event_stream.py) and the browser client that follows it with  *)
(* Last-Event-ID (frontend chat.ts, sendMessageStream).                    *)
(*                                                                         *)
(* The rows are written by the repository operations, each one commit, in  *)
(* any order their own guards allow: who calls them is AssistantTask's     *)
(* subject.  They run on the event loop; so does the generator, except for *)
(* its two reads, which run in a thread (asyncio.to_thread) and see two    *)
(* different database snapshots.  The pause of a task is several commits   *)
(* in one stretch of the loop, so the thread can read between them but the *)
(* generator cannot act before the stretch ends.                           *)
(***************************************************************************)
EXTENDS Naturals, Sequences

CONSTANTS
    PageLimit,      \* events one read returns at most (200)
    MaxReconnects,  \* CHAT_STREAM_MAX_RECONNECTS
    MaxDrops,       \* bound on broken connections
    MaxLog          \* bound on the log, for TLC

ASSUME StreamAssumption ==
    /\ PageLimit \in Nat \ {0}
    /\ MaxReconnects \in Nat
    /\ MaxDrops \in Nat
    /\ MaxLog \in Nat

VARIABLES
    \* rows
    log,              \* event kinds, in the order of their sequence
    status,
    cancelRequested,
    pausing,          \* stage of a pause that holds the event loop
    \* the generator of the current connection
    conn,             \* "none", "events", "snapshot", "ready", "closed"
    cursor,           \* sequence of the last event it yielded
    page,             \* events the first read returned
    seen,             \* status the second read returned
    wire,             \* sequences yielded and not yet received
    \* the browser
    client,           \* "follow", "between", "ok", "failed"
    lastEventId,
    received,         \* sequences handed to the callbacks, over all connections
    flags,            \* finished, paused and terminalError of the client
    reconnects,
    drops

db     == <<log, status, cancelRequested, pausing>>
server == <<conn, cursor, page, seen>>
browser == <<client, lastEventId, received, flags, reconnects, drops>>
vars   == <<db, server, wire, browser>>

Terminal == {"completed", "failed", "cancelled"}
\* Statuses at which the generator closes the stream.
Resting  == Terminal \cup {"awaiting_approval"}
Kinds    == {"task_created", "task_queued", "run_started", "token", "checkpoint_saved",
             "approval_required", "paused", "retry_scheduled", "done", "error", "cancelled"}

TypeOK ==
    /\ log \in Seq(Kinds)
    /\ status \in Resting \cup {"queued", "running"}
    /\ cancelRequested \in BOOLEAN
    /\ pausing \in {"no", "checkpoint", "cards"}
    /\ conn \in {"none", "events", "snapshot", "ready", "closed"}
    /\ cursor \in 0..Len(log)
    /\ page \in Seq(1..Len(log))
    /\ seen \in Resting \cup {"queued", "running"}
    /\ wire \in Seq(1..Len(log))
    /\ client \in {"follow", "between", "ok", "failed"}
    /\ lastEventId \in 0..Len(log)
    /\ received \in Seq(1..Len(log))
    /\ flags \subseteq {"finished", "paused", "error"}
    /\ reconnects \in 0..MaxReconnects
    /\ drops \in 0..MaxDrops

\* create_task commits both events before the handler opens the stream.
Init ==
    /\ log = <<"task_created", "task_queued">>
    /\ status = "queued"
    /\ cancelRequested = FALSE
    /\ pausing = "no"
    /\ conn = "events"
    /\ cursor = 0
    /\ page = <<>>
    /\ seen = "queued"
    /\ wire = <<>>
    /\ client = "follow"
    /\ lastEventId = 0
    /\ received = <<>>
    /\ flags = {}
    /\ reconnects = 0
    /\ drops = 0

-----------------------------------------------------------------------------
(* The writers.                                                            *)

LoopFree == pausing = "no"

append_task_event(kind) ==
    /\ Len(log) < MaxLog
    /\ log' = Append(log, kind)

claim_task ==
    /\ LoopFree
    /\ status \in {"queued", "awaiting_approval"}
    /\ status' = "running"
    /\ append_task_event("run_started")
    /\ UNCHANGED <<cancelRequested, pausing, server, wire, browser>>

\* Step, tool, usage and answer-token events: no look at the status, so a
\* flush while the worker unwinds can follow the cancellation.
progress ==
    /\ LoopFree
    /\ append_task_event("token")
    /\ UNCHANGED <<status, cancelRequested, pausing, server, wire, browser>>

cancel_task ==
    /\ LoopFree
    /\ status \notin Terminal
    /\ status' = "cancelled"
    /\ cancelRequested' = TRUE
    /\ append_task_event("cancelled")
    /\ UNCHANGED <<pausing, server, wire, browser>>

retry_task ==
    /\ LoopFree
    /\ status \in {"failed", "cancelled"}
    /\ status' = "queued"
    /\ cancelRequested' = FALSE
    /\ append_task_event("retry_scheduled")
    /\ UNCHANGED <<pausing, server, wire, browser>>

finish_failed ==
    /\ LoopFree
    /\ status \notin Terminal
    /\ status' = "failed"
    /\ append_task_event("error")
    /\ UNCHANGED <<cancelRequested, pausing, server, wire, browser>>

complete_task_with_message ==
    /\ LoopFree
    /\ status = "running" /\ ~cancelRequested
    /\ status' = "completed"
    /\ append_task_event("done")
    /\ UNCHANGED <<cancelRequested, pausing, server, wire, browser>>

\* _finish_result of a waiting run: save_checkpoint, then one event for each
\* card, then TASK_PAUSED, each committed on its own.
save_checkpoint ==
    /\ LoopFree
    /\ Len(log) + 2 < MaxLog
    /\ status' = "awaiting_approval"
    /\ append_task_event("checkpoint_saved")
    /\ pausing' = "checkpoint"
    /\ UNCHANGED <<cancelRequested, server, wire, browser>>

approval_required ==
    /\ pausing = "checkpoint"
    /\ append_task_event("approval_required")
    /\ pausing' = "cards"
    /\ UNCHANGED <<status, cancelRequested, server, wire, browser>>

task_paused ==
    /\ pausing = "cards"
    /\ append_task_event("paused")
    /\ pausing' = "no"
    /\ UNCHANGED <<status, cancelRequested, server, wire, browser>>

-----------------------------------------------------------------------------
(* subscribe_task_events.                                                  *)

\* faulty: asks for the cursor's event again
list_task_events_inclusive ==
    LET from == IF cursor = 0 THEN 0 ELSE cursor - 1
    IN  [i \in 1..(IF Len(log) - from < PageLimit THEN Len(log) - from ELSE PageLimit)
            |-> from + i]

list_task_events ==
    [i \in 1..(IF Len(log) - cursor < PageLimit THEN Len(log) - cursor ELSE PageLimit)
        |-> cursor + i]

ReadEvents ==
    /\ conn = "events"
    /\ page' = list_task_events
    /\ conn' = "snapshot"
    /\ UNCHANGED <<db, cursor, seen, wire, browser>>

ReadSnapshot ==
    /\ conn = "snapshot"
    /\ seen' = status
    /\ conn' = "ready"
    /\ UNCHANGED <<db, cursor, page, wire, browser>>

Deliver ==
    /\ conn = "ready" /\ LoopFree
    /\ page # <<>>
    /\ wire' = wire \o page
    /\ cursor' = page[Len(page)]
    /\ conn' = "events"
    /\ UNCHANGED <<db, page, seen, browser>>

\* faulty: a paused task keeps its streams open
CloseEnded ==
    /\ conn = "ready" /\ LoopFree
    /\ page = <<>>
    /\ seen \in Terminal
    /\ conn' = "closed"
    /\ UNCHANGED <<db, cursor, page, seen, wire, browser>>

Close ==
    /\ conn = "ready" /\ LoopFree
    /\ page = <<>>
    /\ seen \in Resting
    /\ conn' = "closed"
    /\ UNCHANGED <<db, cursor, page, seen, wire, browser>>

\* The poll interval passes.
Poll ==
    /\ conn = "ready" /\ LoopFree
    /\ page = <<>>
    /\ seen \notin Resting
    /\ conn' = "events"
    /\ UNCHANGED <<db, cursor, page, seen, wire, browser>>

-----------------------------------------------------------------------------
(* The browser.                                                            *)

Note(kind) == CASE kind = "done"   -> {"finished"}
                [] kind = "paused" -> {"paused"}
                [] kind = "error"  -> {"error"}
                [] OTHER           -> {}

Receive ==
    /\ client = "follow"
    /\ wire # <<>>
    /\ lastEventId' = Head(wire)
    /\ received' = Append(received, Head(wire))
    /\ flags' = flags \cup Note(log[Head(wire)])
    /\ wire' = Tail(wire)
    /\ UNCHANGED <<db, server, client, reconnects, drops>>

\* sendMessageStream is content with an answer or a pause.  An error event ends
\* the first connection for good; otherwise it reconnects while attempts are
\* left, once the first event has told it the path of the task's stream.
Concluded == flags \cap {"finished", "paused"} # {}
Refuted   == "error" \in flags /\ "finished" \notin flags /\ reconnects = 0

\* faulty: a stream that ends is never followed up
AfterEndOnce == client' = IF Concluded /\ ~Refuted THEN "ok" ELSE "failed"

AfterEnd ==
    client' = IF Concluded /\ ~Refuted THEN "ok"
              ELSE IF Refuted \/ reconnects = MaxReconnects \/ received = <<>>
              THEN "failed" ELSE "between"

StreamEnds ==
    /\ client = "follow"
    /\ conn = "closed" /\ wire = <<>>
    /\ AfterEnd
    /\ conn' = "none"
    /\ UNCHANGED <<db, cursor, page, seen, wire, lastEventId, received, flags,
                   reconnects, drops>>

\* The connection breaks; what is on the wire is lost.
Drop ==
    /\ client = "follow"
    /\ drops < MaxDrops
    /\ drops' = drops + 1
    /\ AfterEnd
    /\ conn' = "none"
    /\ wire' = <<>>
    /\ UNCHANGED <<db, cursor, page, seen, lastEventId, received, flags, reconnects>>

Reconnect ==
    /\ client = "between"
    /\ client' = "follow"
    /\ reconnects' = reconnects + 1
    /\ conn' = "events"
    /\ cursor' = lastEventId
    /\ UNCHANGED <<db, page, seen, wire, lastEventId, received, flags, drops>>

-----------------------------------------------------------------------------
Writers ==
    \/ claim_task \/ progress \/ cancel_task \/ retry_task \/ finish_failed
    \/ complete_task_with_message
    \/ save_checkpoint

Pausing == approval_required \/ task_paused

Generator == ReadEvents \/ ReadSnapshot \/ Deliver \/ Close \/ Poll

Client == Receive \/ StreamEnds \/ Reconnect

Next == Writers \/ Pausing \/ Generator \/ Client \/ Drop

Spec == Init /\ [][Next]_vars

\* A pause runs to its end, the generator polls, the browser reads what
\* arrives.  Nothing obliges the task to progress or the network to break.
FairSpec == Spec /\ WF_vars(Pausing) /\ WF_vars(Generator) /\ WF_vars(Client)

-----------------------------------------------------------------------------
\* Over any number of connections the client sees every event once and in
\* order: no gap, no repeat, whatever pages, drops and reconnects happened.
ReceivedIsPrefix ==
    /\ received = [i \in 1..Len(received) |-> i]
    /\ lastEventId = Len(received)

\* Without broken connections only a failed or cancelled task makes the client
\* report a failure: a stream closed too early is made up for by a reconnect.
FailureIsReal ==
    client = "failed" /\ drops = 0 =>
        \E i \in 1..Len(log) : log[i] \in {"error", "cancelled"}

\* Once the task rests for good the client is released, with or without drops.
ClientReleased ==
    <>[](status \in Resting) => <>(client \in {"ok", "failed"})
=============================================================================
