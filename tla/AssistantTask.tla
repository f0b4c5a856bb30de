---------------------------- MODULE AssistantTask ----------------------------
(***************************************************************************)
(* One durable assistant task of src/modules/assistant: the rows that the  *)
(* HTTP handlers and the in-process worker share, and the worker itself.   *)
(*                                                                         *)
(* Every mutating handler of api.py is an `async def` whose database work  *)
(* is synchronous, and the worker runs on the same event loop, so a step   *)
(* here is the code between two suspension points.  The worker suspends in *)
(* prepare_context, in a model turn, in a tool execution, and once more    *)
(* between the end of the runtime's own asyncio task and the resumption of *)
(* the runner that awaits it: asyncio.wait_for (Python 3.11, the version   *)
(* of the Dockerfile) runs the coroutine in a task of its own.             *)
(*                                                                         *)
(* Database errors are left out; crashes are the action Restart and its    *)
(* variants, which include the recovery pass of the next start-up.         *)
(***************************************************************************)
EXTENDS Naturals

CONSTANTS
    Calls,       \* the tool calls a model may ever propose, by call id
    AskCalls,    \* those the permission policy answers with "ask"
    DenyCalls,   \* those it answers with "deny"; the rest are allowed
    NoCall,      \* no call is being executed
    MaxRetries   \* bound on user retries (the code has none)

ASSUME CallsAssumption ==
    /\ AskCalls \subseteq Calls
    /\ DenyCalls \subseteq Calls
    /\ AskCalls \cap DenyCalls = {}
    /\ NoCall \notin Calls
    /\ MaxRetries \in Nat

VARIABLES
    \* rows: assistant_task_runs, assistant_tool_approvals, _invocations, messages
    status,           \* task status, "none" before the row exists
    cancelRequested,  \* a user cancel that no retry has cleared
    checkpoint,       \* call ids pending in the saved checkpoint, {} for none
    approval,         \* state of each call's approval card
    lapsed,           \* cards whose expires_at has passed
    invocation,       \* state of each call's invocation row
    retryCount,
    answers,          \* final messages written to the conversation
    effects,          \* how often each call's tool has really run
    \* memory of the process
    pc,               \* where the asyncio worker is, "idle" when there is none
    cancelling,       \* worker.cancel() not yet thrown into the worker
    plan,             \* calls the runtime still has to run, refuse or hold
    current,          \* the call being executed
    outcome           \* what the finished runtime task hands to the runner

rows   == <<status, cancelRequested, checkpoint, approval, lapsed, invocation,
            retryCount, answers>>
memory == <<pc, cancelling, plan, current, outcome>>
vars   == <<rows, effects, memory>>

Terminal  == {"completed", "failed", "cancelled"}
Claimable == {"queued", "awaiting_approval"}
Spawned   == {"spawned", "spawned_resume"}
Inner     == {"begin", "resume", "model", "call"}
Active    == Inner \cup {"context", "gap", "unwind"}

NoPlan == [run |-> {}, refuse |-> {}, hold |-> {}]

TypeOK ==
    /\ status \in Terminal \cup Claimable \cup {"none", "running"}
    /\ cancelRequested \in BOOLEAN
    /\ checkpoint \subseteq Calls
    /\ approval \in [Calls -> {"none", "pending", "approved", "rejected", "cancelled"}]
    /\ lapsed \subseteq Calls
    /\ invocation \in [Calls -> {"none", "started", "completed", "failed"}]
    /\ retryCount \in 0..MaxRetries
    /\ answers \in Nat
    /\ effects \in [Calls -> Nat]
    /\ pc \in Active \cup Spawned \cup {"idle"}
    /\ cancelling \in {"none", "posted", "due"}
    /\ plan \in [run : SUBSET Calls, refuse : SUBSET Calls, hold : SUBSET Calls]
    /\ current \in Calls \cup {NoCall}
    /\ outcome \in {"none", "completed", "waiting", "failed", "raised"}

Init ==
    /\ status = "none"
    /\ cancelRequested = FALSE
    /\ checkpoint = {}
    /\ approval = [c \in Calls |-> "none"]
    /\ lapsed = {}
    /\ invocation = [c \in Calls |-> "none"]
    /\ retryCount = 0
    /\ answers = 0
    /\ effects = [c \in Calls |-> 0]
    /\ pc = "idle"
    /\ cancelling = "none"
    /\ plan = NoPlan
    /\ current = NoCall
    /\ outcome = "none"

-----------------------------------------------------------------------------
(* Repository operations: each is one transaction on the rows.             *)

is_task_cancelled == cancelRequested \/ status = "cancelled"

Withdrawn == [c \in Calls |-> IF approval[c] = "pending" THEN "cancelled"
                                                         ELSE approval[c]]

\* finish_task(status = "failed")
finish_failed ==
    IF status \in Terminal
    THEN UNCHANGED <<status, checkpoint, approval>>
    ELSE /\ status' = "failed"
         /\ checkpoint' = {}
         /\ approval' = Withdrawn

cancel_task ==
    IF status \in Terminal
    THEN UNCHANGED <<status, cancelRequested, checkpoint, approval>>
    ELSE /\ status' = "cancelled"
         /\ cancelRequested' = TRUE
         /\ checkpoint' = {}
         /\ approval' = Withdrawn

save_checkpoint(held) ==
    /\ status' = "awaiting_approval"
    /\ checkpoint' = held

\* faulty: a card that was decided meanwhile is put up again
create_approvals_again(held) ==
    approval' = [c \in Calls |-> IF c \in held THEN "pending" ELSE approval[c]]

create_approvals(held) ==
    approval' = [c \in Calls |-> IF c \in held /\ approval[c] = "none"
                                 THEN "pending" ELSE approval[c]]

complete_task_with_message ==
    IF status = "running" /\ ~cancelRequested
    THEN /\ status' = "completed"
         /\ checkpoint' = {}
         /\ answers' = answers + 1
    ELSE UNCHANGED <<status, checkpoint, answers>>

-----------------------------------------------------------------------------
(* The worker registry of the runner.                                      *)

\* _start: a live worker keeps its place and the new coroutine is closed.
start(where, what) ==
    IF pc = "idle"
    THEN /\ pc' = where
         /\ plan' = what
         /\ UNCHANGED <<cancelling, current, outcome>>
    ELSE UNCHANGED memory

WorkerGone ==
    /\ pc' = "idle"
    /\ cancelling' = "none"
    /\ plan' = NoPlan
    /\ current' = NoCall
    /\ outcome' = "none"

-----------------------------------------------------------------------------
(* Handlers of api.py.                                                     *)

create_assistant_task ==
    /\ status = "none"
    /\ status' = "queued"
    /\ start("spawned", NoPlan)
    /\ UNCHANGED <<cancelRequested, checkpoint, approval, lapsed, invocation,
                   retryCount, answers, effects>>

\* The row first, then worker.cancel(); a worker whose runtime task is
\* already done, or that is already unwinding, swallows the request.
cancel_assistant_task ==
    /\ status # "none"
    /\ cancel_task
    /\ cancelling' = IF pc \in Spawned \cup Inner \cup {"context"} /\ cancelling = "none"
                     THEN "posted" ELSE cancelling
    /\ UNCHANGED <<lapsed, invocation, retryCount, answers, effects,
                   pc, plan, current, outcome>>

\* faulty: executed tools do not block the retry
retry_task_replays ==
    /\ status \in {"failed", "cancelled"}
    /\ retryCount < MaxRetries
    /\ status' = "queued"
    /\ cancelRequested' = FALSE
    /\ retryCount' = retryCount + 1
    /\ start("spawned", NoPlan)
    /\ UNCHANGED <<checkpoint, approval, lapsed, invocation, answers, effects>>

\* faulty: the row is queued and no worker started
retry_task_unstarted ==
    /\ status \in {"failed", "cancelled"}
    /\ \A c \in Calls : invocation[c] = "none"
    /\ retryCount < MaxRetries
    /\ status' = "queued"
    /\ cancelRequested' = FALSE
    /\ retryCount' = retryCount + 1
    /\ UNCHANGED <<checkpoint, approval, lapsed, invocation, answers, effects, memory>>

retry_task ==
    /\ status \in {"failed", "cancelled"}
    /\ \A c \in Calls : invocation[c] = "none"
    /\ retryCount < MaxRetries
    /\ status' = "queued"
    /\ cancelRequested' = FALSE
    /\ retryCount' = retryCount + 1
    /\ start("spawned", NoPlan)
    /\ UNCHANGED <<checkpoint, approval, lapsed, invocation, answers, effects>>

\* The retry handler on a task that is queued already only starts a worker.
retry_queued ==
    /\ status = "queued"
    /\ start("spawned", NoPlan)
    /\ UNCHANGED <<rows, effects>>

\* faulty: the decided calls stay in the checkpoint of the resume
decide_keeps_decided(c, decision) ==
    /\ approval[c] = "pending"
    /\ c \notin lapsed
    /\ approval' = [approval EXCEPT ![c] = decision]
    /\ start("spawned_resume",
             [run |-> {k \in checkpoint : approval'[k] = "approved"},
              refuse |-> {k \in checkpoint : approval'[k] = "rejected"},
              hold |-> checkpoint])
    /\ UNCHANGED <<status, cancelRequested, checkpoint, lapsed, invocation,
                   retryCount, answers, effects>>

\* faulty: nothing resumes before the whole batch is decided
decide_whole_batch(c, decision) ==
    /\ approval[c] = "pending"
    /\ c \notin lapsed
    /\ approval' = [approval EXCEPT ![c] = decision]
    /\ IF \E k \in checkpoint : approval'[k] = "pending"
       THEN UNCHANGED memory
       ELSE start("spawned_resume",
                  [run |-> {k \in checkpoint : approval'[k] = "approved"},
                   refuse |-> {k \in checkpoint : approval'[k] = "rejected"},
                   hold |-> {}])
    /\ UNCHANGED <<status, cancelRequested, checkpoint, lapsed, invocation,
                   retryCount, answers, effects>>

\* Consume one pending card; whatever is decided by now goes to the resume.
decide_approval(c, decision) ==
    /\ approval[c] = "pending"
    /\ c \notin lapsed
    /\ approval' = [approval EXCEPT ![c] = decision]
    /\ LET decided(d) == {k \in checkpoint : approval'[k] = d}
           yes == decided("approved")
           no  == decided("rejected")
       IN  IF yes \cup no = {}
           THEN UNCHANGED memory
           ELSE start("spawned_resume",
                      [run |-> yes, refuse |-> no, hold |-> checkpoint \ (yes \cup no)])
    /\ UNCHANGED <<status, cancelRequested, checkpoint, lapsed, invocation,
                   retryCount, answers, effects>>

\* Ten minutes pass; nothing in the code sweeps the expired card.
expire_approval(c) ==
    /\ approval[c] = "pending"
    /\ lapsed' = lapsed \cup {c}
    /\ UNCHANGED <<status, cancelRequested, checkpoint, approval, invocation,
                   retryCount, answers, effects, memory>>

-----------------------------------------------------------------------------
(* The runner: _run_message and _run_resume up to the runtime call.        *)

\* A cancel that arrives before the coroutine's first step: it never runs.
NeverStarted ==
    /\ pc \in Spawned
    /\ cancelling # "none"
    /\ WorkerGone
    /\ UNCHANGED <<rows, effects>>

ClaimRefused ==
    /\ pc \in Spawned
    /\ cancelling = "none"
    /\ status \notin Claimable
    /\ WorkerGone
    /\ UNCHANGED <<rows, effects>>

\* claim_task succeeds, and the check that follows it returns at once.
ClaimCancelled ==
    /\ pc \in Spawned
    /\ cancelling = "none"
    /\ status \in Claimable
    /\ cancelRequested
    /\ status' = "running"
    /\ WorkerGone
    /\ UNCHANGED <<cancelRequested, checkpoint, approval, lapsed, invocation,
                   retryCount, answers, effects>>

ClaimTask ==
    /\ pc \in Spawned
    /\ cancelling = "none"
    /\ status \in Claimable
    /\ ~cancelRequested
    /\ status' = "running"
    /\ pc' = IF pc = "spawned" THEN "context" ELSE "resume"
    /\ UNCHANGED <<cancelRequested, checkpoint, approval, lapsed, invocation,
                   retryCount, answers, effects, cancelling, plan, current, outcome>>

ContextPrepared ==
    /\ pc = "context"
    /\ cancelling = "none"
    /\ pc' = "begin"
    /\ UNCHANGED <<rows, effects, cancelling, plan, current, outcome>>

ContextFailed ==
    /\ pc = "context"
    /\ cancelling = "none"
    /\ finish_failed
    /\ WorkerGone
    /\ UNCHANGED <<cancelRequested, lapsed, invocation, retryCount, answers, effects>>

-----------------------------------------------------------------------------
(* The runtime task awaited through wait_for.  After worker.cancel() the   *)
(* runner wakes in the next loop iteration, so a runtime that was already  *)
(* scheduled may still take one step: cancelling goes from posted to due.  *)

MayStep   == cancelling # "due"
StepTaken == cancelling' = IF cancelling = "posted" THEN "due" ELSE cancelling

RuntimeEnds(how, held) ==
    /\ pc' = "gap"
    /\ outcome' = how
    /\ plan' = [run |-> {}, refuse |-> {}, hold |-> held]
    /\ current' = NoCall
    /\ cancelling' = "none"

\* What the runtime does with the calls before it next suspends, in an order
\* the model chose: refusals are recorded, the next allowed call is started;
\* with none left it pauses for the held ones or asks the model again; a
\* limit, the deadline or an exception may end the run at any point.
Dispatch(inv, run, refuse, hold) ==
    \/ \E c \in run : \E early \in SUBSET refuse :
          /\ invocation' = [k \in Calls |-> IF k = c THEN "started"
                               ELSE IF k \in early THEN "failed" ELSE inv[k]]
          /\ pc' = "call"
          /\ current' = c
          /\ plan' = [run |-> run \ {c}, refuse |-> refuse \ early, hold |-> hold]
          /\ StepTaken
          /\ UNCHANGED outcome
    \/ /\ run = {}
       /\ invocation' = [k \in Calls |-> IF k \in refuse THEN "failed" ELSE inv[k]]
       /\ IF hold # {}
          THEN RuntimeEnds("waiting", hold)
          ELSE /\ pc' = "model"
               /\ plan' = NoPlan
               /\ current' = NoCall
               /\ StepTaken
               /\ UNCHANGED outcome
    \/ \E early \in SUBSET refuse :
          /\ invocation' = [k \in Calls |-> IF k \in early THEN "failed" ELSE inv[k]]
          /\ RuntimeEnds("failed", {})

RunBegins ==
    /\ pc = "begin" /\ MayStep /\ ~is_task_cancelled
    /\ pc' = "model"
    /\ StepTaken
    /\ UNCHANGED <<rows, effects, plan, current, outcome>>

\* faulty: a decision of any kind runs the call
ResumeRunsDecided ==
    /\ pc = "resume" /\ MayStep /\ ~is_task_cancelled
    /\ Dispatch(invocation, plan.run \cup plan.refuse, {}, plan.hold)
    /\ UNCHANGED <<status, cancelRequested, checkpoint, approval, lapsed,
                   retryCount, answers, effects>>

ResumeBegins ==
    /\ pc = "resume" /\ MayStep /\ ~is_task_cancelled
    /\ Dispatch(invocation, plan.run, plan.refuse, plan.hold)
    /\ UNCHANGED <<status, cancelRequested, checkpoint, approval, lapsed,
                   retryCount, answers, effects>>

ModelAnswers ==
    /\ pc = "model" /\ MayStep /\ ~is_task_cancelled
    /\ RuntimeEnds("completed", {})
    /\ UNCHANGED <<rows, effects>>

ModelFails ==
    /\ pc = "model" /\ MayStep /\ ~is_task_cancelled
    /\ RuntimeEnds("failed", {})
    /\ UNCHANGED <<rows, effects>>

\* faulty: the event sink does not look at the cancel flag
ModelCallsUnchecked ==
    /\ pc = "model" /\ MayStep
    /\ \E batch \in (SUBSET {c \in Calls : approval[c] = "none" /\ invocation[c] = "none"}) \ {{}} :
          Dispatch(invocation, batch \ (AskCalls \cup DenyCalls),
                   batch \cap DenyCalls, batch \cap AskCalls)
    /\ UNCHANGED <<status, cancelRequested, checkpoint, approval, lapsed,
                   retryCount, answers, effects>>

\* Provider call ids are fresh: no row of the task carries one of them yet.
ModelCalls ==
    /\ pc = "model" /\ MayStep /\ ~is_task_cancelled
    /\ \E batch \in (SUBSET {c \in Calls : approval[c] = "none" /\ invocation[c] = "none"}) \ {{}} :
          Dispatch(invocation, batch \ (AskCalls \cup DenyCalls),
                   batch \cap DenyCalls, batch \cap AskCalls)
    /\ UNCHANGED <<status, cancelRequested, checkpoint, approval, lapsed,
                   retryCount, answers, effects>>

ToolSucceeds ==
    /\ pc = "call" /\ MayStep /\ ~is_task_cancelled
    /\ effects' = [effects EXCEPT ![current] = @ + 1]
    /\ Dispatch([invocation EXCEPT ![current] = "completed"],
                plan.run, plan.refuse, plan.hold)
    /\ UNCHANGED <<status, cancelRequested, checkpoint, approval, lapsed,
                   retryCount, answers>>

\* A result with ok = False is recorded; a timeout or exception is not.
ToolFails ==
    /\ pc = "call" /\ MayStep /\ ~is_task_cancelled
    /\ \E seen \in {"started", "failed"} :
          invocation' = [invocation EXCEPT ![current] = seen]
    /\ RuntimeEnds("failed", {})
    /\ UNCHANGED <<status, cancelRequested, checkpoint, approval, lapsed,
                   retryCount, answers, effects>>

\* The next event published finds the cancel in the row: TaskCancelledError
\* leaves the runtime, after the tool if one was about to return.
CancelNoticed ==
    /\ pc \in Inner /\ MayStep /\ is_task_cancelled
    /\ effects' \in {effects} \cup
           IF pc = "call" THEN {[effects EXCEPT ![current] = @ + 1]} ELSE {}
    /\ RuntimeEnds("raised", {})
    /\ UNCHANGED rows

\* wait_for's timer cancels the runtime task, which answers with CANCELLED.
RunTimesOut ==
    /\ pc \in {"model", "call"}
    /\ cancelling = "none"
    /\ RuntimeEnds(IF is_task_cancelled THEN "raised" ELSE "failed", {})
    /\ UNCHANGED <<rows, effects>>

\* The runner wakes with CancelledError and cancels the runtime task.
CancelThrown ==
    /\ pc \in Inner
    /\ cancelling # "none"
    /\ pc' = "unwind"
    /\ plan' = NoPlan
    /\ current' = NoCall
    /\ UNCHANGED <<rows, effects, cancelling, outcome>>

-----------------------------------------------------------------------------
(* The runner after the runtime call: _finish_result and the handlers.     *)

FinishCompleted ==
    /\ pc = "gap" /\ outcome = "completed"
    /\ complete_task_with_message
    /\ WorkerGone
    /\ UNCHANGED <<cancelRequested, approval, lapsed, invocation, retryCount, effects>>

FinishWaiting ==
    /\ pc = "gap" /\ outcome = "waiting"
    /\ save_checkpoint(plan.hold)
    /\ create_approvals(plan.hold)
    /\ WorkerGone
    /\ UNCHANGED <<cancelRequested, lapsed, invocation, retryCount, answers, effects>>

FinishFailed ==
    /\ pc = "gap" /\ outcome = "failed"
    /\ finish_failed
    /\ WorkerGone
    /\ UNCHANGED <<cancelRequested, lapsed, invocation, retryCount, answers, effects>>

\* except TaskCancelledError: _cancel_if_needed
FinishRaised ==
    /\ pc = "gap" /\ outcome = "raised"
    /\ IF is_task_cancelled
       THEN UNCHANGED <<status, cancelRequested, checkpoint, approval>>
       ELSE cancel_task
    /\ WorkerGone
    /\ UNCHANGED <<lapsed, invocation, retryCount, answers, effects>>

\* except asyncio.CancelledError
FinishCancelled ==
    /\ pc = "unwind" \/ (pc = "context" /\ cancelling # "none")
    /\ IF is_task_cancelled
       THEN UNCHANGED <<status, checkpoint, approval>>
       ELSE finish_failed
    /\ WorkerGone
    /\ UNCHANGED <<cancelRequested, lapsed, invocation, retryCount, answers, effects>>

-----------------------------------------------------------------------------
(* Crashes.  The process dies and comes back: recover_pending starts a     *)
(* worker for queued work and fails work that was running.                 *)

recover_pending ==
    /\ cancelling' = "none"
    /\ plan' = NoPlan
    /\ current' = NoCall
    /\ outcome' = "none"
    /\ IF status = "queued"
       THEN pc' = "spawned" /\ UNCHANGED <<status, checkpoint, approval>>
       ELSE /\ pc' = "idle"
            /\ IF status = "running" THEN finish_failed
                                     ELSE UNCHANGED <<status, checkpoint, approval>>

Restart ==
    /\ recover_pending
    /\ UNCHANGED <<cancelRequested, lapsed, invocation, retryCount, answers, effects>>

\* The crash hits after the tool's own commit and before TOOL_COMPLETED.
RestartAfterEffect ==
    /\ pc = "call" /\ MayStep
    /\ effects' = [effects EXCEPT ![current] = @ + 1]
    /\ recover_pending
    /\ UNCHANGED <<cancelRequested, lapsed, invocation, retryCount, answers>>

\* The crash hits between the two commits of pause_task; recovery looks at
\* queued and running tasks only.
RestartAfterCheckpoint ==
    /\ pc = "gap" /\ outcome = "waiting"
    /\ save_checkpoint(plan.hold)
    /\ WorkerGone
    /\ UNCHANGED <<cancelRequested, approval, lapsed, invocation, retryCount,
                   answers, effects>>

-----------------------------------------------------------------------------
Users ==
    \/ create_assistant_task
    \/ cancel_assistant_task
    \/ retry_task
    \/ retry_queued
    \/ \E c \in Calls, d \in {"approved", "rejected"} : decide_approval(c, d)

Clock == \E c \in Calls : expire_approval(c)

Worker ==
    \/ NeverStarted \/ ClaimRefused \/ ClaimCancelled \/ ClaimTask
    \/ ContextPrepared \/ ContextFailed
    \/ RunBegins \/ ResumeBegins
    \/ ModelAnswers \/ ModelFails \/ ModelCalls
    \/ ToolSucceeds \/ ToolFails
    \/ CancelNoticed \/ RunTimesOut \/ CancelThrown
    \/ FinishCompleted \/ FinishWaiting \/ FinishFailed \/ FinishRaised
    \/ FinishCancelled

Crash == Restart \/ RestartAfterEffect \/ RestartAfterCheckpoint

Next == Users \/ Clock \/ Worker \/ Crash

Spec == Init /\ [][Next]_vars

-----------------------------------------------------------------------------
(* Safety.                                                                 *)

\* The policy lets call c run: it is allowed, or a user approved its card.
Permitted(c) == c \notin DenyCalls /\ (c \in AskCalls => approval[c] = "approved")

\* A tool the policy asks about runs only after its card was approved, a
\* denied tool never runs, and no call runs twice - whatever the interleaving
\* of resumed workers, second cards, cancels and restarts (task_runner._start,
\* repository.decide_approval, runtime.resume).
EffectsPermittedOnce ==
    \A c \in Calls : /\ effects[c] <= 1
                     /\ effects[c] > 0 => Permitted(c)

\* A task whose tools have had an effect is never queued again: the invocation
\* row is committed before the tool runs, and retry_task refuses once it exists.
NoReplayAfterEffect ==
    (\E c \in Calls : effects[c] > 0) => status # "queued"

\* A running task that nobody asked to cancel has a worker: claims, failures
\* and the recovery pass never leave one behind.
RunningHasWorker ==
    status = "running" /\ ~cancelRequested => pc \in Active

\* A paused task has a checkpoint to resume from.
PausedHasCheckpoint ==
    status = "awaiting_approval" => checkpoint # {}

\* A finished task leaves no actionable card and no checkpoint behind.
EndedIsInert ==
    status \in Terminal => /\ checkpoint = {}
                           /\ \A c \in Calls : approval[c] # "pending"

\* The final answer is written exactly when the task completes, once, and
\* never for a task with a standing cancel request.
AnsweredOnce ==
    /\ answers <= 1
    /\ (answers = 1) <=> (status = "completed")
    /\ status = "completed" => ~cancelRequested

(* What a step may never do.                                               *)

\* Once a cancel is committed no tool call starts until a retry clears it.
CancelStopsTools ==
    [][cancelRequested =>
         \A c \in Calls : invocation[c] = "none" => invocation'[c] # "started"]_vars

(* Liveness.                                                               *)

\* A queued task is picked up or ended.
QueuedIsTaken == status = "queued" ~> status # "queued"

\* A decided card takes effect: the decided call leaves the checkpoint, being
\* run, refused, or dropped because the task ended.
DecisionTakesEffect ==
    \A c \in Calls :
        (c \in checkpoint /\ approval[c] \in {"approved", "rejected"})
            ~> (c \notin checkpoint)

-----------------------------------------------------------------------------
(* Refinement.                                                             *)

Ledger == INSTANCE ToolLedger WITH card <- approval, row <- invocation

\* Call by call, cards, invocation rows and tools follow the ledger: asked,
\* decided for good, started, run once - through any order of approvals,
\* resumes, cancels, retries and crashes (create_approvals, decide_approval,
\* record_tool_started, record_tool_completed).
KeepsLedger == Ledger!Spec

-----------------------------------------------------------------------------
(* The inductive invariant of the proofs in AssistantTaskProofs.           *)

\* Calls in the hands of the runtime are untouched, disjoint and permitted.
PlanSound ==
    /\ pc \in {"spawned_resume", "resume", "call"} =>
         /\ \A c \in plan.run : invocation[c] = "none" /\ Permitted(c)
         /\ \A c \in plan.refuse :
                invocation[c] = "none" /\ (c \in DenyCalls \/ approval[c] = "rejected")
         /\ plan.run \cap plan.refuse = {}
    /\ pc \in {"spawned_resume", "resume", "call", "gap"} =>
         /\ \A c \in plan.hold : invocation[c] = "none" /\ c \in AskCalls
         /\ plan.hold \cap (plan.run \cup plan.refuse) = {}
    /\ pc = "gap" /\ outcome = "waiting" => plan.hold # {}

\* The call being executed has its row, its permission and no effect yet.
CallSound ==
    pc = "call" =>
        /\ current \in Calls
        /\ invocation[current] = "started"
        /\ effects[current] = 0
        /\ Permitted(current)
        /\ current \notin plan.run \cup plan.hold

\* No tool runs without a row written before it.
RowBeforeEffect ==
    \A c \in Calls : invocation[c] = "none" => effects[c] = 0

\* Before the task exists no tool has been started for it.
NothingBefore ==
    status = "none" => /\ pc = "idle"
                       /\ \A c \in Calls : invocation[c] = "none"

\* While no worker has claimed the task, its checkpoint is untouched.
CheckpointSound ==
    \A c \in checkpoint :
        /\ c \in AskCalls
        /\ pc \notin Active => invocation[c] = "none"

\* Only running and paused tasks have a checkpoint, paused ones always.
CheckpointStatus ==
    /\ status \in Terminal \cup {"none", "queued"} => checkpoint = {}
    /\ status = "awaiting_approval" => checkpoint # {}

\* A claimed task is running unless a cancel, or a cancel and a retry, came
\* in; the cancel then still has to reach the worker, and a tool call begun
\* meanwhile will not be finished.
ClaimSound ==
    /\ pc = "spawned" /\ cancelling = "none" => status = "queued"
    /\ pc = "spawned_resume" /\ cancelling = "none"
          => status \in {"awaiting_approval", "running"}
    /\ pc \in Active => /\ status \in {"running", "cancelled", "queued"}
                        /\ status = "running" => ~cancelRequested
    /\ pc \in Inner \cup {"context"} /\ status \in {"cancelled", "queued"}
          => cancelling # "none"
    /\ pc = "call" /\ status = "queued" => cancelling = "due"

\* Cards to decide belong to the checkpoint, and to what a resume holds back.
CardsSound ==
    \A c \in Calls : approval[c] = "pending" =>
        /\ c \in checkpoint
        /\ invocation[c] = "none"
        /\ pc \in {"spawned_resume", "resume", "call"} => c \in plan.hold
        /\ pc = "gap" /\ outcome = "waiting" => c \in plan.hold
        /\ pc \notin {"context", "begin", "model"}
        /\ ~(pc = "gap" /\ outcome = "completed")

IInv ==
    /\ TypeOK
    /\ PlanSound
    /\ CallSound
    /\ RowBeforeEffect
    /\ NothingBefore
    /\ CheckpointSound
    /\ CheckpointStatus
    /\ ClaimSound
    /\ CardsSound
    /\ EffectsPermittedOnce
    /\ NoReplayAfterEffect
    /\ RunningHasWorker
    /\ EndedIsInert
    /\ AnsweredOnce
=============================================================================
