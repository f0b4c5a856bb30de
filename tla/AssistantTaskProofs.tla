------------------------- MODULE AssistantTaskProofs -------------------------
(***************************************************************************)
(* Theorems about AssistantTask, for every set of calls, every policy and  *)
(* every retry bound.  The safety invariants are not inductive: that an    *)
(* effect happens once rests on the calls of a saved checkpoint having no  *)
(* invocation row while no worker runs, which in turn rests on a worker    *)
(* never ending on a running task without clearing or replacing its        *)
(* checkpoint.  IInv, at the end of AssistantTask, says so.                *)
(***************************************************************************)
EXTENDS AssistantTask, TLAPS

-----------------------------------------------------------------------------

USE CallsAssumption
USE DEF Terminal, Claimable, Spawned, Inner, Active

LEMMA PlanType ==
    ASSUME NEW run \in SUBSET Calls, NEW refuse \in SUBSET Calls, NEW hold \in SUBSET Calls
    PROVE  [run |-> run, refuse |-> refuse, hold |-> hold]
               \in [run : SUBSET Calls, refuse : SUBSET Calls, hold : SUBSET Calls]
OBVIOUS

LEMMA NoPlanType == NoPlan \in [run : SUBSET Calls, refuse : SUBSET Calls, hold : SUBSET Calls]
BY DEF NoPlan

LEMMA CountType ==
    ASSUME NEW f \in [Calls -> Nat], NEW c
    PROVE  [f EXCEPT ![c] = @ + 1] \in [Calls -> Nat]
<1>1. CASE c \in Calls
  <2>1. f[c] + 1 \in Nat
    BY <1>1
  <2> QED
    BY <2>1
<1>2. CASE c \notin Calls
  BY <1>2
<1> QED
  BY <1>1, <1>2

LEMMA StartType ==
    ASSUME TypeOK, NEW where \in {"spawned", "spawned_resume"},
           NEW what \in [run : SUBSET Calls, refuse : SUBSET Calls, hold : SUBSET Calls],
           start(where, what)
    PROVE  /\ pc' \in Active \cup Spawned \cup {"idle"}
           /\ cancelling' \in {"none", "posted", "due"}
           /\ plan' \in [run : SUBSET Calls, refuse : SUBSET Calls, hold : SUBSET Calls]
           /\ current' \in Calls \cup {NoCall}
           /\ outcome' \in {"none", "completed", "waiting", "failed", "raised"}
BY DEF TypeOK, start, memory

LEMMA TypeInit == Init => TypeOK
<1> SUFFICES ASSUME Init PROVE TypeOK
  OBVIOUS
<1>1. cancelRequested \in BOOLEAN
  BY DEF Init
<1>2. plan \in [run : SUBSET Calls, refuse : SUBSET Calls, hold : SUBSET Calls]
  BY NoPlanType DEF Init
<1>3. /\ approval \in [Calls -> {"none", "pending", "approved", "rejected", "cancelled"}]
      /\ invocation \in [Calls -> {"none", "started", "completed", "failed"}]
      /\ effects \in [Calls -> Nat]
  BY DEF Init
<1> QED
  BY <1>1, <1>2, <1>3 DEF Init, TypeOK

\* What Dispatch leaves behind, whatever the calls it is given.
LEMMA DispatchType ==
    ASSUME TypeOK,
           NEW inv \in [Calls -> {"none", "started", "completed", "failed"}],
           NEW run \in SUBSET Calls, NEW refuse \in SUBSET Calls, NEW hold \in SUBSET Calls,
           Dispatch(inv, run, refuse, hold)
    PROVE  /\ invocation' \in [Calls -> {"none", "started", "completed", "failed"}]
           /\ pc' \in {"call", "model", "gap"}
           /\ cancelling' \in {"none", "posted", "due"}
           /\ plan' \in [run : SUBSET Calls, refuse : SUBSET Calls, hold : SUBSET Calls]
           /\ current' \in Calls \cup {NoCall}
           /\ outcome' \in {"none", "completed", "waiting", "failed", "raised"}
<1>1. ASSUME NEW c \in run, NEW early \in SUBSET refuse,
             invocation' = [k \in Calls |-> IF k = c THEN "started"
                                ELSE IF k \in early THEN "failed" ELSE inv[k]],
             plan' = [run |-> run \ {c}, refuse |-> refuse \ early, hold |-> hold]
      PROVE  /\ invocation' \in [Calls -> {"none", "started", "completed", "failed"}]
             /\ plan' \in [run : SUBSET Calls, refuse : SUBSET Calls, hold : SUBSET Calls]
  <2>1. plan' \in [run : SUBSET Calls, refuse : SUBSET Calls, hold : SUBSET Calls]
    BY <1>1, PlanType
  <2> QED
    BY <1>1, <2>1
<1>2. CASE \E c \in run : \E early \in SUBSET refuse :
             /\ invocation' = [k \in Calls |-> IF k = c THEN "started"
                                  ELSE IF k \in early THEN "failed" ELSE inv[k]]
             /\ pc' = "call"
             /\ current' = c
             /\ plan' = [run |-> run \ {c}, refuse |-> refuse \ early, hold |-> hold]
             /\ StepTaken
             /\ UNCHANGED outcome
  BY <1>1, <1>2 DEF StepTaken, TypeOK
<1>3. CASE /\ run = {}
           /\ invocation' = [k \in Calls |-> IF k \in refuse THEN "failed" ELSE inv[k]]
           /\ IF hold # {}
              THEN RuntimeEnds("waiting", hold)
              ELSE /\ pc' = "model"
                   /\ plan' = NoPlan
                   /\ current' = NoCall
                   /\ StepTaken
                   /\ UNCHANGED outcome
  <2>1. plan' \in [run : SUBSET Calls, refuse : SUBSET Calls, hold : SUBSET Calls]
    BY <1>3, PlanType, NoPlanType DEF RuntimeEnds
  <2> QED
    BY <1>3, <2>1 DEF RuntimeEnds, StepTaken, TypeOK
<1>4. CASE \E early \in SUBSET refuse :
             /\ invocation' = [k \in Calls |-> IF k \in early THEN "failed" ELSE inv[k]]
             /\ RuntimeEnds("failed", {})
  <2>1. plan' \in [run : SUBSET Calls, refuse : SUBSET Calls, hold : SUBSET Calls]
    BY <1>4, PlanType DEF RuntimeEnds
  <2> QED
    BY <1>4, <2>1 DEF RuntimeEnds
<1> QED
  BY <1>2, <1>3, <1>4 DEF Dispatch

LEMMA UsersType == TypeOK /\ Users => TypeOK'
<1> SUFFICES ASSUME TypeOK, Users PROVE TypeOK'
  OBVIOUS
<1>1. CASE create_assistant_task
  BY <1>1, NoPlanType, StartType DEF TypeOK, create_assistant_task
<1>2. CASE cancel_assistant_task
  <2>1. approval' \in [Calls -> {"none", "pending", "approved", "rejected", "cancelled"}]
    BY <1>2 DEF TypeOK, cancel_assistant_task, cancel_task, Withdrawn
  <2>2. /\ status' \in {status, "cancelled"} /\ checkpoint' \in {checkpoint, {}}
        /\ cancelling' \in {cancelling, "posted"}
    BY <1>2 DEF cancel_assistant_task, cancel_task
  <2>3. cancelRequested' \in BOOLEAN
    BY <1>2 DEF TypeOK, cancel_assistant_task, cancel_task
  <2> QED
    BY <1>2, <2>1, <2>2, <2>3 DEF TypeOK, cancel_assistant_task
<1>3. CASE retry_task
  <2>1. retryCount' \in 0..MaxRetries
    BY <1>3 DEF TypeOK, retry_task
  <2> QED
    BY <1>3, <2>1, NoPlanType, StartType DEF TypeOK, retry_task
<1>4. CASE retry_queued
  BY <1>4, NoPlanType, StartType DEF TypeOK, retry_queued, rows
<1>5. ASSUME NEW c \in Calls, NEW d \in {"approved", "rejected"}, decide_approval(c, d)
      PROVE  TypeOK'
  <2> DEFINE yes == {k \in checkpoint : approval'[k] = "approved"}
             no  == {k \in checkpoint : approval'[k] = "rejected"}
             what == [run |-> yes, refuse |-> no, hold |-> checkpoint \ (yes \cup no)]
  <2>1. what \in [run : SUBSET Calls, refuse : SUBSET Calls, hold : SUBSET Calls]
    BY PlanType DEF TypeOK
  <2>2. UNCHANGED memory \/ start("spawned_resume", what)
    BY <1>5 DEF decide_approval
  <2>3. approval' \in [Calls -> {"none", "pending", "approved", "rejected", "cancelled"}]
    BY <1>5 DEF decide_approval, TypeOK
  <2> HIDE DEF what
  <2>4. CASE UNCHANGED memory
    BY <1>5, <2>3, <2>4 DEF TypeOK, decide_approval, memory
  <2>5. CASE start("spawned_resume", what)
    BY <1>5, <2>1, <2>3, <2>5, StartType DEF TypeOK, decide_approval
  <2> QED
    BY <2>2, <2>4, <2>5
<1> QED
  BY <1>1, <1>2, <1>3, <1>4, <1>5 DEF Users

LEMMA WorkerGoneType ==
    ASSUME WorkerGone
    PROVE  /\ pc' = "idle"
           /\ cancelling' = "none"
           /\ plan' \in [run : SUBSET Calls, refuse : SUBSET Calls, hold : SUBSET Calls]
           /\ current' \in Calls \cup {NoCall}
           /\ outcome' = "none"
BY NoPlanType DEF WorkerGone

LEMMA RuntimeEndsType ==
    ASSUME NEW how \in {"completed", "waiting", "failed", "raised"},
           NEW held \in SUBSET Calls, RuntimeEnds(how, held)
    PROVE  /\ pc' = "gap"
           /\ cancelling' = "none"
           /\ plan' \in [run : SUBSET Calls, refuse : SUBSET Calls, hold : SUBSET Calls]
           /\ current' \in Calls \cup {NoCall}
           /\ outcome' = how
BY PlanType DEF RuntimeEnds

LEMMA WorkerType == TypeOK /\ Worker => TypeOK'
<1> SUFFICES ASSUME TypeOK, Worker PROVE TypeOK'
  OBVIOUS
<1>1. CASE NeverStarted
  BY <1>1, WorkerGoneType DEF TypeOK, rows, NeverStarted
<1>2. CASE ClaimRefused
  BY <1>2, WorkerGoneType DEF TypeOK, rows, ClaimRefused
<1>3. CASE ClaimCancelled
  BY <1>3, WorkerGoneType DEF TypeOK, rows, ClaimCancelled
<1>4. CASE ClaimTask
  BY <1>4 DEF TypeOK, rows, ClaimTask
<1>5. CASE ContextPrepared
  BY <1>5 DEF TypeOK, rows, ContextPrepared
<1>6. CASE ContextFailed
  BY <1>6, WorkerGoneType DEF TypeOK, rows, ContextFailed, finish_failed, Withdrawn
<1>7. CASE RunBegins
  BY <1>7 DEF TypeOK, rows, RunBegins, StepTaken
<1>8. CASE ModelAnswers
  BY <1>8, RuntimeEndsType DEF TypeOK, rows, ModelAnswers
<1>9. CASE ModelFails
  BY <1>9, RuntimeEndsType DEF TypeOK, rows, ModelFails
<1>10. CASE CancelNoticed
  BY <1>10, RuntimeEndsType DEF TypeOK, rows, CancelNoticed
<1>11. CASE RunTimesOut
  BY <1>11, RuntimeEndsType DEF TypeOK, rows, RunTimesOut
<1>12. CASE CancelThrown
  BY <1>12, NoPlanType DEF TypeOK, rows, CancelThrown
<1>13. CASE ToolFails
  <2>1. invocation' \in [Calls -> {"none", "started", "completed", "failed"}]
    BY <1>13 DEF TypeOK, ToolFails
  <2>2. RuntimeEnds("failed", {})
    BY <1>13 DEF ToolFails
  <2> QED
    BY <1>13, <2>1, <2>2, RuntimeEndsType DEF TypeOK, ToolFails
<1>14. CASE FinishCompleted
  BY <1>14, WorkerGoneType DEF TypeOK, rows, FinishCompleted, complete_task_with_message
<1>15. CASE FinishWaiting
  BY <1>15, WorkerGoneType DEF TypeOK, rows, FinishWaiting, save_checkpoint, create_approvals
<1>16. CASE FinishFailed
  BY <1>16, WorkerGoneType DEF TypeOK, rows, FinishFailed, finish_failed, Withdrawn
<1>17. CASE FinishRaised
  BY <1>17, WorkerGoneType DEF TypeOK, rows, FinishRaised, cancel_task, Withdrawn
<1>18. CASE FinishCancelled
  BY <1>18, WorkerGoneType DEF TypeOK, rows, FinishCancelled, finish_failed, Withdrawn
<1>19. CASE ResumeBegins
  <2>1. Dispatch(invocation, plan.run, plan.refuse, plan.hold)
    BY <1>19 DEF ResumeBegins
  <2>2. /\ invocation \in [Calls -> {"none", "started", "completed", "failed"}]
        /\ plan.run \in SUBSET Calls /\ plan.refuse \in SUBSET Calls /\ plan.hold \in SUBSET Calls
    BY DEF TypeOK
  <2> QED
    BY <1>19, <2>1, <2>2, DispatchType DEF TypeOK, ResumeBegins
<1>20. CASE ModelCalls
  <2>1. PICK batch \in SUBSET Calls : Dispatch(invocation, batch \ (AskCalls \cup DenyCalls),
                                               batch \cap DenyCalls, batch \cap AskCalls)
    BY <1>20 DEF ModelCalls
  <2>2. invocation \in [Calls -> {"none", "started", "completed", "failed"}]
    BY DEF TypeOK
  <2>3. /\ batch \ (AskCalls \cup DenyCalls) \in SUBSET Calls
        /\ batch \cap DenyCalls \in SUBSET Calls /\ batch \cap AskCalls \in SUBSET Calls
    OBVIOUS
  <2>4. /\ invocation' \in [Calls -> {"none", "started", "completed", "failed"}]
        /\ pc' \in {"call", "model", "gap"}
        /\ cancelling' \in {"none", "posted", "due"}
        /\ plan' \in [run : SUBSET Calls, refuse : SUBSET Calls, hold : SUBSET Calls]
        /\ current' \in Calls \cup {NoCall}
        /\ outcome' \in {"none", "completed", "waiting", "failed", "raised"}
    BY <2>1, <2>2, <2>3, DispatchType
  <2> QED
    BY <1>20, <2>4 DEF TypeOK, ModelCalls
<1>21. CASE ToolSucceeds
  <2>1. Dispatch([invocation EXCEPT ![current] = "completed"], plan.run, plan.refuse, plan.hold)
    BY <1>21 DEF ToolSucceeds
  <2>2. /\ [invocation EXCEPT ![current] = "completed"]
              \in [Calls -> {"none", "started", "completed", "failed"}]
        /\ plan.run \in SUBSET Calls /\ plan.refuse \in SUBSET Calls /\ plan.hold \in SUBSET Calls
    BY DEF TypeOK
  <2>3. effects' \in [Calls -> Nat]
    BY <1>21, CountType DEF TypeOK, ToolSucceeds
  <2>4. /\ invocation' \in [Calls -> {"none", "started", "completed", "failed"}]
        /\ pc' \in {"call", "model", "gap"}
        /\ cancelling' \in {"none", "posted", "due"}
        /\ plan' \in [run : SUBSET Calls, refuse : SUBSET Calls, hold : SUBSET Calls]
        /\ current' \in Calls \cup {NoCall}
        /\ outcome' \in {"none", "completed", "waiting", "failed", "raised"}
    BY <2>1, <2>2, DispatchType
  <2> QED
    BY <1>21, <2>3, <2>4 DEF TypeOK, ToolSucceeds
<1> QED
  BY <1>1, <1>2, <1>3, <1>4, <1>5, <1>6, <1>7, <1>8, <1>9, <1>10, <1>11, <1>12, <1>13, <1>14, <1>15, <1>16, <1>17, <1>18, <1>19, <1>20, <1>21 DEF Worker

LEMMA CrashType == TypeOK /\ Crash => TypeOK'
<1> SUFFICES ASSUME TypeOK, Crash PROVE TypeOK'
  OBVIOUS
<1>1. ASSUME recover_pending
      PROVE  /\ status' \in Terminal \cup Claimable \cup {"none", "running"}
             /\ checkpoint' \subseteq Calls
             /\ approval' \in [Calls -> {"none", "pending", "approved", "rejected", "cancelled"}]
             /\ pc' \in {"idle", "spawned"}
             /\ cancelling' = "none"
             /\ plan' \in [run : SUBSET Calls, refuse : SUBSET Calls, hold : SUBSET Calls]
             /\ current' = NoCall
             /\ outcome' = "none"
  BY <1>1, NoPlanType DEF TypeOK, recover_pending, finish_failed, Withdrawn
<1>2. CASE Restart
  BY <1>1, <1>2 DEF TypeOK, Restart
<1>3. CASE RestartAfterEffect
  <2>1. effects' \in [Calls -> Nat]
    BY <1>3, CountType DEF TypeOK, RestartAfterEffect
  <2> QED
    BY <1>1, <1>3, <2>1 DEF TypeOK, RestartAfterEffect
<1>4. CASE RestartAfterCheckpoint
  BY <1>4, WorkerGoneType DEF TypeOK, RestartAfterCheckpoint, save_checkpoint
<1> QED
  BY <1>2, <1>3, <1>4 DEF Crash

LEMMA TypeStep == TypeOK /\ [Next]_vars => TypeOK'
<1> SUFFICES ASSUME TypeOK, [Next]_vars PROVE TypeOK'
  OBVIOUS
<1>1. CASE Clock
  BY <1>1 DEF TypeOK, Clock, expire_approval, memory
<1>2. CASE UNCHANGED vars
  BY <1>2 DEF TypeOK, vars, rows, memory
<1> QED
  BY <1>1, <1>2, UsersType, WorkerType, CrashType DEF Next

\* Every reachable state is well typed, for every set of calls and policy.
THEOREM TypeCorrect == Spec => []TypeOK
  BY TypeInit, TypeStep, PTL DEF Spec

-----------------------------------------------------------------------------
(* The inductive step: one lemma for each action.  The parts of the         *)
(* invariant are unfolded throughout.                                      *)

LEMMA InitIInv == Init => IInv
<1> SUFFICES ASSUME Init PROVE IInv
  OBVIOUS
<1>1. TypeOK
  BY TypeInit
<1>2. /\ PlanSound /\ CallSound /\ NothingBefore /\ CheckpointSound /\ CheckpointStatus /\ ClaimSound
      /\ CardsSound /\ NoReplayAfterEffect /\ RunningHasWorker /\ EndedIsInert /\ AnsweredOnce
  BY DEF Init, PlanSound, CallSound, NothingBefore, CheckpointSound, CheckpointStatus, ClaimSound, CardsSound,
         NoReplayAfterEffect, RunningHasWorker, EndedIsInert, AnsweredOnce, NoPlan
<1>3. RowBeforeEffect /\ EffectsPermittedOnce
  BY DEF Init, RowBeforeEffect, EffectsPermittedOnce
<1> QED
  BY <1>1, <1>2, <1>3 DEF IInv

USE DEF IInv, TypeOK, PlanSound, CallSound, RowBeforeEffect, NothingBefore, CheckpointSound,
        CheckpointStatus, ClaimSound, CardsSound, EffectsPermittedOnce, Permitted,
        NoReplayAfterEffect, RunningHasWorker, EndedIsInert, AnsweredOnce

\* The four ways Dispatch can leave the runtime: a call started, the model asked
\* again, the run paused for held calls, the run failed.
CallStarted(run, refuse, hold) ==
    /\ pc' = "call" /\ StepTaken
    /\ current' \in run /\ invocation'[current'] = "started"
    /\ plan'.run = run \ {current'} /\ plan'.refuse \subseteq refuse /\ plan'.hold = hold
    /\ \A c \in plan'.run \cup plan'.refuse \cup plan'.hold : invocation'[c] = "none"

ModelAsked(run, hold) ==
    /\ pc' = "model" /\ StepTaken
    /\ run = {} /\ hold = {}

RunPaused(hold) ==
    /\ pc' = "gap" /\ cancelling' = "none" /\ outcome' = "waiting"
    /\ plan'.run = {} /\ plan'.refuse = {} /\ plan'.hold = hold /\ hold # {}
    /\ \A c \in hold : invocation'[c] = "none"

RunFailed ==
    /\ pc' = "gap" /\ cancelling' = "none" /\ outcome' = "failed"
    /\ plan'.hold = {}

\* Dispatch touches the rows of the calls it is given, and no other.
LEMMA DispatchKeeps ==
    ASSUME NEW inv, NEW run, NEW refuse, NEW hold, Dispatch(inv, run, refuse, hold),
           NEW c \in Calls
    PROVE  \/ invocation'[c] = inv[c]
           \/ c \in run /\ invocation'[c] = "started"
           \/ c \in refuse /\ invocation'[c] = "failed"
BY DEF Dispatch

LEMMA DispatchSound ==
    ASSUME NEW inv \in [Calls -> {"none", "started", "completed", "failed"}],
           NEW run \in SUBSET Calls, NEW refuse \in SUBSET Calls, NEW hold \in SUBSET Calls,
           \A c \in run \cup refuse \cup hold : inv[c] = "none",
           run \cap refuse = {},
           hold \cap (run \cup refuse) = {},
           Dispatch(inv, run, refuse, hold)
    PROVE  /\ \A c \in Calls : invocation'[c] = "none" => inv[c] = "none"
           /\ \/ CallStarted(run, refuse, hold) \/ ModelAsked(run, hold)
              \/ RunPaused(hold) \/ RunFailed
<1> USE DEF CallStarted, ModelAsked, RunPaused, RunFailed
<1>1. CASE \E c \in run : \E early \in SUBSET refuse :
             /\ invocation' = [k \in Calls |-> IF k = c THEN "started"
                                  ELSE IF k \in early THEN "failed" ELSE inv[k]]
             /\ pc' = "call"
             /\ current' = c
             /\ plan' = [run |-> run \ {c}, refuse |-> refuse \ early, hold |-> hold]
             /\ StepTaken
             /\ UNCHANGED outcome
  BY <1>1
<1>2. CASE /\ run = {}
           /\ invocation' = [k \in Calls |-> IF k \in refuse THEN "failed" ELSE inv[k]]
           /\ IF hold # {}
              THEN RuntimeEnds("waiting", hold)
              ELSE /\ pc' = "model"
                   /\ plan' = NoPlan
                   /\ current' = NoCall
                   /\ StepTaken
                   /\ UNCHANGED outcome
  BY <1>2 DEF RuntimeEnds
<1>3. CASE \E early \in SUBSET refuse :
             /\ invocation' = [k \in Calls |-> IF k \in early THEN "failed" ELSE inv[k]]
             /\ RuntimeEnds("failed", {})
  BY <1>3 DEF RuntimeEnds
<1> QED
  BY <1>1, <1>2, <1>3 DEF Dispatch

LEMMA CreateAssistantTaskStep == ASSUME IInv, TypeOK', create_assistant_task PROVE IInv'
  BY DEF create_assistant_task, start, memory, NoPlan

LEMMA CancelAssistantTaskStep == ASSUME IInv, TypeOK', cancel_assistant_task PROVE IInv'
  BY DEF cancel_assistant_task, cancel_task, Withdrawn

LEMMA RetryTaskStep == ASSUME IInv, TypeOK', retry_task PROVE IInv'
  BY DEF retry_task, start, memory, NoPlan

LEMMA RetryQueuedStep == ASSUME IInv, TypeOK', retry_queued PROVE IInv'
  BY DEF retry_queued, start, memory, rows, NoPlan

LEMMA DecideApprovalStep == ASSUME IInv, TypeOK', NEW c \in Calls, NEW d \in {"approved", "rejected"}, decide_approval(c, d) PROVE IInv'
  BY DEF decide_approval, start, memory

LEMMA ExpireApprovalStep == ASSUME IInv, TypeOK', NEW c \in Calls, expire_approval(c) PROVE IInv'
  BY DEF expire_approval, memory

LEMMA NeverStartedStep == ASSUME IInv, TypeOK', NeverStarted PROVE IInv'
  BY DEF NeverStarted, rows, WorkerGone, NoPlan

LEMMA ClaimRefusedStep == ASSUME IInv, TypeOK', ClaimRefused PROVE IInv'
  BY DEF ClaimRefused, rows, WorkerGone, NoPlan

LEMMA ClaimCancelledStep == ASSUME IInv, TypeOK', ClaimCancelled PROVE IInv'
  BY DEF ClaimCancelled, rows, WorkerGone, NoPlan

LEMMA ClaimTaskStep == ASSUME IInv, TypeOK', ClaimTask PROVE IInv'
  BY DEF ClaimTask

LEMMA ContextPreparedStep == ASSUME IInv, TypeOK', ContextPrepared PROVE IInv'
  BY DEF ContextPrepared, rows

LEMMA ContextFailedStep == ASSUME IInv, TypeOK', ContextFailed PROVE IInv'
  BY DEF ContextFailed, rows, WorkerGone, NoPlan, finish_failed, Withdrawn

LEMMA RunBeginsStep == ASSUME IInv, TypeOK', RunBegins PROVE IInv'
  BY DEF RunBegins, rows, StepTaken, MayStep, is_task_cancelled

LEMMA ModelAnswersStep == ASSUME IInv, TypeOK', ModelAnswers PROVE IInv'
  BY DEF ModelAnswers, rows, RuntimeEnds, is_task_cancelled

LEMMA ModelFailsStep == ASSUME IInv, TypeOK', ModelFails PROVE IInv'
  BY DEF ModelFails, rows, RuntimeEnds

LEMMA ToolFailsStep == ASSUME IInv, TypeOK', ToolFails PROVE IInv'
  BY DEF ToolFails, RuntimeEnds

LEMMA CancelNoticedStep == ASSUME IInv, TypeOK', CancelNoticed PROVE IInv'
  BY DEF CancelNoticed, rows, RuntimeEnds, MayStep, is_task_cancelled

LEMMA RunTimesOutStep == ASSUME IInv, TypeOK', RunTimesOut PROVE IInv'
  BY DEF RunTimesOut, rows, RuntimeEnds

LEMMA CancelThrownStep == ASSUME IInv, TypeOK', CancelThrown PROVE IInv'
  BY DEF CancelThrown, rows, NoPlan

LEMMA FinishCompletedStep == ASSUME IInv, TypeOK', FinishCompleted PROVE IInv'
  BY DEF FinishCompleted, rows, WorkerGone, NoPlan, complete_task_with_message

LEMMA FinishWaitingStep == ASSUME IInv, TypeOK', FinishWaiting PROVE IInv'
  BY DEF FinishWaiting, rows, WorkerGone, NoPlan, save_checkpoint, create_approvals

LEMMA FinishFailedStep == ASSUME IInv, TypeOK', FinishFailed PROVE IInv'
  BY DEF FinishFailed, rows, WorkerGone, NoPlan, finish_failed, Withdrawn

LEMMA FinishRaisedStep == ASSUME IInv, TypeOK', FinishRaised PROVE IInv'
  BY DEF FinishRaised, rows, WorkerGone, NoPlan, is_task_cancelled, cancel_task, Withdrawn

LEMMA FinishCancelledStep == ASSUME IInv, TypeOK', FinishCancelled PROVE IInv'
  BY DEF FinishCancelled, rows, WorkerGone, NoPlan, is_task_cancelled, finish_failed, Withdrawn

LEMMA RestartStep == ASSUME IInv, TypeOK', Restart PROVE IInv'
  BY DEF Restart, recover_pending, finish_failed, Withdrawn, NoPlan

LEMMA RestartAfterEffectStep == ASSUME IInv, TypeOK', RestartAfterEffect PROVE IInv'
  BY DEF RestartAfterEffect, recover_pending, finish_failed, Withdrawn, NoPlan, MayStep

LEMMA RestartAfterCheckpointStep == ASSUME IInv, TypeOK', RestartAfterCheckpoint PROVE IInv'
  BY DEF RestartAfterCheckpoint, rows, WorkerGone, NoPlan, save_checkpoint

LEMMA ResumeBeginsStep == ASSUME IInv, TypeOK', ResumeBegins PROVE IInv'
<1>1. /\ Dispatch(invocation, plan.run, plan.refuse, plan.hold)
      /\ invocation \in [Calls -> {"none", "started", "completed", "failed"}]
      /\ plan.run \in SUBSET Calls /\ plan.refuse \in SUBSET Calls /\ plan.hold \in SUBSET Calls
      /\ \A c \in plan.run \cup plan.refuse \cup plan.hold : invocation[c] = "none"
      /\ plan.run \cap plan.refuse = {}
      /\ plan.hold \cap (plan.run \cup plan.refuse) = {}
  BY DEF ResumeBegins
<1>2. \A c \in Calls : invocation'[c] = "none" => invocation[c] = "none"
  BY ONLY <1>1, DispatchSound
<1>8. \A c \in Calls : c \notin plan.run \cup plan.refuse => invocation'[c] = invocation[c]
  BY ONLY <1>1, DispatchKeeps
<1>3. \/ CallStarted(plan.run, plan.refuse, plan.hold) \/ ModelAsked(plan.run, plan.hold)
      \/ RunPaused(plan.hold) \/ RunFailed
  BY ONLY <1>1, DispatchSound
<1>4. CASE CallStarted(plan.run, plan.refuse, plan.hold)
  BY <1>1, <1>2, <1>8, <1>4 DEF ResumeBegins, CallStarted, StepTaken, MayStep, is_task_cancelled
<1>5. CASE ModelAsked(plan.run, plan.hold)
  BY <1>1, <1>2, <1>8, <1>5 DEF ResumeBegins, ModelAsked, StepTaken, MayStep, is_task_cancelled
<1>6. CASE RunPaused(plan.hold)
  BY <1>1, <1>2, <1>8, <1>6 DEF ResumeBegins, RunPaused, is_task_cancelled
<1>7. CASE RunFailed
  BY <1>1, <1>2, <1>8, <1>7 DEF ResumeBegins, RunFailed, is_task_cancelled
<1> QED
  BY ONLY <1>3, <1>4, <1>5, <1>6, <1>7

LEMMA ModelCallsStep == ASSUME IInv, TypeOK', ModelCalls PROVE IInv'
<1> PICK batch \in SUBSET {c \in Calls : approval[c] = "none" /\ invocation[c] = "none"} :
         Dispatch(invocation, batch \ (AskCalls \cup DenyCalls),
                  batch \cap DenyCalls, batch \cap AskCalls)
  BY DEF ModelCalls
<1> DEFINE run == batch \ (AskCalls \cup DenyCalls)
           refuse == batch \cap DenyCalls
           hold == batch \cap AskCalls
<1>1. /\ Dispatch(invocation, run, refuse, hold)
      /\ invocation \in [Calls -> {"none", "started", "completed", "failed"}]
      /\ run \in SUBSET Calls /\ refuse \in SUBSET Calls /\ hold \in SUBSET Calls
      /\ \A c \in run \cup refuse \cup hold : invocation[c] = "none" /\ approval[c] = "none"
      /\ run \cap refuse = {}
      /\ hold \cap (run \cup refuse) = {}
      /\ run \cap (AskCalls \cup DenyCalls) = {}
      /\ hold \subseteq AskCalls /\ refuse \subseteq DenyCalls
  OBVIOUS
<1> HIDE DEF run, refuse, hold
<1>2. \A c \in Calls : invocation'[c] = "none" => invocation[c] = "none"
  BY ONLY <1>1, DispatchSound
<1>3. \/ CallStarted(run, refuse, hold) \/ ModelAsked(run, hold)
      \/ RunPaused(hold) \/ RunFailed
  BY ONLY <1>1, DispatchSound
<1>4. CASE CallStarted(run, refuse, hold)
  BY <1>1, <1>2, <1>4 DEF ModelCalls, CallStarted, StepTaken, MayStep, is_task_cancelled
<1>5. CASE ModelAsked(run, hold)
  BY <1>1, <1>2, <1>5 DEF ModelCalls, ModelAsked, StepTaken, MayStep, is_task_cancelled
<1>6. CASE RunPaused(hold)
  BY <1>1, <1>2, <1>6 DEF ModelCalls, RunPaused, is_task_cancelled
<1>7. CASE RunFailed
  BY <1>1, <1>2, <1>7 DEF ModelCalls, RunFailed, is_task_cancelled
<1> QED
  BY ONLY <1>3, <1>4, <1>5, <1>6, <1>7

LEMMA ToolSucceedsStep == ASSUME IInv, TypeOK', ToolSucceeds PROVE IInv'
<1> DEFINE inv == [invocation EXCEPT ![current] = "completed"]
<1>1. /\ Dispatch(inv, plan.run, plan.refuse, plan.hold)
      /\ inv \in [Calls -> {"none", "started", "completed", "failed"}]
      /\ plan.run \in SUBSET Calls /\ plan.refuse \in SUBSET Calls /\ plan.hold \in SUBSET Calls
      /\ \A c \in plan.run \cup plan.refuse \cup plan.hold : inv[c] = "none"
      /\ plan.run \cap plan.refuse = {}
      /\ plan.hold \cap (plan.run \cup plan.refuse) = {}
      /\ \A c \in Calls : inv[c] = "none" => c # current /\ invocation[c] = "none"
      /\ \A c \in Calls : approval[c] = "pending" => c # current /\ inv[c] = "none"
  BY DEF ToolSucceeds
<1> HIDE DEF inv
<1>2. \A c \in Calls : invocation'[c] = "none" => c # current /\ invocation[c] = "none"
  BY ONLY <1>1, DispatchSound
<1>9. \A c \in Calls : c \notin plan.run \cup plan.refuse => invocation'[c] = inv[c]
  BY ONLY <1>1, DispatchKeeps
<1>8. /\ \A c \in Calls : effects'[c] = IF c = current THEN 1 ELSE effects[c]
      /\ status' = "running" /\ ~cancelRequested' /\ status = "running"
  BY DEF ToolSucceeds, is_task_cancelled, MayStep
<1>3. \/ CallStarted(plan.run, plan.refuse, plan.hold) \/ ModelAsked(plan.run, plan.hold)
      \/ RunPaused(plan.hold) \/ RunFailed
  BY ONLY <1>1, DispatchSound
<1>4. CASE CallStarted(plan.run, plan.refuse, plan.hold)
  BY <1>1, <1>2, <1>8, <1>9, <1>4 DEF ToolSucceeds, CallStarted, StepTaken, MayStep, is_task_cancelled
<1>5. CASE ModelAsked(plan.run, plan.hold)
  BY <1>1, <1>2, <1>8, <1>9, <1>5 DEF ToolSucceeds, ModelAsked, StepTaken, MayStep, is_task_cancelled
<1>6. CASE RunPaused(plan.hold)
  BY <1>1, <1>2, <1>8, <1>9, <1>6 DEF ToolSucceeds, RunPaused, is_task_cancelled
<1>7. CASE RunFailed
  BY <1>1, <1>2, <1>8, <1>9, <1>7 DEF ToolSucceeds, RunFailed, is_task_cancelled
<1> QED
  BY ONLY <1>3, <1>4, <1>5, <1>6, <1>7

LEMMA StepIInv == IInv /\ [Next]_vars => IInv'
<1> SUFFICES ASSUME IInv, [Next]_vars PROVE IInv'
  OBVIOUS
<1>1. TypeOK'
  BY TypeStep
<1>6. CASE UNCHANGED vars
  BY <1>6 DEF vars, rows, memory
<1> HIDE DEF IInv
<1>2. CASE Users
  BY <1>1, <1>2, CreateAssistantTaskStep, CancelAssistantTaskStep, RetryTaskStep, RetryQueuedStep,
     DecideApprovalStep DEF Users
<1>3. CASE Clock
  BY <1>1, <1>3, ExpireApprovalStep DEF Clock
<1>4. CASE Worker
  BY <1>1, <1>4, NeverStartedStep, ClaimRefusedStep, ClaimCancelledStep, ClaimTaskStep,
     ContextPreparedStep, ContextFailedStep, RunBeginsStep, ResumeBeginsStep, ModelAnswersStep,
     ModelFailsStep, ModelCallsStep, ToolSucceedsStep, ToolFailsStep, CancelNoticedStep,
     RunTimesOutStep, CancelThrownStep, FinishCompletedStep, FinishWaitingStep, FinishFailedStep,
     FinishRaisedStep, FinishCancelledStep DEF Worker
<1>5. CASE Crash
  BY <1>1, <1>5, RestartStep, RestartAfterEffectStep, RestartAfterCheckpointStep DEF Crash
<1> QED
  BY <1>2, <1>3, <1>4, <1>5, <1>6 DEF Next

HIDE DEF IInv, TypeOK, PlanSound, CallSound, RowBeforeEffect, NothingBefore, CheckpointSound,
         CheckpointStatus, ClaimSound, CardsSound, EffectsPermittedOnce, Permitted,
         NoReplayAfterEffect, RunningHasWorker, EndedIsInert, AnsweredOnce

-----------------------------------------------------------------------------
(* What the invariant gives.                                               *)

\* The strengthened invariant holds in every reachable state.
THEOREM Inductive == Spec => []IInv
  BY InitIInv, StepIInv, PTL DEF Spec

\* A tool that needs approval runs only after its card was approved, a denied
\* tool never, and no call twice: decide_approval, the resumed worker, retries
\* and restarts together.
THEOREM EffectsArePermittedOnce == Spec => []EffectsPermittedOnce
<1>1. IInv => EffectsPermittedOnce
  BY DEF IInv
<1> QED
  BY <1>1, Inductive, PTL

\* No retry queues a task whose tools have had an effect: retry_task looks at
\* the invocation rows, which are committed before the tool runs.
THEOREM NoReplay == Spec => []NoReplayAfterEffect
<1>1. IInv => NoReplayAfterEffect
  BY DEF IInv
<1> QED
  BY <1>1, Inductive, PTL

\* Claims, failures and recover_pending never leave a running task that nobody
\* cancelled without a worker.
THEOREM RunningTasksHaveWorkers == Spec => []RunningHasWorker
<1>1. IInv => RunningHasWorker
  BY DEF IInv
<1> QED
  BY <1>1, Inductive, PTL

\* A task that waits for approval always has the checkpoint save_checkpoint wrote.
THEOREM PausedTasksResume == Spec => []PausedHasCheckpoint
<1>1. IInv => PausedHasCheckpoint
  BY DEF IInv, CheckpointStatus, PausedHasCheckpoint
<1> QED
  BY <1>1, Inductive, PTL

\* Every way to end a task clears its checkpoint and withdraws its cards.
THEOREM EndedTasksAreInert == Spec => []EndedIsInert
<1>1. IInv => EndedIsInert
  BY DEF IInv
<1> QED
  BY <1>1, Inductive, PTL

\* complete_task_with_message writes the answer once, with the completion, and
\* never over a cancel.
THEOREM AnswersAreFinal == Spec => []AnsweredOnce
<1>1. IInv => AnsweredOnce
  BY DEF IInv
<1> QED
  BY <1>1, Inductive, PTL

\* A committed cancel lets no further tool start: every place that starts one
\* publishes an event first, and DurableRuntimeEventSink.publish reads the flag.
THEOREM CancelsStopTools == Spec => CancelStopsTools
<1> DEFINE Stops == cancelRequested =>
               \A c \in Calls : invocation[c] = "none" => invocation'[c] # "started"
<1>1. IInv /\ [Next]_vars => [Stops]_vars
  <2> SUFFICES ASSUME IInv, Next, cancelRequested,
                      NEW c \in Calls, invocation[c] = "none", invocation'[c] = "started"
               PROVE  FALSE
    BY DEF vars
  <2> USE DEF IInv, CallSound
  <2>1. CASE Users \/ Clock
    BY <2>1 DEF Users, Clock, create_assistant_task, cancel_assistant_task, retry_task,
                retry_queued, decide_approval, expire_approval, rows
  <2>2. CASE ToolFails \/ ToolSucceeds
    BY <2>2 DEF ToolFails, ToolSucceeds, is_task_cancelled
  <2>3. CASE ResumeBegins \/ ModelCalls \/ RunBegins \/ ModelAnswers \/ ModelFails
    BY <2>3 DEF ResumeBegins, ModelCalls, RunBegins, ModelAnswers, ModelFails, is_task_cancelled
  <2>4. CASE Crash
    BY <2>4 DEF Crash, Restart, RestartAfterEffect, RestartAfterCheckpoint
  <2>5. CASE \/ NeverStarted \/ ClaimRefused \/ ClaimCancelled \/ ClaimTask
             \/ ContextPrepared \/ ContextFailed
             \/ CancelNoticed \/ RunTimesOut \/ CancelThrown
             \/ FinishCompleted \/ FinishWaiting \/ FinishFailed \/ FinishRaised
             \/ FinishCancelled
    BY <2>5 DEF NeverStarted, ClaimRefused, ClaimCancelled, ClaimTask, ContextPrepared,
                ContextFailed, CancelNoticed, RunTimesOut, CancelThrown, FinishCompleted,
                FinishWaiting, FinishFailed, FinishRaised, FinishCancelled, rows
  <2> QED
    BY <2>1, <2>2, <2>3, <2>4, <2>5 DEF Next, Worker
<1> QED
  BY <1>1, Inductive, PTL DEF Spec, CancelStopsTools

-----------------------------------------------------------------------------
(* AssistantTask implements ToolLedger: under card <- approval and         *)
(* row <- invocation every step of the task moves each call as the ledger  *)
(* allows, or leaves it alone.  The invariant says why: what a resumed     *)
(* worker holds is decided, unstarted and disjoint.                        *)

\* Call c makes a step of the ledger, or none.
Follows(c) == Ledger!Stays(c) \/ Ledger!Moves(c)

USE DEF Follows, Ledger!Stays, Ledger!Moves, Ledger!Asks, Ledger!Decides,
        Ledger!Starts, Ledger!Refuses, Ledger!Runs, Ledger!Fails

\* Withdrawing the open cards, or none, while nothing runs.
LEMMA WithdrawalsFollow ==
    ASSUME IInv, approval' \in {approval, Withdrawn}, UNCHANGED <<invocation, effects>>,
           NEW c \in Calls
    PROVE  Follows(c)
BY DEF IInv, TypeOK, CardsSound, Withdrawn

\* The actions that leave cards, rows and tools alone.
LEMMA QuietFollow ==
    ASSUME \/ create_assistant_task \/ retry_task \/ retry_queued \/ Clock
           \/ NeverStarted \/ ClaimRefused \/ ClaimCancelled \/ ClaimTask
           \/ ContextPrepared \/ RunBegins \/ ModelAnswers \/ ModelFails
           \/ RunTimesOut \/ CancelThrown \/ FinishCompleted
           \/ RestartAfterCheckpoint
    PROVE  UNCHANGED <<approval, invocation, effects>>
BY DEF create_assistant_task, retry_task, retry_queued, Clock, expire_approval,
       NeverStarted, ClaimRefused, ClaimCancelled, ClaimTask, ContextPrepared,
       RunBegins, ModelAnswers, ModelFails, RunTimesOut, CancelThrown,
       FinishCompleted, RestartAfterCheckpoint, rows

\* The actions that may end the task and withdraw its cards.
LEMMA EndingsFollow ==
    ASSUME \/ cancel_assistant_task \/ ContextFailed \/ FinishFailed
           \/ FinishRaised \/ FinishCancelled \/ Restart
    PROVE  approval' \in {approval, Withdrawn} /\ UNCHANGED <<invocation, effects>>
BY DEF cancel_assistant_task, ContextFailed, FinishFailed, FinishRaised,
       FinishCancelled, Restart, cancel_task, finish_failed, recover_pending

LEMMA DecisionsFollow ==
    ASSUME IInv, NEW k \in Calls, NEW d \in {"approved", "rejected"},
           decide_approval(k, d), NEW c \in Calls
    PROVE  Follows(c)
BY DEF decide_approval, IInv, TypeOK, CardsSound

LEMMA PausesFollow ==
    ASSUME IInv, FinishWaiting, NEW c \in Calls
    PROVE  Follows(c)
BY DEF FinishWaiting, create_approvals, IInv, TypeOK, PlanSound

LEMMA ResumesFollow ==
    ASSUME IInv, ResumeBegins, NEW c \in Calls
    PROVE  Follows(c)
<1>1. /\ Dispatch(invocation, plan.run, plan.refuse, plan.hold)
      /\ UNCHANGED <<approval, effects>>
      /\ \A k \in plan.run : invocation[k] = "none" /\ Permitted(k)
      /\ \A k \in plan.refuse :
            invocation[k] = "none" /\ (k \in DenyCalls \/ approval[k] = "rejected")
  BY DEF ResumeBegins, IInv, PlanSound
<1>2. \/ invocation'[c] = invocation[c]
      \/ c \in plan.run /\ invocation'[c] = "started"
      \/ c \in plan.refuse /\ invocation'[c] = "failed"
  BY ONLY <1>1, DispatchKeeps
<1> QED
  BY <1>1, <1>2 DEF Permitted

LEMMA ProposalsFollow ==
    ASSUME IInv, ModelCalls, NEW c \in Calls
    PROVE  Follows(c)
<1> PICK batch \in SUBSET {k \in Calls : approval[k] = "none" /\ invocation[k] = "none"} :
         Dispatch(invocation, batch \ (AskCalls \cup DenyCalls),
                  batch \cap DenyCalls, batch \cap AskCalls)
  BY DEF ModelCalls
<1>1. \/ invocation'[c] = invocation[c]
      \/ c \in batch \ (AskCalls \cup DenyCalls) /\ invocation'[c] = "started"
      \/ c \in batch \cap DenyCalls /\ invocation'[c] = "failed"
  BY DispatchKeeps
<1>2. UNCHANGED <<approval, effects>>
  BY DEF ModelCalls
<1> QED
  BY <1>1, <1>2

LEMMA ResultsFollow ==
    ASSUME IInv, ToolSucceeds, NEW c \in Calls
    PROVE  Follows(c)
<1> DEFINE inv == [invocation EXCEPT ![current] = "completed"]
<1>1. /\ Dispatch(inv, plan.run, plan.refuse, plan.hold)
      /\ UNCHANGED approval
      /\ \A k \in plan.run : invocation[k] = "none" /\ Permitted(k)
      /\ \A k \in plan.refuse :
            invocation[k] = "none" /\ (k \in DenyCalls \/ approval[k] = "rejected")
      /\ current \in Calls /\ invocation[current] = "started" /\ effects[current] = 0
  BY DEF ToolSucceeds, IInv, PlanSound, CallSound
<1>2. /\ inv[current] = "completed"
      /\ \A k \in Calls : k # current => inv[k] = invocation[k]
  BY <1>1 DEF IInv, TypeOK
<1>3. /\ effects'[current] = 1
      /\ \A k \in Calls : k # current => effects'[k] = effects[k]
  BY <1>1 DEF ToolSucceeds, IInv, TypeOK
<1> HIDE DEF inv
<1>4. \/ invocation'[c] = inv[c]
      \/ c \in plan.run /\ invocation'[c] = "started"
      \/ c \in plan.refuse /\ invocation'[c] = "failed"
  BY ONLY <1>1, DispatchKeeps
<1>5. current \notin plan.run \cup plan.refuse
  BY <1>1
<1> QED
  BY <1>1, <1>2, <1>3, <1>4, <1>5 DEF Permitted

LEMMA FailuresFollow ==
    ASSUME IInv, ToolFails, NEW c \in Calls
    PROVE  Follows(c)
BY DEF ToolFails, IInv, TypeOK, CallSound

LEMMA LateCancelsFollow ==
    ASSUME IInv, CancelNoticed, NEW c \in Calls
    PROVE  Follows(c)
BY DEF CancelNoticed, rows, IInv, TypeOK, CallSound

LEMMA CrashesFollow ==
    ASSUME IInv, RestartAfterEffect, NEW c \in Calls
    PROVE  Follows(c)
<1>1. /\ approval' \in {approval, Withdrawn}
      /\ UNCHANGED invocation
      /\ effects' = [effects EXCEPT ![current] = @ + 1]
      /\ current \in Calls /\ invocation[current] = "started" /\ effects[current] = 0
  BY DEF RestartAfterEffect, recover_pending, finish_failed, IInv, CallSound
<1> QED
  BY <1>1 DEF Withdrawn, IInv, TypeOK, CardsSound

LEMMA EveryCallFollows == ASSUME IInv, Next, NEW c \in Calls PROVE Follows(c)
<1> HIDE DEF Follows
<1>1. ASSUME UNCHANGED <<approval, invocation, effects>> PROVE Follows(c)
  BY <1>1 DEF Follows
<1>2. CASE Users \/ Clock
  BY <1>1, <1>2, QuietFollow, EndingsFollow, WithdrawalsFollow, DecisionsFollow DEF Users
<1>3. CASE Worker
  BY <1>1, <1>3, QuietFollow, EndingsFollow, WithdrawalsFollow, PausesFollow, ResumesFollow,
     ProposalsFollow, ResultsFollow, FailuresFollow, LateCancelsFollow DEF Worker
<1>4. CASE Crash
  BY <1>1, <1>4, QuietFollow, EndingsFollow, WithdrawalsFollow, CrashesFollow DEF Crash
<1> QED
  BY <1>2, <1>3, <1>4 DEF Next

LEMMA LedgerStep == IInv /\ IInv' /\ [Next]_vars => [Ledger!Next]_<<approval, invocation, effects>>
<1> SUFFICES ASSUME IInv, IInv', [Next]_vars
             PROVE  [Ledger!Next]_<<approval, invocation, effects>>
  OBVIOUS
<1>1. CASE Next
  <2>1. \A c \in Calls : Ledger!Stays(c) \/ Ledger!Moves(c)
    BY <1>1, EveryCallFollows DEF Follows
  <2>2. /\ approval' \in [Calls -> Ledger!Cards]
        /\ invocation' \in [Calls -> Ledger!Rows]
        /\ effects' \in [Calls -> Nat]
    BY DEF IInv, TypeOK, Ledger!Cards, Ledger!Rows
  <2> QED
    BY ONLY <2>1, <2>2 DEF Ledger!Next
<1>2. CASE UNCHANGED vars
  BY <1>2 DEF vars, rows
<1> QED
  BY <1>1, <1>2

\* The assistant keeps the ledger of ToolLedger: a call is asked about, decided
\* for good, started and run once, in this order, in every behaviour of
\* repository.py, the task runner and the runtime together.
THEOREM TaskKeepsLedger == Spec => KeepsLedger
<1>1. Init => Ledger!Init
  BY DEF Init, Ledger!Init
<1> QED
  BY <1>1, LedgerStep, Inductive, PTL DEF Spec, KeepsLedger, Ledger!Spec
=============================================================================
