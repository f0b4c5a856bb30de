---------------------------- MODULE AgentRuntime ----------------------------
(***************************************************************************)
(* AgentRuntime of packages/pan-agent-runtime: one run of the serial tool  *)
(* loop, from run() through any number of resume() calls of the host.      *)
(*                                                                         *)
(* The runtime is one coroutine; model, tools, clock and host are its      *)
(* environment.  Messages are kept as what the loop tells apart: which     *)
(* calls an assistant message proposed and how many tool messages answer   *)
(* each.  Extensions and their virtual tools are left out.                 *)
(***************************************************************************)
EXTENDS Naturals, Sequences, SequencesExt

CONSTANTS
    Calls,        \* the calls the model may ever propose; ids are fresh
    AskCalls,     \* the host policy answers "ask"
    DenyCalls,    \* the host policy answers "deny"
    UnknownCalls, \* name a tool that is not registered
    Fingerprint,  \* fingerprint (name and arguments) of each call
    NoCall, NoFingerprint,
    MaxSteps, MaxToolCalls, Retries,   \* RunLimits
    Required,     \* the request demands a tool call on its first turn
    MaxBatch      \* bound on the calls of one turn (the code has none)

ASSUME RunAssumption ==
    /\ AskCalls \cup DenyCalls \cup UnknownCalls \subseteq Calls
    /\ AskCalls \cap DenyCalls = {}
    /\ Fingerprint \in [Calls -> {Fingerprint[c] : c \in Calls}]
    /\ NoCall \notin Calls /\ NoFingerprint \notin {Fingerprint[c] : c \in Calls}
    /\ MaxSteps \in Nat \ {0} /\ MaxToolCalls \in Nat \ {0} /\ Retries \in Nat
    /\ Required \in BOOLEAN
    /\ MaxBatch \in Nat \ {0}

VARIABLES
    \* kept by a checkpoint
    proposed,    \* calls named by an assistant message
    results,     \* tool messages per call
    answer,      \* some answer text was published
    step, used,  \* model turns and tool calls spent
    held,        \* pending_approvals, in the order of the turn
    \* locals of run, resume and _run_loop
    phase,       \* "loop", "batch", "resume", "paused" or "done"
    todo,        \* calls of the turn, or of the checkpoint, still to look at
    current,     \* the call whose tool is being executed
    attempt,     \* executions of it so far
    last,        \* fingerprint of the last call: the second in a row stops the run
    repaired,    \* required_tool_repair_used
    \* the world
    status,      \* RunResult.status
    decision,    \* what the host decided per call
    ran          \* executions started per call

saved == <<proposed, results, answer, step, used, held>>
local == <<phase, todo, current, attempt, last, repaired>>
vars  == <<saved, local, status, decision, ran>>

TypeOK ==
    /\ proposed \subseteq Calls
    /\ results \in [Calls -> Nat]
    /\ answer \in BOOLEAN
    /\ step \in 0..MaxSteps
    /\ used \in 0..MaxToolCalls
    /\ held \in Seq(Calls)
    /\ phase \in {"loop", "batch", "resume", "paused", "done"}
    /\ todo \in Seq(Calls)
    /\ current \in Calls \cup {NoCall}
    /\ attempt \in 0..Retries + 1
    /\ last \in {Fingerprint[c] : c \in Calls} \cup {NoFingerprint}
    /\ repaired \in BOOLEAN
    /\ status \in {"running", "waiting", "completed", "partial", "failed", "cancelled"}
    /\ decision \in [Calls -> {"none", "approved", "rejected"}]
    /\ ran \in [Calls -> Nat]

Init ==
    /\ proposed = {}
    /\ results = [c \in Calls |-> 0]
    /\ answer = FALSE
    /\ step = 0 /\ used = 0
    /\ held = <<>>
    /\ phase = "loop"
    /\ todo = <<>>
    /\ current = NoCall
    /\ attempt = 0
    /\ last = NoFingerprint
    /\ repaired = FALSE
    /\ status = "running"
    /\ decision = [c \in Calls |-> "none"]
    /\ ran = [c \in Calls |-> 0]

-----------------------------------------------------------------------------
\* _finish
Finish(result) ==
    /\ phase' = "done"
    /\ status' = result
    /\ current' = NoCall
    /\ UNCHANGED <<proposed, results, step, held, todo, attempt, last,
                   repaired, decision, ran>>

\* _append_tool_result
Append_tool_result(c) == results' = [results EXCEPT ![c] = @ + 1]

(* One model turn of _run_loop.                                            *)

\* _tool_choice_for_turn: required until the transcript has a tool message.
_tool_choice_required == Required /\ \A c \in Calls : results[c] = 0

\* faulty: the text of every turn is published
SpeaksAlways == answer' \in {answer, TRUE}

\* A demanded turn is internal: none of its text is published.
Speaks ==
    \/ UNCHANGED answer
    \/ ~_tool_choice_required /\ answer' = TRUE

StepLimit ==
    /\ phase = "loop" /\ step = MaxSteps
    /\ Finish("partial")
    /\ UNCHANGED <<answer, used>>

Answers ==
    /\ phase = "loop" /\ step < MaxSteps /\ ~_tool_choice_required
    /\ Speaks
    /\ Finish("completed")
    /\ UNCHANGED used

Repair ==
    /\ phase = "loop" /\ step < MaxSteps /\ _tool_choice_required /\ ~repaired
    /\ repaired' = TRUE
    /\ step' = step + 1
    /\ UNCHANGED <<proposed, results, answer, used, held, phase, todo, current,
                   attempt, last, status, decision, ran>>

RequiredCallMissing ==
    /\ phase = "loop" /\ step < MaxSteps /\ _tool_choice_required /\ repaired
    /\ Finish("partial")
    /\ UNCHANGED <<answer, used>>

Batches == {b \in UNION {[1..n -> Calls \ proposed] : n \in 1..MaxBatch} : IsInjective(b)}

ProposesCalls ==
    /\ phase = "loop" /\ step < MaxSteps
    /\ Speaks
    /\ \E b \in Batches : /\ todo' = b
                          /\ proposed' = proposed \cup ToSet(b)
    /\ step' = step + 1
    /\ phase' = "batch"
    /\ UNCHANGED <<results, used, held, current, attempt, last, repaired,
                   status, decision, ran>>

-----------------------------------------------------------------------------
(* The calls of a turn, one by one.                                        *)

call == Head(todo)

\* The same name and arguments twice in a row.
Repeats == Fingerprint[call] = last

OverCallLimit == used >= MaxToolCalls

CallLimit ==
    /\ phase = "batch" /\ current = NoCall /\ todo # <<>>
    /\ OverCallLimit
    /\ Finish("partial")
    /\ UNCHANGED <<answer, used>>

\* unknown_tool and repeated_tool_call
CallRefused ==
    /\ phase = "batch" /\ current = NoCall /\ todo # <<>>
    /\ ~OverCallLimit
    /\ call \in UnknownCalls \/ Repeats
    /\ used' = used + 1
    /\ Finish("partial")
    /\ UNCHANGED answer

\* What every call that passes the gates leaves behind.
Passes ==
    /\ phase = "batch" /\ current = NoCall /\ todo # <<>>
    /\ ~OverCallLimit /\ call \notin UnknownCalls /\ ~Repeats
    /\ used' = used + 1
    /\ last' = Fingerprint[call]
    /\ UNCHANGED <<proposed, answer, step, phase, repaired, status, decision>>

CallAsks ==
    /\ Passes
    /\ call \in AskCalls
    /\ held' = Append(held, call)
    /\ todo' = Tail(todo)
    /\ UNCHANGED <<results, current, attempt, ran>>

CallDenied ==
    /\ Passes
    /\ call \in DenyCalls
    /\ Append_tool_result(call)
    /\ todo' = Tail(todo)
    /\ UNCHANGED <<held, current, attempt, ran>>

\* _execute_call up to the first await of the tool
Execute ==
    /\ current' = call
    /\ attempt' = 1
    /\ ran' = [ran EXCEPT ![call] = @ + 1]

CallAllowed ==
    /\ Passes
    /\ call \notin AskCalls \cup DenyCalls
    /\ Execute
    /\ UNCHANGED <<results, held, todo>>

-----------------------------------------------------------------------------
(* Tool execution, shared by _run_loop and resume.                         *)

ToolReturns ==
    /\ current # NoCall
    /\ Append_tool_result(current)
    /\ todo' = Tail(todo)
    /\ current' = NoCall
    /\ UNCHANGED <<proposed, answer, step, used, held, phase, attempt, last,
                   repaired, status, decision, ran>>

\* A result with ok = False ends the run.
ToolReportsFailure ==
    /\ current # NoCall
    /\ Finish("partial")
    /\ UNCHANGED <<answer, used>>

MayRetry == attempt <= Retries

\* The executor raises or its own timeout expires.
ToolRaises ==
    /\ current # NoCall
    /\ IF MayRetry
       THEN /\ attempt' = attempt + 1
            /\ ran' = [ran EXCEPT ![current] = @ + 1]
            /\ UNCHANGED <<saved, phase, todo, current, last, repaired,
                           status, decision>>
       ELSE /\ Finish("partial")
            /\ UNCHANGED <<answer, used>>

-----------------------------------------------------------------------------
(* Approvals.                                                              *)

\* faulty: a resume goes over the cards that are left again
CallsDoneSpins ==
    /\ phase \in {"batch", "resume"} /\ current = NoCall /\ todo = <<>>
    /\ IF held = <<>>
       THEN phase' = "loop" /\ UNCHANGED <<status, todo, held>>
       ELSE IF phase = "resume"
       THEN todo' = held /\ held' = <<>> /\ UNCHANGED <<status, phase>>
       ELSE phase' = "paused" /\ status' = "waiting" /\ UNCHANGED <<todo, held>>
    /\ UNCHANGED <<proposed, results, answer, step, used, current, attempt, last,
                   repaired, decision, ran>>

\* The end of a turn, and of a resume: pause for what is held, or go on.
CallsDone ==
    /\ phase \in {"batch", "resume"} /\ current = NoCall /\ todo = <<>>
    /\ IF held # <<>>
       THEN phase' = "paused" /\ status' = "waiting"
       ELSE phase' = "loop" /\ UNCHANGED status
    /\ UNCHANGED <<saved, todo, current, attempt, last, repaired, decision, ran>>

\* faulty: a resume starts with fresh budgets
ResumeRefunded ==
    /\ phase = "paused"
    /\ \E D \in (SUBSET ToSet(held)) \ {{}} : \E d \in [D -> {"approved", "rejected"}] :
          decision' = [c \in Calls |-> IF c \in D THEN d[c] ELSE decision[c]]
    /\ todo' = held
    /\ held' = <<>>
    /\ phase' = "resume"
    /\ status' = "running"
    /\ last' = NoFingerprint /\ repaired' = FALSE
    /\ used' = 0 /\ step' = 0
    /\ UNCHANGED <<proposed, results, answer, current, attempt, ran>>

\* resume: any non-empty part of the pending calls is decided.  The locals
\* of the loop start afresh, the repetition count among them.
Resume ==
    /\ phase = "paused"
    /\ \E D \in (SUBSET ToSet(held)) \ {{}} : \E d \in [D -> {"approved", "rejected"}] :
          decision' = [c \in Calls |-> IF c \in D THEN d[c] ELSE decision[c]]
    /\ todo' = held
    /\ held' = <<>>
    /\ phase' = "resume"
    /\ status' = "running"
    /\ last' = NoFingerprint /\ repaired' = FALSE
    /\ UNCHANGED <<proposed, results, answer, step, used, current, attempt, ran>>

Resuming == phase = "resume" /\ current = NoCall /\ todo # <<>>

ResumeHolds ==
    /\ Resuming /\ decision[call] = "none"
    /\ held' = Append(held, call)
    /\ todo' = Tail(todo)
    /\ UNCHANGED <<proposed, results, answer, step, used, phase, current, attempt,
                   last, repaired, status, decision, ran>>

\* faulty: a rejected call gets no tool message
ResumeRejectsSilently ==
    /\ Resuming /\ decision[call] = "rejected"
    /\ todo' = Tail(todo)
    /\ UNCHANGED <<saved, phase, current, attempt, last, repaired,
                   status, decision, ran>>

ResumeRejects ==
    /\ Resuming /\ decision[call] = "rejected"
    /\ Append_tool_result(call)
    /\ todo' = Tail(todo)
    /\ UNCHANGED <<proposed, answer, step, used, held, phase, current, attempt,
                   last, repaired, status, decision, ran>>

\* faulty: everything the host did not reject is run
ResumeApprovesRest ==
    /\ Resuming /\ decision[call] # "rejected"
    /\ Execute
    /\ UNCHANGED <<saved, phase, todo, last, repaired, status, decision>>

ResumeApproves ==
    /\ Resuming /\ decision[call] = "approved"
    /\ Execute
    /\ UNCHANGED <<saved, phase, todo, last, repaired, status, decision>>

-----------------------------------------------------------------------------
\* The run deadline, a cancellation, or an exception of the model, the
\* policy or the event sink, at any of the coroutine's suspension points.
Interrupted ==
    /\ phase \in {"loop", "batch", "resume"}
    /\ \E result \in {"partial", "cancelled", "failed"} : Finish(result)
    /\ IF phase = "loop" /\ step < MaxSteps THEN Speaks ELSE UNCHANGED answer
    /\ UNCHANGED used

Loop ==
    \/ StepLimit \/ Answers \/ Repair \/ RequiredCallMissing \/ ProposesCalls
    \/ CallLimit \/ CallRefused \/ CallAsks \/ CallDenied \/ CallAllowed
    \/ ToolReturns \/ ToolReportsFailure \/ ToolRaises
    \/ CallsDone
    \/ ResumeHolds \/ ResumeRejects \/ ResumeApproves
    \/ Interrupted

Next == Loop \/ Resume

Spec == Init /\ [][Next]_vars

\* Every await of the coroutine is bounded by the run deadline; no host has
\* to resume a paused run.
FairSpec == Spec /\ WF_vars(Loop)

-----------------------------------------------------------------------------
(* Properties.                                                             *)

\* The calls of the last assistant message that have no tool message yet.
Open == {c \in proposed : results[c] = 0}

Transcript == INSTANCE ToolTranscript WITH
    mode <- CASE phase = "loop" -> "asking"
              [] phase \in {"batch", "resume"} -> "tools"
              [] phase = "paused" -> "paused"
              [] phase = "done" -> "stopped"

\* The run is a well-formed tool conversation, across partial approvals:
\* no call answered twice, no model turn over an unanswered call, no pause
\* without an open call ("every result associated with exactly one preceding
\* assistant tool-call turn", runtime.py).
KeepsTranscript == Transcript!Spec

\* A paused run waits for exactly the calls it still owes a result: all of
\* them asked for, none decided, in a checkpoint that names each once.
PausedHoldsUndecided ==
    phase = "paused" =>
        /\ ToSet(held) = Open
        /\ IsInjective(held)
        /\ \A c \in Open : c \in AskCalls /\ decision[c] = "none"

\* A tool runs at most its retries and one, a tool the policy asks about
\* only when the host approved it, a denied or unknown one never.
RunsAsPermitted ==
    \A c \in Calls : ran[c] > 0 =>
        /\ ran[c] <= Retries + 1
        /\ c \notin DenyCalls \cup UnknownCalls
        /\ c \in AskCalls => decision[c] = "approved"

\* Approvals are respected over any number of partial decisions: what the user
\* has yet to decide is held, what was not approved never runs.
ApprovalsRespected == PausedHoldsUndecided /\ RunsAsPermitted

\* The budgets of RunLimits hold for the run as a whole, not per resume:
\* every call acted on was counted, every proposal took a turn.
WithinBudgets ==
    /\ TypeOK    \* step and used stop at their limits
    /\ Cardinality({c \in Calls : ran[c] + results[c] > 0 \/ c \in ToSet(held)}) <= used
    /\ Cardinality(proposed) <= step * MaxBatch

\* Nothing the model says is published before a tool has answered, when the
\* request demands a tool call.
NoTextBeforeTool == Required /\ answer => \E c \in Calls : results[c] > 0

\* A run that was started or resumed stops or pauses.
RunEnds == phase \in {"loop", "batch", "resume"} ~> phase \in {"paused", "done"}
=============================================================================
