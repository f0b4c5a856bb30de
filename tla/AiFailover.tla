------------------------------ MODULE AiFailover ------------------------------
(***************************************************************************)
(* The model failover of src/platform/ai/ai_failover.py: requests that try *)
(* a chain of models in order, and the cooldown table they share.          *)
(*                                                                         *)
(* A request is a coroutine; it suspends in the call of a model and, when  *)
(* it streams, between two tokens, and everything else it does is atomic.  *)
(* The models are external: they answer, fail, reject a parameter, reject  *)
(* the prompt or hang, as their health has it at the moment.  The HTTP     *)
(* client gives up on a hanging model after Patience (600 s).  The requests *)
(* of the assistant are Hurried: the runtime cancels the coroutine when its *)
(* Deadline passes (180 s for a run, so less for a later turn of it), well  *)
(* before the client would give up.  Those of the agents have no deadline.  *)
(***************************************************************************)
EXTENDS Integers, SequencesExt

CONSTANTS
    Requests,    \* requests that may be under way at once
    Chain,       \* the candidates, the primary model first
    Cooldown,    \* _AI_FAIL_COOLDOWN_S, in ticks
    Patience,    \* time limit of the HTTP client, in ticks
    Hurried,     \* requests whose caller has a time limit
    Deadline,    \* that limit, in ticks
    Illnesses    \* what may be wrong with a model

Models == Range(Chain)

ASSUME FailoverAssumption ==
    /\ Chain \in Seq(Models) /\ Chain # <<>> /\ IsInjective(Chain)
    /\ {Cooldown, Patience, Deadline} \subseteq Nat \ {0}
    /\ Hurried \subseteq Requests
    /\ Illnesses \subseteq {"strict", "unfit", "down", "hung"}

VARIABLES
    cooling,    \* _AI_FAIL_UNTIL, as the ticks each model still has to cool
    health,     \* "well" or what is wrong with the model
    pc,         \* of each request
    rest,       \* candidates it has not reached; the head is the one it calls
    callNo,     \* 1, or 2 without temperature
    waited,     \* time in the present call
    spent,      \* time since a hurried request began
    voice,      \* calls that have yielded tokens to the caller
    tried,      \* models called
    live        \* candidates the request began with

failover_vars == <<cooling, health, pc, rest, callNo, waited, spent, voice, tried, live>>

Ended  == {"answered", "fatal", "exhausted", "broken", "cancelled"}
InCall == {"call", "speaking"}

FailoverTypeOK ==
    /\ cooling \in [Models -> 0..Cooldown]
    /\ health \in [Models -> Illnesses \cup {"well"}]
    /\ pc \in [Requests -> Ended \cup InCall \cup {"new"}]
    /\ rest \in [Requests -> Seq(Models)]
    /\ callNo \in [Requests -> 1..2]
    /\ waited \in [Requests -> 0..Patience]
    /\ spent \in [Requests -> 0..Deadline]
    /\ voice \in [Requests -> SUBSET (Models \X (1..2))]
    /\ tried \in [Requests -> SUBSET Models]
    /\ live \in [Requests -> SUBSET Models]
    /\ \A r \in Requests : pc[r] \in InCall => rest[r] # <<>>

FailoverInit ==
    /\ cooling = [m \in Models |-> 0]
    /\ health \in [Models -> Illnesses \cup {"well"}]
    /\ pc = [r \in Requests |-> "new"]
    /\ rest = [r \in Requests |-> <<>>]
    /\ callNo = [r \in Requests |-> 1]
    /\ waited = [r \in Requests |-> 0]
    /\ spent = [r \in Requests |-> 0]
    /\ voice = [r \in Requests |-> {}]
    /\ tried = [r \in Requests |-> {}]
    /\ live = [r \in Requests |-> {}]

-----------------------------------------------------------------------------
\* The candidates not cooling, or the primary alone when all of them are.
_iter_candidates ==
    LET warm[n \in 0..Len(Chain)] ==    \* those among the first n
            IF n = 0 THEN <<>>
            ELSE IF cooling[Chain[n]] = 0 THEN Append(warm[n - 1], Chain[n])
            ELSE warm[n - 1]
    IN  IF warm[Len(Chain)] # <<>> THEN warm[Len(Chain)] ELSE <<Chain[1]>>

\* A request takes its list of candidates once and for all.
Begin(r) ==
    /\ pc[r] \in Ended \cup {"new"}
    /\ rest' = [rest EXCEPT ![r] = _iter_candidates]
    /\ pc' = [pc EXCEPT ![r] = "call"]
    /\ live' = [live EXCEPT ![r] = Range(_iter_candidates)]
    /\ tried' = [tried EXCEPT ![r] = {Head(rest'[r])}]
    /\ callNo' = [callNo EXCEPT ![r] = 1]
    /\ waited' = [waited EXCEPT ![r] = 0]
    /\ spent' = [spent EXCEPT ![r] = 0]
    /\ voice' = [voice EXCEPT ![r] = {}]
    /\ UNCHANGED <<cooling, health>>

Ends(r, how) ==
    /\ pc' = [pc EXCEPT ![r] = how]
    /\ rest' = [rest EXCEPT ![r] = <<>>]
    /\ callNo' = [callNo EXCEPT ![r] = 1]
    /\ waited' = [waited EXCEPT ![r] = 0]
    /\ spent' = [spent EXCEPT ![r] = 0]
    /\ voice' = [voice EXCEPT ![r] = {}]

\* The call returns, or its stream ends.
Succeeds(r) ==
    /\ pc[r] \in InCall
    /\ LET m == Head(rest[r])
       IN  /\ health[m] = "well" \/ (health[m] = "strict" /\ callNo[r] = 2)
           /\ cooling' = [cooling EXCEPT ![m] = 0]
    /\ Ends(r, "answered")
    /\ UNCHANGED <<health, tried, live>>

\* A token of a stream is handed to the caller.
Streams(r) ==
    /\ pc[r] \in InCall
    /\ LET m == Head(rest[r])
       IN  /\ health[m] = "well" \/ (health[m] = "strict" /\ callNo[r] = 2)
           /\ voice' = [voice EXCEPT ![r] = @ \cup {<<m, callNo[r]>>}]
    /\ pc' = [pc EXCEPT ![r] = "speaking"]
    /\ waited' = [waited EXCEPT ![r] = 0]
    /\ UNCHANGED <<cooling, health, rest, callNo, spent, tried, live>>

\* What a call may raise: a server error, the client's own timeout, a rejected
\* parameter, a rejected prompt.
Raises(r, kind) ==
    LET h == health[Head(rest[r])]
    IN  CASE kind = "switch" -> h = "down" \/ (h = "hung" /\ waited[r] = Patience)
          [] kind = "param"  -> h = "unfit" \/ (h = "strict" /\ callNo[r] = 1)
          [] kind = "fatal"  -> h \notin {"down", "hung"}

\* faulty: a stream that has begun is restarted with the next candidate
BreaksQuietly(r) ==
    /\ pc[r] = "speaking"
    /\ Raises(r, "switch")
    /\ pc' = [pc EXCEPT ![r] = "call"]
    /\ UNCHANGED <<cooling, health, rest, callNo, waited, spent, voice, tried, live>>

\* After the first token whatever the call raises goes to the caller.
Breaks(r) ==
    /\ pc[r] = "speaking"
    /\ \E kind \in {"switch", "param", "fatal"} : Raises(r, kind)
    /\ Ends(r, "broken")
    /\ UNCHANGED <<cooling, health, tried, live>>

\* A rejected parameter: the same model once more, without temperature.
Retry(r) ==
    /\ pc[r] = "call" /\ callNo[r] = 1
    /\ Raises(r, "param")
    /\ callNo' = [callNo EXCEPT ![r] = 2]
    /\ waited' = [waited EXCEPT ![r] = 0]
    /\ UNCHANGED <<cooling, health, pc, rest, spent, voice, tried, live>>

Fatal(r) ==
    /\ pc[r] = "call"
    /\ Raises(r, "fatal")
    /\ Ends(r, "fatal")
    /\ UNCHANGED <<cooling, health, tried, live>>

\* faulty: the failure is not remembered
_mark_fail_not(m) == UNCHANGED cooling

_mark_fail(m) == cooling' = [cooling EXCEPT ![m] = Cooldown]

\* Any other failure: the model cools and the next candidate is called.
Switch(r) ==
    /\ pc[r] = "call"
    /\ Raises(r, "switch") \/ (callNo[r] = 2 /\ Raises(r, "param"))
    /\ _mark_fail(Head(rest[r]))
    /\ IF Tail(rest[r]) = <<>>
       THEN /\ Ends(r, "exhausted")
            /\ UNCHANGED tried
       ELSE /\ rest' = [rest EXCEPT ![r] = Tail(@)]
            /\ tried' = [tried EXCEPT ![r] = @ \cup {Head(rest'[r])}]
            /\ callNo' = [callNo EXCEPT ![r] = 1]
            /\ waited' = [waited EXCEPT ![r] = 0]
            /\ UNCHANGED <<pc, spent, voice>>
    /\ UNCHANGED <<health, live>>

\* The caller's deadline cancels the coroutine: CancelledError is no Exception,
\* so nothing is marked and nothing else is tried.
Cancelled(r) ==
    /\ pc[r] \in InCall
    /\ r \in Hurried /\ spent[r] = Deadline
    /\ Ends(r, "cancelled")
    /\ UNCHANGED <<cooling, health, tried, live>>

-----------------------------------------------------------------------------
(* The world.                                                              *)

Overdue(r) ==
    /\ pc[r] \in InCall
    /\ waited[r] = Patience \/ (r \in Hurried /\ spent[r] = Deadline)

\* faulty: a cooldown never runs out
TickFrozen ==
    /\ \A r \in Requests : ~Overdue(r)
    /\ waited' = [r \in Requests |-> IF pc[r] \in InCall THEN waited[r] + 1 ELSE 0]
    /\ spent' = [r \in Requests |-> IF r \in Hurried /\ pc[r] \in InCall THEN spent[r] + 1 ELSE 0]
    /\ UNCHANGED <<cooling, health, pc, rest, callNo, voice, tried, live>>

\* Time passes everywhere at once, and a call in flight that is neither
\* answered nor refused by then is a hanging one.
Tick ==
    /\ \A r \in Requests : ~Overdue(r)
    /\ cooling' = [m \in Models |-> IF cooling[m] = 0 THEN 0 ELSE cooling[m] - 1]
    /\ waited' = [r \in Requests |-> IF pc[r] \in InCall THEN waited[r] + 1 ELSE 0]
    /\ spent' = [r \in Requests |-> IF r \in Hurried /\ pc[r] \in InCall THEN spent[r] + 1 ELSE 0]
    /\ UNCHANGED <<health, pc, rest, callNo, voice, tried, live>>

Sicken ==
    /\ \E m \in Models, h \in Illnesses \cup {"well"} : health' = [health EXCEPT ![m] = h]
    /\ UNCHANGED <<cooling, pc, rest, callNo, waited, spent, voice, tried, live>>

Settle(r) ==
    \/ Succeeds(r) \/ Breaks(r) \/ Retry(r) \/ Fatal(r) \/ Switch(r) \/ Cancelled(r)

FailoverNext == (\E r \in Requests : Begin(r) \/ Streams(r) \/ Settle(r)) \/ Tick \/ Sicken

FailoverSpec == FailoverInit /\ [][FailoverNext]_failover_vars

\* Calls and streams end (a stream is as long as one answer), time passes and
\* callers keep asking; models need not get well.
FailoverFairSpec ==
    /\ FailoverSpec
    /\ WF_failover_vars(Tick)
    /\ \A r \in Requests : WF_failover_vars(Begin(r)) /\ WF_failover_vars(Settle(r))

-----------------------------------------------------------------------------
\* Whatever a request has handed to its caller comes from one call of one
\* model: a stream that has begun is never continued by another candidate.
OneVoice ==
    \A r \in Requests, v, w \in Models \X (1..2) :
        v \in voice[r] /\ w \in voice[r] => v = w

\* A request reports that all candidates failed only after it has called every
\* one that was not cooling when it began, and at least one in any case.
TriesEveryCandidate ==
    \A r \in Requests :
        pc[r] = "exhausted" => live[r] # {} /\ live[r] \subseteq tried[r]

\* Whatever fails, and whoever else marks models meanwhile, a request ends in
\* the answer of one model or when none is left to try.
OneAnswerOrAllTried == FailoverTypeOK /\ OneVoice /\ TriesEveryCandidate

Primary == Chain[1]

\* A primary model that got well for good is used again for good, however many
\* requests had it marked.
PrimaryReturns ==
    <>[](health[Primary] = "well") => <>[](cooling[Primary] = 0)

\* A primary model that hangs is put aside again and again, so that requests
\* go straight to a candidate that answers: the requests without a deadline see
\* to it, although the hurried ones, cancelled before the client gives up, try
\* it first and mark nothing.
HungModelCools ==
    <>[](health[Primary] = "hung" /\ \A m \in Models \ {Primary} : health[m] = "well")
        => []<>(cooling[Primary] > 0)
=============================================================================
