------------------------- MODULE PointInTimeOutcomes -------------------------
(***************************************************************************)
(* The point-in-time outcome evaluator of src/modules/strategy/outcomes.py *)
(* and its ledger: one row for each archived decision and population, its  *)
(* attempts appended until the stock facts are settled, and a benchmark    *)
(* annotation retried on its own afterwards.                               *)
(*                                                                         *)
(* A run takes a process-wide lock or gives up.  It reads its queue in one *)
(* session; for each row it opens a session (create the row, or find that  *)
(* it is not due), fetches bars without one, and opens another that        *)
(* appends the attempt; the benchmark is fetched and committed after that. *)
(* An exception ends the run and a crash the process; what was committed   *)
(* stays.                                                                  *)
(*                                                                         *)
(* The unit of time is a session: session i closes at time i.  Every       *)
(* decision here is on one stock and, but for those with a horizon the     *)
(* calendar does not reach, on one horizon.                                *)
(***************************************************************************)
EXTENDS OutcomeKernel, Sequences, FiniteSets, FiniteSetsExt

CONSTANTS
    Runners,       \* the scheduler and the requests that start a run
    Decisions,     \* archived decisions, 1..n in the order of (session_date, id)
    Plan,          \* of each decision: "order", "no_order" or "invalid"
    Unsupported,   \* decisions with a horizon above _MAX_SUPPORTED_HORIZON_SESSIONS
    Tapes,         \* what may happen on the exchange
    Limits,        \* the "limit" arguments of a run
    Window,        \* MAX_OBSERVATION_DAYS
    Backoff,       \* RETRY_BACKOFF_HOURS
    MaxClock,      \* bound on time; and snapshot_days: time ends with the queue's cutoff
    MaxFaults      \* bound on exceptions and crashes

None == "none"

ASSUME OutcomeAssumption ==
    /\ None \notin Runners
    /\ Decisions \subseteq Nat \ {0} /\ IsFiniteSet(Decisions)
    /\ Plan \in [Decisions -> {"order", "no_order", "invalid"}]
    /\ Unsupported \subseteq Decisions
    /\ Tapes \subseteq Tape
    /\ Limits \subseteq Nat \ {0}
    /\ Window \in Nat \ {0}
    /\ Backoff \in Seq(Nat \ {0}) /\ Len(Backoff) > 0
    /\ {MaxClock, MaxFaults} \subseteq Nat

Populations == {"forward", "execution"}
Keys   == Decisions \X Populations
Absent == [absent |-> TRUE]
Never  == -1

VARIABLES
    rows,      \* strategy_outcomes_v2
    attempts,  \* outcome_evaluation_attempts
    lock,      \* the runner inside _RUN_LOCK, or None
    \* runs
    pc,
    began,     \* the clock of the run
    todo,      \* decisions still to visit
    part,      \* the population in hand of the first of them
    bars,      \* bars_cache: the stock's bars as the run fetched them, or Unread
    \* the world
    tape,
    published, \* sessions whose final bar the feed serves
    clock,
    faults

db    == <<rows, attempts>>
run   == <<pc, began, todo, part, bars>>
world == <<tape, published, clock, faults>>
vars  == <<db, lock, run, world>>

Unread == [s \in Sessions |-> "unread"]
Times  == 0..MaxClock

Row == [result : Result, count : Nat,
        deadline : Nat \cup {Never}, next : Nat \cup {Never}, retryable : BOOLEAN,
        benchCount : Nat, benchDeadline : Nat \cup {Never},
        benchNext : Nat \cup {Never}, benchRetryable : BOOLEAN]

Attempt == [key : Keys, kind : {"stock", "benchmark"}, number : Nat \ {0}]

TypeOK ==
    /\ rows \in [Keys -> Row \cup {Absent}]
    /\ attempts \subseteq Attempt
    /\ lock \in Runners \cup {None}
    /\ pc \in [Runners -> {"idle", "open", "fetch", "settle", "benchmark"}]
    /\ began \in [Runners -> Times]
    /\ todo \in [Runners -> Seq(Decisions)]
    /\ part \in [Runners -> Populations]
    /\ bars \in [Runners -> View \cup {Unread}]
    /\ tape \in Tapes
    /\ published \subseteq Sessions
    /\ clock \in Times
    /\ faults \in 0..MaxFaults
    /\ \A r \in Runners : pc[r] # "idle" => lock = r

Init ==
    /\ rows = [k \in Keys |-> Absent]
    /\ attempts = {}
    /\ lock = None
    /\ pc = [r \in Runners |-> "idle"]
    /\ began = [r \in Runners |-> 0]
    /\ todo = [r \in Runners |-> <<>>]
    /\ part = [r \in Runners |-> "forward"]
    /\ bars = [r \in Runners |-> Unread]
    /\ tape \in Tapes
    /\ published = {}
    /\ clock = 0
    /\ faults = 0

-----------------------------------------------------------------------------
(* Rows.                                                                   *)

\* _new_outcome
NewOutcome == [result |-> Undated("PENDING", "PENDING"), count |-> 0,
               deadline |-> Never, next |-> Never, retryable |-> TRUE,
               benchCount |-> 0, benchDeadline |-> Never,
               benchNext |-> Never, benchRetryable |-> TRUE]

Sealed(result) == result.status \in {"COMPLETE", "AMBIGUOUS"}

\* A slip: a closing window does not make a row due.
ReachedByRetry(next, deadline, now) == next = Never \/ next <= now

\* Neither retry time nor deadline lies ahead.
Reached(next, deadline, now) ==
    next = Never \/ next <= now \/ (deadline # Never /\ deadline <= now)

StockDue(row, now) ==
    row.retryable /\ ~Sealed(row.result) /\ Reached(row.next, row.deadline, now)

\* A slip: the benchmark does not wait for the stock.
BenchmarkEager(row, now) ==
    row.benchRetryable /\ Reached(row.benchNext, row.benchDeadline, now)

BenchmarkDue(row, now) ==
    Sealed(row.result) /\ row.benchRetryable /\ Reached(row.benchNext, row.benchDeadline, now)

\* retry_delay
RetryDelay(number) == IF number <= Len(Backoff) THEN Backoff[number] ELSE Backoff[Len(Backoff)]

\* _next_retry_time: a pending row waits for the next session to close.
NextRetry(result, number, now) ==
    IF result.status = "PENDING" /\ now + 1 \in Sessions THEN now + 1
    ELSE now + RetryDelay(number)

\* The observation window of the row has closed.
Late(row, now) == row.deadline # Never /\ now >= row.deadline

\* An attempt at or past the deadline records only that it came too late.
Overdue(row, result) ==
    Undated("INSUFFICIENT_DATA",
            IF row.result.entry = "FILLED" \/ result.entry = "FILLED"
            THEN "FILLED" ELSE "INSUFFICIENT_DATA")

\* A slip: the latest attempt decides whether the order was filled.
UnsettledAnew(row, result) ==
    [row.result EXCEPT !.status = result.status, !.entry = result.entry,
                       !.entryDay = result.entryDay, !.entryPrice = result.entryPrice]

\* An unsettled attempt keeps the fill an earlier one found.
Unsettled(row, result) ==
    [row.result EXCEPT !.status = result.status,
                       !.entry = IF row.result.entry = "FILLED" THEN "FILLED" ELSE result.entry,
                       !.entryDay = IF result.entryDay # NoDay THEN result.entryDay ELSE @,
                       !.entryPrice = IF result.entryDay # NoDay THEN result.entryPrice ELSE @]

\* _append_stock_attempt; permanent tells the reasons no retry can cure.
StockAttempt(row, found, permanent, now) ==
    LET deadline  == IF row.deadline # Never THEN row.deadline ELSE now + Window
        late      == Late(row, now)
        result    == IF late THEN Overdue(row, found) ELSE found
        retryable == ~late /\ ~Sealed(result) /\ ~permanent
    IN  [row EXCEPT
           !.result = IF Sealed(result) THEN result ELSE Unsettled(row, result),
           !.count = @ + 1,
           !.deadline = deadline,
           !.next = IF retryable THEN NextRetry(result, row.count + 1, now) ELSE Never,
           !.retryable = retryable]

\* _append_benchmark_attempt
BenchmarkAttempt(row, retryable, now) ==
    LET deadline == IF row.benchDeadline # Never THEN row.benchDeadline ELSE now + Window
        again    == retryable /\ now < deadline
    IN  [row EXCEPT
           !.benchCount = @ + 1,
           !.benchDeadline = deadline,
           !.benchNext = IF again THEN now + RetryDelay(row.benchCount + 1) ELSE Never,
           !.benchRetryable = again]

-----------------------------------------------------------------------------
(* The queue: due rows first, then decisions that lack a row.              *)

RowsOf(d) == {k \in Keys : k[1] = d}

DueRows(d, now) == {k \in RowsOf(d) :
    rows[k] # Absent /\ (StockDue(rows[k], now) \/ BenchmarkDue(rows[k], now))}

\* coalesce(stock_next_retry_at, benchmark_next_retry_at), and the least of the
\* due rows of a decision: a row without a time is passed over, and a decision
\* without any sorts first.
RetryAt(row) == IF row.next # Never THEN row.next ELSE row.benchNext
QueueTime(d, now) ==
    LET times == {RetryAt(rows[k]) : k \in DueRows(d, now)} \ {Never}
    IN  IF times = {} THEN Never ELSE Min(times)

Due(now)    == {d \in Decisions : DueRows(d, now) # {}}
Unseeded(now) == {d \in Decisions \ Due(now) : \E k \in RowsOf(d) : rows[k] = Absent}

\* d is queued no later than e.
Before(d, e, now) ==
    \/ d \in Due(now) /\ e \in Unseeded(now)
    \/ /\ d \in Due(now) /\ e \in Due(now)
       /\ \/ QueueTime(d, now) < QueueTime(e, now)
          \/ QueueTime(d, now) = QueueTime(e, now) /\ d <= e
    \/ d \in Unseeded(now) /\ e \in Unseeded(now) /\ d <= e

\* _decision_queue
DecisionQueue(now, limit) ==
    LET wanted == Due(now) \cup Unseeded(now)
        size   == IF Cardinality(wanted) <= limit THEN Cardinality(wanted) ELSE limit
    IN  {q \in [1..size -> wanted] :
           /\ \A i, j \in 1..size : i < j => q[i] # q[j] /\ Before(q[i], q[j], now)
           /\ \A d \in wanted : (\A i \in 1..size : q[i] # d)
                => \A i \in 1..size : Before(q[i], d, now)}

-----------------------------------------------------------------------------
(* A run: evaluate_point_in_time_outcomes.                                 *)

Key(r) == <<Head(todo[r]), part[r]>>

\* On to the next row of the run; the run ends after the last.
Advance(r) ==
    IF part[r] = "forward"
    THEN /\ part' = [part EXCEPT ![r] = "execution"]
         /\ pc' = [pc EXCEPT ![r] = "open"]
         /\ UNCHANGED <<lock, began, todo, bars>>
    ELSE /\ todo' = [todo EXCEPT ![r] = Tail(todo[r])]
         /\ part' = [part EXCEPT ![r] = "forward"]
         /\ IF Len(todo[r]) = 1
            THEN /\ pc' = [pc EXCEPT ![r] = "idle"]
                 /\ began' = [began EXCEPT ![r] = 0]
                 /\ bars' = [bars EXCEPT ![r] = Unread]
                 /\ lock' = None
            ELSE /\ pc' = [pc EXCEPT ![r] = "open"]
                 /\ UNCHANGED <<lock, began, bars>>

LockFree(r) == lock = None

\* Take the lock and read the queue.
StartRun(r) ==
    /\ pc[r] = "idle"
    /\ LockFree(r)
    /\ \E limit \in Limits : \E queue \in DecisionQueue(clock, limit) :
         /\ queue # <<>>
         /\ todo' = [todo EXCEPT ![r] = queue]
    /\ lock' = r
    /\ pc' = [pc EXCEPT ![r] = "open"]
    /\ began' = [began EXCEPT ![r] = clock]
    /\ UNCHANGED <<db, part, bars, world>>

\* A slip: every unsettled row of a queued decision is tried.
OpenEveryRow(r) ==
    /\ pc[r] = "open"
    /\ LET k == Key(r) IN
         \/ /\ rows[k] = Absent
            /\ rows' = [rows EXCEPT ![k] = NewOutcome]
            /\ pc' = [pc EXCEPT ![r] = "fetch"]
            /\ UNCHANGED <<lock, began, todo, part, bars>>
         \/ /\ rows[k] # Absent
            /\ rows[k].retryable
            /\ pc' = [pc EXCEPT ![r] = "fetch"]
            /\ UNCHANGED <<rows, lock, began, todo, part, bars>>
         \/ /\ rows[k] # Absent
            /\ ~rows[k].retryable
            /\ IF BenchmarkDue(rows[k], began[r])
               THEN /\ pc' = [pc EXCEPT ![r] = "benchmark"]
                    /\ UNCHANGED <<lock, began, todo, part, bars>>
               ELSE Advance(r)
            /\ UNCHANGED rows
    /\ UNCHANGED <<attempts, world>>

\* The first session: seed the row, or see whether it is due.
OpenRow(r) ==
    /\ pc[r] = "open"
    /\ LET k == Key(r) IN
         \/ /\ rows[k] = Absent
            /\ rows' = [rows EXCEPT ![k] = NewOutcome]
            /\ pc' = [pc EXCEPT ![r] = "fetch"]
            /\ UNCHANGED <<lock, began, todo, part, bars>>
         \/ /\ rows[k] # Absent
            /\ rows[k].retryable /\ Reached(rows[k].next, rows[k].deadline, began[r])
            /\ pc' = [pc EXCEPT ![r] = "fetch"]
            /\ UNCHANGED <<rows, lock, began, todo, part, bars>>
         \/ /\ rows[k] # Absent
            /\ ~(rows[k].retryable /\ Reached(rows[k].next, rows[k].deadline, began[r]))
            /\ BenchmarkDue(rows[k], began[r])
            /\ pc' = [pc EXCEPT ![r] = "benchmark"]
            /\ UNCHANGED <<rows, lock, began, todo, part, bars>>
         \/ /\ rows[k] # Absent
            /\ ~(rows[k].retryable /\ Reached(rows[k].next, rows[k].deadline, began[r]))
            /\ ~BenchmarkDue(rows[k], began[r])
            /\ Advance(r)
            /\ UNCHANGED rows
    /\ UNCHANGED <<attempts, world>>

Preflight(k) == k[2] = "execution" /\ Plan[k[1]] # "order"

\* The row had a deadline when it was opened and the run began past it.
Expired(r) == Late(rows[Key(r)], began[r])

\* What the feed shows now: final bars, and perhaps the session in progress.
Shown(unfinished) ==
    [s \in Sessions |-> IF s \in published THEN "final"
                        ELSE IF s \in unfinished THEN "unfinished" ELSE "missing"]

Nothing == [s \in Sessions |-> "missing"]

\* _bars_for_decision: fetched once a run, an error counts as no bars at all.
FetchBars(r) ==
    /\ pc[r] = "fetch"
    /\ IF Preflight(Key(r)) \/ Expired(r) \/ Key(r)[1] \in Unsupported \/ bars[r] # Unread
       THEN UNCHANGED bars
       ELSE \/ \E unfinished \in SUBSET {s \in Sessions : s = clock + 1} :
                 bars' = [bars EXCEPT ![r] = Shown(unfinished)]
            \/ bars' = [bars EXCEPT ![r] = Nothing]
    /\ pc' = [pc EXCEPT ![r] = "settle"]
    /\ UNCHANGED <<db, lock, began, todo, part, world>>

\* What the kernel finds for a row with the bars in hand.
Evaluated(r, k, now) ==
    LET view == IF bars[r] = Unread THEN Nothing ELSE bars[r] IN
    CASE Preflight(k) -> ExecutionResult(Plan[k[1]], tape, Nothing, now)
      [] ~Preflight(k) /\ Late(rows[k], now) ->
           Undated("INSUFFICIENT_DATA", "INSUFFICIENT_DATA")
      [] ~Preflight(k) /\ ~Late(rows[k], now) ->
           IF k[2] = "execution" THEN ExecutionResult(Plan[k[1]], tape, view, now)
           ELSE ForwardResult(tape, view, now)

\* The second session appends the attempt, at the time the bars have arrived.
Settle(r, result, permanent) ==
    LET k   == Key(r)
        row == StockAttempt(rows[k], result, permanent, clock)
    IN  /\ pc[r] = "settle"
        /\ IF ~rows[k].retryable \/ Sealed(rows[k].result)
           THEN UNCHANGED db /\ Advance(r)
           ELSE /\ rows' = [rows EXCEPT ![k] = row]
                /\ attempts' = attempts \cup
                     {[key |-> k, kind |-> "stock", number |-> row.count]}
                /\ IF Sealed(row.result) /\ row.benchRetryable
                   THEN /\ pc' = [pc EXCEPT ![r] = "benchmark"]
                        /\ UNCHANGED <<lock, began, todo, part, bars>>
                   ELSE Advance(r)
        /\ UNCHANGED <<tape, published, clock, faults>>

SettleStock(r) ==
    /\ pc[r] = "settle"
    /\ Preflight(Key(r)) \/ Key(r)[1] \notin Unsupported
    /\ Settle(r, Evaluated(r, Key(r), clock),
              Preflight(Key(r)) /\ Plan[Key(r)[1]] = "invalid")

\* The loaded calendar does not cover the sessions, or never will; only a plan
\* is checked without it.
SettleUnverified(r) ==
    /\ pc[r] = "settle"
    /\ ~Preflight(Key(r))
    /\ Settle(r, Undated("INSUFFICIENT_DATA", "INSUFFICIENT_DATA"),
              Key(r)[1] \in Unsupported)

\* _benchmark_attempt_payload: whether a fetch leaves anything to try again.
BenchmarkReads(k) ==
    IF rows[k].result.entryDay = NoDay \/ rows[k].result.exitDay = NoDay
    THEN {FALSE} ELSE BOOLEAN

\* The benchmark, fetched and committed after the stock facts are.
SettleBenchmark(r) ==
    /\ pc[r] = "benchmark"
    /\ LET k == Key(r) IN
         \E retryable \in BenchmarkReads(k) :
           LET row == BenchmarkAttempt(rows[k], retryable, clock) IN
             /\ rows' = [rows EXCEPT ![k] = row]
             /\ attempts' = attempts \cup
                  {[key |-> k, kind |-> "benchmark", number |-> row.benchCount]}
    /\ Advance(r)
    /\ UNCHANGED world

\* An exception anywhere in a run, or the end of the process.
AbortRun(r) ==
    /\ pc[r] # "idle"
    /\ faults < MaxFaults
    /\ faults' = faults + 1
    /\ pc' = [pc EXCEPT ![r] = "idle"]
    /\ began' = [began EXCEPT ![r] = 0]
    /\ todo' = [todo EXCEPT ![r] = <<>>]
    /\ part' = [part EXCEPT ![r] = "forward"]
    /\ bars' = [bars EXCEPT ![r] = Unread]
    /\ lock' = None
    /\ UNCHANGED <<db, tape, published, clock>>

-----------------------------------------------------------------------------
(* The world.                                                              *)

\* A session closes; the feed serves its final bar, or any final bar, at once or
\* later or never.  (Opening a row does not look at the time: a tick before it
\* might as well come after.)
Tick ==
    /\ clock < MaxClock
    /\ \A r \in Runners : pc[r] # "open"
    /\ clock' = clock + 1
    /\ \E served \in SUBSET {s \in Sessions : s <= clock + 1} :
         published' = published \cup served
    /\ UNCHANGED <<db, lock, run, tape, faults>>

Step(r) == OpenRow(r) \/ FetchBars(r) \/ SettleStock(r) \/ SettleUnverified(r)
           \/ SettleBenchmark(r)

Next ==
    \/ \E r \in Runners : StartRun(r) \/ Step(r) \/ AbortRun(r)
    \/ Tick

Spec == Init /\ [][Next]_vars

\* A run goes on until it ends, time passes, and the scheduler starts a run
\* whenever none is on.
Fairness == WF_vars(Tick) /\ WF_vars(\E r \in Runners : StartRun(r) \/ Step(r))

FairSpec == Spec /\ Fairness
-----------------------------------------------------------------------------
(* Properties.                                                             *)

\* Where the first of these days is that satisfies a condition on its bar, said
\* without computing it.
FirstDay(day, days, holds) ==
    day \in days /\ holds[day] /\ \A d \in days : d < day => ~holds[d]

Entered == [d \in Sessions |-> Touches(tape[d])]
Ended   == [d \in Sessions |-> Barred(tape[d])]

\* The fill of a result is the one the whole tape gives.
RightFill(result) ==
    /\ FirstDay(result.entryDay, 1..EntrySessions, Entered)
    /\ tape[result.entryDay].open > Stop
    /\ result.entryPrice = EntryPrice(tape[result.entryDay])

\* So is its exit: the first barrier after the entry day, or the close of the
\* horizon when there was none.
RightExit(result) ==
    LET held == (result.entryDay + 1)..(result.entryDay + Horizon)
        exit == ExitOn(tape[result.exitDay])
    IN  /\ \/ FirstDay(result.exitDay, held, Ended)
           \/ /\ result.exitDay = result.entryDay + Horizon
              /\ \A d \in held : ~Ended[d]
        /\ result.barrier = exit.barrier
        /\ result.exitPrice = exit.price
        /\ result.status = "AMBIGUOUS" <=> exit.barrier = "BOTH_SAME_BAR"

\* No order, or one that the days it was open never filled.
NeverFilled(d) ==
    Plan[d] = "no_order"
    \/ \A e \in 1..EntrySessions :
         FirstDay(e, 1..EntrySessions, Entered) => tape[e].open <= Stop

RightForward(result) ==
    /\ result.entryDay = 1 /\ result.exitDay = 1 + Horizon
    /\ result.entryPrice = tape[1].close /\ result.exitPrice = tape[1 + Horizon].close

\* Whatever bars were missing, unfinished or late when an attempt was made, what
\* it settled is what the complete tape of the sessions says: the fill once it
\* is recorded, and every fact of a COMPLETE or AMBIGUOUS row
\* (evaluate_forward_stock, evaluate_execution_stock, _append_stock_attempt).
FollowsTheTape ==
    \A k \in Keys : rows[k] # Absent =>
        LET result == rows[k].result IN
        /\ k[2] = "forward" /\ Sealed(result) => RightForward(result)
        /\ k[2] = "execution" /\ result.entry = "FILLED" => RightFill(result)
        /\ k[2] = "execution" /\ Sealed(result) =>
             IF result.entry = "FILLED" THEN RightExit(result) ELSE NeverFilled(k[1])

\* Across runs, crashes and benchmark retries the settled facts of a row never
\* change, a fill that was found is never lost, and the observation window stays
\* where the first attempt put it (the sealed branch of _append_stock_attempt).
FactsAreSealed ==
    [][\A k \in Keys : rows[k] # Absent =>
         /\ rows'[k] # Absent
         /\ Sealed(rows[k].result) => rows'[k].result = rows[k].result
         /\ rows[k].result.entry = "FILLED" =>
              /\ rows'[k].result.entry = "FILLED"
              /\ rows'[k].result.entryDay = rows[k].result.entryDay
         /\ rows[k].deadline # Never => rows'[k].deadline = rows[k].deadline]_rows

Made(k, kind) ==
    IF rows[k] = Absent THEN 0
    ELSE IF kind = "stock" THEN rows[k].count ELSE rows[k].benchCount

\* The append-only ledger and the counters of the rows tell the same story,
\* whenever a run dies: every attempt of a row once, and a benchmark attempt for
\* settled facts only.
LedgerAgrees ==
    \A k \in Keys :
        /\ \A kind \in {"stock", "benchmark"} :
             {a.number : a \in {b \in attempts : b.key = k /\ b.kind = kind}} = 1..Made(k, kind)
        /\ Made(k, "benchmark") > 0 => Sealed(rows[k].result)

\* No attempt is made before the retry time its predecessor set, unless the
\* window has closed meanwhile; and none at all after the one that found it
\* closed, or that nothing can cure, however runs overlap
\* (_RUN_LOCK, _decision_queue, _append_stock_attempt, _append_benchmark_attempt).
RetriesKeepSchedule ==
    [][\A k \in Keys : rows[k] # Absent =>
         /\ rows'[k].count # rows[k].count =>
              /\ rows'[k].count = rows[k].count + 1
              /\ rows[k].retryable /\ Reached(rows[k].next, rows[k].deadline, clock)
         /\ rows'[k].benchCount # rows[k].benchCount =>
              /\ rows'[k].benchCount = rows[k].benchCount + 1
              /\ rows[k].benchRetryable
              /\ Reached(rows[k].benchNext, rows[k].benchDeadline, clock)]_rows

\* A row first attempted while its whole window still fits before the queue's
\* cutoff is settled in the end: sealed, or given up for good, whatever the feed
\* and the faults do (the retry queue and the observation window).
RowsSettle ==
    <>[]\A k \in Keys : rows[k] # Absent /\ rows[k].deadline \in Times => ~rows[k].retryable
=============================================================================
