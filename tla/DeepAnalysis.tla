---------------------------- MODULE DeepAnalysis ----------------------------
(***************************************************************************)
(* Deep analysis of one stock by the TradingAgents graph: minutes of work  *)
(* and real money per run.  A request (trigger_stock_agent) is refused     *)
(* when find_active_tradingagents_trace still sees a run of the stock;     *)
(* otherwise its AgentRun row is written first and a daemon thread runs    *)
(* trigger_agent_for_stock -> BaseAgent.run -> TradingAgentsAgent.analyze. *)
(* The graph itself runs in a second thread under a hard timeout; a thread *)
(* that outlives it cannot be killed, keeps its share of the patch over    *)
(* route_to_vendor and has its result thrown away.                         *)
(*                                                                         *)
(* The scheduler runs the same agent without a row and without asking      *)
(* whether a run exists.  Ages (of rows, of the latest progress log, of    *)
(* the wait for the graph) are counted in ticks and stop one past their    *)
(* limit, so the clock itself is unbounded.                                *)
(***************************************************************************)
EXTENDS Naturals, FiniteSets

CONSTANTS
    Stocks,
    Runs,           \* runs, asked for through the API or by the scheduler
    None,
    Ttl,            \* ACTIVE_RUN_TTL_SEC, in ticks
    Quiet,          \* the 300 s a progress log keeps a trace active
    Timeout,        \* timeout_minutes
    Budget,         \* monthly_budget_usd, one result costing one unit
    OverBudget      \* over_budget_action: "reject", "warn" or "continue"

ASSUME AnalysisAssumption ==
    /\ None \notin Runs \cup Stocks
    /\ {Ttl, Quiet, Timeout, Budget} \subseteq Nat \ {0}
    /\ OverBudget \in {"reject", "warn", "continue"}
    /\ IsFiniteSet(Runs) /\ IsFiniteSet(Stocks)

VARIABLES
    run,        \* run r: where its coroutine is, what it was asked, its outcome
    row,        \* the AgentRun row of run r; only a requested run has one
    lastLog,    \* the latest ta_progress log of each stock, until it is Quiet old
    thread,     \* the worker thread of run r's graph
    refcount,   \* _patch_refcount
    route,      \* what tradingagents.dataflows.interface.route_to_vendor is
    upstream,   \* _real_route_to_vendor, which the patched function falls back on
    history,    \* the AnalysisHistory row of today: the run it came from
    earlier     \* cost saved on the earlier days of the month, up to Budget

vars == <<run, row, lastLog, thread, refcount, route, upstream, history, earlier>>

Places == {"idle", "queued", "collecting", "cached", "waiting", "mapped",
           "returned", "over"}

\* forced: the run does without the result of the day, because it was told to
\* or could not get it.
\* beside is a history variable: the runs of the stock alive at the request.
IdleRun == [place |-> "idle", stock |-> None, forced |-> FALSE,
            wait |-> 0, outcome |-> "none", beside |-> {}]
NoRow   == [status |-> "none", age |-> 0, id |-> 0]
NoLog   == [trace |-> None, age |-> 0]

RunRecord == [place : Places, stock : Stocks \cup {None}, forced : BOOLEAN,
              wait : 0..Timeout, beside : SUBSET Runs,
              outcome : {"none", "success", "failed", "timed out"}]
RowRecord == [status : {"none", "running", "success", "failed"},
              age : 0..(Ttl + 1), id : 0..Cardinality(Runs)]
LogRecord == [trace : Runs \cup {None}, age : 0..Quiet]

TypeOK ==
    /\ run \in [Runs -> RunRecord]
    /\ row \in [Runs -> RowRecord]
    /\ lastLog \in [Stocks -> LogRecord]
    /\ thread \in [Runs -> {"none", "submitted", "inside"}]
    /\ refcount \in 0..Cardinality(Runs)
    /\ route \in {"upstream", "patched"}
    /\ upstream \in {"unset", "upstream", "patched"}
    /\ history \in [Stocks -> Runs \cup {None}]
    /\ earlier \in 0..Budget

Init ==
    /\ run = [r \in Runs |-> IdleRun]
    /\ row = [r \in Runs |-> NoRow]
    /\ lastLog = [s \in Stocks |-> NoLog]
    /\ thread = [r \in Runs |-> "none"]
    /\ refcount = 0
    /\ route = "upstream"
    /\ upstream = "unset"
    /\ history = [s \in Stocks |-> None]
    /\ earlier = 0

Live(r) == run[r].place \notin {"idle", "over"}

Inside == {r \in Runs : thread[r] = "inside"}

LiveOn(s) == {r \in Runs : Live(r) /\ run[r].stock = s}

Requested(r) == row[r].status # "none"

At(r, place) == run[r].place = place

Become(r, new) == run' = [run EXCEPT ![r] = new]

MoveTo(r, place) == Become(r, [run[r] EXCEPT !.place = place])

Receive(r) == Become(r, [run[r] EXCEPT !.place = "mapped", !.wait = 0])

Return(r, outcome) ==
    Become(r, [run[r] EXCEPT !.place = "returned", !.outcome = outcome, !.wait = 0])

\* The abandoned thread's callbacks see cancel_event and write nothing more.
Cancelled(r) == run[r].outcome # "none"

PatchVars == <<refcount, route, upstream>>

-----------------------------------------------------------------------------
(* Is a run of the stock active?                                           *)

RunningRows(s) == {r \in Runs : row[r].status = "running" /\ run[r].stock = s}

Newest(S) == CHOOSE r \in S : \A q \in S : row[q].id <= row[r].id

\* Mutant: a running row never expires.
ForeverFresh(r) == TRUE

Fresh(r) == row[r].age <= Ttl

\* Mutant: only the progress logs decide.
LoggedActive(s) ==
    LET trace == lastLog[s].trace
    IN  IF trace = None \/ row[trace].status \in {"success", "failed"}
        THEN None ELSE trace

\* The lifecycle row decides when there is one; an expired row says no and
\* keeps the old logs from saying yes.  Without one the latest progress log
\* does, unless the row of its trace says the run has ended.
Active(s) ==
    LET trace == lastLog[s].trace
    IN  IF RunningRows(s) # {}
        THEN LET r == Newest(RunningRows(s)) IN IF Fresh(r) THEN r ELSE None
        ELSE IF \/ trace = None
                \/ row[trace].status \in {"success", "failed"}
             THEN None
             ELSE trace

NextId == Cardinality({r \in Runs : Requested(r)}) + 1

RunningRow == [status |-> "running", age |-> 0, id |-> NextId]

LogOf(r) == [trace |-> r, age |-> 0]

-----------------------------------------------------------------------------
(* Requests.  The handler is a coroutine without an await between the      *)
(* check and the row, so the two are one step of the event loop.           *)

Begin(r, s, force, place) ==
    Become(r, [IdleRun EXCEPT !.place = place, !.stock = s, !.forced = force,
                              !.beside = LiveOn(s)])

\* A request that finds a trace answers with it and changes nothing.
Request(r, s, force) ==
    /\ At(r, "idle")
    /\ force \/ Active(s) = None
    /\ Begin(r, s, force, "queued")
    /\ row' = [row EXCEPT ![r] = RunningRow]
    /\ lastLog' = [lastLog EXCEPT ![s] = LogOf(r)]
    /\ UNCHANGED <<thread, PatchVars, history, earlier>>

\* trigger_agent_for_stock up to agent.run.  Its start_agent_run finds the
\* row; what fails before its try block (market switched off, model or
\* portfolio unreadable) leaves that row running.
Prepare(r) ==
    /\ At(r, "queued")
    /\ \E place \in {"collecting", "over"} : MoveTo(r, place)
    /\ UNCHANGED <<row, lastLog, thread, PatchVars, history, earlier>>

\* The scheduler's run_single makes a trace of its own and asks nobody.
StartScheduled(r, s) ==
    /\ At(r, "idle")
    /\ Begin(r, s, FALSE, "collecting")
    /\ UNCHANGED <<row, lastLog, thread, PatchVars, history, earlier>>

-----------------------------------------------------------------------------
(* collect and analyze.                                                    *)

\* A source or a node of the graph reports progress.
Progress(r) ==
    /\ \/ At(r, "collecting")
       \/ thread[r] = "inside" /\ ~Cancelled(r)
    /\ lastLog' = [lastLog EXCEPT ![run[r].stock] = LogOf(r)]
    /\ UNCHANGED <<run, row, thread, PatchVars, history, earlier>>

\* Mutant: the result of the day is not looked up.
CacheUnread(r) == TRUE

\* Each source has its own timeout and a failed one yields its fallback; the
\* steps after them can still raise.  A result of today is served from the
\* history unless the request was forced.  A lookup that raises, finds a result
\* without data or is switched off (cache_ttl_hours) is no obstacle: the run
\* goes on as a forced one does.
CacheMiss(r) == run[r].forced \/ history[run[r].stock] = None

WithoutCache(r) == Become(r, [run[r] EXCEPT !.place = "cached", !.forced = TRUE])

Collected(r) ==
    /\ At(r, "collecting")
    /\ \/ Return(r, "failed")
       \/ CacheMiss(r) /\ MoveTo(r, "cached")
       \/ WithoutCache(r)
       \/ ~CacheMiss(r) /\ Return(r, "success")
    /\ UNCHANGED <<row, lastLog, thread, PatchVars, history, earlier>>

Used == earlier + Cardinality({s \in Stocks : history[s] # None})

Rejected == Used >= Budget /\ OverBudget = "reject"

\* check_budget, where an unreadable history counts as an empty one, and the
\* graph handed to the thread pool.
CheckBudget(r) ==
    /\ At(r, "cached")
    /\ \E readable \in BOOLEAN :
          \/ /\ readable /\ Rejected
             /\ Return(r, "failed")
             /\ UNCHANGED thread
          \/ /\ ~(readable /\ Rejected)
             /\ MoveTo(r, "waiting")
             /\ thread' = [thread EXCEPT ![r] = "submitted"]
    /\ UNCHANGED <<row, lastLog, PatchVars, history, earlier>>

-----------------------------------------------------------------------------
(* The worker thread, inside patch_route_to_vendor.                        *)

\* Mutant: every thread saves and patches, counted or not.
InstallAnew ==
    /\ upstream' = route
    /\ route' = "patched"
    /\ refcount' = refcount + 1

\* Under _patch_lock: the first one in saves the real function and patches.
Install ==
    IF refcount = 0
    THEN /\ upstream' = route
         /\ route' = "patched"
         /\ refcount' = 1
    ELSE /\ refcount' = refcount + 1
         /\ UNCHANGED <<route, upstream>>

\* Under _patch_lock: the last one out puts the saved function back.
Uninstall ==
    /\ refcount' = refcount - 1
    /\ route' = IF refcount = 1 THEN upstream ELSE route
    /\ UNCHANGED upstream

Enter(r) ==
    /\ thread[r] = "submitted"
    /\ Install
    /\ thread' = [thread EXCEPT ![r] = "inside"]
    /\ UNCHANGED <<run, row, lastLog, history, earlier>>

\* What an ended graph hands to the coroutine: nobody takes it after the
\* timeout.
Deliver(r) ==
    IF At(r, "waiting")
    THEN Receive(r) \/ Return(r, "failed")
    ELSE UNCHANGED run

\* Mutant: the thread itself saves the result.
LeaveSaving(r) ==
    /\ thread[r] = "inside"
    /\ Uninstall
    /\ thread' = [thread EXCEPT ![r] = "none"]
    /\ Deliver(r)
    /\ history' = [history EXCEPT ![run[r].stock] = r]
    /\ UNCHANGED <<row, lastLog, earlier>>

Leave(r) ==
    /\ thread[r] = "inside"
    /\ Uninstall
    /\ thread' = [thread EXCEPT ![r] = "none"]
    /\ Deliver(r)
    /\ UNCHANGED <<row, lastLog, history, earlier>>

\* wait_for gives up.  A thread the pool has not started yet never starts.
TimeOut(r) ==
    /\ At(r, "waiting")
    /\ run[r].wait = Timeout
    /\ Return(r, "timed out")
    /\ \/ UNCHANGED thread
       \/ thread[r] = "submitted" /\ thread' = [thread EXCEPT ![r] = "none"]
    /\ UNCHANGED <<row, lastLog, PatchVars, history, earlier>>

-----------------------------------------------------------------------------
(* The result and the end of the run.                                      *)

\* save_analysis replaces the row of the day; an error is swallowed.
Save(r) ==
    /\ At(r, "mapped")
    /\ Return(r, "success")
    /\ \/ history' = [history EXCEPT ![run[r].stock] = r]
       \/ UNCHANGED history
    /\ UNCHANGED <<row, lastLog, thread, PatchVars, earlier>>

Ended(r) ==
    {"failed"} \cup IF run[r].outcome = "success" THEN {"success"} ELSE {}

\* record_agent_run.  Notifying may have raised after a good result, and a
\* database error leaves the row as it was.  The scheduler's own row carries
\* a trace without the stock, which no query of this component finds.
Record(r) ==
    /\ At(r, "returned")
    /\ MoveTo(r, "over")
    /\ \/ /\ Requested(r)
          /\ \E status \in Ended(r) :
                row' = [row EXCEPT ![r].status = status, ![r].age = 0]
       \/ UNCHANGED row
    /\ UNCHANGED <<lastLog, thread, PatchVars, history, earlier>>

-----------------------------------------------------------------------------
(* The process, and time.                                                  *)

\* Rows, logs and results survive; every thread and the patch do not.
Crash ==
    /\ \E r \in Runs : Live(r)
    /\ run' = [r \in Runs |-> IF Live(r) THEN [run[r] EXCEPT !.place = "over"]
                                         ELSE run[r]]
    /\ thread' = [r \in Runs |-> "none"]
    /\ refcount' = 0
    /\ route' = "upstream"
    /\ upstream' = "unset"
    /\ UNCHANGED <<row, lastLog, history, earlier>>

Older(age, limit) == IF age < limit THEN age + 1 ELSE age

Tick ==
    /\ run' = [r \in Runs |->
                 IF At(r, "waiting")
                 THEN [run[r] EXCEPT !.wait = Older(run[r].wait, Timeout)] ELSE run[r]]
    /\ row' = [r \in Runs |->
                 IF row[r].status = "running"
                 THEN [row[r] EXCEPT !.age = Older(row[r].age, Ttl + 1)] ELSE row[r]]
    /\ lastLog' = [s \in Stocks |->
                 IF lastLog[s].trace = None \/ lastLog[s].age = Quiet THEN NoLog
                 ELSE [lastLog[s] EXCEPT !.age = lastLog[s].age + 1]]
    /\ UNCHANGED <<thread, PatchVars, history, earlier>>

\* The results of today become earlier spending and stop being a cache.
Midnight ==
    /\ \E s \in Stocks : history[s] # None
    /\ earlier' = IF Used < Budget THEN Used ELSE Budget
    /\ history' = [s \in Stocks |-> None]
    /\ UNCHANGED <<run, row, lastLog, thread, PatchVars>>

\* What the coroutine of a run does by itself.
Step(r) ==
    \/ Prepare(r) \/ Collected(r) \/ CheckBudget(r)
    \/ TimeOut(r) \/ Save(r) \/ Record(r)

Next ==
    \/ \E r \in Runs, s \in Stocks :
          StartScheduled(r, s) \/ \E force \in BOOLEAN : Request(r, s, force)
    \/ \E r \in Runs : Step(r) \/ Progress(r) \/ Enter(r) \/ Leave(r)
    \/ Crash \/ Tick \/ Midnight

\* Time passes and the coroutines are scheduled; a graph may hang for ever.
Fairness == WF_vars(Tick) /\ WF_vars(\E r \in Runs : Step(r))

Spec == Init /\ [][Next]_vars /\ Fairness

-----------------------------------------------------------------------------
(* Properties.                                                             *)

\* The patch is in place exactly while some graph thread is inside it, the
\* abandoned ones included, and the function it falls back on is the real
\* one: never itself.
PatchCoversGraphs ==
    /\ route = IF Inside = {} THEN "upstream" ELSE "patched"
    /\ refcount = Cardinality(Inside)
    /\ Inside # {} => upstream = "upstream"

\* A request that is not forced starts a second manual run of a stock only
\* beside one whose row is past the TTL.
OneRunPerStock ==
    [][\A r \in Runs, s \in Stocks :
          (At(r, "idle") /\ At(r, "queued")' /\ run'[r].stock = s /\ ~run'[r].forced)
            => \A q \in LiveOn(s) : Requested(q) => row[q].age > Ttl]_vars

\* A day's result is paid for once: a request that is not forced and can look
\* replaces another run's result of the day only if the two were alive together.
PaidOnce ==
    [][\A r, q \in Runs, s \in Stocks :
          (/\ history[s] = q /\ history'[s] = r /\ r # q
           /\ Requested(r) /\ ~run[r].forced)
            => q \in run[r].beside \/ r \in run[q].beside]_vars

\* A run that timed out leaves nothing behind, however late its thread ends:
\* no result, and no row that says success.
TimedOutLeavesNothing ==
    \A r \in Runs : run[r].outcome = "timed out" =>
        /\ \A s \in Stocks : history[s] # r
        /\ row[r].status # "success"

\* Crashes, failed preparations, lost writes and hung graphs included, every
\* run ends and no stock stays refused to new requests, unless progress is
\* still being reported.
NothingStaysRunning ==
    <>[][~\E r \in Runs : Progress(r)]_vars
      => <>[]\A s \in Stocks : LiveOn(s) = {} /\ Active(s) = None
=============================================================================
