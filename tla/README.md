# Verification of PanWatch

TLA+ models of the parts of PanWatch whose correctness depends on the order in
which things happen, TLC configurations that check them on small instances, and
TLAPS proofs of what must hold on every instance. Paths in this file and in
`PROJECT.json` start at the repository root (`src/...` is the tree as checked
out; the Python package `src` is therefore `src/src`).

## 1. The system

PanWatch is one Python process (FastAPI on an asyncio event loop, APScheduler
jobs, worker threads) over one SQLite database (WAL, five seconds of busy
timeout, no connection pool), with a TypeScript browser client. About 79,000
lines of Python without the tests and 39,000 of TypeScript; most of them fetch,
parse, score and display. The parts below are where several actors share state,
or where a promise spans many steps.

| Part | State | Operations | Talks to |
|---|---|---|---|
| Assistant task: `assistant/task_runner.py`, `repository.py`, `service.py`, `api.py` | task row, checkpoint, approval cards, tool invocation rows, final message; registry of asyncio workers | create, cancel, retry, decide a card, claim, run, pause, resume, complete, fail, recover | agent runtime (awaits it), event stream (rows), tools |
| Agent runtime: `packages/pan-agent-runtime` | messages, budgets, held calls, checkpoint | `run`, `resume`, the loop of model turns and tool calls | model client, host policy, event sink |
| Task event stream: `assistant/event_stream.py`, `frontend/packages/api/src/chat.ts`, `sse.ts` | event rows, cursor, `Last-Event-ID` | append, replay, tail, reconnect | written by the task, read by the browser |
| Paper trading: `paper_trading/paper_trading_engine.py` and its API | account row, positions, trades | scan (entries, exits), manual close, settings, toggle, reset | quotes over the network, notifier |
| Price alerts: `market/price_alert_engine.py`, scheduler, service, API | rules, hits, daily window | scan, edit, toggle, delete | quotes, notification channels |
| Model failover: `platform/ai/ai_failover.py` | table of cooling models | `chat`, `chat_stream` | OpenAI-compatible services |
| Decision archive and calibration gate: `strategy/calibration_gate.py`, `factor_calibration.py`, `factor_weights.py`, the rebalance of `strategy_engine.py` | archived decisions, outcome rows, gate modes, pins, weights, baselines, applications (claims) | capture, record an outcome, drop a signal, calibrate factors, rebalance strategies, edit a weight, pin, switch a mode | SQLite's write reservation |
| Point-in-time outcomes: `strategy/outcomes.py`, `outcome_kernel.py` | outcome rows, attempts, `_RUN_LOCK` | queue, fetch, settle stock, settle benchmark, retry | archive, price feed |
| TradingAgents: `automation/tradingagents/*`, `agent_runs.py`, the triggers in `server.py` | run rows, progress logs, results of the day, the process-wide patch over `route_to_vendor` | request, schedule, prepare, budget, enter and leave the graph, time out, save, record | graph threads, AI services |
| Agents and notifications: `automation/agent_scheduler.py`, `intraday_monitor.py`, `base.py`, `platform/notifications` | throttle and dedupe marks, the watch list of a context, run rows | fire, trigger for the list or one stock, analyse, send over channels, mark, record, reload | channels |
| Legacy chat and SSE hub, market data library, collectors, research, portfolio, administration, persistence, views | see `PROJECT.json`, `components` | | not modelled, see section 5 |

What makes them hard:

- **Concurrency.** Handlers of the assistant run on the event loop and are atomic
  between two `await`s; its GET handlers, the two reads of the event stream and
  all of paper trading run in threads. A SELECT opens no transaction under
  pysqlite, so what a session read may be stale when it commits. Graph threads
  cannot be killed and outlive the run that started them.
- **Failure.** The process may die between any two commits; start-up recovery
  looks at queued and running tasks only. Tools, models, quotes, channels and
  streams fail and time out at any `await`; asyncio cancellation may be swallowed.
- **Ordering.** Events of a task are written by several actors and read in pages
  over connections that break. A user may decide the cards of one batch one by
  one, cancel at any moment, and retry while the old worker is unwinding. A
  decision is archived, evaluated and revised in any order, and calibration must
  still spend each piece of evidence once.
- **Late facts.** Bars come late, unfinished or never; what is settled from them
  is never revised, so it has to be right when it is settled.
- **Bounds.** Budgets that must hold across pauses, daily limits, cooldowns,
  retry windows, times to live.

What correctness means for each part is stated in section 3; the hazards, each
at its line and with the properties that would catch it, are in `PROJECT.json`.

## 2. The modules

| Module | Models | Size of the abstraction |
|---|---|---|
| `AssistantTask` | one durable task: its rows, its users, its worker, crashes | every step is the code between two suspension points |
| `ToolLedger` | what the assistant promises about each tool call | abstract specification of `AssistantTask` |
| `AgentRuntime` | one run of the tool loop with any number of resumes | messages reduced to proposed calls and results per call |
| `ToolTranscript` | what a provider and a host require of a tool conversation | abstract specification of `AgentRuntime` |
| `TaskEventStream` | the event log, the SSE generator, the browser client | events are their kinds; sequence numbers are positions |
| `PaperTrading` | the account, and the sessions that work on it | prices per lot, one fee per fill |
| `PriceAlertScan` | rules, hits, the write lock, scans | quotes, hours and conditions are choices |
| `AiFailover` | requests over a chain of models | models are healthy or sick in one of four ways |
| `RankingArchive` | the append-only archive, outcome rows, cohorts, fingerprints, readiness | scores are small numbers; a capture is its rows |
| `CalibrationGate` | every writer of a ranking weight, over `RankingArchive` | statistics exact for the few dates of an instance |
| `OutcomeKernel` | what became of a decision, read off daily bars | gross prices, no costs |
| `PointInTimeOutcomes` | the evaluator and its ledger, over `OutcomeKernel` | time is counted in sessions |
| `DeepAnalysis` | TradingAgents runs of a stock, requested and scheduled | the graph is a thread that enters, leaves or hangs |
| `MonitorRuns` | runs of the intraday monitor and the notifications they send | a channel is tried in one step |
| `AssistantTaskProofs`, `AgentRuntimeProofs`, `TaskEventStreamProofs`, `CalibrationGateProofs`, `PointInTimeOutcomesProofs`, `DeepAnalysisProofs`, `MonitorRunsProofs`, `TradingProofs` | theorems | |
| `MC*` | instances for TLC | |

`AssistantTask` contains its own, coarser picture of the runtime: the calls still
to run, to refuse and to hold. `AgentRuntime` is the fine picture of the same
code (order of the calls of a turn, budgets, retries, repetition). They meet in
the checkpoint: what `AgentRuntime` holds when it pauses is what `AssistantTask`
saves, and what the task's cards decide is the set `AgentRuntime.Resume` gets.
`TaskEventStream` has the writers of `AssistantTask` reduced to the events and
the status they leave, in any order their guards allow. `CalibrationGate` is
composed with `RankingArchive` in one specification: each of its reads sees the
archive of that moment, and captures, outcomes and dropped signals come between
them. `PointInTimeOutcomes` writes the outcome rows of the real system with its
retries; the archive has them as an event (`RecordOutcome`), because calibration
cares about which evidence exists and not about how it came.

Definitions whose comment begins with *faulty:* or *Mutant:* are plausible
mistakes in the code. Nothing uses them but the test of the properties: each
property fails when the definition it guards is replaced by its mutant
(`PROJECT.json`, `mutants`).

### How the code corresponds

- **AssistantTask.** `status`, `cancelRequested`, `retryCount`, `checkpoint` are
  columns of `assistant_task_runs`; `approval` and `lapsed` a card's status and
  expiry; `invocation` the row `record_tool_started` writes before a tool runs;
  `answers` the assistant messages of the task. `effects` counts real executions
  and exists in the model only. `pc` is where the asyncio worker is suspended;
  `cancelling` follows `worker.cancel()` from the request (*posted*) to the
  iteration of the loop in which the runner wakes (*due*); in between the runtime's
  own task, which `asyncio.wait_for` of Python 3.11 wraps, may take one more step.
  `gap` is the moment between the end of that inner task and the runner's
  resumption, in which handlers run and a cancel is swallowed. One action per
  repository operation or handler; `Dispatch` is what the runtime does with a
  batch before it next suspends.
- **AgentRuntime.** One action per branch of `_run_loop`, `resume` and
  `_execute_call`; `Interrupted` is every exception, deadline and cancellation.
  `results[c]` counts tool messages for a call, `used` and `step` are the budget
  counters of the checkpoint, `last` the repetition guard, which a resume resets.
- **TaskEventStream.** `ReadEvents` and `ReadSnapshot` are the two statements of
  `_load_task_events`, with writers in between; `pausing` is the stretch of the
  event loop in which a pause commits several times, during which the thread
  can read and the generator cannot act. The client follows `sendMessageStream`.
- **PaperTrading.** A session has its loaded rows (`cached`, `loaded`) and writes
  absolute values at its commit, as SQLAlchemy does; `Expired` is a row after a
  commit. `Fails` abandons a session at any point. Row ids are reused after a
  reset, as SQLite does without AUTOINCREMENT; `serial` tells positions apart in
  the properties. `crossed` is a history variable: some session has committed
  over a row that another had changed since it was read.
- **PriceAlertScan.** `held` is the identity map of a scan's session, `due` the
  rules it has still to look at, `stage` where it stands, `dirty`
  the rules whose daily window it has moved and not flushed, `lock` SQLite's
  write lock, taken by the flush of a hit or by autoflush and held over the
  notification. An UPDATE writes changed columns only. `raced` is a history
  variable: the rules some scan triggered, or rolled, from a row that another
  scan had overtaken.
- **AiFailover.** `cooling` is `_AI_FAIL_UNTIL` as remaining time, `rest` the
  candidates a request has not tried, `callNo` tells the retry without temperature
  from the first call.
  Time passes for all at once; a tick is of the order of the client's timeout.
- **RankingArchive.** `Capture` is `capture_decision_snapshot`: the same payload
  finds its capture, another one becomes a revision. Captures arrive in any order of
  their decision times, since refreshes run in threads and one takes its time long
  before it commits. `Canonical` is the earliest
  decision of a unit, `Cohort` and `Fingerprint` what the gate hashes. `Ready` wants
  no lost reference, the floors on the training samples of a market (those whose
  exit crosses into the holdout are purged), a full holdout and a decisive
  interval; the pooled stratum ALL wants every market ready and `MinMarkets` of
  them.
- **CalibrationGate.** A writer's `pc` walks through the statements of
  `calibrate_factors`, `rebalance_strategy_weights` or a manual edit: baseline,
  items, outcomes, configuration, targets, proposal, and then one transaction:
  `Claim` (an insert, which takes the write reservation `lock`), `Recheck` of
  every gate behind it, `WriteWeight` row by row, `Commit`. `plan` is what the
  session remembers of its reads, `txn` what it has not committed.
- **OutcomeKernel, PointInTimeOutcomes.** The kernel's operators are the verdict
  functions on a *view* (missing, unfinished or final bars) and the *tape* (what
  happened). `OpenRow`, `FetchBars`, `SettleStock`, `SettleUnverified`,
  `SettleBenchmark` are the sessions of a run; `todo` is its queue, `bars` its
  cache. `AbortRun` is an exception or the end of the process.
- **DeepAnalysis.** `place` is where the coroutine of a run is, `thread` where its
  graph thread is, independently. `refcount`, `route`, `upstream` are the three
  globals of `toolkit_adapter`. Ages of rows, logs and waits count ticks and stop
  where no comparison can tell them apart; `Midnight` ends the day of a result.
- **MonitorRuns.** A scheduled run and a run for the whole list are coroutines of
  the event loop, and what they do between two awaits is one step. A run triggered
  for one stock is by default a thread with an event loop of its own
  (`stocks.py:515`): its throttle check (`admitted`), its dedupe check (`cleared`)
  and each of its channels are steps of their own, between which the others go on.
  `list` and `saved` are the watch list of a context and what `run_single` restores
  in its `finally`; `scheduling` is whether a scheduler runs. `throttle` and
  `dedupe` are the marks in the table, as ages. `told`, `toldText`, `heard`,
  `unmarked`, `crowded`, `seen`, `mishap` are history. `Reload` and `Restart` cut a
  run off where it stands; a message that is on its way then may still be heard.

## 3. Runs

Each run is one question; every property of a passing run is also shown to fail
when a definition of the model is replaced by a mutant.

| Run | Question | Instance |
|---|---|---|
| `task` | Under every interleaving of users, worker, expiry and crashes: are effects permitted and unique, do rows, worker and answer agree? | two asked, one allowed, one denied call; one retry. Two asked calls are the least with partial decisions; a third adds no new kind of batch |
| `task_patient` | With users who decide a card only while the task is paused, who do not cancel, and no crash: is no task stranded, does every decision take effect? | two asked, one allowed call |
| `task_second_card` | The same with users who may decide at any time: **violated** | the same |
| `stream` | Does the client get every event once and in order, is a reported failure real, is it released? | log of 7, pages of 2, 2 broken connections, 3 reconnects: several pages, and a break in each |
| `runtime` | Is one run a well-formed tool conversation within its budgets and permissions that ends? | 6 calls: two asked, two reads alike, one denied, one unknown; turns of up to 3; 3 turns, 3 calls, 1 retry, so that both budgets can bind |
| `paper` | Do cash, totals, trades and positions agree over any sequence of scans, closes, settings, resets and failures, until a session commits over what it read too early? | two sessions that do every job, two markets, two stocks, two positions ever, two capitals, one price |
| `alert` | Do hits and notifications correspond, and are the limits of a rule kept unless a scan was overtaken? | two scans at once, two rules of which one fires once, three minutes to a day, cooldown 2, one hit a day; three scans, or two and one edit or crash |
| `ai` | Does an answer come from one call, is every candidate tried, does a primary come back, is a hanging one put aside? | two requests, two models, four illnesses; client timeout 2, one request with a deadline of 1 as the assistant's (180 s against 600 s) and one without |
| `calibration` | Has every weight in force passed every gate on evidence committed before, once per cohort, with an audit trail, and is the canonical decision the first? | two writers, two factor rows and one strategy row, two markets, four days of which one is held out; two jobs or edits, two events, among them a refresh of the last day, a late one, and the outcome that day still misses |
| `outcomes` | Is what a row settles what happened, once, on schedule, and does every row settle? | two runners, two decisions of which one has an unsupported horizon, a queue of one, an entry window of two sessions, one tape with a fill that ends in both barriers, one fault, time of three sessions |
| `deep_analysis` | Does the process-wide patch cover exactly the graph threads, are live runs not doubled and days not paid for twice, does a timed-out run leave nothing and nothing stay marked as running? | one stock, two runs, TTL 2, timeout 2, budget of one |
| `agents` | Does only a notification that got through silence a stock, has every repeat a reason, does a scheduled run reach every stock and tell the truth? | two stocks, two runs, two channels; windows of one tick (an age of 0 is inside, of 1 is not) |

Deadlock is not checked (`CHECK_DEADLOCK FALSE`) where the system may really
stop: a task that has ended, a stream whose client is done, a run that is over, a
scan, an evaluation or a calibration at the bound of its time or rounds, two
analyses that are over.

**Bounds of exploration.** `MaxRetries`, `MaxLog`, `MaxDrops`, `MaxBatch` and
`MaxFaults` (guards); `MaxOpens`, `MaxClock`, `MaxScans`, `MaxEvents`,
`MaxRounds`, `MaxCaptures` (guards); `NotCrossed`, `ScansOrEvents` and
`OneStockAtATime` (constraints of an `MC` module). `NotCrossed` cuts states in
which every property of `paper` is silent by its premise. `ScansOrEvents` gives
one event the place of the third scan; the full product of three scans and an
event (3.5 million states) and five scans without events were explored once with
the same result. `OneStockAtATime` follows two stocks together only while one run
is under way. `agents` was also explored with three runs of one stock and windows
of two ticks (1.9 million states), `outcomes` with one decision and three tapes,
among them an opening under the stop and one at the target,
`paper` with one session, two prices and three
positions; `deep_analysis` with three runs, two stocks and a budget of two by
simulation. The proofs do not depend on any of these. `MaxSteps`,
`MaxToolCalls`, `Retries`, `MaxReconnects`, `PageLimit`, `Cooldown`, `MaxPerDay`,
`MinutesInDay`, `Fee`, `Window`, `Backoff`, `EntrySessions`, `Horizon`, `Floors`,
`HoldoutDates`, `Ttl`, `Quiet`, `Timeout`, `Budget`, `Throttle` and `DedupeTtl`
are parameters of the code with small values.

Symmetry (of sessions, scans, writers, stocks and runs) is used only in runs
without liveness.

**Fairness.** `task_patient` and `task_second_card`: weak fairness of the worker as
a whole, since the event loop keeps stepping a live coroutine and each of its waits
has a timeout (model turns and tools inside the run timeout of 180 s). Users and
expiry owe nothing: what is shown is that a decision, once made, takes effect.
`stream`: the
pause runs to its end, the generator polls, the browser reads what arrives; the
task need not progress and the network need not break. `runtime`: the coroutine,
for the same reason; no host has to resume. `ai`: time passes, the caller without a
deadline keeps asking, calls and streams end or run into the timeout; models need
not recover.
`outcomes`: time passes and the scheduler runs the evaluator; the feed need not
answer, faults are finitely many. `deep_analysis`: time passes and some run
steps; a graph thread may hang for ever and nobody has to request anything.
`task`, `paper`, `alert`, `calibration` and `agents` state safety only.

### What the properties say

*AssistantTask.* `EffectsPermittedOnce`: a tool that needs approval runs only after
its card was approved, a denied one never, none twice. `NoReplayAfterEffect`: a
task whose tools have had an effect is never queued again. `CancelStopsTools`:
from the commit of a cancel no tool call starts. `KeepsLedger`: the refinement of
`ToolLedger`. `QueuedIsTaken`, `DecisionTakesEffect`: a queued task gets a worker, a
decision its effect. `IInv` is the inductive invariant of section 4; it contains
`RunningHasWorker` (no running row without a worker unless a cancel is on its
way), `EndedIsInert` (no actionable card or checkpoint after the end) and
`AnsweredOnce` (the answer is written once, with the completion, never over a
standing cancel).

*AgentRuntime.* `KeepsTranscript`: the refinement of `ToolTranscript` (no model
turn over an unanswered call, no call answered twice, no pause without an open
call). `ApprovalsRespected`: a pause holds exactly the undecided open calls and
only permitted calls run. `WithinBudgets`: every call acted on was counted, over
all pauses. `NoTextBeforeTool`: no preamble before a demanded tool. `RunEnds`.

*TaskEventStream.* `ReceivedIsPrefix`, `FailureIsReal`, `ClientReleased`.

*PaperTrading.* As long as no session has committed over a row it had read too
early (`~crossed`): `BooksBalance`, cash is the capital and the realised profit
less what is tied up, and the totals are those of the trades; `ClosedOnce`, one
trade per closed position; `OneOpenPerStock`.

*PriceAlertScan.* `HitsMatchNotifications`: a committed hit is of a notification,
one a minute, and the other way round up to a crash between the two.
`LimitsKeptUnlessRaced`: a rule that no scan acted on from a row another scan had
overtaken keeps its repeat mode, its cooldown and its daily limit.

*AiFailover.* `OneAnswerOrAllTried`: an answer is of one call, and a request that
gives up has tried every candidate it could. `PrimaryReturns`: a primary that
recovered is used again. `HungModelCools`: one that keeps hanging is put aside, as
long as one caller waits for the client's timeout; see the observation below for
the assistant alone.

*CalibrationGate.* `AuditTrail`: the applications of a row form one unbroken
history from its first weight to its present one. `OncePerCohort`: no row moves
twice on the same evidence. `GatedAndFresh`: at the commit that applies a weight
its gate is active, the row automatic and unpinned, and the evidence it was
planned on is the evidence committed at that moment, and still ready.
`FirstDecisionStands`: the canonical decision of a unit gives way only to an
eligible one that was taken no later and is archived late, never to a refresh or
a revision that knows more.

*PointInTimeOutcomes.* `FollowsTheTape`: what a row settles from partial bars is
what the complete tape says. `FactsAreSealed`, `LedgerAgrees`,
`RetriesKeepSchedule`, `RowsSettle`: settled facts stay, the ledger and the
counters agree across crashes, no attempt is made early or after the last, and
every row whose window fits is settled in the end.

*DeepAnalysis.* `PatchCoversGraphs`: the patch over the vendor route is in place
exactly while a graph thread, abandoned or not, is inside it, and never falls back
on itself. `TimedOutLeavesNothing`, `OneRunPerStock`, `PaidOnce`,
`NothingStaysRunning` as their names say, each with the exception the code has
(a forced request or a result that cannot be looked up, a row past its TTL, runs
alive together, progress that is still reported).

*MonitorRuns.* `MarksAreEarned`: a mark is never fresher than a notification every
channel took. `RepeatsAreExplained`: a run that repeats a stock within the window
was not alone (between its throttle check and the end of its notification another
run told of the stock) or follows a notification that ended unmarked.
`RunTellsTheTruth`: a scheduled run comes to every stock, and a row of success hides
no failure.

### What the violated run shows

`task_second_card`: a second card of a batch, decided while the worker of the
first is alive, is consumed; its worker is refused, the old worker pauses with
the old checkpoint, and the task waits for a card nobody can decide any more.

### Observations that have no run

Met while modelling, and reproducible with the modules by changing a constant,
dropping a premise or adding a property.

Assistant
- A cancel committed between the end of the runtime and its pickup by the runner
  is overwritten by `save_checkpoint` (`assistant/repository.py:484`).
- A crash between `save_checkpoint` and `create_approvals`, or cards that expire,
  leave a paused task that only a cancel gets out of.
- The timer of the outer `wait_for` (`task_runner.py:265`) ends a run with the code
  of a cancellation, not of a timeout. `runtime.py:249` drops the final text of a
  model without streaming when an earlier turn had a preamble. A held batch is
  dropped when a later call of the same turn ends the run (documented as
  *partial* in the runtime's README, line 490). The repetition guard does not
  survive a resume (`runtime.py:219`).
- The SSE generator may close a stream without the final event when a task ends
  between its two reads; the client then reconnects (`FailureIsReal` holds).
  `SSEHub` prunes running streams by age. `decideAssistantApprovalStream` counts
  each reconnect twice.
- The assistant cancels its calls after 180 s, before the client's 600 s: it never
  marks a model that hangs and tries it first again every time. TLC refutes
  `HungModelCools` when every request is in `Hurried`; a caller without a deadline
  has to find out. A model that starts cooling after a request has
  taken its list is still called.

Paper trading and alerts
- Without `~crossed` TLC refutes all three properties of `PaperTrading`: a scan
  and a manual close close a position twice, two scans open one stock twice, and
  of two sessions one loses its update of the cash.
- Scans alone can overdraw the account: the pool of a market values positions
  without the fees paid for them (`paper_trading_engine.py:184`); so can an
  allocation moved to another market while positions are open (`:170`). A reset
  during a manual close hands out row ids again, and the close may hit the
  position opened since.
- POST /price-alerts/scan beside the scheduled scan exceeds the daily limit or the
  cooldown, because rules are gated on rows loaded before the quotes came; two
  scans over midnight can roll a daily window back. `raced` names these rules.

Calibration and outcomes
- `SESSION_EVALUATION_VERSIONS` is empty as shipped, so no outcome counts as
  evidence and nothing can be applied until a version is registered;
  `RecordOutcome` stands for that producer.
- The rebalance proposes without looking at pins and readiness, which the recheck
  does: one pinned or unready strategy refuses the batch of the whole market.
- A `PUT` of a weight with `is_pinned` is two transactions. The reads of a plan are
  not one snapshot; the recheck under the write reservation makes up for it.
- `captured_at` is part of the identity of a capture, so a replay in production
  is always another revision.
- The observation window of a row starts at its first attempt, 30 days long, so a
  horizon above about 20 sessions, though supported, can never complete.
- An exception in one decision ends the run (`outcomes.py:1167`), and a
  decision that always fails blocks every row behind it.

Deep analysis
- A scheduled run has no row under its own trace and asks nobody, so it can double a
  manual one; a manual request within five minutes of a finished scheduled run is
  answered with the trace of the finished one.
- A request whose preparation fails before the `try` leaves its row running until
  the TTL. An older task can overwrite the result of a forced rerun; a run that
  crosses midnight files under the new day. `save_analysis` and `save_suggestion`
  are two commits.
- The budget adds up the saved results of the day, the docstring says of the month;
  the month is UTC's, the date local. The progress logs of a symbol are matched by
  `LIKE`, whatever the market.
- The automatic trigger never fires: the `AttributeError` of `raw_config` is
  swallowed (`intraday_monitor.py`, 870 to 880).

Agents
- One failing channel keeps the mark from being written, and the other channels
  then get a repeat with every run. `BaseAgent.run` checks the throttle of a stock
  and never writes it.
- Quiet hours are recorded as a failure by `run_single`, whereas the comment of
  `base.py` says to skip without marking an error. A run triggered for the list
  records a success even when notifications failed.
- Importing a template stops the scheduler without starting the new one:
  `reload_scheduler` (`server.py:1182`) runs in a worker thread without an event
  loop. The runs under way are cancelled half-way; `except Exception`
  (`agent_scheduler.py:119`) does not catch the cancellation, so they leave no row,
  and what they sent no mark. Nothing fires until the next restart (`Reload`).
- A run for one stock in its own thread and a scheduled one can both pass the
  throttle of a stock and report it twice (`crowded`).

## 4. Proofs

Eight modules of proofs, checked by TLAPS from the named assumptions on the
constants (`CallsAssumption`, `RunAssumption`, `FailoverAssumption`,
`StreamAssumption`, `DecisionsTyped`, `WeightsTyped`, `NoneIsNothing`, `ModesTyped`,
`PlanAssumption`, `OutcomeAssumption`, `AnalysisAssumption`, `RunsAssumption`,
`PaperAssumption`, `AlertAssumption`); TLC evaluates each of them in a run. They
say little: that sets of calls are disjoint, limits natural numbers, sets of
rules and stocks finite and placeholders nobody's name. None of the safety
properties is inductive; each module states the invariant that is. Every
invariant and every action property a passing run checks is stated by a theorem;
where a type invariant is proved it is not checked by a run again, except as a
part of `IInv`, `BooksBalance`, `HitsMatchNotifications` or `OneAnswerOrAllTried`.

**The task** (`AssistantTaskProofs`), for every set of calls, every division into
asked, allowed and denied ones and every retry bound. `EffectsPermittedOnce`
depends on what a suspended worker holds in memory: an approved call in the plan
of a resumed worker must have no row yet and its card must stay approved. `IInv`
adds:

- `PlanSound`: calls in the hands of the runtime are untouched, disjoint, and
  permitted or refused for a reason;
- `CallSound`: the call being executed has its row, its permission, no effect yet
  and is in no other set of the plan;
- `RowBeforeEffect`: no effect without a row, which makes the retry guard work;
- `NothingBefore`: no worker and no row before the task exists;
- `CheckpointSound`, `CheckpointStatus`: a checkpoint belongs to a running or paused
  task, holds asked calls, and is untouched until a worker claims it;
- `ClaimSound`: where a worker may be for each status, and that a worker whose task
  was cancelled (or cancelled and retried) has the cancel still coming;
- `CardsSound`: a pending card belongs to the checkpoint, to what a resume holds
  back and to what a pause will save, and there is none during a first run.

One lemma per action and per part it can disturb, over opaque parts; `Inductive`
combines them, and `TypeCorrect`, `EffectsArePermittedOnce`, `NoReplay`,
`RunningTasksHaveWorkers`, `PausedTasksResume`, `EndedTasksAreInert`,
`AnswersAreFinal` and the action property `CancelsStopTools` follow.

**The task keeps the ledger** (the last part of `AssistantTaskProofs`): `Spec => KeepsLedger`. In
every step each call moves as `ToolLedger` allows or stays; that a started call has
no effect yet is `CallSound`, that a resumed call is permitted is `PlanSound`.

**The runtime** (`AgentRuntimeProofs`), for any calls, policy, fingerprints, limits
and size of a turn. `OwedHolds` is the heart: while the run is alive, the calls
still to look at and the calls held are disjoint lists without repetition, and
together they are the calls without a tool message. `FreshHolds` says what may
have happened to a call by where it is, `LocalHolds` where the locals of the loop
stand, `BudgetHolds` that the counter covers the calls acted on (a bijection
argument on finite sets). `RuntimeTypeCorrect`, `ApprovalsAreRespected`,
`BudgetsHold`, `NoTextEarly`; and `TranscriptKept`, the refinement of
`ToolTranscript`, by one lemma per action on the mapped mode and the open calls.

**Model failover** (`AgentRuntimeProofs`, beside the client's user), for any models,
chains, requests, illnesses and windows. `FailoverInv` adds `RequestHolds`: the
candidates of the chain that were not called are those still to come, and what
was said to the client was said by the present call, so a stream that has begun is
never begun again by another model. The order of the candidates is a recursive
function over the chain; that one exists (`WarmExists`) and that it gives at least
one candidate, all from the chain (`Candidates`), is shown by the least index at
which it would not. `RequestsAnswerOnce`.

**The stream** (`TaskEventStreamProofs`): `StreamTypeCorrect` and
`DeliveredInOrder` for every page limit, reconnect limit, number of drops and
length of the log. `StreamInv` adds that the wire continues what the client has up
to the generator's cursor (`OnTheWire`), that a page which was read continues the
cursor and still does after the log has grown (`PageNext`), and that nothing is
under way between two connections (`Quiet`).

`FailuresAreReal` is the same module's answer to the question whether a failure the
client reports can be an artefact of the transport. `FailInv` says that a
connection closed without a final event has missed one that is already in the
log (`RestIsLogged`, `SeenIsLogged`), that the flags of the client are what it has
heard (`FlagsAreHeard`), that a client which comes back to a connection that was
not broken finds the task at rest (`ReconnectsKnow`), and that the generator then
reads to the resting event before it can close again (`CaughtUp`): a stream can
end early once, not twice. It needs `MaxReconnects > 0`; the code has 3.

**Calibration** (`CalibrationGateProofs`), for any archive, evidence, number of
writers and floors; the statistics stay opaque. The invariant ties the memory of
each writer to the state: what its plan holds at each place of its `pc`, that only
the holder of the reservation has uncommitted claims and weights, that these
continue the audit trail, that a baseline precedes a proposal. `WeightsAreAudited`,
`EvidenceSpentOnce`, `BaselinePrecedesChange`, `GateTypeCorrect`; the action
properties `AppliedThroughTheGate` and, on the archive alone, `CanonicalSettled`.

**Outcomes** (`PointInTimeOutcomesProofs`), for every tape, plan, feed, backoff and
number of runners. First the kernel: whatever part of the tape a view shows, what
it concludes the whole tape confirms, and what the whole tape says of a fill is one
day only. Then the ledger: `RowsHold` ties each row to the tape, `RunsHold` each
runner to the row it works on, `LedgerHolds` the attempts to the counters.
`OutcomeTypeCorrect`, `OutcomesFollowTheTape`, `LedgerMatchesRows`,
`SettledFactsStay`, `AttemptsAreDue`.

**Deep analysis** (`DeepAnalysisProofs`), for any runs, stocks, limits and budget
rule. `OutcomeHolds` says which rows and results speak of a success, `RowsHold`
that a live request has a running row and rows age in the order of their ids,
`BesideHolds` that of two live runs of a stock one knows the other.
`AnalysisTypeCorrect`, `PatchIsShared`, `LateThreadsAreDiscarded`,
`RequestsDoNotDouble`, `DaysArePaidOnce`.

**The monitor** (`MonitorRunsProofs`), for any watch list, number of runs, channels
and windows. `RunsHold` says of one run that its list is whole at the head of its
loop and that what failed is among its errors, `CrowdHolds` that two runs that tell
of a stock know it, `KnownHolds` that what a channel heard within the window is
covered by a mark as fresh, a run still sending, or an unmarked notification.
`MonitorTypeCorrect`, `MarksStandForMessages`, `RepeatsHaveReasons`,
`RowsTellTheTruth`.

**The ledger of paper trading** (`TradingProofs`), for any number of sessions,
stocks, markets and positions and any prices, fees and capitals; two sessions may
be anywhere. `IInv` is `Shape` and `Outset` always, and as long as no session has
committed over what it read too early (`~crossed`) also:

- `Own(s)`, for each session that is not stale: the rows it loaded are the table's
  and open, the stocks it is about to enter are not held, the positions it is
  about to close are closed once;
- `Core`: one open position per stock, one closing trade per position;
- `Books` and `InStep`: the account in a session's hands is the account row less
  what it has `Spent` and with what it has `Gained` and `Freed`, and the account
  row is what the trades and the open positions add up to.

`PositionsCloseOnce`, `StocksAreHeldOnce` and `BooksStayBalanced` follow.

**The price alerts** (`TradingProofs`), for any scans (the scheduled one, manual ones,
all at once), rules, limits, edits by users and crashes. `AlertIInv` ties a scan to
its session and to the write lock (`Grip`), and the hits, flushed and committed,
to the notifications that went out (`Notified`, `Recorded`): `HitsAreTheNotifications`.
For each rule that no scan has raced, `OnceHolds` and `CooldownHolds` say that a
rule without a trigger time has sent nothing and that none is later than the one
on its row; `DailyHolds` bounds the notifications of a day by the count in the
table, and in each row a scan holds that nobody has overtaken, what a scan still
owes to the count (`Owed`), the edits and the crashes included: `LimitsAreKept`.

Cash, totals and hits per day are sums over sets that are defined by recursion.
The lemmas about them (a sum changes by what one element changes, parts of a set
add up) are proved for these sums from the well-foundedness of the subsets of a
finite set, by way of the least counterexample, not with the library's induction
theorems.

**Only model-checked.** Liveness: `QueuedIsTaken`, `DecisionTakesEffect`, `RunEnds`,
`ClientReleased`, `PrimaryReturns`, `HungModelCools`, `RowsSettle`,
`NothingStaysRunning`. Fairness and ENABLED are out of the prover's
reach.

## 5. Not modelled, and why

The largest part of the repository has no state of its own that several actors
share: it fetches, parses, scores and displays. The models cover about a tenth of
its lines, chosen where an order of steps can go wrong.

Left out of the modules that exist:

- *Assistant.* The permission mode of a call is a constant: the code reads the
  permission snapshot once per run, edits during a pause are left out. Database
  errors other than failed flushes and sessions; two processes on one database
  (the runner is documented as single-process); the attempts of a tool are one
  outcome; extensions, context compression,
  presentation of cards; the two other streaming clients of `chat.ts`.
- *Calibration.* `Decisive` and the agreement of train and holdout are exact for
  the few dates of an instance; Spearman and bootstrap in general are numerical. The
  evidence report and the listings.
- *Outcomes.* Costs and net returns, the individual reasons a bar is rejected for
  (they count as unfinished), a final bar that is revised later, an ambiguous exit
  price; a benchmark status is reduced to whether it is retried; the order of ids
  is the order of decisions.
- *Deep analysis.* What the graph computes, vendors and report; the cancellation of
  a request that waits; the loss of the row at the request.
- *Agents.* The other agents appear through `BaseAgent.run`; the suggestion pool,
  the event gate, the case without channels and the rows of manual runs are left
  out; one text of a stock repeats.
- *Paper trading, alerts.* The notifications of a trade, the signal matching, the
  condition language.

Left out altogether (`not_modelled` in `PROJECT.json`): the market data library
and the collectors (vendors are parsing; failover and caches are planned), the
SSE hub of the older chat, assistant tools and context, research and discovery
(pipelines with upserts), the scoring of the strategy engine, portfolio and
administration (CRUD), migrations (once, at start-up), views.

## 6. Plan

The order was: the task (most actors, most failures), the stream that shows it, the
runtime inside it, then money and notifications, model failover, then calibration
with its archive, outcomes, deep analyses and the monitor, each with its proofs.
What is next, most important first:

1. Composition of `AssistantTask` with the checkpoint of `AgentRuntime`.
2. `MarketDataEngine`: provider failover by priority, the TTL cache keyed by the
   provider configuration, `min_count`, concurrent requests.
3. `SseHub`: the in-memory stream of the older chat API, its limits and pruning.
4. The suggestion pool and the event gate around the monitor.
5. Operator modules checked against reference definitions: the schedule parser's
   weekday normalisation, `_compute_quantity`, `normalize_allocations`, the cost
   model's rounding.
