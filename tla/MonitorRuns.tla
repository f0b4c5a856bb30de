---------------------------- MODULE MonitorRuns ----------------------------
(***************************************************************************)
(* The runs of the intraday monitor and the notifications they send        *)
(* (src/modules/automation/agent_scheduler.py, intraday_monitor.py,        *)
(* base.py, src/platform/notifications and the trigger functions of        *)
(* server.py).                                                             *)
(*                                                                         *)
(* A "scheduled" run and a run triggered by hand for the whole list        *)
(* ("all") are coroutines of the event loop: they go through the stocks of *)
(* their own context, one run_single after the other, and everything they  *)
(* do between two awaits is one step.  A run triggered for one stock       *)
(* ("one") goes through BaseAgent.run, unless the request waits for it in  *)
(* a thread with an event loop of its own (stocks.py): its throttle check, *)
(* its dedupe check and each channel of its notification are steps between *)
(* which the other runs go on.  A request that waits runs in the main loop *)
(* and does no more than that.                                             *)
(*                                                                         *)
(* Two tables of marks keep a stock from being reported again and again:   *)
(* the per-stock throttle, which run_single reads and writes, and the      *)
(* dedupe mark of a message's text, which BaseAgent.run reads and writes.  *)
(* Of the texts a model can write only one per stock can repeat            *)
(* (RepeatsText); a text never seen before has no mark to find.            *)
(*                                                                         *)
(* Times are ages that stop counting once no comparison can tell them      *)
(* from older ones; a mark that is not there has the age Old.              *)
(***************************************************************************)
EXTENDS Naturals, FiniteSets

CONSTANTS
    Stocks,     \* the watch list of the agent
    Runs,       \* runs that may be under way at once
    Channels,   \* how many channels a notification goes to
    Throttle,   \* throttle_minutes: an older mark lets the stock through
    DedupeTtl   \* dedupe_ttl_minutes: an older mark lets the text through

ASSUME RunsAssumption ==
    /\ IsFiniteSet(Stocks)
    /\ Channels \in Nat \ {0}
    /\ Throttle \in Nat
    /\ DedupeTtl \in Nat

VARIABLES
    run,        \* the runs, see RunType
    scheduling, \* whether the scheduler runs
    throttle,   \* notify_throttle row of a stock: age of last_notify_at
    dedupe,     \* notify_throttle row of the stock's repeating text
    told,       \* history: age of the last notification of the stock that
                \* every channel took from a run_single
    toldText,   \* history: the same, of its text, from a BaseAgent.run
    heard,      \* history: age of the last throttled message of the stock
                \* that any channel took
    unmarked    \* history: stocks of which some channel took a throttled
                \* message, within the window, that ended without a mark

tables == <<throttle, dedupe>>
history == <<told, toldText, heard, unmarked>>
vars == <<run, scheduling, throttle, dedupe, told, toldText, heard, unmarked>>

Old == 1 + (IF Throttle > DedupeTtl THEN Throttle ELSE DedupeTtl)
Ages == 0 .. Old

NoStock == "no stock"
Kinds == {"scheduled", "all", "one"}

RunType ==
    [kind     : Kinds,
     pc       : {"free", "between", "analysing", "admitted", "cleared",
                 "sending", "done"},
     bypass   : BOOLEAN,            \* bypass_throttle
     suppress : BOOLEAN,            \* suppress_notify
     repeats  : BOOLEAN,            \* the message is the stock's known text
     todo     : SUBSET Stocks,      \* stocks the loop has yet to reach
     list     : SUBSET Stocks,      \* context.config.watchlist
     saved    : SUBSET Stocks,      \* original_watchlist
     stock    : Stocks \cup {NoStock},
     left     : 0 .. Channels,      \* channels still to be tried
     broken   : BOOLEAN,            \* a channel has given up
     errors   : BOOLEAN,            \* the loop's list of errors has one
     record   : {"none", "success", "failed"},   \* the AgentRun row
     taken    : BOOLEAN,            \* history: some channel took the message
     crowded  : BOOLEAN,            \* history: another run was telling too
     seen     : SUBSET Stocks,      \* history: stocks analysed or shut
     mishap   : BOOLEAN]            \* history: something has failed

TypeOK ==
    /\ run \in [Runs -> RunType]
    /\ scheduling \in BOOLEAN
    /\ throttle \in [Stocks -> Ages]
    /\ dedupe \in [Stocks -> Ages]
    /\ told \in [Stocks -> Ages]
    /\ toldText \in [Stocks -> Ages]
    /\ heard \in [Stocks -> Ages]
    /\ unmarked \in SUBSET Stocks

FreeRun ==
    [kind |-> "one", pc |-> "free", bypass |-> FALSE, suppress |-> FALSE,
     repeats |-> FALSE, todo |-> {}, list |-> {},
     saved |-> {}, stock |-> NoStock, left |-> 0,
     broken |-> FALSE, errors |-> FALSE, record |-> "none", taken |-> FALSE,
     crowded |-> FALSE, seen |-> {}, mishap |-> FALSE]

Init ==
    /\ run = [r \in Runs |-> FreeRun]
    /\ scheduling = TRUE
    /\ throttle = [s \in Stocks |-> Old]
    /\ dedupe = [s \in Stocks |-> Old]
    /\ told = [s \in Stocks |-> Old]
    /\ toldText = [s \in Stocks |-> Old]
    /\ heard = [s \in Stocks |-> Old]
    /\ unmarked = {}

Idle(r) == run[r].pc \in {"free", "done"}
Become(r, new) == run' = [run EXCEPT ![r] = new]

-----------------------------------------------------------------------------
(* Starting a run.                                                         *)

\* A context of its own is built for every run: its list is the whole one.
StartList(r, kind) ==
    Become(r, [FreeRun EXCEPT !.kind = kind, !.pc = "between",
                              !.todo = Stocks, !.list = Stocks])

\* The scheduler starts a job again only when its last instance is over
\* (max_instances = 1).
Fire(r) ==
    /\ scheduling
    /\ Idle(r)
    /\ \A q \in Runs : run[q].kind = "scheduled" => Idle(q)
    /\ StartList(r, "scheduled")
    /\ UNCHANGED <<scheduling, tables, history>>

TriggerAll(r) ==
    /\ Idle(r)
    /\ StartList(r, "all")
    /\ UNCHANGED <<scheduling, tables, history>>

\* A run that may not notify never gets to the throttle it would bypass.
TriggerOne(r) ==
    /\ Idle(r)
    /\ \E s \in Stocks, bypass, suppress \in BOOLEAN :
          /\ ~(bypass /\ suppress)
          /\ Become(r, [FreeRun EXCEPT !.pc = "analysing", !.bypass = bypass,
                                         !.suppress = suppress, !.stock = s])
    /\ UNCHANGED <<scheduling, tables, history>>

-----------------------------------------------------------------------------
(* The loop over the stocks.                                               *)

\* Mutant: the list is put back only where the code runs to its end.
NotRestored(w) == IF w.pc = "sending" THEN w.saved ELSE w.list

\* What a run looks like when it is done with its stock: the loop goes on;
\* `finally` has put the list of the context back.
Restored(w) == w.saved
Settled(w) ==
    [w EXCEPT !.pc = "between", !.list = Restored(w), !.saved = {},
              !.stock = NoStock, !.left = 0, !.broken = FALSE,
              !.taken = FALSE, !.crowded = FALSE]

\* A run triggered by hand is over; whoever asked for it gets the outcome.
Over == FreeRun

\* History of a scheduled run: something failed for this stock.
Mishap(w) ==
    [w EXCEPT !.mishap = w.mishap \/ w.kind = "scheduled"]

\* A stock that went well, or failed in a way the run only takes note of.
Passed(w) ==
    IF w.kind = "one" THEN Over ELSE Settled(w)

\* notify_error: only the scheduled loop looks at it.
Noted(w) ==
    Passed([w EXCEPT !.errors = w.errors \/ w.kind = "scheduled"])

\* An exception: the scheduled loop keeps it and goes on, a run triggered by
\* hand is over.
Raised(w) ==
    IF w.kind = "scheduled"
    THEN [Settled(Mishap(w)) EXCEPT !.errors = TRUE]
    ELSE Over

\* History of a scheduled run: it has come to this stock.
Looked(w, s) ==
    [w EXCEPT !.seen = IF w.kind = "scheduled" THEN w.seen \cup {s} ELSE {}]

\* run_single cuts the list of the context down to its stock; when nothing is
\* left it returns before the try block, and the loop takes it for done.
RunSingle(w, s) ==
    IF s \in w.list
    THEN [Looked(w, s) EXCEPT !.pc = "analysing", !.stock = s,
                              !.saved = w.list, !.list = {s}]
    ELSE [w EXCEPT !.list = {}]

\* The head of the loop.  Only the scheduler asks whether the market is open
\* before it calls run_single.
NextStock(r) ==
    /\ run[r].pc = "between"
    /\ \E s \in run[r].todo :
          \/ /\ run[r].kind = "scheduled"
             /\ Become(r, Looked([run[r] EXCEPT !.todo = run[r].todo \ {s}], s))
          \/ Become(r, RunSingle([run[r] EXCEPT !.todo = run[r].todo \ {s}], s))
    /\ UNCHANGED <<scheduling, tables, history>>

\* The end of the loop: record_agent_run.
Verdict(w) == IF w.errors THEN "failed" ELSE "success"
EndLoop(r) ==
    /\ run[r].pc = "between"
    /\ run[r].todo = {}
    /\ IF run[r].kind = "scheduled"
       THEN Become(r, [FreeRun EXCEPT !.kind = "scheduled", !.pc = "done",
                                      !.record = Verdict(run[r]),
                                      !.seen = run[r].seen,
                                      !.mishap = run[r].mishap])
       ELSE Become(r, Over)
    /\ UNCHANGED <<scheduling, tables, history>>

-----------------------------------------------------------------------------
(* The analysis and the checks that follow it.                             *)

\* No data, a market that is closed, or advice nobody need be told of.
NothingToTell(r) ==
    /\ run[r].pc = "analysing"
    /\ Become(r, Passed(run[r]))
    /\ UNCHANGED <<scheduling, tables, history>>

AnalysisFails(r) ==
    /\ run[r].pc = "analysing"
    /\ Become(r, Raised(run[r]))
    /\ UNCHANGED <<scheduling, tables, history>>

\* Mutant: a mark exactly as old as the window lets the stock through.
ThrottledLess(w) == ~w.bypass /\ throttle[w.stock] < Throttle

Throttled(w) == ~w.bypass /\ ~(throttle[w.stock] > Throttle)

\* The runs that tell of a stock: the throttle has let them through and their
\* notification has not ended.
Telling == {"admitted", "cleared", "sending"}
TellingOf(s) == {q \in Runs : run[q].pc \in Telling /\ run[q].stock = s}

\* should_notify lets the alert through.  run_single calls the notifier before
\* it awaits again, BaseAgent.run has its dedupe check to come.  For the
\* history, every run that tells of the stock now knows it is not alone.
Admitted(w) ==
    IF w.kind = "one" THEN [w EXCEPT !.pc = "admitted"]
    ELSE [w EXCEPT !.pc = "sending", !.left = Channels]
PassThrottle(r) ==
    /\ run[r].pc = "analysing"
    /\ ~run[r].suppress
    /\ ~Throttled(run[r])
    /\ LET others == TellingOf(run[r].stock)
       IN  run' = [q \in Runs |->
              IF q = r
              THEN [Admitted(run[r]) EXCEPT !.crowded = others # {}]
              ELSE IF q \in others
              THEN [run[q] EXCEPT !.crowded = TRUE] ELSE run[q]]
    /\ UNCHANGED <<scheduling, tables, history>>

\* suppress_notify returns before any check; a throttled alert is no error.
AlertDropped(r) ==
    /\ run[r].pc = "analysing"
    /\ run[r].suppress \/ Throttled(run[r])
    /\ Become(r, Passed(run[r]))
    /\ UNCHANGED <<scheduling, tables, history>>

\* check_and_mark_notify with mark = False: a check that fails lets the text
\* through.
Known(w, repeats) == repeats /\ dedupe[w.stock] <= DedupeTtl
CheckText(r) ==
    /\ run[r].pc = "admitted"
    /\ \E repeats, fails \in BOOLEAN :
          /\ fails \/ ~Known(run[r], repeats)
          /\ Become(r, [run[r] EXCEPT !.pc = "cleared", !.repeats = repeats])
    /\ UNCHANGED <<scheduling, tables, history>>

TextKnown(r) ==
    /\ run[r].pc = "admitted"
    /\ Known(run[r], TRUE)
    /\ Become(r, Passed(run[r]))
    /\ UNCHANGED <<scheduling, tables, history>>

\* Quiet hours: the notifier answers "skipped", which BaseAgent.run takes as
\* such and run_single as a failure without a message.
QuietHours(r) ==
    /\ \/ run[r].pc = "cleared"
       \/ /\ run[r].pc = "analysing"
          /\ run[r].kind # "one"
          /\ ~Throttled(run[r])
    /\ Become(r, Noted(run[r]))
    /\ UNCHANGED <<scheduling, tables, history>>

\* The first await of notify_with_result on a channel, in the thread of a run
\* for one stock.
StartSending(r) ==
    /\ run[r].pc = "cleared"
    /\ Become(r, [run[r] EXCEPT !.pc = "sending", !.left = Channels])
    /\ UNCHANGED <<scheduling, tables, history>>

-----------------------------------------------------------------------------
(* Sending.                                                                *)

\* What a channel leaves of the notification.  The attempts the policy allows
\* it are one step: in the end it has taken the message, or is given up.
Tried(w, ok) == [w EXCEPT !.left = w.left - 1, !.broken = w.broken \/ ~ok]

\* A channel may take the message and its answer be lost.
Took(w, took) == [w EXCEPT !.taken = w.taken \/ took]
Heard(w, took) ==
    heard' = IF took /\ ~w.bypass THEN [heard EXCEPT ![w.stock] = 0] ELSE heard

\* Another channel is still to come.  After the last one a run writes its mark
\* and looks at nothing in between, so its last channel is one step with it.
TryChannel(r) ==
    /\ run[r].pc = "sending"
    /\ \E took, ok \in BOOLEAN :
          /\ ok => took
          /\ Tried(run[r], ok).left > 0
          /\ Become(r, Took(Tried(run[r], ok), took))
          /\ Heard(run[r], took)
    /\ UNCHANGED <<scheduling, tables, told, toldText, unmarked>>

\* A notification that ended with no mark although a channel took it.
LeftUnmarked(w, took) ==
    unmarked' = IF (w.taken \/ took) /\ ~w.bypass
                THEN unmarked \cup {w.stock} ELSE unmarked

\* The last channel has given up, or another one had: success is FALSE, no
\* mark is written, and the channels that did take the message count for
\* nothing.
SendFails(r) ==
    /\ run[r].pc = "sending"
    /\ \E took, ok \in BOOLEAN :
          /\ ok => took
          /\ Tried(run[r], ok).left = 0
          /\ Tried(run[r], ok).broken
          /\ Become(r, Noted(Mishap(run[r])))
          /\ Heard(run[r], took)
          /\ LeftUnmarked(run[r], took)
    /\ UNCHANGED <<scheduling, tables, told, toldText>>

\* Mutant: the mark is written whether or not every channel took the message.
SendMarksAnyway(r) ==
    /\ run[r].pc = "sending"
    /\ run[r].kind # "one"
    /\ run[r].left = 1
    /\ Become(r, Passed(run[r]))
    /\ throttle' = [throttle EXCEPT ![run[r].stock] = 0]
    /\ told' = IF run[r].broken THEN told ELSE [told EXCEPT ![run[r].stock] = 0]
    /\ Heard(run[r], ~run[r].broken)
    /\ unmarked' = unmarked \ {run[r].stock}
    /\ UNCHANGED <<scheduling, dedupe, toldText>>

\* Every channel took the message: _update_throttle writes the mark, unless
\* this agent bypasses the throttle.
SendReachesAll(r) ==
    /\ run[r].pc = "sending"
    /\ run[r].kind # "one"
    /\ run[r].left = 1
    /\ ~run[r].broken
    /\ Become(r, Passed(run[r]))
    /\ throttle' = [throttle EXCEPT ![run[r].stock] = 0]
    /\ told' = [told EXCEPT ![run[r].stock] = 0]
    /\ Heard(run[r], TRUE)
    /\ unmarked' = unmarked \ {run[r].stock}
    /\ UNCHANGED <<scheduling, dedupe, toldText>>

\* The write of the mark fails: _update_throttle lets the exception out.
MarkFails(r) ==
    /\ run[r].pc = "sending"
    /\ run[r].kind # "one"
    /\ run[r].left = 1
    /\ ~run[r].broken
    /\ Become(r, Raised(run[r]))
    /\ Heard(run[r], TRUE)
    /\ LeftUnmarked(run[r], TRUE)
    /\ told' = [told EXCEPT ![run[r].stock] = 0]
    /\ UNCHANGED <<scheduling, tables, toldText>>

\* BaseAgent.run marks the text, not the stock.  check_and_mark_notify reads
\* the row again and leaves a fresh mark as it is; its failure is swallowed.
Marked(w) ==
    {dedupe} \cup
    (IF w.repeats /\ ~(dedupe[w.stock] <= DedupeTtl)
     THEN {[dedupe EXCEPT ![w.stock] = 0]} ELSE {})

SendReachesAllOnce(r) ==
    /\ run[r].pc = "sending"
    /\ run[r].kind = "one"
    /\ run[r].left = 1
    /\ ~run[r].broken
    /\ Become(r, Passed(run[r]))
    /\ dedupe' \in Marked(run[r])
    /\ toldText' = IF run[r].repeats
                   THEN [toldText EXCEPT ![run[r].stock] = 0] ELSE toldText
    /\ Heard(run[r], TRUE)
    /\ LeftUnmarked(run[r], TRUE)
    /\ UNCHANGED <<scheduling, throttle, told>>

-----------------------------------------------------------------------------
(* Time and the process.                                                   *)

Older(age) == [s \in Stocks |-> IF age[s] < Old THEN age[s] + 1 ELSE Old]

Tick ==
    /\ \E s \in Stocks :
          {throttle[s], dedupe[s], told[s], toldText[s], heard[s]} # {Old}
    /\ throttle' = Older(throttle)
    /\ dedupe' = Older(dedupe)
    /\ told' = Older(told)
    /\ toldText' = Older(toldText)
    /\ heard' = Older(heard)
    /\ unmarked' = {s \in unmarked : heard'[s] <= Throttle}
    /\ UNCHANGED <<run, scheduling>>

\* Some runs end where they stand.  A channel may yet take the message that
\* was on its way to it; no mark is written.
Cut(R) ==
    \E late \in SUBSET {r \in R : run[r].pc = "sending" /\ ~run[r].bypass} :
       LET reached == {run[r].stock : r \in late}
           half == {run[r].stock : r \in {q \in R : run[q].taken /\ ~run[q].bypass}}
       IN  /\ run' = [r \in Runs |-> IF r \in R THEN FreeRun ELSE run[r]]
           /\ heard' = [s \in Stocks |-> IF s \in reached THEN 0 ELSE heard[s]]
           /\ unmarked' = unmarked \cup reached \cup half
           /\ UNCHANGED <<tables, told, toldText>>

\* reload_scheduler, called from a worker thread by the import of a template:
\* shutdown is handed to the event loop, where it cancels the scheduled runs
\* under way (no row is written, `except Exception` does not catch it); the
\* new scheduler cannot start in a thread without a loop.
Reload ==
    /\ scheduling
    /\ scheduling' = FALSE
    /\ Cut({r \in Runs : run[r].kind = "scheduled" /\ ~Idle(r)})

\* The process stops: its runs are gone, the tables are on disk.
Restart ==
    /\ ~scheduling \/ \E r \in Runs : ~Idle(r)
    /\ scheduling' = TRUE
    /\ Cut({r \in Runs : ~Idle(r)})

RunStep(r) ==
    \/ NextStock(r) \/ EndLoop(r)
    \/ NothingToTell(r) \/ AnalysisFails(r) \/ AlertDropped(r)
    \/ PassThrottle(r) \/ CheckText(r) \/ TextKnown(r) \/ QuietHours(r)
    \/ StartSending(r) \/ TryChannel(r) \/ SendFails(r) \/ SendReachesAll(r) \/ MarkFails(r)
    \/ SendReachesAllOnce(r)

Start(r) == Fire(r) \/ TriggerAll(r) \/ TriggerOne(r)

Next ==
    \/ \E r \in Runs : Start(r) \/ RunStep(r)
    \/ Reload
    \/ Tick
    \/ Restart

Spec == Init /\ [][Next]_vars

-----------------------------------------------------------------------------
(* Properties.                                                             *)

\* A mark is never fresher than a notification every channel took: an alert
\* is silenced only by one that got through in full, never by one that was
\* tried and failed (run_single and BaseAgent.run mark after the send).
MarksAreEarned ==
    \A s \in Stocks : told[s] <= throttle[s] /\ toldText[s] <= dedupe[s]

\* A run that the throttle has let through tells, within the window, of a stock
\* some channel has heard of already, for one of two reasons: another run was
\* between its throttle check and the end of its notification on the stock
\* while this one was, or a notification that a channel took ended without the
\* mark that would have stopped this one.
RepeatsAreExplained ==
    \A r \in Runs :
        /\ run[r].pc \in Telling
        /\ ~run[r].bypass
        /\ ~run[r].taken
        /\ heard[run[r].stock] <= Throttle
        => run[r].crowded \/ run[r].stock \in unmarked

\* A scheduled run that is over has come to every stock of the list, however
\* many of them failed, and its row says "success" only if no analysis and
\* no notification of it failed.
RunTellsTheTruth ==
    \A r \in Runs :
        run[r].kind = "scheduled" /\ run[r].pc = "done" =>
            /\ run[r].seen = Stocks
            /\ run[r].record = "success" => ~run[r].mishap
=============================================================================
