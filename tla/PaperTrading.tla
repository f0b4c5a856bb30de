----------------------------- MODULE PaperTrading -----------------------------
(***************************************************************************)
(* The paper-trading ledger of src/modules/paper_trading: one account row, *)
(* the positions and the trades, and the threads that work on them.        *)
(*                                                                         *)
(* Scans (the scheduler's and POST /scan), manual closes, settings and     *)
(* resets each run in a thread with a database session of their own.  A    *)
(* SELECT of such a session starts no transaction (pysqlite), so each read *)
(* here is a step of its own, a loaded row stays as it was read until the  *)
(* session commits, and a commit writes absolute values computed from the  *)
(* loaded ones.  An UPDATE of a row that is gone raises StaleDataError and *)
(* the session rolls back; any session may fail before it commits (quotes, *)
(* "database is locked").                                                  *)
(*                                                                         *)
(* Abstracted: prices are per lot, all costs of a fill are one Fee, the    *)
(* exit rules are a choice, peak and drawdown are display values.          *)
(***************************************************************************)
EXTENDS Integers, SequencesExt

CONSTANTS
    Sessions,    \* the threads that may run at once
    Jobs,        \* what each of them may do
    Markets,
    Stocks,
    MarketOf,    \* the market of a stock
    Allocations, \* market allocations a user may set, in tenths of the capital
    Capitals,    \* initial capitals a user may set
    Prices,      \* quotes, per lot
    Weights,     \* position weights, in tenths of the market's budget
    Fee,         \* costs of one fill
    MaxOpens     \* bound on positions ever opened

ASSUME PaperAssumption ==
    /\ Jobs \in [Sessions -> SUBSET {"scan", "close", "settings", "reset"}]
    /\ MarketOf \in [Stocks -> Markets]
    /\ Allocations \subseteq [Markets -> 0..10]
    /\ Capitals \subseteq Nat
    /\ Prices \subseteq Nat \ {0}
    /\ Weights \subseteq 1..10
    /\ Fee \in Nat
    /\ MaxOpens \in Nat

VARIABLES
    \* rows
    account,    \* initial, cash, pnl and trade count, enabled, allocation
    positions,  \* by row id: SQLite hands out max(id) + 1, from 1 after a reset
    trades,
    opened,     \* positions ever opened; numbers them across resets
    \* sessions
    pc,
    cached,     \* the account as the session holds it, Expired after a commit
    todo,       \* stocks still to enter
    pool,       \* cash of each market's pool as this scan sees it
    opening,    \* positions to insert
    loaded,     \* rows read from positions, still to examine
    touched,    \* ids of rows the session will update
    closing,    \* ids it closes, with the trade of each
    \* history
    stale,      \* sessions under way that read before another one committed
    crossed     \* one of those has committed all the same

rows    == <<account, positions, trades, opened>>
session == <<pc, cached, todo, pool, opening, loaded, touched, closing>>
history == <<stale, crossed>>
vars    == <<rows, session, history>>

Expired == [expired |-> TRUE]

Outlay(p)          == p.price * p.lots + Fee
Proceeds(p, price) == price * p.lots - Fee

Account == [initial : Nat, cash : Int, pnl : Int, trades : Nat,
            enabled : BOOLEAN, alloc : Allocations]
Position == [serial : 1..MaxOpens, stock : Stocks, price : Prices, lots : Nat \ {0},
             open : BOOLEAN]
Trade    == [serial : 1..MaxOpens, stock : Stocks, pnl : Int]

TypeOK ==
    /\ account \in Account
    /\ positions \in Seq(Position)
    /\ trades \in Seq(Trade)
    /\ opened \in 0..MaxOpens
    /\ pc \in [Sessions -> {"idle", "signals", "quotes", "entries", "exits",
                            "examine", "manual", "settings"}]
    /\ cached \in [Sessions -> Account \cup {Expired}]
    /\ todo \in [Sessions -> SUBSET Stocks]
    /\ pool \in [Sessions -> [Markets -> Int]]
    /\ opening \in [Sessions -> Seq([stock : Stocks, price : Prices, lots : Nat \ {0}])]
    /\ loaded \in [Sessions -> SUBSET [id : Nat, pos : Position]]
    /\ touched \in [Sessions -> SUBSET Nat]
    /\ closing \in [Sessions -> SUBSET [id : Nat, trade : Trade]]
    /\ stale \subseteq {s \in Sessions : pc[s] # "idle"}
    /\ crossed \in BOOLEAN

EmptyPool == [m \in Markets |-> 0]

Init ==
    /\ \E c \in Capitals, a \in Allocations :
          account = [initial |-> c, cash |-> c, pnl |-> 0, trades |-> 0,
                     enabled |-> TRUE, alloc |-> a]
    /\ positions = <<>>
    /\ trades = <<>>
    /\ opened = 0
    /\ pc = [s \in Sessions |-> "idle"]
    /\ cached = [s \in Sessions |-> Expired]
    /\ todo = [s \in Sessions |-> {}]
    /\ pool = [s \in Sessions |-> EmptyPool]
    /\ opening = [s \in Sessions |-> <<>>]
    /\ loaded = [s \in Sessions |-> {}]
    /\ touched = [s \in Sessions |-> {}]
    /\ closing = [s \in Sessions |-> {}]
    /\ stale = {}
    /\ crossed = FALSE

-----------------------------------------------------------------------------
(* Queries.                                                                *)

OpenIds == {i \in DOMAIN positions : positions[i].open}

OpenStocks == {positions[i].stock : i \in OpenIds}

Budget(row, m) == (row.initial * row.alloc[m]) \div 10

\* compute_market_cash over market_realized_open: the cost of an open position
\* is its price times its quantity, without the fee the account paid.
market_available_cash(row, m) ==
    LET realized == [j \in {k \in DOMAIN trades : MarketOf[trades[k].stock] = m} |->
                        trades[j].pnl]
        cost     == [i \in {k \in OpenIds : MarketOf[positions[k].stock] = m} |->
                        positions[i].price * positions[i].lots]
    IN  Budget(row, m) + SumFunction(realized) - SumFunction(cost)

\* The weight's share of the budget in whole lots, at least one, and no more
\* than the cash pays for; 0 if it does not even pay for one.
_compute_quantity(budget, weight, price, cash) ==
    LET target == (budget * weight) \div (10 * price)
        wanted == IF target < 1 THEN 1 ELSE target
        fits   == {q \in 1..wanted : price * q + Fee <= cash}
    IN  IF fits = {} THEN 0 ELSE Max(fits)

-----------------------------------------------------------------------------
(* Sessions.                                                               *)

\* The session object is closed; nothing it did not commit remains.
Finished(s) ==
    /\ pc' = [pc EXCEPT ![s] = "idle"]
    /\ cached' = [cached EXCEPT ![s] = Expired]
    /\ todo' = [todo EXCEPT ![s] = {}]
    /\ pool' = [pool EXCEPT ![s] = EmptyPool]
    /\ opening' = [opening EXCEPT ![s] = <<>>]
    /\ loaded' = [loaded EXCEPT ![s] = {}]
    /\ touched' = [touched EXCEPT ![s] = {}]
    /\ closing' = [closing EXCEPT ![s] = {}]

\* An attribute of an expired row is read from the database again.
Row(s) == IF cached[s] = Expired THEN account ELSE cached[s]

\* The history of a commit, and of an end without one.
Commits(s) ==
    /\ stale' = {t \in Sessions \ {s} : pc[t] # "idle"}
    /\ crossed' = (crossed \/ s \in stale)
Leaves(s) == stale' = stale \ {s} /\ UNCHANGED crossed

Fails(s) ==
    /\ pc[s] # "idle"
    /\ Finished(s)
    /\ Leaves(s)
    /\ UNCHANGED rows

-----------------------------------------------------------------------------
(* _scan_sync: _check_entries, then _check_exits.                          *)

ScanBegins(s) ==
    /\ pc[s] = "idle" /\ "scan" \in Jobs[s]
    /\ account.enabled
    /\ cached' = [cached EXCEPT ![s] = account]
    /\ pc' = [pc EXCEPT ![s] = "signals"]
    /\ UNCHANGED <<rows, todo, pool, opening, loaded, touched, closing, history>>

\* faulty: stocks held already are candidates too
ReadSignalsHeld(s) ==
    /\ pc[s] = "signals"
    /\ \E signals \in SUBSET {k \in Stocks : cached[s].alloc[MarketOf[k]] > 0} :
          /\ todo' = [todo EXCEPT ![s] = signals]
          /\ pc' = [pc EXCEPT ![s] = IF todo'[s] = {} THEN "exits" ELSE "quotes"]
    /\ UNCHANGED <<rows, cached, pool, opening, loaded, touched, closing, history>>

\* One representative signal per stock, in markets with an allocation, for
\* stocks without an open position.
ReadSignals(s) ==
    /\ pc[s] = "signals"
    /\ \E signals \in SUBSET {k \in Stocks : cached[s].alloc[MarketOf[k]] > 0} :
          /\ todo' = [todo EXCEPT ![s] = signals \ OpenStocks]
          /\ pc' = [pc EXCEPT ![s] = IF todo'[s] = {} THEN "exits" ELSE "quotes"]
    /\ UNCHANGED <<rows, cached, pool, opening, loaded, touched, closing, history>>

\* The quotes have come over the network; the pools are read only now.
ReadPools(s) ==
    /\ pc[s] = "quotes"
    /\ pool' = [pool EXCEPT ![s] = [m \in Markets |-> market_available_cash(cached[s], m)]]
    /\ pc' = [pc EXCEPT ![s] = "entries"]
    /\ UNCHANGED <<rows, cached, todo, opening, loaded, touched, closing, history>>

Enter(s) ==
    /\ pc[s] = "entries"
    /\ \E k \in todo[s], price \in Prices, w \in Weights :
         LET m    == MarketOf[k]
             lots == _compute_quantity(Budget(cached[s], m), w, price, pool[s][m])
             p    == [stock |-> k, price |-> price, lots |-> lots]
         IN  /\ lots > 0
             /\ opened + Len(opening[s]) < MaxOpens
             /\ opening' = [opening EXCEPT ![s] = Append(@, p)]
             /\ pool' = [pool EXCEPT ![s][m] = @ - Outlay(p)]
             /\ cached' = [cached EXCEPT ![s].cash = @ - Outlay(p)]
             /\ todo' = [todo EXCEPT ![s] = @ \ {k}]
    /\ UNCHANGED <<rows, pc, loaded, touched, closing, history>>

\* No usable quote, no cost model, or not one lot is affordable.
Skip(s) ==
    /\ pc[s] = "entries"
    /\ \E k \in todo[s] : todo' = [todo EXCEPT ![s] = @ \ {k}]
    /\ UNCHANGED <<rows, pc, cached, pool, opening, loaded, touched, closing, history>>

\* Commit of the entries: it expires what the session has loaded.
CommitEntries(s) ==
    /\ pc[s] = "entries" /\ todo[s] = {} /\ opening[s] # <<>>
    /\ opened + Len(opening[s]) <= MaxOpens
    /\ positions' = positions \o
          [i \in DOMAIN opening[s] |->
              [serial |-> opened + i, stock |-> opening[s][i].stock,
               price |-> opening[s][i].price, lots |-> opening[s][i].lots, open |-> TRUE]]
    /\ opened' = opened + Len(opening[s])
    /\ account' = [account EXCEPT !.cash = cached[s].cash]
    /\ cached' = [cached EXCEPT ![s] = Expired]
    /\ pc' = [pc EXCEPT ![s] = "exits"]
    /\ Commits(s)
    /\ UNCHANGED <<trades, todo, pool, opening, loaded, touched, closing>>

NoEntries(s) ==
    /\ pc[s] = "entries" /\ todo[s] = {} /\ opening[s] = <<>>
    /\ pc' = [pc EXCEPT ![s] = "exits"]
    /\ UNCHANGED <<rows, cached, todo, pool, opening, loaded, touched, closing, history>>

\* faulty: the status filter is missing
ReadPositionsAll(s) ==
    /\ pc[s] = "exits"
    /\ positions # <<>>
    /\ loaded' = [loaded EXCEPT ![s] = {[id |-> i, pos |-> positions[i]] : i \in DOMAIN positions}]
    /\ pc' = [pc EXCEPT ![s] = "examine"]
    /\ UNCHANGED <<rows, cached, todo, pool, opening, touched, closing, history>>

\* The open positions as they are before the quotes are fetched.
ReadPositions(s) ==
    /\ pc[s] = "exits"
    /\ IF OpenIds = {}
       THEN Finished(s) /\ Leaves(s)
       ELSE /\ loaded' = [loaded EXCEPT ![s] = {[id |-> i, pos |-> positions[i]] : i \in OpenIds}]
            /\ pc' = [pc EXCEPT ![s] = "examine"]
            /\ UNCHANGED <<cached, todo, pool, opening, touched, closing, history>>
    /\ UNCHANGED rows

\* faulty: the profit forgets the fee paid on entry
close_without_entry_fee(s, row, price) ==
    LET gain == Proceeds(row.pos, price) - row.pos.price * row.pos.lots
    IN  /\ closing' = [closing EXCEPT ![s] = @ \cup
              {[id |-> row.id, trade |-> [serial |-> row.pos.serial,
                                          stock |-> row.pos.stock, pnl |-> gain]]}]
        /\ touched' = [touched EXCEPT ![s] = @ \cup {row.id}]
        /\ cached' = [cached EXCEPT ![s] =
              [Row(s) EXCEPT !.cash = @ + Proceeds(row.pos, price),
                             !.pnl = @ + gain, !.trades = @ + 1]]

\* The trade and the account's new totals, in memory until the commit.
_close_position(s, row, price) ==
    LET gain == Proceeds(row.pos, price) - Outlay(row.pos)
    IN  /\ closing' = [closing EXCEPT ![s] = @ \cup
              {[id |-> row.id, trade |-> [serial |-> row.pos.serial,
                                          stock |-> row.pos.stock, pnl |-> gain]]}]
        /\ touched' = [touched EXCEPT ![s] = @ \cup {row.id}]
        /\ cached' = [cached EXCEPT ![s] =
              [Row(s) EXCEPT !.cash = @ + Proceeds(row.pos, price),
                             !.pnl = @ + gain, !.trades = @ + 1]]

NewStocks(s) == {opening[s][i].stock : i \in DOMAIN opening[s]}

\* A stop, a target, a reversed signal or the holding limit.
Exit(s) ==
    /\ pc[s] = "examine"
    /\ \E row \in loaded[s], price \in Prices :
          /\ row.pos.stock \notin NewStocks(s)
          /\ _close_position(s, row, price)
          /\ loaded' = [loaded EXCEPT ![s] = @ \ {row}]
    /\ UNCHANGED <<rows, pc, todo, pool, opening, history>>

\* No exit: a row of this scan, no usable quote, or only a new current price.
Keep(s) ==
    /\ pc[s] = "examine"
    /\ \E row \in loaded[s] :
          /\ \/ UNCHANGED touched
             \/ /\ row.pos.stock \notin NewStocks(s)
                /\ touched' = [touched EXCEPT ![s] = @ \cup {row.id}]
          /\ loaded' = [loaded EXCEPT ![s] = @ \ {row}]
    /\ UNCHANGED <<rows, pc, cached, todo, pool, opening, closing, history>>

\* The commit of a session that closes positions.
WriteCloses(s) ==
    /\ positions' = [i \in DOMAIN positions |->
          IF \E c \in closing[s] : c.id = i
          THEN [positions[i] EXCEPT !.open = FALSE] ELSE positions[i]]
    /\ trades' = trades \o SetToSeq({c.trade : c \in closing[s]})
    /\ account' = IF closing[s] = {} THEN account
                  ELSE [account EXCEPT !.cash = cached[s].cash, !.pnl = cached[s].pnl,
                                       !.trades = cached[s].trades]

\* StaleDataError (Fails) unless every row to update is still there.
CommitExits(s) ==
    /\ pc[s] = "examine" /\ loaded[s] = {}
    /\ touched[s] \subseteq DOMAIN positions
    /\ WriteCloses(s)
    /\ IF closing[s] = {} THEN Leaves(s) ELSE Commits(s)
    /\ Finished(s)
    /\ UNCHANGED opened

-----------------------------------------------------------------------------
(* close_position_manual.                                                  *)

CloseBegins(s) ==
    /\ pc[s] = "idle" /\ "close" \in Jobs[s]
    /\ \E i \in OpenIds : loaded' = [loaded EXCEPT ![s] = {[id |-> i, pos |-> positions[i]]}]
    /\ cached' = [cached EXCEPT ![s] = account]
    /\ pc' = [pc EXCEPT ![s] = "manual"]
    /\ UNCHANGED <<rows, todo, pool, opening, touched, closing, history>>

\* The quote has come: close at it, then commit as a scan does.
CloseManual(s) ==
    /\ pc[s] = "manual"
    /\ \E row \in loaded[s], price \in Prices : _close_position(s, row, price)
    /\ loaded' = [loaded EXCEPT ![s] = {}]
    /\ pc' = [pc EXCEPT ![s] = "examine"]
    /\ UNCHANGED <<rows, todo, pool, opening, history>>

-----------------------------------------------------------------------------
(* The account's handlers in api/paper_trading.py.                         *)

toggle_account(s) ==
    /\ pc[s] = "idle" /\ "settings" \in Jobs[s]
    /\ account' = [account EXCEPT !.enabled = ~@]
    /\ UNCHANGED <<positions, trades, opened, session, history>>

SettingsBegins(s) ==
    /\ pc[s] = "idle" /\ "settings" \in Jobs[s]
    /\ cached' = [cached EXCEPT ![s] = account]
    /\ pc' = [pc EXCEPT ![s] = "settings"]
    /\ UNCHANGED <<rows, todo, pool, opening, loaded, touched, closing, history>>

\* A new capital moves the cash by the difference.
update_settings(s) ==
    /\ pc[s] = "settings"
    /\ \E c \in Capitals, a \in Allocations :
          account' = [account EXCEPT !.initial = c, !.alloc = a,
                         !.cash = IF c = cached[s].initial THEN @
                                  ELSE cached[s].cash + c - cached[s].initial]
    /\ Commits(s)
    /\ Finished(s)
    /\ UNCHANGED <<positions, trades, opened>>

\* One transaction: the DELETEs take the write lock before the row is read.
reset_account(s) ==
    /\ pc[s] = "idle" /\ "reset" \in Jobs[s]
    /\ positions' = <<>>
    /\ trades' = <<>>
    /\ account' = [account EXCEPT !.cash = account.initial, !.pnl = 0, !.trades = 0,
                                  !.enabled = TRUE]
    /\ Commits(s)
    /\ UNCHANGED <<opened, session>>

-----------------------------------------------------------------------------
Scan(s) ==
    \/ ScanBegins(s) \/ ReadSignals(s) \/ ReadPools(s)
    \/ Enter(s) \/ Skip(s) \/ CommitEntries(s) \/ NoEntries(s)
    \/ ReadPositions(s) \/ Exit(s) \/ Keep(s) \/ CommitExits(s)

Manual(s) == CloseBegins(s) \/ CloseManual(s)

Handlers(s) ==
    toggle_account(s) \/ SettingsBegins(s) \/ update_settings(s) \/ reset_account(s)

Next == \E s \in Sessions : Scan(s) \/ Manual(s) \/ Handlers(s) \/ Fails(s)

Spec == Init /\ [][Next]_vars

-----------------------------------------------------------------------------
\* No row is written on the strength of what it was, so sessions that cross
\* lose each other's updates.  The properties say what the code keeps, through
\* any failure, as long as no session commits that had read before another
\* one committed.

\* Funds are conserved: the cash is the capital plus what the closed trades
\* made minus what the open positions cost, fees included.
CashConserved ==
    account.cash = account.initial + account.pnl
                   - SumFunction([i \in OpenIds |-> Outlay(positions[i])])

\* The account's running totals agree with the trades.
TotalsAgree ==
    /\ account.trades = Len(trades)
    /\ account.pnl = SumFunction([j \in DOMAIN trades |-> trades[j].pnl])

\* The rows are well-formed, the cash is accounted for, and the account page
\* and the per-market page, which compute the same figures from the account
\* and from the trades, agree (_close_position, _check_entries, reset_account).
BooksBalance == TypeOK /\ (~crossed => CashConserved /\ TotalsAgree)

\* A position is closed by one trade only, though scans and manual closes
\* select it long before they commit (_check_exits, close_position_manual).
ClosedOnce ==
    ~crossed => \A j, k \in DOMAIN trades : trades[j].serial = trades[k].serial => j = k

\* A stock has one open position at most: a second scan adds none
\* (_check_entries).
OneOpenPerStock ==
    ~crossed => \A i, j \in OpenIds : positions[i].stock = positions[j].stock => i = j
=============================================================================
