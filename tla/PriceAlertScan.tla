---------------------------- MODULE PriceAlertScan ----------------------------
(***************************************************************************)
(* The price-alert engine of src/modules/market: scans that check rules,   *)
(* record a hit, notify, and update the rule; and the handlers by which    *)
(* users edit rules meanwhile.                                             *)
(*                                                                         *)
(* A scan is a coroutine with a database session of its own: the scheduler *)
(* runs one at a time, POST /price-alerts/scan any number beside it.  Rows *)
(* a session loaded stay as loaded until it commits or rolls back, which   *)
(* expires them all.  A flush takes SQLite's write lock, and only the end  *)
(* of the transaction, after the notification, releases it: meanwhile      *)
(* every other writer waits five seconds and fails.  The flush may come    *)
(* before the scan asks for it: reading an expired row again first flushes *)
(* whatever the session has changed (autoflush).                           *)
(*                                                                         *)
(* Abstracted: whether a rule has a usable quote, its market is open and   *)
(* its conditions match is a choice of every examination.                  *)
(***************************************************************************)
EXTENDS Integers, FiniteSets, Functions

CONSTANTS
    Scans,        \* coroutines that may scan at once
    NoScan,
    Rules,
    NoRule,
    OnceRules,    \* those with repeat_mode "once"
    Cooldown,     \* cooldown_minutes
    MaxPerDay,    \* max_triggers_per_day, 0 for no limit
    MinutesInDay, \* 1440 in reality
    MaxClock,     \* bound on time
    MaxScans,     \* bound on the scans that begin
    MaxEvents     \* bound on user edits and crashes, together

ASSUME AlertAssumption ==
    /\ NoScan \notin Scans
    /\ NoRule \notin Rules
    /\ IsFiniteSet(Rules)
    /\ OnceRules \subseteq Rules
    /\ {Cooldown, MaxPerDay, MaxClock, MaxScans, MaxEvents} \subseteq Nat
    /\ MinutesInDay \in Nat \ {0}

VARIABLES
    \* rows
    rules,     \* price_alert_rules, Deleted once a user deleted the rule
    hits,      \* committed price_alert_hits, as <<rule, minute>>
    lock,      \* the scan whose open transaction holds the write lock
    \* scans
    stage,
    now,       \* minute at which the scan began
    held,      \* the rule rows as the scan holds them, ExpiredRow ones not
    dirty,     \* rules whose daily window the scan has reset and not written
    due,
    current,   \* the rule in hand
    \* the world
    clock,
    sent,      \* notifications, by rule and trigger minute
    edits,     \* edits of each rule
    crashes,
    begun,     \* scans so far
    raced      \* history: rules of which a scan has used or written a row that
               \* another scan had overtaken

tables  == <<rules, hits, lock>>
scan  == <<stage, now, held, dirty, due, current>>
world == <<clock, sent, edits, crashes, begun, raced>>
alert_vars == <<tables, scan, world>>

Never   == -1
Deleted == [deleted |-> TRUE]
ExpiredRow == [expired |-> TRUE]
Minutes == 0..MaxClock
Day(minute) == minute \div MinutesInDay

Rule == [enabled : BOOLEAN, last : Minutes \cup {Never}, count : Nat,
         date : {Day(m) : m \in Minutes} \cup {Never}]

AlertTypeOK ==
    /\ rules \in [Rules -> Rule \cup {Deleted}]
    /\ hits \subseteq Rules \X Minutes
    /\ lock \in Scans \cup {NoScan}
    /\ stage \in [Scans -> {"idle", "rules", "gated", "notify", "sent"}]
    /\ now \in [Scans -> Minutes]
    /\ held \in [Scans -> [Rules -> Rule \cup {ExpiredRow, Deleted}]]
    /\ dirty \in [Scans -> SUBSET Rules]
    /\ due \in [Scans -> SUBSET Rules]
    /\ current \in [Scans -> Rules \cup {NoRule}]
    /\ clock \in Minutes
    /\ sent \in [Rules \X Minutes -> Nat]
    /\ edits \in [Rules -> 0..MaxEvents]
    /\ crashes \in 0..MaxEvents
    /\ begun \in 0..MaxScans
    /\ raced \subseteq Rules
    /\ \A s \in Scans :
         /\ stage[s] \in {"notify", "sent"} => lock = s
         /\ lock = s => stage[s] # "idle" /\ (stage[s] = "rules" => dirty[s] # {})

AllExpired == [r \in Rules |-> ExpiredRow]

AlertInit ==
    /\ rules = [r \in Rules |-> [enabled |-> TRUE, last |-> Never, count |-> 0, date |-> Never]]
    /\ hits = {}
    /\ lock = NoScan
    /\ stage = [s \in Scans |-> "idle"]
    /\ now = [s \in Scans |-> 0]
    /\ held = [s \in Scans |-> AllExpired]
    /\ dirty = [s \in Scans |-> {}]
    /\ due = [s \in Scans |-> {}]
    /\ current = [s \in Scans |-> NoRule]
    /\ clock = 0
    /\ sent = [k \in Rules \X Minutes |-> 0]
    /\ edits = [r \in Rules |-> 0]
    /\ crashes = 0
    /\ begun = 0
    /\ raced = {}

-----------------------------------------------------------------------------
(* A scan.                                                                 *)

\* The row as an attribute access finds it.
RuleRow(s, r) == IF held[s][r] = ExpiredRow THEN rules[r] ELSE held[s][r]

Release(s) == lock' = IF lock = s THEN NoScan ELSE lock

\* The rows the scan has changed can be written: no other writer, and none of
\* them is gone.
CanFlush(s) ==
    /\ lock \in {NoScan, s}
    /\ \A r \in dirty[s] : rules[r] # Deleted

\* Reading rule r, which flushes first if that means a query.
Reads(s, r) ==
    /\ RuleRow(s, r) # Deleted
    /\ IF held[s][r] = ExpiredRow /\ dirty[s] # {}
       THEN CanFlush(s) /\ lock' = s
       ELSE UNCHANGED lock

\* The session is closed, and with it whatever it did not commit.
SessionCloses(s) ==
    /\ Release(s)
    /\ stage' = [stage EXCEPT ![s] = "idle"]
    /\ held' = [held EXCEPT ![s] = AllExpired]
    /\ dirty' = [dirty EXCEPT ![s] = {}]
    /\ due' = [due EXCEPT ![s] = {}]
    /\ now' = [now EXCEPT ![s] = 0]
    /\ current' = [current EXCEPT ![s] = NoRule]

AlertScanBegins(s) ==
    /\ stage[s] = "idle"
    /\ begun < MaxScans
    /\ begun' = begun + 1
    /\ now' = [now EXCEPT ![s] = clock]
    /\ LET enabled == {r \in Rules : rules[r] # Deleted /\ rules[r].enabled}
       IN  /\ enabled # {}
           /\ due' = [due EXCEPT ![s] = enabled]
           /\ held' = [held EXCEPT ![s] =
                 [r \in Rules |-> IF r \in enabled THEN rules[r] ELSE ExpiredRow]]
    /\ stage' = [stage EXCEPT ![s] = "rules"]
    /\ UNCHANGED <<tables, dirty, current, clock, sent, edits, crashes, raced>>

\* No stock, no usable quote, market closed, expired: nothing is touched.
Pass(s) ==
    /\ stage[s] = "rules"
    /\ \E r \in due[s] :
         /\ Reads(s, r)
         /\ held' = [held EXCEPT ![s][r] = RuleRow(s, r)]
         /\ due' = [due EXCEPT ![s] = @ \ {r}]
    /\ UNCHANGED <<rules, hits, stage, now, dirty, current, world>>

\* The row as the scan sees it: with the daily window moved to its day.
Rolled(s, row) ==
    IF row.date = Day(now[s]) THEN row
    ELSE [row EXCEPT !.date = Day(now[s]), !.count = 0]

\* faulty: one trigger too many a day
can_trigger_over(s, r, row) ==
    /\ row.enabled
    /\ MaxPerDay > 0 => row.count <= MaxPerDay
    /\ r \in OnceRules => row.last = Never
    /\ row.last # Never => now[s] - row.last >= Cooldown

_can_trigger(s, r, row) ==
    /\ row.enabled
    /\ MaxPerDay > 0 => row.count < MaxPerDay
    /\ r \in OnceRules => row.last = Never
    /\ row.last # Never => now[s] - row.last >= Cooldown

\* The gate moves the daily window of the loaded row even when it then holds
\* the rule back or the conditions do not match.
Gate(s) ==
    /\ stage[s] = "rules"
    /\ \E r \in due[s] :
         /\ Reads(s, r)
         /\ LET row == Rolled(s, RuleRow(s, r))
            IN  /\ held' = [held EXCEPT ![s][r] = RuleRow(s, r)]
                /\ dirty' = [dirty EXCEPT ![s] = IF row = RuleRow(s, r) THEN @ ELSE @ \cup {r}]
                /\ \/ UNCHANGED <<stage, current>>
                   \/ /\ _can_trigger(s, r, row)
                      /\ stage' = [stage EXCEPT ![s] = "gated"]
                      /\ current' = [current EXCEPT ![s] = r]
         /\ due' = [due EXCEPT ![s] = @ \ {r}]
    /\ UNCHANGED <<rules, hits, now, world>>

\* An expired row that a user deleted meanwhile, or a flush that fails before
\* it is read again: the exception ends the scan.
RowGone(s) ==
    /\ stage[s] = "rules"
    /\ \E r \in due[s] :
         /\ held[s][r] = ExpiredRow
         /\ rules[r] = Deleted \/ (dirty[s] # {} /\ ~CanFlush(s))
    /\ SessionCloses(s)
    /\ UNCHANGED <<rules, hits, world>>

\* The flush of the hit succeeds: its rule is there and has no hit of that
\* minute.
Flushes(s) ==
    /\ CanFlush(s)
    /\ rules[current[s]] # Deleted
    /\ <<current[s], now[s]>> \notin hits

\* Another scan has triggered the rule since this one loaded it, or moved its
\* daily window on to a day this scan, begun before midnight, knows nothing of.
Overtaken(s, r) ==
    /\ rules[r] # Deleted
    /\ held[s][r].last # rules[r].last \/ rules[r].date > Day(now[s])

RecordHit(s) ==
    /\ stage[s] = "gated"
    /\ Flushes(s)
    /\ lock' = s
    /\ raced' = IF Overtaken(s, current[s]) THEN raced \cup {current[s]} ELSE raced
    /\ stage' = [stage EXCEPT ![s] = "notify"]
    /\ UNCHANGED <<rules, hits, now, held, dirty, due, current, clock, sent, edits, crashes, begun>>

\* Any failure of the flush counts as a duplicate; the rollback expires all.
Duplicated(s) ==
    /\ stage[s] = "gated"
    /\ ~Flushes(s)
    /\ held' = [held EXCEPT ![s] = AllExpired]
    /\ dirty' = [dirty EXCEPT ![s] = {}]
    /\ Release(s)
    /\ stage' = [stage EXCEPT ![s] = "rules"]
    /\ UNCHANGED <<rules, hits, now, due, current, world>>

\* All channels have been tried; a failure is recorded like a success.
_send_notify(s) ==
    /\ stage[s] = "notify"
    /\ sent' = [sent EXCEPT ![<<current[s], now[s]>>] = @ + 1]
    /\ stage' = [stage EXCEPT ![s] = "sent"]
    /\ UNCHANGED <<tables, now, held, dirty, due, current, clock, edits, crashes, begun, raced>>

\* An UPDATE has the columns whose value differs from the loaded one, no others.
Window(s, r, row) ==
    IF r \notin dirty[s] THEN row
    ELSE [row EXCEPT !.date = Day(now[s]), !.count = IF held[s][r].count = 0 THEN @ ELSE 0]

Triggered(s, r, row) ==
    [Window(s, r, row) EXCEPT !.last = now[s],
                              !.count = Rolled(s, held[s][r]).count + 1,
                              !.enabled = @ /\ r \notin OnceRules]

\* faulty: the hit is not written with the rule
CommitRuleOnly(s) ==
    /\ stage[s] = "sent"
    /\ rules' = [r \in Rules |->
          IF r = current[s] THEN Triggered(s, r, rules[r]) ELSE Window(s, r, rules[r])]
    /\ UNCHANGED hits
    /\ lock' = NoScan
    /\ held' = [held EXCEPT ![s] = AllExpired]
    /\ dirty' = [dirty EXCEPT ![s] = {}]
    /\ stage' = [stage EXCEPT ![s] = "rules"]
    /\ UNCHANGED <<now, due, current, world>>

\* The hit, the trigger, and the daily windows of the other rules this session
\* has rolled.
Commit(s) ==
    /\ stage[s] = "sent"
    /\ rules' = [r \in Rules |->
          IF r = current[s] THEN Triggered(s, r, rules[r]) ELSE Window(s, r, rules[r])]
    /\ hits' = hits \cup {<<current[s], now[s]>>}
    /\ lock' = NoScan
    /\ held' = [held EXCEPT ![s] = AllExpired]
    /\ dirty' = [dirty EXCEPT ![s] = {}]
    /\ stage' = [stage EXCEPT ![s] = "rules"]
    /\ raced' = raced \cup {r \in dirty[s] : Overtaken(s, r)}
    /\ UNCHANGED <<now, due, current, clock, sent, edits, crashes, begun>>

ScanEnds(s) ==
    /\ stage[s] = "rules" /\ due[s] = {}
    /\ SessionCloses(s)
    /\ UNCHANGED <<rules, hits, world>>

-----------------------------------------------------------------------------
(* Users, time and crashes.                                                *)

Events == crashes + SumFunctionOnSet(edits, Rules)

Edit(r) ==
    /\ lock = NoScan
    /\ rules[r] # Deleted
    /\ Events < MaxEvents
    /\ edits' = [edits EXCEPT ![r] = @ + 1]

toggle_alert_rule(r) ==
    /\ Edit(r)
    /\ rules' = [rules EXCEPT ![r].enabled = ~@]
    /\ UNCHANGED <<hits, lock, scan, clock, sent, crashes, begun, raced>>

\* Every update starts the daily window anew.
update_alert_rule(r) ==
    /\ Edit(r)
    /\ rules' = [rules EXCEPT ![r].count = 0, ![r].date = Never]
    /\ UNCHANGED <<hits, lock, scan, clock, sent, crashes, begun, raced>>

delete_alert_rule(r) ==
    /\ Edit(r)
    /\ rules' = [rules EXCEPT ![r] = Deleted]
    /\ hits' = {h \in hits : h[1] # r}
    /\ UNCHANGED <<lock, scan, clock, sent, crashes, begun, raced>>

Tick ==
    /\ clock < MaxClock
    /\ clock' = clock + 1
    /\ UNCHANGED <<tables, scan, sent, edits, crashes, begun, raced>>

Crash ==
    /\ Events < MaxEvents
    /\ crashes' = crashes + 1
    /\ lock' = NoScan
    /\ stage' = [s \in Scans |-> "idle"]
    /\ held' = [s \in Scans |-> AllExpired]
    /\ dirty' = [s \in Scans |-> {}]
    /\ due' = [s \in Scans |-> {}]
    /\ now' = [s \in Scans |-> 0]
    /\ current' = [s \in Scans |-> NoRule]
    /\ UNCHANGED <<rules, hits, clock, sent, edits, begun, raced>>

-----------------------------------------------------------------------------
Scanning(s) ==
    \/ AlertScanBegins(s) \/ Pass(s) \/ Gate(s) \/ RowGone(s)
    \/ RecordHit(s) \/ Duplicated(s) \/ _send_notify(s) \/ Commit(s) \/ ScanEnds(s)

Users == \E r \in Rules : toggle_alert_rule(r) \/ update_alert_rule(r) \/ delete_alert_rule(r)

AlertNext == (\E s \in Scans : Scanning(s)) \/ Users \/ Tick \/ Crash

AlertSpec == AlertInit /\ [][AlertNext]_alert_vars

-----------------------------------------------------------------------------
\* However many scans overlap, a rule notifies once for a minute, and once
\* more for each crash that lost the hit of a notification already sent.
OncePerMinute ==
    \A r \in Rules, m \in Minutes : sent[<<r, m>>] <= 1 + crashes

\* A hit on record has been notified, once; a notification without a hit on
\* record is still being committed, was lost in a crash, or its rule is
\* deleted.  The scan that is notifying holds the write lock (AlertTypeOK).
HitsMatchNotifications ==
    /\ AlertTypeOK
    /\ OncePerMinute
    /\ \A r \in Rules, m \in Minutes :
        /\ <<r, m>> \in hits => sent[<<r, m>>] > 0
        /\ sent[<<r, m>>] > 0 /\ crashes = 0 /\ rules[r] # Deleted =>
              \/ <<r, m>> \in hits
              \/ \E s \in Scans : stage[s] = "sent" /\ current[s] = r /\ now[s] = m

Times(r, S) == SumFunction([m \in S |-> sent[<<r, m>>]])

\* A rule set to fire once notifies once, whatever users edit meanwhile.
OnceIsOnce(r) == r \in OnceRules => Times(r, Minutes) <= 1 + crashes

\* Two triggers of a rule are a cooldown apart.
CooldownKept(r) ==
    crashes = 0 => \A m, n \in Minutes :
        m < n /\ sent[<<r, m>>] > 0 /\ sent[<<r, n>>] > 0 => n - m >= Cooldown

\* A rule triggers at most max_triggers_per_day times a day, counted anew
\* whenever the rule is edited.
DailyLimitKept(r) ==
    MaxPerDay > 0 => \A d \in {Day(m) : m \in Minutes} :
        Times(r, {m \in Minutes : Day(m) = d}) <= MaxPerDay * (1 + edits[r]) + crashes

\* Whatever scans overlap and users edit, a rule exceeds its repeat mode, its
\* cooldown or its daily limit only if a scan triggered it on, or wrote its
\* daily window from, a row that another scan had overtaken (_can_trigger looks
\* at the row as it was loaded, POST /price-alerts/scan runs beside the
\* scheduler, and a scan counts the day from the minute at which it began).
LimitsKeptUnlessRaced ==
    \A r \in Rules \ raced : OnceIsOnce(r) /\ CooldownKept(r) /\ DailyLimitKept(r)
=============================================================================
