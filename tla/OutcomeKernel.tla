---------------------------- MODULE OutcomeKernel ----------------------------
(***************************************************************************)
(* The evaluation kernel of src/modules/strategy/outcome_kernel.py: what   *)
(* became of a sealed decision, read off the daily bars that follow it.    *)
(*                                                                         *)
(* Session i is the i-th session of the exchange after the decision.  A    *)
(* bar is evidence of its session only if it was received after the close. *)
(* What the feed has shown of the sessions so far is a "view"; the "tape"  *)
(* is what really happened in them.                                        *)
(*                                                                         *)
(* Abstracted: a bar that fails validation for any other reason (identity, *)
(* provenance, OHLC) counts as unfinished, and lot sizes, costs and net    *)
(* returns are left out: a gross return is the pair of its two prices.     *)
(***************************************************************************)
EXTENDS Integers

CONSTANTS
    EntrySessions,  \* sessions a limit order stays open: 3
    Horizon,        \* horizon_sessions
    Stop, Limit, Target

ASSUME PlanAssumption ==
    /\ EntrySessions \in Nat \ {0}
    /\ Horizon \in Nat \ {0}
    /\ {Stop, Limit, Target} \subseteq Nat \ {0}
    /\ Stop < Limit /\ Limit < Target

Sessions == 1..(EntrySessions + Horizon)
Bar      == {b \in [open : Nat, high : Nat, low : Nat, close : Nat] :
               b.low \in 1..b.open /\ b.low <= b.close
               /\ b.open <= b.high /\ b.close <= b.high}
Tape     == [Sessions -> Bar]
View     == [Sessions -> {"missing", "unfinished", "final"}]

NoDay   == 0
NoPrice == 0
Days    == Sessions \cup {NoDay}

Result == [status   : {"PENDING", "INSUFFICIENT_DATA", "COMPLETE", "AMBIGUOUS"},
           entry    : {"PENDING", "FILLED", "NOT_FILLED", "INSUFFICIENT_DATA"},
           barrier  : {"NONE", "STOP_FIRST", "TARGET_FIRST", "BOTH_SAME_BAR"},
           entryDay : Days, entryPrice : Nat, exitDay : Days, exitPrice : Nat]

Undated(status, entry) ==
    [status |-> status, entry |-> entry, barrier |-> "NONE",
     entryDay |-> NoDay, entryPrice |-> NoPrice, exitDay |-> NoDay, exitPrice |-> NoPrice]

\* _session_due
Closed(day, now) == day <= now

\* What using the bar of a day comes to.
Reading(view, now, day) ==
    IF ~Closed(day, now) THEN "open" ELSE view[day]

First(S) == CHOOSE d \in S : \A e \in S : d <= e

-----------------------------------------------------------------------------
(* The forward population: the closes of session 1 and of session 1 + h.   *)

\* evaluate_forward_stock
ForwardResult(tape, view, now) ==
    LET days == 1..(1 + Horizon)
    IN  CASE \E d \in days : Reading(view, now, d) = "open" ->
               Undated("PENDING", "PENDING")
          [] \A d \in days : Reading(view, now, d) = "final" ->
               [status |-> "COMPLETE", entry |-> "FILLED", barrier |-> "NONE",
                entryDay |-> 1, entryPrice |-> tape[1].close,
                exitDay |-> 1 + Horizon, exitPrice |-> tape[1 + Horizon].close]
          [] OTHER -> Undated("INSUFFICIENT_DATA", "INSUFFICIENT_DATA")

-----------------------------------------------------------------------------
(* The execution population: a limit order open for a few sessions, then   *)
(* the first barrier from the next session on, an opening gap first.       *)

\* The order ends on this bar, one way or the other.
Touches(bar) == bar.open <= Limit \/ bar.low <= Limit

\* A barrier is met on this bar, at the open or within the day.
Barred(bar) == bar.low <= Stop \/ bar.high >= Target

EntryPrice(bar) == IF bar.open <= Limit THEN bar.open ELSE Limit

\* What one exit bar decides; past is whether it is the last of the horizon.
ExitOn(bar) ==
    CASE bar.open <= Stop   -> [barrier |-> "STOP_FIRST",    price |-> bar.open]
      [] bar.open >= Target -> [barrier |-> "TARGET_FIRST",  price |-> bar.open]
      [] bar.open > Stop /\ bar.open < Target /\ bar.low <= Stop /\ bar.high >= Target ->
                               [barrier |-> "BOTH_SAME_BAR", price |-> NoPrice]
      [] bar.open > Stop /\ bar.open < Target /\ bar.low <= Stop /\ bar.high < Target ->
                               [barrier |-> "STOP_FIRST",    price |-> Stop]
      [] bar.open > Stop /\ bar.open < Target /\ bar.low > Stop /\ bar.high >= Target ->
                               [barrier |-> "TARGET_FIRST",  price |-> Target]
      [] OTHER              -> [barrier |-> "NONE",          price |-> bar.close]

Filled(tape, day, status, barrier, exitDay, exitPrice) ==
    [status |-> status, entry |-> "FILLED", barrier |-> barrier,
     entryDay |-> day, entryPrice |-> EntryPrice(tape[day]),
     exitDay |-> exitDay, exitPrice |-> exitPrice]

\* The position entered on a day, followed to its exit.
ExitResult(tape, view, now, entryDay) ==
    LET day == First({d \in (entryDay + 1)..(entryDay + Horizon) :
                        \/ Reading(view, now, d) # "final"
                        \/ Barred(tape[d])
                        \/ d = entryDay + Horizon})
        exit == ExitOn(tape[day])
    IN  CASE Reading(view, now, day) = "open" ->
               Filled(tape, entryDay, "PENDING", "NONE", NoDay, NoPrice)
          [] Reading(view, now, day) = "final" ->
               Filled(tape, entryDay,
                      IF exit.barrier = "BOTH_SAME_BAR" THEN "AMBIGUOUS" ELSE "COMPLETE",
                      exit.barrier, day, exit.price)
          [] OTHER -> Filled(tape, entryDay, "INSUFFICIENT_DATA", "NONE", NoDay, NoPrice)

\* A slip: sessions without a bar are passed over.
OrderOverGaps(tape, view, now) ==
    LET ends == {d \in 1..EntrySessions :
                   \/ Reading(view, now, d) = "open"
                   \/ Reading(view, now, d) = "final" /\ Touches(tape[d])}
        day  == First(ends)
    IN  IF ends = {} THEN Undated("COMPLETE", "NOT_FILLED")
        ELSE CASE Reading(view, now, day) = "open" -> Undated("PENDING", "PENDING")
               [] Reading(view, now, day) = "final" /\ tape[day].open <= Stop ->
                    Undated("COMPLETE", "NOT_FILLED")
               [] OTHER -> ExitResult(tape, view, now, day)

\* evaluate_execution_stock, for a decision that has an order to execute
OrderResult(tape, view, now) ==
    LET ends == {d \in 1..EntrySessions :
                   Reading(view, now, d) # "final" \/ Touches(tape[d])}
        day  == First(ends)
    IN  IF ends = {} THEN Undated("COMPLETE", "NOT_FILLED")
        ELSE CASE Reading(view, now, day) = "open"       -> Undated("PENDING", "PENDING")
               [] Reading(view, now, day) = "missing"    -> Undated("INSUFFICIENT_DATA", "PENDING")
               [] Reading(view, now, day) = "unfinished" -> Undated("INSUFFICIENT_DATA", "INSUFFICIENT_DATA")
               [] Reading(view, now, day) = "final" /\ tape[day].open <= Stop ->
                    Undated("COMPLETE", "NOT_FILLED")
               [] OTHER -> ExitResult(tape, view, now, day)

\* evaluate_execution_stock: the plan is checked before any bar is.
ExecutionResult(plan, tape, view, now) ==
    CASE plan = "no_order" -> Undated("COMPLETE", "NOT_FILLED")
      [] plan = "invalid"  -> Undated("INSUFFICIENT_DATA", "INSUFFICIENT_DATA")
      [] plan = "order"    -> OrderResult(tape, view, now)
=============================================================================
