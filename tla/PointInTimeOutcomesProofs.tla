---------------------- MODULE PointInTimeOutcomesProofs ----------------------
(***************************************************************************)
(* What the outcome ledger settles, for every tape, plan, feed and number  *)
(* of runners.  The kernel first: whatever part of the tape a view shows,  *)
(* what it concludes the whole tape confirms, and what the whole tape      *)
(* says of a fill is one day only.  Then the ledger: an invariant that     *)
(* ties each row to the tape and each runner to the row it works on.       *)
(***************************************************************************)
EXTENDS PointInTimeOutcomes, WellFoundedInduction, FiniteSetTheorems,
        SequenceTheorems, TLAPS

-----------------------------------------------------------------------------
(* The kernel.                                                             *)

(* A nonempty set of days has a first day.                                 *)
LEMMA FirstIsFirst ==
    ASSUME NEW S \in SUBSET Nat, S # {}
    PROVE  /\ First(S) \in S
           /\ \A e \in S : First(S) <= e
<1> DEFINE Upto  == {1..d : d \in S}
           Order == StrictSubsetOrdering(Nat)
<1>1. Upto # {} /\ Upto \subseteq FiniteSubsetsOf(Nat)
  <2>1. \A d \in S : 1..d \subseteq Nat /\ IsFiniteSet(1..d)
    BY FS_Interval
  <2> QED
    BY <2>1 DEF FiniteSubsetsOf
<1>2. PICK D \in Upto : \A E \in Upto : ~(<<E, D>> \in Order)
  <2>1. IsWellFoundedOn(Order, FiniteSubsetsOf(Nat))
    BY FS_StrictSubsetOrderingWellFounded
  <2> HIDE DEF Upto, Order
  <2> QED
    BY <1>1, <2>1, WFMin
<1>3. PICK d \in S : D = 1..d
    OBVIOUS
<1>4. ASSUME NEW e \in S, e < d PROVE FALSE
  <2>1. 1..e \subseteq 1..d /\ 1..e # 1..d /\ 1..e \in SUBSET Nat /\ 1..d \in SUBSET Nat
    <3>1. d \in 1..d /\ d \notin 1..e
      BY <1>4
    <3> QED
      BY <3>1, <1>4
  <2>2. <<1..e, D>> \in Order
    BY <2>1, <1>3 DEF StrictSubsetOrdering
  <2> QED
    BY <2>2, <1>2
<1>5. \A e \in S : d <= e
    BY <1>4
<1> QED
    BY <1>5 DEF First

(* Two first days are one.                                                 *)
LEMMA OneFirstDay ==
    ASSUME NEW days \in SUBSET Nat, NEW holds, NEW d, NEW e,
           FirstDay(d, days, holds), FirstDay(e, days, holds)
    PROVE  d = e
<1>1. d \in Nat /\ e \in Nat /\ ~(d < e) /\ ~(e < d)
    BY DEF FirstDay
<1> QED
    BY <1>1

(* The days of an order and of the position it opens are sessions.         *)
LEMMA DaysAreSessions ==
    /\ EntrySessions \in Nat \ {0} /\ Horizon \in Nat \ {0}
    /\ Sessions \in SUBSET (Nat \ {0})
    /\ 1..EntrySessions \subseteq Sessions
    /\ \A d \in 1..EntrySessions : (d + 1)..(d + Horizon) \subseteq Sessions
    /\ 1 \in Sessions /\ 1 + Horizon \in Sessions
BY PlanAssumption DEF Sessions

(* What an exit bar decides is well-typed.                                 *)
LEMMA ExitTyped ==
    ASSUME NEW bar \in Bar
    PROVE  /\ ExitOn(bar) = [barrier |-> ExitOn(bar).barrier, price |-> ExitOn(bar).price]
           /\ ExitOn(bar).barrier \in {"NONE", "STOP_FIRST", "TARGET_FIRST", "BOTH_SAME_BAR"}
           /\ ExitOn(bar).price \in Nat
           /\ EntryPrice(bar) \in Nat
<1>1. bar.open \in Nat /\ bar.high \in Nat /\ bar.low \in Nat /\ bar.close \in Nat
    BY DEF Bar
<1>2. Stop \in Nat /\ Target \in Nat /\ Limit \in Nat
    BY PlanAssumption
<1>3. EntryPrice(bar) \in Nat
    BY <1>1, <1>2 DEF EntryPrice
<1>4. \/ ExitOn(bar) = [barrier |-> "STOP_FIRST", price |-> bar.open]
      \/ ExitOn(bar) = [barrier |-> "TARGET_FIRST", price |-> bar.open]
      \/ ExitOn(bar) = [barrier |-> "BOTH_SAME_BAR", price |-> NoPrice]
      \/ ExitOn(bar) = [barrier |-> "STOP_FIRST", price |-> Stop]
      \/ ExitOn(bar) = [barrier |-> "TARGET_FIRST", price |-> Target]
      \/ ExitOn(bar) = [barrier |-> "NONE", price |-> bar.close]
    BY DEF ExitOn
<1> QED
    BY <1>1, <1>2, <1>3, <1>4 DEF NoPrice

(* A position is followed to the exit the whole tape gives.                *)
LEMMA ExitFollows ==
    ASSUME tape \in Tape, NEW view \in View, NEW now \in Nat,
           NEW entryDay \in 1..EntrySessions, NEW r,
           r = ExitResult(tape, view, now, entryDay)
    PROVE  /\ r \in Result
           /\ r.entry = "FILLED" /\ r.entryDay = entryDay
           /\ r.entryPrice = EntryPrice(tape[entryDay])
           /\ Sealed(r) => RightExit(r)
<1> DEFINE held == (entryDay + 1)..(entryDay + Horizon)
           last == entryDay + Horizon
           ends == {d \in held : \/ Reading(view, now, d) # "final"
                                 \/ Barred(tape[d])
                                 \/ d = last}
           day  == First(ends)
           exit == ExitOn(tape[day])
<1>1. held \subseteq Sessions /\ last \in held /\ held \in SUBSET Nat /\ entryDay \in Sessions
    BY DaysAreSessions
<1>2. ends \in SUBSET Nat /\ ends # {}
    BY <1>1
<1>3. day \in ends /\ \A e \in ends : day <= e
    <2> HIDE DEF ends
    <2> QED BY <1>2, FirstIsFirst
<1>4. day \in held /\ day \in Sessions
    BY <1>1, <1>3
<1>5. tape[day] \in Bar /\ tape[entryDay] \in Bar
    BY <1>1, <1>4 DEF Tape
<1>6. /\ exit.barrier \in {"NONE", "STOP_FIRST", "TARGET_FIRST", "BOTH_SAME_BAR"}
      /\ exit.price \in Nat /\ EntryPrice(tape[entryDay]) \in Nat
    BY <1>5, ExitTyped
<1>7. entryDay \in Days /\ day \in Days /\ NoDay \in Days /\ NoPrice \in Nat
    BY <1>1, <1>4 DEF Days, NoDay, NoPrice
<1>8. \/ r = Filled(tape, entryDay, "PENDING", "NONE", NoDay, NoPrice)
      \/ r = Filled(tape, entryDay, "INSUFFICIENT_DATA", "NONE", NoDay, NoPrice)
      \/ /\ Reading(view, now, day) = "final"
         /\ r = Filled(tape, entryDay,
                       IF exit.barrier = "BOTH_SAME_BAR" THEN "AMBIGUOUS" ELSE "COMPLETE",
                       exit.barrier, day, exit.price)
    BY DEF ExitResult
<1>9. CASE r = Filled(tape, entryDay, "PENDING", "NONE", NoDay, NoPrice)
    BY <1>9, <1>6, <1>7 DEF Filled, Result, Sealed
<1>10. CASE r = Filled(tape, entryDay, "INSUFFICIENT_DATA", "NONE", NoDay, NoPrice)
    BY <1>10, <1>6, <1>7 DEF Filled, Result, Sealed
<1>11. CASE /\ Reading(view, now, day) = "final"
            /\ r = Filled(tape, entryDay,
                          IF exit.barrier = "BOTH_SAME_BAR" THEN "AMBIGUOUS" ELSE "COMPLETE",
                          exit.barrier, day, exit.price)
  <2> HIDE DEF exit, day, ends, held, last
  <2>1. /\ r \in Result
        /\ r.entry = "FILLED" /\ r.entryDay = entryDay /\ r.exitDay = day
        /\ r.entryPrice = EntryPrice(tape[entryDay])
        /\ r.barrier = exit.barrier /\ r.exitPrice = exit.price
        /\ r.status = "AMBIGUOUS" <=> exit.barrier = "BOTH_SAME_BAR"
    BY <1>11, <1>6, <1>7 DEF Filled, Result
  <2>2. \A d \in held : d < day => ~Ended[d]
    <3>1. \A d \in held : d < day => d \notin ends
      BY <1>1, <1>3, <1>4
    <3> QED
      BY <3>1, <1>1 DEF ends, Ended
  <2>3. FirstDay(day, held, Ended) \/ (day = last /\ \A d \in held : ~Ended[d])
    <3>1. CASE Ended[day]
      BY <3>1, <2>2, <1>4 DEF FirstDay
    <3>2. CASE ~Ended[day]
      <4>1. day = last
        BY <3>2, <1>3, <1>4, <1>11 DEF ends, Ended
      <4>2. \A d \in held : d < day \/ d = day
        BY <4>1 DEF held, last
      <4> QED
        BY <3>2, <4>1, <4>2, <2>2
    <3> QED
      BY <3>1, <3>2
  <2>4. RightExit(r)
    BY <2>1, <2>3 DEF RightExit, held, last, exit
  <2> QED
    BY <2>1, <2>4
<1> QED
    BY <1>8, <1>9, <1>10, <1>11

(* An order is filled, left or given up as the whole tape has it.          *)
LEMMA OrderFollows ==
    ASSUME tape \in Tape, NEW view \in View, NEW now \in Nat, NEW r,
           r = OrderResult(tape, view, now)
    PROVE  /\ r \in Result
           /\ r.entry = "FILLED" => RightFill(r)
           /\ r.entry # "FILLED" => r.entryDay = NoDay
           /\ Sealed(r) /\ r.entry = "FILLED" => RightExit(r)
           /\ Sealed(r) /\ r.entry # "FILLED" =>
                \A e \in 1..EntrySessions :
                  FirstDay(e, 1..EntrySessions, Entered) => tape[e].open <= Stop
<1> DEFINE ends == {d \in 1..EntrySessions :
                      Reading(view, now, d) # "final" \/ Touches(tape[d])}
           day  == First(ends)
<1>1. 1..EntrySessions \subseteq Sessions /\ 1..EntrySessions \in SUBSET Nat
    BY DaysAreSessions
<1>2. \A e \in 1..EntrySessions : Entered[e] = Touches(tape[e])
    BY <1>1 DEF Entered
<1>3. \A status \in {"COMPLETE", "PENDING", "INSUFFICIENT_DATA"},
        entry \in {"PENDING", "NOT_FILLED", "INSUFFICIENT_DATA"} :
        /\ Undated(status, entry) \in Result
        /\ Undated(status, entry).entry # "FILLED"
        /\ Undated(status, entry).entryDay = NoDay
        /\ Undated(status, entry).status = status
    BY DEF Undated, Result, Days, NoDay, NoPrice
<1>4. CASE ends = {}
  <2>1. r = Undated("COMPLETE", "NOT_FILLED")
    BY <1>4 DEF OrderResult
  <2>2. \A e \in 1..EntrySessions : ~Entered[e]
    BY <1>4, <1>2
  <2> QED
    BY <2>1, <2>2, <1>3 DEF FirstDay
<1>5. CASE ends # {}
  <2>1. day \in ends /\ \A e \in ends : day <= e
    <3>1. ends \in SUBSET Nat
      BY <1>1
    <3> HIDE DEF ends
    <3> QED BY <1>5, <3>1, FirstIsFirst
  <2>2. day \in 1..EntrySessions
    BY <2>1
  <2>3. \/ r = Undated("PENDING", "PENDING")
        \/ r = Undated("INSUFFICIENT_DATA", "PENDING")
        \/ r = Undated("INSUFFICIENT_DATA", "INSUFFICIENT_DATA")
        \/ /\ Reading(view, now, day) = "final" /\ tape[day].open <= Stop
           /\ r = Undated("COMPLETE", "NOT_FILLED")
        \/ /\ Reading(view, now, day) = "final" /\ ~(tape[day].open <= Stop)
           /\ r = ExitResult(tape, view, now, day)
    <3>1. Reading(view, now, day) \in {"open", "missing", "unfinished", "final"}
      BY <1>1, <2>2 DEF Reading, View
    <3>2. r = CASE Reading(view, now, day) = "open"       -> Undated("PENDING", "PENDING")
               [] Reading(view, now, day) = "missing"    -> Undated("INSUFFICIENT_DATA", "PENDING")
               [] Reading(view, now, day) = "unfinished" -> Undated("INSUFFICIENT_DATA", "INSUFFICIENT_DATA")
               [] Reading(view, now, day) = "final" /\ tape[day].open <= Stop ->
                    Undated("COMPLETE", "NOT_FILLED")
               [] OTHER -> ExitResult(tape, view, now, day)
      BY <1>5 DEF OrderResult
    <3> HIDE DEF day, ends
    <3> QED BY <3>1, <3>2
  <2>4. Reading(view, now, day) = "final" => FirstDay(day, 1..EntrySessions, Entered)
    <3>1. ASSUME Reading(view, now, day) = "final" PROVE Entered[day]
      BY <3>1, <2>1, <2>2, <1>2
    <3>2. \A d \in 1..EntrySessions : d < day => ~Entered[d]
      <4>1. \A d \in 1..EntrySessions : d < day => d \notin ends
        <5> HIDE DEF ends
        <5> QED BY <2>1, <2>2
      <4> QED
        BY <4>1, <1>2
    <3> QED
      BY <3>1, <3>2, <2>2 DEF FirstDay
  <2> HIDE DEF day, ends
  <2>5. CASE \/ r = Undated("PENDING", "PENDING")
             \/ r = Undated("INSUFFICIENT_DATA", "PENDING")
             \/ r = Undated("INSUFFICIENT_DATA", "INSUFFICIENT_DATA")
    <3>1. /\ r \in Result /\ r.entry # "FILLED" /\ r.entryDay = NoDay
          /\ r.status \in {"PENDING", "INSUFFICIENT_DATA"}
      BY <2>5, <1>3
    <3> QED
      BY <3>1 DEF Sealed
  <2>6. CASE /\ Reading(view, now, day) = "final" /\ tape[day].open <= Stop
             /\ r = Undated("COMPLETE", "NOT_FILLED")
    <3>1. \A e \in 1..EntrySessions : FirstDay(e, 1..EntrySessions, Entered) => e = day
      BY <2>4, <2>6, <1>1, OneFirstDay
    <3>2. r \in Result /\ r.entry # "FILLED" /\ r.entryDay = NoDay
      BY <2>6, <1>3
    <3> QED
      BY <2>6, <3>1, <3>2
  <2>7. CASE /\ Reading(view, now, day) = "final" /\ ~(tape[day].open <= Stop)
             /\ r = ExitResult(tape, view, now, day)
    <3>1. /\ r \in Result /\ r.entry = "FILLED" /\ r.entryDay = day
          /\ r.entryPrice = EntryPrice(tape[day])
          /\ Sealed(r) => RightExit(r)
      BY <2>2, <2>7, ExitFollows
    <3>2. tape[day].open > Stop
      <4>1. tape[day].open \in Nat /\ Stop \in Nat
        BY <1>1, <2>2, PlanAssumption DEF Tape, Bar
      <4> QED
        BY <4>1, <2>7
    <3>3. RightFill(r)
      BY <3>1, <3>2, <2>4, <2>7 DEF RightFill
    <3> QED
      BY <3>1, <3>3
  <2> QED
    BY <2>3, <2>5, <2>6, <2>7
<1> QED
    BY <1>4, <1>5

(* A forward row is the two closes, or nothing yet.                        *)
LEMMA ForwardFollows ==
    ASSUME tape \in Tape, NEW view, NEW now, NEW r, r = ForwardResult(tape, view, now)
    PROVE  /\ r \in Result
           /\ r.entry = "FILLED" => Sealed(r)
           /\ r.entry # "FILLED" => r.entryDay = NoDay
           /\ Sealed(r) => RightForward(r)
<1>1. \/ r = Undated("PENDING", "PENDING")
      \/ r = Undated("INSUFFICIENT_DATA", "INSUFFICIENT_DATA")
      \/ r = [status |-> "COMPLETE", entry |-> "FILLED", barrier |-> "NONE",
              entryDay |-> 1, entryPrice |-> tape[1].close,
              exitDay |-> 1 + Horizon, exitPrice |-> tape[1 + Horizon].close]
    BY DEF ForwardResult
<1>2. /\ 1 \in Days /\ 1 + Horizon \in Days /\ NoDay \in Days /\ NoPrice \in Nat
      /\ tape[1].close \in Nat /\ tape[1 + Horizon].close \in Nat
    BY DaysAreSessions DEF Days, NoDay, NoPrice, Tape, Bar
<1> QED
    BY <1>1, <1>2 DEF Undated, Result, Sealed, RightForward

-----------------------------------------------------------------------------
(* Rows.                                                                   *)

(* What a result says of its decision is what the tape says.               *)
TapeHas(k, result) ==
    /\ k[2] = "forward" =>
         /\ result.entry = "FILLED" => Sealed(result)
         /\ Sealed(result) => RightForward(result)
    /\ k[2] = "execution" =>
         /\ result.entry = "FILLED" => Plan[k[1]] = "order" /\ RightFill(result)
         /\ Sealed(result) => IF result.entry = "FILLED" THEN RightExit(result)
                              ELSE NeverFilled(k[1])

(* A result as an evaluation returns it.                                   *)
Concluded(k, result) ==
    /\ result \in Result
    /\ result.entry # "FILLED" => result.entryDay = NoDay
    /\ TapeHas(k, result)

RowHolds(k, row) ==
    /\ row \in Row
    /\ Sealed(row.result) => ~row.retryable
    /\ ~Sealed(row.result) => row.benchNext = Never /\ row.benchCount = 0
    /\ TapeHas(k, row.result)

(* Nothing evaluated yet agrees with every tape.                           *)
LEMMA UndatedConcluded ==
    ASSUME NEW k \in Keys, NEW status \in {"PENDING", "INSUFFICIENT_DATA"},
           NEW entry \in {"PENDING", "INSUFFICIENT_DATA"}
    PROVE  Concluded(k, Undated(status, entry)) /\ ~Sealed(Undated(status, entry))
BY DEF Concluded, TapeHas, Undated, Result, Sealed, Days, NoDay, NoPrice

(* Every evaluation of a row, with whatever bars, agrees with the tape.    *)
LEMMA EvaluationFollows ==
    ASSUME TypeOK, NEW r \in Runners, NEW k \in Keys
    PROVE  Concluded(k, Evaluated(r, k, clock))
<1> DEFINE view == IF bars[r] = Unread THEN Nothing ELSE bars[r]
           found == Evaluated(r, k, clock)
<1>1. /\ tape \in Tape /\ clock \in Nat /\ view \in View /\ Nothing \in View
      /\ k[1] \in Decisions /\ k[2] \in Populations
      /\ Plan[k[1]] \in {"order", "no_order", "invalid"}
  <2>1. tape \in Tape /\ clock \in Nat
    BY OutcomeAssumption DEF TypeOK, Times
  <2>2. Nothing \in View
    BY DEF Nothing, View
  <2>3. view \in View
    BY <2>2 DEF TypeOK
  <2>4. k[1] \in Decisions /\ k[2] \in Populations
    BY DEF Keys
  <2>5. Plan[k[1]] \in {"order", "no_order", "invalid"}
    BY <2>4, OutcomeAssumption
  <2> QED
    BY <2>1, <2>2, <2>3, <2>4, <2>5
<1>2. \/ Preflight(k) /\ found = ExecutionResult(Plan[k[1]], tape, Nothing, clock)
      \/ ~Preflight(k) /\ found = Undated("INSUFFICIENT_DATA", "INSUFFICIENT_DATA")
      \/ /\ ~Preflight(k) /\ k[2] = "execution"
         /\ found = ExecutionResult(Plan[k[1]], tape, view, clock)
      \/ /\ ~Preflight(k) /\ k[2] # "execution"
         /\ found = ForwardResult(tape, view, clock)
  <2>1. \/ Preflight(k)
        \/ ~Preflight(k) /\ Late(rows[k], clock)
        \/ ~Preflight(k) /\ ~Late(rows[k], clock)
    OBVIOUS
  <2> QED
    BY <2>1 DEF Evaluated
<1> HIDE DEF view, found
<1>3. CASE Preflight(k) /\ found = ExecutionResult(Plan[k[1]], tape, Nothing, clock)
  <2>1. k[2] = "execution" /\ Plan[k[1]] \in {"no_order", "invalid"}
    BY <1>1, <1>3 DEF Preflight
  <2>2. CASE Plan[k[1]] = "invalid"
    <3>1. found = Undated("INSUFFICIENT_DATA", "INSUFFICIENT_DATA")
      BY <1>3, <2>2 DEF ExecutionResult
    <3> QED
      BY <3>1, UndatedConcluded DEF found
  <2>3. CASE Plan[k[1]] = "no_order"
    <3>1. found = Undated("COMPLETE", "NOT_FILLED")
      BY <1>3, <2>3 DEF ExecutionResult
    <3>2. Concluded(k, found)
      BY <3>1, <2>1, <2>3
         DEF Concluded, TapeHas, Undated, Result, Sealed, Days, NoDay, NoPrice, NeverFilled
    <3> QED
      BY <3>2 DEF found
  <2> QED
    BY <2>1, <2>2, <2>3
<1>4. CASE ~Preflight(k) /\ found = Undated("INSUFFICIENT_DATA", "INSUFFICIENT_DATA")
    BY <1>4, UndatedConcluded DEF found
<1>5. CASE /\ ~Preflight(k) /\ k[2] = "execution"
           /\ found = ExecutionResult(Plan[k[1]], tape, view, clock)
  <2>1. Plan[k[1]] = "order"
    BY <1>5 DEF Preflight
  <2>2. found = OrderResult(tape, view, clock)
    BY <1>5, <2>1 DEF ExecutionResult
  <2>3. /\ found \in Result
        /\ found.entry = "FILLED" => RightFill(found)
        /\ found.entry # "FILLED" => found.entryDay = NoDay
        /\ Sealed(found) /\ found.entry = "FILLED" => RightExit(found)
        /\ Sealed(found) /\ found.entry # "FILLED" =>
             \A e \in 1..EntrySessions :
               FirstDay(e, 1..EntrySessions, Entered) => tape[e].open <= Stop
    BY <1>1, <2>2, OrderFollows
  <2>4. Concluded(k, found)
    BY <2>1, <2>3, <1>5 DEF Concluded, TapeHas, NeverFilled
  <2> QED
    BY <2>4 DEF found
<1>6. CASE /\ ~Preflight(k) /\ k[2] # "execution"
           /\ found = ForwardResult(tape, view, clock)
  <2>1. /\ found \in Result
        /\ found.entry = "FILLED" => Sealed(found)
        /\ found.entry # "FILLED" => found.entryDay = NoDay
        /\ Sealed(found) => RightForward(found)
    BY <1>1, <1>6, ForwardFollows
  <2>2. Concluded(k, found)
    BY <2>1, <1>6 DEF Concluded, TapeHas
  <2> QED
    BY <2>2 DEF found
<1> QED
    BY <1>2, <1>3, <1>4, <1>5, <1>6 DEF found

(* An evaluation past the window finds no fill.                            *)
LEMMA LateFindsNothing ==
    ASSUME TypeOK, NEW r \in Runners, NEW k \in Keys, Late(rows[k], clock)
    PROVE  Evaluated(r, k, clock).entry # "FILLED"
<1>1. CASE Preflight(k)
  <2>1. Evaluated(r, k, clock) = ExecutionResult(Plan[k[1]], tape, Nothing, clock)
    BY <1>1 DEF Evaluated
  <2>2. Plan[k[1]] \in {"no_order", "invalid"}
    BY <1>1, OutcomeAssumption DEF Preflight, Keys
  <2> QED
    BY <2>1, <2>2 DEF ExecutionResult, Undated
<1>2. CASE ~Preflight(k)
    BY <1>2 DEF Evaluated, Undated
<1> QED
    BY <1>1, <1>2

(* A fill, once found, is the only one there is.                           *)
LEMMA FillIsOne ==
    ASSUME NEW k \in Keys, tape \in Tape, NEW a, NEW b, TapeHas(k, a), TapeHas(k, b),
           a.entry = "FILLED", ~Sealed(a)
    PROVE  /\ RightFill(a)
           /\ b.entry = "FILLED" =>
                b.entryDay = a.entryDay /\ b.entryPrice = a.entryPrice
           /\ Sealed(b) => b.entry = "FILLED"
<1>1. k[2] = "execution"
    BY DEF TapeHas, Keys, Populations
<1>2. RightFill(a) /\ Plan[k[1]] = "order"
    BY <1>1 DEF TapeHas
<1>3. FirstDay(a.entryDay, 1..EntrySessions, Entered) /\ tape[a.entryDay].open > Stop
      /\ a.entryPrice = EntryPrice(tape[a.entryDay])
    BY <1>2 DEF RightFill
<1>4. ASSUME b.entry = "FILLED"
      PROVE  b.entryDay = a.entryDay /\ b.entryPrice = a.entryPrice
  <2>1. RightFill(b)
    BY <1>1, <1>4 DEF TapeHas
  <2>2. FirstDay(b.entryDay, 1..EntrySessions, Entered)
        /\ b.entryPrice = EntryPrice(tape[b.entryDay])
    BY <2>1 DEF RightFill
  <2>3. b.entryDay = a.entryDay
    BY <1>3, <2>2, OneFirstDay, DaysAreSessions
  <2> QED
    BY <1>3, <2>2, <2>3
<1>5. ASSUME Sealed(b), b.entry # "FILLED" PROVE FALSE
  <2>1. NeverFilled(k[1])
    BY <1>1, <1>5 DEF TapeHas
  <2>2. a.entryDay \in 1..EntrySessions
    BY <1>3 DEF FirstDay
  <2>3. tape[a.entryDay].open <= Stop
    BY <1>2, <1>3, <2>1, <2>2 DEF NeverFilled
  <2>4. tape[a.entryDay].open \in Nat /\ Stop \in Nat
    BY <2>2, DaysAreSessions, PlanAssumption DEF Tape, Bar
  <2> QED
    BY <1>3, <2>3, <2>4
<1> QED
    BY <1>2, <1>4, <1>5

(* Delays and retry times lie ahead.                                       *)
LEMMA RetryTyped ==
    ASSUME NEW result \in Result, NEW number \in Nat \ {0}, NEW now \in Nat
    PROVE  RetryDelay(number) \in Nat \ {0} /\ NextRetry(result, number, now) \in Nat
<1>1. RetryDelay(number) \in Nat \ {0}
    BY OutcomeAssumption DEF RetryDelay
<1> QED
    BY <1>1 DEF NextRetry

(* The fields an attempt sets, and those it leaves.                        *)
Updated(row, result, count, deadline, next, again) ==
    [row EXCEPT !.result = result, !.count = count, !.deadline = deadline,
                !.next = next, !.retryable = again]

LEMMA RowUpdated ==
    ASSUME NEW old \in Row, NEW r \in Result, NEW c \in Nat,
           NEW d \in Nat \cup {Never}, NEW n \in Nat \cup {Never}, NEW a, a \in BOOLEAN
    PROVE  LET u == Updated(old, r, c, d, n, a) IN
           /\ u \in Row /\ u.result = r /\ u.count = c
           /\ u.deadline = d /\ u.next = n /\ u.retryable = a
           /\ u.benchCount = old.benchCount /\ u.benchDeadline = old.benchDeadline
           /\ u.benchNext = old.benchNext /\ u.benchRetryable = old.benchRetryable
BY DEF Row, Updated

(* What an attempt leaves of a row.                                        *)
Progressed(old, new) ==
    /\ new \in Row
    /\ Sealed(old.result) => new.result = old.result
    /\ old.result.entry = "FILLED" =>
         new.result.entry = "FILLED" /\ new.result.entryDay = old.result.entryDay
    /\ old.deadline # Never => new.deadline = old.deadline

LEMMA StockAttemptHolds ==
    ASSUME TypeOK, NEW k \in Keys, NEW row, RowHolds(k, row), row.retryable,
           NEW found, Concluded(k, found), NEW permanent,
           Late(row, clock) => found.entry # "FILLED",
           NEW new, new = StockAttempt(row, found, permanent, clock)
    PROVE  /\ RowHolds(k, new)
           /\ Progressed(row, new)
           /\ new.count = row.count + 1
           /\ new.benchCount = row.benchCount
           /\ Sealed(new.result) => new.benchNext = Never
<1> DEFINE late   == Late(row, clock)
           result == IF late THEN Overdue(row, found) ELSE found
           kept   == IF Sealed(result) THEN result ELSE Unsettled(row, result)
           deadline == IF row.deadline # Never THEN row.deadline ELSE clock + Window
           again  == IF ~late /\ ~Sealed(result) /\ ~permanent THEN TRUE ELSE FALSE
           next   == IF again THEN NextRetry(result, row.count + 1, clock) ELSE Never
<1>1. /\ row \in Row /\ clock \in Nat /\ Window \in Nat
      /\ row.count \in Nat /\ row.count + 1 \in Nat /\ tape \in Tape
      /\ row.result \in Result /\ found \in Result /\ ~Sealed(row.result)
      /\ row.benchNext = Never /\ row.benchCount = 0
      /\ row.deadline \in Nat \cup {Never}
  <2>1. row \in Row /\ found \in Result /\ ~Sealed(row.result)
        /\ row.benchNext = Never /\ row.benchCount = 0
    BY DEF RowHolds, Concluded
  <2>2. clock \in Nat /\ Window \in Nat /\ tape \in Tape
    BY OutcomeAssumption DEF TypeOK, Times
  <2> QED
    BY <2>1, <2>2 DEF Row
<1>2. new = Updated(row, kept, row.count + 1, deadline, next, again)
    BY <1>1 DEF StockAttempt, Row, Updated
<1>3. CASE late
  <2>1. /\ result \in Result /\ ~Sealed(result)
        /\ result.entryDay = NoDay
        /\ result.entry = IF row.result.entry = "FILLED" THEN "FILLED" ELSE "INSUFFICIENT_DATA"
    BY <1>1, <1>3 DEF Overdue, Undated, Result, Sealed, Days, NoDay, NoPrice
  <2>2. /\ kept \in Result /\ ~Sealed(kept)
        /\ kept.entry = "FILLED" => row.result.entry = "FILLED"
        /\ row.result.entry = "FILLED" => kept.entry = "FILLED"
        /\ kept.entryDay = row.result.entryDay /\ kept.entryPrice = row.result.entryPrice
    <3>1. kept = Unsettled(row, result)
      BY <2>1
    <3> HIDE DEF kept, result, late
    <3>2. kept = [row.result EXCEPT
                    !.status = result.status,
                    !.entry = IF row.result.entry = "FILLED" THEN "FILLED" ELSE result.entry]
      BY <3>1, <2>1, <1>1 DEF Unsettled, Result
    <3>3. result.entry = "FILLED" => row.result.entry = "FILLED"
      BY <2>1
    <3> QED
      BY <3>2, <3>3, <2>1, <1>1 DEF Result, Sealed
  <2>3. TapeHas(k, row.result)
    BY DEF RowHolds
  <2> HIDE DEF kept, result, late
  <2>4. TapeHas(k, kept)
    BY <2>2, <2>3, <1>1 DEF TapeHas, RightFill
  <2>6. /\ again = FALSE /\ next = Never /\ deadline \in Nat \cup {Never}
        /\ row.deadline # Never => deadline = row.deadline
    BY <1>1, <1>3 DEF late
  <2> HIDE DEF again, next, deadline
  <2>7. /\ new \in Row /\ new.result = kept /\ new.count = row.count + 1
        /\ new.benchCount = row.benchCount /\ new.benchNext = Never
        /\ new.deadline = deadline /\ new.retryable = again
    <3>1. kept \in Result /\ row \in Row /\ row.count + 1 \in Nat
          /\ deadline \in Nat \cup {Never} /\ next \in Nat \cup {Never} /\ again \in BOOLEAN
          /\ new = Updated(row, kept, row.count + 1, deadline, next, again)
          /\ row.benchNext = Never
      BY <1>1, <1>2, <2>2, <2>6
    <3> QED
      BY ONLY <3>1, RowUpdated
  <2> QED
    BY <1>1, <2>2, <2>4, <2>6, <2>7 DEF RowHolds, Progressed
<1>4. CASE ~late
  <2>1. result = found
    BY <1>4
  <2>2. kept \in Result
    BY <2>1, <1>1 DEF Unsettled, Result
  <2>3. /\ deadline \in Nat \cup {Never} /\ next \in Nat \cup {Never} /\ again \in BOOLEAN
        /\ row.deadline # Never => deadline = row.deadline
    <3>1. deadline \in Nat \cup {Never} /\ (row.deadline # Never => deadline = row.deadline)
      BY <1>1
    <3>2. NextRetry(result, row.count + 1, clock) \in Nat
      BY <1>1, <2>1, RetryTyped
    <3>3. next \in Nat \cup {Never}
      BY <3>2
    <3>4. again \in BOOLEAN
      OBVIOUS
    <3> QED
      BY <3>1, <3>3, <3>4
  <2>4. /\ new \in Row /\ new.result = kept /\ new.count = row.count + 1
        /\ new.benchCount = row.benchCount /\ new.benchNext = Never
        /\ new.deadline = deadline /\ new.retryable = again
    <3> HIDE DEF kept, deadline, next, again, result, late
    <3>1. kept \in Result /\ row \in Row /\ row.count + 1 \in Nat
          /\ deadline \in Nat \cup {Never} /\ next \in Nat \cup {Never} /\ again \in BOOLEAN
          /\ new = Updated(row, kept, row.count + 1, deadline, next, again)
          /\ row.benchNext = Never
      BY <1>1, <1>2, <2>2, <2>3
    <3> QED
      BY ONLY <3>1, RowUpdated
  <2>5. TapeHas(k, row.result) /\ TapeHas(k, found)
        /\ (found.entry # "FILLED" => found.entryDay = NoDay)
    BY DEF RowHolds, Concluded
  <2>6. CASE Sealed(found)
    <3>1. kept = found /\ ~again
      BY <2>1, <2>6
    <3>2. row.result.entry = "FILLED" =>
            found.entry = "FILLED" /\ found.entryDay = row.result.entryDay
      BY <1>1, <2>5, <2>6, FillIsOne
    <3> QED
      BY <1>1, <2>3, <2>4, <2>5, <2>6, <3>1, <3>2 DEF RowHolds, Progressed
  <2>7. CASE ~Sealed(found)
    <3>1. /\ kept = Unsettled(row, found) /\ ~Sealed(kept)
      BY <2>1, <2>7, <1>1 DEF Unsettled, Result, Sealed
    <3>2. CASE row.result.entry = "FILLED"
      <4>1. RightFill(row.result)
            /\ (found.entry = "FILLED" =>
                  found.entryDay = row.result.entryDay
                  /\ found.entryPrice = row.result.entryPrice)
        BY <1>1, <2>5, <3>2, FillIsOne
      <4>2. kept.entry = "FILLED" /\ kept.entryDay = row.result.entryDay
            /\ kept.entryPrice = row.result.entryPrice
        BY <1>1, <2>5, <3>1, <3>2, <4>1 DEF Unsettled, Result
      <4>3. TapeHas(k, kept)
        BY <1>1, <2>5, <3>1, <3>2, <4>1, <4>2 DEF TapeHas, RightFill
      <4> QED
        BY <1>1, <2>3, <2>4, <3>1, <4>2, <4>3 DEF RowHolds, Progressed
    <3>3. CASE row.result.entry # "FILLED" /\ found.entry = "FILLED"
      <4>1. k[2] # "forward" /\ k[2] = "execution"
        BY <2>5, <2>7, <3>3 DEF TapeHas, Keys, Populations
      <4>2. RightFill(found) /\ Plan[k[1]] = "order"
        BY <2>5, <3>3, <4>1 DEF TapeHas
      <4>3. found.entryDay # NoDay
        BY <4>2 DEF RightFill, FirstDay, NoDay
      <4>4. kept.entry = "FILLED" /\ kept.entryDay = found.entryDay
            /\ kept.entryPrice = found.entryPrice
        BY <1>1, <3>1, <3>3, <4>3 DEF Unsettled, Result
      <4>5. TapeHas(k, kept)
        BY <3>1, <4>1, <4>2, <4>4 DEF TapeHas, RightFill
      <4> QED
        BY <1>1, <2>3, <2>4, <3>1, <3>3, <4>5 DEF RowHolds, Progressed
    <3>4. CASE row.result.entry # "FILLED" /\ found.entry # "FILLED"
      <4>1. kept.entry # "FILLED"
        BY <1>1, <3>1, <3>4 DEF Unsettled, Result
      <4>2. TapeHas(k, kept)
        BY <3>1, <4>1 DEF TapeHas
      <4> QED
        BY <1>1, <2>3, <2>4, <3>1, <3>4, <4>2 DEF RowHolds, Progressed
    <3> QED
      BY <3>2, <3>3, <3>4
  <2> QED
    BY <2>6, <2>7
<1> QED
    BY <1>3, <1>4

(* The fields a benchmark attempt sets, and those it leaves.               *)
BenchUpdated(row, count, deadline, next, again) ==
    [row EXCEPT !.benchCount = count, !.benchDeadline = deadline,
                !.benchNext = next, !.benchRetryable = again]

LEMMA RowBenchUpdated ==
    ASSUME NEW old \in Row, NEW c \in Nat, NEW d \in Nat \cup {Never},
           NEW n \in Nat \cup {Never}, NEW a, a \in BOOLEAN
    PROVE  LET u == BenchUpdated(old, c, d, n, a) IN
           /\ u \in Row /\ u.benchCount = c
           /\ u.result = old.result /\ u.count = old.count
           /\ u.deadline = old.deadline /\ u.retryable = old.retryable
           /\ u.benchRetryable = a
BY DEF Row, BenchUpdated

(* A benchmark attempt touches none of the stock facts.                    *)
LEMMA BenchmarkAttemptHolds ==
    ASSUME TypeOK, NEW k \in Keys, NEW row, RowHolds(k, row), Sealed(row.result),
           NEW retryable, retryable \in BOOLEAN,
           NEW new, new = BenchmarkAttempt(row, retryable, clock)
    PROVE  /\ RowHolds(k, new)
           /\ Progressed(row, new)
           /\ new.count = row.count
           /\ new.benchCount = row.benchCount + 1
<1> DEFINE limit == IF row.benchDeadline # Never THEN row.benchDeadline ELSE clock + Window
           again == IF retryable /\ clock < limit THEN TRUE ELSE FALSE
           next  == IF again THEN clock + RetryDelay(row.benchCount + 1) ELSE Never
<1>1. /\ row \in Row /\ clock \in Nat /\ Window \in Nat /\ row.benchCount \in Nat
      /\ row.benchDeadline \in Nat \cup {Never} /\ TapeHas(k, row.result) /\ ~row.retryable
  <2>1. row \in Row /\ TapeHas(k, row.result) /\ ~row.retryable
    BY DEF RowHolds
  <2>2. clock \in Nat /\ Window \in Nat
    BY OutcomeAssumption DEF TypeOK, Times
  <2> QED
    BY <2>1, <2>2 DEF Row
<1>2. limit \in Nat \cup {Never} /\ again \in BOOLEAN
    BY <1>1
<1>3. next \in Nat \cup {Never}
  <2>1. row.benchCount + 1 \in Nat \ {0}
    BY <1>1
  <2>2. RetryDelay(row.benchCount + 1) \in Nat
    BY <2>1, OutcomeAssumption DEF RetryDelay
  <2> QED
    BY <1>1, <2>2
<1>4. new = BenchUpdated(row, row.benchCount + 1, limit, next, again)
    BY <1>1 DEF BenchmarkAttempt, Row, BenchUpdated
<1> HIDE DEF limit, again, next
<1>5. /\ new \in Row /\ new.result = row.result /\ new.count = row.count
      /\ new.deadline = row.deadline /\ new.retryable = row.retryable
      /\ new.benchCount = row.benchCount + 1
  <2>1. /\ row \in Row /\ row.benchCount + 1 \in Nat /\ limit \in Nat \cup {Never}
        /\ next \in Nat \cup {Never} /\ again \in BOOLEAN
        /\ new = BenchUpdated(row, row.benchCount + 1, limit, next, again)
    BY <1>1, <1>2, <1>3, <1>4
  <2>2. new \in Row
    BY ONLY <2>1, RowBenchUpdated
  <2>3. new = [row EXCEPT !.benchCount = row.benchCount + 1, !.benchDeadline = limit,
                          !.benchNext = next, !.benchRetryable = again]
    BY <2>1 DEF BenchUpdated
  <2>4. new.result = row.result /\ new.count = row.count /\ new.deadline = row.deadline
    BY ONLY <2>1, <2>3 DEF Row
  <2>5. new.benchCount = row.benchCount + 1 /\ new.retryable = row.retryable
    BY ONLY <2>1, <2>3 DEF Row
  <2> QED
    BY <2>2, <2>3, <2>4, <2>5
<1> QED
    BY <1>1, <1>5 DEF RowHolds, Progressed

-----------------------------------------------------------------------------
(* The inductive invariant.                                                *)

RowsHold == \A k \in Keys : rows[k] # Absent => RowHolds(k, rows[k])

(* A runner at work holds the lock, and the row in its hand is due.        *)
InHand(r) ==
    /\ pc[r] # "idle" => lock = r /\ todo[r] # <<>> /\ began[r] <= clock
    /\ pc[r] \in {"fetch", "settle"} =>
         /\ rows[Key(r)] # Absent /\ rows[Key(r)].retryable
         /\ Reached(rows[Key(r)].next, rows[Key(r)].deadline, clock)
    /\ pc[r] = "benchmark" =>
         /\ rows[Key(r)] # Absent /\ Sealed(rows[Key(r)].result)
         /\ rows[Key(r)].benchRetryable
         /\ Reached(rows[Key(r)].benchNext, rows[Key(r)].benchDeadline, clock)

RunsHold == \A r \in Runners : InHand(r)

Kinds == {"stock", "benchmark"}

(* The attempts of a row are numbered without a gap.                       *)
LedgerHolds ==
    /\ \A k \in Keys, kind \in Kinds : \A n \in Nat \ {0} :
         [key |-> k, kind |-> kind, number |-> n] \in attempts <=> n <= Made(k, kind)

IInv == TypeOK /\ RowsHold /\ RunsHold /\ LedgerHolds

(* A row is there or it is not.                                            *)
LEMMA RowIsPresent ==
    ASSUME NEW row \in Row
    PROVE  row # Absent
BY DEF Row, Absent

(* What a step may do to a row: nothing, or the one attempt that is due.   *)
DueStep(old, new, now) ==
    /\ Progressed(old, new)
    /\ new.count # old.count =>
         /\ new.count = old.count + 1
         /\ old.retryable /\ Reached(old.next, old.deadline, now)
    /\ new.benchCount # old.benchCount =>
         /\ new.benchCount = old.benchCount + 1
         /\ old.benchRetryable /\ Reached(old.benchNext, old.benchDeadline, now)

Stepped == \A k \in Keys : rows[k] # Absent => DueStep(rows[k], rows'[k], clock)

(* A row no step touches.                                                  *)
LEMMA SameRow ==
    ASSUME NEW row \in Row, NEW now
    PROVE  DueStep(row, row, now)
BY DEF DueStep, Progressed

(* The tape does not change, and what it says of a row does not either.    *)
LEMMA TapeStays ==
    ASSUME tape' = tape, NEW k \in Keys, NEW row, RowHolds(k, row)
    PROVE  RowHolds(k, row)'
<1>1. Entered' = Entered /\ Ended' = Ended
    BY DEF Entered, Ended
<1>2. ASSUME NEW result PROVE RightFill(result)' <=> RightFill(result)
    BY <1>1 DEF RightFill, FirstDay
<1>3. ASSUME NEW result PROVE RightExit(result)' <=> RightExit(result)
    BY <1>1 DEF RightExit, FirstDay
<1>4. ASSUME NEW d PROVE NeverFilled(d)' <=> NeverFilled(d)
    BY <1>1 DEF NeverFilled, FirstDay
<1>5. ASSUME NEW result PROVE RightForward(result)' <=> RightForward(result)
    BY DEF RightForward
<1>6. TapeHas(k, row.result)
    BY DEF RowHolds
<1>7. TapeHas(k, row.result)'
    BY <1>2, <1>3, <1>4, <1>5, <1>6 DEF TapeHas
<1> QED
    BY <1>7 DEF RowHolds

-----------------------------------------------------------------------------
(* Runners.                                                                *)

RunTyped ==
    /\ lock \in Runners \cup {None}
    /\ pc \in [Runners -> {"idle", "open", "fetch", "settle", "benchmark"}]
    /\ began \in [Runners -> Times]
    /\ todo \in [Runners -> Seq(Decisions)]
    /\ part \in [Runners -> Populations]
    /\ bars \in [Runners -> View \cup {Unread}]
    /\ \A r \in Runners : pc[r] # "idle" => lock = r

WorldTyped == tape \in Tapes /\ published \subseteq Sessions /\ clock \in Times
              /\ faults \in 0..MaxFaults

LEMMA TypeParts ==
    TypeOK <=> /\ rows \in [Keys -> Row \cup {Absent}]
               /\ attempts \subseteq Attempt
               /\ RunTyped /\ WorldTyped
BY DEF TypeOK, RunTyped, WorldTyped

(* The key in hand is a key.                                               *)
LEMMA KeyTyped ==
    ASSUME TypeOK, NEW r \in Runners, todo[r] # <<>>
    PROVE  Key(r) \in Keys
<1>1. Head(todo[r]) \in Decisions
    BY HeadTailProperties DEF TypeOK
<1> QED
    BY <1>1 DEF TypeOK, Key, Keys

(* Only one runner is at work.                                             *)
LEMMA OthersIdle ==
    ASSUME TypeOK, NEW r \in Runners, pc[r] # "idle", NEW q \in Runners, q # r
    PROVE  pc[q] = "idle"
BY DEF TypeOK

(* Going on to the next row, or ending.                                    *)
LEMMA AdvanceHolds ==
    ASSUME TypeOK, RunsHold, NEW r \in Runners, pc[r] # "idle", Advance(r), clock' = clock
    PROVE  RunTyped' /\ RunsHold'
<1>1. todo[r] # <<>> /\ todo[r] \in Seq(Decisions) /\ began[r] <= clock /\ lock = r
    BY DEF TypeOK, RunsHold, InHand
<1>2. Tail(todo[r]) \in Seq(Decisions) /\ (Len(todo[r]) # 1 => Tail(todo[r]) # <<>>)
  <2>1. Tail(todo[r]) \in Seq(Decisions) /\ Len(Tail(todo[r])) = Len(todo[r]) - 1
        /\ Len(todo[r]) \in Nat /\ Len(todo[r]) # 0
    BY <1>1, HeadTailProperties, EmptySeq, LenProperties
  <2>2. Len(todo[r]) # 1 => Len(Tail(todo[r])) # Len(<<>>)
    BY <2>1
  <2>3. Len(todo[r]) # 1 => Tail(todo[r]) # <<>>
    BY <2>2, Zenon
  <2> QED
    BY <2>1, <2>3
<1>3. \A q \in Runners : q # r => pc[q] = "idle"
    BY OthersIdle
<1>4. CASE part[r] = "forward"
  <2>1. /\ part' = [part EXCEPT ![r] = "execution"]
        /\ pc' = [pc EXCEPT ![r] = "open"]
        /\ lock' = lock /\ began' = began /\ todo' = todo /\ bars' = bars
    BY <1>4 DEF Advance
  <2>2. RunTyped'
    BY <2>1, <1>1, <1>3 DEF TypeOK, RunTyped, Populations
  <2>3. RunsHold'
    BY <2>1, <1>1, <1>3 DEF TypeOK, RunsHold, InHand
  <2> QED
    BY <2>2, <2>3
<1>5. CASE part[r] # "forward" /\ Len(todo[r]) = 1
  <2>1. /\ part' = [part EXCEPT ![r] = "forward"]
        /\ pc' = [pc EXCEPT ![r] = "idle"]
        /\ began' = [began EXCEPT ![r] = 0]
        /\ todo' = [todo EXCEPT ![r] = Tail(todo[r])]
        /\ bars' = [bars EXCEPT ![r] = Unread] /\ lock' = None
    BY <1>5 DEF Advance
  <2>2. RunTyped'
    BY <2>1, <1>2, <1>3, OutcomeAssumption DEF TypeOK, RunTyped, Populations, Times
  <2>3. RunsHold'
    BY <2>1, <1>3 DEF TypeOK, RunsHold, InHand
  <2> QED
    BY <2>2, <2>3
<1>6. CASE part[r] # "forward" /\ Len(todo[r]) # 1
  <2>1. /\ part' = [part EXCEPT ![r] = "forward"]
        /\ pc' = [pc EXCEPT ![r] = "open"]
        /\ todo' = [todo EXCEPT ![r] = Tail(todo[r])]
        /\ lock' = lock /\ began' = began /\ bars' = bars
    BY <1>6 DEF Advance
  <2>2. RunTyped'
    BY <2>1, <1>1, <1>2, <1>3 DEF TypeOK, RunTyped, Populations
  <2>3. RunsHold'
    BY <2>1, <1>1, <1>2, <1>3, <1>6 DEF TypeOK, RunsHold, InHand
  <2> QED
    BY <2>2, <2>3
<1> QED
    BY <1>4, <1>5, <1>6

(* A runner that stays on its row.                                         *)
LEMMA StayHolds ==
    ASSUME TypeOK, RunsHold, NEW r \in Runners, pc[r] # "idle",
           NEW to \in {"fetch", "settle", "benchmark"},
           pc' = [pc EXCEPT ![r] = to], bars' \in [Runners -> View \cup {Unread}],
           lock' = lock, began' = began, todo' = todo, part' = part, clock' = clock,
           to \in {"fetch", "settle"} =>
             /\ rows'[Key(r)] # Absent /\ rows'[Key(r)].retryable
             /\ Reached(rows'[Key(r)].next, rows'[Key(r)].deadline, clock),
           to = "benchmark" =>
             /\ rows'[Key(r)] # Absent /\ Sealed(rows'[Key(r)].result)
             /\ rows'[Key(r)].benchRetryable
             /\ Reached(rows'[Key(r)].benchNext, rows'[Key(r)].benchDeadline, clock)
    PROVE  RunTyped' /\ RunsHold'
<1>1. \A q \in Runners : q # r => pc[q] = "idle"
    BY OthersIdle
<1>2. pc' \in [Runners -> {"idle", "open", "fetch", "settle", "benchmark"}]
      /\ pc'[r] = to /\ \A q \in Runners : q # r => pc'[q] = "idle"
    BY <1>1 DEF TypeOK
<1>3. RunTyped'
    BY <1>1, <1>2 DEF TypeOK, RunTyped
<1>4. Key(r)' = Key(r)
    BY DEF Key
<1>5. InHand(r)
    BY DEF RunsHold
<1>6. InHand(r)'
    BY <1>2, <1>4, <1>5 DEF InHand
<1>7. \A q \in Runners : q # r => InHand(q)'
    BY <1>2 DEF InHand
<1> QED
    BY <1>3, <1>6, <1>7 DEF RunsHold

-----------------------------------------------------------------------------
(* Rows and their ledger.                                                  *)

(* One row is written, with what its attempt or its seeding leaves.        *)
LEMMA WriteHolds ==
    ASSUME TypeOK, RowsHold, NEW k \in Keys, NEW new, RowHolds(k, new),
           rows' = [rows EXCEPT ![k] = new], tape' = tape, clock' = clock,
           rows[k] # Absent => DueStep(rows[k], new, clock)
    PROVE  /\ rows' \in [Keys -> Row \cup {Absent}] /\ RowsHold' /\ Stepped
           /\ rows'[k] = new /\ \A j \in Keys : j # k => rows'[j] = rows[j]
<1>1. rows \in [Keys -> Row \cup {Absent}] /\ new \in Row
    BY DEF TypeOK, RowHolds
<1>2. /\ rows' \in [Keys -> Row \cup {Absent}]
      /\ rows'[k] = new /\ \A j \in Keys : j # k => rows'[j] = rows[j]
    BY <1>1
<1>3. \A j \in Keys : rows'[j] # Absent => RowHolds(j, rows'[j])
    BY <1>2 DEF RowsHold
<1>4. ASSUME NEW j \in Keys, rows'[j] # Absent PROVE RowHolds(j, rows[j])'
  <2>1. RowHolds(j, rows'[j])
    BY <1>3, <1>4
  <2>2. PICK row : row = rows'[j]
    OBVIOUS
  <2>3. RowHolds(j, row)'
    BY <2>1, <2>2, TapeStays
  <2> QED
    BY <2>2, <2>3
<1>5. RowsHold'
    BY <1>4 DEF RowsHold
<1>6. ASSUME NEW j \in Keys, rows[j] # Absent PROVE DueStep(rows[j], rows'[j], clock)
  <2>1. CASE j = k
    BY <1>2, <1>6, <2>1
  <2>2. CASE j # k
    <3>1. rows[j] \in Row /\ rows'[j] = rows[j]
      BY <1>1, <1>2, <1>6, <2>2
    <3> QED
      BY <3>1, SameRow
  <2> QED
    BY <2>1, <2>2
<1> QED
    BY <1>2, <1>5, <1>6 DEF Stepped

(* No row is written.                                                      *)
LEMMA RestHolds ==
    ASSUME TypeOK, RowsHold, LedgerHolds, rows' = rows, attempts' = attempts, tape' = tape
    PROVE  RowsHold' /\ LedgerHolds' /\ Stepped
<1>1. \A j \in Keys : rows[j] # Absent => rows[j] \in Row /\ DueStep(rows[j], rows'[j], clock)
    BY SameRow DEF TypeOK
<1>2. ASSUME NEW j \in Keys, rows'[j] # Absent PROVE RowHolds(j, rows[j])'
  <2>1. RowHolds(j, rows[j])
    BY <1>2 DEF RowsHold
  <2>2. PICK row : row = rows[j]
    OBVIOUS
  <2>3. RowHolds(j, row)'
    BY <2>1, <2>2, TapeStays
  <2> QED
    BY <2>2, <2>3
<1>3. LedgerHolds'
    BY DEF LedgerHolds, Made
<1> QED
    BY <1>1, <1>2, <1>3 DEF RowsHold, Stepped

LEMMA MadeTyped ==
    ASSUME TypeOK, NEW k \in Keys, NEW kind \in Kinds
    PROVE  Made(k, kind) \in Nat
<1>1. rows[k] # Absent => rows[k] \in Row
    BY DEF TypeOK
<1> QED
    BY <1>1 DEF Made, Row

(* One attempt is appended, and its counter is the one that moves.         *)
LEMMA AppendHolds ==
    ASSUME TypeOK, LedgerHolds, NEW k \in Keys, NEW kind \in Kinds,
           attempts' = attempts \cup
             {[key |-> k, kind |-> kind, number |-> Made(k, kind) + 1]},
           Made(k, kind)' = Made(k, kind) + 1,
           \A j \in Keys, other \in Kinds :
             <<j, other>> # <<k, kind>> => Made(j, other)' = Made(j, other)
    PROVE  LedgerHolds' /\ attempts' \subseteq Attempt
<1>1. Made(k, kind) \in Nat
    BY MadeTyped
<1>2. attempts' \subseteq Attempt
    BY <1>1 DEF TypeOK, Attempt, Kinds
<1>3. ASSUME NEW j \in Keys, NEW other \in Kinds, NEW n \in Nat \ {0}
      PROVE  [key |-> j, kind |-> other, number |-> n] \in attempts'
               <=> n <= Made(j, other)'
  <2>1. [key |-> j, kind |-> other, number |-> n] \in attempts <=> n <= Made(j, other)
    BY DEF LedgerHolds
  <2>2. CASE j = k /\ other = kind
    BY <1>1, <2>1, <2>2
  <2>3. CASE ~(j = k /\ other = kind)
    <3>1. Made(j, other)' = Made(j, other)
      BY <2>3
    <3> QED
      BY <2>1, <2>3, <3>1
  <2> QED
    BY <2>2, <2>3
<1>4. LedgerHolds'
    BY <1>3 DEF LedgerHolds
<1> QED
    BY <1>2, <1>4

-----------------------------------------------------------------------------
(* The actions.                                                            *)

(* What an action keeps and what it does.                                  *)
Kept == IInv' /\ Stepped

LEMMA StartRunKeeps ==
    ASSUME IInv, NEW r \in Runners, StartRun(r)
    PROVE  Kept
<1>1. PICK limit \in Limits : \E queue \in DecisionQueue(clock, limit) :
         queue # <<>> /\ todo' = [todo EXCEPT ![r] = queue]
    BY DEF StartRun
<1>2. PICK queue \in DecisionQueue(clock, limit) :
         queue # <<>> /\ todo' = [todo EXCEPT ![r] = queue]
    BY <1>1
<1>3. queue \in Seq(Decisions)
  <2> DEFINE wanted == Due(clock) \cup Unseeded(clock)
             size   == IF Cardinality(wanted) <= limit THEN Cardinality(wanted) ELSE limit
  <2>1. wanted \subseteq Decisions
    BY DEF Due, Unseeded
  <2>2. IsFiniteSet(wanted)
    BY <2>1, OutcomeAssumption, FS_Subset
  <2>3. size \in Nat
    BY <2>2, OutcomeAssumption, FS_CardinalityType
  <2>4. queue \in [1..size -> wanted]
    BY DEF DecisionQueue
  <2> HIDE DEF size, wanted
  <2>5. queue \in [1..size -> Decisions]
    BY <2>1, <2>4
  <2> QED
    BY <2>3, <2>5, SeqDef
<1>4. /\ pc[r] = "idle" /\ lock = None /\ lock' = r
      /\ pc' = [pc EXCEPT ![r] = "open"] /\ began' = [began EXCEPT ![r] = clock]
      /\ rows' = rows /\ attempts' = attempts /\ part' = part /\ bars' = bars
      /\ tape' = tape /\ published' = published /\ clock' = clock /\ faults' = faults
    BY DEF StartRun, LockFree, db, world
<1>5. RunTyped'
  <2>2. \A q \in Runners : q # r => pc[q] = "idle"
    BY <1>4, OutcomeAssumption DEF IInv, TypeOK
  <2> QED
    BY <1>2, <1>3, <1>4, <2>2 DEF IInv, TypeOK, RunTyped
<1>6. RunsHold'
  <2>1. \A q \in Runners : q # r => pc[q] = "idle"
    BY <1>4, OutcomeAssumption DEF IInv, TypeOK
  <2>2. \A q \in Runners : q # r => InHand(q)'
    BY <1>4, <2>1 DEF InHand, IInv, TypeOK
  <2>3. clock \in Nat
    BY OutcomeAssumption DEF IInv, TypeOK, Times
  <2>4. InHand(r)'
    BY <1>2, <1>4, <2>3 DEF InHand, IInv, TypeOK
  <2> QED
    BY <2>2, <2>4 DEF RunsHold
<1>7. RowsHold' /\ LedgerHolds' /\ Stepped
    BY <1>4, RestHolds DEF IInv
<1>8. TypeOK'
    BY <1>4, <1>5, TypeParts DEF IInv, TypeOK, RunTyped
<1> QED
    BY <1>5, <1>6, <1>7, <1>8 DEF Kept, IInv

LEMMA NewOutcomeHolds ==
    ASSUME NEW k \in Keys
    PROVE  /\ RowHolds(k, NewOutcome) /\ NewOutcome \in Row
           /\ NewOutcome.retryable /\ NewOutcome.next = Never
           /\ NewOutcome.count = 0 /\ NewOutcome.benchCount = 0
<1>1. Concluded(k, Undated("PENDING", "PENDING")) /\ ~Sealed(Undated("PENDING", "PENDING"))
    BY UndatedConcluded
<1>2. PICK result : result = Undated("PENDING", "PENDING")
    OBVIOUS
<1>3. result \in Result /\ TapeHas(k, result) /\ ~Sealed(result)
    BY <1>1, <1>2 DEF Concluded
<1>4. /\ NewOutcome.result = result /\ NewOutcome.retryable = TRUE /\ NewOutcome.next = Never
      /\ NewOutcome.count = 0 /\ NewOutcome.benchCount = 0 /\ NewOutcome.benchNext = Never
      /\ NewOutcome \in Row
    BY <1>2, <1>3 DEF NewOutcome, Row, Never
<1> QED
    BY <1>3, <1>4 DEF RowHolds

(* What is due when a run begins is due when it gets there.                *)
LEMMA ReachedLater ==
    ASSUME NEW next \in Nat \cup {Never}, NEW deadline \in Nat \cup {Never},
           NEW then \in Nat, NEW now \in Nat, then <= now, Reached(next, deadline, then)
    PROVE  Reached(next, deadline, now)
BY DEF Reached, Never

LEMMA OpenRowKeeps ==
    ASSUME IInv, NEW r \in Runners, OpenRow(r)
    PROVE  Kept
<1> DEFINE k == Key(r)
<1>1. /\ pc[r] = "open" /\ k \in Keys /\ began[r] \in Nat /\ clock \in Nat
      /\ began[r] <= clock /\ bars \in [Runners -> View \cup {Unread}]
      /\ rows[k] # Absent => rows[k] \in Row
  <2>1. pc[r] = "open" /\ todo[r] # <<>> /\ began[r] <= clock
    BY DEF OpenRow, IInv, RunsHold, InHand
  <2>2. k \in Keys
    BY <2>1, KeyTyped DEF IInv
  <2> QED
    BY <2>1, <2>2, OutcomeAssumption DEF IInv, TypeOK, Times
<1>2. /\ attempts' = attempts /\ tape' = tape /\ published' = published
      /\ clock' = clock /\ faults' = faults
    BY DEF OpenRow, world
<1> HIDE DEF k
<1>3. WorldTyped' /\ attempts' \subseteq Attempt
    BY <1>2 DEF IInv, TypeOK, WorldTyped
<1>4. CASE /\ rows[k] = Absent
           /\ rows' = [rows EXCEPT ![k] = NewOutcome]
           /\ pc' = [pc EXCEPT ![r] = "fetch"]
           /\ UNCHANGED <<lock, began, todo, part, bars>>
  <2>1. /\ RowHolds(k, NewOutcome) /\ NewOutcome.retryable /\ NewOutcome.next = Never
        /\ NewOutcome.count = 0 /\ NewOutcome.benchCount = 0 /\ NewOutcome # Absent
    BY <1>1, NewOutcomeHolds, RowIsPresent
  <2>2. /\ rows' \in [Keys -> Row \cup {Absent}] /\ RowsHold' /\ Stepped
        /\ rows'[k] = NewOutcome /\ \A j \in Keys : j # k => rows'[j] = rows[j]
    BY <1>1, <1>2, <1>4, <2>1, WriteHolds DEF IInv
  <2>3. RunTyped' /\ RunsHold'
    BY <1>1, <1>2, <1>4, <2>1, <2>2, StayHolds DEF IInv, k, Reached
  <2>4. \A j \in Keys, kind \in Kinds : Made(j, kind)' = Made(j, kind)
    BY <1>4, <2>1, <2>2 DEF Made
  <2>5. LedgerHolds'
    BY <1>2, <2>4 DEF LedgerHolds, IInv
  <2> QED
    BY <1>3, <2>2, <2>3, <2>5, TypeParts DEF Kept, IInv, TypeOK, RunTyped, WorldTyped
<1>5. CASE /\ rows[k] # Absent
           /\ rows[k].retryable /\ Reached(rows[k].next, rows[k].deadline, began[r])
           /\ pc' = [pc EXCEPT ![r] = "fetch"]
           /\ UNCHANGED <<rows, lock, began, todo, part, bars>>
  <2>1. Reached(rows[k].next, rows[k].deadline, clock)
    BY <1>1, <1>5, ReachedLater DEF Row
  <2>2. RunTyped' /\ RunsHold'
    BY <1>1, <1>2, <1>5, <2>1, StayHolds DEF IInv, k
  <2>3. RowsHold' /\ LedgerHolds' /\ Stepped
    BY <1>2, <1>5, RestHolds DEF IInv
  <2> QED
    BY <1>3, <1>5, <2>2, <2>3, TypeParts DEF Kept, IInv, TypeOK, RunTyped, WorldTyped
<1>6. CASE /\ rows[k] # Absent /\ BenchmarkDue(rows[k], began[r])
           /\ pc' = [pc EXCEPT ![r] = "benchmark"]
           /\ UNCHANGED <<rows, lock, began, todo, part, bars>>
  <2>1. /\ Sealed(rows[k].result) /\ rows[k].benchRetryable
        /\ Reached(rows[k].benchNext, rows[k].benchDeadline, clock)
    BY <1>1, <1>6, ReachedLater DEF Row, BenchmarkDue
  <2>2. RunTyped' /\ RunsHold'
    BY <1>1, <1>2, <1>6, <2>1, StayHolds DEF IInv, k
  <2>3. RowsHold' /\ LedgerHolds' /\ Stepped
    BY <1>2, <1>6, RestHolds DEF IInv
  <2> QED
    BY <1>3, <1>6, <2>2, <2>3, TypeParts DEF Kept, IInv, TypeOK, RunTyped, WorldTyped
<1>7. CASE Advance(r) /\ UNCHANGED rows
  <2>1. RunTyped' /\ RunsHold'
    BY <1>1, <1>2, <1>7, AdvanceHolds DEF IInv
  <2>2. RowsHold' /\ LedgerHolds' /\ Stepped
    BY <1>2, <1>7, RestHolds DEF IInv
  <2> QED
    BY <1>3, <1>7, <2>1, <2>2, TypeParts DEF Kept, IInv, TypeOK, RunTyped, WorldTyped
<1> QED
    BY <1>4, <1>5, <1>6, <1>7 DEF OpenRow, k

LEMMA FetchBarsKeeps ==
    ASSUME IInv, NEW r \in Runners, FetchBars(r)
    PROVE  Kept
<1>1. /\ pc[r] = "fetch" /\ pc' = [pc EXCEPT ![r] = "settle"]
      /\ rows' = rows /\ attempts' = attempts /\ lock' = lock /\ began' = began
      /\ todo' = todo /\ part' = part /\ tape' = tape /\ published' = published
      /\ clock' = clock /\ faults' = faults
    BY DEF FetchBars, db, world
<1>2. bars' \in [Runners -> View \cup {Unread}]
  <2>1. bars \in [Runners -> View \cup {Unread}] /\ Nothing \in View
        /\ \A unfinished : Shown(unfinished) \in View
    BY DEF IInv, TypeOK, Nothing, Shown, View
  <2> QED
    BY <2>1 DEF FetchBars
<1>3. InHand(r)
    BY DEF IInv, RunsHold
<1>4. RunTyped' /\ RunsHold'
    BY <1>1, <1>2, <1>3, StayHolds DEF IInv, InHand
<1>5. RowsHold' /\ LedgerHolds' /\ Stepped
    BY <1>1, RestHolds DEF IInv
<1>6. rows' \in [Keys -> Row \cup {Absent}] /\ attempts' \subseteq Attempt /\ WorldTyped'
    BY <1>1 DEF IInv, TypeOK, WorldTyped
<1> QED
    BY <1>4, <1>5, <1>6, TypeParts DEF Kept, IInv, TypeOK, RunTyped, WorldTyped

(* Whatever an evaluation concludes, its attempt is appended once.         *)
LEMMA SettleKeeps ==
    ASSUME IInv, NEW r \in Runners, NEW found, Concluded(Key(r), found),
           Late(rows[Key(r)], clock) => found.entry # "FILLED",
           NEW permanent, Settle(r, found, permanent)
    PROVE  Kept
<1>0. Key(r) \in Keys
  <2>1. todo[r] # <<>>
    BY DEF Settle, IInv, RunsHold, InHand
  <2> QED
    BY <2>1, KeyTyped DEF IInv
<1>k. PICK k \in Keys : k = Key(r)
    BY <1>0
<1> DEFINE row == rows[k]
           new == StockAttempt(row, found, permanent, clock)
<1>1. /\ pc[r] = "settle" /\ k \in Keys /\ row \in Row /\ RowHolds(k, row) /\ row.retryable
      /\ Reached(row.next, row.deadline, clock) /\ bars \in [Runners -> View \cup {Unread}]
  <2>1. /\ pc[r] = "settle" /\ todo[r] # <<>>
        /\ row # Absent /\ row.retryable /\ Reached(row.next, row.deadline, clock)
    BY <1>k DEF Settle, IInv, RunsHold, InHand
  <2>2. k \in Keys
    OBVIOUS
  <2>3. RowHolds(k, row)
    BY <2>1, <2>2 DEF IInv, RowsHold
  <2> QED
    BY <2>1, <2>2, <2>3 DEF IInv, TypeOK, RowHolds
<1>2. /\ tape' = tape /\ published' = published /\ clock' = clock /\ faults' = faults
    BY DEF Settle
<1>3. WorldTyped'
    BY <1>2 DEF IInv, TypeOK, WorldTyped
<1>4. ~Sealed(row.result)
    BY <1>1 DEF RowHolds
<1>5. /\ rows' = [rows EXCEPT ![k] = new]
      /\ attempts' = attempts \cup {[key |-> k, kind |-> "stock", number |-> new.count]}
      /\ \/ /\ Sealed(new.result) /\ new.benchRetryable
            /\ pc' = [pc EXCEPT ![r] = "benchmark"]
            /\ UNCHANGED <<lock, began, todo, part, bars>>
         \/ Advance(r)
    BY <1>k, <1>1, <1>4 DEF Settle
<1>6. /\ RowHolds(k, new) /\ Progressed(row, new)
      /\ new.count = row.count + 1 /\ new.benchCount = row.benchCount
      /\ Sealed(new.result) => new.benchNext = Never
    <2> HIDE DEF row, new
    <2>1. TypeOK /\ Concluded(k, found) /\ (Late(row, clock) => found.entry # "FILLED")
      BY <1>k DEF IInv, row
    <2>2. \A f, p, n : /\ Concluded(k, f) /\ (Late(row, clock) => f.entry # "FILLED")
                       /\ n = StockAttempt(row, f, p, clock)
            => /\ RowHolds(k, n) /\ Progressed(row, n)
               /\ n.count = row.count + 1 /\ n.benchCount = row.benchCount
               /\ Sealed(n.result) => n.benchNext = Never
      BY <1>1, <2>1, StockAttemptHolds
    <2> QED
      BY <2>1, <2>2 DEF new
<1> HIDE DEF row, new
<1>7. new \in Row /\ new # Absent /\ row # Absent
    BY <1>1, <1>6, RowIsPresent DEF RowHolds
<1>8. DueStep(row, new, clock)
    BY <1>1, <1>6 DEF DueStep
<1>9. /\ rows' \in [Keys -> Row \cup {Absent}] /\ RowsHold' /\ Stepped
      /\ rows'[k] = new /\ \A j \in Keys : j # k => rows'[j] = rows[j]
    BY <1>1, <1>2, <1>5, <1>6, <1>8, WriteHolds DEF IInv, row
<1>10. LedgerHolds' /\ attempts' \subseteq Attempt
  <2>1. Made(k, "stock") = row.count /\ Made(k, "benchmark") = row.benchCount
    BY <1>7 DEF Made, row
  <2>2. Made(k, "stock")' = new.count /\ Made(k, "benchmark")' = new.benchCount
    BY <1>7, <1>9 DEF Made
  <2>3. \A j \in Keys, other \in Kinds : j # k => Made(j, other)' = Made(j, other)
    BY <1>9 DEF Made
  <2>4. \A j \in Keys, other \in Kinds :
          <<j, other>> # <<k, "stock">> => Made(j, other)' = Made(j, other)
    BY <1>6, <2>1, <2>2, <2>3 DEF Kinds
  <2>5. Made(k, "stock")' = Made(k, "stock") + 1
    BY <1>6, <2>1, <2>2
  <2>6. attempts' = attempts \cup
          {[key |-> k, kind |-> "stock", number |-> Made(k, "stock") + 1]}
    BY <1>5, <1>6, <2>1
  <2> QED
    BY <1>1, <2>4, <2>5, <2>6, AppendHolds DEF IInv, Kinds
<1>11. RunTyped' /\ RunsHold'
  <2>1. CASE Advance(r)
    BY <1>1, <1>2, <2>1, AdvanceHolds DEF IInv
  <2>2. CASE /\ Sealed(new.result) /\ new.benchRetryable
             /\ pc' = [pc EXCEPT ![r] = "benchmark"]
             /\ UNCHANGED <<lock, began, todo, part, bars>>
    <3>1. Reached(new.benchNext, new.benchDeadline, clock)
      BY <1>6, <2>2 DEF Reached
    <3> QED
      BY <1>1, <1>2, <1>7, <1>9, <2>2, <3>1, <1>k, StayHolds DEF IInv
  <2> QED
    BY <1>5, <2>1, <2>2
<1> QED
    BY <1>3, <1>9, <1>10, <1>11, TypeParts DEF Kept, IInv, TypeOK, RunTyped, WorldTyped

LEMMA SettleStockKeeps ==
    ASSUME IInv, NEW r \in Runners, SettleStock(r)
    PROVE  Kept
<1>1. Key(r) \in Keys
  <2>1. todo[r] # <<>>
    BY DEF SettleStock, IInv, RunsHold, InHand
  <2> QED
    BY <2>1, KeyTyped DEF IInv
<1>2. PICK k \in Keys : k = Key(r)
    BY <1>1
<1>3. Concluded(k, Evaluated(r, k, clock))
    BY EvaluationFollows DEF IInv
<1>4. Late(rows[k], clock) => Evaluated(r, k, clock).entry # "FILLED"
    BY LateFindsNothing DEF IInv
<1>5. Settle(r, Evaluated(r, k, clock), Preflight(Key(r)) /\ Plan[Key(r)[1]] = "invalid")
    BY <1>2 DEF SettleStock
<1> QED
    BY <1>2, <1>3, <1>4, <1>5, SettleKeeps

LEMMA SettleUnverifiedKeeps ==
    ASSUME IInv, NEW r \in Runners, SettleUnverified(r)
    PROVE  Kept
<1>1. Key(r) \in Keys
  <2>1. todo[r] # <<>>
    BY DEF SettleUnverified, IInv, RunsHold, InHand
  <2> QED
    BY <2>1, KeyTyped DEF IInv
<1>2. Concluded(Key(r), Undated("INSUFFICIENT_DATA", "INSUFFICIENT_DATA"))
    BY <1>1, UndatedConcluded
<1>3. Undated("INSUFFICIENT_DATA", "INSUFFICIENT_DATA").entry # "FILLED"
    BY DEF Undated
<1>4. Settle(r, Undated("INSUFFICIENT_DATA", "INSUFFICIENT_DATA"), Key(r)[1] \in Unsupported)
    BY DEF SettleUnverified
<1> QED
    BY <1>2, <1>3, <1>4, SettleKeeps

LEMMA SettleBenchmarkKeeps ==
    ASSUME IInv, NEW r \in Runners, SettleBenchmark(r)
    PROVE  Kept
<1>0. Key(r) \in Keys
  <2>1. todo[r] # <<>>
    BY DEF SettleBenchmark, IInv, RunsHold, InHand
  <2> QED
    BY <2>1, KeyTyped DEF IInv
<1>k. PICK k \in Keys : k = Key(r)
    BY <1>0
<1> DEFINE row == rows[k]
<1>1. /\ pc[r] = "benchmark" /\ k \in Keys /\ row \in Row /\ RowHolds(k, row)
      /\ Sealed(row.result) /\ row.benchRetryable
      /\ Reached(row.benchNext, row.benchDeadline, clock)
  <2>1. /\ pc[r] = "benchmark" /\ todo[r] # <<>>
        /\ row # Absent /\ Sealed(row.result) /\ row.benchRetryable
        /\ Reached(row.benchNext, row.benchDeadline, clock)
    BY <1>k DEF SettleBenchmark, IInv, RunsHold, InHand
  <2>2. k \in Keys
    OBVIOUS
  <2>3. RowHolds(k, row)
    BY <2>1, <2>2 DEF IInv, RowsHold
  <2> QED
    BY <2>1, <2>2, <2>3 DEF RowHolds
<1>2. PICK retryable \in BenchmarkReads(k) :
        LET new == BenchmarkAttempt(row, retryable, clock) IN
          /\ rows' = [rows EXCEPT ![k] = new]
          /\ attempts' = attempts \cup
               {[key |-> k, kind |-> "benchmark", number |-> new.benchCount]}
    BY <1>k DEF SettleBenchmark
<1>3. PICK new : new = BenchmarkAttempt(row, retryable, clock)
    OBVIOUS
<1>4. /\ rows' = [rows EXCEPT ![k] = new]
      /\ attempts' = attempts \cup
           {[key |-> k, kind |-> "benchmark", number |-> new.benchCount]}
    BY <1>2, <1>3
<1>5. retryable \in BOOLEAN
    BY DEF BenchmarkReads
<1>6. /\ Advance(r) /\ tape' = tape /\ published' = published /\ clock' = clock
      /\ faults' = faults
    BY DEF SettleBenchmark, world
<1> HIDE DEF row
<1>7. /\ RowHolds(k, new) /\ Progressed(row, new)
      /\ new.count = row.count /\ new.benchCount = row.benchCount + 1
    BY <1>1, <1>3, <1>5, BenchmarkAttemptHolds DEF IInv
<1>8. new \in Row /\ new # Absent /\ row # Absent
    BY <1>1, <1>7, RowIsPresent DEF RowHolds
<1>9. DueStep(row, new, clock)
    BY <1>1, <1>7 DEF DueStep
<1>10. /\ rows' \in [Keys -> Row \cup {Absent}] /\ RowsHold' /\ Stepped
       /\ rows'[k] = new /\ \A j \in Keys : j # k => rows'[j] = rows[j]
    BY <1>1, <1>4, <1>6, <1>7, <1>9, WriteHolds DEF IInv, row
<1>11. LedgerHolds' /\ attempts' \subseteq Attempt
  <2>1. Made(k, "stock") = row.count /\ Made(k, "benchmark") = row.benchCount
    BY <1>8 DEF Made, row
  <2>2. Made(k, "stock")' = new.count /\ Made(k, "benchmark")' = new.benchCount
    BY <1>8, <1>10 DEF Made
  <2>3. \A j \in Keys, other \in Kinds : j # k => Made(j, other)' = Made(j, other)
    BY <1>10 DEF Made
  <2>4. \A j \in Keys, other \in Kinds :
          <<j, other>> # <<k, "benchmark">> => Made(j, other)' = Made(j, other)
    BY <1>7, <2>1, <2>2, <2>3 DEF Kinds
  <2>5. Made(k, "benchmark")' = Made(k, "benchmark") + 1
    BY <1>7, <2>1, <2>2
  <2>6. attempts' = attempts \cup
          {[key |-> k, kind |-> "benchmark", number |-> Made(k, "benchmark") + 1]}
    BY <1>4, <1>7, <2>1
  <2> QED
    BY <1>1, <2>4, <2>5, <2>6, AppendHolds DEF IInv, Kinds
<1>12. RunTyped' /\ RunsHold'
    BY <1>1, <1>6, AdvanceHolds DEF IInv
<1>13. WorldTyped'
    BY <1>6 DEF IInv, TypeOK, WorldTyped
<1> QED
    BY <1>10, <1>11, <1>12, <1>13, TypeParts DEF Kept, IInv, TypeOK, RunTyped, WorldTyped

LEMMA AbortRunKeeps ==
    ASSUME IInv, NEW r \in Runners, AbortRun(r)
    PROVE  Kept
<1>1. /\ pc[r] # "idle" /\ faults < MaxFaults /\ faults' = faults + 1
      /\ pc' = [pc EXCEPT ![r] = "idle"] /\ began' = [began EXCEPT ![r] = 0]
      /\ todo' = [todo EXCEPT ![r] = <<>>] /\ part' = [part EXCEPT ![r] = "forward"]
      /\ bars' = [bars EXCEPT ![r] = Unread] /\ lock' = None
      /\ rows' = rows /\ attempts' = attempts /\ tape' = tape
      /\ published' = published /\ clock' = clock
    BY DEF AbortRun, db
<1>2. \A q \in Runners : q # r => pc[q] = "idle"
    BY <1>1, OthersIdle DEF IInv
<1>3. <<>> \in Seq(Decisions)
    OBVIOUS
<1>4. RunTyped'
    BY <1>1, <1>2, <1>3, OutcomeAssumption DEF IInv, TypeOK, RunTyped, Populations, Times
<1>5. RunsHold'
    BY <1>1, <1>2 DEF IInv, TypeOK, RunsHold, InHand
<1>6. RowsHold' /\ LedgerHolds' /\ Stepped
    BY <1>1, RestHolds DEF IInv
<1>7. WorldTyped'
    BY <1>1, OutcomeAssumption DEF IInv, TypeOK, WorldTyped
<1>8. rows' \in [Keys -> Row \cup {Absent}] /\ attempts' \subseteq Attempt
    BY <1>1 DEF IInv, TypeOK
<1> QED
    BY <1>4, <1>5, <1>6, <1>7, <1>8, TypeParts DEF Kept, IInv, TypeOK, RunTyped, WorldTyped

LEMMA TickKeeps ==
    ASSUME IInv, Tick
    PROVE  Kept
<1>1. /\ clock < MaxClock /\ clock' = clock + 1 /\ clock \in Nat
      /\ rows' = rows /\ attempts' = attempts /\ lock' = lock /\ pc' = pc
      /\ began' = began /\ todo' = todo /\ part' = part /\ bars' = bars
      /\ tape' = tape /\ faults' = faults /\ published' \subseteq Sessions
    BY OutcomeAssumption DEF Tick, db, run, IInv, TypeOK, Times
<1>2. RunTyped' /\ WorldTyped' /\ rows' \in [Keys -> Row \cup {Absent}]
      /\ attempts' \subseteq Attempt
    BY <1>1, OutcomeAssumption DEF IInv, TypeOK, RunTyped, WorldTyped, Times
<1>3. ASSUME NEW r \in Runners PROVE InHand(r)'
  <2>1. InHand(r) /\ Key(r)' = Key(r) /\ began[r] \in Nat
    BY <1>1, OutcomeAssumption DEF IInv, RunsHold, Key, TypeOK, Times
  <2>2. ASSUME pc[r] # "idle" PROVE Key(r) \in Keys
    BY <2>1, <2>2, KeyTyped DEF IInv, InHand
  <2>3. ASSUME pc[r] \in {"fetch", "settle"}
        PROVE  Reached(rows[Key(r)].next, rows[Key(r)].deadline, clock + 1)
    <3>1. rows[Key(r)] \in Row
      BY <2>1, <2>2, <2>3 DEF InHand, IInv, TypeOK
    <3>2. rows[Key(r)].next \in Nat \cup {Never} /\ rows[Key(r)].deadline \in Nat \cup {Never}
          /\ Reached(rows[Key(r)].next, rows[Key(r)].deadline, clock)
      BY <2>1, <2>3, <3>1 DEF InHand, Row
    <3> QED
      BY <1>1, <3>2, ReachedLater
  <2>4. ASSUME pc[r] = "benchmark"
        PROVE  Reached(rows[Key(r)].benchNext, rows[Key(r)].benchDeadline, clock + 1)
    <3>1. rows[Key(r)] \in Row
      BY <2>1, <2>2, <2>4 DEF InHand, IInv, TypeOK
    <3>2. /\ rows[Key(r)].benchNext \in Nat \cup {Never}
          /\ rows[Key(r)].benchDeadline \in Nat \cup {Never}
          /\ Reached(rows[Key(r)].benchNext, rows[Key(r)].benchDeadline, clock)
      BY <2>1, <2>4, <3>1 DEF InHand, Row
    <3>3. clock + 1 \in Nat /\ clock <= clock + 1 /\ clock \in Nat
      BY <1>1
    <3> QED
      BY ONLY <3>2, <3>3, ReachedLater
  <2> QED
    BY <1>1, <2>1, <2>3, <2>4 DEF InHand
<1>4. RowsHold' /\ LedgerHolds' /\ Stepped
    BY <1>1, RestHolds DEF IInv
<1> QED
    BY <1>2, <1>3, <1>4, TypeParts DEF Kept, IInv, RunsHold, TypeOK, RunTyped, WorldTyped

LEMMA InitHolds ==
    Init => IInv
<1> SUFFICES ASSUME Init PROVE IInv
    OBVIOUS
<1>1. TypeOK
  <2>1. <<>> \in Seq(Decisions)
    OBVIOUS
  <2> QED
    BY <2>1, OutcomeAssumption DEF Init, TypeOK, Populations, Times
<1>2. RowsHold
    BY DEF Init, RowsHold
<1>3. RunsHold
    BY DEF Init, RunsHold, InHand
<1>4. LedgerHolds
    BY DEF Init, LedgerHolds, Made
<1> QED
    BY <1>1, <1>2, <1>3, <1>4 DEF IInv

LEMMA StepKeeps ==
    IInv /\ [Next]_vars => Kept
<1> SUFFICES ASSUME IInv, [Next]_vars PROVE Kept
    OBVIOUS
<1>1. ASSUME NEW r \in Runners, StartRun(r) PROVE Kept
    BY <1>1, StartRunKeeps
<1>2. ASSUME NEW r \in Runners, Step(r) PROVE Kept
    BY <1>2, OpenRowKeeps, FetchBarsKeeps, SettleStockKeeps, SettleUnverifiedKeeps,
       SettleBenchmarkKeeps DEF Step
<1>3. ASSUME NEW r \in Runners, AbortRun(r) PROVE Kept
    BY <1>3, AbortRunKeeps
<1>4. CASE Tick
    BY <1>4, TickKeeps
<1>5. CASE UNCHANGED vars
  <2>1. /\ rows' = rows /\ attempts' = attempts /\ lock' = lock /\ pc' = pc
        /\ began' = began /\ todo' = todo /\ part' = part /\ bars' = bars
        /\ tape' = tape /\ published' = published /\ clock' = clock /\ faults' = faults
    BY <1>5 DEF vars, db, run, world
  <2>2. RowsHold' /\ LedgerHolds' /\ Stepped
    BY <2>1, RestHolds DEF IInv
  <2>3. TypeOK' /\ RunsHold'
    BY <2>1 DEF IInv, TypeOK, RunsHold, InHand, Key
  <2> QED
    BY <2>2, <2>3 DEF Kept, IInv
<1> QED
    BY <1>1, <1>2, <1>3, <1>4, <1>5 DEF Next

-----------------------------------------------------------------------------
(* The theorems.                                                           *)

(* The inductive invariant: rows agree with the tape, runners hold rows    *)
(* that are due, and the attempts of a row are numbered without a gap.     *)
THEOREM InvariantHolds == Spec => []IInv
<1>1. IInv /\ [Next]_vars => IInv'
    BY StepKeeps DEF Kept
<1> QED
    BY InitHolds, <1>1, PTL DEF Spec

(* Every row, attempt and runner is well-typed (the tables of models.py),  *)
(* and one runner at most is inside the lock.                              *)
THEOREM OutcomeTypeCorrect == Spec => []TypeOK
<1>1. IInv => TypeOK
    BY DEF IInv
<1> QED
    BY InvariantHolds, <1>1, PTL

(* What a row settles is what the complete tape says, whatever bars were   *)
(* missing, unfinished or late when it was evaluated                       *)
(* (outcome_kernel.py, _append_stock_attempt).                             *)
THEOREM OutcomesFollowTheTape == Spec => []FollowsTheTape
<1>1. IInv => FollowsTheTape
  <2> SUFFICES ASSUME IInv, NEW k \in Keys, rows[k] # Absent
               PROVE  LET result == rows[k].result IN
                      /\ k[2] = "forward" /\ Sealed(result) => RightForward(result)
                      /\ k[2] = "execution" /\ result.entry = "FILLED" => RightFill(result)
                      /\ k[2] = "execution" /\ Sealed(result) =>
                           IF result.entry = "FILLED" THEN RightExit(result)
                           ELSE NeverFilled(k[1])
    BY DEF FollowsTheTape
  <2>1. TapeHas(k, rows[k].result)
    BY DEF IInv, RowsHold, RowHolds
  <2> QED
    BY <2>1 DEF TapeHas
<1> QED
    BY InvariantHolds, <1>1, PTL

(* Every attempt is in the ledger once, in order and without a gap, and a  *)
(* benchmark attempt belongs to settled facts (_append_stock_attempt,      *)
(* _append_benchmark_attempt).                                             *)
THEOREM LedgerMatchesRows == Spec => []LedgerAgrees
<1>1. IInv => LedgerAgrees
  <2> SUFFICES ASSUME IInv, NEW k \in Keys
               PROVE  /\ \A kind \in Kinds :
                           {a.number : a \in {b \in attempts : b.key = k /\ b.kind = kind}}
                             = 1..Made(k, kind)
                      /\ Made(k, "benchmark") > 0 => Sealed(rows[k].result)
    BY DEF LedgerAgrees, Kinds
  <2>1. ASSUME NEW kind \in Kinds
        PROVE  {a.number : a \in {b \in attempts : b.key = k /\ b.kind = kind}}
                 = 1..Made(k, kind)
    <3>1. Made(k, kind) \in Nat
      BY MadeTyped DEF IInv
    <3>2. ASSUME NEW b \in attempts, b.key = k, b.kind = kind
          PROVE  b.number \in 1..Made(k, kind)
      <4>1. b \in Attempt
        BY DEF IInv, TypeOK
      <4>2. b = [key |-> k, kind |-> kind, number |-> b.number] /\ b.number \in Nat \ {0}
        BY <3>2, <4>1 DEF Attempt
      <4>3. b.number <= Made(k, kind)
        BY <4>2 DEF IInv, LedgerHolds
      <4> QED
        BY <3>1, <4>2, <4>3
    <3>3. ASSUME NEW n \in 1..Made(k, kind)
          PROVE  [key |-> k, kind |-> kind, number |-> n] \in attempts
      BY <3>1 DEF IInv, LedgerHolds
    <3> DEFINE found == {b \in attempts : b.key = k /\ b.kind = kind}
    <3>4. {a.number : a \in found} \subseteq 1..Made(k, kind)
      BY <3>2
    <3>5. ASSUME NEW n \in 1..Made(k, kind) PROVE n \in {a.number : a \in found}
      <4>1. [key |-> k, kind |-> kind, number |-> n] \in found
        BY <3>3
      <4>2. [key |-> k, kind |-> kind, number |-> n].number = n
        OBVIOUS
      <4> HIDE DEF found
      <4> QED
        BY <4>1, <4>2
    <3> QED
      BY <3>4, <3>5
  <2>2. ASSUME Made(k, "benchmark") > 0 PROVE Sealed(rows[k].result)
    <3>1. rows[k] # Absent /\ rows[k].benchCount > 0
      BY <2>2 DEF Made
    <3>2. RowHolds(k, rows[k])
      BY <3>1 DEF IInv, RowsHold
    <3> QED
      BY <3>1, <3>2 DEF RowHolds
  <2> QED
    BY <2>1, <2>2
<1> QED
    BY InvariantHolds, <1>1, PTL

(* Settled facts never change, a fill is never lost and the window stays   *)
(* where it was put (_append_stock_attempt).                               *)
THEOREM SettledFactsStay == Spec => FactsAreSealed
<1>1. IInv /\ [Next]_vars =>
        [\A k \in Keys : rows[k] # Absent =>
           /\ rows'[k] # Absent
           /\ Sealed(rows[k].result) => rows'[k].result = rows[k].result
           /\ rows[k].result.entry = "FILLED" =>
                /\ rows'[k].result.entry = "FILLED"
                /\ rows'[k].result.entryDay = rows[k].result.entryDay
           /\ rows[k].deadline # Never => rows'[k].deadline = rows[k].deadline]_rows
  <2> SUFFICES ASSUME IInv, [Next]_vars, NEW k \in Keys, rows[k] # Absent
               PROVE  /\ rows'[k] # Absent
                      /\ Sealed(rows[k].result) => rows'[k].result = rows[k].result
                      /\ rows[k].result.entry = "FILLED" =>
                           /\ rows'[k].result.entry = "FILLED"
                           /\ rows'[k].result.entryDay = rows[k].result.entryDay
                      /\ rows[k].deadline # Never => rows'[k].deadline = rows[k].deadline
    OBVIOUS
  <2>1. Progressed(rows[k], rows'[k])
    BY StepKeeps DEF Kept, Stepped, DueStep
  <2>2. rows'[k] # Absent
    BY <2>1, RowIsPresent DEF Progressed
  <2> QED
    BY <2>1, <2>2 DEF Progressed
<1> QED
    BY InvariantHolds, <1>1, PTL DEF Spec, FactsAreSealed

(* However runs overlap, an attempt is made when the row asked for it and  *)
(* moves its counter by one (_RUN_LOCK, _decision_queue).                  *)
THEOREM AttemptsAreDue == Spec => RetriesKeepSchedule
<1>1. IInv /\ [Next]_vars =>
        [\A k \in Keys : rows[k] # Absent =>
           /\ rows'[k].count # rows[k].count =>
                /\ rows'[k].count = rows[k].count + 1
                /\ rows[k].retryable /\ Reached(rows[k].next, rows[k].deadline, clock)
           /\ rows'[k].benchCount # rows[k].benchCount =>
                /\ rows'[k].benchCount = rows[k].benchCount + 1
                /\ rows[k].benchRetryable
                /\ Reached(rows[k].benchNext, rows[k].benchDeadline, clock)]_rows
  <2> SUFFICES ASSUME IInv, [Next]_vars, NEW k \in Keys, rows[k] # Absent
               PROVE  DueStep(rows[k], rows'[k], clock)
    BY DEF DueStep
  <2> QED
    BY StepKeeps DEF Kept, Stepped
<1> QED
    BY InvariantHolds, <1>1, PTL DEF Spec, RetriesKeepSchedule
=============================================================================
