------------------------- MODULE DeepAnalysisProofs -------------------------
(***************************************************************************)
(* The deep analyses, for any number of runs and stocks and any limits.    *)
(* The invariant says of every run which parts of the state still speak of *)
(* it: the patch counts the threads inside it, a row and a result speak of *)
(* a success only when the run had one in time, a live request has a       *)
(* running row and rows age in the order of their ids, and of two live     *)
(* runs of a stock one knows the other.                                    *)
(***************************************************************************)
EXTENDS DeepAnalysis, WellFoundedInduction, FiniteSetTheorems, TLAPS

PatchHolds == PatchCoversGraphs

Early(r) == run[r].place \in {"idle", "queued", "collecting", "cached"}

OutcomeHolds ==
    /\ \A r \in Runs : run[r].outcome # "none" => run[r].place \in {"returned", "over"}
    /\ \A r \in Runs : row[r].status = "success" => run[r].outcome = "success"
    /\ \A r \in Runs, s \in Stocks : history[s] = r => run[r].outcome = "success"
    /\ \A r \in Runs : Early(r) => thread[r] = "none"

Count == Cardinality({r \in Runs : Requested(r)})

RowsHold ==
    /\ \A r \in Runs : At(r, "idle") => ~Requested(r)
    /\ \A r \in Runs : Requested(r) /\ Live(r) => row[r].status = "running"
    /\ \A r \in Runs : Requested(r) => row[r].id <= Count
    /\ \A q, r \in Runs :
          row[q].status = "running" /\ row[r].status = "running" /\ row[q].id <= row[r].id
            => row[q].age >= row[r].age

Know(q, r) == q \in run[r].beside \/ r \in run[q].beside

Unserved(r) == run[r].place \in {"cached", "waiting", "mapped"} /\ ~run[r].forced

BesideHolds ==
    /\ \A q, r \in Runs :
          q # r /\ Live(q) /\ Live(r) /\ run[q].stock = run[r].stock => Know(q, r)
    /\ \A q, r \in Runs, s \in Stocks :
          q # r /\ Unserved(r) /\ run[r].stock = s /\ history[s] = q => Know(q, r)
    /\ \A r \in Runs : Live(r) => run[r].stock \in Stocks

IInv == TypeOK /\ PatchHolds /\ OutcomeHolds /\ RowsHold /\ BesideHolds

\* What a run was asked.
Asked(rec) == <<rec.stock, rec.beside>>

\* Run r moves on, keeping what it was asked, and once forced stays forced; the
\* others stay where they are.
Continues(r, place, outcome) ==
    /\ run' \in [Runs -> RunRecord]
    /\ \A q \in Runs \ {r} : run'[q] = run[q]
    /\ run'[r].place = place /\ run'[r].outcome = outcome
    /\ run'[r].stock = run[r].stock /\ (run[r].forced => run'[r].forced)
    /\ run'[r].beside = run[r].beside

-----------------------------------------------------------------------------
(* The row find_active_tradingagents_trace looks at.                       *)

LEMMA NewestIsNewest ==
    ASSUME NEW S \in SUBSET Runs, S # {}, row \in [Runs -> RowRecord]
    PROVE  /\ Newest(S) \in S
           /\ \A q \in S : row[q].id <= row[Newest(S)].id
<1> DEFINE Max   == Cardinality(Runs)
           Above == {row[r].id..Max : r \in S}
           Order == StrictSubsetOrdering(Nat)
<1>1. Max \in Nat
    BY AnalysisAssumption, FS_CardinalityType
<1>2. \A r \in S : row[r].id \in Nat /\ row[r].id <= Max
    BY <1>1 DEF RowRecord
<1>3. Above # {} /\ Above \subseteq FiniteSubsetsOf(Nat)
  <2>1. \A n \in Nat : n..Max \subseteq Nat /\ IsFiniteSet(n..Max)
    BY <1>1, FS_Interval
  <2> HIDE DEF Max
  <2> QED
    BY <2>1, <1>2 DEF FiniteSubsetsOf
<1>4. PICK D \in Above : \A E \in Above : ~(<<E, D>> \in Order)
  <2>1. IsWellFoundedOn(Order, FiniteSubsetsOf(Nat))
    BY FS_StrictSubsetOrderingWellFounded
  <2> HIDE DEF Above, Order
  <2> QED
    BY <1>3, <2>1, WFMin
<1>5. PICK r \in S : D = row[r].id..Max
    OBVIOUS
<1>6. ASSUME NEW q \in S, ~(row[q].id <= row[r].id) PROVE FALSE
  <2> DEFINE a == row[r].id
             b == row[q].id
  <2>1. a \in Nat /\ b \in Nat /\ a < b /\ b <= Max
    BY <1>2, <1>6
  <2>2. b..Max \in Above /\ D = a..Max
    BY <1>5
  <2> HIDE DEF a, b, Max, Above
  <2>3. a \in a..Max /\ a \notin b..Max
    BY <2>1, <1>1
  <2>4. b..Max \subseteq a..Max /\ a..Max \in SUBSET Nat /\ b..Max \in SUBSET Nat
    BY <2>1, <1>1
  <2>5. <<b..Max, D>> \in Order
    BY <2>2, <2>3, <2>4 DEF StrictSubsetOrdering
  <2> QED
    BY <2>5, <2>2, <1>4
<1>7. \A q \in S : row[q].id <= row[r].id
    BY <1>6
<1> QED
    BY <1>7 DEF Newest

-----------------------------------------------------------------------------
(* Frames: what a move of one run cannot disturb.                          *)

LEMMA Limits ==
    /\ Ttl \in Nat \ {0} /\ Quiet \in Nat \ {0} /\ Timeout \in Nat \ {0}
    /\ Budget \in Nat \ {0} /\ Cardinality(Runs) \in Nat
    /\ None \notin Runs /\ None \notin Stocks
    /\ IsFiniteSet(Runs) /\ IsFiniteSet(Stocks)
BY AnalysisAssumption, FS_CardinalityType

LEMMA ZeroWait == 0 \in 0..Timeout
BY Limits

(* A run becomes another record of the same request.                      *)
LEMMA BecomeContinues ==
    ASSUME TypeOK, NEW r \in Runs, NEW new \in RunRecord,
           Asked(new) = Asked(run[r]), run[r].forced => new.forced, Become(r, new)
    PROVE  Continues(r, new.place, new.outcome)
<1>1. run \in [Runs -> RunRecord]
    BY DEF TypeOK
<1>2. run'[r] = new /\ \A q \in Runs \ {r} : run'[q] = run[q]
    BY <1>1 DEF Become
<1>3. run' \in [Runs -> RunRecord]
    BY <1>1 DEF Become
<1>4. new.stock = run[r].stock /\ new.beside = run[r].beside
    BY DEF Asked
<1> QED
    BY <1>2, <1>3, <1>4 DEF Continues

LEMMA MoveContinues ==
    ASSUME TypeOK, NEW r \in Runs, NEW place \in Places,
           MoveTo(r, place)
    PROVE  Continues(r, place, run[r].outcome)
<1> DEFINE new == [run[r] EXCEPT !.place = place]
<1>1. 0 \in 0..Timeout /\ place \in Places
    BY ZeroWait DEF Places
<1>2. run[r] \in RunRecord
    BY DEF TypeOK
<1>3. /\ new \in RunRecord /\ Asked(new) = Asked(run[r]) /\ new.forced = run[r].forced
      /\ new.place = place /\ new.outcome = run[r].outcome
    BY <1>1, <1>2 DEF RunRecord, Asked
<1>4. Become(r, new)
    BY DEF MoveTo
<1> HIDE DEF new
<1> QED
    BY <1>3, <1>4, BecomeContinues

LEMMA WithoutCacheContinues ==
    ASSUME TypeOK, NEW r \in Runs,
           WithoutCache(r)
    PROVE  Continues(r, "cached", run[r].outcome) /\ run'[r].forced
<1> DEFINE new == [run[r] EXCEPT !.place = "cached", !.forced = TRUE]
<1>1. run[r] \in RunRecord /\ run \in [Runs -> RunRecord]
    BY DEF TypeOK
<1>2. /\ new \in RunRecord /\ Asked(new) = Asked(run[r]) /\ new.forced
      /\ new.place = "cached" /\ new.outcome = run[r].outcome
    BY <1>1 DEF RunRecord, Asked, Places
<1>3. Become(r, new)
    BY DEF WithoutCache
<1> HIDE DEF new
<1>4. run'[r] = new
    BY <1>1, <1>3 DEF Become
<1> QED
    BY <1>2, <1>3, <1>4, BecomeContinues

LEMMA ReceiveContinues ==
    ASSUME TypeOK, NEW r \in Runs,
           Receive(r)
    PROVE  Continues(r, "mapped", run[r].outcome)
<1> DEFINE new == [run[r] EXCEPT !.place = "mapped", !.wait = 0]
<1>1. 0 \in 0..Timeout /\ "mapped" \in Places
    BY ZeroWait DEF Places
<1>2. run[r] \in RunRecord
    BY DEF TypeOK
<1>3. /\ new \in RunRecord /\ Asked(new) = Asked(run[r]) /\ new.forced = run[r].forced
      /\ new.place = "mapped" /\ new.outcome = run[r].outcome
    BY <1>1, <1>2 DEF RunRecord, Asked
<1>4. Become(r, new)
    BY DEF Receive
<1> HIDE DEF new
<1> QED
    BY <1>3, <1>4, BecomeContinues

LEMMA ReturnContinues ==
    ASSUME TypeOK, NEW r \in Runs, NEW outcome \in {"success", "failed", "timed out"},
           Return(r, outcome)
    PROVE  Continues(r, "returned", outcome)
<1> DEFINE new == [run[r] EXCEPT !.place = "returned", !.outcome = outcome, !.wait = 0]
<1>1. 0 \in 0..Timeout /\ "returned" \in Places
    BY ZeroWait DEF Places
<1>2. run[r] \in RunRecord
    BY DEF TypeOK
<1>3. /\ new \in RunRecord /\ Asked(new) = Asked(run[r]) /\ new.forced = run[r].forced
      /\ new.place = "returned" /\ new.outcome = outcome
    BY <1>1, <1>2 DEF RunRecord, Asked
<1>4. Become(r, new)
    BY DEF Return
<1> HIDE DEF new
<1> QED
    BY <1>3, <1>4, BecomeContinues

LEMMA PatchKept ==
    ASSUME PatchHolds, UNCHANGED PatchVars, Inside' = Inside
    PROVE  PatchHolds'
BY DEF PatchHolds, PatchCoversGraphs, PatchVars

LEMMA RowsKept ==
    ASSUME IInv, NEW r \in Runs, NEW place, NEW outcome,
           Continues(r, place, outcome), Live(r), place # "idle", UNCHANGED row
    PROVE  RowsHold'
<1>1. Count' = Count /\ \A q \in Runs : Requested(q)' = Requested(q)
    BY DEF Count, Requested
<1>2. \A q \in Runs : (Live(q)' => Live(q)) /\ (At(q, "idle")' => At(q, "idle"))
    BY DEF Continues, Live, At
<1> QED
    BY <1>1, <1>2 DEF IInv, RowsHold

LEMMA BesideKept ==
    ASSUME IInv, NEW r \in Runs, NEW place, NEW outcome,
           Continues(r, place, outcome), Live(r), place # "idle", UNCHANGED history,
           Unserved(r)' => Unserved(r) \/ history[run[r].stock] = None
    PROVE  BesideHolds'
<1>1. \A q \in Runs : /\ run'[q].stock = run[q].stock
                      /\ run'[q].beside = run[q].beside
                      /\ Live(q)' => Live(q)
    BY DEF Continues, Live
<1>2. \A p, q \in Runs : Know(p, q)' = Know(p, q)
    BY <1>1 DEF Know
<1>3. \A q \in Runs \ {r} : Unserved(q)' = Unserved(q)
    BY DEF Continues, Unserved
<1>4. None \notin Runs
    BY AnalysisAssumption
<1> QED
    BY <1>1, <1>2, <1>3, <1>4 DEF IInv, BesideHolds

LEMMA OutcomeKept ==
    ASSUME IInv, NEW r \in Runs, NEW place, NEW outcome,
           Continues(r, place, outcome), UNCHANGED history, UNCHANGED row,
           run[r].outcome \in {"none", outcome},
           outcome # "none" => place \in {"returned", "over"},
           \A q \in Runs : Early(q)' => thread'[q] = "none"
    PROVE  OutcomeHolds'
<1>1. \A q \in Runs : run[q].outcome = "success" => run'[q].outcome = "success"
    BY DEF Continues
<1>2. \A q \in Runs : run'[q].outcome # "none" => run'[q].place \in {"returned", "over"}
    BY DEF Continues, IInv, OutcomeHolds
<1> QED
    BY <1>1, <1>2 DEF IInv, OutcomeHolds
-----------------------------------------------------------------------------
(* One lemma per action.                                                   *)

LEMMA TypeKept ==
    ASSUME TypeOK, NEW r \in Runs, NEW place, NEW outcome, Continues(r, place, outcome),
           UNCHANGED <<row, lastLog, thread, PatchVars, history, earlier>>
    PROVE  TypeOK'
BY DEF TypeOK, Continues, PatchVars

(* A move of the coroutine alone.                                          *)
LEMMA MoveHolds ==
    ASSUME IInv, NEW r \in Runs, NEW place \in Places, NEW outcome,
           Continues(r, place, outcome), Live(r), place # "idle",
           run[r].outcome \in {"none", outcome},
           outcome # "none" => place \in {"returned", "over"},
           Unserved(r)' => Unserved(r) \/ history[run[r].stock] = None,
           Early(r)' => Early(r),
           UNCHANGED <<row, lastLog, thread, PatchVars, history, earlier>>
    PROVE  IInv'
<1>1. TypeOK'
    BY TypeKept DEF IInv
<1>2. PatchHolds'
    BY PatchKept DEF IInv, Inside
<1>3. RowsHold'
    BY RowsKept
<1>4. BesideHolds'
    BY BesideKept
<1>5. \A q \in Runs : Early(q)' => thread'[q] = "none"
  <2>1. \A q \in Runs : Early(q)' => Early(q)
    BY DEF Continues, Early
  <2> QED
    BY <2>1 DEF IInv, OutcomeHolds
<1>6. OutcomeHolds'
    BY <1>5, OutcomeKept
<1> QED
    BY <1>1, <1>2, <1>3, <1>4, <1>6 DEF IInv

(* What the place of a live run says of its outcome.                       *)
LEMMA Unfinished ==
    ASSUME IInv, NEW r \in Runs, run[r].place \notin {"returned", "over"}
    PROVE  run[r].outcome = "none"
BY DEF IInv, OutcomeHolds

LEMMA PrepareHolds ==
    ASSUME IInv, NEW r \in Runs, Prepare(r)
    PROVE  IInv'
<1>1. PICK place \in {"collecting", "over"} : MoveTo(r, place)
    BY DEF Prepare
<1>2. place \in Places /\ place # "idle"
    BY DEF Places
<1>3. Continues(r, place, run[r].outcome)
    BY <1>1, <1>2, MoveContinues DEF IInv
<1>4. run[r].place = "queued" /\ run[r].outcome = "none"
    BY Unfinished DEF Prepare, At
<1>5. ~Unserved(r)' /\ Early(r) /\ Live(r)
    BY <1>3, <1>4 DEF Unserved, Continues, Early, Live
<1> QED
    BY <1>2, <1>3, <1>4, <1>5, MoveHolds DEF Prepare

LEMMA CollectedHolds ==
    ASSUME IInv, NEW r \in Runs, Collected(r)
    PROVE  IInv'
<1>1. run[r].place = "collecting" /\ run[r].outcome = "none"
    BY Unfinished DEF Collected, At
<1>2. Early(r) /\ Live(r)
    BY <1>1 DEF Early, Live
<1>3. CASE Return(r, "failed") \/ Return(r, "success")
  <2>1. PICK outcome \in {"success", "failed"} : Return(r, outcome)
    BY <1>3
  <2>2. Continues(r, "returned", outcome)
    BY <2>1, ReturnContinues DEF IInv
  <2>3. ~Unserved(r)' /\ "returned" \in Places
    BY <2>2 DEF Unserved, Continues, Places
  <2> QED
    BY <1>1, <1>2, <2>2, <2>3, MoveHolds DEF Collected
<1>4. CASE CacheMiss(r) /\ MoveTo(r, "cached")
  <2>1. "cached" \in Places
    BY DEF Places
  <2>2. Continues(r, "cached", "none")
    BY <1>1, <1>4, <2>1, MoveContinues DEF IInv
  <2>3. Unserved(r)' => history[run[r].stock] = None
    BY <1>4, <2>2 DEF Unserved, Continues, CacheMiss
  <2> QED
    BY <1>1, <1>2, <2>1, <2>2, <2>3, MoveHolds DEF Collected
<1>5. CASE WithoutCache(r)
  <2>1. "cached" \in Places
    BY DEF Places
  <2>2. Continues(r, "cached", "none") /\ run'[r].forced
    BY <1>1, <1>5, WithoutCacheContinues DEF IInv
  <2>3. ~Unserved(r)'
    BY <2>2 DEF Unserved
  <2>4. Early(r)' => Early(r)
    BY <1>2
  <2> QED
    BY <1>1, <1>2, <2>1, <2>2, <2>3, <2>4, MoveHolds DEF Collected
<1> QED
    BY <1>3, <1>4, <1>5 DEF Collected

LEMMA ProgressHolds ==
    ASSUME IInv, NEW r \in Runs, Progress(r)
    PROVE  IInv'
<1>1. lastLog' \in [Stocks -> LogRecord]
  <2>1. LogOf(r) \in LogRecord
    BY Limits DEF LogOf, LogRecord
  <2> QED
    BY <2>1 DEF IInv, TypeOK, Progress
<1>2. TypeOK'
    BY <1>1 DEF IInv, TypeOK, Progress, PatchVars
<1>3. PatchHolds'
    BY PatchKept DEF IInv, Inside, Progress
<1> QED
    BY <1>2, <1>3 DEF Progress, IInv, OutcomeHolds, RowsHold, BesideHolds, Early,
                      Requested, Count, Live, Know, Unserved, At

(* The rejected run returns; the accepted one has a thread submitted.      *)
LEMMA CheckBudgetHolds ==
    ASSUME IInv, NEW r \in Runs, CheckBudget(r)
    PROVE  IInv'
<1>1. run[r].place = "cached" /\ run[r].outcome = "none"
    BY Unfinished DEF CheckBudget, At
<1>2. Early(r) /\ Live(r)
    BY <1>1 DEF Early, Live
<1>3. CASE Return(r, "failed") /\ UNCHANGED thread
  <2>1. Continues(r, "returned", "failed")
    BY <1>3, ReturnContinues DEF IInv
  <2>2. ~Unserved(r)' /\ "returned" \in Places
    BY <2>1 DEF Unserved, Continues, Places
  <2> QED
    BY <1>1, <1>2, <1>3, <2>1, <2>2, MoveHolds DEF CheckBudget
<1>4. CASE MoveTo(r, "waiting") /\ thread' = [thread EXCEPT ![r] = "submitted"]
  <2>1. "waiting" \in Places
    BY DEF Places
  <2>2. Continues(r, "waiting", "none")
    BY <1>1, <1>4, <2>1, MoveContinues DEF IInv
  <2>3. thread \in [Runs -> {"none", "submitted", "inside"}] /\ thread[r] = "none"
    BY <1>2 DEF IInv, TypeOK, OutcomeHolds
  <2>4. Inside' = Inside
    BY <1>4, <2>3 DEF Inside
  <2>5. PatchHolds'
    BY <2>4, PatchKept DEF CheckBudget, IInv
  <2>6. TypeOK'
    BY <1>4, <2>2 DEF CheckBudget, IInv, TypeOK, Continues, PatchVars
  <2>7. RowsHold'
    BY <1>2, <2>2, RowsKept DEF CheckBudget
  <2>8. BesideHolds'
    <3>1. Unserved(r)' => Unserved(r)
      BY <1>1, <2>2 DEF Unserved, Continues
    <3> QED
      BY <1>2, <2>2, <3>1, BesideKept DEF CheckBudget
  <2>9. OutcomeHolds'
    <3>1. \A q \in Runs : Early(q)' => q # r /\ Early(q)
      BY <2>2 DEF Early, Continues
    <3>2. \A q \in Runs : Early(q)' => thread'[q] = "none"
      BY <1>4, <2>3, <3>1 DEF IInv, OutcomeHolds
    <3> QED
      BY <1>1, <2>2, <3>2, OutcomeKept DEF CheckBudget
  <2> QED
    BY <2>5, <2>6, <2>7, <2>8, <2>9 DEF IInv
<1> QED
    BY <1>3, <1>4 DEF CheckBudget

LEMMA TimeOutHolds ==
    ASSUME IInv, NEW r \in Runs, TimeOut(r)
    PROVE  IInv'
<1>1. run[r].place = "waiting" /\ run[r].outcome = "none"
    BY Unfinished DEF TimeOut, At
<1>2. Continues(r, "returned", "timed out")
    BY ReturnContinues DEF IInv, TimeOut
<1>3. /\ thread' \in [Runs -> {"none", "submitted", "inside"}]
      /\ Inside' = Inside
      /\ \A q \in Runs : thread[q] = "none" => thread'[q] = "none"
    BY DEF TimeOut, IInv, TypeOK, Inside
<1>4. Live(r) /\ ~Unserved(r)'
    BY <1>1, <1>2 DEF Live, Unserved, Continues
<1>5. PatchHolds'
    BY <1>3, PatchKept DEF TimeOut, IInv
<1>6. TypeOK'
    BY <1>2, <1>3 DEF TimeOut, IInv, TypeOK, Continues, PatchVars
<1>7. RowsHold'
    BY <1>2, <1>4, RowsKept DEF TimeOut
<1>8. BesideHolds'
    BY <1>2, <1>4, BesideKept DEF TimeOut
<1>9. OutcomeHolds'
  <2>1. \A q \in Runs : Early(q)' => Early(q)
    BY <1>2 DEF Early, Continues
  <2>2. \A q \in Runs : Early(q)' => thread'[q] = "none"
    BY <1>3, <2>1 DEF IInv, OutcomeHolds
  <2> QED
    BY <1>1, <1>2, <2>2, OutcomeKept DEF TimeOut
<1> QED
    BY <1>5, <1>6, <1>7, <1>8, <1>9 DEF IInv

LEMMA InsideFinite == Inside \subseteq Runs /\ IsFiniteSet(Inside) /\ IsFiniteSet(Inside')
                        /\ Cardinality(Inside) \in Nat
                        /\ Cardinality(Inside) <= Cardinality(Runs)
                        /\ Cardinality(Inside') <= Cardinality(Runs)
BY Limits, FS_Subset, FS_CardinalityType DEF Inside

LEMMA EnterHolds ==
    ASSUME IInv, NEW r \in Runs, Enter(r)
    PROVE  IInv'
<1>1. /\ thread \in [Runs -> {"none", "submitted", "inside"}]
      /\ thread[r] = "submitted" /\ thread' = [thread EXCEPT ![r] = "inside"]
    BY DEF Enter, IInv, TypeOK
<1>2. Inside' = Inside \cup {r} /\ r \notin Inside
    BY <1>1 DEF Inside
<1>3. Cardinality(Inside') = Cardinality(Inside) + 1
    BY <1>2, InsideFinite, FS_AddElement
<1>4. refcount = Cardinality(Inside) /\ (refcount = 0 <=> Inside = {})
    BY InsideFinite, FS_EmptySet DEF IInv, PatchHolds, PatchCoversGraphs
<1>5. /\ refcount' = refcount + 1 /\ route' = "patched" /\ upstream' = "upstream"
    BY <1>4 DEF Enter, Install, IInv, PatchHolds, PatchCoversGraphs
<1>6. PatchHolds'
    BY <1>2, <1>3, <1>4, <1>5 DEF PatchHolds, PatchCoversGraphs
<1>7. TypeOK'
  <2>1. refcount' \in 0..Cardinality(Runs)
    BY <1>3, <1>4, <1>5, InsideFinite, Limits
  <2>2. thread' \in [Runs -> {"none", "submitted", "inside"}]
    BY <1>1
  <2> QED
    BY <1>5, <2>1, <2>2 DEF Enter, IInv, TypeOK
<1>8. OutcomeHolds'
  <2>1. \A q \in Runs : Early(q)' => q # r /\ Early(q)
    BY <1>1 DEF Enter, Early, IInv, OutcomeHolds
  <2>2. \A q \in Runs : Early(q)' => thread'[q] = "none"
    BY <1>1, <2>1 DEF IInv, OutcomeHolds
  <2> QED
    BY <2>2 DEF Enter, IInv, OutcomeHolds
<1>9. RowsHold' /\ BesideHolds'
    BY DEF Enter, IInv, RowsHold, BesideHolds, Requested, Count, Live, Know, Unserved, At
<1> QED
    BY <1>6, <1>7, <1>8, <1>9 DEF IInv

LEMMA LeaveHolds ==
    ASSUME IInv, NEW r \in Runs, Leave(r)
    PROVE  IInv'
<1>1. /\ thread \in [Runs -> {"none", "submitted", "inside"}]
      /\ thread[r] = "inside" /\ thread' = [thread EXCEPT ![r] = "none"]
    BY DEF Leave, IInv, TypeOK
<1>2. Inside' = Inside \ {r} /\ r \in Inside
    BY <1>1 DEF Inside
<1>3. Cardinality(Inside') = Cardinality(Inside) - 1
    BY <1>2, InsideFinite, FS_RemoveElement
<1>4. refcount = Cardinality(Inside) /\ upstream = "upstream" /\ route = "patched"
    BY <1>2 DEF IInv, PatchHolds, PatchCoversGraphs
<1>5. refcount = 1 <=> Inside' = {}
  <2>1. Inside' = {} <=> Cardinality(Inside') = 0
    BY InsideFinite, FS_EmptySet
  <2> QED
    BY <2>1, <1>3, <1>4, InsideFinite
<1>6. /\ refcount' = refcount - 1 /\ upstream' = "upstream"
      /\ route' = IF Inside' = {} THEN "upstream" ELSE "patched"
    BY <1>4, <1>5 DEF Leave, Uninstall
<1>7. PatchHolds'
    BY <1>3, <1>4, <1>6 DEF PatchHolds, PatchCoversGraphs
<1>8. /\ thread' \in [Runs -> {"none", "submitted", "inside"}]
      /\ \A q \in Runs : thread[q] = "none" => thread'[q] = "none"
    BY <1>1
<1>9. refcount' \in 0..Cardinality(Runs)
  <2>1. Cardinality(Inside') \in Nat
    BY InsideFinite, FS_CardinalityType
  <2> QED
    BY <2>1, <1>3, <1>4, <1>6, InsideFinite, Limits
<1>10. CASE UNCHANGED run
  <2>1. TypeOK'
    BY <1>6, <1>8, <1>9, <1>10 DEF Leave, IInv, TypeOK
  <2>2. OutcomeHolds'
    BY <1>8, <1>10 DEF Leave, IInv, OutcomeHolds, Early
  <2>3. RowsHold' /\ BesideHolds'
    BY <1>10 DEF Leave, IInv, RowsHold, BesideHolds, Requested, Count, Live, Know,
                 Unserved, At
  <2> QED
    BY <1>7, <2>1, <2>2, <2>3 DEF IInv
<1>11. CASE At(r, "waiting") /\ (Receive(r) \/ Return(r, "failed"))
  <2>1. run[r].place = "waiting" /\ run[r].outcome = "none"
    BY <1>11, Unfinished DEF At
  <2>2. PICK place, outcome :
          /\ Continues(r, place, outcome)
          /\ <<place, outcome>> \in {<<"mapped", "none">>, <<"returned", "failed">>}
    BY <1>11, <2>1, ReceiveContinues, ReturnContinues DEF IInv
  <2>3. TypeOK'
    BY <1>6, <1>8, <1>9, <2>2 DEF Leave, IInv, TypeOK, Continues
  <2>4. Live(r) /\ place # "idle" /\ (Unserved(r)' => Unserved(r))
    BY <2>1, <2>2 DEF Live, Unserved, Continues
  <2>5. RowsHold'
    BY <2>2, <2>4, RowsKept DEF Leave
  <2>6. BesideHolds'
    BY <2>2, <2>4, BesideKept DEF Leave
  <2>7. \A q \in Runs : Early(q)' => Early(q)
    BY <2>2 DEF Early, Continues
  <2>8. \A q \in Runs : Early(q)' => thread'[q] = "none"
    BY <1>8, <2>7 DEF IInv, OutcomeHolds
  <2>9. OutcomeHolds'
    BY <2>1, <2>2, <2>8, OutcomeKept DEF Leave
  <2> QED
    BY <1>7, <2>3, <2>5, <2>6, <2>9 DEF IInv
<1> QED
    BY <1>10, <1>11 DEF Leave, Deliver

(* The run whose result becomes the day's is live, so whoever was past the *)
(* cache and saw none knows it.                                            *)
LEMMA SaveHolds ==
    ASSUME IInv, NEW r \in Runs, Save(r)
    PROVE  IInv'
<1>1. run[r].place = "mapped" /\ run[r].outcome = "none"
    BY Unfinished DEF Save, At
<1>2. Continues(r, "returned", "success")
    BY ReturnContinues DEF IInv, Save
<1>3. Live(r) /\ ~Unserved(r)'
    BY <1>1, <1>2 DEF Live, Unserved, Continues
<1>4. history' \in [Stocks -> Runs \cup {None}]
      /\ \A s \in Stocks : history'[s] = history[s]
            \/ (s = run[r].stock /\ history'[s] = r)
    BY DEF Save, IInv, TypeOK
<1>5. TypeOK'
    BY <1>2, <1>4 DEF Save, IInv, TypeOK, Continues, PatchVars
<1>6. PatchHolds'
    BY PatchKept DEF Save, IInv, Inside
<1>7. RowsHold'
    BY <1>2, <1>3, RowsKept DEF Save
<1>8. OutcomeHolds'
  <2>1. \A q \in Runs : run[q].outcome = "success" => run'[q].outcome = "success"
    BY <1>2 DEF Continues
  <2>2. \A q \in Runs : run'[q].outcome # "none" => run'[q].place \in {"returned", "over"}
    BY <1>2 DEF Continues, IInv, OutcomeHolds
  <2>3. \A q \in Runs : Early(q)' => Early(q)
    BY <1>2 DEF Early, Continues
  <2>4. run'[r].outcome = "success"
    BY <1>2 DEF Continues
  <2> QED
    BY <1>4, <2>1, <2>2, <2>3, <2>4 DEF Save, IInv, OutcomeHolds
<1>9. BesideHolds'
  <2>1. \A q \in Runs : /\ run'[q].stock = run[q].stock
                        /\ run'[q].beside = run[q].beside
                        /\ Live(q)' => Live(q)
    BY <1>2, <1>3 DEF Continues, Live
  <2>2. \A p, q \in Runs : Know(p, q)' = Know(p, q)
    BY <2>1 DEF Know
  <2>3. \A q \in Runs : Unserved(q)' => Unserved(q) /\ Live(q)
    BY <1>2, <1>3 DEF Continues, Unserved, Live
  <2>4. ASSUME NEW p \in Runs, NEW q \in Runs, NEW s \in Stocks,
               p # q, Unserved(q)', run'[q].stock = s, history'[s] = p
        PROVE  Know(p, q)
    <3>1. CASE history[s] = p
      BY <2>1, <2>3, <2>4, <3>1 DEF IInv, BesideHolds
    <3>2. CASE history[s] # p
      <4>1. s = run[r].stock /\ p = r
        BY <1>4, <2>4, <3>2
      <4> QED
        BY <1>3, <2>1, <2>3, <2>4, <4>1 DEF IInv, BesideHolds
    <3> QED
      BY <3>1, <3>2
  <2> QED
    BY <2>1, <2>2, <2>4 DEF IInv, BesideHolds
<1> QED
    BY <1>5, <1>6, <1>7, <1>8, <1>9 DEF IInv

(* A run that ends with its row written, or with its row left as it was.   *)
LEMMA RecordHolds ==
    ASSUME IInv, NEW r \in Runs, Record(r)
    PROVE  IInv'
<1>1. "over" \in Places /\ run[r].place = "returned"
    BY DEF Places, Record, At
<1>2. Continues(r, "over", run[r].outcome)
    BY <1>1, MoveContinues DEF IInv, Record
<1>3. Live(r) /\ ~Unserved(r)'
    BY <1>1, <1>2 DEF Live, Unserved, Continues
<1>4. CASE UNCHANGED row
    BY <1>1, <1>2, <1>3, <1>4, MoveHolds DEF Record, Early, Continues
<1>5. CASE row' # row
  <2>1. PICK status \in Ended(r) :
          Requested(r) /\ row' = [row EXCEPT ![r].status = status, ![r].age = 0]
    BY <1>5 DEF Record
  <2>2. status \in {"failed", "success"} /\ (status = "success" => run[r].outcome = "success")
    BY <2>1 DEF Ended
  <2>3. row \in [Runs -> RowRecord] /\ row[r] \in RowRecord
    BY DEF IInv, TypeOK
  <2>4. /\ row' \in [Runs -> RowRecord]
        /\ \A q \in Runs \ {r} : row'[q] = row[q]
        /\ row'[r].status = status /\ row'[r].id = row[r].id
    <3>1. 0 \in 0..(Ttl + 1)
      BY Limits
    <3> DEFINE new == [row[r] EXCEPT !.status = status, !.age = 0]
    <3>2. new \in RowRecord /\ new.status = status /\ new.id = row[r].id
      BY <2>2, <2>3, <3>1 DEF RowRecord
    <3>3. row' = [row EXCEPT ![r] = new]
      BY <2>1, <2>3
    <3> HIDE DEF new
    <3> QED
      BY <2>3, <3>2, <3>3
  <2>5. \A q \in Runs : Requested(q)' = Requested(q)
    BY <2>1, <2>2, <2>4 DEF Requested
  <2>6. Count' = Count
    <3>1. {q \in Runs : Requested(q)}' = {q \in Runs : Requested(q)}
      BY <2>5
    <3> QED
      BY <3>1 DEF Count
  <2>7. TypeOK'
    BY <1>2, <2>4 DEF Record, IInv, TypeOK, Continues, PatchVars
  <2>8. PatchHolds'
    BY PatchKept DEF Record, IInv, Inside
  <2>9. BesideHolds'
    BY <1>2, <1>3, BesideKept DEF Record
  <2>10. OutcomeHolds'
    <3>1. \A q \in Runs : run'[q].outcome = run[q].outcome
      BY <1>2 DEF Continues
    <3>2. \A q \in Runs : Early(q)' => Early(q)
      BY <1>2 DEF Early, Continues
    <3>3. \A q \in Runs : run'[q].outcome # "none" => run'[q].place \in {"returned", "over"}
      BY <1>2 DEF Continues, IInv, OutcomeHolds
    <3>4. \A q \in Runs : row'[q].status = "success" => run[q].outcome = "success"
      BY <2>2, <2>4 DEF IInv, OutcomeHolds
    <3> QED
      BY <3>1, <3>2, <3>3, <3>4 DEF Record, IInv, OutcomeHolds
  <2>11. RowsHold'
    <3>1. \A q \in Runs : (At(q, "idle")' => At(q, "idle")) /\ (Live(q)' => q # r /\ Live(q))
      BY <1>2, <1>3 DEF Continues, At, Live
    <3>2. \A q \in Runs : row'[q].id = row[q].id
      BY <2>4
    <3>3. \A q \in Runs : row'[q].status = "running" => q # r /\ row'[q] = row[q]
      BY <2>2, <2>4
    <3> QED
      BY <2>4, <2>5, <2>6, <3>1, <3>2, <3>3 DEF IInv, RowsHold
  <2> QED
    BY <2>7, <2>8, <2>9, <2>10, <2>11 DEF IInv
<1> QED
    BY <1>4, <1>5

(* What a run that begins brings with it.                                  *)
LEMMA BeginTyped ==
    ASSUME IInv, NEW r \in Runs, NEW s \in Stocks, NEW force, force \in BOOLEAN,
           NEW place \in {"queued", "collecting"}, Begin(r, s, force, place)
    PROVE  /\ run' \in [Runs -> RunRecord]
           /\ \A q \in Runs \ {r} : run'[q] = run[q]
           /\ run'[r].place = place /\ run'[r].stock = s /\ run'[r].beside = LiveOn(s)
           /\ run'[r].outcome = "none"
<1> DEFINE new == [IdleRun EXCEPT !.place = place, !.stock = s, !.forced = force,
                                  !.beside = LiveOn(s)]
<1>1. /\ new \in RunRecord /\ new.place = place /\ new.stock = s
      /\ new.beside = LiveOn(s) /\ new.outcome = "none"
  <2>1. LiveOn(s) \subseteq Runs
    BY DEF LiveOn
  <2> QED
    BY <2>1, ZeroWait DEF IdleRun, RunRecord, Places
<1>2. run' = [run EXCEPT ![r] = new]
    BY DEF Begin, Become
<1>3. run \in [Runs -> RunRecord]
    BY DEF IInv, TypeOK
<1> HIDE DEF new
<1> QED
    BY <1>1, <1>2, <1>3

LEMMA BeginHolds ==
    ASSUME IInv, NEW r \in Runs, NEW s \in Stocks, NEW force, force \in BOOLEAN,
           NEW place \in {"queued", "collecting"}, Begin(r, s, force, place),
           At(r, "idle"), UNCHANGED <<thread, PatchVars, history>>,
           \A q \in Runs : row'[q].status = "success" => row[q].status = "success"
    PROVE  PatchHolds' /\ OutcomeHolds' /\ BesideHolds'
<1>1. /\ \A q \in Runs \ {r} : run'[q] = run[q]
      /\ run'[r].place = place /\ run'[r].stock = s /\ run'[r].beside = LiveOn(s)
      /\ run'[r].outcome = "none"
    BY BeginTyped
<1>2. run[r].place = "idle" /\ run[r].outcome = "none" /\ Early(r) /\ ~Live(r)
    BY Unfinished DEF At, Early, Live
<1>3. PatchHolds'
    BY PatchKept DEF IInv, Inside
<1>4. OutcomeHolds'
  <2>1. \A q \in Runs : run[q].outcome = "success" => run'[q].outcome = "success"
    BY <1>1, <1>2
  <2>2. \A q \in Runs : run'[q].outcome # "none" => run'[q].place \in {"returned", "over"}
    BY <1>1 DEF IInv, OutcomeHolds
  <2>3. \A q \in Runs : Early(q)' => Early(q)
    BY <1>1, <1>2 DEF Early
  <2> QED
    BY <2>1, <2>2, <2>3 DEF IInv, OutcomeHolds
<1>5. BesideHolds'
  <2>1. ~Unserved(r)' /\ \A q \in Runs \ {r} : /\ Unserved(q)' = Unserved(q)
                                              /\ Live(q)' = Live(q)
    BY <1>1 DEF Unserved, Live
  <2>2. \A p, q \in Runs \ {r} : Know(p, q)' = Know(p, q)
    BY <1>1 DEF Know
  <2>3. \A q \in Runs : q # r /\ Live(q) /\ run[q].stock = s => Know(q, r)' /\ Know(r, q)'
    BY <1>1 DEF Know, LiveOn
  <2>4. \A q \in Runs : q # r => run'[q].stock = run[q].stock
    BY <1>1
  <2>5. \A t \in Stocks : history[t] # r
    BY <1>2 DEF IInv, OutcomeHolds
  <2>6. \A p, q \in Runs :
          p # q /\ Live(p)' /\ Live(q)' /\ run'[p].stock = run'[q].stock => Know(p, q)'
    <3>1. SUFFICES ASSUME NEW p \in Runs, NEW q \in Runs, p # q, Live(p)', Live(q)',
                          run'[p].stock = run'[q].stock
                   PROVE  Know(p, q)'
      OBVIOUS
    <3>2. CASE p # r /\ q # r
      BY <2>1, <2>2, <2>4, <3>1, <3>2 DEF IInv, BesideHolds
    <3>3. CASE p = r
      BY <1>1, <2>1, <2>3, <2>4, <3>1, <3>3
    <3>4. CASE q = r
      BY <1>1, <2>1, <2>3, <2>4, <3>1, <3>4
    <3> QED
      BY <3>2, <3>3, <3>4
  <2>7. \A p, q \in Runs, t \in Stocks :
          p # q /\ Unserved(q)' /\ run'[q].stock = t /\ history'[t] = p => Know(p, q)'
    BY <2>1, <2>2, <2>4, <2>5 DEF IInv, BesideHolds
  <2>8. \A q \in Runs : Live(q)' => run'[q].stock \in Stocks
    BY <1>1, <2>1, <2>4 DEF IInv, BesideHolds
  <2> QED
    BY <2>6, <2>7, <2>8 DEF BesideHolds
<1> QED
    BY <1>3, <1>4, <1>5

(* The new row has the highest id and the lowest age.                      *)
LEMMA RequestHolds ==
    ASSUME IInv, NEW r \in Runs, NEW s \in Stocks, NEW force, force \in BOOLEAN,
           Request(r, s, force)
    PROVE  IInv'
<1>1. /\ run' \in [Runs -> RunRecord]
      /\ \A q \in Runs \ {r} : run'[q] = run[q]
      /\ run'[r].place = "queued"
  <2>1. Begin(r, s, force, "queued")
    BY DEF Request
  <2> QED
    BY <2>1, BeginTyped
<1>2. /\ row \in [Runs -> RowRecord] /\ row' = [row EXCEPT ![r] = RunningRow]
      /\ row' \in [Runs -> [status : {"none", "running", "success", "failed"},
                           age : 0..(Ttl + 1), id : Nat]]
      /\ RunningRow.status = "running" /\ RunningRow.age = 0 /\ RunningRow.id = Count + 1
      /\ Count \in Nat
  <2>1. Count \in Nat
    BY Limits, FS_Subset, FS_CardinalityType DEF Count
  <2>2. RunningRow = [status |-> "running", age |-> 0, id |-> Count + 1]
    BY DEF RunningRow, NextId, Count
  <2>3. 0 \in 0..(Ttl + 1)
    BY Limits
  <2> QED
    BY <2>1, <2>2, <2>3, Limits DEF Request, IInv, TypeOK, RowRecord
<1>3. ~Requested(r)
    BY DEF Request, IInv, RowsHold
<1>4. \A q \in Runs : Requested(q)' <=> (Requested(q) \/ q = r)
    BY <1>2 DEF Requested
<1>5. Count' = Count + 1 /\ Count' <= Cardinality(Runs)
  <2> DEFINE old == {q \in Runs : Requested(q)}
             new == {q \in Runs : Requested(q)'}
  <2>1. new = old \cup {r} /\ r \notin old /\ new \subseteq Runs /\ IsFiniteSet(old)
    BY <1>3, <1>4, Limits, FS_Subset
  <2>2. Cardinality(new) = Cardinality(old) + 1
    BY <2>1, FS_AddElement
  <2>3. Cardinality(new) <= Cardinality(Runs)
    BY <2>1, Limits, FS_Subset
  <2> QED
    BY <2>2, <2>3 DEF Count
<1>6. row' \in [Runs -> RowRecord]
  <2>1. Count + 1 \in 0..Cardinality(Runs) /\ 0 \in 0..(Ttl + 1)
    BY <1>2, <1>5, Limits
  <2>2. RunningRow \in RowRecord
    BY <2>1 DEF RowRecord, RunningRow, NextId, Count
  <2> QED
    BY <1>2, <2>2
<1>7. TypeOK'
  <2>1. LogOf(r) \in LogRecord
    BY Limits DEF LogOf, LogRecord
  <2>2. lastLog' \in [Stocks -> LogRecord]
    BY <2>1 DEF Request, IInv, TypeOK
  <2> QED
    BY <1>1, <1>6, <2>2 DEF Request, IInv, TypeOK, PatchVars
<1>8. \A q \in Runs : row'[q].status = "success" => row[q].status = "success"
    BY <1>2
<1>9. PatchHolds' /\ OutcomeHolds' /\ BesideHolds'
    BY <1>8, BeginHolds DEF Request
<1>10. RowsHold'
  <2>1. \A q \in Runs \ {r} : row'[q] = row[q] /\ Live(q)' = Live(q) /\ At(q, "idle")' = At(q, "idle")
    BY <1>1, <1>2 DEF Live, At
  <2>2. row'[r] = RunningRow /\ ~At(r, "idle")'
    BY <1>1, <1>2 DEF At
  <2>3. \A q \in Runs : Requested(q)' => row'[q].id <= Count'
    <3>1. \A q \in Runs : row[q].id \in Nat
      BY <1>2, Limits DEF RowRecord
    <3> QED
      BY <1>2, <1>4, <1>5, <2>1, <2>2, <3>1 DEF IInv, RowsHold
  <2>4. \A p, q \in Runs :
          row'[p].status = "running" /\ row'[q].status = "running" /\ row'[p].id <= row'[q].id
            => row'[p].age >= row'[q].age
    <3>1. SUFFICES ASSUME NEW p \in Runs, NEW q \in Runs, row'[p].status = "running",
                          row'[q].status = "running", row'[p].id <= row'[q].id
                   PROVE  row'[p].age >= row'[q].age
      OBVIOUS
    <3>2. row'[p].age \in Nat
      BY <1>6, Limits DEF RowRecord
    <3>3. CASE q = r
      BY <1>2, <2>2, <3>2, <3>3
    <3>4. CASE q # r /\ p = r
      <4>1. row[q].id \in Nat /\ row[q].id <= Count
        BY <1>2, <2>1, <3>1, <3>4, Limits DEF RowRecord, IInv, RowsHold, Requested
      <4> QED
        BY <1>2, <2>1, <2>2, <3>1, <3>4, <4>1
    <3>5. CASE q # r /\ p # r
      BY <2>1, <3>1, <3>5 DEF IInv, RowsHold
    <3> QED
      BY <3>3, <3>4, <3>5
  <2>5. \A q \in Runs : Requested(q)' /\ Live(q)' => row'[q].status = "running"
    BY <1>2, <1>4, <2>1, <2>2 DEF IInv, RowsHold
  <2>6. \A q \in Runs : At(q, "idle")' => ~Requested(q)'
    BY <1>4, <2>1, <2>2 DEF IInv, RowsHold
  <2> QED
    BY <2>3, <2>4, <2>5, <2>6 DEF RowsHold
<1> QED
    BY <1>7, <1>9, <1>10 DEF IInv

LEMMA StartScheduledHolds ==
    ASSUME IInv, NEW r \in Runs, NEW s \in Stocks, StartScheduled(r, s)
    PROVE  IInv'
<1>1. /\ run' \in [Runs -> RunRecord]
      /\ \A q \in Runs \ {r} : run'[q] = run[q]
      /\ run'[r].place = "collecting"
    BY BeginTyped DEF StartScheduled
<1>2. PatchHolds' /\ OutcomeHolds' /\ BesideHolds'
    BY BeginHolds DEF StartScheduled
<1>3. TypeOK'
    BY <1>1 DEF StartScheduled, IInv, TypeOK, PatchVars
<1>4. RowsHold'
  <2>1. ~Requested(r)
    BY DEF StartScheduled, IInv, RowsHold
  <2>2. \A q \in Runs : Requested(q)' = Requested(q)
    BY DEF StartScheduled, Requested
  <2>3. Count' = Count
    BY <2>2 DEF StartScheduled, Count
  <2>4. \A q \in Runs \ {r} : Live(q)' = Live(q) /\ At(q, "idle")' = At(q, "idle")
    BY <1>1 DEF Live, At
  <2>5. \A q \in Runs : At(q, "idle")' => ~Requested(q)'
    BY <2>1, <2>2, <2>4 DEF IInv, RowsHold
  <2>6. \A q \in Runs : Requested(q)' /\ Live(q)' => row'[q].status = "running"
    BY <2>1, <2>2, <2>4 DEF StartScheduled, IInv, RowsHold
  <2> QED
    BY <2>2, <2>3, <2>5, <2>6 DEF StartScheduled, IInv, RowsHold
<1> QED
    BY <1>2, <1>3, <1>4 DEF IInv

LEMMA CrashHolds ==
    ASSUME IInv, Crash
    PROVE  IInv'
<1>1. run' = [q \in Runs |-> IF Live(q) THEN [run[q] EXCEPT !.place = "over"] ELSE run[q]]
    BY DEF Crash
<1>2. run \in [Runs -> RunRecord]
    BY DEF IInv, TypeOK
<1> DEFINE stopped(q) == [run[q] EXCEPT !.place = "over"]
<1>3. ASSUME NEW q \in Runs
      PROVE  /\ stopped(q) \in RunRecord /\ stopped(q).place = "over"
             /\ stopped(q).outcome = run[q].outcome /\ stopped(q).stock = run[q].stock
  <2>1. run[q] \in RunRecord
    BY <1>2
  <2> QED
    BY <2>1 DEF RunRecord, Places
<1>. HIDE DEF stopped
<1>4. run' \in [Runs -> RunRecord]
  <2>1. run' = [q \in Runs |-> IF Live(q) THEN stopped(q) ELSE run[q]]
    BY <1>1 DEF stopped
  <2> QED
    BY <2>1, <1>2, <1>3
<1>5. \A q \in Runs :
        /\ run'[q].outcome = run[q].outcome /\ run'[q].stock = run[q].stock
        /\ run'[q].place = IF Live(q) THEN "over" ELSE run[q].place
  <2>1. run' = [q \in Runs |-> IF Live(q) THEN stopped(q) ELSE run[q]]
    BY <1>1 DEF stopped
  <2> QED
    BY <2>1, <1>3
<1>6. \A q \in Runs : ~Live(q)' /\ ~Unserved(q)' /\ (At(q, "idle")' => At(q, "idle"))
    BY <1>5 DEF Live, Unserved, At
<1>7. thread' = [q \in Runs |-> "none"] /\ Inside' = {}
    BY DEF Crash, Inside
<1>8. PatchHolds'
    BY <1>7, FS_EmptySet DEF Crash, PatchHolds, PatchCoversGraphs
<1>9. TypeOK'
    BY <1>4, <1>7, Limits DEF Crash, IInv, TypeOK
<1>10. OutcomeHolds'
    BY <1>5, <1>7 DEF Crash, IInv, OutcomeHolds
<1>11. BesideHolds'
    BY <1>6 DEF BesideHolds
<1>12. RowsHold'
    BY <1>6 DEF Crash, IInv, RowsHold, Requested, Count
<1> QED
    BY <1>8, <1>9, <1>10, <1>11, <1>12 DEF IInv

(* Running rows age together, so their order by age stays.                 *)
LEMMA TickHolds ==
    ASSUME IInv, Tick
    PROVE  IInv'
<1>1. \A q \in Runs : run[q] \in RunRecord /\ row[q] \in RowRecord
    BY DEF IInv, TypeOK
<1>2. /\ run' \in [Runs -> RunRecord]
      /\ \A q \in Runs : /\ run'[q].place = run[q].place
                         /\ run'[q].outcome = run[q].outcome
                         /\ run'[q].stock = run[q].stock
                         /\ run'[q].forced = run[q].forced
                         /\ run'[q].beside = run[q].beside
  <2>1. \A n \in 0..Timeout : Older(n, Timeout) \in 0..Timeout
    BY Limits DEF Older
  <2>2. \A q \in Runs : run[q].wait \in 0..Timeout
    BY <1>1 DEF RunRecord
  <2> DEFINE aged(q) == [run[q] EXCEPT !.wait = Older(run[q].wait, Timeout)]
  <2>3. \A q \in Runs :
          /\ aged(q) \in RunRecord
          /\ aged(q).place = run[q].place /\ aged(q).outcome = run[q].outcome
          /\ aged(q).stock = run[q].stock /\ aged(q).forced = run[q].forced
          /\ aged(q).beside = run[q].beside
    <3>1. ASSUME NEW w \in 0..Timeout, NEW old \in RunRecord,
                 NEW new, new = [old EXCEPT !.wait = w]
          PROVE  /\ new \in RunRecord /\ new.place = old.place
                 /\ new.outcome = old.outcome /\ new.stock = old.stock
                 /\ new.forced = old.forced /\ new.beside = old.beside
      BY <3>1 DEF RunRecord
    <3>2. TAKE q \in Runs
    <3>3. Older(run[q].wait, Timeout) \in 0..Timeout
      BY <2>1, <2>2
    <3> QED
      BY <1>1, <3>1, <3>3
  <2>4. run' = [q \in Runs |-> IF At(q, "waiting") THEN aged(q) ELSE run[q]]
    BY DEF Tick
  <2> HIDE DEF aged
  <2> QED
    BY <1>1, <2>3, <2>4
<1>3. /\ row' \in [Runs -> RowRecord]
      /\ \A q \in Runs : /\ row'[q].status = row[q].status /\ row'[q].id = row[q].id
                         /\ row[q].status = "running" =>
                               row'[q].age = Older(row[q].age, Ttl + 1)
  <2>1. \A n \in 0..(Ttl + 1) : Older(n, Ttl + 1) \in 0..(Ttl + 1)
    BY Limits DEF Older
  <2>2. \A q \in Runs : row[q].age \in 0..(Ttl + 1)
    BY <1>1 DEF RowRecord
  <2> DEFINE aged(q) == [row[q] EXCEPT !.age = Older(row[q].age, Ttl + 1)]
  <2>3. \A q \in Runs :
          /\ aged(q) \in RowRecord /\ aged(q).status = row[q].status
          /\ aged(q).id = row[q].id /\ aged(q).age = Older(row[q].age, Ttl + 1)
    <3>1. TAKE q \in Runs
    <3>2. Older(row[q].age, Ttl + 1) \in 0..(Ttl + 1)
      BY <2>1, <2>2
    <3> QED
      BY <1>1, <3>2 DEF RowRecord
  <2>4. row' = [q \in Runs |-> IF row[q].status = "running" THEN aged(q) ELSE row[q]]
    BY DEF Tick
  <2> HIDE DEF aged
  <2> QED
    BY <1>1, <2>3, <2>4
<1>4. lastLog' \in [Stocks -> LogRecord]
  <2>1. \A s \in Stocks : lastLog[s] \in LogRecord
    BY DEF IInv, TypeOK
  <2>2. NoLog \in LogRecord
    BY Limits DEF NoLog, LogRecord
  <2>3. \A s \in Stocks : lastLog[s].age # Quiet =>
          [lastLog[s] EXCEPT !.age = lastLog[s].age + 1] \in LogRecord
    <3>1. TAKE s \in Stocks
    <3>2. lastLog[s].age \in 0..Quiet
      BY <2>1 DEF LogRecord
    <3>3. lastLog[s].age # Quiet => lastLog[s].age + 1 \in 0..Quiet
      BY <3>2, Limits
    <3> QED
      BY <2>1, <3>3 DEF LogRecord
  <2> QED
    BY <2>1, <2>2, <2>3 DEF Tick
<1>5. TypeOK'
    BY <1>2, <1>3, <1>4 DEF Tick, IInv, TypeOK, PatchVars
<1>6. PatchHolds'
    BY PatchKept DEF Tick, IInv, Inside
<1>7. OutcomeHolds'
    BY <1>2, <1>3 DEF Tick, IInv, OutcomeHolds, Early
<1>8. BesideHolds'
    BY <1>2 DEF Tick, IInv, BesideHolds, Live, Know, Unserved
<1>9. RowsHold'
  <2>1. \A q \in Runs : /\ Requested(q)' = Requested(q) /\ Live(q)' = Live(q)
                       /\ At(q, "idle")' = At(q, "idle")
    BY <1>2, <1>3 DEF Requested, Live, At
  <2>2. {q \in Runs : Requested(q)}' = {q \in Runs : Requested(q)}
    BY <2>1
  <2>3. Count' = Count
    BY <2>2 DEF Count
  <2>4. \A m, n \in 0..(Ttl + 1) : m >= n => Older(m, Ttl + 1) >= Older(n, Ttl + 1)
    BY Limits DEF Older
  <2>5. \A q \in Runs : row[q].age \in 0..(Ttl + 1)
    BY <1>1 DEF RowRecord
  <2>6. \A p, q \in Runs :
          row'[p].status = "running" /\ row'[q].status = "running" /\ row'[p].id <= row'[q].id
            => row'[p].age >= row'[q].age
    <3>1. SUFFICES ASSUME NEW p \in Runs, NEW q \in Runs, row'[p].status = "running",
                          row'[q].status = "running", row'[p].id <= row'[q].id
                   PROVE  row'[p].age >= row'[q].age
      OBVIOUS
    <3>2. row[p].age >= row[q].age
      BY <1>3, <3>1 DEF IInv, RowsHold
    <3>3. row'[p].age = Older(row[p].age, Ttl + 1) /\ row'[q].age = Older(row[q].age, Ttl + 1)
      BY <1>3, <3>1
    <3> QED
      BY <2>4, <2>5, <3>2, <3>3
  <2> QED
    BY <1>3, <2>1, <2>3, <2>6 DEF IInv, RowsHold
<1> QED
    BY <1>5, <1>6, <1>7, <1>8, <1>9 DEF IInv

LEMMA MidnightHolds ==
    ASSUME IInv, Midnight
    PROVE  IInv'
<1>1. Used \in Nat
    BY Limits, FS_Subset, FS_CardinalityType DEF Used, IInv, TypeOK
<1>2. earlier' \in 0..Budget /\ history' = [s \in Stocks |-> None]
    BY <1>1, Limits DEF Midnight
<1>3. TypeOK'
    BY <1>2 DEF Midnight, IInv, TypeOK, PatchVars
<1>4. PatchHolds'
    BY PatchKept DEF Midnight, IInv, Inside
<1>5. OutcomeHolds' /\ BesideHolds'
    BY <1>2, Limits DEF Midnight, IInv, OutcomeHolds, BesideHolds, Early, Live, Know, Unserved
<1>6. RowsHold'
    BY DEF Midnight, IInv, RowsHold, Requested, Count, Live, At
<1> QED
    BY <1>3, <1>4, <1>5, <1>6 DEF IInv

LEMMA InitHolds == Init => IInv
<1> SUFFICES ASSUME Init PROVE IInv
    OBVIOUS
<1>1. IdleRun \in RunRecord /\ NoRow \in RowRecord /\ NoLog \in LogRecord
  <2>1. 0 \in 0..Timeout /\ 0 \in 0..(Ttl + 1) /\ 0 \in 0..Cardinality(Runs) /\ 0 \in 0..Quiet
    BY Limits
  <2> QED
    BY <2>1 DEF IdleRun, NoRow, NoLog, RunRecord, RowRecord, LogRecord, Places
<1>2. \A r \in Runs : /\ run[r].place = "idle" /\ run[r].outcome = "none"
                     /\ row[r].status = "none" /\ thread[r] = "none"
    BY DEF Init, IdleRun, NoRow
<1>3. TypeOK
    BY <1>1, Limits DEF Init, TypeOK
<1>4. PatchHolds
  <2>1. Inside = {}
    BY <1>2 DEF Inside
  <2> QED
    BY <2>1, FS_EmptySet DEF Init, PatchHolds, PatchCoversGraphs
<1>5. OutcomeHolds
    BY <1>2, Limits DEF Init, OutcomeHolds
<1>6. RowsHold
    BY <1>2 DEF RowsHold, Requested, At
<1>7. BesideHolds
    BY <1>2 DEF BesideHolds, Live, Unserved
<1> QED
    BY <1>3, <1>4, <1>5, <1>6, <1>7 DEF IInv

LEMMA StepHolds ==
    ASSUME IInv, NEW r \in Runs, Step(r) \/ Progress(r) \/ Enter(r) \/ Leave(r)
    PROVE  IInv'
<1>1. CASE Prepare(r)
    BY <1>1, PrepareHolds
<1>2. CASE Collected(r)
    BY <1>2, CollectedHolds
<1>3. CASE CheckBudget(r)
    BY <1>3, CheckBudgetHolds
<1>4. CASE TimeOut(r)
    BY <1>4, TimeOutHolds
<1>5. CASE Save(r)
    BY <1>5, SaveHolds
<1>6. CASE Record(r)
    BY <1>6, RecordHolds
<1>7. CASE Progress(r)
    BY <1>7, ProgressHolds
<1>8. CASE Enter(r)
    BY <1>8, EnterHolds
<1>9. CASE Leave(r)
    BY <1>9, LeaveHolds
<1> QED
    BY <1>1, <1>2, <1>3, <1>4, <1>5, <1>6, <1>7, <1>8, <1>9 DEF Step

LEMMA StutterHolds == IInv /\ UNCHANGED vars => IInv'
<1> SUFFICES ASSUME IInv, UNCHANGED vars PROVE IInv'
    OBVIOUS
<1>1. TypeOK' /\ OutcomeHolds'
    BY DEF IInv, vars, TypeOK, OutcomeHolds, Early
<1>2. PatchHolds'
    BY PatchKept DEF IInv, vars, PatchVars, Inside
<1>3. RowsHold' /\ BesideHolds'
    BY DEF IInv, vars, RowsHold, BesideHolds, Requested, Count, Live, Know, Unserved, At
<1> QED
    BY <1>1, <1>2, <1>3 DEF IInv

LEMMA NextHolds == IInv /\ [Next]_vars => IInv'
<1> SUFFICES ASSUME IInv, [Next]_vars PROVE IInv'
    OBVIOUS
<1>1. ASSUME NEW r \in Runs, NEW s \in Stocks, NEW force, force \in BOOLEAN,
             Request(r, s, force)
      PROVE  IInv'
    BY <1>1, RequestHolds
<1>2. ASSUME NEW r \in Runs, NEW s \in Stocks, StartScheduled(r, s) PROVE IInv'
    BY <1>2, StartScheduledHolds
<1>3. ASSUME NEW r \in Runs, Step(r) \/ Progress(r) \/ Enter(r) \/ Leave(r) PROVE IInv'
    BY <1>3, StepHolds
<1>4. CASE Crash
    BY <1>4, CrashHolds
<1>5. CASE Tick
    BY <1>5, TickHolds
<1>6. CASE Midnight
    BY <1>6, MidnightHolds
<1>7. CASE UNCHANGED vars
    BY <1>7, StutterHolds
<1> QED
    BY <1>1, <1>2, <1>3, <1>4, <1>5, <1>6, <1>7 DEF Next

(* The invariant every result below rests on.                              *)
THEOREM InvariantHolds == Spec => []IInv
<1>1. Init => IInv
    BY InitHolds
<1>2. IInv /\ [Next]_vars => IInv'
    BY NextHolds
<1> QED
    BY <1>1, <1>2, PTL DEF Spec

(* Every variable stays in its type, whatever the sizes and limits.        *)
THEOREM AnalysisTypeCorrect == Spec => []TypeOK
<1>1. IInv => TypeOK
    BY DEF IInv
<1> QED
    BY <1>1, InvariantHolds, PTL

(* patch_route_to_vendor is in place exactly while some thread of a graph, *)
(* abandoned or not, is inside it, and never falls back on itself.         *)
THEOREM PatchIsShared == Spec => []PatchCoversGraphs
<1>1. IInv => PatchCoversGraphs
    BY DEF IInv, PatchHolds
<1> QED
    BY <1>1, InvariantHolds, PTL

(* A run cut off by its timeout owns no result and no row of success.      *)
THEOREM LateThreadsAreDiscarded == Spec => []TimedOutLeavesNothing
<1>1. IInv => TimedOutLeavesNothing
    BY DEF IInv, OutcomeHolds, TimedOutLeavesNothing
<1> QED
    BY <1>1, InvariantHolds, PTL

-----------------------------------------------------------------------------
(* The two action properties.                                              *)

(* The run a step moves by itself, and where it can get to.                *)
LEMMA StepMoves ==
    ASSUME IInv, NEW r \in Runs, Step(r) \/ Progress(r) \/ Enter(r) \/ Leave(r)
    PROVE  \A q \in Runs : At(q, "idle") => run'[q].place # "queued"
<1>1. ASSUME NEW place, NEW outcome, place # "queued", Continues(r, place, outcome)
      PROVE  \A q \in Runs : At(q, "idle") => run'[q].place # "queued"
    BY <1>1 DEF Continues, At
<1>2. ASSUME UNCHANGED run
      PROVE  \A q \in Runs : At(q, "idle") => run'[q].place # "queued"
    BY <1>2 DEF At
<1>3. ASSUME NEW place \in {"collecting", "over", "cached", "waiting"}, MoveTo(r, place)
      PROVE  \A q \in Runs : At(q, "idle") => run'[q].place # "queued"
  <2>1. place \in Places
    BY DEF Places
  <2>2. Continues(r, place, run[r].outcome)
    BY <1>3, <2>1, MoveContinues DEF IInv
  <2> QED
    BY <1>1, <2>2
<1>4. ASSUME NEW outcome \in {"success", "failed", "timed out"}, Return(r, outcome)
      PROVE  \A q \in Runs : At(q, "idle") => run'[q].place # "queued"
  <2>1. Continues(r, "returned", outcome)
    BY <1>4, ReturnContinues DEF IInv
  <2> QED
    BY <1>1, <2>1
<1>5. ASSUME Receive(r)
      PROVE  \A q \in Runs : At(q, "idle") => run'[q].place # "queued"
  <2>1. Continues(r, "mapped", run[r].outcome)
    BY <1>5, ReceiveContinues DEF IInv
  <2> QED
    BY <1>1, <2>1
<1>6. CASE WithoutCache(r)
    BY <1>1, <1>6, WithoutCacheContinues DEF IInv
<1>7. CASE Prepare(r) \/ Collected(r) \/ CheckBudget(r)
    BY <1>3, <1>4, <1>7, <1>6 DEF Prepare, Collected, CheckBudget
<1>8. CASE TimeOut(r) \/ Save(r) \/ Record(r)
    BY <1>3, <1>4, <1>8 DEF TimeOut, Save, Record
<1>9. CASE Progress(r) \/ Enter(r)
    BY <1>2, <1>9 DEF Progress, Enter
<1>10. CASE Leave(r)
    BY <1>2, <1>4, <1>5, <1>10 DEF Leave, Deliver
<1> QED
    BY <1>7, <1>8, <1>9, <1>10 DEF Step

(* Only an unforced request with no active trace, or a forced one, queues  *)
(* a run.                                                                  *)
LEMMA OnlyRequestsQueue ==
    ASSUME IInv, [Next]_vars, NEW q \in Runs, NEW t \in Stocks,
           At(q, "idle"), run'[q].place = "queued", run'[q].stock = t, ~run'[q].forced
    PROVE  Active(t) = None
<1>1. ASSUME NEW r \in Runs, NEW s \in Stocks, NEW force, force \in BOOLEAN,
             Request(r, s, force)
      PROVE  Active(t) = None
  <2>1. Begin(r, s, force, "queued") /\ (force \/ Active(s) = None)
    BY <1>1 DEF Request
  <2>2. run \in [Runs -> RunRecord]
    BY DEF IInv, TypeOK
  <2>3. run'[r].stock = s /\ (force => run'[r].forced)
    BY <2>1, <2>2 DEF Begin, Become, IdleRun
  <2>4. q = r
    BY <2>1, <2>2 DEF Begin, Become, At
  <2> QED
    BY <2>1, <2>3, <2>4
<1>2. ASSUME NEW r \in Runs, NEW s \in Stocks, StartScheduled(r, s) PROVE FALSE
  <2>1. run'[r].place = "collecting" /\ \A p \in Runs \ {r} : run'[p] = run[p]
    BY <1>2, BeginTyped DEF StartScheduled
  <2> QED
    BY <2>1 DEF At
<1>3. ASSUME NEW r \in Runs, Step(r) \/ Progress(r) \/ Enter(r) \/ Leave(r) PROVE FALSE
    BY <1>3, StepMoves
<1>4. CASE Crash
    BY <1>4 DEF Crash, Live, At
<1>5. CASE Tick
    BY <1>5 DEF Tick, At
<1>6. CASE Midnight \/ UNCHANGED vars
    BY <1>6 DEF Midnight, vars, At
<1> QED
    BY <1>1, <1>2, <1>3, <1>4, <1>5, <1>6 DEF Next

(* With no active trace every requested run still alive has a row past the *)
(* limit: its row is running, the newest running row is past it, and older *)
(* rows are at least as old.                                               *)
LEMMA LiveRowsExpired ==
    ASSUME IInv, NEW t \in Stocks, Active(t) = None, NEW q \in LiveOn(t), Requested(q)
    PROVE  row[q].age > Ttl
<1>1. q \in RunningRows(t) /\ RunningRows(t) \subseteq Runs /\ q \in Runs
    BY DEF IInv, RowsHold, LiveOn, RunningRows
<1>2. row \in [Runs -> RowRecord]
    BY DEF IInv, TypeOK
<1> DEFINE newest == Newest(RunningRows(t))
<1>3. newest \in RunningRows(t) /\ row[q].id <= row[newest].id
    BY <1>1, <1>2, NewestIsNewest
<1>4. ~Fresh(newest)
  <2>1. Active(t) = IF Fresh(newest) THEN newest ELSE None
    BY <1>1 DEF Active
  <2> QED
    BY <1>1, <1>3, <2>1, Limits
<1>5. row[q].age >= row[newest].age
    BY <1>1, <1>3 DEF IInv, RowsHold, RunningRows
<1>6. row[q].age \in Nat /\ row[newest].age \in Nat
    BY <1>1, <1>2, <1>3, Limits DEF RowRecord
<1> QED
    BY <1>4, <1>5, <1>6, Limits DEF Fresh

(* An unforced request never doubles a manual run within the TTL, however  *)
(* silent that run is.                                                     *)
THEOREM RequestsDoNotDouble == Spec => OneRunPerStock
<1>1. IInv /\ [Next]_vars =>
        [\A r \in Runs, s \in Stocks :
          (At(r, "idle") /\ At(r, "queued")' /\ run'[r].stock = s /\ ~run'[r].forced)
            => \A q \in LiveOn(s) : Requested(q) => row[q].age > Ttl]_vars
    BY OnlyRequestsQueue, LiveRowsExpired DEF At
<1> QED
    BY <1>1, InvariantHolds, PTL DEF Spec, OneRunPerStock

(* A result of the day is replaced only by the run that saves.             *)
LEMMA OnlySavesReplace ==
    ASSUME IInv, [Next]_vars, NEW r \in Runs, NEW s \in Stocks,
           history'[s] = r, history[s] # r
    PROVE  At(r, "mapped") /\ run[r].stock = s
<1>1. ASSUME NEW p \in Runs, Step(p) \/ Progress(p) \/ Enter(p) \/ Leave(p),
             ~UNCHANGED history
      PROVE  At(r, "mapped") /\ run[r].stock = s
  <2>1. Save(p)
    BY <1>1 DEF Step, Prepare, Collected, CheckBudget, TimeOut, Record, Progress, Enter, Leave
  <2>2. history' = [history EXCEPT ![run[p].stock] = p] /\ At(p, "mapped")
    BY <1>1, <2>1 DEF Save
  <2>3. history \in [Stocks -> Runs \cup {None}]
    BY DEF IInv, TypeOK
  <2>4. p = r /\ run[p].stock = s
    BY <2>2, <2>3
  <2> QED
    BY <2>2, <2>4
<1>2. CASE UNCHANGED history
    BY <1>2
<1>3. CASE Midnight
    BY <1>3, Limits DEF Midnight
<1> QED
    BY <1>1, <1>2, <1>3 DEF Next, Request, StartScheduled, Crash, Tick, vars

(* No day of a stock is paid for twice by unforced requests, unless the    *)
(* two runs were alive together.                                           *)
THEOREM DaysArePaidOnce == Spec => PaidOnce
<1>1. IInv /\ [Next]_vars =>
        [\A r, q \in Runs, s \in Stocks :
          (/\ history[s] = q /\ history'[s] = r /\ r # q
           /\ Requested(r) /\ ~run[r].forced)
            => q \in run[r].beside \/ r \in run[q].beside]_vars
  <2>1. SUFFICES ASSUME IInv, [Next]_vars, NEW r \in Runs, NEW q \in Runs, NEW s \in Stocks,
                        history[s] = q, history'[s] = r, r # q, ~run[r].forced
                 PROVE  Know(q, r)
    BY DEF Know
  <2>2. At(r, "mapped") /\ run[r].stock = s
    BY <2>1, OnlySavesReplace
  <2>3. Unserved(r)
    BY <2>1, <2>2 DEF Unserved, At
  <2> QED
    BY <2>1, <2>2, <2>3 DEF IInv, BesideHolds
<1> QED
    BY <1>1, InvariantHolds, PTL DEF Spec, PaidOnce
=============================================================================
