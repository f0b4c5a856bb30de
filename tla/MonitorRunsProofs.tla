------------------------- MODULE MonitorRunsProofs -------------------------
(***************************************************************************)
(* The runs of the monitor, for any watch list, any number of runs and     *)
(* channels and any windows.  The invariant says of a run by itself that   *)
(* its list is the whole one whenever it stands at the head of its loop    *)
(* and that what failed is among its errors; of runs together that two     *)
(* that tell of the same stock, from the throttle check to the end of the  *)
(* notification, know it; and of the tables that what a channel heard      *)
(* within the window is covered by a mark as fresh, by a run still         *)
(* sending, or by a notification that ended unmarked.                      *)
(***************************************************************************)
EXTENDS MonitorRuns, TLAPS

USE RunsAssumption

Busy == {"analysing", "admitted", "cleared", "sending"}

ShapeHolds(w) ==
    /\ w.kind = "one" => w.pc \notin {"between", "done"}
    /\ w.pc = "between" => w.list = Stocks
    /\ w.pc \in Busy => w.stock \in Stocks
    /\ w.pc \in Busy /\ w.kind # "one" => w.saved = Stocks
    /\ w.pc = "sending" => w.left # 0
    /\ w.kind = "scheduled" /\ w.pc \notin {"free", "done"} => w.seen = Stocks \ w.todo
    /\ w.kind = "scheduled" /\ w.pc = "done" => w.seen = Stocks

Active(w) == w.kind = "scheduled" /\ w.pc \notin {"free", "done"}
Recorded(w) == w.kind = "scheduled" /\ w.pc = "done"

FlagsHold(w) ==
    /\ w.pc \in {"between", "analysing", "admitted", "cleared"} => ~w.taken
    /\ Active(w) => (w.mishap => w.errors)
    /\ Recorded(w) => (w.record = "success" => ~w.mishap)

LocalHolds(w) == ShapeHolds(w) /\ FlagsHold(w)

RunsHold == \A r \in Runs : LocalHolds(run[r])

Sends(r, s) == run[r].pc = "sending" /\ run[r].stock = s

Tells(r, s) == run[r].pc \in Telling /\ run[r].stock = s

CrowdHolds ==
    \A q, r \in Runs, s \in Stocks :
        q # r /\ Tells(q, s) /\ Tells(r, s) => run[r].crowded

\* A run that is still sending a message some channel took.
Midway(r, s) == Sends(r, s) /\ run[r].taken /\ ~run[r].bypass

KnownHolds ==
    \A s \in Stocks :
        heard[s] <= Throttle =>
            \/ throttle[s] <= heard[s]
            \/ s \in unmarked
            \/ \E q \in Runs : Midway(q, s)

IInv ==
    /\ TypeOK
    /\ RunsHold
    /\ MarksAreEarned
    /\ CrowdHolds
    /\ KnownHolds
    /\ RepeatsAreExplained

-----------------------------------------------------------------------------
(* Ages.                                                                   *)

LEMMA OldIsOld ==
    Old \in Nat /\ Throttle < Old /\ DedupeTtl < Old /\ Old \in Ages /\ 0 \in Ages
BY DEF Old, Ages

LEMMA NoChannelLeft == 0 \in 0..Channels
OBVIOUS

LEMMA SettledType ==
    ASSUME NEW w \in RunType
    PROVE  Settled(w) \in RunType
BY NoChannelLeft DEF Settled, Restored, RunType, Kinds

LEMMA ErrorType ==
    ASSUME NEW w \in RunType
    PROVE  [w EXCEPT !.errors = (w.errors \/ w.kind = "scheduled")] \in RunType
<1> DEFINE b == w.errors \/ w.kind = "scheduled"
<1>1. b \in BOOLEAN
    OBVIOUS
<1> HIDE DEF b
<1>2. [w EXCEPT !.errors = b] \in RunType
    BY <1>1 DEF RunType, Kinds
<1> QED
    BY <1>2 DEF b

LEMMA MishapType ==
    ASSUME NEW w \in RunType
    PROVE  Mishap(w) \in RunType
<1> DEFINE b == w.mishap \/ w.kind = "scheduled"
<1>1. b \in BOOLEAN
    OBVIOUS
<1> HIDE DEF b
<1>2. [w EXCEPT !.mishap = b] \in RunType
    BY <1>1 DEF RunType, Kinds
<1> QED
    BY <1>2 DEF b, Mishap

(* What is left of a run once it is done with its stock.                   *)
Quits(v) == v \in RunType /\ LocalHolds(v) /\ v.pc \notin Telling

\* A run that neither tells nor is analysed nor has a row.
LEMMA FlagsOfSteady ==
    ASSUME NEW v, v.pc = "between", v.taken = FALSE,
           (v.kind = "scheduled" /\ v.mishap) => v.errors
    PROVE  FlagsHold(v)
BY DEF FlagsHold, Active, Recorded

LEMMA FreeQuits == Quits(FreeRun)
<1>1. FreeRun \in RunType
    BY DEF FreeRun, RunType, Kinds
<1>2. FreeRun.kind = "one" /\ FreeRun.pc = "free"
    BY DEF FreeRun
<1> QED
    BY <1>1, <1>2 DEF Quits, LocalHolds, ShapeHolds, FlagsHold, Active, Recorded, Busy, Telling

LEMMA SettledQuits ==
    ASSUME NEW w \in RunType, ShapeHolds(w), w.pc \in Busy, w.kind # "one",
           (w.kind = "scheduled" /\ w.mishap) => w.errors
    PROVE  Quits(Settled(w))
<1> DEFINE v == Settled(w)
<1>1. v \in RunType
    BY SettledType
<1>2. v.pc = "between" /\ v.list = w.saved /\ v.kind = w.kind /\ v.seen = w.seen /\ v.todo = w.todo
    BY DEF Settled, Restored, RunType, Kinds
<1>3. v.mishap = w.mishap /\ v.errors = w.errors /\ v.taken = FALSE
    BY DEF Settled, Restored, RunType, Kinds
<1> HIDE DEF v
<1>4. ShapeHolds(v)
    BY <1>2 DEF ShapeHolds, Busy
<1>5. (v.kind = "scheduled" /\ v.mishap) => v.errors
    BY <1>2, <1>3, Zenon
<1>6. FlagsHold(v)
    BY <1>2, <1>3, <1>5, FlagsOfSteady
<1>7. Quits(v)
    BY <1>1, <1>2, <1>4, <1>6 DEF Quits, LocalHolds, Telling
<1> QED
    BY <1>7 DEF v

LEMMA BusyFlags ==
    ASSUME NEW w, LocalHolds(w), w.pc \in Busy
    PROVE  (w.kind = "scheduled" /\ w.mishap) => w.errors
BY DEF LocalHolds, FlagsHold, Active, Busy

LEMMA PassedQuits ==
    ASSUME NEW w \in RunType, LocalHolds(w), w.pc \in Busy
    PROVE  Quits(Passed(w))
<1>1. (w.kind = "scheduled" /\ w.mishap) => w.errors
    BY BusyFlags
<1>2. w.kind # "one" => Quits(Settled(w))
    BY <1>1, SettledQuits DEF LocalHolds
<1> QED
    BY <1>2, FreeQuits DEF Passed, Over

\* A failure that the run has taken note of.
LEMMA NotedQuitsAnyway ==
    ASSUME NEW w \in RunType, ShapeHolds(w), w.pc \in Busy
    PROVE  Quits(Noted(w))
<1> DEFINE b == w.errors \/ w.kind = "scheduled"
           n == [w EXCEPT !.errors = b]
<1>1. n \in RunType
    BY ErrorType
<1>2. n.pc = w.pc /\ n.list = w.list /\ n.kind = w.kind /\ n.seen = w.seen /\ n.todo = w.todo
      /\ n.stock = w.stock /\ n.saved = w.saved /\ n.left = w.left
    BY DEF RunType, Kinds
<1>3. n.errors = b
    BY DEF RunType, Kinds
<1>4. n.kind = "scheduled" => n.errors
    BY <1>2, <1>3
<1>5. Noted(w) = Passed(n)
    BY DEF Noted
<1> HIDE DEF n
<1>6. ShapeHolds(n)
    BY <1>2 DEF ShapeHolds, Busy
<1>7. n.kind # "one" => Quits(Settled(n))
    BY <1>1, <1>2, <1>4, <1>6, SettledQuits
<1> QED
    BY <1>5, <1>7, FreeQuits DEF Passed, Over

(* History notes a mishap; nothing else of the run changes.                *)
LEMMA MishapShape ==
    ASSUME NEW w \in RunType, ShapeHolds(w), w.pc \in Busy
    PROVE  Mishap(w) \in RunType /\ ShapeHolds(Mishap(w)) /\ Mishap(w).pc = w.pc
           /\ Mishap(w).kind = w.kind
<1> DEFINE m == Mishap(w)
<1>1. m \in RunType
    BY MishapType
<1>2. m.pc = w.pc /\ m.list = w.list /\ m.kind = w.kind /\ m.seen = w.seen /\ m.todo = w.todo
      /\ m.stock = w.stock /\ m.saved = w.saved /\ m.left = w.left
    BY DEF Mishap, RunType, Kinds
<1> HIDE DEF m
<1>3. ShapeHolds(m)
    BY <1>2 DEF ShapeHolds, Busy
<1> QED
    BY <1>1, <1>2, <1>3 DEF m

LEMMA RaisedQuits ==
    ASSUME NEW w \in RunType, ShapeHolds(w), w.pc \in Busy
    PROVE  Quits(Raised(w))
<1> DEFINE m == Mishap(w)
           x == [Settled(m) EXCEPT !.errors = TRUE]
<1>1. m \in RunType /\ ShapeHolds(m) /\ m.pc = w.pc /\ m.kind = w.kind
    BY MishapShape
<1>2. ASSUME w.kind = "scheduled" PROVE Quits(x)
  <2> HIDE DEF m
  <2> DEFINE k == Settled(m)
  <2>0. k \in RunType
      BY <1>1, SettledType
  <2> HIDE DEF k
  <2>9. [k EXCEPT !.errors = TRUE] \in RunType
      BY <2>0 DEF RunType, Kinds
  <2>1. x \in RunType
      BY <2>9 DEF k
  <2>2. x.pc = "between" /\ x.list = m.saved /\ x.kind = m.kind /\ x.seen = m.seen /\ x.todo = m.todo
      BY <1>1 DEF Settled, Restored, RunType, Kinds
  <2>3. x.errors = TRUE /\ x.taken = FALSE
      BY <1>1 DEF Settled, Restored, RunType, Kinds
  <2> HIDE DEF x
  <2>4. ShapeHolds(x)
      BY <1>1, <1>2, <2>2 DEF ShapeHolds, Busy
  <2>5. x.errors
      BY <2>3
  <2>6. FlagsHold(x)
      BY <2>2, <2>3, <2>5, FlagsOfSteady
  <2> QED
      BY <2>1, <2>2, <2>4, <2>6 DEF Quits, LocalHolds, Telling
<1> QED
    BY <1>2, FreeQuits DEF Raised, Over

-----------------------------------------------------------------------------
(* Frames: what the step of one run cannot disturb.                        *)

LEMMA BecomeFacts ==
    ASSUME TypeOK, NEW r \in Runs, NEW v \in RunType, Become(r, v)
    PROVE  run' \in [Runs -> RunType] /\ run'[r] = v /\ \A q \in Runs \ {r} : run'[q] = run[q]
BY DEF TypeOK, Become

(* A run leaves its place for one where it does not tell.                  *)
LEMMA QuitHolds ==
    ASSUME IInv, NEW r \in Runs, NEW v, Quits(v), Become(r, v)
    PROVE  /\ run' \in [Runs -> RunType]
           /\ \A q \in Runs \ {r} : run'[q] = run[q]
           /\ RunsHold'
           /\ CrowdHolds'
           /\ \A s \in Stocks : ~Tells(r, s)'
           /\ run'[r].pc \notin Telling
<1>1. run' \in [Runs -> RunType] /\ run'[r] = v /\ \A q \in Runs \ {r} : run'[q] = run[q]
    BY BecomeFacts DEF IInv, Quits
<1>2. RunsHold'
    BY <1>1 DEF IInv, RunsHold, Quits, LocalHolds, ShapeHolds, FlagsHold, Active, Recorded
<1>3. run'[r].pc \notin Telling
    BY <1>1 DEF Quits
<1>4. \A s \in Stocks : ~Tells(r, s)'
    BY <1>3 DEF Tells
<1>5. CrowdHolds'
  <2> SUFFICES ASSUME NEW q \in Runs, NEW p \in Runs, NEW s \in Stocks, q # p,
                      Tells(q, s)', Tells(p, s)'
               PROVE  run'[p].crowded
      BY DEF CrowdHolds
  <2>1. q # r /\ p # r
      BY <1>4
  <2>2. Tells(q, s) /\ Tells(p, s)
      BY <1>1, <2>1 DEF Tells
  <2>3. run[p].crowded
      BY <2>2 DEF IInv, CrowdHolds
  <2>4. run'[p] = run[p]
      BY <1>1, <2>1
  <2> QED
      BY <2>3, <2>4
<1> QED
    BY <1>1, <1>2, <1>3, <1>4, <1>5

LEMMA MidwayStays ==
    ASSUME NEW q \in Runs, run'[q] = run[q], NEW s \in Stocks, Midway(q, s)
    PROVE  Midway(q, s)'
BY DEF Midway, Sends

(* A run that was not sending leaves no trace in the tables.               *)
LEMMA CalmStep ==
    ASSUME IInv, NEW r \in Runs, run[r].pc # "sending", NEW v, Quits(v), Become(r, v),
           UNCHANGED <<scheduling, tables, history>>
    PROVE  IInv'
<1>1. run' \in [Runs -> RunType] /\ RunsHold' /\ CrowdHolds' /\ run'[r].pc \notin Telling
    BY QuitHolds
<1>2. \A q \in Runs \ {r} : run'[q] = run[q]
    BY QuitHolds
<1>3. /\ scheduling' = scheduling /\ throttle' = throttle /\ dedupe' = dedupe /\ told' = told
      /\ toldText' = toldText /\ heard' = heard /\ unmarked' = unmarked
    BY DEF tables, history
<1>4. TypeOK' /\ MarksAreEarned'
    BY <1>1, <1>3 DEF IInv, TypeOK, MarksAreEarned
<1>5. KnownHolds'
  <2> SUFFICES ASSUME NEW s \in Stocks, heard[s] <= Throttle,
                      ~(throttle[s] <= heard[s]), s \notin unmarked
               PROVE  \E q \in Runs : Midway(q, s)'
      BY <1>3 DEF KnownHolds
  <2>1. PICK q \in Runs : Midway(q, s)
      BY DEF IInv, KnownHolds
  <2>2. q # r
      BY <2>1 DEF Midway, Sends
  <2> QED
      BY <1>2, <2>1, <2>2, MidwayStays
<1>6. RepeatsAreExplained'
  <2> SUFFICES ASSUME NEW q \in Runs, run'[q].pc \in Telling, ~run'[q].bypass,
                      ~run'[q].taken, heard'[run'[q].stock] <= Throttle
               PROVE  run'[q].crowded \/ run'[q].stock \in unmarked'
      BY DEF RepeatsAreExplained
  <2>1. run'[q] = run[q]
      BY <1>1, <1>2
  <2> QED
      BY <2>1, <1>3 DEF IInv, RepeatsAreExplained
<1> QED
    BY <1>1, <1>4, <1>5, <1>6 DEF IInv

-----------------------------------------------------------------------------
(* Steps that leave the tables alone.                                      *)

LEMMA ListQuits ==
    ASSUME NEW kind \in {"scheduled", "all"}
    PROVE  Quits([FreeRun EXCEPT !.kind = kind, !.pc = "between",
                                 !.todo = Stocks, !.list = Stocks])
<1> DEFINE v == [FreeRun EXCEPT !.kind = kind, !.pc = "between",
                                !.todo = Stocks, !.list = Stocks]
<1>1. v \in RunType
    BY FreeQuits DEF Quits, RunType, Kinds
<1>2. v.kind = kind /\ v.pc = "between" /\ v.todo = Stocks /\ v.list = Stocks /\ v.seen = {}
    BY DEF FreeRun
<1>3. v.mishap = FALSE /\ v.taken = FALSE
    BY DEF FreeRun
<1> HIDE DEF v
<1>4. ShapeHolds(v)
    BY <1>2 DEF ShapeHolds, Busy
<1>5. FlagsHold(v)
    BY <1>2, <1>3, FlagsOfSteady
<1>6. Quits(v)
    BY <1>1, <1>2, <1>4, <1>5 DEF Quits, LocalHolds, Telling
<1> QED
    BY <1>6 DEF v

LEMMA FireHolds ==
    ASSUME IInv, NEW r \in Runs, Fire(r) \/ TriggerAll(r) PROVE IInv'
<1>1. run[r].pc # "sending"
    BY DEF Fire, TriggerAll, Idle
<1>2. UNCHANGED <<scheduling, tables, history>>
    BY DEF Fire, TriggerAll
<1>3. PICK kind \in {"scheduled", "all"} : StartList(r, kind)
    BY DEF Fire, TriggerAll
<1> QED
    BY <1>1, <1>2, <1>3, ListQuits, CalmStep DEF StartList

LEMMA OneQuits ==
    ASSUME NEW s \in Stocks, NEW bypass \in BOOLEAN, NEW suppress \in BOOLEAN
    PROVE  Quits([FreeRun EXCEPT !.pc = "analysing", !.bypass = bypass,
                                 !.suppress = suppress, !.stock = s])
<1> DEFINE v == [FreeRun EXCEPT !.pc = "analysing", !.bypass = bypass,
                                !.suppress = suppress, !.stock = s]
<1>1. v \in RunType
    BY FreeQuits DEF Quits, RunType, Kinds
<1>2. v.kind = "one" /\ v.pc = "analysing" /\ v.stock = s
    BY DEF FreeRun
<1>3. v.taken = FALSE
    BY DEF FreeRun
<1> HIDE DEF v
<1>4. ShapeHolds(v)
    BY <1>2 DEF ShapeHolds, Busy
<1>5. ~v.taken
    BY <1>3
<1>6. FlagsHold(v)
    BY <1>2, <1>5 DEF FlagsHold, Active, Recorded
<1>7. Quits(v)
    BY <1>1, <1>2, <1>4, <1>6 DEF Quits, LocalHolds, Telling
<1> QED
    BY <1>7 DEF v

LEMMA TriggerOneHolds ==
    ASSUME IInv, NEW r \in Runs, TriggerOne(r) PROVE IInv'
<1>1. run[r].pc # "sending"
    BY DEF TriggerOne, Idle
<1>2. UNCHANGED <<scheduling, tables, history>>
    BY DEF TriggerOne
<1>3. PICK s \in Stocks, bypass \in BOOLEAN, suppress \in BOOLEAN :
          Become(r, [FreeRun EXCEPT !.pc = "analysing", !.bypass = bypass,
                                    !.suppress = suppress, !.stock = s])
    BY DEF TriggerOne
<1> QED
    BY <1>1, <1>2, <1>3, OneQuits, CalmStep

LEMMA OneRun ==
    ASSUME IInv, NEW r \in Runs
    PROVE  run[r] \in RunType /\ ShapeHolds(run[r]) /\ FlagsHold(run[r])
BY DEF IInv, TypeOK, RunsHold, LocalHolds

(* The next stock of the loop.                                             *)
LEMMA LookedQuits ==
    ASSUME NEW w \in RunType, w.pc = "between", w.kind = "scheduled", LocalHolds(w),
           NEW s \in w.todo
    PROVE  Quits(Looked([w EXCEPT !.todo = w.todo \ {s}], s))
<1> DEFINE u == [w EXCEPT !.todo = w.todo \ {s}]
           v == Looked(u, s)
<1>1. s \in Stocks /\ w.todo \subseteq Stocks /\ w.seen \subseteq Stocks
    BY DEF RunType
<1>2. u \in RunType /\ u.todo = w.todo \ {s} /\ u.pc = "between" /\ u.kind = "scheduled"
      /\ u.list = w.list /\ u.seen = w.seen
    BY <1>1 DEF RunType, Kinds
<1>3. u.mishap = w.mishap /\ u.errors = w.errors /\ u.taken = w.taken
    BY DEF RunType, Kinds
<1> HIDE DEF u
<1>4. v \in RunType
    BY <1>1, <1>2 DEF Looked, RunType, Kinds
<1>5. v.todo = u.todo /\ v.pc = "between" /\ v.kind = "scheduled" /\ v.list = u.list
      /\ v.seen = u.seen \cup {s}
    BY <1>2 DEF Looked, RunType, Kinds
<1>6. v.mishap = u.mishap /\ v.errors = u.errors /\ v.taken = u.taken
    BY <1>2 DEF Looked, RunType, Kinds
<1> HIDE DEF v
<1>7. w.list = Stocks /\ w.seen = Stocks \ w.todo
    BY DEF LocalHolds, ShapeHolds
<1>8. v.seen = Stocks \ v.todo /\ v.list = Stocks
    BY <1>1, <1>2, <1>5, <1>7
<1>9. ShapeHolds(v)
    BY <1>5, <1>8 DEF ShapeHolds, Busy
<1>10. w.mishap => w.errors
    BY DEF LocalHolds, FlagsHold, Active
<1>11. v.mishap => v.errors
    BY <1>3, <1>6, <1>10, Zenon
<1>14. ~w.taken
    BY DEF LocalHolds, FlagsHold
<1>15. v.taken = FALSE
    BY <1>3, <1>6, <1>14 DEF RunType
<1>12. FlagsHold(v)
    BY <1>5, <1>11, <1>15, FlagsOfSteady
<1>13. Quits(v)
    BY <1>4, <1>5, <1>9, <1>12 DEF Quits, LocalHolds, Telling
<1> QED
    BY <1>13 DEF v, u

LEMMA SingleQuits ==
    ASSUME NEW w \in RunType, w.pc = "between", LocalHolds(w), NEW s \in w.todo
    PROVE  Quits(RunSingle([w EXCEPT !.todo = w.todo \ {s}], s))
<1> DEFINE u == [w EXCEPT !.todo = w.todo \ {s}]
           l == Looked(u, s)
           v == [l EXCEPT !.pc = "analysing", !.stock = s, !.saved = u.list, !.list = {s}]
<1>1. s \in Stocks /\ w.todo \subseteq Stocks /\ w.seen \subseteq Stocks /\ w.list = Stocks
    BY DEF RunType, LocalHolds, ShapeHolds
<1>2. u \in RunType /\ u.todo = w.todo \ {s} /\ u.pc = "between" /\ u.kind = w.kind
      /\ u.list = Stocks /\ u.seen = w.seen
    BY <1>1 DEF RunType, Kinds
<1>3. u.mishap = w.mishap /\ u.errors = w.errors /\ u.taken = w.taken
    BY DEF RunType, Kinds
<1> HIDE DEF u
<1>4. w.kind \in Kinds /\ w.kind # "one"
    BY DEF RunType, LocalHolds, ShapeHolds
<1>5. l \in RunType
    BY <1>1, <1>2 DEF Looked, RunType, Kinds
<1>6. l.todo = u.todo /\ l.kind = w.kind /\ (w.kind = "scheduled" => l.seen = u.seen \cup {s})
    BY <1>2 DEF Looked, RunType, Kinds
<1>7. l.mishap = u.mishap /\ l.errors = u.errors /\ l.taken = u.taken
    BY <1>2 DEF Looked, RunType, Kinds
<1> HIDE DEF l
<1>8. v \in RunType
    BY <1>1, <1>2, <1>5 DEF RunType, Kinds
<1>9. v.pc = "analysing" /\ v.stock = s /\ v.saved = Stocks /\ v.todo = l.todo
      /\ v.kind = w.kind /\ v.seen = l.seen
    BY <1>2, <1>5, <1>6 DEF RunType, Kinds
<1>10. v.mishap = l.mishap /\ v.errors = l.errors /\ v.taken = l.taken
    BY <1>5 DEF RunType, Kinds
<1> HIDE DEF v
<1>11. w.kind = "scheduled" => w.seen = Stocks \ w.todo
    BY DEF LocalHolds, ShapeHolds
<1>12. w.kind = "scheduled" => v.seen = Stocks \ v.todo
    BY <1>1, <1>2, <1>6, <1>9, <1>11
<1>13. ShapeHolds(v)
    BY <1>1, <1>4, <1>9, <1>12 DEF ShapeHolds, Busy
<1>14. ~w.taken /\ (w.kind = "scheduled" => (w.mishap => w.errors))
    BY DEF LocalHolds, FlagsHold, Active
<1>15. ~v.taken
    BY <1>3, <1>7, <1>10, <1>14, Zenon
<1>16. v.kind = "scheduled" => (v.mishap => v.errors)
    BY <1>3, <1>7, <1>9, <1>10, <1>14, Zenon
<1>17. FlagsHold(v)
    BY <1>9, <1>15, <1>16 DEF FlagsHold, Active, Recorded
<1>18. Quits(v)
    BY <1>8, <1>9, <1>13, <1>17 DEF Quits, LocalHolds, Telling
<1>19. RunSingle(u, s) = v
    BY <1>1, <1>2 DEF RunSingle, v, l
<1> QED
    BY <1>18, <1>19 DEF u

LEMMA NextStockHolds ==
    ASSUME IInv, NEW r \in Runs, NextStock(r) PROVE IInv'
<1>1. run[r].pc = "between" /\ run[r] \in RunType /\ LocalHolds(run[r])
    BY OneRun DEF NextStock, LocalHolds
<1>2. UNCHANGED <<scheduling, tables, history>>
    BY DEF NextStock
<1>3. PICK s \in run[r].todo :
          \/ /\ run[r].kind = "scheduled"
             /\ Become(r, Looked([run[r] EXCEPT !.todo = run[r].todo \ {s}], s))
          \/ Become(r, RunSingle([run[r] EXCEPT !.todo = run[r].todo \ {s}], s))
    BY DEF NextStock
<1> DEFINE w == run[r]
           u == [run[r] EXCEPT !.todo = run[r].todo \ {s}]
<1>4. ASSUME w.kind = "scheduled", Become(r, Looked(u, s)) PROVE IInv'
  <2>1. Quits(Looked(u, s))
      BY <1>1, <1>4, LookedQuits
  <2> QED
      BY <1>1, <1>2, <1>4, <2>1, CalmStep
<1>5. ASSUME Become(r, RunSingle(u, s)) PROVE IInv'
  <2>1. Quits(RunSingle(u, s))
      BY <1>1, SingleQuits
  <2> QED
      BY <1>1, <1>2, <1>5, <2>1, CalmStep
<1> QED
    BY <1>3, <1>4, <1>5

(* The end of the loop and of the run.                                     *)
LEMMA RecordQuits ==
    ASSUME NEW w \in RunType, w.pc = "between", w.kind = "scheduled", LocalHolds(w),
           w.todo = {}
    PROVE  Quits([FreeRun EXCEPT !.kind = "scheduled", !.pc = "done",
                                 !.record = Verdict(w), !.seen = w.seen,
                                 !.mishap = w.mishap])
<1> DEFINE verdict == Verdict(w)
           v == [FreeRun EXCEPT !.kind = "scheduled", !.pc = "done", !.record = verdict,
                                !.seen = w.seen, !.mishap = w.mishap]
<1>1. verdict \in {"success", "failed"} /\ (verdict = "success" => ~w.errors)
    BY DEF Verdict
<1> HIDE DEF verdict
<1>2. w.seen \in SUBSET Stocks /\ w.mishap \in BOOLEAN
    BY DEF RunType
<1>3. w.seen = Stocks /\ (w.mishap => w.errors)
    BY DEF LocalHolds, ShapeHolds, FlagsHold, Active
<1>4. v \in RunType
    BY <1>1, <1>2, FreeQuits DEF Quits, RunType, Kinds
<1>5. v.kind = "scheduled" /\ v.pc = "done" /\ v.record = verdict /\ v.seen = Stocks
    BY <1>3 DEF FreeRun
<1>6. v.mishap = w.mishap
    BY DEF FreeRun
<1> HIDE DEF v
<1>7. ShapeHolds(v)
    BY <1>5 DEF ShapeHolds, Busy
<1>8. v.record = "success" => ~v.mishap
    BY <1>1, <1>3, <1>5, <1>6, Zenon
<1>9. FlagsHold(v)
    BY <1>5, <1>8 DEF FlagsHold, Active, Recorded
<1>10. Quits(v)
    BY <1>4, <1>5, <1>7, <1>9 DEF Quits, LocalHolds, Telling
<1> QED
    BY <1>10 DEF v, verdict

LEMMA EndLoopHolds ==
    ASSUME IInv, NEW r \in Runs, EndLoop(r) PROVE IInv'
<1>1. run[r].pc = "between" /\ run[r] \in RunType /\ LocalHolds(run[r]) /\ run[r].todo = {}
    BY OneRun DEF EndLoop, LocalHolds
<1>2. UNCHANGED <<scheduling, tables, history>>
    BY DEF EndLoop
<1>3. CASE run[r].kind = "scheduled"
  <2>1. Become(r, [FreeRun EXCEPT !.kind = "scheduled", !.pc = "done",
                                  !.record = Verdict(run[r]), !.seen = run[r].seen,
                                  !.mishap = run[r].mishap])
      BY <1>3 DEF EndLoop
  <2> QED
      BY <1>1, <1>2, <1>3, <2>1, RecordQuits, CalmStep
<1>4. CASE run[r].kind # "scheduled"
  <2>1. Become(r, FreeRun)
      BY <1>4 DEF EndLoop, Over
  <2> QED
      BY <1>1, <1>2, <2>1, FreeQuits, CalmStep
<1> QED
    BY <1>3, <1>4

(* The analysis and what keeps its alert from being sent.                  *)
LEMMA QuietStepHolds ==
    ASSUME IInv, NEW r \in Runs,
           \/ NothingToTell(r) \/ AnalysisFails(r) \/ AlertDropped(r)
           \/ TextKnown(r) \/ QuietHours(r)
    PROVE  IInv'
<1>1. run[r].pc \in {"analysing", "admitted", "cleared"} /\ UNCHANGED <<scheduling, tables, history>>
    BY DEF NothingToTell, AnalysisFails, AlertDropped, TextKnown, QuietHours
<1>2. run[r] \in RunType /\ LocalHolds(run[r]) /\ ShapeHolds(run[r]) /\ run[r].pc \in Busy
    BY <1>1, OneRun DEF LocalHolds, Busy
<1>3. Quits(Passed(run[r])) /\ Quits(Raised(run[r])) /\ Quits(Noted(run[r]))
    BY <1>2, PassedQuits, RaisedQuits, NotedQuitsAnyway
<1>4. Become(r, Passed(run[r])) \/ Become(r, Raised(run[r])) \/ Become(r, Noted(run[r]))
    BY DEF NothingToTell, AnalysisFails, AlertDropped, TextKnown, QuietHours
<1> QED
    BY <1>1, <1>3, <1>4, CalmStep

-----------------------------------------------------------------------------
(* Steps that change what runs know of one another.                        *)

\* Everything but the flag `crowded`.
Kept(v, w) ==
    /\ v.kind = w.kind /\ v.pc = w.pc /\ v.todo = w.todo /\ v.list = w.list
    /\ v.saved = w.saved /\ v.stock = w.stock /\ v.left = w.left
    /\ v.record = w.record /\ v.seen = w.seen
    /\ v.taken = w.taken /\ v.bypass = w.bypass
    /\ v.errors = w.errors /\ v.mishap = w.mishap

LEMMA KeptHolds ==
    ASSUME NEW v, NEW w, Kept(v, w), LocalHolds(w)
    PROVE  LocalHolds(v)
<1>1. ShapeHolds(v)
    BY DEF Kept, LocalHolds, ShapeHolds
<1>2. v.pc \in {"between", "analysing", "admitted", "cleared"} => ~v.taken
    BY DEF Kept, LocalHolds, FlagsHold
<1>3. Active(v) => (v.mishap => v.errors)
    BY DEF Kept, LocalHolds, FlagsHold, Active
<1>4. Recorded(v) => (v.record = "success" => ~v.mishap)
    BY DEF Kept, LocalHolds, FlagsHold, Recorded
<1> QED
    BY <1>1, <1>2, <1>3, <1>4 DEF LocalHolds, FlagsHold

LEMMA CrowdedIsKept ==
    ASSUME NEW w \in RunType
    PROVE  LET v == [w EXCEPT !.crowded = TRUE]
           IN  v \in RunType /\ Kept(v, w) /\ v.crowded = TRUE
BY DEF RunType, Kinds, Kept

(* The throttle lets a run through.                                        *)
Let(w, crowded) == [Admitted(w) EXCEPT !.crowded = crowded]

LEMMA LetRun ==
    ASSUME NEW w \in RunType, w.pc = "analysing", LocalHolds(w),
           NEW crowded, crowded \in BOOLEAN
    PROVE  LET v == Let(w, crowded)
           IN  /\ v \in RunType /\ LocalHolds(v)
               /\ v.pc \in Telling /\ v.stock = w.stock
               /\ v.bypass = w.bypass /\ v.taken = w.taken
               /\ v.crowded = crowded
<1> DEFINE v == Let(w, crowded)
           a == Admitted(w)
<1>1. Channels \in 0..Channels /\ Channels # 0
    OBVIOUS
<1>2. a \in RunType
    BY <1>1 DEF Admitted, RunType, Kinds
<1>3. a.pc \in {"admitted", "sending"} /\ a.kind = w.kind /\ a.stock = w.stock
      /\ a.saved = w.saved /\ (a.pc = "sending" => a.left = Channels)
      /\ a.seen = w.seen /\ a.todo = w.todo
    BY DEF Admitted, RunType, Kinds
<1>4. a.bypass = w.bypass /\ a.taken = w.taken /\ a.mishap = w.mishap /\ a.errors = w.errors
    BY DEF Admitted, RunType, Kinds
<1> HIDE DEF a
<1>5. v \in RunType /\ v.crowded = crowded
    BY <1>2 DEF Let, RunType, Kinds, a
<1>6. v.pc = a.pc /\ v.kind = a.kind /\ v.stock = a.stock /\ v.saved = a.saved
      /\ v.left = a.left /\ v.seen = a.seen /\ v.todo = a.todo
    BY <1>2 DEF Let, RunType, Kinds, a
<1>7. v.bypass = a.bypass /\ v.taken = a.taken /\ v.mishap = a.mishap /\ v.errors = a.errors
    BY <1>2 DEF Let, RunType, Kinds, a
<1> HIDE DEF v
<1>8. ShapeHolds(v)
    BY <1>1, <1>3, <1>6 DEF LocalHolds, ShapeHolds, Busy
<1>9. Active(v) => (v.mishap => v.errors)
  <2>1. Active(v) => Active(w)
      BY <1>3, <1>6 DEF Active
  <2> QED
      BY <1>4, <1>7, <2>1 DEF LocalHolds, FlagsHold
<1>10. ~v.taken
    BY <1>4, <1>7 DEF LocalHolds, FlagsHold
<1>11. FlagsHold(v)
    BY <1>3, <1>6, <1>9, <1>10 DEF FlagsHold, Recorded
<1>12. LocalHolds(v)
    BY <1>8, <1>11 DEF LocalHolds
<1> QED
    BY <1>3, <1>4, <1>5, <1>6, <1>7, <1>12 DEF v, Telling

LEMMA PassThrottleHolds ==
    ASSUME IInv, NEW r \in Runs, PassThrottle(r) PROVE IInv'
<1> DEFINE here == run[r].stock
           others == TellingOf(here)
           crowd == others # {}
<1>1. run[r].pc = "analysing" /\ run[r] \in RunType /\ LocalHolds(run[r])
    BY OneRun DEF PassThrottle, LocalHolds
<1>2. /\ ~Throttled(run[r])
      /\ run' = [q \in Runs |->
             IF q = r
             THEN [Admitted(run[r]) EXCEPT !.crowded = crowd]
             ELSE IF q \in others
             THEN [run[q] EXCEPT !.crowded = TRUE] ELSE run[q]]
    BY DEF PassThrottle
<1>3. crowd \in BOOLEAN
    OBVIOUS
<1>20. PICK crowded : crowded \in BOOLEAN /\ crowded = crowd
    BY <1>3
<1> DEFINE v == Let(run[r], crowded)
<1>4. /\ v \in RunType /\ LocalHolds(v) /\ v.pc \in Telling /\ v.stock = here
      /\ v.bypass = run[r].bypass /\ v.taken = run[r].taken /\ v.crowded = crowded
  <2>1. crowded \in BOOLEAN
      BY <1>20
  <2> QED
      BY <1>1, <2>1, LetRun
<1>5. run'[r] = v
  <2>1. run'[r] = [Admitted(run[r]) EXCEPT !.crowded = crowd]
      BY <1>2
  <2> HIDE DEF crowd
  <2> QED
      BY <2>1, <1>20, Zenon DEF Let
<1>21. crowd => crowded = TRUE
    BY <1>20
<1>6. \A q \in Runs \ {r} :
          \/ run'[q] = run[q] /\ q \notin others
          \/ run'[q] = [run[q] EXCEPT !.crowded = TRUE] /\ q \in others
  <2> HIDE DEF others, crowd
  <2> TAKE q \in Runs \ {r}
  <2>1. q \in Runs /\ q # r
      OBVIOUS
  <2>2. run'[q] = IF q \in others
                  THEN [run[q] EXCEPT !.crowded = TRUE] ELSE run[q]
      BY <1>2, <2>1, Zenon
  <2> DEFINE c == [run[q] EXCEPT !.crowded = TRUE]
  <2> HIDE DEF c
  <2>3. run'[q] = IF q \in others THEN c ELSE run[q]
      BY <2>2 DEF c
  <2>4. (run'[q] = run[q] /\ q \notin others) \/ (run'[q] = c /\ q \in others)
      BY <2>3
  <2> QED
      BY <2>4 DEF c
<1> HIDE DEF v
<1>7. \A q \in Runs \ {r} :
          /\ run'[q] \in RunType
          /\ Kept(run'[q], run[q])
          /\ q \in others => run'[q].crowded = TRUE
          /\ q \notin others => run'[q].crowded = run[q].crowded
  <2> TAKE q \in Runs \ {r}
  <2>1. Kept(run[q], run[q])
      BY DEF Kept
  <2> QED
      BY <1>6, <2>1, OneRun, CrowdedIsKept
<1>8. run' \in [Runs -> RunType]
  <2>1. \A q \in Runs : run'[q] \in RunType
      BY <1>4, <1>5, <1>7
  <2>2. run' = [q \in Runs |-> run'[q]]
      BY <1>2
  <2> QED
      BY <2>1, <2>2
<1>9. /\ scheduling' = scheduling /\ throttle' = throttle /\ dedupe' = dedupe /\ told' = told
      /\ toldText' = toldText /\ heard' = heard /\ unmarked' = unmarked
    BY DEF PassThrottle, tables, history
<1>10. TypeOK' /\ MarksAreEarned'
    BY <1>8, <1>9 DEF IInv, TypeOK, MarksAreEarned
<1>11. RunsHold'
  <2> SUFFICES ASSUME NEW q \in Runs PROVE LocalHolds(run'[q])
      BY DEF RunsHold, LocalHolds, ShapeHolds, FlagsHold, Active, Recorded
  <2>1. CASE q = r
      BY <2>1, <1>4, <1>5
  <2>2. CASE q # r
    <3>1. LocalHolds(run[q])
        BY DEF IInv, RunsHold
    <3> QED
        BY <1>7, <2>2, <3>1, KeptHolds
  <2> QED
      BY <2>1, <2>2
\* Whoever tells of the stock was telling of it already, or is r.
<1>12. \A q \in Runs \ {r}, s \in Stocks : Tells(q, s)' => Tells(q, s)
    BY <1>7 DEF Tells, Kept
<1>13. \A q \in Runs : Tells(q, here) => q \in others
    BY DEF Tells, TellingOf
<1>14. \A q \in Runs \ {r} : run[q].crowded => run'[q].crowded
  <2> TAKE q \in Runs \ {r}
  <2>1. (run'[q].crowded = TRUE) \/ (run'[q].crowded = run[q].crowded)
      BY <1>7
  <2> QED
      BY <2>1, Zenon
<1>15. CrowdHolds'
  <2> SUFFICES ASSUME NEW q \in Runs, NEW p \in Runs, NEW s \in Stocks, q # p,
                      Tells(q, s)', Tells(p, s)'
               PROVE  run'[p].crowded
      BY DEF CrowdHolds
  <2>1. CASE p = r
    <3>1. s = here
        BY <2>1, <1>4, <1>5 DEF Tells
    <3>2. q \in others
        BY <2>1, <3>1, <1>12, <1>13
    <3>3. crowd
        BY <3>2
    <3>4. run'[p].crowded = crowded
        BY <2>1, <1>4, <1>5
    <3> HIDE DEF crowd
    <3> QED
        BY <3>3, <3>4, <1>21
  <2>2. CASE p # r /\ q = r
    <3>1. s = here
        BY <2>2, <1>4, <1>5 DEF Tells
    <3>2. p \in others
        BY <2>2, <3>1, <1>12, <1>13
    <3>3. run'[p].crowded = TRUE
        BY <2>2, <3>2, <1>7
    <3> QED
        BY <3>3
  <2>3. CASE p # r /\ q # r
    <3>1. Tells(q, s) /\ Tells(p, s)
        BY <2>3, <1>12
    <3>2. run[p].crowded
        BY <3>1 DEF IInv, CrowdHolds
    <3> QED
        BY <2>3, <3>2, <1>14
  <2> QED
      BY <2>1, <2>2, <2>3
<1>16. KnownHolds'
  <2> SUFFICES ASSUME NEW s \in Stocks, heard[s] <= Throttle,
                      ~(throttle[s] <= heard[s]), s \notin unmarked
               PROVE  \E q \in Runs : Midway(q, s)'
      BY <1>9 DEF KnownHolds
  <2>1. PICK q \in Runs : Midway(q, s)
      BY DEF IInv, KnownHolds
  <2>2. q # r
      BY <1>1, <2>1 DEF Midway, Sends
  <2>3. Kept(run'[q], run[q])
      BY <1>7, <2>2
  <2>4. Midway(q, s)'
      BY <2>1, <2>3 DEF Midway, Sends, Kept
  <2> QED
      BY <2>4
<1>17. RepeatsAreExplained'
  <2> SUFFICES ASSUME NEW q \in Runs, run'[q].pc \in Telling, ~run'[q].bypass,
                      ~run'[q].taken, heard'[run'[q].stock] <= Throttle
               PROVE  run'[q].crowded \/ run'[q].stock \in unmarked'
      BY DEF RepeatsAreExplained
  <2>1. CASE q = r
    <3>1. here \in Stocks
        BY <1>1 DEF LocalHolds, ShapeHolds, Busy
    <3>2. run'[r].stock = here /\ heard[here] <= Throttle
        BY <2>1, <1>4, <1>5, <1>9
    <3>3. ~run[r].bypass
      <4>1. run'[r].bypass = run[r].bypass
          BY <1>4, <1>5
      <4> QED
          BY <2>1, <4>1, Zenon
    <3>4. ~(throttle[here] <= Throttle)
      <4>1. throttle[here] > Throttle
          BY <1>2, <3>3 DEF Throttled
      <4>2. throttle[here] \in Nat
          BY <3>1 DEF IInv, TypeOK, Ages
      <4> QED
          BY <4>1, <4>2
    <3>5. ~(throttle[here] <= heard[here])
      <4>1. throttle[here] \in Nat /\ heard[here] \in Nat
          BY <3>1 DEF IInv, TypeOK, Ages
      <4> QED
          BY <3>2, <3>4, <4>1
    <3>6. here \in unmarked \/ \E p \in Runs : Midway(p, here)
        BY <3>1, <3>2, <3>5 DEF IInv, KnownHolds
    <3>7. (\E p \in Runs : Midway(p, here)) => crowd
        BY <1>13 DEF Midway, Sends, Tells, Telling
    <3>8. run'[r].crowded = crowded
        BY <1>4, <1>5
    <3> HIDE DEF crowd, others
    <3>9. crowd => run'[r].crowded
        BY <3>8, <1>21
    <3> QED
        BY <2>1, <3>2, <3>6, <3>7, <3>9, <1>9
  <2>2. CASE q # r
    <3>1. Kept(run'[q], run[q])
        BY <1>7, <2>2
    <3>2. run[q].pc \in Telling /\ heard[run[q].stock] <= Throttle
          /\ run'[q].stock = run[q].stock
        BY <1>9, <3>1 DEF Kept
    <3>3. ~run[q].bypass /\ ~run[q].taken
        BY <3>1 DEF Kept
    <3>4. run[q].crowded \/ run[q].stock \in unmarked
        BY <3>2, <3>3 DEF IInv, RepeatsAreExplained
    <3> QED
        BY <2>2, <1>14, <3>2, <3>4, <1>9
  <2> QED
      BY <2>1, <2>2
<1> QED
    BY <1>8, <1>10, <1>11, <1>15, <1>16, <1>17 DEF IInv

(* A run that tells goes on to its next check or to its first channel.     *)
LEMMA TellsOn ==
    ASSUME IInv, NEW r \in Runs, run[r].pc \in {"admitted", "cleared"},
           NEW v \in RunType, LocalHolds(v), v.pc \in Telling, v.stock = run[r].stock,
           v.bypass = run[r].bypass, v.crowded = run[r].crowded, v.taken = run[r].taken,
           Become(r, v), UNCHANGED <<scheduling, tables, history>>
    PROVE  IInv'
<1>1. run' \in [Runs -> RunType] /\ run'[r] = v /\ \A q \in Runs \ {r} : run'[q] = run[q]
    BY BecomeFacts DEF IInv
<1>2. /\ scheduling' = scheduling /\ throttle' = throttle /\ dedupe' = dedupe /\ told' = told
      /\ toldText' = toldText /\ heard' = heard /\ unmarked' = unmarked
    BY DEF tables, history
<1>3. TypeOK' /\ MarksAreEarned'
    BY <1>1, <1>2 DEF IInv, TypeOK, MarksAreEarned
<1>4. RunsHold'
  <2>1. \A q \in Runs : LocalHolds(run'[q])
      BY <1>1 DEF IInv, RunsHold
  <2> QED
      BY <2>1 DEF RunsHold, LocalHolds, ShapeHolds, FlagsHold, Active, Recorded
<1>5. \A q \in Runs : /\ run'[q].crowded = run[q].crowded /\ run'[q].bypass = run[q].bypass
                      /\ run'[q].taken = run[q].taken /\ run'[q].stock = run[q].stock
    BY <1>1
<1>6. \A q \in Runs : run'[q].pc \in Telling <=> run[q].pc \in Telling
    BY <1>1 DEF Telling
<1>7. CrowdHolds'
  <2> SUFFICES ASSUME NEW q \in Runs, NEW p \in Runs, NEW s \in Stocks, q # p,
                      Tells(q, s)', Tells(p, s)'
               PROVE  run'[p].crowded
      BY DEF CrowdHolds
  <2>1. Tells(q, s) /\ Tells(p, s)
      BY <1>5, <1>6 DEF Tells
  <2>2. run[p].crowded
      BY <2>1 DEF IInv, CrowdHolds
  <2> QED
      BY <1>5, <2>2
<1>8. KnownHolds'
  <2> SUFFICES ASSUME NEW s \in Stocks, heard[s] <= Throttle,
                      ~(throttle[s] <= heard[s]), s \notin unmarked
               PROVE  \E q \in Runs : Midway(q, s)'
      BY <1>2 DEF KnownHolds
  <2>1. PICK q \in Runs : Midway(q, s)
      BY DEF IInv, KnownHolds
  <2>2. q # r
      BY <2>1 DEF Midway, Sends
  <2> QED
      BY <1>1, <2>1, <2>2, MidwayStays
<1>9. RepeatsAreExplained'
  <2> SUFFICES ASSUME NEW q \in Runs, run'[q].pc \in Telling, ~run'[q].bypass,
                      ~run'[q].taken, heard'[run'[q].stock] <= Throttle
               PROVE  run'[q].crowded \/ run'[q].stock \in unmarked'
      BY DEF RepeatsAreExplained
  <2>1. run[q].pc \in Telling /\ heard[run[q].stock] <= Throttle
      BY <1>2, <1>5, <1>6
  <2>2. ~run[q].bypass /\ ~run[q].taken
      BY <1>5
  <2>3. run[q].crowded \/ run[q].stock \in unmarked
      BY <2>1, <2>2 DEF IInv, RepeatsAreExplained
  <2> QED
      BY <1>2, <1>5, <2>3
<1> QED
    BY <1>1, <1>3, <1>4, <1>7, <1>8, <1>9 DEF IInv

LEMMA OnwardRun ==
    ASSUME NEW w \in RunType, LocalHolds(w), w.pc \in {"admitted", "cleared"},
           NEW v \in RunType, v.pc \in Telling, v.left # 0 \/ v.pc # "sending",
           v.kind = w.kind, v.stock = w.stock, v.saved = w.saved, v.seen = w.seen,
           v.todo = w.todo, v.taken = w.taken, v.mishap = w.mishap, v.errors = w.errors
    PROVE  LocalHolds(v)
<1>1. ShapeHolds(v)
    BY DEF LocalHolds, ShapeHolds, Busy, Telling
<1>2. Active(v) => (v.mishap => v.errors)
  <2>1. Active(v) => Active(w)
      BY DEF Active
  <2> QED
      BY <2>1 DEF LocalHolds, FlagsHold
<1>3. ~v.taken
    BY DEF LocalHolds, FlagsHold
<1>4. FlagsHold(v)
    BY <1>2, <1>3 DEF FlagsHold, Recorded, Telling
<1> QED
    BY <1>1, <1>4 DEF LocalHolds

LEMMA CheckTextHolds ==
    ASSUME IInv, NEW r \in Runs, CheckText(r) PROVE IInv'
<1>1. run[r].pc = "admitted" /\ UNCHANGED <<scheduling, tables, history>>
      /\ run[r] \in RunType /\ LocalHolds(run[r])
    BY OneRun DEF CheckText, LocalHolds
<1>2. PICK repeats \in BOOLEAN :
          Become(r, [run[r] EXCEPT !.pc = "cleared", !.repeats = repeats])
    BY DEF CheckText
<1> DEFINE w == run[r]
           v == [w EXCEPT !.pc = "cleared", !.repeats = repeats]
<1>3. v \in RunType
    BY <1>1, <1>2 DEF RunType, Kinds
<1>4. v.pc = "cleared" /\ v.kind = w.kind /\ v.stock = w.stock /\ v.saved = w.saved
      /\ v.seen = w.seen /\ v.todo = w.todo
    BY <1>1 DEF RunType, Kinds
<1>5. v.taken = w.taken /\ v.mishap = w.mishap /\ v.errors = w.errors
      /\ v.bypass = w.bypass /\ v.crowded = w.crowded
    BY <1>1 DEF RunType, Kinds
<1>6. Become(r, v)
    BY <1>2
<1> HIDE DEF v
<1>7. LocalHolds(v) /\ v.pc \in Telling
    BY <1>1, <1>3, <1>4, <1>5, OnwardRun DEF Telling
<1> QED
    BY <1>1, <1>3, <1>4, <1>5, <1>6, <1>7, TellsOn

(* The first await on a channel.                                           *)
LEMMA StartSendingHolds ==
    ASSUME IInv, NEW r \in Runs, StartSending(r) PROVE IInv'
<1> DEFINE w == run[r]
           v == [w EXCEPT !.pc = "sending", !.left = Channels]
<1>1. w.pc = "cleared" /\ UNCHANGED <<scheduling, tables, history>>
      /\ w \in RunType /\ LocalHolds(w)
    BY OneRun DEF StartSending, LocalHolds
<1>2. Channels \in 0..Channels /\ Channels # 0
    OBVIOUS
<1>3. v \in RunType
    BY <1>1, <1>2 DEF RunType, Kinds
<1>4. v.pc = "sending" /\ v.left = Channels /\ v.kind = w.kind /\ v.stock = w.stock
      /\ v.saved = w.saved /\ v.seen = w.seen /\ v.todo = w.todo
    BY <1>1 DEF RunType, Kinds
<1>5. v.taken = w.taken /\ v.mishap = w.mishap /\ v.errors = w.errors
      /\ v.bypass = w.bypass /\ v.crowded = w.crowded
    BY <1>1 DEF RunType, Kinds
<1>6. Become(r, v)
    BY DEF StartSending
<1> HIDE DEF v
<1>7. LocalHolds(v) /\ v.pc \in Telling
    BY <1>1, <1>2, <1>3, <1>4, <1>5, OnwardRun DEF Telling
<1> QED
    BY <1>1, <1>3, <1>4, <1>5, <1>6, <1>7, TellsOn

-----------------------------------------------------------------------------
(* Sending.                                                                *)

LEMMA SenderIsThere ==
    ASSUME IInv, NEW r \in Runs, run[r].pc = "sending"
    PROVE  /\ run[r] \in RunType /\ ShapeHolds(run[r]) /\ LocalHolds(run[r])
           /\ run[r].pc \in Busy /\ run[r].stock \in Stocks
           /\ Sends(r, run[r].stock)
BY OneRun DEF LocalHolds, ShapeHolds, Busy, Sends

LEMMA TellerIsThere ==
    ASSUME IInv, NEW r \in Runs, run[r].pc \in Telling
    PROVE  run[r].stock \in Stocks /\ Tells(r, run[r].stock)
BY OneRun DEF LocalHolds, ShapeHolds, Busy, Tells, Telling

\* Others that tell of the stock are known to be in a crowd.
LEMMA OthersAreCrowded ==
    ASSUME IInv, NEW r \in Runs, NEW q \in Runs, q # r, run[r].pc = "sending",
           run[q].pc \in Telling, run[q].stock = run[r].stock
    PROVE  run[q].crowded
<1>1. run[r].pc \in Telling
    BY DEF Telling
<1> QED
    BY <1>1, TellerIsThere DEF IInv, CrowdHolds, Tells

(* The end of a notification: what matters is that a message heard leaves a *)
(* mark of either kind.                                                     *)
LEMMA SendEnds ==
    ASSUME IInv, NEW r \in Runs, run[r].pc = "sending",
           NEW v, Quits(v), Become(r, v), scheduling' = scheduling, NEW here, here = run[r].stock,
           throttle' \in {throttle, [throttle EXCEPT ![here] = 0]},
           heard' \in {heard, [heard EXCEPT ![here] = 0]},
           unmarked' \in {unmarked, unmarked \cup {here}, unmarked \ {here}},
           dedupe' \in [Stocks -> Ages], told' \in [Stocks -> Ages],
           toldText' \in [Stocks -> Ages], MarksAreEarned',
           \/ here \in unmarked'
           \/ throttle'[here] = 0
           \/ /\ throttle' = throttle /\ heard' = heard /\ unmarked' = unmarked
              /\ ~Midway(r, here)
    PROVE  IInv'
<1>1. run' \in [Runs -> RunType] /\ RunsHold' /\ CrowdHolds' /\ run'[r].pc \notin Telling
    BY QuitHolds
<1>2. \A q \in Runs \ {r} : run'[q] = run[q]
    BY QuitHolds
<1>3. here \in Stocks
    BY SenderIsThere
<1>4. throttle' \in [Stocks -> Ages] /\ heard' \in [Stocks -> Ages] /\ unmarked' \in SUBSET Stocks
    BY <1>3, OldIsOld DEF IInv, TypeOK
<1>5. TypeOK'
    BY <1>1, <1>4 DEF IInv, TypeOK
<1>6. \A s \in Stocks \ {here} :
          throttle'[s] = throttle[s] /\ heard'[s] = heard[s] /\ (s \in unmarked' <=> s \in unmarked)
    BY <1>3 DEF IInv, TypeOK
<1>7. KnownHolds'
  <2> SUFFICES ASSUME NEW s \in Stocks, heard'[s] <= Throttle,
                      ~(throttle'[s] <= heard'[s]), s \notin unmarked'
               PROVE  \E q \in Runs : Midway(q, s)'
      BY DEF KnownHolds
  <2>1. PICK q \in Runs : Midway(q, s) /\ q # r
    <3>1. CASE s = here
      <4>1. throttle'[here] # 0
        <5>1. heard'[here] \in Nat
            BY <1>3, <1>4 DEF Ages
        <5> QED
            BY <3>1, <5>1
      <4>2. throttle' = throttle /\ heard' = heard /\ unmarked' = unmarked /\ ~Midway(r, here)
          BY <3>1, <4>1
      <4> QED
          BY <3>1, <4>2 DEF IInv, KnownHolds
    <3>2. CASE s # here
      <4>1. PICK q \in Runs : Midway(q, s)
          BY <1>6, <3>2 DEF IInv, KnownHolds
      <4>2. q # r
          BY <3>2, <4>1 DEF Midway, Sends
      <4> QED
          BY <4>1, <4>2
    <3> QED
        BY <3>1, <3>2
  <2> QED
      BY <1>2, <2>1, MidwayStays
<1>8. RepeatsAreExplained'
  <2> SUFFICES ASSUME NEW q \in Runs, run'[q].pc \in Telling, ~run'[q].bypass,
                      ~run'[q].taken, heard'[run'[q].stock] <= Throttle
               PROVE  run'[q].crowded \/ run'[q].stock \in unmarked'
      BY DEF RepeatsAreExplained
  <2>1. q # r /\ run'[q] = run[q]
      BY <1>1, <1>2
  <2>2. CASE run[q].stock = here
    <3>1. run[q].crowded
        BY <2>1, <2>2, OthersAreCrowded
    <3> QED
        BY <2>1, <3>1
  <2>3. CASE run[q].stock # here
    <3>1. run[q].stock \in Stocks
        BY <2>1, TellerIsThere
    <3> QED
        BY <1>6, <2>1, <2>3, <3>1 DEF IInv, RepeatsAreExplained
  <2> QED
      BY <2>2, <2>3
<1> QED
    BY <1>1, <1>5, <1>7, <1>8 DEF IInv

LEMMA AgesStay ==
    ASSUME NEW age \in [Stocks -> Ages], NEW s \in Stocks
    PROVE  [age EXCEPT ![s] = 0] \in [Stocks -> Ages]
BY OldIsOld

LEMMA HeardOrNot ==
    ASSUME NEW w, NEW took, Heard(w, took)
    PROVE  heard' \in {heard, [heard EXCEPT ![w.stock] = 0]}
BY DEF Heard

LEMMA SendFailsHolds ==
    ASSUME IInv, NEW r \in Runs, SendFails(r) PROVE IInv'
<1> DEFINE w == run[r]
<1>1. w.pc = "sending"
    BY DEF SendFails
<1>2. w \in RunType /\ ShapeHolds(w) /\ w.pc \in Busy /\ w.stock \in Stocks
    BY <1>1, SenderIsThere
<1>3. Quits(Noted(Mishap(w)))
  <2>1. Mishap(w) \in RunType /\ ShapeHolds(Mishap(w)) /\ Mishap(w).pc \in Busy
      BY <1>2, MishapShape
  <2> QED
      BY <2>1, NotedQuitsAnyway
<1>4. PICK took \in BOOLEAN : Become(r, Noted(Mishap(w))) /\ Heard(w, took) /\ LeftUnmarked(w, took)
    BY DEF SendFails
<1>5. throttle' = throttle /\ dedupe' = dedupe /\ told' = told /\ toldText' = toldText
      /\ scheduling' = scheduling
    BY DEF SendFails, tables
<1>6. heard' \in {heard, [heard EXCEPT ![w.stock] = 0]}
    BY <1>4, HeardOrNot
<1>7. unmarked' \in {unmarked, unmarked \cup {w.stock}}
    BY <1>4 DEF LeftUnmarked
<1>8. MarksAreEarned'
    BY <1>5 DEF IInv, MarksAreEarned
<1>9. \/ w.stock \in unmarked'
      \/ heard' = heard /\ unmarked' = unmarked /\ ~Midway(r, w.stock)
    BY <1>4 DEF LeftUnmarked, Heard, Midway
<1>10. /\ dedupe' \in [Stocks -> Ages] /\ told' \in [Stocks -> Ages]
       /\ toldText' \in [Stocks -> Ages]
    BY <1>5 DEF IInv, TypeOK
<1> QED
    BY <1>1, <1>3, <1>4, <1>5, <1>6, <1>7, <1>8, <1>9, <1>10, SendEnds

LEMMA MarkFailsHolds ==
    ASSUME IInv, NEW r \in Runs, MarkFails(r) PROVE IInv'
<1> DEFINE w == run[r]
<1>1. w.pc = "sending"
    BY DEF MarkFails
<1>2. w \in RunType /\ ShapeHolds(w) /\ w.pc \in Busy /\ w.stock \in Stocks
    BY <1>1, SenderIsThere
<1>3. Quits(Raised(w))
    BY <1>2, RaisedQuits
<1>4. Become(r, Raised(w)) /\ Heard(w, TRUE) /\ LeftUnmarked(w, TRUE)
    BY DEF MarkFails
<1>5. throttle' = throttle /\ dedupe' = dedupe /\ toldText' = toldText
      /\ scheduling' = scheduling /\ told' = [told EXCEPT ![w.stock] = 0]
    BY DEF MarkFails, tables
<1>6. heard' \in {heard, [heard EXCEPT ![w.stock] = 0]}
    BY <1>4, HeardOrNot
<1>7. unmarked' \in {unmarked, unmarked \cup {w.stock}}
    BY <1>4 DEF LeftUnmarked
<1>8. MarksAreEarned'
  <2>1. told \in [Stocks -> Ages] /\ throttle \in [Stocks -> Ages]
      BY DEF IInv, TypeOK
  <2> QED
      BY <1>2, <1>5, <2>1 DEF IInv, MarksAreEarned, Ages
<1>9. \/ w.stock \in unmarked'
      \/ heard' = heard /\ unmarked' = unmarked /\ ~Midway(r, w.stock)
    BY <1>4 DEF LeftUnmarked, Heard, Midway
<1>10. /\ dedupe' \in [Stocks -> Ages] /\ told' \in [Stocks -> Ages]
       /\ toldText' \in [Stocks -> Ages]
    BY <1>2, <1>5, AgesStay DEF IInv, TypeOK
<1> QED
    BY <1>1, <1>3, <1>4, <1>5, <1>6, <1>7, <1>8, <1>9, <1>10, SendEnds

LEMMA SendReachesAllHolds ==
    ASSUME IInv, NEW r \in Runs, SendReachesAll(r) PROVE IInv'
<1> DEFINE w == run[r]
<1>1. w.pc = "sending"
    BY DEF SendReachesAll
<1>2. w \in RunType /\ LocalHolds(w) /\ w.pc \in Busy /\ w.stock \in Stocks
    BY <1>1, SenderIsThere
<1>3. Quits(Passed(w))
    BY <1>2, PassedQuits
<1>4. Become(r, Passed(w)) /\ Heard(w, TRUE)
    BY DEF SendReachesAll
<1>5. dedupe' = dedupe /\ toldText' = toldText /\ unmarked' = unmarked \ {w.stock}
      /\ scheduling' = scheduling /\ told' = [told EXCEPT ![w.stock] = 0] /\ throttle' = [throttle EXCEPT ![w.stock] = 0]
    BY DEF SendReachesAll
<1>6. heard' \in {heard, [heard EXCEPT ![w.stock] = 0]}
    BY <1>4, HeardOrNot
<1>7. throttle'[w.stock] = 0
    BY <1>2, <1>5 DEF IInv, TypeOK
<1>8. MarksAreEarned'
  <2>1. told \in [Stocks -> Ages] /\ throttle \in [Stocks -> Ages]
      BY DEF IInv, TypeOK
  <2> QED
      BY <1>2, <1>5, <2>1 DEF IInv, MarksAreEarned, Ages
<1>9. /\ dedupe' \in [Stocks -> Ages] /\ told' \in [Stocks -> Ages]
      /\ toldText' \in [Stocks -> Ages]
    BY <1>2, <1>5, AgesStay DEF IInv, TypeOK
<1> QED
    BY <1>1, <1>3, <1>4, <1>5, <1>6, <1>7, <1>8, <1>9, SendEnds

LEMMA SendReachesAllOnceHolds ==
    ASSUME IInv, NEW r \in Runs, SendReachesAllOnce(r) PROVE IInv'
<1> DEFINE w == run[r]
<1>1. w.pc = "sending"
    BY DEF SendReachesAllOnce
<1>2. w \in RunType /\ LocalHolds(w) /\ w.pc \in Busy /\ w.stock \in Stocks
    BY <1>1, SenderIsThere
<1>3. Quits(Passed(w))
    BY <1>2, PassedQuits
<1>4. Become(r, Passed(w)) /\ Heard(w, TRUE) /\ LeftUnmarked(w, TRUE)
    BY DEF SendReachesAllOnce
<1>5. throttle' = throttle /\ told' = told /\ scheduling' = scheduling
    BY DEF SendReachesAllOnce
<1>6. heard' \in {heard, [heard EXCEPT ![w.stock] = 0]}
    BY <1>4, HeardOrNot
<1>7. unmarked' \in {unmarked, unmarked \cup {w.stock}}
    BY <1>4 DEF LeftUnmarked
\* A mark that is not written was fresh, or its write failed: the text that
\* was told then keeps the mark it had.
<1>8. /\ dedupe' \in {dedupe, [dedupe EXCEPT ![w.stock] = 0]}
      /\ toldText' \in {toldText, [toldText EXCEPT ![w.stock] = 0]}
      /\ dedupe' # dedupe => toldText' = [toldText EXCEPT ![w.stock] = 0]
    BY DEF SendReachesAllOnce, Marked
<1>9. MarksAreEarned'
  <2>1. toldText \in [Stocks -> Ages] /\ dedupe \in [Stocks -> Ages]
      BY DEF IInv, TypeOK
  <2>2. \A s \in Stocks : toldText[s] <= dedupe[s] /\ told[s] <= throttle[s]
      BY DEF IInv, MarksAreEarned
  <2>3. \A s \in Stocks : toldText'[s] <= dedupe'[s]
    <3> TAKE s \in Stocks
    <3>1. CASE s # w.stock
        BY <1>8, <2>1, <2>2, <3>1
    <3>2. CASE s = w.stock
      <4>1. CASE toldText' = [toldText EXCEPT ![w.stock] = 0]
        <5>1. toldText'[s] = 0 /\ dedupe'[s] \in Nat
            BY <1>2, <1>8, <2>1, <3>2, <4>1 DEF Ages
        <5> QED
            BY <5>1
      <4>2. CASE toldText' = toldText /\ dedupe' = dedupe
          BY <2>2, <4>2
      <4> QED
          BY <1>8, <4>1, <4>2
    <3> QED
        BY <3>1, <3>2
  <2> QED
      BY <1>5, <2>2, <2>3 DEF MarksAreEarned
<1>10. \/ w.stock \in unmarked'
       \/ heard' = heard /\ unmarked' = unmarked /\ ~Midway(r, w.stock)
    BY <1>4 DEF LeftUnmarked, Heard, Midway
<1>11. /\ dedupe' \in [Stocks -> Ages] /\ told' \in [Stocks -> Ages]
       /\ toldText' \in [Stocks -> Ages]
    BY <1>2, <1>5, <1>8, AgesStay DEF IInv, TypeOK
<1> QED
    BY <1>1, <1>3, <1>4, <1>5, <1>6, <1>7, <1>9, <1>10, <1>11, SendEnds

(* Another channel is still to come.                                       *)
After(w, b, t) == [w EXCEPT !.left = w.left - 1, !.broken = b, !.taken = t]

LEMMA TriedRun ==
    ASSUME NEW w \in RunType, w.pc = "sending", LocalHolds(w), NEW b, b \in BOOLEAN,
           NEW t, t \in BOOLEAN, w.left - 1 > 0
    PROVE  LET v == After(w, b, t)
           IN  /\ v \in RunType /\ LocalHolds(v)
               /\ v.pc = "sending" /\ v.stock = w.stock
               /\ v.bypass = w.bypass /\ v.taken = t /\ v.crowded = w.crowded
<1> DEFINE v == After(w, b, t)
<1>1. w.left - 1 \in 0..Channels /\ w.left - 1 # 0
    BY DEF RunType
<1>2. v \in RunType
    BY <1>1 DEF After, RunType, Kinds
<1>3. v.pc = "sending" /\ v.kind = w.kind /\ v.stock = w.stock /\ v.saved = w.saved
      /\ v.left = w.left - 1 /\ v.seen = w.seen /\ v.todo = w.todo
    BY DEF After, RunType, Kinds
<1>4. v.bypass = w.bypass /\ v.taken = t /\ v.crowded = w.crowded
      /\ v.mishap = w.mishap /\ v.errors = w.errors
    BY DEF After, RunType, Kinds
<1> HIDE DEF v
<1>5. ShapeHolds(v)
    BY <1>1, <1>3 DEF LocalHolds, ShapeHolds, Busy
<1>6. Active(v) => (v.mishap => v.errors)
  <2>1. Active(v) => Active(w)
      BY <1>3 DEF Active
  <2> QED
      BY <1>4, <2>1 DEF LocalHolds, FlagsHold
<1>7. FlagsHold(v)
    BY <1>3, <1>6 DEF FlagsHold, Recorded
<1>8. LocalHolds(v)
    BY <1>5, <1>7 DEF LocalHolds
<1> QED
    BY <1>2, <1>3, <1>4, <1>8 DEF v

\* The same step in terms of the model's operators.
LEMMA TookTried ==
    ASSUME NEW w \in RunType, NEW ok, NEW took, NEW b, NEW t,
           b = (w.broken \/ ~ok), t = (w.taken \/ took)
    PROVE  Took(Tried(w, ok), took) = After(w, b, t)
<1> DEFINE u == [w EXCEPT !.left = w.left - 1, !.broken = b]
<1>1. Tried(w, ok) = u
    BY Zenon DEF Tried
<1>2. u.taken = w.taken
    BY DEF RunType, Kinds
<1> HIDE DEF u
<1>3. Took(u, took) = [u EXCEPT !.taken = t]
    BY <1>2, Zenon DEF Took
<1>4. [u EXCEPT !.taken = t] = After(w, b, t)
    BY DEF u, After, RunType, Kinds
<1> QED
    BY <1>1, <1>3, <1>4

LEMMA TryChannelHolds ==
    ASSUME IInv, NEW r \in Runs, TryChannel(r) PROVE IInv'
<1> DEFINE w == run[r]
           here == run[r].stock
<1>1. w.pc = "sending"
    BY DEF TryChannel
<1>2. w \in RunType /\ LocalHolds(w) /\ here \in Stocks
    BY <1>1, SenderIsThere
<1>3. PICK took, ok : /\ took \in BOOLEAN /\ ok \in BOOLEAN
                      /\ Tried(w, ok).left > 0
                      /\ Become(r, Took(Tried(w, ok), took))
                      /\ Heard(w, took)
    BY DEF TryChannel
<1>4. w.left - 1 > 0
  <2>1. Tried(w, ok).left = w.left - 1
      BY <1>2 DEF Tried, RunType, Kinds
  <2> QED
      BY <1>3, <2>1
<1>20. PICK b : b = (w.broken \/ ~ok)
    OBVIOUS
<1>21. PICK t : t = (w.taken \/ took)
    OBVIOUS
<1>22. b \in BOOLEAN /\ t \in BOOLEAN
    BY <1>20, <1>21
<1>5. Took(Tried(w, ok), took) = After(w, b, t)
    BY <1>2, <1>20, <1>21, TookTried
<1> DEFINE v == After(w, b, t)
<1>6. /\ v \in RunType /\ LocalHolds(v) /\ v.pc = "sending" /\ v.stock = here
      /\ v.bypass = w.bypass /\ v.taken = t /\ v.crowded = w.crowded
    BY <1>1, <1>2, <1>4, <1>22, TriedRun
<1>7. Become(r, v)
    BY <1>3, <1>5
<1> HIDE DEF v
<1>8. run' \in [Runs -> RunType] /\ run'[r] = v /\ \A q \in Runs \ {r} : run'[q] = run[q]
    BY <1>6, <1>7, BecomeFacts DEF IInv
<1>9. /\ scheduling' = scheduling /\ throttle' = throttle /\ dedupe' = dedupe /\ told' = told
      /\ toldText' = toldText /\ unmarked' = unmarked
    BY DEF TryChannel, tables
<1>10. heard' \in {heard, [heard EXCEPT ![here] = 0]}
    BY <1>3, HeardOrNot
<1>11. TypeOK' /\ MarksAreEarned'
  <2>1. heard' \in [Stocks -> Ages]
      BY <1>2, <1>10, AgesStay DEF IInv, TypeOK
  <2> QED
      BY <1>8, <1>9, <2>1 DEF IInv, TypeOK, MarksAreEarned
<1>12. RunsHold'
  <2>1. \A q \in Runs : LocalHolds(run'[q])
      BY <1>6, <1>8 DEF IInv, RunsHold
  <2> QED
      BY <2>1 DEF RunsHold, LocalHolds, ShapeHolds, FlagsHold, Active, Recorded
<1>13. \A q \in Runs, s \in Stocks : Tells(q, s)' <=> Tells(q, s)
  <2> TAKE q \in Runs, s \in Stocks
  <2>1. CASE q = r
      BY <1>1, <1>6, <1>8, <2>1 DEF Tells, Telling
  <2>2. CASE q # r
      BY <1>8, <2>2 DEF Tells
  <2> QED
      BY <2>1, <2>2
<1>14. \A q \in Runs : run'[q].crowded = run[q].crowded /\ run'[q].bypass = run[q].bypass
    BY <1>6, <1>8
<1>15. CrowdHolds'
  <2> SUFFICES ASSUME NEW q \in Runs, NEW p \in Runs, NEW s \in Stocks, q # p,
                      Tells(q, s)', Tells(p, s)'
               PROVE  run'[p].crowded
      BY DEF CrowdHolds
  <2>1. run[p].crowded
      BY <1>13 DEF IInv, CrowdHolds
  <2> QED
      BY <1>14, <2>1
<1>16. (~w.taken /\ ~took => ~t) /\ (w.taken \/ took => t)
    BY <1>21
<1>17. ASSUME NEW s \in Stocks, heard'[s] <= Throttle,
              ~(throttle[s] <= heard'[s]), s \notin unmarked
       PROVE  \E q \in Runs : Midway(q, s)'
  <2>1. CASE s = here /\ (w.taken \/ took) /\ ~w.bypass
    <3>1. run'[r].taken = t /\ run'[r].bypass = w.bypass
        BY <1>6, <1>8
    <3>2. t
        BY <1>16, <2>1
    <3>3. ~run'[r].bypass /\ run'[r].taken
        BY <2>1, <3>1, <3>2, Zenon
    <3>4. Midway(r, s)'
        BY <2>1, <3>3, <1>6, <1>8 DEF Midway, Sends
    <3> QED
        BY <3>4
  <2>2. CASE s # here \/ ~(w.taken \/ took) \/ w.bypass
    <3>1. heard'[s] = heard[s]
        BY <1>2, <1>3, <1>10, <2>2 DEF Heard, IInv, TypeOK
    <3>2. PICK q \in Runs : Midway(q, s)
        BY <1>17, <3>1 DEF IInv, KnownHolds
    <3>3. q # r
        BY <2>2, <3>2 DEF Midway, Sends
    <3>4. Midway(q, s)'
        BY <1>8, <3>2, <3>3, MidwayStays
    <3> QED
        BY <3>4
  <2> QED
      BY <2>1, <2>2
<1>18. KnownHolds'
    BY <1>9, <1>17 DEF KnownHolds
<1>19. RepeatsAreExplained'
  <2> SUFFICES ASSUME NEW q \in Runs, run'[q].pc \in Telling, ~run'[q].bypass,
                      ~run'[q].taken, heard'[run'[q].stock] <= Throttle
               PROVE  run'[q].crowded \/ run'[q].stock \in unmarked'
      BY DEF RepeatsAreExplained
  <2>1. run[q].pc \in Telling /\ run'[q].stock = run[q].stock /\ run[q].stock \in Stocks
    <3>1. run[q].pc \in Telling /\ run'[q].stock = run[q].stock
        BY <1>1, <1>6, <1>8 DEF Telling
    <3> QED
        BY <3>1, TellerIsThere
  <2>2. CASE q = r
    <3>1. ~t /\ ~w.bypass
      <4>1. run'[r].taken = t /\ run'[r].bypass = w.bypass
          BY <1>6, <1>8
      <4> QED
          BY <2>2, <4>1, Zenon
    <3>2. ~w.taken /\ ~took
        BY <1>16, <3>1
    <3>3. heard' = heard
        BY <1>3, <3>2 DEF Heard
    <3>4. run[r].crowded \/ here \in unmarked
        BY <1>1, <2>1, <2>2, <3>1, <3>2, <3>3 DEF IInv, RepeatsAreExplained
    <3> QED
        BY <1>9, <1>14, <2>1, <2>2, <3>4
  <2>3. CASE q # r /\ run[q].stock = here
    <3>1. run[q].crowded
        BY <1>1, <2>1, <2>3, OthersAreCrowded
    <3> QED
        BY <1>14, <3>1
  <2>4. CASE q # r /\ run[q].stock # here
    <3>1. heard'[run[q].stock] = heard[run[q].stock]
        BY <1>10, <2>1, <2>4 DEF IInv, TypeOK
    <3>2. run'[q] = run[q]
        BY <1>8, <2>4
    <3> QED
        BY <1>9, <2>1, <3>1, <3>2 DEF IInv, RepeatsAreExplained
  <2> QED
      BY <2>2, <2>3, <2>4
<1> QED
    BY <1>8, <1>11, <1>12, <1>15, <1>18, <1>19 DEF IInv

-----------------------------------------------------------------------------
(* Time and the process.                                                   *)

LEMMA OlderAges ==
    ASSUME NEW age \in [Stocks -> Ages]
    PROVE  /\ Older(age) \in [Stocks -> Ages]
           /\ \A s \in Stocks : age[s] <= Older(age)[s]
           /\ \A s \in Stocks : Older(age)[s] <= Throttle => Older(age)[s] = age[s] + 1
BY OldIsOld DEF Older, Ages

LEMMA OlderInOrder ==
    ASSUME NEW a \in [Stocks -> Ages], NEW b \in [Stocks -> Ages], NEW s \in Stocks,
           a[s] <= b[s]
    PROVE  Older(a)[s] <= Older(b)[s]
BY OldIsOld DEF Older, Ages

LEMMA TickHolds == ASSUME IInv, Tick PROVE IInv'
<1>1. /\ throttle \in [Stocks -> Ages] /\ dedupe \in [Stocks -> Ages]
      /\ told \in [Stocks -> Ages] /\ toldText \in [Stocks -> Ages]
      /\ heard \in [Stocks -> Ages] /\ unmarked \in SUBSET Stocks
    BY DEF IInv, TypeOK
<1>2. /\ throttle' = Older(throttle) /\ dedupe' = Older(dedupe) /\ told' = Older(told)
      /\ toldText' = Older(toldText) /\ heard' = Older(heard) /\ run' = run /\ scheduling' = scheduling
      /\ unmarked' = {s \in unmarked : heard'[s] <= Throttle}
    BY DEF Tick
<1>3. TypeOK'
    BY <1>1, <1>2, OlderAges DEF IInv, TypeOK
<1>4. RunsHold' /\ CrowdHolds'
    BY <1>2 DEF IInv, RunsHold, CrowdHolds, Tells, LocalHolds, ShapeHolds, FlagsHold,
                Active, Recorded
<1>5. MarksAreEarned'
    BY <1>1, <1>2, OlderInOrder DEF IInv, MarksAreEarned
<1>6. \A s \in Stocks : heard'[s] <= Throttle => heard[s] <= Throttle
  <2> TAKE s \in Stocks
  <2>1. heard[s] <= heard'[s] /\ heard[s] \in Nat /\ heard'[s] \in Nat
      BY <1>1, <1>2, <1>3, OlderAges DEF TypeOK, Ages
  <2> QED
      BY <2>1
<1>7. KnownHolds'
  <2> SUFFICES ASSUME NEW s \in Stocks, heard'[s] <= Throttle,
                      ~(throttle'[s] <= heard'[s]), s \notin unmarked'
               PROVE  \E q \in Runs : Midway(q, s)'
      BY DEF KnownHolds
  <2>1. heard[s] <= Throttle /\ s \notin unmarked /\ ~(throttle[s] <= heard[s])
      BY <1>1, <1>2, <1>6, OlderInOrder
  <2>2. PICK q \in Runs : Midway(q, s)
      BY <2>1 DEF IInv, KnownHolds
  <2> QED
      BY <1>2, <2>2, MidwayStays
<1>8. RepeatsAreExplained'
  <2> SUFFICES ASSUME NEW q \in Runs, run[q].pc \in Telling, ~run[q].bypass,
                      ~run[q].taken, heard'[run[q].stock] <= Throttle
               PROVE  run[q].crowded \/ run[q].stock \in unmarked'
      BY <1>2 DEF RepeatsAreExplained
  <2>1. run[q].stock \in Stocks
      BY TellerIsThere
  <2>2. run[q].crowded \/ run[q].stock \in unmarked
      BY <1>6, <2>1 DEF IInv, RepeatsAreExplained
  <2> QED
      BY <1>2, <2>2
<1> QED
    BY <1>3, <1>4, <1>5, <1>7, <1>8 DEF IInv

(* Runs that are cut: what was half sent ended without a mark.             *)
LEMMA CutHolds ==
    ASSUME IInv, NEW R \in SUBSET Runs, \A r \in R : ~Idle(r), Cut(R),
           scheduling' \in BOOLEAN
    PROVE  IInv'
<1>1. PICK late \in SUBSET {r \in R : run[r].pc = "sending" /\ ~run[r].bypass} :
          /\ run' = [r \in Runs |-> IF r \in R THEN FreeRun ELSE run[r]]
          /\ heard' = [s \in Stocks |-> IF s \in {run[r].stock : r \in late}
                                        THEN 0 ELSE heard[s]]
          /\ unmarked' = unmarked \cup {run[r].stock : r \in late}
                 \cup {run[r].stock : r \in {q \in R : run[q].taken /\ ~run[q].bypass}}
          /\ UNCHANGED <<tables, told, toldText>>
    BY DEF Cut
<1> DEFINE reached == {run[r].stock : r \in late}
           half == {run[r].stock : r \in {q \in R : run[q].taken /\ ~run[q].bypass}}
<1>2. throttle' = throttle /\ dedupe' = dedupe /\ told' = told /\ toldText' = toldText
    BY <1>1 DEF tables
<1>3. \A r \in R : run'[r] = FreeRun
    BY <1>1
<1>4. \A r \in Runs \ R : run'[r] = run[r]
    BY <1>1
<1>5. run' \in [Runs -> RunType]
  <2>1. \A r \in Runs : run'[r] \in RunType
      BY <1>3, <1>4, OneRun, FreeQuits DEF Quits
  <2>2. run' = [r \in Runs |-> run'[r]]
      BY <1>1
  <2> QED
      BY <2>1, <2>2
<1>6. reached \subseteq Stocks /\ half \subseteq Stocks
  <2>1. \A r \in late : run[r].stock \in Stocks
      BY SenderIsThere
  <2>2. \A q \in R : run[q].taken => run[q].stock \in Stocks
    <3> SUFFICES ASSUME NEW q \in R, run[q].taken PROVE run[q].stock \in Stocks
        OBVIOUS
    <3>1. run[q] \in RunType /\ FlagsHold(run[q]) /\ run[q].pc \notin {"free", "done"}
        BY OneRun DEF Idle
    <3>2. run[q].pc = "sending"
        BY <3>1 DEF FlagsHold, RunType
    <3> QED
        BY <3>2, SenderIsThere
  <2> QED
      BY <2>1, <2>2
<1>7. heard' \in [Stocks -> Ages] /\ unmarked' \in SUBSET Stocks
    BY <1>1, <1>6, OldIsOld DEF IInv, TypeOK
<1>8. TypeOK' /\ MarksAreEarned'
    BY <1>2, <1>5, <1>7 DEF IInv, TypeOK, MarksAreEarned
<1>9. RunsHold'
  <2>1. \A r \in Runs : LocalHolds(run'[r])
      BY <1>3, <1>4, FreeQuits DEF Quits, IInv, RunsHold
  <2> QED
      BY <2>1 DEF RunsHold, LocalHolds, ShapeHolds, FlagsHold, Active, Recorded
<1>10. \A r \in Runs : run'[r].pc \in Telling => r \notin R /\ run'[r] = run[r]
    BY <1>3, <1>4, FreeQuits DEF Quits
<1>11. CrowdHolds'
  <2> SUFFICES ASSUME NEW q \in Runs, NEW p \in Runs, NEW s \in Stocks, q # p,
                      Tells(q, s)', Tells(p, s)'
               PROVE  run'[p].crowded
      BY DEF CrowdHolds
  <2>1. run'[q] = run[q] /\ run'[p] = run[p]
      BY <1>10 DEF Tells
  <2>2. Tells(q, s) /\ Tells(p, s)
      BY <2>1 DEF Tells
  <2>3. run[p].crowded
      BY <2>2 DEF IInv, CrowdHolds
  <2> QED
      BY <2>1, <2>3
<1>12. \A s \in Stocks : s \notin unmarked' => heard'[s] = heard[s] /\ s \notin unmarked
    BY <1>1
<1>13. KnownHolds'
  <2> SUFFICES ASSUME NEW s \in Stocks, heard'[s] <= Throttle,
                      ~(throttle[s] <= heard'[s]), s \notin unmarked'
               PROVE  \E q \in Runs : Midway(q, s)'
      BY <1>2 DEF KnownHolds
  <2>1. PICK q \in Runs : Midway(q, s)
      BY <1>12 DEF IInv, KnownHolds
  <2>2. q \notin R
      BY <1>1, <2>1 DEF Midway, Sends
  <2> QED
      BY <1>4, <2>1, <2>2, MidwayStays
<1>14. RepeatsAreExplained'
  <2> SUFFICES ASSUME NEW q \in Runs, run'[q].pc \in Telling, ~run'[q].bypass,
                      ~run'[q].taken, heard'[run'[q].stock] <= Throttle,
                      run'[q].stock \notin unmarked'
               PROVE  run'[q].crowded
      BY DEF RepeatsAreExplained
  <2>1. run'[q] = run[q] /\ run[q].stock \in Stocks
      BY <1>10, TellerIsThere
  <2>2. heard[run[q].stock] <= Throttle /\ run[q].stock \notin unmarked
      BY <1>12, <2>1
  <2> QED
      BY <2>1, <2>2 DEF IInv, RepeatsAreExplained
<1> QED
    BY <1>8, <1>9, <1>11, <1>13, <1>14 DEF IInv

LEMMA ReloadHolds == ASSUME IInv, Reload PROVE IInv'
<1> DEFINE R == {r \in Runs : run[r].kind = "scheduled" /\ ~Idle(r)}
<1>1. R \in SUBSET Runs /\ Cut(R) /\ scheduling' \in BOOLEAN
    BY DEF Reload
<1> QED
    BY <1>1, CutHolds

LEMMA RestartHolds == ASSUME IInv, Restart PROVE IInv'
<1> DEFINE R == {r \in Runs : ~Idle(r)}
<1>1. R \in SUBSET Runs /\ Cut(R) /\ scheduling' \in BOOLEAN
    BY DEF Restart
<1> QED
    BY <1>1, CutHolds

-----------------------------------------------------------------------------
(* The theorems.                                                           *)

LEMMA InitHolds == Init => IInv
<1> SUFFICES ASSUME Init PROVE IInv
    OBVIOUS
<1>1. \A r \in Runs : run[r] = FreeRun
    BY DEF Init
<1>2. FreeRun \in RunType /\ LocalHolds(FreeRun) /\ FreeRun.pc \notin Telling
    BY FreeQuits DEF Quits
<1>3. TypeOK
    BY <1>2, OldIsOld DEF Init, TypeOK
<1>4. RunsHold /\ CrowdHolds /\ RepeatsAreExplained
    BY <1>1, <1>2 DEF RunsHold, CrowdHolds, Tells, RepeatsAreExplained
<1>5. MarksAreEarned /\ KnownHolds
    BY OldIsOld DEF Init, MarksAreEarned, KnownHolds
<1> QED
    BY <1>3, <1>4, <1>5 DEF IInv

LEMMA StutterHolds == IInv /\ UNCHANGED vars => IInv'
<1> SUFFICES ASSUME IInv, UNCHANGED vars PROVE IInv'
    OBVIOUS
<1>1. /\ run' = run /\ scheduling' = scheduling /\ throttle' = throttle /\ dedupe' = dedupe /\ told' = told
      /\ toldText' = toldText /\ heard' = heard /\ unmarked' = unmarked
    BY DEF vars
<1>2. TypeOK' /\ RunsHold' /\ MarksAreEarned' /\ CrowdHolds'
    BY <1>1 DEF IInv, TypeOK, RunsHold, MarksAreEarned, CrowdHolds, Tells, LocalHolds,
                ShapeHolds, FlagsHold, Active, Recorded
<1>3. KnownHolds' /\ RepeatsAreExplained'
    BY <1>1 DEF IInv, KnownHolds, Midway, Sends, RepeatsAreExplained
<1> QED
    BY <1>2, <1>3 DEF IInv

LEMMA NextHolds == IInv /\ [Next]_vars => IInv'
<1> SUFFICES ASSUME IInv, [Next]_vars PROVE IInv'
    OBVIOUS
<1>1. ASSUME NEW r \in Runs, Start(r) PROVE IInv'
    BY <1>1, FireHolds, TriggerOneHolds DEF Start
<1>2. ASSUME NEW r \in Runs, RunStep(r) PROVE IInv'
    BY <1>2, NextStockHolds, EndLoopHolds, QuietStepHolds, PassThrottleHolds,
       CheckTextHolds, StartSendingHolds,
       TryChannelHolds, SendFailsHolds, SendReachesAllHolds, MarkFailsHolds,
       SendReachesAllOnceHolds DEF RunStep
<1> QED
    BY <1>1, <1>2, ReloadHolds, TickHolds, RestartHolds, StutterHolds DEF Next

(* The invariant holds in every reachable state.                           *)
THEOREM InvariantHolds == Spec => []IInv
<1> QED
    BY InitHolds, NextHolds, PTL DEF Spec

(* The runs and the tables keep their types.                               *)
THEOREM MonitorTypeCorrect == Spec => []TypeOK
<1>1. IInv => TypeOK
    BY DEF IInv
<1> QED
    BY <1>1, InvariantHolds, PTL

(* A mark always stands for a notification every channel took: a stock is  *)
(* never silenced by an alert that was tried and failed.                   *)
THEOREM MarksStandForMessages == Spec => []MarksAreEarned
<1>1. IInv => MarksAreEarned
    BY DEF IInv
<1> QED
    BY <1>1, InvariantHolds, PTL

(* A repeat within the throttle window has one of two causes, the runs     *)
(* that overlap or the notification that ended unmarked.                   *)
THEOREM RepeatsHaveReasons == Spec => []RepeatsAreExplained
<1>1. IInv => RepeatsAreExplained
    BY DEF IInv
<1> QED
    BY <1>1, InvariantHolds, PTL

(* A scheduled run that is over has come to every stock, and says it went  *)
(* well only if nothing failed.                                            *)
THEOREM RowsTellTheTruth == Spec => []RunTellsTheTruth
<1>1. IInv => RunTellsTheTruth
    BY DEF IInv, RunsHold, LocalHolds, ShapeHolds, FlagsHold, Recorded, RunTellsTheTruth
<1> QED
    BY <1>1, InvariantHolds, PTL

=============================================================================
