-------------------------- MODULE CalibrationGate --------------------------
(***************************************************************************)
(* The only way a ranking weight changes                                   *)
(* (src/modules/strategy/calibration_gate.py, factor_calibration.py,       *)
(* factor_weights.py, strategy_engine.rebalance_strategy_weights): a       *)
(* writer plans on statements that are each a read of their own, then      *)
(* applies in one write transaction that inserts the claims first and      *)
(* rechecks every gate behind SQLite's single write reservation.           *)
(***************************************************************************)
EXTENDS RankingArchive

CONSTANTS
    Writers,         \* sessions that may calibrate at the same time
    Rows,            \* weight rows: {<<kind, market, target>>}
    InitWeight,      \* [Rows -> weights]
    InitMode,        \* [gates -> modes]: what the operator has switched on
    Weights,         \* the clamped weights, an interval of integers
    None,
    MaxRounds,       \* bound: calibrations and operator edits started
    MaxEvents        \* bound: events in the archive

ASSUME WeightsTyped == InitWeight \in [Rows -> Weights] /\ Weights \subseteq Int

VARIABLES
    mode,            \* [kind-market gate -> FROZEN, SHADOW or ACTIVE]
    pinned, auto,    \* sets of rows: is_pinned, auto_calibrate
    weight,          \* [Rows -> Weights]
    baseline,        \* [gate -> weights archived before the rollout, or None]
    applied,         \* committed calibration_applications
    commits,         \* batches committed; the n of an application is its batch
    pc, plan,        \* of each writer
    lock,            \* holder of the write reservation, or None
    txn,             \* its uncommitted claims and weights
    rounds           \* bounded: jobs, edits and archive events so far

gateVars == <<mode, pinned, auto, weight, baseline, applied, commits, pc, plan, lock, txn, rounds>>
vars == <<archiveVars, gateVars>>

Modes == {"FROZEN", "SHADOW", "ACTIVE"}
Gates == {<<r[1], r[2]>> : r \in Rows}
GateOf(row) == <<row[1], row[2]>>
RowsOf(gate) == {r \in Rows : GateOf(r) = gate}

ASSUME NoneIsNothing == None \notin Writers /\ \A g \in Gates : None \notin [RowsOf(g) -> Weights]
ASSUME ModesTyped == InitMode \in [Gates -> Modes]

\* live_config_payload: a strategy writer consumes the ALL layer as well.
ConfigRows(gate) ==
    IF gate[1] = "factor" THEN RowsOf(gate)
    ELSE RowsOf(gate) \cup RowsOf(<<"strategy", "ALL">>)
LiveConfig(gate) ==
    [r \in ConfigRows(gate) |-> <<weight[r], r \in pinned, r \in auto>>]

\* What runs in a session: the monthly factor job, an operator's edit of one
\* factor weight, or a rebalance of the strategy weights.
Jobs == {"factor", "manual", "strategy"}
NoPlan == [job |-> None]
NoTxn == [claims |-> {}, weight |-> <<>>]
FreshPlan(job, gate, rows) ==
    [job |-> job, gate |-> gate, rows |-> rows, canon |-> {}, cohort |-> None,
     hash |-> None, off |-> {}, old |-> <<>>, new |-> <<>>, base |-> None]

Init ==
    /\ InitArchiveState
    /\ mode = InitMode
    /\ pinned = {} /\ auto = Rows
    /\ weight = InitWeight
    /\ baseline = [g \in Gates |-> None]
    /\ applied = {}
    /\ commits = 0
    /\ pc = [w \in Writers |-> "idle"]
    /\ plan = [w \in Writers |-> NoPlan]
    /\ lock = None
    /\ txn = NoTxn
    /\ rounds = [jobs |-> 0, events |-> 0]

Put(f, x, v) == [y \in DOMAIN f \cup {x} |-> IF y = x THEN v ELSE f[y]]
Goto(w, label) == pc' = [pc EXCEPT ![w] = label]
Stop(w) == /\ Goto(w, "idle")
           /\ plan' = [plan EXCEPT ![w] = NoPlan]
Free == lock = None

-----------------------------------------------------------------------------
(* Planning: every statement reads what is committed at that moment *)

\* calibrate_factor_weights and rebalance_strategy_weights take every row of
\* a gate, set_factor_weight one row and the weight the user asks for.
StartBatch(w, gate) ==
    /\ pc[w] = "idle"
    /\ rounds.jobs < MaxRounds /\ rounds' = [rounds EXCEPT !.jobs = @ + 1]
    /\ plan' = [plan EXCEPT ![w] = FreshPlan(gate[1], gate, RowsOf(gate))]
    /\ Goto(w, "ensure")
    /\ UNCHANGED <<archiveVars, mode, pinned, auto, weight, baseline, applied, commits, lock, txn>>

StartManual(w, row, new) ==
    /\ pc[w] = "idle" /\ row[1] = "factor" /\ new # weight[row]
    /\ rounds.jobs < MaxRounds /\ rounds' = [rounds EXCEPT !.jobs = @ + 1]
    /\ plan' = [plan EXCEPT ![w] = [FreshPlan("manual", GateOf(row), {row}) EXCEPT !.new = [r \in {row} |-> new]]]
    /\ Goto(w, "ensure")
    /\ UNCHANGED <<archiveVars, mode, pinned, auto, weight, baseline, applied, commits, lock, txn>>

\* ensure_rollout_baseline_and_modes: export_rollout_baseline reads the rows
\* and inserts them in a later statement.
EnsureBaseline(w) ==
    /\ pc[w] = "ensure"
    /\ IF baseline[plan[w].gate] # None
       THEN /\ Goto(w, "items") /\ UNCHANGED plan
       ELSE /\ Goto(w, "export")
            /\ plan' = [plan EXCEPT ![w].base =
                           [r \in RowsOf(plan[w].gate) |-> weight[r]]]
    /\ UNCHANGED <<archiveVars, mode, pinned, auto, weight, baseline, applied, commits, lock, txn, rounds>>

\* The unique key of the baseline refuses a second archive of the gate.
ExportBaseline(w) ==
    /\ pc[w] = "export" /\ Free
    /\ IF baseline[plan[w].gate] # None
       THEN Stop(w) /\ UNCHANGED baseline
       ELSE /\ baseline' = [baseline EXCEPT ![plan[w].gate] = plan[w].base]
            /\ Goto(w, "items") /\ UNCHANGED plan
    /\ UNCHANGED <<archiveVars, mode, pinned, auto, weight, applied, commits, lock, txn, rounds>>

ReadItems(w) ==
    /\ pc[w] = "items"
    /\ plan' = [plan EXCEPT ![w].canon =
                   Canonical(plan[w].gate[1], plan[w].gate[2], archive)]
    /\ Goto(w, "outcomes")
    /\ UNCHANGED <<archiveVars, mode, pinned, auto, weight, baseline, applied, commits, lock, txn, rounds>>

ReadOutcomes(w) ==
    /\ pc[w] = "outcomes"
    /\ plan' = [plan EXCEPT ![w].cohort =
                               Cohort(plan[w].gate[1], plan[w].canon, outcomes),
                            ![w].canon = {}]
    /\ Goto(w, IF plan[w].job = "manual" THEN "targets" ELSE "hash")
    /\ UNCHANGED <<archiveVars, mode, pinned, auto, weight, baseline, applied, commits, lock, txn, rounds>>

\* plan_calibration_batch reads the config before the targets,
\* plan_calibration after them.
ReadConfig(w) ==
    /\ pc[w] = "hash"
    /\ plan' = [plan EXCEPT ![w].hash = LiveConfig(plan[w].gate)]
    /\ Goto(w, IF plan[w].job = "manual" THEN "propose" ELSE "targets")
    /\ UNCHANGED <<archiveVars, mode, pinned, auto, weight, baseline, applied, commits, lock, txn, rounds>>

\* pin_state and current_weight, one target after the other.
ReadTarget(w) ==
    /\ pc[w] = "targets"
    /\ LET row == CHOOSE r \in plan[w].rows : r \notin DOMAIN plan[w].old
       IN  /\ plan' = [plan EXCEPT ![w] =
                          [@ EXCEPT !.old = Put(plan[w].old, row, weight[row]),
                                    !.off = IF row \in pinned \/ row \notin auto
                                            THEN plan[w].off \cup {row} ELSE plan[w].off]]
           /\ Goto(w, IF plan[w].rows \subseteq DOMAIN plan[w].old \cup {row}
                      THEN IF plan[w].job = "manual" THEN "hash" ELSE "propose"
                      ELSE "targets")
    /\ UNCHANGED <<archiveVars, mode, pinned, auto, weight, baseline, applied, commits, lock, txn, rounds>>

\* blend: one step from the old weight in the direction of the evidence,
\* clamped; no change is no proposal.
Direction(w, row) ==
    LET c == CohortForTarget(plan[w].cohort, row[1], row[3])
        T == Training(c.samples)
    IN  Sign(IF row[1] = "factor"
             THEN MapThenSumSet(LAMBDA p : PeriodValue(Usable(InPeriod(T, p), row[1], row[3]),
                                                       row[1], row[3]), Periods(T))
             ELSE PeriodValue(T, row[1], row[3]))

Blend(w, row) ==
    LET n == plan[w].old[row] + Direction(w, row)
    IN  IF n \in Weights THEN n ELSE plan[w].old[row]

\* The factor job skips what is pinned or not ready; the strategy rebalance
\* proposes for every target with samples and leaves the gates to the applier.
MayPropose(w, row) ==
    LET c == CohortForTarget(plan[w].cohort, row[1], row[3])
    IN  IF plan[w].job = "factor"
        THEN row \notin plan[w].off /\ Ready(c, row[1], row[2], row[3])
        ELSE Training(c.samples) # {}

Propose(w) ==
    /\ pc[w] = "propose" /\ plan[w].job # "manual"
    /\ LET targets == {r \in plan[w].rows : /\ MayPropose(w, r)
                                            /\ Blend(w, r) # plan[w].old[r]}
       IN  IF targets = {}
           THEN Stop(w)
           ELSE /\ plan' = [plan EXCEPT ![w].new = [r \in targets |-> Blend(w, r)]]
                /\ Goto(w, "claim")
    /\ UNCHANGED <<archiveVars, mode, pinned, auto, weight, baseline, applied, commits, lock, txn, rounds>>

ProposeManual(w) ==
    /\ pc[w] = "propose" /\ plan[w].job = "manual"
    /\ Goto(w, "claim")
    /\ UNCHANGED <<archiveVars, mode, pinned, auto, weight, baseline, applied, commits, plan, lock, txn, rounds>>

-----------------------------------------------------------------------------
(* Applying: claims, gates, weights, commit *)

Batch(w) == DOMAIN plan[w].new
PlannedFingerprint(w, row) ==
    Fingerprint(CohortForTarget(plan[w].cohort, row[1], row[3]), row[1])

\* Unique key of calibration_applications.
ClaimKey(row, print) == <<row, print>>
\* Mutant: no unique key on the claims.
DuplicateAllowed(w) == FALSE
Duplicate(w) == \E r \in Batch(w), a \in applied :
    ClaimKey(a.row, a.print) = ClaimKey(r, PlannedFingerprint(w, r))

\* The flush of the claims takes the write reservation.
Claim(w) ==
    /\ pc[w] = "claim" /\ Free
    /\ IF Duplicate(w)
       THEN Stop(w) /\ UNCHANGED <<lock, txn>>          \* DUPLICATE_COHORT
       ELSE /\ lock' = w
            /\ txn' = [claims |-> Batch(w), weight |-> <<>>]
            /\ Goto(w, "recheck") /\ UNCHANGED plan
    /\ UNCHANGED <<archiveVars, mode, pinned, auto, weight, baseline, applied, commits, rounds>>

\* busy_timeout runs out: the applier rolls back and the batch is lost.
ClaimTimeout(w) ==
    /\ pc[w] = "claim" /\ ~Free
    /\ Stop(w)
    /\ UNCHANGED <<archiveVars, mode, pinned, auto, weight, baseline, applied, commits, lock, txn, rounds>>

FreshCohort(row) ==
    CohortForTarget(SelectCohort(row[1], row[2], archive, outcomes), row[1], row[3])

\* Mutant: the cohort of the plan is trusted.
GatesHoldOnPlan(w) ==
    /\ mode[plan[w].gate] = "ACTIVE"
    /\ LiveConfig(plan[w].gate) = plan[w].hash
    /\ \A r \in Batch(w) : r \notin pinned /\ r \in auto

\* Every gate, on persisted state, for every target of the batch.
GatesHold(w) ==
    /\ mode[plan[w].gate] = "ACTIVE"
    /\ LiveConfig(plan[w].gate) = plan[w].hash
    /\ \A r \in Batch(w) :
         /\ r \notin pinned /\ r \in auto
         /\ Fingerprint(FreshCohort(r), r[1]) = PlannedFingerprint(w, r)
         /\ Ready(FreshCohort(r), r[1], r[2], r[3])

Recheck(w) ==
    /\ pc[w] = "recheck"
    /\ IF GatesHold(w)
       THEN Goto(w, "write") /\ UNCHANGED <<plan, lock, txn>>
       ELSE Stop(w) /\ lock' = None /\ txn' = NoTxn
    /\ UNCHANGED <<archiveVars, mode, pinned, auto, weight, baseline, applied, commits, rounds>>

\* _weight_write for one target, inside the transaction.
WriteWeight(w) ==
    /\ pc[w] = "write" /\ DOMAIN txn.weight # Batch(w)
    /\ LET row == CHOOSE r \in Batch(w) : r \notin DOMAIN txn.weight
       IN  txn' = [txn EXCEPT !.weight = Put(@, row, plan[w].new[row])]
    /\ UNCHANGED <<archiveVars, mode, pinned, auto, weight, baseline, applied, commits, pc, plan, lock, rounds>>

Application(w, row) ==
    [n |-> commits + 1, row |-> row, print |-> PlannedFingerprint(w, row),
     old |-> weight[row], new |-> txn.weight[row]]

Commit(w) ==
    /\ pc[w] = "write" /\ DOMAIN txn.weight = Batch(w)
    /\ weight' = [r \in Rows |-> IF r \in Batch(w) THEN txn.weight[r] ELSE weight[r]]
    /\ applied' = applied \cup {Application(w, r) : r \in Batch(w)}
    /\ commits' = commits + 1
    /\ lock' = None /\ txn' = NoTxn
    /\ Stop(w)
    /\ UNCHANGED <<archiveVars, mode, pinned, auto, baseline, rounds>>

-----------------------------------------------------------------------------
(* The other writers of the same rows, and a restart *)

SetMode(gate, m) ==
    /\ Free /\ mode[gate] # m
    /\ rounds.jobs < MaxRounds /\ rounds' = [rounds EXCEPT !.jobs = @ + 1]
    /\ mode' = [mode EXCEPT ![gate] = m]
    /\ UNCHANGED <<archiveVars, pinned, auto, weight, baseline, applied, commits, pc, plan, lock, txn>>

\* Mutant: an edit of the pin writes the weight that came with it as well.
SetPinAndWeight(row) ==
    /\ Free /\ row[1] = "factor"
    /\ rounds.jobs < MaxRounds /\ rounds' = [rounds EXCEPT !.jobs = @ + 1]
    /\ pinned' = SymDiff(pinned, {row})
    /\ \E n \in Weights : weight' = [weight EXCEPT ![row] = n]
    /\ UNCHANGED <<archiveVars, mode, auto, baseline, applied, commits, pc, plan, lock, txn>>

\* set_factor_weight with is_pinned or auto_calibrate only.
SetPin(row) ==
    /\ Free /\ row[1] = "factor"
    /\ rounds.jobs < MaxRounds /\ rounds' = [rounds EXCEPT !.jobs = @ + 1]
    /\ \/ pinned' = SymDiff(pinned, {row}) /\ UNCHANGED auto
       \/ auto' = SymDiff(auto, {row}) /\ UNCHANGED pinned
    /\ UNCHANGED <<archiveVars, mode, weight, baseline, applied, commits, pc, plan, lock, txn>>

ArchiveStep ==
    /\ Free
    /\ rounds.events < MaxEvents /\ rounds' = [rounds EXCEPT !.events = @ + 1]
    /\ ArchiveNext
    /\ UNCHANGED <<mode, pinned, auto, weight, baseline, applied, commits, pc, plan, lock, txn>>

Restart ==
    /\ \E w \in Writers : pc[w] # "idle"
    /\ pc' = [w \in Writers |-> "idle"]
    /\ plan' = [w \in Writers |-> NoPlan]
    /\ lock' = None /\ txn' = NoTxn
    /\ UNCHANGED <<archiveVars, mode, pinned, auto, weight, baseline, applied, commits, rounds>>

WriterNext(w) ==
    \/ \E g \in Gates : StartBatch(w, g)
    \/ \E r \in Rows, n \in Weights : StartManual(w, r, n)
    \/ EnsureBaseline(w) \/ ExportBaseline(w)
    \/ ReadItems(w) \/ ReadOutcomes(w) \/ ReadConfig(w)
    \/ ReadTarget(w)
    \/ Propose(w) \/ ProposeManual(w)
    \/ Claim(w) \/ ClaimTimeout(w) \/ Recheck(w)
    \/ WriteWeight(w)
    \/ Commit(w)

Next ==
    \/ \E w \in Writers : WriterNext(w)
    \/ \E g \in Gates, m \in Modes : SetMode(g, m)
    \/ \E r \in Rows : SetPin(r)
    \/ ArchiveStep
    \/ Restart

Spec == Init /\ [][Next]_vars

-----------------------------------------------------------------------------
(* Properties *)

TypeOK ==
    /\ mode \in [Gates -> Modes]
    /\ pinned \subseteq Rows /\ auto \subseteq Rows
    /\ weight \in [Rows -> Weights]
    /\ \A g \in Gates : baseline[g] # None => baseline[g] \in [RowsOf(g) -> Weights]
    /\ pc \in [Writers -> {"idle", "ensure", "export", "items", "outcomes", "hash",
                           "targets", "propose", "claim", "recheck", "write"}]
    /\ lock \in Writers \cup {None}
    /\ commits \in Nat /\ \A a \in applied : a.row \in Rows /\ a.n \in 1..commits

\* A weight is applied only while its gate is ACTIVE, its row automatic and
\* unpinned, and the evidence it was planned on is the evidence committed at
\* that moment, and still ready: the plan was made statements earlier, with
\* edits, refreshes and other appliers in between.
GatedAndFresh ==
    [][\A a \in applied' \ applied :
        LET c == FreshCohort(a.row)
        IN  /\ mode[GateOf(a.row)] = "ACTIVE"
            /\ a.row \in auto \ pinned
            /\ a.print = Fingerprint(c, a.row[1])
            /\ Ready(c, a.row[1], a.row[2], a.row[3])]_vars

\* The committed applications of a row are an unbroken history of its weight,
\* from the deployed value to the live one, whatever the plans had read.
Before(a, b) == a.row = b.row /\ a.n < b.n
AuditTrail ==
    /\ \A a \in applied :
         \/ a.old = InitWeight[a.row] /\ ~\E b \in applied : Before(b, a)
         \/ \E b \in applied :
              /\ Before(b, a) /\ b.new = a.old
              /\ ~\E c \in applied : Before(b, c) /\ Before(c, a)
    /\ \A r \in Rows :
         \/ weight[r] = InitWeight[r] /\ ~\E a \in applied : a.row = r
         \/ \E a \in applied : /\ a.row = r /\ a.new = weight[r]
                              /\ ~\E b \in applied : Before(a, b)

\* No row is moved twice on the same evidence, by whichever of the writers.
OncePerCohort ==
    \A a, b \in applied : ClaimKey(a.row, a.print) = ClaimKey(b.row, b.print) => a = b

\* What a rollback would restore is archived before the first change of a
\* gate, and holds the weights from before it.
BaselineIsFirst ==
    \A g \in Gates :
        /\ baseline[g] # None => baseline[g] = [r \in RowsOf(g) |-> InitWeight[r]]
        /\ (\E a \in applied : GateOf(a.row) = g) => baseline[g] # None

\* A refresh of the day or a revision of its capture, which may know more,
\* never takes the place of the decision that stands for a unit in a cohort:
\* that decision gives way only to an eligible one of the same unit which was
\* taken no later and has just been archived.
FirstDecisionStands ==
    [][archive' # archive =>
        \A g \in Gates :
            \A it \in Canonical(g[1], g[2], archive) \ Canonical(g[1], g[2], archive') :
                \E first \in Items(archive') \ Items(archive) :
                    /\ HasEvidence(first, g[1])
                    /\ Unit(first, g[1]) = Unit(it, g[1])
                    /\ first.decided <= it.decided]_vars
=============================================================================
