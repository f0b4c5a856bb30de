-------------------------- MODULE RankingArchive --------------------------
(***************************************************************************)
(* The immutable decision archive that calibration reads                   *)
(* (src/modules/strategy/calibration_gate.py): append-only captures of     *)
(* ranking decisions, the outcome rows joined to them, and the cohort,     *)
(* fingerprint and readiness derived from both.                            *)
(*                                                                         *)
(* A capture is a batch of decision rows under one capture id; a batch     *)
(* that differs from what the id already holds becomes the next revision   *)
(* of the id.  An outcome row is keyed by the signal run it evaluates; the *)
(* signal refresh deletes stale signal runs (their outcomes cascade) and   *)
(* SQLite may hand a freed id out again.                                   *)
(***************************************************************************)
EXTENDS Integers, Sequences, FiniteSets, FiniteSetsExt, SequencesExt

CONSTANTS
    Payloads,        \* batches the signal refresh may capture
    InitArchive,     \* captures already archived
    Outcomes,        \* outcome rows the evaluator may record
    InitOutcomes,    \* [Signals -> Outcomes \cup {NoOutcome}]
    Signals,         \* ids of signal runs
    StaleSignals,    \* those a refresh may delete
    NoOutcome,
    FactorCodes,     \* CALIBRATABLE_FACTORS
    NoValue,         \* a factor the ranker did not emit
    SealedHorizon,   \* catalog authority sealed in the capture: strategy -> sessions
    IdRank(_),       \* order of decision ids (they are hashes: any order)
    FactorHorizon,   \* FACTOR_HORIZON_SESSIONS
    HoldoutDates,    \* HOLDOUT_DECISION_DATES
    Floors,          \* CALIBRATION_FLOORS: market -> [units, dates, samples, periods]
    MinMarkets,      \* ALL_MIN_QUALIFYING_MARKETS
    MaxCaptures      \* bound: captures in the archive

VARIABLES
    archive,         \* captures, each a base id, a revision and its rows
    outcomes         \* [Signals -> outcome row or NoOutcome]

ASSUME DecisionsTyped == \A c \in InitArchive \cup Payloads : c.decided \in Int

archiveVars == <<archive, outcomes>>

-----------------------------------------------------------------------------
(* Captures *)

\* One batch keeps the first row of every decision it repeats.
RowKey(r) == <<r.inst, r.strategy>>
KeptRows(rows) ==
    {rows[i] : i \in {j \in DOMAIN rows :
        \A k \in 1..(j - 1) : RowKey(rows[k]) # RowKey(rows[j])}}

\* The identity of a payload: every stored field, and not the capture id.
PayloadOf(p) == [market |-> p.market, date |-> p.date, decided |-> p.decided,
                 rows |-> KeptRows(p.rows)]
SealedPayload(c) == [market |-> c.market, date |-> c.date, decided |-> c.decided,
                     rows |-> c.rows]

RevisionsOf(base) == {c \in archive : c.base = base}
Holding(p) == {c \in RevisionsOf(p.base) : SealedPayload(c) = PayloadOf(p)}

\* The id itself first, then the first unused -r suffix.
NextRevision(base) ==
    LET used == {c.rev : c \in RevisionsOf(base)}
    IN  Min(0..Cardinality(used) \ used)

CaptureOf(p, rev) ==
    [base |-> p.base, rev |-> rev, market |-> p.market, date |-> p.date,
     decided |-> p.decided, rows |-> KeptRows(p.rows)]

\* capture_decision_snapshot: replaying a payload reuses the capture that
\* holds it, anything else is appended as a revision of its own.  The time of
\* the decision is the caller's: of two refreshes at once, the one that began
\* first may be archived last.
Capture(p) ==
    /\ IF Holding(p) # {}
       THEN UNCHANGED archive
       ELSE /\ Cardinality(archive) < MaxCaptures
            /\ archive' = archive \cup {CaptureOf(p, NextRevision(p.base))}
    /\ UNCHANGED outcomes

\* A session-validated producer records or revises the outcome of a signal.
RecordOutcome(s, o) ==
    /\ o \in Outcomes
    /\ o.signal = s
    /\ outcomes[s] # NoOutcome => outcomes[s].rev < o.rev
    /\ outcomes' = [outcomes EXCEPT ![s] = o]
    /\ UNCHANGED archive

\* refresh_strategy_signals deletes a stale signal run; its outcome cascades.
DropSignal(s) ==
    /\ outcomes[s] # NoOutcome
    /\ outcomes' = [outcomes EXCEPT ![s] = NoOutcome]
    /\ UNCHANGED archive

-----------------------------------------------------------------------------
(* Items and the canonical decision of a unit *)

DecisionId(c, r) == <<c.base, c.rev, r.inst, r.strategy>>
ItemsOf(c) ==
    {[id |-> DecisionId(c, r), market |-> c.market, date |-> c.date,
      decided |-> c.decided, inst |-> r.inst, strategy |-> r.strategy,
      signal |-> r.signal, horizon |-> r.horizon, verified |-> r.verified,
      available |-> r.available, eligible |-> r.eligible,
      factors |-> r.factors] : r \in c.rows}
Items(arch) == UNION {ItemsOf(c) : c \in arch}

HasEvidence(it, kind) ==
    /\ it.verified
    /\ it.available <= it.decided
    /\ it.eligible
    /\ kind = "strategy" => it.horizon = SealedHorizon[it.strategy]

Unit(it, kind) == IF kind = "strategy"
                  THEN <<it.market, it.inst, it.date, it.strategy>>
                  ELSE <<it.market, it.inst, it.date>>

\* Mutant: the latest decision of a unit wins.
PrecedesLatest(a, b, kind) ==
    \/ a.decided > b.decided
    \/ a.decided = b.decided /\ IdRank(a.id) > IdRank(b.id)

\* Order of two decisions of one unit: the first decision, then the strategy
\* (factor units only), then the decision id.
Precedes(a, b, kind) ==
    \/ a.decided < b.decided
    \/ /\ a.decided = b.decided
       /\ \/ kind = "factor" /\ a.strategy < b.strategy
          \/ /\ kind = "factor" => a.strategy = b.strategy
             /\ IdRank(a.id) < IdRank(b.id)

InScope(it, market) == market = "ALL" \/ it.market = market

\* Chosen before any outcome is looked at.
Canonical(kind, market, arch) ==
    LET eligible == {it \in Items(arch) : InScope(it, market) /\ HasEvidence(it, kind)}
    IN  {it \in eligible : ~\E other \in eligible :
            Unit(other, kind) = Unit(it, kind) /\ Precedes(other, it, kind)}

-----------------------------------------------------------------------------
(* Cohort: canonical decisions joined to their outcomes *)

ReturnOf(o, kind) == IF kind = "factor" THEN o.gross ELSE o.net
JoinHorizon(it, kind) == IF kind = "factor" THEN FactorHorizon ELSE it.horizon
OutcomeOf(it, kind, outs) ==
    IF outs[it.signal] # NoOutcome /\ outs[it.signal].horizon = JoinHorizon(it, kind)
    THEN outs[it.signal] ELSE NoOutcome

\* The outcome is evaluated, about this very decision, of a complete exit
\* session, and has the return.
HasProvenance(it, o, kind) ==
    /\ o.evaluated
    /\ o.decision = it.id
    /\ o.complete
    /\ ReturnOf(o, kind) # NoValue

\* A dated population evaluated without this decision's record lost it.
ReferenceLost(it, kind, outs) ==
    /\ OutcomeOf(it, kind, outs) = NoOutcome
    /\ kind = "factor" => it.horizon = FactorHorizon
    /\ \E s \in Signals : /\ outs[s] # NoOutcome
                          /\ outs[s].evaluated
                          /\ outs[s].market = it.market
                          /\ outs[s].strategy = it.strategy
                          /\ outs[s].horizon = it.horizon
                          /\ outs[s].date >= it.date

Cohort(kind, canon, outs) ==
    [samples |-> {[item |-> it, out |-> OutcomeOf(it, kind, outs)] :
                    it \in {c \in canon :
                        /\ OutcomeOf(c, kind, outs) # NoOutcome
                        /\ HasProvenance(c, OutcomeOf(c, kind, outs), kind)}},
     lost |-> {it \in canon : ReferenceLost(it, kind, outs)}]

SelectCohort(kind, market, arch, outs) ==
    Cohort(kind, Canonical(kind, market, arch), outs)

\* A strategy target counts its own decisions only; factor cohorts are shared.
CohortForTarget(c, kind, target) ==
    IF kind = "factor" THEN c
    ELSE [samples |-> {s \in c.samples : s.item.strategy = target},
          lost |-> {it \in c.lost : it.strategy = target}]

\* Exactly the immutable inputs of the statistics, and the lost ones not.
Fingerprint(c, kind) ==
    {[id |-> s.item.id, rev |-> s.out.rev, ret |-> ReturnOf(s.out, kind)] :
        s \in c.samples}

-----------------------------------------------------------------------------
(* Readiness *)

DatesOf(S) == {s.item.date : s \in S}
Latest(D, n) == {d \in D : Cardinality({e \in D : e > d}) < n}
Holdout(S) == IF Cardinality(DatesOf(S)) > HoldoutDates
              THEN Latest(DatesOf(S), HoldoutDates) ELSE {}
TrainingDates(S) == DatesOf(S) \ Holdout(S)

\* A sample whose exit crosses into the holdout is purged.
Training(S) ==
    {s \in S : /\ s.item.date \in TrainingDates(S)
               /\ s.out.exit <= Max(TrainingDates(S))}

Periods(T) == {<<s.item.market, s.item.date>> : s \in T}
InPeriod(T, p) == {s \in T : <<s.item.market, s.item.date>> = p}

Sign(n) == IF n > 0 THEN 1 ELSE IF n < 0 THEN -1 ELSE 0
\* Rank agreement of a factor with the return (equals the sign of Spearman's
\* coefficient for the two-sample periods the instances use).
Agreement(S, code) ==
    MapThenSumSet(LAMBDA pair :
        Sign((pair[1].item.factors[code] - pair[2].item.factors[code])
             * (pair[1].out.gross - pair[2].out.gross)), S \X S)

Usable(T, kind, target) ==
    IF kind = "factor" THEN {s \in T : s.item.factors[target] # NoValue} ELSE T
PeriodValue(T, kind, target) ==
    IF kind = "factor" THEN Agreement(T, target)
    ELSE MapThenSumSet(LAMBDA s : s.out.net, T)

\* Periods with enough samples of this target, two at least for a rank.
Qualifying(T, kind, target, floor) ==
    {p \in Periods(T) :
        LET n == Cardinality(Usable(InPeriod(T, p), kind, target))
        IN  n >= floor.samples /\ (kind = "factor" => n >= 2)}

\* The interval of the date-block bootstrap excludes zero: exact for the few
\* dates of an instance, where one sign change puts zero inside it.
Decisive(T, kind, target, floor) ==
    LET Q == Qualifying(T, kind, target, floor)
        block == [d \in {p[2] : p \in Q} |->
                    MapThenSumSet(LAMBDA p :
                        PeriodValue(Usable(InPeriod(T, p), kind, target), kind, target),
                        {p \in Q : p[2] = d})]
    IN  /\ Cardinality(DOMAIN block) >= 2
        /\ \/ \A d \in DOMAIN block : block[d] > 0
           \/ \A d \in DOMAIN block : block[d] < 0

ReadyOne(c, kind, target, floor) ==
    LET T == Training(c.samples)
    IN  /\ c.lost = {}
        /\ Cardinality(T) >= floor.units
        /\ Cardinality(DatesOf(T)) >= floor.dates
        /\ Cardinality(Qualifying(T, kind, target, floor)) >= floor.periods
        /\ Cardinality(Holdout(c.samples)) >= HoldoutDates
        /\ Decisive(T, kind, target, floor)

\* ALL wants every market stratum ready by itself, two at least.
Ready(c, kind, market, target) ==
    IF market # "ALL" THEN ReadyOne(c, kind, target, Floors[market])
    ELSE LET strata == {s.item.market : s \in c.samples}
             Stratum(m) == [c EXCEPT !.samples = {s \in @ : s.item.market = m}]
         IN  /\ ReadyOne(c, kind, target, Floors["ALL"])
             /\ \A m \in strata : ReadyOne(Stratum(m), kind, target, Floors[m])
             /\ Cardinality(strata) >= MinMarkets

-----------------------------------------------------------------------------
InitArchiveState ==
    /\ archive = InitArchive
    /\ outcomes = InitOutcomes

ArchiveNext ==
    \/ \E p \in Payloads : Capture(p)
    \/ \E s \in Signals, o \in Outcomes : RecordOutcome(s, o)
    \/ \E s \in StaleSignals : DropSignal(s)

=============================================================================
