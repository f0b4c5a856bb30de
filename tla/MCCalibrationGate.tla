------------------------- MODULE MCCalibrationGate -------------------------
(***************************************************************************)
(* Two markets, four archived decision days with one held out, two factors *)
(* and the ALL layer of one strategy: enough for every gate to open and,   *)
(* with one outcome missing, revised or about another decision, to close.  *)
(***************************************************************************)
EXTENDS CalibrationGate, TLC

MCDates == 1..4
Market(inst) == IF inst = "U" THEN "US" ELSE "TW"
Signal(inst, date) == <<inst, date>>
MCSignals == {"A", "B", "U"} \X MCDates

\* A day's first capture leaves room for one decided before it.
Open(date) == 3 * date
Decided(date) == Open(date) + 1

\* A beats B in the first factor and loses in the second one.
Row(inst, date) ==
    [inst |-> inst, strategy |-> 1, signal |-> Signal(inst, date), horizon |-> 1,
     verified |-> TRUE, available |-> Open(date), eligible |-> TRUE,
     factors |-> IF inst = "A" THEN ("f" :> 2 @@ "g" :> 1) ELSE ("f" :> 1 @@ "g" :> 2)]
DayBatch(date) == [base |-> <<"TW", date>>, market |-> "TW", date |-> date,
                   decided |-> Decided(date),
                   rows |-> <<Row("A", date), Row("B", date)>>]
Sealed(market, date, insts) ==
    [base |-> <<market, date>>, rev |-> 0, market |-> market, date |-> date,
     decided |-> Decided(date), rows |-> {Row(i, date) : i \in insts}]
MCArchive == {Sealed("TW", d, {"A", "B"}) : d \in MCDates}
             \cup {Sealed("US", d, {"U"}) : d \in MCDates}

\* A refresh of the last day (other factors), a refresh that began before the
\* archived one and is late, and a replay of what is archived.
Refresh == [DayBatch(4) EXCEPT !.decided = @ + 1, !.rows[2].factors = ("f" :> 3 @@ "g" :> 3)]
LateBatch == [Refresh EXCEPT !.decided = Open(4)]
MCPayloads == {Refresh, LateBatch, DayBatch(4)}

Outcome(inst, date, captureRev, rev) ==
    [signal |-> Signal(inst, date), decision |-> <<<<Market(inst), date>>, captureRev, inst, 1>>,
     rev |-> rev, gross |-> IF inst = "A" THEN 1 ELSE 0,
     net |-> IF rev = 2 THEN -2 ELSE 1, exit |-> date + 1, complete |-> TRUE,
     evaluated |-> rev > 0,
     horizon |-> 1, market |-> Market(inst), strategy |-> 1, date |-> date]
MCInitOutcomes == [s \in MCSignals |-> Outcome(s[1], s[2], 0, IF s = Signal("B", 4) THEN 0 ELSE 1)]
\* The pending outcome evaluated, about either decision; a revision.
MCOutcomes == {Outcome("B", 4, 0, 1), Outcome("B", 4, 1, 1), Outcome("A", 1, 0, 2)}
MCStale == {Signal("A", 1)}

MCFloors == [m \in {"TW", "US", "ALL"} |->
    [units |-> IF m = "TW" THEN 4 ELSE IF m = "US" THEN 2 ELSE 6, dates |-> 2,
     samples |-> IF m = "TW" THEN 2 ELSE 1, periods |-> IF m = "ALL" THEN 4 ELSE 2]]
MCHorizon == (1 :> 1)
MCIdRank(id) == id[2]

MCRows == {<<"factor", "TW", "f">>, <<"factor", "TW", "g">>, <<"strategy", "ALL", 1>>}
MCInitWeight == [r \in MCRows |-> 1]
MCInitMode == [g \in {<<r[1], r[2]>> : r \in MCRows} |-> "ACTIVE"]
MCWeights == 0..2
Symmetry == Permutations(Writers)
=============================================================================
