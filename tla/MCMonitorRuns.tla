---------------------------- MODULE MCMonitorRuns ----------------------------
(* Two stocks, two runs at once, two channels.  Stocks and runs are          *)
(* interchangeable, and no liveness is checked here.                         *)
EXTENDS MonitorRuns, TLC

Interchangeable == Permutations(Stocks) \cup Permutations(Runs)

\* While two runs are under way, at most one stock has been heard of lately:
\* the marks of two stocks have nothing to do with each other.
OneStockAtATime ==
    \/ Cardinality({r \in Runs : ~Idle(r)}) <= 1
    \/ Cardinality({s \in Stocks : heard[s] # Old}) <= 1
=============================================================================
