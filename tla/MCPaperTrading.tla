--------------------------- MODULE MCPaperTrading ---------------------------
(* Instances of PaperTrading for TLC. *)
EXTENDS PaperTrading, TLC

CONSTANTS cn, us, a, b, s1, s2

TwoMarkets == [k \in {a, b} |-> IF k = a THEN cn ELSE us]

\* Half of the capital in each market.
Split == {[m \in {cn, us} |-> 5]}

\* Two threads, each of which does everything in turn.
AllJobs == [s \in {s1, s2} |-> {"scan", "close", "settings", "reset"}]

Alike == Permutations({s1, s2})

\* What follows on a crossing is not of interest: every property is silent.
NotCrossed == ~crossed
=============================================================================
