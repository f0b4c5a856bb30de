-------------------------- MODULE MCPriceAlertScan --------------------------
(* Instances of PriceAlertScan for TLC; every bound is in the cfg files. *)
EXTENDS PriceAlertScan, TLC

CONSTANTS r1, r2, s1, s2

\* Overlapping scans differ in their names only.
Alike == Permutations(Scans)

\* An edit or a crash takes the place of the last scan.
ScansOrEvents == begun + Events <= MaxScans
=============================================================================
