--------------------------- MODULE MCDeepAnalysis ---------------------------
(* One stock, and two runs of it, each requested or scheduled. *)
EXTENDS DeepAnalysis
=============================================================================
