--------------------------- MODULE MCAgentRuntime ---------------------------
(* Instances of AgentRuntime for TLC. *)
EXTENDS AgentRuntime

CONSTANTS a1, a2, r1, r2, d1, u1

\* Two reads with one fingerprint; every other call is unlike the rest.
TwinReads == [c \in Calls |-> IF c = r2 THEN r1 ELSE c]
=============================================================================
