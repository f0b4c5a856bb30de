---------------------------- MODULE MCAiFailover ----------------------------
(* Two models, a hurried and a patient request; the deadline is below the   *)
(* client's patience, as 180 s is below 600 s.                              *)
EXTENDS AiFailover

CONSTANTS a, b, q1, q2

Two == <<a, b>>
=============================================================================
