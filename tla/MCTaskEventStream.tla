-------------------------- MODULE MCTaskEventStream --------------------------
(* Instances of TaskEventStream for TLC; every bound is in the cfg files. *)
EXTENDS TaskEventStream
=============================================================================
