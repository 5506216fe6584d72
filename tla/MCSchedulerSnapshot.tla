------------------------ MODULE MCSchedulerSnapshot ------------------------
(* SchedulerSnapshot for TLC. *)
EXTENDS SchedulerSnapshot
=============================================================================
