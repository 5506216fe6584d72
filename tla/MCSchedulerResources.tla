------------------------ MODULE MCSchedulerResources ------------------------
(* SchedulerResources for TLC. *)
EXTENDS SchedulerResources
=============================================================================
