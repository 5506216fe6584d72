---------------------------- MODULE MCTaskQueue ----------------------------
(* TaskQueue for TLC. *)
EXTENDS TaskQueue
=============================================================================
