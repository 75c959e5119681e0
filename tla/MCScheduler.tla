---------------------------- MODULE MCScheduler ----------------------------
(* Scheduler on small instances. *)
EXTENDS Scheduler
=============================================================================
