------------------------- MODULE MCSchedulerSnapshot -------------------------
(* Instances of SchedulerSnapshot for TLC: the constants are model values,  *)
(* given in the configuration.                                              *)
EXTENDS SchedulerSnapshot, TLC
=============================================================================
