---------------------------- MODULE MCBatchImage ----------------------------
(* BatchImage for TLC: two workers and one job.                             *)
EXTENDS BatchImage

\* Bound: a job whose output costs more than its hold meets one fault.
FaultsWithinHold == faults <= 1 \/ cost <= Hold
=============================================================================
