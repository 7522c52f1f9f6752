------------------------------ MODULE MCSched ------------------------------
(* Sched with a generator of 13 values.                                    *)
EXTENDS Sched

\* (int)NaN is INT_MAX on RISC-V, and times 10 wraps to -10.
MCNanNiceness == -10
=============================================================================
