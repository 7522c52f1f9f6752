----------------------------- MODULE MCSleepers -----------------------------
(* A second hart, which clockintr() on the first does not stop; two        *)
(* processes that read what is typed.                                      *)
EXTENDS Sleepers

CONSTANTS h1, h2, r1, r2
=============================================================================
