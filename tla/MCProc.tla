------------------------------- MODULE MCProc -------------------------------
(* Harts are interchangeable; slots are not (slot 1 is init, scans are     *)
(* ordered).                                                               *)
EXTENDS Proc, TLC

CONSTANTS c1, c2

Symmetry == Permutations(CPU)
=============================================================================
