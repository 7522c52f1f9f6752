------------------------------ MODULE MCLocks ------------------------------
(* Two harts and two nested spinlocks: enough for one hart to spin on a    *)
(* lock the other holds while an interrupt handler competes for both.  Two *)
(* processes, four blocks and three buffers, one of which may be pinned.   *)
(* Harts, processes and blocks are interchangeable; buffers stand in a     *)
(* list.                                                                   *)
EXTENDS Locks, TLC

CONSTANTS c1, c2, p1, p2, k1, k2, k3, k4, b1, b2, b3, v0, v1

Symmetry == Permutations(CPU) \cup Permutations(Process) \cup Permutations(Block)
=============================================================================
