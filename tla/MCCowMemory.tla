---------------------------- MODULE MCCowMemory ----------------------------
(* Physical pages are interchangeable, since the free list is a set.       *)
EXTENDS CowMemory, TLC

CONSTANTS p1, p2, x1, x2, x3, x4, x5, x6, x7

Symmetry == Permutations(Page)
=============================================================================
