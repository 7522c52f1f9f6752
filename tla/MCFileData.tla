---------------------------- MODULE MCFileData ----------------------------
(* mkfs copies a file of two bytes and an empty one; each is open.         *)
EXTENDS FileData, TLC

CONSTANTS p1, p2, f1, f2

MCHostLen == <<2, 0>>
MCInum == f1 :> 2 @@ f2 :> 3

Symmetry == Permutations(Writer)
=============================================================================
