------------------------------- MODULE MCPipe -------------------------------
(* Processes are interchangeable, and so are bytes.                        *)
EXTENDS Pipe, TLC

CONSTANTS p1, p2, p3, b1, b2

Symmetry == Permutations(Proc) \cup Permutations(Byte)
=============================================================================
