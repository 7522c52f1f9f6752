------------------------------- MODULE MCLog -------------------------------
(* Log with two threads, two blocks and two values, and a log of four      *)
(* blocks: two system calls fill it.                                       *)
EXTENDS Log

CONSTANTS o1, o2, b1, b2, v1, v2
=============================================================================
