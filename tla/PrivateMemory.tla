--------------------------- MODULE PrivateMemory ---------------------------
(***************************************************************************)
(* What virtual memory promises user programs: each process has a memory   *)
(* of its own.  A store is seen by the process that made it and by nobody  *)
(* else, and fork() gives the child a copy of the parent's memory.         *)
(***************************************************************************)
EXTENDS Naturals, Sequences

CONSTANTS Proc, Val, Zero, MaxSz

VARIABLES alive,    \* processes with an address space
          memory    \* the pages of each, as the process reads them

mvars == <<alive, memory>>

Init ==
  /\ \E p \in Proc : alive = {p}
  /\ memory \in [Proc -> UNION {[1 .. n -> Val] : n \in 0 .. MaxSz}]
  /\ \A p \in Proc \ alive : memory[p] = <<>>

Store(p, a, v) ==
  /\ p \in alive /\ a \in DOMAIN memory[p]
  /\ memory' = [memory EXCEPT ![p][a] = v]
  /\ UNCHANGED alive

Fork(p, q) ==
  /\ p \in alive /\ q \notin alive
  /\ alive' = alive \cup {q}
  /\ memory' = [memory EXCEPT ![q] = memory[p]]

\* sbrk(): new pages are zero.
Grow(p, n) ==
  /\ p \in alive
  /\ memory' = [memory EXCEPT ![p] = @ \o [a \in 1 .. n |-> Zero]]
  /\ UNCHANGED alive

Shrink(p, n) ==
  /\ p \in alive /\ n < Len(memory[p])
  /\ memory' = [memory EXCEPT ![p] = SubSeq(@, 1, n)]
  /\ UNCHANGED alive

Exit(p) ==
  /\ p \in alive
  /\ alive' = alive \ {p}
  /\ memory' = [memory EXCEPT ![p] = <<>>]

Next ==
  \E p \in Proc :
    \/ \E a \in 1 .. MaxSz, v \in Val : Store(p, a, v)
    \/ \E q \in Proc : Fork(p, q)
    \/ \E n \in 1 .. MaxSz : Grow(p, n) \/ Shrink(p, n)
    \/ Exit(p)

Spec == Init /\ [][Next]_mvars
=============================================================================
