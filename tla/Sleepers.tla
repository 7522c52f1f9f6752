------------------------------ MODULE Sleepers ------------------------------
(***************************************************************************)
(* The two system calls that sleep until an interrupt wakes them:          *)
(* sys_sleep(), by clockintr(), and a read() of the console, by            *)
(* consoleintr().  devintr() calls one or the other and they share no      *)
(* state, so a behaviour is about one of them.                             *)
(***************************************************************************)
EXTENDS Clock, Console

VARIABLE scause

sleepvars == <<vars, consvars, scause>>

SleepersInit ==
  /\ scause \in {"timer", "uart"}
  /\ Init /\ ConsInit
  /\ scause = "uart" => ticks = 0

devintr ==
  \/ scause = "timer" /\ Next /\ UNCHANGED <<consvars, scause>>
  \/ scause = "uart" /\ ConsNext /\ UNCHANGED <<vars, scause>>

SleepersSpec == SleepersInit /\ [][devintr]_sleepvars
=============================================================================
