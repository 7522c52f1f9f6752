------------------------------- MODULE Traps -------------------------------
(***************************************************************************)
(* What usertrap() is entered for: a system call, here of the shell and    *)
(* its children; an interrupt of the UART, which receives and sends; the   *)
(* timer, which counts down the alarm of the process it interrupts.  The   *)
(* three share no state, so a behaviour is about one of them.              *)
(***************************************************************************)
EXTENDS Alarm, Uart, Shell

VARIABLE which_dev    \* devintr(); 0: a system call

trapvars == <<vars, uartvars, shvars, which_dev>>

TrapInit ==
  /\ which_dev \in {0, 1, 2}
  /\ Init /\ UartInit /\ ShInit
  /\ which_dev # 2 => ctx.reg = CHOOSE r \in Reg : TRUE

usertrap ==
  \/ which_dev = 0 /\ ShNext /\ UNCHANGED <<vars, uartvars, which_dev>>
  \/ which_dev = 1 /\ UartNext /\ UNCHANGED <<vars, shvars, which_dev>>
  \/ which_dev = 2 /\ Next /\ UNCHANGED <<uartvars, shvars, which_dev>>

\* The fairness of Shell and of Alarm, in the behaviours about them;
\* UartFairness asks nothing of a UART that was never used.
SyscallFairness ==
  /\ \A q \in ShPid : WF_shvars(which_dev = 0 /\ ShStep(q))
  /\ WF_shvars(which_dev = 0 /\ InitStep)

TimerFairness ==
  WF_vars(which_dev = 2 /\ Tick) /\ WF_vars(which_dev = 2 /\ Sigreturn)

TrapSpec ==
  TrapInit /\ [][usertrap]_trapvars /\ SyscallFairness /\ TimerFairness /\ UartFairness
=============================================================================
