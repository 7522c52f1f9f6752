------------------------------- MODULE Alarm -------------------------------
(***************************************************************************)
(* sigalarm(), sigreturn() and the timer path of usertrap(): one slot of   *)
(* proc[] and the processes that occupy it one after the other.  The user  *)
(* context is the code a process is in and one register; a handler keeps   *)
(* to the rule of README.md and ends with sigreturn() or exit().  kalloc() *)
(* succeeds.                                                               *)
(***************************************************************************)
EXTENDS Integers

CONSTANTS Reg,       \* register values
          Interval,  \* intervals programs pass to sigalarm(); 0 stops it
          MaxIdle,   \* bound: ticks of a process without an alarm
          MaxDepth,  \* bound: handlers started and not finished
          Rearms,    \* whether handlers call sigalarm() with an interval
          ExitsArmed \* whether processes exit without stopping their alarm

ASSUME AlarmAssumption ==
  /\ 0 \in Interval /\ Interval \subseteq Nat
  /\ \E n \in Interval : \A m \in Interval : m <= n
  /\ MaxIdle \in Nat /\ MaxDepth \in Nat
  /\ Rearms \in BOOLEAN /\ ExitsArmed \in BOOLEAN

VARIABLES alarm_flag, alarm_ticks, alarm_ticks_left,  \* struct proc
          saved_tf,     \* *alarm_saved_tf
          ctx,          \* the user context (*trapframe in the kernel)
          alive,        \* the slot is in use
          asked,        \* auxiliary: interval this process asked for last
          elapsed,      \* auxiliary: ticks of CPU time since then, or since
                        \* the last alarm, without those of the handler
          depth,        \* auxiliary: handlers started and not finished
          interrupted   \* auxiliary: where the first of them interrupted

fields == <<alarm_flag, alarm_ticks, alarm_ticks_left, saved_tf>>
ghosts == <<asked, elapsed, depth, interrupted>>
vars == <<fields, ctx, alive, ghosts>>

Context == [code : {"main", "handler"}, reg : Reg]
MaxInterval == CHOOSE n \in Interval : \A m \in Interval : m <= n

TypeOK ==
  /\ alarm_flag \in BOOLEAN
  /\ alarm_ticks \in Interval
  /\ alarm_ticks_left \in -MaxIdle .. MaxInterval
  /\ saved_tf \in Context /\ ctx \in Context /\ interrupted \in Context
  /\ alive \in BOOLEAN
  /\ asked \in Interval
  /\ elapsed \in 0 .. MaxInterval
  /\ depth \in 0 .. MaxDepth

\* The slot is fresh from boot; its first process is in its main code.
Init ==
  /\ alarm_flag = FALSE /\ alarm_ticks = 0 /\ alarm_ticks_left = 0
  /\ ctx \in [code : {"main"}, reg : Reg]
  /\ saved_tf = ctx /\ interrupted = ctx
  /\ alive = TRUE
  /\ asked = 0 /\ elapsed = 0 /\ depth = 0

-----------------------------------------------------------------------------

\* The program computes.
Compute(r) ==
  /\ alive
  /\ ctx' = [ctx EXCEPT !.reg = r]
  /\ UNCHANGED <<fields, alive, ghosts>>

\* sys_sigalarm(n, handler); sigalarm(0, 0) stops the alarm.
Sigalarm(n) ==
  /\ alive
  /\ ctx.code = "handler" => n = 0 \/ Rearms
  /\ alarm_ticks' = n
  /\ alarm_ticks_left' = n
  /\ alarm_flag' = FALSE
  /\ asked' = n /\ elapsed' = 0
  /\ UNCHANGED <<saved_tf, ctx, alive, depth, interrupted>>

\* usertrap() on a timer interrupt, while a handler runs: only yield().
TickInHandler ==
  /\ alive /\ alarm_flag
  /\ UNCHANGED vars

\* usertrap() on a timer interrupt, one tick less but not 0.
TickCounts ==
  /\ alive /\ ~alarm_flag
  /\ alarm_ticks_left # 1 /\ alarm_ticks_left > -MaxIdle
  /\ alarm_ticks_left' = alarm_ticks_left - 1
  /\ elapsed' = IF asked > 0 THEN elapsed + 1 ELSE 0
  /\ UNCHANGED <<alarm_flag, alarm_ticks, saved_tf, ctx, alive, asked, depth,
                 interrupted>>

\* The auxiliary variables when a handler starts.
Starts ==
  /\ elapsed' = 0
  /\ depth' = depth + 1
  /\ interrupted' = IF depth = 0 THEN ctx ELSE interrupted
  /\ UNCHANGED asked

\* Mutant of TickFires: the flag is not set.
TickFiresNoFlag ==
  /\ alive /\ ~alarm_flag
  /\ alarm_ticks_left = 1 /\ depth < MaxDepth
  /\ saved_tf' = ctx
  /\ alarm_ticks_left' = alarm_ticks
  /\ ctx' = [ctx EXCEPT !.code = "handler"]
  /\ Starts
  /\ UNCHANGED <<alarm_flag, alarm_ticks, alive>>

\* Mutant of TickFires: the trapframe is saved after epc was changed.
TickFiresSavesLate ==
  /\ alive /\ ~alarm_flag
  /\ alarm_ticks_left = 1 /\ depth < MaxDepth
  /\ alarm_flag' = TRUE
  /\ saved_tf' = [ctx EXCEPT !.code = "handler"]
  /\ alarm_ticks_left' = alarm_ticks
  /\ ctx' = [ctx EXCEPT !.code = "handler"]
  /\ Starts
  /\ UNCHANGED <<alarm_ticks, alive>>

\* usertrap() on the last tick: the context is saved in a new page, and the
\* handler is what the process returns to.
TickFires ==
  /\ alive /\ ~alarm_flag
  /\ alarm_ticks_left = 1 /\ depth < MaxDepth
  /\ alarm_flag' = TRUE
  /\ saved_tf' = ctx
  /\ alarm_ticks_left' = alarm_ticks
  /\ ctx' = [ctx EXCEPT !.code = "handler"]
  /\ Starts
  /\ UNCHANGED <<alarm_ticks, alive>>

\* Mutant of Sigreturn: the flag is not cleared.
SigreturnKeepsFlag ==
  /\ alive /\ ctx.code = "handler"
  /\ ctx' = saved_tf
  /\ depth' = depth - 1
  /\ UNCHANGED <<fields, alive, asked, elapsed, interrupted>>

\* sys_sigreturn(): the context saved last is the context again.
Sigreturn ==
  /\ alive /\ ctx.code = "handler"
  /\ ctx' = saved_tf
  /\ alarm_flag' = FALSE
  /\ depth' = depth - 1
  /\ UNCHANGED <<alarm_ticks, alarm_ticks_left, saved_tf, alive, asked, elapsed,
                 interrupted>>

\* exit() and freeproc(), which leave the alarm fields as they are.
Exit ==
  /\ alive
  /\ asked = 0 \/ ExitsArmed
  /\ alive' = FALSE
  /\ asked' = 0 /\ elapsed' = 0 /\ depth' = 0
  /\ UNCHANGED <<fields, ctx, interrupted>>

\* allocproc() for the next process of the slot, in its main code.
Allocproc(r) ==
  /\ ~alive
  /\ alive' = TRUE
  /\ alarm_flag' = FALSE
  /\ ctx' = [code |-> "main", reg |-> r]
  /\ interrupted' = ctx'
  /\ UNCHANGED <<alarm_ticks, alarm_ticks_left, saved_tf, asked, elapsed, depth>>

Tick == TickInHandler \/ TickCounts \/ TickFires

Next ==
  \/ Tick \/ Sigreturn \/ Exit
  \/ \E r \in Reg : Compute(r) \/ Allocproc(r)
  \/ \E n \in Interval : Sigalarm(n)

Spec == Init /\ [][Next]_vars

-----------------------------------------------------------------------------
(* Properties *)

\* alarm_flag is there "to prevent reentrant calls to handler": no handler
\* starts before the one before it has finished (and all values have their
\* types).
NoReentry == TypeOK /\ depth <= 1

\* "after every n ticks of CPU time that the program consumes": a handler
\* starts only in a process that asked for it, at the n-th tick.  "When fn
\* returns, the application will resume where it left off", with the registers
\* it had.
HandlerContract ==
  [][/\ depth' > depth => asked # 0 /\ elapsed + 1 = asked
     /\ depth = 1 /\ depth' = 0 /\ alive' => ctx' = interrupted]_vars

\* A process that leaves its alarm alone has its handler called again and
\* again.
KeepsFiring ==
  /\ <>[](alive /\ asked # 0)
  /\ <>[][\A n \in Interval : ~Sigalarm(n)]_vars
  => []<>(depth > 0)
=============================================================================
