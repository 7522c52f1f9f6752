------------------------------- MODULE Clock -------------------------------
(***************************************************************************)
(* Ticks and the times of a process: clockintr() and update_time(), which  *)
(* hart Timer runs slot by slot while the other harts go on, the creation, *)
(* exit, running and sleeping times in proc.c, waitx() and sys_sleep().    *)
(* One step per p->lock taken; counters have the width of a C uint.        *)
(***************************************************************************)
EXTENDS Integers, FiniteSets

CONSTANTS Hart, Timer,   \* the harts, and the one with cpuid() = 0
          NPROC,
          UINT,          \* number of values of a uint, 2^32 in the code
          MaxSleep       \* bound: argument of sleep()

ASSUME ClockAssumption ==
  /\ Timer \in Hart
  /\ NPROC \in Nat \ {0}
  /\ UINT \in Nat /\ MaxSleep \in Nat /\ MaxSleep < UINT

VARIABLES ticks,
          pos,       \* in clockintr(): 1 .. NPROC in update_time(), the next
                     \* NPROC in wakeup(); 0 outside
          running,   \* c->proc
          state, killed, ctime, etime, rtime, sleep_time,
          started,   \* when_started_sleeping; 0 when it is not read again
          call,      \* what a process does
          n, ticks0, \* locals of sys_sleep()
          np         \* local of fork()

times == <<ctime, etime, rtime, sleep_time, started>>
locals == <<call, n, ticks0, np>>
vars == <<ticks, pos, running, state, killed, times, locals>>

Slot == 1 .. NPROC
NoProc == 0
Uint(x) == x % UINT

TypeOK ==
  /\ ticks \in 0 .. UINT - 1
  /\ pos \in 0 .. 2 * NPROC
  /\ running \in [Hart -> Slot \cup {NoProc}]
  /\ state \in [Slot -> {"UNUSED", "USED", "SLEEPING", "RUNNABLE", "RUNNING", "ZOMBIE"}]
  /\ killed \in [Slot -> BOOLEAN]
  /\ \A f \in {ctime, etime, rtime, sleep_time, started} :
       f \in [Slot -> 0 .. UINT - 1]
  /\ call \in [Slot -> {"user", "fork", "sleep", "sleeps"}]
  /\ np \in [Slot -> Slot \cup {NoProc}]
  /\ n \in [Slot -> 0 .. MaxSleep]
  /\ ticks0 \in [Slot -> 0 .. UINT - 1]

\* Any tick count; the first process is about to run.
Init ==
  /\ ticks \in {0, UINT - 1}
  /\ pos = 0
  /\ running = [c \in Hart |-> NoProc]
  /\ state = [p \in Slot |-> IF p = 1 THEN "RUNNABLE" ELSE "UNUSED"]
  /\ killed = [p \in Slot |-> FALSE]
  /\ ctime = [p \in Slot |-> ticks]
  /\ etime = [p \in Slot |-> 0] /\ rtime = [p \in Slot |-> 0]
  /\ sleep_time = [p \in Slot |-> 0] /\ started = [p \in Slot |-> 0]
  /\ call = [p \in Slot |-> "user"]
  /\ n = [p \in Slot |-> 0] /\ ticks0 = [p \in Slot |-> 0]
  /\ np = [p \in Slot |-> NoProc]

-----------------------------------------------------------------------------

Live(p) == state[p] \notin {"UNUSED", "ZOMBIE"}
Life(p) == Uint(ticks - ctime[p])

\* Hart c is not in clockintr().
Free(c) == c # Timer \/ pos = 0

\* Process p runs on a hart that executes its code.
Acts(p) == \E c \in Hart : running[c] = p /\ Free(c)

\* tickslock is held throughout clockintr(), and across SleepCheck and SleepOn.
TicksUnlocked == pos = 0 /\ \A p \in Slot : call[p] # "sleeps"

\* clockintr() takes tickslock and counts.  Bound: no process lives for UINT
\* ticks.
Tick ==
  /\ TicksUnlocked
  /\ \A p \in Slot : Live(p) => Life(p) < UINT - 1
  /\ ticks' = Uint(ticks + 1)
  /\ pos' = 1
  /\ UNCHANGED <<running, state, killed, times, locals>>

\* One iteration of update_time().
UpdateTime ==
  /\ pos \in 1 .. NPROC
  /\ rtime' = [rtime EXCEPT ![pos] = IF state[pos] = "RUNNING" THEN Uint(@ + 1)
                                     ELSE @]
  /\ pos' = pos + 1
  /\ UNCHANGED <<ticks, running, state, killed, ctime, etime, sleep_time,
                 started, locals>>

\* One iteration of wakeup(&ticks); tickslock is released after the last.
\* myproc(), which wakeup() passes over, is RUNNING.
WakeTicks ==
  LET p == pos - NPROC
      wakes == state[p] = "SLEEPING" /\ call[p] = "sleep"
  IN
  /\ pos > NPROC
  /\ state' = [state EXCEPT ![p] = IF wakes THEN "RUNNABLE" ELSE @]
  /\ sleep_time' = [sleep_time EXCEPT
       ![p] = IF wakes THEN Uint(@ + ticks - started[p]) ELSE @]
  /\ started' = [started EXCEPT ![p] = IF wakes THEN 0 ELSE @]
  /\ pos' = IF p = NPROC THEN 0 ELSE pos + 1
  /\ UNCHANGED <<ticks, running, killed, ctime, etime, rtime, locals>>

\* scheduler() on hart c.
Dispatch(c, p) ==
  /\ Free(c) /\ running[c] = NoProc
  /\ state[p] = "RUNNABLE"
  /\ state' = [state EXCEPT ![p] = "RUNNING"]
  /\ running' = [running EXCEPT ![c] = p]
  /\ UNCHANGED <<ticks, pos, killed, times, locals>>

\* p changes its state and switches to its hart's scheduler.
Leave(p, s) ==
  /\ state' = [state EXCEPT ![p] = s]
  /\ running' = [c \in Hart |-> IF running[c] = p THEN NoProc ELSE running[c]]

Yield(p) ==
  /\ Acts(p) /\ call[p] # "sleeps" /\ Leave(p, "RUNNABLE")
  /\ UNCHANGED <<ticks, pos, killed, times, locals>>

\* Mutant of Allocproc: the slot's last running time stays.
AllocprocKeepsTime(p, q) ==
  /\ Acts(p) /\ call[p] = "user"
  /\ state[q] = "UNUSED"
  /\ state' = [state EXCEPT ![q] = "USED"]
  /\ ctime' = [ctime EXCEPT ![q] = ticks]
  /\ call' = [call EXCEPT ![p] = "fork"] /\ np' = [np EXCEPT ![p] = q]
  /\ UNCHANGED <<ticks, pos, running, killed, etime, rtime, sleep_time, started,
                 n, ticks0>>

\* fork() by p: allocproc() of slot q.
Allocproc(p, q) ==
  /\ Acts(p) /\ call[p] = "user"
  /\ state[q] = "UNUSED"
  /\ state' = [state EXCEPT ![q] = "USED"]
  /\ ctime' = [ctime EXCEPT ![q] = ticks]
  /\ etime' = [etime EXCEPT ![q] = 0]
  /\ rtime' = [rtime EXCEPT ![q] = 0]
  /\ sleep_time' = [sleep_time EXCEPT ![q] = 0]
  /\ call' = [call EXCEPT ![p] = "fork"] /\ np' = [np EXCEPT ![p] = q]
  /\ UNCHANGED <<ticks, pos, running, killed, started, n, ticks0>>

\* The last part of fork().
ForkEnds(p) ==
  /\ Acts(p) /\ call[p] = "fork"
  /\ state' = [state EXCEPT ![np[p]] = "RUNNABLE"]
  /\ call' = [call EXCEPT ![p] = "user"] /\ np' = [np EXCEPT ![p] = NoProc]
  /\ UNCHANGED <<ticks, pos, running, killed, times, n, ticks0>>

Exit(p) ==
  /\ Acts(p) /\ p # 1 /\ call[p] = "user"
  /\ Leave(p, "ZOMBIE")
  /\ etime' = [etime EXCEPT ![p] = ticks]
  /\ UNCHANGED <<ticks, pos, killed, ctime, rtime, sleep_time, started, locals>>

\* wtime of waitx(): pp->etime - pp->ctime - pp->rtime.
WaitTime(q) == Uint(etime[q] - ctime[q] - rtime[q])

\* waitx() by the first process reports the times of q and frees it.  Its
\* etime, which allocproc() sets again before it is read, is forgotten.
Waitx(q) ==
  /\ Acts(1) /\ call[1] = "user" /\ state[q] = "ZOMBIE"
  /\ state' = [state EXCEPT ![q] = "UNUSED"]
  /\ killed' = [killed EXCEPT ![q] = FALSE]
  /\ etime' = [etime EXCEPT ![q] = 0]
  /\ UNCHANGED <<ticks, pos, running, ctime, rtime, sleep_time, started, locals>>

\* sys_sleep(k) reads ticks under tickslock.
SysSleep(p, k) ==
  /\ Acts(p) /\ call[p] = "user" /\ TicksUnlocked
  /\ call' = [call EXCEPT ![p] = "sleep"]
  /\ n' = [n EXCEPT ![p] = k]
  /\ ticks0' = [ticks0 EXCEPT ![p] = ticks]
  /\ UNCHANGED <<ticks, pos, running, state, killed, times, np>>

\* The loop of sys_sleep() finds its time not come and no kill ...
SleepCheck(p) ==
  /\ Acts(p) /\ call[p] = "sleep" /\ TicksUnlocked
  /\ Uint(ticks - ticks0[p]) < n[p] /\ ~killed[p]
  /\ call' = [call EXCEPT ![p] = "sleeps"]
  /\ UNCHANGED <<ticks, pos, running, state, killed, times, n, ticks0, np>>

\* ... and sleeps, still under tickslock ...
SleepOn(p) ==
  /\ Acts(p) /\ call[p] = "sleeps"
  /\ call' = [call EXCEPT ![p] = "sleep"]
  /\ started' = [started EXCEPT ![p] = ticks]
  /\ Leave(p, "SLEEPING")
  /\ UNCHANGED <<ticks, pos, killed, ctime, etime, rtime, sleep_time, n, ticks0,
                 np>>

\* ... or returns 0 or -1.
SleepReturns(p) ==
  /\ Acts(p) /\ call[p] = "sleep" /\ TicksUnlocked
  /\ Uint(ticks - ticks0[p]) >= n[p] \/ killed[p]
  /\ call' = [call EXCEPT ![p] = "user"]
  /\ n' = [n EXCEPT ![p] = 0] /\ ticks0' = [ticks0 EXCEPT ![p] = 0]
  /\ UNCHANGED <<ticks, pos, running, state, killed, times, np>>

\* kill() of q by p wakes it without counting the sleep.
Kill(p, q) ==
  /\ Acts(p) /\ call[p] = "user" /\ p # q /\ Live(q) /\ ~killed[q]
  /\ killed' = [killed EXCEPT ![q] = TRUE]
  /\ state' = [state EXCEPT ![q] = IF @ = "SLEEPING" THEN "RUNNABLE" ELSE @]
  /\ started' = [started EXCEPT ![q] = 0]
  /\ UNCHANGED <<ticks, pos, running, ctime, etime, rtime, sleep_time, locals>>

ClockIntr == Tick \/ UpdateTime \/ WakeTicks

ProcStep(p) ==
  \/ Yield(p) \/ Exit(p) \/ ForkEnds(p)
  \/ \E q \in Slot : Allocproc(p, q) \/ Kill(p, q)
  \/ \E k \in 0 .. MaxSleep : SysSleep(p, k)
  \/ SleepCheck(p) \/ SleepOn(p) \/ SleepReturns(p)

Next ==
  \/ ClockIntr
  \/ \E c \in Hart, p \in Slot : Dispatch(c, p)
  \/ \E p \in Slot : ProcStep(p)
  \/ \E q \in Slot : Waitx(q)

Spec == Init /\ [][Next]_vars

-----------------------------------------------------------------------------
(* Properties *)

\* A process may be created, or start to run, on another hart in the middle
\* of a tick, and is charged all of it.
Slack == IF Cardinality(Hart) > 1 THEN 1 ELSE 0

\* All values have their types; the times of a process do not overlap: what
\* update_time() and wakeup() have counted as running and as sleeping fits in
\* its lifetime, and waitx() reports a waiting time that covers all its
\* sleep, but for the tick of its creation.  Nobody oversleeps, also when ticks
\* wraps: outside clockintr() who is asleep in sys_sleep() went to sleep at this
\* very tick, before its time, and a kill that came too late for its check is
\* noticed at the next tick.
TimesFit ==
  /\ TypeOK
  /\ \A p \in Slot : pos = 0 =>
       /\ Live(p) => rtime[p] + sleep_time[p] <= Life(p) + Slack
       /\ state[p] = "ZOMBIE" => sleep_time[p] <= WaitTime(p) + Slack
       /\ state[p] = "SLEEPING" =>
            started[p] = ticks /\ Uint(ticks - ticks0[p]) < n[p]
=============================================================================
