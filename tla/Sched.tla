------------------------------- MODULE Sched -------------------------------
(***************************************************************************)
(* scheduler() of kernel/proc.c with each value of SCHEDULING_ALGO: round  *)
(* robin, first come first served, priorities, lottery.  Each CPU scans    *)
(* proc[]; RR and the lottery run a process where they find it, FCFS and   *)
(* priorities keep the lock of the best one so far and run it at the end.  *)
(* Processes start, sleep, wake, exit and are preempted meanwhile.  One    *)
(* step per p->lock taken.  What an algorithm does not read stays at its   *)
(* initial value in its runs.                                              *)
(***************************************************************************)
EXTENDS Lehmer, FiniteSets, FiniteSetsExt

CONSTANTS NCPU,
          NPROC,
          StaticPriority, \* what set_priority() is called with
          NanNiceness,    \* what the build makes of (int)(0.0f/0) * 10
          MaxTicks        \* bound: ticks under FCFS

ASSUME SchedAssumption ==
  /\ NCPU \in Nat \ {0} /\ NPROC \in Nat \ {0} /\ MaxTicks \in Nat
  /\ StaticPriority \subseteq Int /\ 60 \in StaticPriority
  /\ NanNiceness \in Int

VARIABLES algo,       \* SCHEDULING_ALGO
          state, ctime, static_priority, tickets,  \* struct proc
          times,      \* sleep_time and rtime: both 0, only sleep_time not 0,
                      \* or rtime not 0
          ticks,      \* modulo the seeds under LBS
          plock,      \* CPU that holds p->lock across steps
          idx,        \* p of the scan; NPROC + 1 at its end
          best, min,  \* the candidate and its creation time or priority
          running,    \* c->proc
          looked,     \* LBS: slots looked at since the last tick
          panicked,   \* "LBS: success probability out of bounds"
          since       \* auxiliary: RUNNABLE and unchanged since the scan began

procs == <<state, ctime, static_priority, tickets, times>>
scan == <<idx, best, min>>
vars == <<algo, procs, ticks, plock, scan, running, looked, panicked, since>>

Slot == 1 .. NPROC
NoProc == 0
NoCpu == NCPU
Priority == 0 .. 100
Seeds == Modulus - 2

\* The Makefile builds the lottery scheduler for one CPU.
CPU == IF algo = "LBS" THEN {0} ELSE 0 .. NCPU - 1

TypeOK ==
  /\ algo \in {"RR", "FCFS", "PBS", "LBS"}
  /\ state \in [Slot -> {"UNUSED", "SLEEPING", "RUNNABLE", "RUNNING"}]
  /\ ctime \in [Slot -> 0 .. MaxTicks]
  /\ static_priority \in [Slot -> StaticPriority]
  /\ tickets \in [Slot -> 1 .. NPROC]
  /\ times \in [Slot -> {"none", "slept", "ran"}]
  /\ ticks \in 0 .. IF algo = "LBS" THEN Seeds - 1 ELSE MaxTicks
  /\ plock \in [Slot -> 0 .. NCPU]
  /\ idx \in [CPU -> 1 .. NPROC + 1]
  /\ best \in [CPU -> Slot \cup {NoProc}]
  /\ min \in [CPU -> Priority \cup (0 .. MaxTicks)]
  /\ running \in [CPU -> Slot \cup {NoProc}]
  /\ looked \in 0 .. NPROC
  /\ panicked \in BOOLEAN
  /\ since \in [CPU -> SUBSET Slot]

\* userinit() has made the first process; every CPU begins to scan.
Init ==
  /\ algo \in {"RR", "FCFS", "PBS", "LBS"}
  /\ state = [p \in Slot |-> IF p = 1 THEN "RUNNABLE" ELSE "UNUSED"]
  /\ ctime = [p \in Slot |-> 0]
  /\ static_priority = [p \in Slot |-> 60]
  /\ tickets = [p \in Slot |-> 1]
  /\ times = [p \in Slot |-> "none"]
  /\ ticks = 0
  /\ plock = [p \in Slot |-> NoCpu]
  /\ idx = [c \in CPU |-> 1]
  /\ best = [c \in CPU |-> NoProc] /\ min = [c \in CPU |-> 0]
  /\ running = [c \in CPU |-> NoProc]
  /\ looked = 0 /\ panicked = FALSE
  /\ since = [c \in CPU |-> {1}]

-----------------------------------------------------------------------------
(* The criteria *)

\* (int)((float)sleep_time / (sleep_time + rtime)) * 10: the cast comes
\* first.
Niceness(p) ==
  CASE times[p] = "none" -> NanNiceness
    [] times[p] = "slept" -> 10
    [] times[p] = "ran" -> 0

\* dp of the scheduler, clamped to 0 .. 100.
DynamicPriority(p) ==
  LET dp == static_priority[p] - Niceness(p) + 5 IN
  CASE dp < 0 -> 0 [] dp > 100 -> 100 [] OTHER -> dp

Key(p) == IF algo = "PBS" THEN DynamicPriority(p) ELSE ctime[p]

Runnable == {p \in Slot : state[p] = "RUNNABLE"}

total_tickets == MapThenSumSet(LAMBDA p : tickets[p], Runnable)

\* success_probability of p is below 0 or above 1.
OutOfBounds(p) == tickets[p] < 0 \/ tickets[p] > total_tickets

\* Mutant of is_the_process_lucky: the probability in integers.
LuckyInIntegers(p) ==
  custom_random(ticks % Seeds) < (tickets[p] \div total_tickets) * Seeds

\* is_the_process_lucky(tickets[p] / total_tickets)
is_the_process_lucky(p) ==
  custom_random(ticks % Seeds) * total_tickets < tickets[p] * Seeds

\* What stays RUNNABLE with an unchanged key from the start of c's scan.
Observe ==
  since' = [c \in CPU |->
              IF idx'[c] = 1 THEN Runnable'
              ELSE {p \in since[c] : state'[p] = "RUNNABLE"
                                     /\ Key(p)' = Key(p)}]

-----------------------------------------------------------------------------
(* The scan *)

\* CPU c takes p->lock and finds p better than its candidate, or not.
Looks(c, p) ==
  /\ algo \in {"FCFS", "PBS"}
  /\ running[c] = NoProc /\ p \in Slot
  /\ plock[p] = NoCpu
  /\ idx' = [idx EXCEPT ![c] = p + 1]
  /\ UNCHANGED <<algo, procs, ticks, running, looked, panicked>>

Candidate(c, p, better) ==
  /\ best' = [best EXCEPT ![c] = IF better THEN p ELSE @]
  /\ min' = [min EXCEPT ![c] = IF better THEN Key(p) ELSE @]

\* Locks when p takes the place of old as a candidate of c.
Replace(c, p, old) ==
  plock' = [q \in Slot |-> CASE q = p -> c [] q = old -> NoCpu [] OTHER -> plock[q]]

\* Mutant of ScanSlot: the candidate's lock is released like the others'.
ScanSlotUnlocks(c) ==
  LET p == idx[c]
      better == state[p] = "RUNNABLE" /\ (best[c] = NoProc \/ Key(p) < min[c])
  IN
  Looks(c, p) /\ Candidate(c, p, better) /\ UNCHANGED plock /\ Observe

\* One iteration under FCFS and PBS: a better process becomes the candidate,
\* and stays locked; the former one is unlocked.
ScanSlot(c) ==
  LET p == idx[c]
      better == state[p] = "RUNNABLE" /\ (best[c] = NoProc \/ Key(p) < min[c])
  IN
  /\ Looks(c, p) /\ Candidate(c, p, better)
  /\ IF better THEN Replace(c, p, best[c]) ELSE UNCHANGED plock
  /\ Observe

\* The scan is over and found nothing.
Rescan(c) ==
  /\ running[c] = NoProc /\ idx[c] = NPROC + 1
  /\ best[c] = NoProc
  /\ idx' = [idx EXCEPT ![c] = 1]
  /\ UNCHANGED <<algo, procs, ticks, plock, best, min, running, looked, panicked>>
  /\ Observe

\* swtch() to the candidate, which releases its lock and goes on.
Dispatch(c) ==
  LET p == best[c] IN
  /\ running[c] = NoProc /\ idx[c] = NPROC + 1
  /\ p # NoProc
  /\ state' = [state EXCEPT ![p] = "RUNNING"]
  /\ running' = [running EXCEPT ![c] = p]
  /\ plock' = [plock EXCEPT ![p] = NoCpu]
  /\ idx' = [idx EXCEPT ![c] = 1]
  /\ best' = [best EXCEPT ![c] = NoProc]
  /\ min' = [min EXCEPT ![c] = 0]
  /\ UNCHANGED <<algo, ctime, static_priority, tickets, times, ticks, looked,
                 panicked>>
  /\ Observe

\* One iteration under RR and LBS: a RUNNABLE process, if it is lucky, is
\* switched to at once, and the scan goes on behind it later.
RunSlot(c) ==
  LET p == idx[c]
      ready == state[p] = "RUNNABLE"
      panics == ready /\ algo = "LBS" /\ OutOfBounds(p)
      runs == ready /\ ~panics /\ (algo = "LBS" => is_the_process_lucky(p))
  IN
  /\ algo \in {"RR", "LBS"} /\ ~panicked
  /\ running[c] = NoProc /\ plock[p] = NoCpu
  /\ panicked' = panics
  /\ state' = IF runs THEN [state EXCEPT ![p] = "RUNNING"] ELSE state
  /\ running' = IF runs THEN [running EXCEPT ![c] = p] ELSE running
  /\ idx' = [idx EXCEPT ![c] = IF p = NPROC THEN 1 ELSE p + 1]
  /\ looked' = IF algo = "LBS" /\ looked < NPROC THEN looked + 1 ELSE looked
  /\ UNCHANGED <<algo, ctime, static_priority, tickets, times, ticks, plock, best,
                 min>>
  /\ Observe

-----------------------------------------------------------------------------
(* The processes and the timer *)

\* The process on c takes its lock, changes its state and switches back to
\* the scheduler, which unlocks it.
Leave(c, s) ==
  LET p == running[c] IN
  /\ p # NoProc
  /\ plock[p] = NoCpu
  /\ state' = [state EXCEPT ![p] = s]
  /\ running' = [running EXCEPT ![c] = NoProc]
  /\ UNCHANGED <<algo, ticks, plock, scan, looked, panicked>>

Keeps == UNCHANGED <<ctime, static_priority, tickets, times>>

\* yield(), on a timer interrupt.
Yield(c) == Leave(c, "RUNNABLE") /\ Keeps /\ Observe

Sleep(c) == Leave(c, "SLEEPING") /\ Keeps /\ Observe

\* exit(), and the parent's wait(); init does not exit.  What Create sets again
\* before it is read is forgotten.
Exit(c) ==
  LET p == running[c] IN
  /\ p # 1 /\ Leave(c, "UNUSED")
  /\ ctime' = [ctime EXCEPT ![p] = 0]
  /\ static_priority' = [static_priority EXCEPT ![p] = 60]
  /\ tickets' = [tickets EXCEPT ![p] = 1]
  /\ times' = [times EXCEPT ![p] = "none"]
  /\ Observe

\* wakeup() of p, which has slept for ticks or not.
Wake(p, counts) ==
  /\ state[p] = "SLEEPING" /\ plock[p] = NoCpu
  /\ state' = [state EXCEPT ![p] = "RUNNABLE"]
  /\ times' = [times EXCEPT ![p] = IF counts /\ @ = "none" THEN "slept" ELSE @]
  /\ UNCHANGED <<algo, ctime, static_priority, tickets, ticks, plock, scan, running,
                 looked, panicked>>
  /\ Observe

\* fork(): allocproc() gives p its defaults, p becomes RUNNABLE.  A slot
\* before p may have become UNUSED since allocproc() passed it.
Create(p) ==
  /\ state[p] = "UNUSED" /\ plock[p] = NoCpu
  /\ \E c \in CPU : running[c] # NoProc
  /\ state' = [state EXCEPT ![p] = "RUNNABLE"]
  /\ ctime' = [ctime EXCEPT ![p] = IF algo = "FCFS" THEN ticks ELSE 0]
  /\ static_priority' = [static_priority EXCEPT ![p] = 60]
  /\ tickets' = [tickets EXCEPT ![p] = 1]
  /\ times' = [times EXCEPT ![p] = "none"]
  /\ UNCHANGED <<algo, ticks, plock, scan, running, looked, panicked>>
  /\ Observe

\* set_priority(n, pid), for the process in slot p.
SetPriority(p, n) ==
  /\ state[p] # "UNUSED" /\ plock[p] = NoCpu
  /\ static_priority' = [static_priority EXCEPT ![p] = n]
  /\ UNCHANGED <<algo, state, ctime, tickets, times, ticks, plock, scan, running,
                 looked, panicked>>
  /\ Observe

\* sys_settickets(number, pid) by the process on c calls settickets(pid,
\* number), which gives the caller pid tickets.
SetTickets(c, number, pid) ==
  /\ running[c] # NoProc
  /\ tickets' = [tickets EXCEPT ![running[c]] = pid]
  /\ UNCHANGED <<algo, state, ctime, static_priority, times, ticks, plock, scan,
                 running, looked, panicked>>
  /\ Observe

\* clockintr().  A scan takes less than the 100 ms between two ticks.
Tick ==
  /\ CASE algo = "FCFS" -> ticks < MaxTicks /\ ticks' = ticks + 1 /\ looked' = 0
       [] algo = "LBS" -> /\ looked = NPROC \/ running[0] # NoProc
                          /\ ticks' = (ticks + 1) % Seeds
                          /\ looked' = 0
       [] OTHER -> UNCHANGED <<ticks, looked>>
  /\ times' = [p \in Slot |-> IF algo = "PBS" /\ state[p] = "RUNNING" THEN "ran"
                              ELSE times[p]]
  /\ UNCHANGED <<algo, state, ctime, static_priority, tickets, plock, scan, running,
                 panicked>>
  /\ Observe

CpuStep(c) ==
  \/ ScanSlot(c) \/ Rescan(c) \/ Dispatch(c) \/ RunSlot(c)
  \/ Yield(c) \/ Sleep(c) \/ Exit(c)

ProcStep(p) ==
  \/ \E counts \in IF algo = "PBS" THEN BOOLEAN ELSE {FALSE} : Wake(p, counts)
  \/ Create(p)
  \/ algo = "PBS" /\ \E n \in StaticPriority : SetPriority(p, n)
  \/ algo = "LBS" /\ SetTickets(0, 10, p)

Next == (\E c \in CPU : CpuStep(c)) \/ (\E p \in Slot : ProcStep(p)) \/ Tick

\* A CPU goes on with its scan, and gets a lock that is free again and again;
\* the timer ticks and interrupts whatever runs.
Fairness ==
  /\ \A c \in 0 .. NCPU - 1 :
       SF_vars(/\ c \in CPU
               /\ ScanSlot(c) \/ RunSlot(c) \/ Rescan(c) \/ Dispatch(c) \/ Yield(c))
  /\ WF_vars(Tick)

Spec == Init /\ [][Next]_vars
LiveSpec == Spec /\ Fairness

-----------------------------------------------------------------------------
(* Properties *)

\* All values have their types; no process runs on two CPUs, and one is
\* RUNNING only while a CPU runs it.  "we don't release its lock, so that its
\* parameters do not change": the candidate stays RUNNABLE with the rank it had
\* when it was chosen.  A finished scan has found the best of the processes that
\* were RUNNABLE all along, the first in proc[] of equals.
PicksTheBest ==
  /\ TypeOK
  /\ \A c, d \in CPU : running[c] # NoProc /\ running[c] = running[d] => c = d
  /\ \A p \in Slot : state[p] = "RUNNING" <=> \E c \in CPU : running[c] = p
  /\ \A c \in CPU :
       /\ best[c] # NoProc => state[best[c]] = "RUNNABLE" /\ Key(best[c]) = min[c]
       /\ idx[c] = NPROC + 1 /\ running[c] = NoProc =>
            \A q \in since[c] :
              /\ best[c] # NoProc
              /\ \/ Key(best[c]) < Key(q)
                 \/ Key(best[c]) = Key(q) /\ best[c] <= q

\* No scan is stuck: CPUs that hold a candidate's lock while they take the
\* next never wait for each other in a circle, and under the lottery somebody
\* gets lucky at some tick and its panic, which would stop everything, is
\* unreachable.  While processes are RUNNABLE, one comes to run.
SomebodyRuns == Runnable # {} ~> \E p \in Slot : state[p] = "RUNNING"
=============================================================================
