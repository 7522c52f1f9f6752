-------------------------------- MODULE Proc --------------------------------
(***************************************************************************)
(* kernel/proc.c: the process table, the context switch between a process  *)
(* and its CPU's scheduler (round robin, SCHEDULING_ALGO 0), fork, exit,   *)
(* wait, kill, sleep and wakeup, on several CPUs, with timer interrupts    *)
(* wherever the code leaves them enabled.                                  *)
(*                                                                         *)
(* A critical section of p->lock that starts and ends in one function is   *)
(* one step.  p->lock is explicit where it is held across a context        *)
(* switch, and wait_lock where it is held across a scan of the table: the  *)
(* two windows the code's own comments worry about.  Every iteration of a  *)
(* loop over proc[] is a step.                                             *)
(***************************************************************************)
EXTENDS Naturals, FiniteSets

CONSTANTS CPU,      \* the harts
          NPROC,    \* slots of proc[]; slot 1 is initproc
          NoCpu,    \* a free lock
          MaxPid,   \* bound: fork is not called once nextpid exceeds it
          KillPid   \* the pids processes pass to kill()

ASSUME ProcAssumption ==
  /\ NPROC \in Nat \ {0} /\ MaxPid \in Nat /\ KillPid \subseteq Nat
  /\ NoCpu \notin CPU

VARIABLES state, chan, killed, pid, parent,   \* struct proc
          nextpid,
          plock,      \* CPU that holds each p->lock
          wlock,      \* CPU that holds wait_lock
          cproc,      \* c->proc
          on,         \* whose kernel stack each CPU runs on; 0: scheduler()
          sidx,       \* p of scheduler()'s loop
          kpc,        \* where the process's kernel thread is
          sw,         \* the function that called sched(), or "none"
          ki, kj,     \* loop variables of the thread
          knp,        \* np of fork()
          kids,       \* havekids of wait()
          kpid        \* argument of kill()

table == <<state, chan, killed, pid, parent, nextpid>>
locks == <<plock, wlock>>
cpus == <<cproc, on, sidx>>
locals == <<ki, kj, knp, kids, kpid>>
vars == <<table, locks, cpus, kpc, sw, locals>>

Slot == 1 .. NPROC
NoProc == 0
initproc == 1

TypeOK ==
  /\ state \in [Slot -> {"UNUSED", "USED", "SLEEPING", "RUNNABLE", "RUNNING",
                         "ZOMBIE"}]
  /\ chan \in [Slot -> Slot \cup {NoProc}]
  /\ killed \in [Slot -> BOOLEAN]
  /\ pid \in [Slot -> Nat]
  /\ parent \in [Slot -> Slot \cup {NoProc}]
  /\ nextpid \in Nat
  /\ plock \in [Slot -> CPU \cup {NoCpu}]
  /\ wlock \in CPU \cup {NoCpu}
  /\ cproc \in [CPU -> Slot \cup {NoProc}]
  /\ on \in [CPU -> Slot \cup {NoProc}]
  /\ sidx \in [CPU -> Slot]
  /\ kpc \in [Slot -> {"user", "trapret", "fork", "setparent", "setrunnable",
                       "exit", "reparent", "wakeinit", "wakeparent", "zombie",
                       "wait", "scan", "havekids", "sleep", "kill"}]
  /\ sw \in [Slot -> {"none", "forkret", "yield", "sleep", "exit"}]
  /\ ki \in [Slot -> 1 .. NPROC + 1]
  /\ kj \in [Slot -> 1 .. NPROC + 1]
  /\ knp \in [Slot -> Slot]
  /\ kids \in [Slot -> BOOLEAN]
  /\ kpid \in [Slot -> Nat]

\* After procinit() and userinit(), every hart entering scheduler().
Init ==
  /\ state = [p \in Slot |-> IF p = initproc THEN "RUNNABLE" ELSE "UNUSED"]
  /\ chan = [p \in Slot |-> NoProc]
  /\ killed = [p \in Slot |-> FALSE]
  /\ pid = [p \in Slot |-> IF p = initproc THEN 1 ELSE 0]
  /\ parent = [p \in Slot |-> NoProc]
  /\ nextpid = 2
  /\ plock = [p \in Slot |-> NoCpu]
  /\ wlock = NoCpu
  /\ cproc = [c \in CPU |-> NoProc]
  /\ on = [c \in CPU |-> NoProc]
  /\ sidx = [c \in CPU |-> 1]
  /\ kpc = [p \in Slot |-> "user"]
  /\ sw = [p \in Slot |-> IF p = initproc THEN "forkret" ELSE "none"]
  /\ ki = [p \in Slot |-> 1]
  /\ kj = [p \in Slot |-> 1]
  /\ knp = [p \in Slot |-> initproc]
  /\ kids = [p \in Slot |-> FALSE]
  /\ kpid = [p \in Slot |-> 0]

Free(p) == plock[p] = NoCpu
Held(c) == {p \in Slot : plock[p] = c}

\* CPU c executes the kernel thread of p, which is not inside sched().
Runs(c, p) == on[c] = p /\ sw[p] = "none"
At(c, p, point) == Runs(c, p) /\ kpc[p] = point
Goto(p, point) == kpc' = [kpc EXCEPT ![p] = point]

-----------------------------------------------------------------------------
(* scheduler() and sched() *)

NextSlot(i) == IF i = NPROC THEN 1 ELSE i + 1

\* scheduler(): acquire(&p->lock); a RUNNABLE process is switched to with its
\* lock held, any other is released.
Scheduler(c) ==
  LET p == sidx[c] IN
  /\ on[c] = NoProc /\ cproc[c] = NoProc
  /\ Free(p)
  /\ IF state[p] = "RUNNABLE"
     THEN /\ plock' = [plock EXCEPT ![p] = c]
          /\ state' = [state EXCEPT ![p] = "RUNNING"]
          /\ cproc' = [cproc EXCEPT ![c] = p]
          /\ on' = [on EXCEPT ![c] = p]
          /\ UNCHANGED sidx
     ELSE /\ sidx' = [sidx EXCEPT ![c] = NextSlot(p)]
          /\ UNCHANGED <<plock, state, cproc, on>>
  /\ UNCHANGED <<chan, killed, pid, parent, nextpid, wlock, kpc, sw, locals>>

\* The scheduler again, after the swtch back.
SchedulerReturn(c) ==
  LET p == sidx[c] IN
  /\ on[c] = NoProc /\ cproc[c] # NoProc
  /\ cproc' = [cproc EXCEPT ![c] = NoProc]
  /\ plock' = [plock EXCEPT ![p] = NoCpu]
  /\ sidx' = [sidx EXCEPT ![c] = NextSlot(p)]
  /\ UNCHANGED <<table, wlock, on, kpc, sw, locals>>

\* sched(): swtch() to the CPU's scheduler.
Sched(c, p) ==
  /\ on[c] = p /\ sw[p] # "none"
  /\ state[p] # "RUNNING"
  /\ on' = [on EXCEPT ![c] = NoProc]
  /\ UNCHANGED <<table, locks, cproc, sidx, kpc, sw, locals>>

\* Mutant of Resume: sleep() leaves p->lock to whoever has it.
ResumeKeepsLock(c, p) ==
  /\ on[c] = p /\ sw[p] \in {"forkret", "yield", "sleep"}
  /\ state[p] = "RUNNING"
  /\ sw' = [sw EXCEPT ![p] = "none"]
  /\ chan' = [chan EXCEPT ![p] = IF sw[p] = "sleep" THEN NoProc ELSE @]
  /\ plock' = [plock EXCEPT ![p] = IF sw[p] = "sleep" THEN @ ELSE NoCpu]
  /\ UNCHANGED <<state, killed, pid, parent, nextpid, wlock, cpus, kpc,
                 locals>>

\* swtch() came back from the scheduler: the ends of yield(), sleep() and
\* forkret(), which release p->lock.
Resume(c, p) ==
  /\ on[c] = p /\ sw[p] \in {"forkret", "yield", "sleep"}
  /\ state[p] = "RUNNING"
  /\ sw' = [sw EXCEPT ![p] = "none"]
  /\ chan' = [chan EXCEPT ![p] = IF sw[p] = "sleep" THEN NoProc ELSE @]
  /\ plock' = [plock EXCEPT ![p] = NoCpu]
  /\ UNCHANGED <<state, killed, pid, parent, nextpid, wlock, cpus, kpc,
                 locals>>

\* A timer interrupt in user code, or in kernel code that holds no lock:
\* yield() up to sched().
Yield(c, p) ==
  /\ Runs(c, p)
  /\ Held(c) = {} /\ wlock # c
  /\ Free(p)
  /\ plock' = [plock EXCEPT ![p] = c]
  /\ state' = [state EXCEPT ![p] = "RUNNABLE"]
  /\ sw' = [sw EXCEPT ![p] = "yield"]
  /\ UNCHANGED <<chan, killed, pid, parent, nextpid, wlock, cpus, kpc, locals>>

-----------------------------------------------------------------------------
(* Traps *)

\* The locals of a function that has returned hold nothing.
LocalsDie(p) ==
  /\ ki' = [ki EXCEPT ![p] = 1]
  /\ kj' = [kj EXCEPT ![p] = 1]
  /\ knp' = [knp EXCEPT ![p] = initproc]
  /\ kids' = [kids EXCEPT ![p] = FALSE]
  /\ kpid' = [kpid EXCEPT ![p] = 0]

\* usertrap() on an ecall: a killed process exits, any other makes a system
\* call.  init is assumed never to call exit().
Syscall(c, p, call) ==
  /\ At(c, p, "user")
  /\ Free(p)
  /\ call = "exit" => p # initproc
  /\ call = "fork" => nextpid <= MaxPid
  /\ Goto(p, IF killed[p] THEN "exit" ELSE call)
  /\ ki' = [ki EXCEPT ![p] = 1]
  /\ kpid' \in {[kpid EXCEPT ![p] = n] :
                  n \in IF call = "kill" THEN KillPid ELSE {0}}
  /\ UNCHANGED <<table, locks, cpus, sw, kj, knp, kids>>

\* usertrap() after the system call: killed(p), exit(-1).
TrapReturn(c, p) ==
  /\ At(c, p, "trapret")
  /\ Free(p)
  /\ Goto(p, IF killed[p] THEN "exit" ELSE "user")
  /\ LocalsDie(p)
  /\ UNCHANGED <<table, locks, cpus, sw>>

-----------------------------------------------------------------------------
(* fork() *)

\* Mutant of FreeProc: p->killed survives the process.
FreeProcKeepsKilled(p) ==
  /\ pid' = [pid EXCEPT ![p] = 0]
  /\ parent' = [parent EXCEPT ![p] = NoProc]
  /\ chan' = [chan EXCEPT ![p] = NoProc]
  /\ state' = [state EXCEPT ![p] = "UNUSED"]
  /\ UNCHANGED killed

\* The fields freeproc() resets.
FreeProc(p) ==
  /\ pid' = [pid EXCEPT ![p] = 0]
  /\ parent' = [parent EXCEPT ![p] = NoProc]
  /\ chan' = [chan EXCEPT ![p] = NoProc]
  /\ killed' = [killed EXCEPT ![p] = FALSE]
  /\ state' = [state EXCEPT ![p] = "UNUSED"]

\* One iteration of allocproc()'s scan; on an UNUSED slot, the rest of
\* allocproc() and fork() up to release(&np->lock), or the failure of one of
\* their allocations.  ki > NPROC: no slot was free.
Fork(c, p) ==
  LET np == ki[p] IN
  /\ At(c, p, "fork")
  /\ IF np > NPROC
     THEN /\ Goto(p, "trapret")
          /\ UNCHANGED <<table, sw, ki, knp>>
     ELSE /\ Free(np)
          /\ IF state[np] # "UNUSED"
             THEN /\ ki' = [ki EXCEPT ![p] = np + 1]
                  /\ UNCHANGED <<table, kpc, sw, knp>>
             ELSE /\ nextpid' = nextpid + 1
                  /\ UNCHANGED ki
                  /\ \/ /\ pid' = [pid EXCEPT ![np] = nextpid]
                        /\ state' = [state EXCEPT ![np] = "USED"]
                        /\ sw' = [sw EXCEPT ![np] = "forkret"]
                        /\ knp' = [knp EXCEPT ![p] = np]
                        /\ kpc' = [kpc EXCEPT ![p] = "setparent",
                                              ![np] = "user"]
                        /\ UNCHANGED <<chan, killed, parent>>
                     \/ /\ FreeProc(np)
                        /\ Goto(p, "trapret")
                        /\ UNCHANGED <<sw, knp>>
  /\ UNCHANGED <<locks, cpus, kj, kids, kpid>>

\* acquire(&wait_lock); np->parent = p; release(&wait_lock).
ForkSetParent(c, p) ==
  /\ At(c, p, "setparent")
  /\ wlock = NoCpu
  /\ parent' = [parent EXCEPT ![knp[p]] = p]
  /\ Goto(p, "setrunnable")
  /\ UNCHANGED <<state, chan, killed, pid, nextpid, locks, cpus, sw, locals>>

ForkSetRunnable(c, p) ==
  /\ At(c, p, "setrunnable")
  /\ Free(knp[p])
  /\ state' = [state EXCEPT ![knp[p]] = "RUNNABLE"]
  /\ Goto(p, "trapret")
  /\ UNCHANGED <<chan, killed, pid, parent, nextpid, locks, cpus, sw, locals>>
-----------------------------------------------------------------------------
(* exit() *)

\* exit() up to acquire(&wait_lock); files and cwd are other modules' matter.
Exit(c, p) ==
  /\ At(c, p, "exit")
  /\ wlock = NoCpu
  /\ wlock' = c
  /\ ki' = [ki EXCEPT ![p] = 1]
  /\ Goto(p, "reparent")
  /\ UNCHANGED <<table, plock, cpus, sw, kj, knp, kids, kpid>>

\* One iteration of reparent(); after the last, wakeup(p->parent) begins.
Reparent(c, p) ==
  LET pp == ki[p] IN
  /\ At(c, p, "reparent")
  /\ kj' = [kj EXCEPT ![p] = 1]
  /\ IF pp > NPROC
     THEN /\ Goto(p, "wakeparent")
          /\ UNCHANGED <<parent, ki>>
     ELSE /\ ki' = [ki EXCEPT ![p] = pp + 1]
          /\ IF parent[pp] = p
             THEN /\ parent' = [parent EXCEPT ![pp] = initproc]
                  /\ Goto(p, "wakeinit")
             ELSE UNCHANGED <<parent, kpc>>
  /\ UNCHANGED <<state, chan, killed, pid, nextpid, locks, cpus, sw, knp,
                 kids, kpid>>

\* One iteration of wakeup(ch), called by p; next is where it returns to.
Wakeup(c, p, ch, next) ==
  LET q == kj[p] IN
  /\ IF q > NPROC
     THEN /\ Goto(p, next)
          /\ UNCHANGED <<state, kj>>
     ELSE /\ kj' = [kj EXCEPT ![p] = q + 1]
          /\ q # p => Free(q)
          /\ state' = [state EXCEPT ![q] =
                         IF q # p /\ @ = "SLEEPING" /\ chan[q] = ch
                         THEN "RUNNABLE" ELSE @]
          /\ UNCHANGED kpc
  /\ UNCHANGED <<chan, killed, pid, parent, nextpid, locks, cpus, sw, ki, knp,
                 kids, kpid>>

\* Mutant of WakeParent: exit() wakes init instead of the parent.
WakeInitOnly(c, p) ==
  At(c, p, "wakeparent") /\ Wakeup(c, p, initproc, "zombie")

WakeInit(c, p) ==
  At(c, p, "wakeinit") /\ Wakeup(c, p, initproc, "reparent")

WakeParent(c, p) ==
  At(c, p, "wakeparent") /\ Wakeup(c, p, parent[p], "zombie")

\* The end of exit(): p->lock is taken and kept for the scheduler to release.
Zombie(c, p) ==
  /\ At(c, p, "zombie")
  /\ Free(p)
  /\ plock' = [plock EXCEPT ![p] = c]
  /\ state' = [state EXCEPT ![p] = "ZOMBIE"]
  /\ wlock' = NoCpu
  /\ sw' = [sw EXCEPT ![p] = "exit"]
  /\ Goto(p, "user")
  /\ LocalsDie(p)
  /\ UNCHANGED <<chan, killed, pid, parent, nextpid, cpus>>

-----------------------------------------------------------------------------
(* wait() and kill() *)

\* acquire(&wait_lock), on entry and when sleep() returns, and the start of
\* the scan.
Wait(c, p) ==
  /\ At(c, p, "wait")
  /\ wlock = NoCpu
  /\ wlock' = c
  /\ ki' = [ki EXCEPT ![p] = 1]
  /\ kids' = [kids EXCEPT ![p] = FALSE]
  /\ Goto(p, "scan")
  /\ UNCHANGED <<table, plock, cpus, sw, kj, knp, kpid>>

\* Mutant of ChildSettled: pp->lock is not taken.
ChildUnlocked(pp) == TRUE

\* acquire(&pp->lock): the child is not still in exit() or swtch().
ChildSettled(pp) == Free(pp)

\* One iteration of the scan.  A ZOMBIE child is freed, unless the copyout of
\* its status fails; either way wait() returns.
WaitScan(c, p) ==
  LET pp == ki[p] IN
  /\ At(c, p, "scan")
  /\ pp <= NPROC
  /\ IF parent[pp] # p
     THEN /\ ki' = [ki EXCEPT ![p] = pp + 1]
          /\ UNCHANGED <<table, wlock, kpc, sw, kids>>
     ELSE /\ ChildSettled(pp)
          /\ kids' = [kids EXCEPT ![p] = TRUE]
          /\ IF state[pp] = "ZOMBIE"
             THEN /\ \/ FreeProc(pp) /\ sw' = [sw EXCEPT ![pp] = "none"]
                     \/ UNCHANGED <<state, chan, killed, pid, parent, sw>>
                  /\ wlock' = NoCpu
                  /\ Goto(p, "trapret")
                  /\ UNCHANGED <<ki, nextpid>>
             ELSE /\ ki' = [ki EXCEPT ![p] = pp + 1]
                  /\ UNCHANGED <<table, wlock, kpc, sw>>
  /\ UNCHANGED <<plock, cpus, kj, knp, kpid>>

\* The scan is over: -1 without children or when killed, else sleep.
WaitDecide(c, p) ==
  /\ At(c, p, "scan")
  /\ ki[p] > NPROC
  /\ Free(p)
  /\ IF ~kids[p] \/ killed[p]
     THEN wlock' = NoCpu /\ Goto(p, "trapret")
     ELSE UNCHANGED wlock /\ Goto(p, "sleep")
  /\ UNCHANGED <<table, plock, cpus, sw, locals>>

\* Mutant of Sleep: wait_lock is released before p->lock is taken.
SleepReleasesFirst(c, p) ==
  \/ /\ At(c, p, "sleep")
     /\ wlock = c
     /\ wlock' = NoCpu
     /\ UNCHANGED <<table, plock, cpus, kpc, sw, locals>>
  \/ /\ At(c, p, "sleep")
     /\ wlock # c
     /\ Free(p)
     /\ plock' = [plock EXCEPT ![p] = c]
     /\ chan' = [chan EXCEPT ![p] = p]
     /\ state' = [state EXCEPT ![p] = "SLEEPING"]
     /\ sw' = [sw EXCEPT ![p] = "sleep"]
     /\ Goto(p, "wait")
     /\ UNCHANGED <<killed, pid, parent, nextpid, wlock, cpus, locals>>

\* sleep(p, &wait_lock) up to sched(): p->lock is taken before wait_lock is
\* given up.  It returns into the reacquisition of wait_lock.
Sleep(c, p) ==
  /\ At(c, p, "sleep")
  /\ Free(p)
  /\ plock' = [plock EXCEPT ![p] = c]
  /\ wlock' = NoCpu
  /\ chan' = [chan EXCEPT ![p] = p]
  /\ state' = [state EXCEPT ![p] = "SLEEPING"]
  /\ sw' = [sw EXCEPT ![p] = "sleep"]
  /\ Goto(p, "wait")
  /\ UNCHANGED <<killed, pid, parent, nextpid, cpus, locals>>

\* One iteration of kill(): the first slot whose pid matches is marked and,
\* if asleep, made runnable.
Kill(c, p) ==
  LET q == ki[p] IN
  /\ At(c, p, "kill")
  /\ IF q > NPROC
     THEN /\ Goto(p, "trapret")
          /\ UNCHANGED <<state, killed, ki>>
     ELSE /\ Free(q)
          /\ IF pid[q] = kpid[p]
             THEN /\ killed' = [killed EXCEPT ![q] = TRUE]
                  /\ state' = [state EXCEPT ![q] =
                                 IF @ = "SLEEPING" THEN "RUNNABLE" ELSE @]
                  /\ Goto(p, "trapret")
                  /\ UNCHANGED ki
             ELSE /\ ki' = [ki EXCEPT ![p] = q + 1]
                  /\ UNCHANGED <<state, killed, kpc>>
  /\ UNCHANGED <<chan, pid, parent, nextpid, locks, cpus, sw, kj, knp, kids,
                 kpid>>

-----------------------------------------------------------------------------
Thread(c, p) ==
  \/ Sched(c, p) \/ Resume(c, p) \/ Yield(c, p)
  \/ \E call \in {"fork", "exit", "wait", "kill"} : Syscall(c, p, call)
  \/ TrapReturn(c, p)
  \/ Fork(c, p) \/ ForkSetParent(c, p) \/ ForkSetRunnable(c, p)
  \/ Exit(c, p) \/ Reparent(c, p) \/ WakeInit(c, p) \/ WakeParent(c, p)
  \/ Zombie(c, p)
  \/ Wait(c, p) \/ WaitScan(c, p) \/ WaitDecide(c, p) \/ Sleep(c, p)
  \/ Kill(c, p)

Next ==
  \E c \in CPU :
    \/ Scheduler(c)
    \/ SchedulerReturn(c)
    \/ \E p \in Slot : Thread(c, p)

Spec == Init /\ [][Next]_vars

-----------------------------------------------------------------------------
(* Properties *)

\* All values have their types.  A kernel stack is used by one CPU at a time
\* and never outlives its process: no slot is freed, or handed out again by
\* allocproc(), while a CPU is still in its exit() or swtch(), although the
\* parent may see ZOMBIE before the last switch away.  The panics of sched()
\* cannot happen: a thread that gives up its CPU holds its own p->lock and no
\* other lock, wait_lock included, and a ZOMBIE is never switched to ("zombie
\* exit").
StacksExclusive ==
  /\ TypeOK
  /\ \A c, d \in CPU : c # d /\ on[c] # NoProc => on[c] # on[d]
  /\ \A c \in CPU : on[c] # NoProc => state[on[c]] \notin {"UNUSED", "USED"}
  /\ \A p \in Slot : state[p] = "RUNNING" => \E c \in CPU : on[c] = p
  /\ \A c \in CPU : LET p == on[c] IN
       p # NoProc /\ sw[p] # "none" =>
         /\ Held(c) = {p}
         /\ wlock # c
         /\ sw[p] = "exit" => state[p] = "ZOMBIE"

\* Whenever wait_lock is free, a process's parent is alive and is one that
\* can still call wait(): exit() has handed every child to init before the
\* parent became a ZOMBIE.  Only a slot fork() is still filling in has none.  No
\* wakeup is lost between exit() and wait(): the parent of a ZOMBIE does not
\* sleep in wait().
ParentsCanWait ==
  wlock = NoCpu =>
    \A p \in Slot \ {initproc} :
      LET pp == parent[p] IN
      /\ pp # NoProc =>
           /\ state[pp] \notin {"UNUSED", "USED", "ZOMBIE"}
           /\ state[p] = "ZOMBIE" => ~(state[pp] = "SLEEPING" /\ chan[pp] = pp)
      /\ pp = NoProc => state[p] \in {"UNUSED", "USED"}

\* kill(pid) marks the process with that pid and nobody else: a process that
\* has been killed has a pid somebody passed to kill().
OnlyVictimsKilled ==
  \A p \in Slot : killed[p] /\ pid[p] # 0 => pid[p] \in KillPid
=============================================================================
